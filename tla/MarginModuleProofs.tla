------------------------- MODULE MarginModuleProofs -------------------------
(* What TLAPS proves of MarginModule for every value of the constants.     *)
EXTENDS MarginModule, SumLemmas, TLAPS

(* Holdings: what the array operations do to a sound sequence.             *)

Distinct(h) == \A i, j \in Ids(h) : h[i].asset = h[j].asset => i = j

\* HoldingsSound of one position: base first, no asset twice, no empty slot.
Sound(h, base) ==
    /\ h \in Seq(Holding) /\ h # <<>> /\ h[1].asset = base
    /\ Distinct(h)
    /\ \A i \in 2 .. Len(h) : h[i].bal > 0

LEMMA HoldingParts ==
  ASSUME NEW h \in Seq(Holding), NEW i \in Ids(h)
  PROVE  h[i] \in Holding /\ h[i].asset \in Tokens /\ h[i].bal \in Nat
<1>1. h[i] \in Holding
  BY DEF Ids
<1> QED
  BY <1>1 DEF Holding

LEMMA SoundLen ==
  ASSUME NEW h, NEW base, Sound(h, base)
  PROVE  Len(h) \in Nat \ {0} /\ 1 \in Ids(h) /\ h \in Seq(Holding)
BY DEF Sound, Ids

LEMMA FindAsset ==
  ASSUME NEW h \in Seq(Holding), Distinct(h), NEW i \in Ids(h)
  PROVE  getAssetId(h, h[i].asset) = i
<1> DEFINE Here(k) == h[k].asset = h[i].asset /\ \A j \in 1 .. k - 1 : h[j].asset # h[i].asset
<1>1. Here(i)
  <2>1. \A j \in 1 .. i - 1 : j \in Ids(h) /\ j # i
    BY DEF Ids
  <2> QED
    BY <2>1 DEF Distinct
<1>2. getAssetId(h, h[i].asset) = CHOOSE k \in Ids(h) : Here(k)
  BY DEF getAssetId
<1>3. getAssetId(h, h[i].asset) \in Ids(h) /\ Here(getAssetId(h, h[i].asset))
  BY <1>1, <1>2
<1> QED
  BY <1>3 DEF Distinct

LEMMA NoAsset ==
  ASSUME NEW h \in Seq(Holding), NEW asset, \A i \in Ids(h) : h[i].asset # asset
  PROVE  getAssetId(h, asset) = Len(h) + 1 /\ Len(h) + 1 \notin Ids(h)
BY DEF getAssetId, Ids

\* What the array operations do to one slot: set its balance, append it, or
\* remove it by moving the last one into it.
SlotSet(h, g, i, x) ==
    /\ g \in Seq(Holding) /\ Len(g) = Len(h)
    /\ \A k \in Ids(h) : /\ g[k].asset = h[k].asset
                         /\ g[k].bal = IF k = i THEN x ELSE h[k].bal
                         /\ k # i => g[k] = h[k]
SlotAdded(h, g, asset, amount) ==
    /\ g \in Seq(Holding) /\ Len(g) = Len(h) + 1
    /\ \A k \in Ids(h) : g[k] = h[k]
    /\ g[Len(h) + 1] = [asset |-> asset, bal |-> amount]
SlotGone(h, g, i) ==
    /\ g \in Seq(Holding) /\ Len(g) = Len(h) - 1
    /\ \A k \in 1 .. Len(h) - 1 : g[k] = IF k = i THEN h[Len(h)] ELSE h[k]

\* Setting the balance of one slot.
WithBal(h, i, x) == [h EXCEPT ![i].bal = x]

LEMMA SetBal ==
  ASSUME NEW h \in Seq(Holding), NEW i \in Ids(h), NEW x \in Nat,
         NEW g, g = WithBal(h, i, x)
  PROVE  SlotSet(h, g, i, x)
<1> DEFINE slot == [asset |-> h[i].asset, bal |-> x]
<1>0. h[i] \in Holding /\ h[i].asset \in Tokens
  BY HoldingParts
<1>1. h[i] = [asset |-> h[i].asset, bal |-> h[i].bal] /\ h[i].asset \in Tokens
  BY <1>0 DEF Holding
<1>2. [h[i] EXCEPT !.bal = x] = slot
  BY <1>1
<1>3. g = [h EXCEPT ![i] = slot]
  BY <1>2, Zenon DEF WithBal
<1>4. slot \in Holding
  BY <1>1 DEF Holding
<1>5. slot.asset = h[i].asset /\ slot.bal = x
  OBVIOUS
<1> HIDE DEF slot
<1>6. g \in Seq(Holding) /\ Len(g) = Len(h)
  BY <1>3, <1>4 DEF Ids
<1>7. \A k \in Ids(h) : g[k] = IF k = i THEN slot ELSE h[k]
  BY <1>3 DEF Ids
<1> QED
  BY <1>5, <1>6, <1>7 DEF SlotSet

\* addAsset tops the slot of an asset up, or appends one.
LEMMA AddTopsUp ==
  ASSUME NEW h \in Seq(Holding), Distinct(h), NEW i \in Ids(h), NEW amount \in Nat,
         NEW g, g = addAsset(h, h[i].asset, amount)
  PROVE  SlotSet(h, g, i, h[i].bal + amount)
<1>1. getAssetId(h, h[i].asset) = i
  BY FindAsset
<1>2. g = WithBal(h, i, h[i].bal + amount)
  BY <1>1, Zenon DEF addAsset, WithBal
<1>3. h[i].bal + amount \in Nat
  BY HoldingParts
<1> QED
  BY <1>2, <1>3, SetBal

LEMMA AddAppends ==
  ASSUME NEW h \in Seq(Holding), NEW asset \in Tokens, \A i \in Ids(h) : h[i].asset # asset,
         NEW amount \in Nat,
         NEW g, g = addAsset(h, asset, amount)
  PROVE  SlotAdded(h, g, asset, amount)
<1>1. addAsset(h, asset, amount) = Append(h, [asset |-> asset, bal |-> amount])
  BY NoAsset DEF addAsset
<1>2. [asset |-> asset, bal |-> amount] \in Holding
  BY DEF Holding
<1> QED
  BY <1>1, <1>2 DEF Ids, SlotAdded

\* What CanAdd lets in keeps the holdings sound.
LEMMA AddSound ==
  ASSUME NEW h, NEW base, Sound(h, base), NEW asset \in Tokens, NEW amount \in Nat,
         NEW limit \in Nat, CanAdd(h, asset, amount, limit)
  PROVE  /\ Sound(addAsset(h, asset, amount), base)
         /\ Len(addAsset(h, asset, amount)) >= Len(h)
         /\ Len(h) <= limit => Len(addAsset(h, asset, amount)) <= limit
         /\ addAsset(h, asset, amount)[1].bal >= h[1].bal
<1> DEFINE g == addAsset(h, asset, amount)
<1>0. h \in Seq(Holding) /\ Distinct(h) /\ Len(h) \in Nat \ {0} /\ 1 \in Ids(h)
  BY SoundLen DEF Sound
<1>1. CASE \E i \in Ids(h) : h[i].asset = asset
  <2>1. PICK i \in Ids(h) : h[i].asset = asset
    BY <1>1
  <2>2. SlotSet(h, g, i, h[i].bal + amount)
    BY <1>0, <2>1, AddTopsUp
  <2> HIDE DEF g
  <2>3. \A k \in Ids(h) : g[k].asset = h[k].asset /\ g[k].bal >= h[k].bal /\ h[k].bal \in Nat
                          /\ g[k].bal \in Nat
    <3> SUFFICES ASSUME NEW k \in Ids(h)
                 PROVE g[k].asset = h[k].asset /\ g[k].bal >= h[k].bal /\ h[k].bal \in Nat
                       /\ g[k].bal \in Nat
      OBVIOUS
    <3>1. h[k].bal \in Nat
      BY <1>0, HoldingParts
    <3> QED
      BY <3>1, <2>2 DEF SlotSet
  <2>4. Ids(g) = Ids(h) /\ g # <<>>
    BY <2>2, <1>0 DEF Ids, SlotSet
  <2>5. Distinct(g)
    BY <1>0, <2>3, <2>4 DEF Distinct
  <2>6. g[1].asset = base
    BY <1>0, <2>3 DEF Sound
  <2>7. \A k \in 2 .. Len(g) : g[k].bal > 0
    <3> SUFFICES ASSUME NEW k \in 2 .. Len(g) PROVE g[k].bal > 0
      OBVIOUS
    <3>1. k \in Ids(h) /\ h[k].bal > 0
      BY <2>2, <1>0 DEF Sound, Ids, SlotSet
    <3> QED
      BY <3>1, <2>3
  <2>8. Sound(g, base)
    BY <2>2, <2>4, <2>5, <2>6, <2>7 DEF Sound, SlotSet
  <2> QED
    BY <2>2, <2>3, <2>8, <1>0 DEF g, SlotSet
<1>2. CASE ~ \E i \in Ids(h) : h[i].asset = asset
  <2>1. SlotAdded(h, g, asset, amount)
    BY <1>0, <1>2, AddAppends
  <2>2. Len(h) + 1 <= limit /\ amount > 0
    BY <1>0, <1>2, NoAsset DEF CanAdd
  <2> HIDE DEF g
  <2>3. Distinct(g)
    <3>1. Ids(g) = Ids(h) \cup {Len(h) + 1}
      BY <2>1, <1>0 DEF Ids, SlotAdded
    <3>2. \A k \in Ids(h) : g[k].asset = h[k].asset /\ g[k].asset # asset
      BY <2>1, <1>2 DEF SlotAdded
    <3>3. g[Len(h) + 1].asset = asset
      BY <2>1 DEF SlotAdded
    <3> QED
      BY <1>0, <3>1, <3>2, <3>3 DEF Distinct
  <2>4. \A k \in 2 .. Len(g) : g[k].bal > 0
    <3> SUFFICES ASSUME NEW k \in 2 .. Len(g) PROVE g[k].bal > 0
      OBVIOUS
    <3>1. CASE k = Len(h) + 1
      BY <3>1, <2>1, <2>2 DEF SlotAdded
    <3>2. CASE k # Len(h) + 1
      <4>1. k \in Ids(h) /\ k \in 2 .. Len(h)
        BY <3>2, <2>1, <1>0 DEF Ids, SlotAdded
      <4> QED
        BY <4>1, <2>1 DEF Sound, SlotAdded
    <3> QED
      BY <3>1, <3>2
  <2>5. g # <<>> /\ g[1] = h[1] /\ h[1].bal \in Nat
    BY <2>1, <1>0, HoldingParts DEF SlotAdded
  <2>6. Sound(g, base)
    BY <2>1, <2>3, <2>4, <2>5 DEF Sound, SlotAdded
  <2> QED
    BY <2>1, <2>2, <2>5, <2>6, <1>0 DEF g, SlotAdded
<1> QED
  BY <1>1, <1>2

\* reduceAsset lowers a slot, or takes it out: the last slot moves into it.
LEMMA ReduceKeeps ==
  ASSUME NEW h \in Seq(Holding), Distinct(h), NEW i \in Ids(h), NEW amount \in Nat,
         amount <= h[i].bal, i = 1 \/ amount # h[i].bal,
         NEW g, g = reduceAsset(h, h[i].asset, amount)
  PROVE  SlotSet(h, g, i, h[i].bal - amount)
<1> DEFINE less == WithBal(h, i, h[i].bal - amount)
<1>1. getAssetId(h, h[i].asset) = i
  BY FindAsset
<1>2. h[i].bal \in Nat /\ h[i].bal - amount \in Nat
  BY HoldingParts
<1>3. SlotSet(h, less, i, h[i].bal - amount)
  BY <1>2, SetBal
<1>4. g = IF less[i].bal = 0 THEN removeAsset(less, i) ELSE less
  BY <1>1, Zenon DEF reduceAsset, WithBal
<1> HIDE DEF less
<1>5. g = less
  BY <1>2, <1>3, <1>4 DEF removeAsset, SlotSet
<1> QED
  BY <1>3, <1>5

LEMMA ReducePops ==
  ASSUME NEW h \in Seq(Holding), Distinct(h), NEW i \in Ids(h), i # 1,
         NEW g, g = reduceAsset(h, h[i].asset, h[i].bal)
  PROVE  SlotGone(h, g, i)
<1> DEFINE less == WithBal(h, i, h[i].bal - h[i].bal)
<1>1. getAssetId(h, h[i].asset) = i
  BY FindAsset
<1>2. h[i].bal - h[i].bal = 0 /\ Len(h) \in Nat /\ Len(h) >= 2 /\ Len(h) \in Ids(h)
  BY HoldingParts DEF Ids
<1>3. SlotSet(h, less, i, 0)
  BY <1>2, SetBal
<1>4. g = IF less[i].bal = 0 THEN removeAsset(less, i) ELSE less
  BY <1>1, Zenon DEF reduceAsset, WithBal
<1> HIDE DEF less
<1> DEFINE moved == [less EXCEPT ![i] = less[Len(less)]]
<1>5. g = SubSeq(moved, 1, Len(h) - 1)
  BY <1>3, <1>4 DEF removeAsset, SlotSet, SlotGone
<1>6. less[Len(h)] \in Holding
  BY <1>2, <1>3 DEF Ids, SlotSet, SlotGone
<1>7. moved \in Seq(Holding) /\ Len(moved) = Len(h)
      /\ \A k \in Ids(h) : moved[k] = IF k = i THEN less[Len(h)] ELSE less[k]
  BY <1>3, <1>6 DEF Ids, SlotSet, SlotGone
<1> HIDE DEF moved
<1>8. /\ g \in Seq(Holding) /\ Len(g) = Len(h) - 1
      /\ \A k \in 1 .. Len(h) - 1 : g[k] = moved[k]
  BY <1>2, <1>5, <1>7
<1>9. ASSUME NEW k \in 1 .. Len(h) - 1
      PROVE  moved[k] = IF k = i THEN h[Len(h)] ELSE h[k]
  <2>1. k \in Ids(h) /\ k # Len(h) /\ (i = k => i # Len(h))
    BY <1>2 DEF Ids
  <2> QED
    BY <2>1, <1>2, <1>3, <1>7 DEF SlotSet, SlotGone
<1> QED
  BY <1>8, <1>9 DEF SlotSet, SlotGone

Reduced(h, g, base, i) ==
    /\ Sound(g, base) /\ Len(g) <= Len(h) /\ Len(g) >= Len(h) - 1
    /\ i > 1 => /\ g[1] = h[1]
                /\ \A k \in 2 .. i - 1 : g[k] = h[k]

LEMMA ReduceSound ==
  ASSUME NEW h, NEW base, Sound(h, base), NEW i \in Ids(h), NEW amount \in Nat,
         amount <= h[i].bal
  PROVE  Reduced(h, reduceAsset(h, h[i].asset, amount), base, i)
<1>g. PICK g : g = reduceAsset(h, h[i].asset, amount)
  OBVIOUS
<1> SUFFICES Reduced(h, g, base, i)
  BY <1>g
<1>0. h \in Seq(Holding) /\ Distinct(h) /\ Len(h) \in Nat \ {0} /\ 1 \in Ids(h)
  BY SoundLen DEF Sound
<1>1. CASE i = 1 \/ amount # h[i].bal
  <2>1. SlotSet(h, g, i, h[i].bal - amount)
    BY <1>g, <1>0, <1>1, ReduceKeeps
  <2>2. Ids(g) = Ids(h) /\ g # <<>>
    BY <2>1, <1>0 DEF Ids, SlotSet
  <2>3. Distinct(g) /\ g[1].asset = base
    BY <1>0, <2>1, <2>2 DEF Distinct, Sound, SlotSet
  <2>4. \A k \in 2 .. Len(g) : g[k].bal > 0
    <3> SUFFICES ASSUME NEW k \in 2 .. Len(g) PROVE g[k].bal > 0
      OBVIOUS
    <3>1. k \in Ids(h) /\ h[k].bal > 0 /\ h[k].bal \in Nat
      BY <2>1, <1>0, HoldingParts DEF Sound, Ids, SlotSet
    <3>2. k = i => h[i].bal - amount > 0
      BY <1>1, <3>1
    <3> QED
      BY <2>1, <3>1, <3>2 DEF SlotSet
  <2>5. Sound(g, base)
    BY <2>1, <2>2, <2>3, <2>4 DEF Sound, SlotSet
  <2>6. i > 1 => \A k \in 1 .. i - 1 : k \in Ids(h) /\ k # i
    BY DEF Ids
  <2> QED
    BY <2>1, <2>5, <2>6, <1>0 DEF SlotSet, Reduced
<1>2. CASE i # 1 /\ amount = h[i].bal
  <2>1. SlotGone(h, g, i)
    BY <1>g, <1>0, <1>2, ReducePops
  <2>2. i \in 2 .. Len(h) /\ Ids(g) = 1 .. Len(h) - 1 /\ Ids(h) = 1 .. Len(h) /\ g # <<>>
    BY <2>1, <1>0, <1>2 DEF Ids, SlotGone
  <2> DEFINE from(k) == IF k = i THEN Len(h) ELSE k
  <2>3. \A k \in Ids(g) : from(k) \in Ids(h) /\ g[k] = h[from(k)]
    BY <2>1, <2>2 DEF SlotGone
  <2>4. \A k, m \in Ids(g) : from(k) = from(m) => k = m
    BY <2>2, <1>0
  <2>5. Distinct(g)
    <3> HIDE DEF from
    <3> QED
      BY <1>0, <2>3, <2>4 DEF Distinct
  <2>6. g[1] = h[1]
    BY <2>1, <2>2 DEF SlotGone
  <2>7. \A k \in 2 .. Len(g) : g[k].bal > 0
    BY <2>1, <2>2, <1>0 DEF Sound, SlotGone
  <2>8. Sound(g, base)
    BY <2>1, <2>2, <2>5, <2>6, <2>7 DEF Sound, SlotGone
  <2> QED
    BY <2>1, <2>2, <2>6, <2>8, <1>0 DEF SlotGone, Reduced
<1> QED
  BY <1>1, <1>2

\* Slots of other assets are left alone.
LEMMA AddLeaves ==
  ASSUME NEW h \in Seq(Holding), Distinct(h), NEW i \in Ids(h), NEW asset \in Tokens,
         asset # h[i].asset, NEW amount \in Nat, NEW g, g = addAsset(h, asset, amount)
  PROVE  i \in Ids(g) /\ g[i] = h[i]
<1>1. CASE \E k \in Ids(h) : h[k].asset = asset
  <2>1. PICK k \in Ids(h) : h[k].asset = asset
    BY <1>1
  <2>2. Len(g) = Len(h) /\ g[i] = h[i]
    BY <2>1, AddTopsUp DEF SlotSet
  <2> QED
    BY <2>2 DEF Ids
<1>2. CASE ~ \E k \in Ids(h) : h[k].asset = asset
  <2>1. SlotAdded(h, g, asset, amount)
    BY <1>2, AddAppends
  <2> QED
    BY <2>1 DEF Ids, SlotAdded
<1> QED
  BY <1>1, <1>2

\* A swap within the currency limit keeps the holdings sound.
LEMMA SwapSound ==
  ASSUME NEW h, NEW base, Sound(h, base), NEW i \in Ids(h), NEW asset2 \in Tokens,
         asset2 # h[i].asset, NEW out \in Nat, NEW used \in Nat, used <= h[i].bal,
         NEW limit \in Nat, CanAdd(h, asset2, out, limit),
         NEW g, g = reduceAsset(addAsset(h, asset2, out), h[i].asset, used)
  PROVE  Sound(g, base) /\ (Len(h) <= limit => Len(g) <= limit)
<1>a. PICK a : a = addAsset(h, asset2, out)
  OBVIOUS
<1>0. h \in Seq(Holding) /\ Distinct(h)
  BY SoundLen DEF Sound
<1>1. Sound(a, base) /\ Len(a) >= Len(h) /\ (Len(h) <= limit => Len(a) <= limit)
  BY <1>a, AddSound
<1>3. i \in Ids(a) /\ a[i].asset = h[i].asset /\ a[i].bal = h[i].bal
  BY <1>a, <1>0, AddLeaves
<1>4. g = reduceAsset(a, a[i].asset, used)
  BY <1>a, <1>3
<1>5. Sound(g, base) /\ Len(g) <= Len(a)
  BY <1>1, <1>3, <1>4, ReduceSound DEF Reduced
<1> QED
  BY <1>1, <1>5, SoundLen

\* A sale tops the base asset up and leaves the slots before it alone.
SoldSlot(h, g, base, i, out) ==
    /\ Sound(g, base) /\ Len(g) <= Len(h) /\ Len(g) >= i - 1
    /\ g[1].bal = h[1].bal + out
    /\ \A k \in 2 .. i - 1 : g[k] = h[k]

LEMMA SellSound ==
  ASSUME NEW h, NEW base, Sound(h, base), NEW i \in 2 .. Len(h),
         NEW out \in Nat, NEW used \in Nat, used <= h[i].bal
  PROVE  SoldSlot(h, reduceAsset(addAsset(h, base, out), h[i].asset, used), base, i, out)
<1>g. PICK g : g = reduceAsset(addAsset(h, base, out), h[i].asset, used)
  OBVIOUS
<1> DEFINE a == addAsset(h, base, out)
<1>0. /\ h \in Seq(Holding) /\ Distinct(h) /\ Len(h) \in Nat \ {0} /\ 1 \in Ids(h)
      /\ i \in Ids(h) /\ h[1].asset = base /\ i > 1
  BY SoundLen DEF Sound, Ids
<1>1. SlotSet(h, a, 1, h[1].bal + out)
  BY <1>0, AddTopsUp
<1>2. Sound(a, base)
  <2>1. CanAdd(h, base, out, 0)
    BY <1>0, FindAsset DEF CanAdd
  <2>2. base \in Tokens
    BY <1>0, HoldingParts
  <2> QED
    BY <2>1, <2>2, AddSound
<1> HIDE DEF a
<1>3. g = reduceAsset(a, a[i].asset, used) /\ i \in Ids(a) /\ used <= a[i].bal
  BY <1>g, <1>0, <1>1 DEF a, Ids, SlotSet
<1>4. /\ Sound(g, base) /\ Len(g) <= Len(a) /\ Len(g) >= Len(a) - 1 /\ g[1] = a[1]
      /\ \A k \in 2 .. i - 1 : g[k] = a[k]
  BY <1>0, <1>2, <1>3, ReduceSound DEF Reduced
<1>5. \A k \in 2 .. i - 1 : k \in Ids(h) /\ k # 1
  BY <1>0 DEF Ids
<1>6. Len(g) \in Nat
  BY <1>4, SoundLen
<1>7. Len(g) <= Len(h) /\ Len(g) >= i - 1
  <2>1. Len(a) = Len(h)
    BY <1>1 DEF SlotSet
  <2> QED
    BY <1>0, <1>4, <1>6, <2>1
<1>8. g[1].bal = h[1].bal + out
  <2>1. a[1].bal = h[1].bal + out
    BY <1>0, <1>1 DEF SlotSet
  <2> QED
    BY <1>4, <2>1
<1>9. \A k \in 2 .. i - 1 : g[k] = h[k]
  <2>1. \A k \in 2 .. i - 1 : a[k] = h[k]
    BY <1>1, <1>5 DEF SlotSet
  <2> QED
    BY <1>4, <2>1
<1> QED
  BY <1>g, <1>4, <1>7, <1>8, <1>9 DEF SoldSlot

-----------------------------------------------------------------------------
(* Totals over holdings.  A weight gives every holding a number; a total   *)
(* follows the array operations whatever slot they touch or move.          *)

Weigh(W, h) == SumFunction([i \in Ids(h) |-> W[h[i]]])

Slot(asset, bal) == [asset |-> asset, bal |-> bal]

LEMMA SlotIsHolding ==
  ASSUME NEW asset \in Tokens, NEW bal \in Nat
  PROVE  Slot(asset, bal) \in Holding /\ Slot(asset, bal).asset = asset /\ Slot(asset, bal).bal = bal
BY DEF Slot, Holding

LEMMA HoldingIsSlot ==
  ASSUME NEW x \in Holding
  PROVE  x = Slot(x.asset, x.bal) /\ x.asset \in Tokens /\ x.bal \in Nat
BY DEF Slot, Holding

LEMMA WeighInt ==
  ASSUME NEW W \in [Holding -> Int], NEW h \in Seq(Holding)
  PROVE  Weigh(W, h) \in Int
<1> DEFINE f == [i \in Ids(h) |-> W[h[i]]]
<1>1. f \in [Ids(h) -> Int] /\ DOMAIN f = Ids(h)
  BY HoldingParts
<1>2. IsFiniteSet(Ids(h))
  BY FS_Interval DEF Ids
<1> HIDE DEF f
<1>3. SumFunctionOnSet(f, DOMAIN f) \in Int
  BY <1>1, <1>2, SumInt
<1> QED
  BY <1>3 DEF f, Weigh, SumFunction

\* One slot rewritten.
LEMMA WeighSet ==
  ASSUME NEW W \in [Holding -> Int], NEW h \in Seq(Holding), NEW g \in Seq(Holding),
         Len(g) = Len(h), NEW i \in Ids(h), \A k \in Ids(h) : k # i => g[k] = h[k]
  PROVE  Weigh(W, g) = Weigh(W, h) - W[h[i]] + W[g[i]]
<1> DEFINE f == [k \in Ids(h) |-> W[h[k]]]
           e == [k \in Ids(g) |-> W[g[k]]]
<1>1. Ids(g) = Ids(h) /\ Ids(h) = 1 .. Len(h) /\ Len(h) \in Nat
  BY DEF Ids
<1>2. f \in [1 .. Len(h) -> Int] /\ e \in [1 .. Len(h) -> Int]
  BY <1>1, HoldingParts
<1>3. /\ \A k \in 1 .. Len(h) : k # i => e[k] = f[k]
      /\ f[i] = W[h[i]] /\ e[i] = W[g[i]]
  BY <1>1
<1> HIDE DEF f, e
<1>4. SumFunction(e) = SumFunction(f) - f[i] + e[i]
  BY <1>1, <1>2, <1>3, SumOverSet
<1> QED
  BY <1>3, <1>4 DEF f, e, Weigh

\* One slot appended.
LEMMA WeighAppend ==
  ASSUME NEW W \in [Holding -> Int], NEW h \in Seq(Holding), NEW g \in Seq(Holding),
         Len(g) = Len(h) + 1, \A k \in Ids(h) : g[k] = h[k]
  PROVE  Weigh(W, g) = Weigh(W, h) + W[g[Len(h) + 1]]
<1> DEFINE f == [k \in Ids(h) |-> W[h[k]]]
           e == [k \in Ids(g) |-> W[g[k]]]
<1>1. /\ Ids(g) = 1 .. Len(h) + 1 /\ Ids(h) = 1 .. Len(h) /\ Len(h) \in Nat
      /\ Len(h) + 1 \in Ids(g)
  BY DEF Ids
<1>2. f \in [1 .. Len(h) -> Int] /\ e \in [1 .. Len(h) + 1 -> Int]
  BY <1>1, HoldingParts
<1>3. e[Len(h) + 1] = W[g[Len(h) + 1]]
  BY <1>1
<1>5. \A k \in 1 .. Len(h) : e[k] = f[k]
  <2>1. \A k \in 1 .. Len(h) : k \in Ids(h) /\ k \in Ids(g)
    BY <1>1
  <2> QED
    BY <2>1
<1> HIDE DEF f, e
<1>4. SumFunction(e) = SumFunction(f) + e[Len(h) + 1]
  BY <1>1, <1>2, <1>5, SumAppend
<1> QED
  BY <1>3, <1>4 DEF f, e, Weigh

\* One slot removed, the last one moved into it.
LEMMA WeighPop ==
  ASSUME NEW W \in [Holding -> Int], NEW h \in Seq(Holding), NEW g \in Seq(Holding),
         Len(g) = Len(h) - 1, NEW i \in Ids(h),
         \A k \in 1 .. Len(h) - 1 : g[k] = IF k = i THEN h[Len(h)] ELSE h[k]
  PROVE  Weigh(W, g) = Weigh(W, h) - W[h[i]]
<1> DEFINE f == [k \in Ids(h) |-> W[h[k]]]
           e == [k \in Ids(g) |-> W[g[k]]]
<1>1. /\ Ids(g) = 1 .. Len(h) - 1 /\ Ids(h) = 1 .. Len(h) /\ Len(h) \in Nat \ {0} /\ Len(h) \in Ids(h)
      /\ i \in 1 .. Len(h)
  BY DEF Ids
<1>2. f \in [1 .. Len(h) -> Int] /\ e \in [1 .. Len(h) - 1 -> Int]
  BY <1>1, HoldingParts
<1>3. /\ \A k \in 1 .. Len(h) - 1 : e[k] = IF k = i THEN f[Len(h)] ELSE f[k]
      /\ f[i] = W[h[i]]
  BY <1>1
<1> HIDE DEF f, e
<1>4. SumFunction(e) = SumFunction(f) - f[i]
  BY <1>1, <1>2, <1>3, SumPop
<1> QED
  BY <1>3, <1>4 DEF f, e, Weigh

LEMMA AddTopsUpWeight ==
  ASSUME NEW W \in [Holding -> Int], NEW h \in Seq(Holding), Distinct(h), NEW i \in Ids(h),
         NEW amount \in Nat, NEW g, g = addAsset(h, h[i].asset, amount)
  PROVE  Weigh(W, g) = Weigh(W, h) - W[h[i]] + W[Slot(h[i].asset, h[i].bal + amount)]
<1>1. SlotSet(h, g, i, h[i].bal + amount)
  BY AddTopsUp
<1>2. Weigh(W, g) = Weigh(W, h) - W[h[i]] + W[g[i]]
  BY <1>1, WeighSet DEF SlotSet
<1>3. g[i] \in Holding
  BY <1>1, HoldingParts DEF Ids, SlotSet
<1> QED
  BY <1>1, <1>2, <1>3, HoldingIsSlot DEF SlotSet

LEMMA AddAppendsWeight ==
  ASSUME NEW W \in [Holding -> Int], NEW h \in Seq(Holding), NEW asset \in Tokens,
         \A i \in Ids(h) : h[i].asset # asset,
         NEW amount \in Nat, NEW g, g = addAsset(h, asset, amount)
  PROVE  Weigh(W, g) = Weigh(W, h) + W[Slot(asset, amount)]
<1>1. SlotAdded(h, g, asset, amount)
  BY AddAppends
<1>2. Weigh(W, g) = Weigh(W, h) + W[g[Len(h) + 1]]
  BY <1>1, WeighAppend DEF SlotAdded
<1> QED
  BY <1>1, <1>2 DEF Slot, SlotAdded

LEMMA ReduceWeight ==
  ASSUME NEW W \in [Holding -> Int], \A t \in Tokens : W[Slot(t, 0)] = 0,
         NEW h \in Seq(Holding), Distinct(h), NEW i \in Ids(h),
         NEW amount \in Nat, amount <= h[i].bal,
         NEW g, g = reduceAsset(h, h[i].asset, amount)
  PROVE  Weigh(W, g) = Weigh(W, h) - W[h[i]] + W[Slot(h[i].asset, h[i].bal - amount)]
<1>1. CASE i = 1 \/ amount # h[i].bal
  <2>1. SlotSet(h, g, i, h[i].bal - amount)
    BY <1>1, ReduceKeeps
  <2>2. Weigh(W, g) = Weigh(W, h) - W[h[i]] + W[g[i]]
    BY <2>1, WeighSet DEF SlotSet
  <2>3. g[i] \in Holding
    BY <2>1, HoldingParts DEF Ids, SlotSet
  <2> QED
    BY <2>1, <2>2, <2>3, HoldingIsSlot DEF SlotSet
<1>2. CASE i # 1 /\ amount = h[i].bal
  <2>1. SlotGone(h, g, i)
    BY <1>2, ReducePops
  <2>2. Weigh(W, g) = Weigh(W, h) - W[h[i]]
    BY <2>1, WeighPop DEF SlotGone
  <2>3. h[i].asset \in Tokens /\ h[i].bal \in Nat /\ h[i] \in Holding
    BY HoldingParts
  <2>4. h[i].bal - amount = 0 /\ W[Slot(h[i].asset, 0)] = 0
    BY <1>2, <2>3
  <2>5. Weigh(W, h) \in Int /\ W[h[i]] \in Int
    BY <2>3, WeighInt
  <2> QED
    BY <2>2, <2>4, <2>5
<1> QED
  BY <1>1, <1>2

\* How much of a token the holdings are.
OfToken(t) == [x \in Holding |-> IF x.asset = t THEN x.bal ELSE 0]
Amount(h, t) == Weigh(OfToken(t), h)

LEMMA OfTokenWeight ==
  ASSUME NEW t
  PROVE  /\ OfToken(t) \in [Holding -> Int]
         /\ \A x \in Holding : OfToken(t)[x] = IF x.asset = t THEN x.bal ELSE 0
         /\ \A a \in Tokens, b \in Nat : OfToken(t)[Slot(a, b)] = IF a = t THEN b ELSE 0
<1>1. \A x \in Holding : x.bal \in Int
  BY HoldingIsSlot
<1> QED
  BY <1>1, SlotIsHolding DEF OfToken

LEMMA AmountInt ==
  ASSUME NEW h \in Seq(Holding), NEW t
  PROVE  Amount(h, t) \in Int
BY OfTokenWeight, WeighInt DEF Amount

LEMMA HoldsIsAmount ==
  ASSUME NEW pos, pos.holdings \in Seq(Holding), NEW t
  PROVE  Holds(pos, t) = Amount(pos.holdings, t)
<1> DEFINE h == pos.holdings
<1>1. \A i \in Ids(h) : OfToken(t)[h[i]] = IF h[i].asset = t THEN h[i].bal ELSE 0
  BY OfTokenWeight, HoldingParts
<1>2. [i \in Ids(h) |-> IF h[i].asset = t THEN h[i].bal ELSE 0] = [i \in Ids(h) |-> OfToken(t)[h[i]]]
  BY <1>1
<1> QED
  BY <1>2 DEF Holds, Amount, Weigh

LEMMA AddAmount ==
  ASSUME NEW h \in Seq(Holding), Distinct(h), NEW asset \in Tokens, NEW amount \in Nat, NEW t
  PROVE  Amount(addAsset(h, asset, amount), t) = Amount(h, t) + (IF asset = t THEN amount ELSE 0)
<1>g. PICK g : g = addAsset(h, asset, amount)
  OBVIOUS
<1>0. OfToken(t) \in [Holding -> Int] /\ Amount(h, t) \in Int
  BY OfTokenWeight, AmountInt
<1>1. CASE \E k \in Ids(h) : h[k].asset = asset
  <2>1. PICK i \in Ids(h) : h[i].asset = asset
    BY <1>1
  <2>2. h[i] \in Holding /\ h[i].bal \in Nat /\ h[i].bal + amount \in Nat
    BY HoldingParts
  <2>3. Weigh(OfToken(t), g) = Weigh(OfToken(t), h) - OfToken(t)[h[i]]
                               + OfToken(t)[Slot(h[i].asset, h[i].bal + amount)]
    BY <1>g, <1>0, <2>1, AddTopsUpWeight
  <2>4. /\ OfToken(t)[h[i]] = IF asset = t THEN h[i].bal ELSE 0
        /\ OfToken(t)[Slot(h[i].asset, h[i].bal + amount)] = IF asset = t THEN h[i].bal + amount ELSE 0
    BY <2>1, <2>2, OfTokenWeight
  <2> QED
    BY <1>g, <1>0, <2>2, <2>3, <2>4 DEF Amount
<1>2. CASE ~ \E k \in Ids(h) : h[k].asset = asset
  <2>1. Weigh(OfToken(t), g) = Weigh(OfToken(t), h) + OfToken(t)[Slot(asset, amount)]
    BY <1>g, <1>0, <1>2, AddAppendsWeight
  <2> QED
    BY <1>g, <2>1, OfTokenWeight DEF Amount
<1> QED
  BY <1>1, <1>2

LEMMA ReduceAmount ==
  ASSUME NEW h \in Seq(Holding), Distinct(h), NEW i \in Ids(h), NEW amount \in Nat,
         amount <= h[i].bal, NEW t
  PROVE  Amount(reduceAsset(h, h[i].asset, amount), t)
           = Amount(h, t) - (IF h[i].asset = t THEN amount ELSE 0)
<1>g. PICK g : g = reduceAsset(h, h[i].asset, amount)
  OBVIOUS
<1>0. /\ OfToken(t) \in [Holding -> Int] /\ Amount(h, t) \in Int
      /\ \A a \in Tokens : OfToken(t)[Slot(a, 0)] = 0
  BY OfTokenWeight, AmountInt
<1>1. h[i] \in Holding /\ h[i].bal \in Nat /\ h[i].bal - amount \in Nat
  BY HoldingParts
<1>2. Weigh(OfToken(t), g) = Weigh(OfToken(t), h) - OfToken(t)[h[i]]
                             + OfToken(t)[Slot(h[i].asset, h[i].bal - amount)]
  BY <1>g, <1>0, ReduceWeight
<1>3. /\ OfToken(t)[h[i]] = IF h[i].asset = t THEN h[i].bal ELSE 0
      /\ OfToken(t)[Slot(h[i].asset, h[i].bal - amount)]
           = IF h[i].asset = t THEN h[i].bal - amount ELSE 0
  BY <1>1, HoldingParts, OfTokenWeight
<1> QED
  BY <1>g, <1>0, <1>1, <1>2, <1>3 DEF Amount

\* A swap moves the same amounts in the holdings and in the balances.
Funded(w) ==
    /\ w.h \in Seq(Holding) /\ w.held \in [Tokens -> Int]
Slack(w, t) == w.held[t] - Amount(w.h, t)

\* `used` of slot i may be swapped for `out` of another asset.
SwapReady(w, base, i, asset2, out, used, limit) ==
    /\ Funded(w) /\ Sound(w.h, base) /\ i \in Ids(w.h)
    /\ asset2 \in Tokens /\ asset2 # w.h[i].asset
    /\ out \in Nat /\ used \in Nat /\ used <= w.h[i].bal
    /\ limit \in Nat /\ CanAdd(w.h, asset2, out, limit)

\* What the swap makes of w.
SwapEffect(w, r, base, i, asset2, out, used, limit) ==
    /\ r.h = reduceAsset(addAsset(w.h, asset2, out), w.h[i].asset, used)
    /\ Sound(r.h, base) /\ (Len(w.h) <= limit => Len(r.h) <= limit)
    /\ Funded(r)
    /\ \A t \in Tokens : Slack(r, t) = Slack(w, t)
    /\ \A t \in Tokens : Amount(r.h, t) = Amount(w.h, t) + (IF asset2 = t THEN out ELSE 0)
                                          - (IF w.h[i].asset = t THEN used ELSE 0)

LEMMA SwapMoves ==
  ASSUME NEW w, NEW base, NEW i, NEW asset2, NEW out, NEW used, NEW limit,
         SwapReady(w, base, i, asset2, out, used, limit)
  PROVE  SwapEffect(w, AfterSwap(w, w.h[i].asset, asset2, used, out),
                    base, i, asset2, out, used, limit)
<1>r. PICK r : r = AfterSwap(w, w.h[i].asset, asset2, used, out)
  OBVIOUS
<1> SUFFICES ASSUME Funded(w), Sound(w.h, base), i \in Ids(w.h),
                    asset2 \in Tokens, asset2 # w.h[i].asset,
                    out \in Nat, used \in Nat, used <= w.h[i].bal,
                    limit \in Nat, CanAdd(w.h, asset2, out, limit)
             PROVE  SwapEffect(w, r, base, i, asset2, out, used, limit)
  BY <1>r DEF SwapReady
<1> DEFINE h == w.h
           asset1 == h[i].asset
<1>1. /\ r.h = reduceAsset(addAsset(h, asset2, out), asset1, used)
      /\ r.held = [w.held EXCEPT ![asset1] = @ - used, ![asset2] = @ + out]
  BY <1>r DEF AfterSwap
<1>2. Sound(r.h, base) /\ (Len(h) <= limit => Len(r.h) <= limit)
  BY <1>1, SwapSound
<1>3. h \in Seq(Holding) /\ Distinct(h) /\ asset1 \in Tokens
  BY HoldingParts DEF Sound
<1>a. PICK a : a = addAsset(h, asset2, out)
  OBVIOUS
<1>4. Sound(a, base)
  BY <1>a, AddSound
<1>5. i \in Ids(a) /\ a[i] = h[i]
  BY <1>a, <1>3, AddLeaves
<1>6. a \in Seq(Holding) /\ Distinct(a)
  BY <1>4 DEF Sound
<1>7. ASSUME NEW t \in Tokens
      PROVE  Amount(r.h, t) = Amount(h, t) + (IF asset2 = t THEN out ELSE 0)
                                           - (IF asset1 = t THEN used ELSE 0)
  <2>1. Amount(a, t) = Amount(h, t) + (IF asset2 = t THEN out ELSE 0)
    BY <1>a, <1>3, AddAmount
  <2>2. Amount(reduceAsset(a, a[i].asset, used), t) = Amount(a, t) - (IF a[i].asset = t THEN used ELSE 0)
    BY <1>5, <1>6, ReduceAmount
  <2>3. r.h = reduceAsset(a, a[i].asset, used) /\ a[i].asset = asset1
    BY <1>1, <1>a, <1>5
  <2>4. Amount(r.h, t) = Amount(a, t) - (IF asset1 = t THEN used ELSE 0)
    BY <2>2, <2>3, Zenon
  <2>5. Amount(h, t) \in Int /\ Amount(a, t) \in Int
    BY <1>3, <1>6, AmountInt
  <2> QED
    BY <2>1, <2>4, <2>5
<1>8. r.held \in [Tokens -> Int]
      /\ \A t \in Tokens : r.held[t] = w.held[t] + (IF asset2 = t THEN out ELSE 0)
                                                 - (IF asset1 = t THEN used ELSE 0)
  <2>1. PICK b : b = w.held
    OBVIOUS
  <2>2. PICK c : c = asset1
    OBVIOUS
  <2>3. b \in [Tokens -> Int] /\ c \in Tokens /\ c # asset2
        /\ r.held = [b EXCEPT ![c] = @ - used, ![asset2] = @ + out]
    BY <1>1, <1>3, <2>1, <2>2 DEF Funded
  <2>4. \A t \in Tokens : b[t] \in Int
    BY <2>3
  <2>5. r.held \in [Tokens -> Int]
        /\ \A t \in Tokens : r.held[t] = b[t] + (IF asset2 = t THEN out ELSE 0)
                                                - (IF c = t THEN used ELSE 0)
    BY <2>3, <2>4
  <2> QED
    BY <2>1, <2>2, <2>5
<1>9. r.h \in Seq(Holding)
  BY <1>2 DEF Sound
<1>10. ASSUME NEW t \in Tokens  PROVE Slack(r, t) = Slack(w, t)
  <2>1. Amount(h, t) \in Int /\ w.held[t] \in Int
    BY <1>3, AmountInt DEF Funded
  <2> QED
    BY <1>7, <1>8, <2>1 DEF Slack
<1> QED
  BY <1>1, <1>2, <1>7, <1>8, <1>9, <1>10 DEF Funded, SwapEffect

-----------------------------------------------------------------------------
(* Valuation.                                                              *)

LEMMA DivBounds ==
  ASSUME NEW n \in Nat, NEW d \in Nat \ {0}
  PROVE  n \div d \in Nat /\ d * (n \div d) <= n /\ n < d * (n \div d) + d
<1> DEFINE q == n \div d
           r == n % d
<1>1. q \in Int /\ r \in 0 .. d - 1 /\ n = d * q + r
  OBVIOUS
<1> HIDE DEF q, r
<1>2. q >= 0
  <2>1. SUFFICES ASSUME q <= -1 PROVE FALSE
    BY <1>1
  <2>2. d * q <= -d
    BY <1>1, <2>1
  <2> QED
    BY <1>1, <2>2
<1> QED
  BY <1>1, <1>2 DEF q

LEMMA DivAdds ==
  ASSUME NEW a \in Nat, NEW b \in Nat, NEW d \in Nat \ {0}
  PROVE  a \div d + b \div d <= (a + b) \div d
<1>1. PICK p \in Nat, q \in Nat, r \in Nat :
        p = a \div d /\ q = b \div d /\ r = (a + b) \div d
  <2>1. a \div d \in Nat /\ b \div d \in Nat /\ (a + b) \div d \in Nat
    BY DivBounds
  <2> QED
    BY <2>1
<1>2. d * p <= a /\ d * q <= b /\ a + b < d * r + d
  BY <1>1, DivBounds
<1>3. SUFFICES ASSUME p + q >= r + 1 PROVE FALSE
  BY <1>1
<1>4. d * (p + q) >= d * (r + 1)
  BY <1>3
<1>5. d * (p + q) = d * p + d * q /\ d * (r + 1) = d * r + d
  OBVIOUS
<1>6. d * p \in Nat /\ d * q \in Nat /\ d * r \in Nat
  OBVIOUS
<1> QED
  BY <1>2, <1>4, <1>5, <1>6

LEMMA DivMonotone ==
  ASSUME NEW a \in Nat, NEW b \in Nat, a <= b, NEW d \in Nat \ {0}
  PROVE  a \div d <= b \div d
<1>1. b - a \in Nat /\ a + (b - a) = b
  OBVIOUS
<1>2. a \div d + (b - a) \div d <= b \div d
  BY <1>1, DivAdds
<1>3. a \div d \in Nat /\ (b - a) \div d \in Nat /\ b \div d \in Nat
  BY <1>1, DivBounds
<1> QED
  BY <1>2, <1>3

LEMMA QuoteNat ==
  ASSUME price \in [Tokens -> Nat], NEW base \in Tokens, price[base] # 0,
         NEW asset \in Tokens, NEW amount \in Nat
  PROVE  Quote(base, asset, amount) \in Nat
<1>1. amount * price[asset] \in Nat /\ price[base] \in Nat \ {0}
  OBVIOUS
<1> QED
  BY <1>1, DivBounds DEF Quote

\* Two parts of an amount are not quoted at more than the whole.
LEMMA QuoteAdds ==
  ASSUME price \in [Tokens -> Nat], NEW base \in Tokens, price[base] # 0,
         NEW asset \in Tokens, NEW x \in Nat, NEW y \in Nat
  PROVE  Quote(base, asset, x) + Quote(base, asset, y) <= Quote(base, asset, x + y)
<1>1. PICK p \in Nat, d \in Nat \ {0} : p = price[asset] /\ d = price[base]
  OBVIOUS
<1>2. x * p \in Nat /\ y * p \in Nat /\ (x + y) * p = x * p + y * p
  OBVIOUS
<1>3. (x * p) \div d + (y * p) \div d <= (x * p + y * p) \div d
  BY <1>2, DivAdds
<1> QED
  BY <1>1, <1>2, <1>3 DEF Quote

\* What a holding counts for in the base asset.
InBase(base) ==
    [x \in Holding |-> IF x.asset = base THEN x.bal
                       ELSE IF price[base] = 0 THEN 0 ELSE Quote(base, x.asset, x.bal)]

LEMMA InBaseWeight ==
  ASSUME price \in [Tokens -> Nat], NEW base \in Tokens
  PROVE  /\ InBase(base) \in [Holding -> Int]
         /\ \A a \in Tokens : InBase(base)[Slot(a, 0)] = 0
         /\ \A a \in Tokens, b \in Nat : InBase(base)[Slot(a, b)] =
              IF a = base THEN b ELSE IF price[base] = 0 THEN 0 ELSE Quote(base, a, b)
<1>1. ASSUME NEW x \in Holding
      PROVE  (IF x.asset = base THEN x.bal
              ELSE IF price[base] = 0 THEN 0 ELSE Quote(base, x.asset, x.bal)) \in Int
  <2>1. x.asset \in Tokens /\ x.bal \in Nat
    BY HoldingIsSlot
  <2> QED
    BY <2>1, QuoteNat
<1>2. InBase(base) \in [Holding -> Int]
  BY <1>1 DEF InBase
<1>3. ASSUME NEW a \in Tokens, NEW b \in Nat
      PROVE  InBase(base)[Slot(a, b)] =
               IF a = base THEN b ELSE IF price[base] = 0 THEN 0 ELSE Quote(base, a, b)
  BY SlotIsHolding DEF InBase
<1>4. ASSUME NEW a \in Tokens, price[base] # 0  PROVE Quote(base, a, 0) = 0
  <2>1. PICK d \in Nat \ {0} : d = price[base]
    BY <1>4
  <2>2. 0 * price[a] = 0 /\ 0 \div d = 0
    OBVIOUS
  <2> QED
    BY <2>1, <2>2 DEF Quote
<1>5. \A a \in Tokens : InBase(base)[Slot(a, 0)] = 0
  BY <1>3, <1>4
<1> QED
  BY <1>2, <1>3, <1>5

\* Every holding but the base has a quote: the value of a position is the sum
\* of what its holdings count for.
Quotable(h) == \A i \in 2 .. Len(h) : Quoted(h[1].asset, h[i].asset)

LEMMA ValueIsSum ==
  ASSUME price \in [Tokens -> Nat], NEW pos, NEW base, Sound(pos.holdings, base),
         Quotable(pos.holdings)
  PROVE  _positionValue(pos) = Weigh(InBase(base), pos.holdings)
<1>h. PICK h : h = pos.holdings
  OBVIOUS
<1>n. PICK n \in Nat : n = Len(h)
  BY <1>h DEF Sound
<1>w. PICK W : W = InBase(base)
  OBVIOUS
<1> DEFINE f == [k \in Ids(h) |-> W[h[k]]]
           Solves(v) == v = [i \in Ids(h) |->
                               IF i = 1 THEN h[1].bal
                               ELSE v[i - 1] + Quote(h[1].asset, h[i].asset, h[i].bal)]
           s == [i \in Ids(h) |-> SumFunctionOnSet(f, 1 .. i)]
<1>1. /\ h \in Seq(Holding) /\ Distinct(h) /\ n \in Nat \ {0} /\ 1 \in Ids(h)
      /\ h[1].asset = base /\ base \in Tokens /\ Ids(h) = 1 .. n
  BY <1>h, <1>n, SoundLen, HoldingParts DEF Sound, Ids
<1>2. W \in [Holding -> Int] /\ f \in [1 .. n -> Int]
  BY <1>1, <1>w, InBaseWeight, HoldingParts
<1>3. W[h[1]] = h[1].bal /\ \A i \in 2 .. n : W[h[i]] = Quote(h[1].asset, h[i].asset, h[i].bal)
  <2>1. \A i \in Ids(h) : h[i] = Slot(h[i].asset, h[i].bal) /\ h[i].asset \in Tokens /\ h[i].bal \in Nat
    BY <1>1, HoldingParts, HoldingIsSlot
  <2>2. W[h[1]] = h[1].bal
    <3>1. h[1].bal \in Nat /\ h[1] = Slot(base, h[1].bal)
      BY <2>1, <1>1
    <3> QED
      BY <3>1, <1>1, <1>w, InBaseWeight
  <2>3. ASSUME NEW i \in 2 .. n  PROVE W[h[i]] = Quote(h[1].asset, h[i].asset, h[i].bal)
    <3>1. i \in Ids(h) /\ i # 1
      BY <1>1
    <3>2. h[i].asset # base
      BY <1>1, <3>1 DEF Distinct
    <3>3. price[base] # 0
      BY <1>1, <1>h, <1>n DEF Quotable, Quoted
    <3>4. PICK a \in Tokens, b \in Nat : a = h[i].asset /\ b = h[i].bal
      BY <2>1, <3>1
    <3>5. h[i] = Slot(a, b)
      BY <2>1, <3>1, <3>4
    <3>6. W[Slot(a, b)] = Quote(base, a, b)
      BY <3>2, <3>3, <3>4, <1>1, <1>w, InBaseWeight
    <3> QED
      BY <3>4, <3>5, <3>6, <1>1
  <2> QED
    BY <2>2, <2>3
<1>4. s[1] = f[1]
  <2>1. 1 \in 1 .. n /\ 1 .. 1 - 1 = {}
    BY <1>1
  <2>2. s[1] = SumFunctionOnSet(f, 1 .. 1)
    BY <1>1
  <2> HIDE DEF s, f
  <2>3. SumFunctionOnSet(f, 1 .. 1) = SumFunctionOnSet(f, 1 .. 1 - 1) + f[1]
    BY <1>2, <2>1, SumPrefix
  <2>4. SumFunctionOnSet(f, 1 .. 1 - 1) = 0 /\ f[1] \in Int
    BY <1>2, <2>1, SumNone
  <2> QED
    BY <2>2, <2>3, <2>4
<1>5. ASSUME NEW i \in 2 .. n  PROVE s[i] = s[i - 1] + f[i]
  <2>1. i \in 1 .. n /\ i - 1 \in 1 .. n
    BY <1>1
  <2>2. s[i] = SumFunctionOnSet(f, 1 .. i) /\ s[i - 1] = SumFunctionOnSet(f, 1 .. i - 1)
    BY <1>1, <2>1
  <2> HIDE DEF s, f
  <2> QED
    BY <1>2, <2>1, <2>2, SumPrefix
<1>6. \A i \in Ids(h) : s[i] = IF i = 1 THEN h[1].bal
                               ELSE s[i - 1] + Quote(h[1].asset, h[i].asset, h[i].bal)
  <2>1. \A i \in Ids(h) : f[i] = W[h[i]]
    OBVIOUS
  <2> HIDE DEF s, f
  <2> QED
    BY <1>1, <1>3, <1>4, <1>5, <2>1
<1>7. Solves(s)
  <2>1. s = [i \in Ids(h) |-> s[i]]
    OBVIOUS
  <2> HIDE DEF s
  <2> QED
    BY <1>6, <2>1
<1> DEFINE v == CHOOSE v : Solves(v)
<1>8. Solves(v)
  <2> HIDE DEF Solves, s
  <2> QED
    BY <1>7, Zenon
<1>9. _positionValue(pos) = v[n]
  BY <1>h, <1>n DEF _positionValue
<1>10. \A i \in Ids(h) : v[i] = s[i]
  <2> DEFINE B == {i \in 1 .. n : v[i] # s[i]}
  <2>1. SUFFICES ASSUME B # {} PROVE FALSE
    BY <1>1
  <2>2. PICK m \in B : \A x \in B : m <= x
    <3>1. B \in SUBSET (1 .. n) /\ 1 \in Int /\ n \in Int
      BY <1>1
    <3> HIDE DEF B
    <3> QED
      BY <2>1, <3>1, SmallestIndex
  <2>3. m \in Ids(h) /\ m \in 1 .. n /\ v[m] # s[m]
    BY <1>1
  <2>4. v[m] = IF m = 1 THEN h[1].bal ELSE v[m - 1] + Quote(h[1].asset, h[m].asset, h[m].bal)
    <3> HIDE DEF v
    <3> QED
      BY <1>8, <2>3
  <2>5. m # 1
    <3> HIDE DEF v, s
    <3> QED
      BY <1>6, <2>3, <2>4
  <2>6. m - 1 \in 1 .. n /\ m - 1 \notin B
    <3>1. m - 1 \in 1 .. n /\ ~ (m <= m - 1)
      BY <2>3, <2>5, <1>1
    <3> HIDE DEF B
    <3> QED
      BY <2>2, <3>1
  <2>7. v[m - 1] = s[m - 1]
    BY <2>6
  <2> HIDE DEF v, s
  <2> QED
    BY <1>6, <2>3, <2>4, <2>5, <2>7
<1>11. s[n] = SumFunctionOnSet(f, 1 .. n) /\ n \in Ids(h)
  BY <1>1
<1>12. SumFunction(f) = SumFunctionOnSet(f, 1 .. n)
  <2>1. DOMAIN f = 1 .. n
    BY <1>2
  <2> HIDE DEF f
  <2> QED
    BY <2>1 DEF SumFunction
<1> HIDE DEF v, s
<1> QED
  BY <1>h, <1>w, <1>9, <1>10, <1>11, <1>12 DEF Weigh

-----------------------------------------------------------------------------
(* The walk of a forced sale.                                              *)

\* What the sale of slot i for `out` of the base asset makes of w.
SaleEffect(w, r, base, i, out) ==
    /\ Funded(r) /\ Sound(r.h, base)
    /\ Len(r.h) <= Len(w.h) /\ Len(r.h) >= i - 1
    /\ r.h[1].bal = w.h[1].bal + out
    /\ \A k \in 2 .. i - 1 : r.h[k] = w.h[k]
    /\ \A t \in Tokens : Slack(r, t) = Slack(w, t)

LEMMA SellMoves ==
  ASSUME NEW w, Funded(w), NEW base, Sound(w.h, base), NEW i \in 2 .. Len(w.h),
         NEW out \in Nat, NEW used \in Nat, used <= w.h[i].bal,
         NEW r, r = AfterSwap(w, w.h[i].asset, base, used, out)
  PROVE  SaleEffect(w, r, base, i, out)
<1>1. /\ w.h \in Seq(Holding) /\ Distinct(w.h) /\ i \in Ids(w.h) /\ 1 \in Ids(w.h) /\ i # 1
      /\ w.h[1].asset = base /\ base \in Tokens
  BY SoundLen, HoldingParts DEF Sound, Ids
<1>2. base # w.h[i].asset
  BY <1>1 DEF Distinct
<1>3. CanAdd(w.h, base, out, 0)
  BY <1>1, FindAsset DEF CanAdd
<1>4. SwapEffect(w, r, base, i, base, out, used, 0)
  <2>1. SwapReady(w, base, i, base, out, used, 0)
    BY <1>1, <1>2, <1>3 DEF SwapReady
  <2> QED
    BY <2>1, SwapMoves
<1>5. /\ Len(r.h) <= Len(w.h) /\ Len(r.h) >= i - 1
      /\ r.h[1].bal = w.h[1].bal + out
      /\ \A k \in 2 .. i - 1 : r.h[k] = w.h[k]
  <2>1. SoldSlot(w.h, reduceAsset(addAsset(w.h, base, out), w.h[i].asset, used), base, i, out)
    BY SellSound
  <2> QED
    BY <1>4, <2>1 DEF SwapEffect, SoldSlot
<1> QED
  BY <1>4, <1>5 DEF SaleEffect, SwapEffect

\* One step of the walk, and the equation the walk solves.
WalkStep(pos, sellAll, slip, short, r, i) ==
    IF (sellAll \/ r.h[1].bal < calculateDebtAmount(pos)) /\ r.h[i].bal # 0
    THEN _swapToBaseAsset(pos, r, r.h[i].asset, r.h[i].bal, slip[i], short[i]) ELSE r

Walks(pos, sellAll, slip, short, k, g) ==
    g = [i \in k .. Len(pos.holdings) + 1 |->
           IF i = Len(pos.holdings) + 1 THEN [h |-> pos.holdings, held |-> held]
           ELSE WalkStep(pos, sellAll, slip, short, g[i + 1], i)]

LEMMA WalkExists ==
  ASSUME NEW pos, Len(pos.holdings) \in Nat \ {0}, NEW sellAll, NEW slip, NEW short
  PROVE  \E g : Walks(pos, sellAll, slip, short, 2, g)
<1>n. PICK n \in Nat \ {0} : n = Len(pos.holdings)
  OBVIOUS
<1> DEFINE P(k) == \E g : Walks(pos, sellAll, slip, short, k, g)
           B == {k \in 2 .. n + 1 : ~ P(k)}
<1>1. SUFFICES ASSUME B # {} PROVE FALSE
  <2>1. 2 \in 2 .. n + 1
    OBVIOUS
  <2> QED
    BY <2>1
<1>2. PICK m \in B : \A x \in B : x <= m
  <2>1. B \in SUBSET (2 .. n + 1) /\ 2 \in Int /\ n + 1 \in Int
    OBVIOUS
  <2> HIDE DEF B
  <2> QED
    BY <1>1, <2>1, LargestIndex
<1>3. m \in 2 .. n + 1 /\ ~ P(m)
  OBVIOUS
<1>4. CASE m = n + 1
  <2> DEFINE g == [i \in m .. n + 1 |-> [h |-> pos.holdings, held |-> held]]
  <2>1. \A i \in m .. n + 1 : i = n + 1
    BY <1>4
  <2>2. g = [i \in m .. n + 1 |-> IF i = n + 1 THEN [h |-> pos.holdings, held |-> held]
                                  ELSE WalkStep(pos, sellAll, slip, short, g[i + 1], i)]
    <3>1. \A i \in m .. n + 1 : [h |-> pos.holdings, held |-> held]
             = IF i = n + 1 THEN [h |-> pos.holdings, held |-> held]
               ELSE WalkStep(pos, sellAll, slip, short, g[i + 1], i)
      BY <2>1
    <3> QED
      BY <3>1, Zenon
  <2>3. Walks(pos, sellAll, slip, short, m, g)
    <3> HIDE DEF g
    <3> QED
      BY <2>2, <1>n DEF Walks
  <2> QED
    BY <1>3, <2>3
<1>5. CASE m # n + 1
  <2>1. m + 1 \in 2 .. n + 1 /\ m \in 2 .. n /\ ~ (m + 1 <= m)
    BY <1>3, <1>5
  <2>2. P(m + 1)
    <3>1. m + 1 \notin B
      <4> HIDE DEF B
      <4> QED
        BY <1>2, <2>1
    <3> QED
      BY <2>1, <3>1
  <2>3. PICK g : Walks(pos, sellAll, slip, short, m + 1, g)
    BY <2>2
  <2> DEFINE E(f, i) == IF i = n + 1 THEN [h |-> pos.holdings, held |-> held]
                        ELSE WalkStep(pos, sellAll, slip, short, f[i + 1], i)
             f == [i \in m .. n + 1 |->
                     IF i = m THEN WalkStep(pos, sellAll, slip, short, g[m + 1], m) ELSE g[i]]
  <2>4. g = [i \in m + 1 .. n + 1 |-> E(g, i)]
    BY <2>3, <1>n DEF Walks
  <2>5. \A i \in m + 1 .. n + 1 : f[i] = g[i] /\ g[i] = E(g, i) /\ i \in m .. n + 1 /\ i # m
    <3>1. \A i \in m + 1 .. n + 1 : i \in m .. n + 1 /\ i # m
      BY <2>1
    <3>2. \A i \in m + 1 .. n + 1 : f[i] = g[i]
      BY <3>1
    <3>3. \A i \in m + 1 .. n + 1 : g[i] = E(g, i)
      <4> HIDE DEF E
      <4> QED
        BY <2>4
    <3> QED
      BY <3>1, <3>2, <3>3
  <2>6. \A i \in m .. n + 1 : f[i] = E(f, i)
    <3> SUFFICES ASSUME NEW i \in m .. n + 1 PROVE f[i] = E(f, i)
      OBVIOUS
    <3>1. CASE i = m
      <4>1. m + 1 \in m + 1 .. n + 1 /\ m # n + 1
        BY <2>1
      <4>2. f[m + 1] = g[m + 1]
        BY <4>1, <2>5
      <4>3. f[i] = WalkStep(pos, sellAll, slip, short, g[m + 1], m)
        BY <3>1
      <4> HIDE DEF f
      <4> QED
        BY <3>1, <4>1, <4>2, <4>3
    <3>2. CASE i # m
      <4>1. i \in m + 1 .. n + 1
        BY <3>2, <2>1
      <4>2. CASE i = n + 1
        <5> HIDE DEF f
        <5> QED
          BY <4>1, <4>2, <2>5
      <4>3. CASE i # n + 1
        <5>1. i + 1 \in m + 1 .. n + 1
          BY <4>1, <4>3, <2>1
        <5> HIDE DEF f
        <5>2. f[i + 1] = g[i + 1] /\ f[i] = g[i] /\ g[i] = E(g, i)
          BY <5>1, <4>1, <2>5
        <5> QED
          BY <5>2, <4>3
      <4> QED
        BY <4>2, <4>3
    <3> QED
      BY <3>1, <3>2
  <2>7. f = [i \in m .. n + 1 |-> E(f, i)]
    <3>1. f = [i \in m .. n + 1 |-> f[i]]
      OBVIOUS
    <3> HIDE DEF f, E
    <3> QED
      BY <2>6, <3>1
  <2>8. Walks(pos, sellAll, slip, short, m, f)
    <3> HIDE DEF f
    <3> QED
      BY <2>7, <1>n DEF Walks
  <2> QED
    BY <1>3, <2>8
<1> QED
  BY <1>4, <1>5

LEMMA WalkEquation ==
  ASSUME NEW pos, Len(pos.holdings) \in Nat \ {0}, NEW sellAll, NEW slip, NEW short
  PROVE  Walks(pos, sellAll, slip, short, 2, SaleWalk(pos, sellAll, slip, short))
<1>1. SaleWalk(pos, sellAll, slip, short) = CHOOSE g : Walks(pos, sellAll, slip, short, 2, g)
  BY DEF SaleWalk, Walks, WalkStep
<1>2. \E g : Walks(pos, sellAll, slip, short, 2, g)
  BY WalkExists
<1> QED
  BY <1>1, <1>2, Zenon

\* A sale that goes through: the amounts are natural numbers, within the
\* holding, and worth the floor.
FloorOf(base, x) == (Quote(base, x.asset, x.bal) * FORCED_SWAP_MIN_OUT_BPS) \div BPS

LEMMA SaleAmounts ==
  ASSUME price \in [Tokens -> Nat], NEW pos, NEW base, Sound(pos.holdings, base),
         NEW asset \in Tokens, NEW amount \in Nat, NEW slip \in Int, NEW short \in Nat,
         CanSell(pos, asset, amount, slip, short)
  PROVE  /\ SaleOut(base, asset, amount, slip, short) \in Nat
         /\ amount - short \in Nat /\ amount - short <= amount /\ amount - short > 0
         /\ SaleOut(base, asset, amount, slip, short)
              >= (Quote(base, asset, amount) * FORCED_SWAP_MIN_OUT_BPS) \div BPS
<1>1. /\ pos.holdings[1].asset = base /\ base \in Tokens
  BY SoundLen, HoldingParts DEF Sound
<1>2. price[base] # 0 /\ short < amount /\ MeetsFloor(base, asset, amount, SaleOut(base, asset, amount, slip, short))
  BY <1>1 DEF CanSell, Quoted
<1>3. amount - short \in Nat /\ amount - short > 0
  BY <1>2
<1>4. Quote(base, asset, amount - short) \in Nat
  BY <1>1, <1>2, <1>3, QuoteNat
<1> QED
  BY <1>2, <1>3, <1>4 DEF MeetsFloor, SaleOut

\* What the walk has made of the holdings when it is down to slot i.
Visited(pos, base, r, i) ==
    /\ Funded(r) /\ Sound(r.h, base)
    /\ Len(r.h) <= Len(pos.holdings) /\ Len(r.h) >= i - 1
    /\ r.h[1].bal >= pos.holdings[1].bal
    /\ \A k \in 2 .. i - 1 : r.h[k] = pos.holdings[k]
    /\ \A t \in Tokens : Slack(r, t) = held[t] - Amount(pos.holdings, t)

LEMMA VisitStep ==
  ASSUME price \in [Tokens -> Nat], NEW pos, NEW base, Sound(pos.holdings, base), NEW sellAll,
         NEW slip, NEW short, NEW i \in 2 .. Len(pos.holdings), slip[i] \in Int, short[i] \in Nat,
         NEW r, Visited(pos, base, r, i + 1),
         (sellAll \/ r.h[1].bal < calculateDebtAmount(pos)) =>
           CanSell(pos, pos.holdings[i].asset, pos.holdings[i].bal, slip[i], short[i])
  PROVE  /\ Visited(pos, base, WalkStep(pos, sellAll, slip, short, r, i), i)
         /\ sellAll => WalkStep(pos, sellAll, slip, short, r, i).h[1].bal
                         >= r.h[1].bal + FloorOf(base, pos.holdings[i])
<1>s. PICK x : x = WalkStep(pos, sellAll, slip, short, r, i)
  OBVIOUS
<1>n. PICK n \in Nat : n = Len(pos.holdings)
  BY SoundLen
<1>1. /\ Funded(r) /\ Sound(r.h, base) /\ Len(r.h) <= n /\ Len(r.h) >= i /\ Len(r.h) \in Nat
      /\ \A k \in 2 .. i : r.h[k] = pos.holdings[k]
      /\ i \in 2 .. n
  BY <1>n, SoundLen DEF Visited
<1>2. i \in 2 .. Len(r.h) /\ r.h[i] = pos.holdings[i] /\ i \in Ids(pos.holdings) /\ i \in Ids(r.h)
      /\ 1 \in Ids(r.h) /\ 1 \in Ids(pos.holdings)
  BY <1>1, <1>n DEF Ids
<1>3. /\ r.h[i].bal \in Nat /\ r.h[i].asset \in Tokens /\ r.h[i].bal # 0 /\ r.h[1].bal \in Nat
      /\ pos.holdings[1].asset = base /\ pos.holdings[1].bal \in Nat
  <2>1. r.h \in Seq(Holding) /\ pos.holdings \in Seq(Holding)
    BY <1>1, SoundLen
  <2>2. /\ r.h[i].bal \in Nat /\ r.h[i].asset \in Tokens /\ r.h[1].bal \in Nat
        /\ pos.holdings[1].bal \in Nat
    BY <1>2, <2>1, HoldingParts
  <2>3. r.h[i].bal > 0 /\ pos.holdings[1].asset = base
    BY <1>1, <1>2 DEF Sound
  <2> QED
    BY <2>2, <2>3
<1>4. CASE sellAll \/ r.h[1].bal < calculateDebtAmount(pos)
  <2>1. PICK asset, amount, used, out :
           /\ asset = r.h[i].asset /\ amount = r.h[i].bal /\ used = amount - short[i]
           /\ out = SaleOut(base, asset, amount, slip[i], short[i])
    OBVIOUS
  <2>2. CanSell(pos, asset, amount, slip[i], short[i])
    BY <1>2, <1>4, <2>1
  <2>3. /\ out \in Nat /\ used \in Nat /\ used <= amount
        /\ out >= FloorOf(base, pos.holdings[i])
    BY <1>2, <1>3, <2>1, <2>2, SaleAmounts DEF FloorOf
  <2>4. x = AfterSwap(r, r.h[i].asset, base, used, out)
    BY <1>s, <1>3, <1>4, <2>1 DEF WalkStep, _swapToBaseAsset
  <2>5. SaleEffect(r, x, base, i, out)
    BY <1>1, <1>2, <2>1, <2>3, <2>4, SellMoves
  <2>6. /\ Funded(x) /\ Sound(x.h, base) /\ Len(x.h) <= Len(r.h) /\ Len(x.h) >= i - 1
        /\ x.h[1].bal = r.h[1].bal + out
        /\ \A k \in 2 .. i - 1 : x.h[k] = r.h[k]
        /\ \A t \in Tokens : Slack(x, t) = Slack(r, t)
    BY <2>5 DEF SaleEffect
  <2>7. Len(x.h) \in Nat
    BY <2>6, SoundLen
  <2>8. /\ r.h[1].bal >= pos.holdings[1].bal
        /\ \A t \in Tokens : Slack(r, t) = held[t] - Amount(pos.holdings, t)
    BY DEF Visited
  <2>9. Len(x.h) <= Len(pos.holdings)
    BY <1>1, <1>n, <2>6, <2>7
  <2>10. x.h[1].bal >= pos.holdings[1].bal
    <3>1. x.h[1].bal = r.h[1].bal + out
      BY <2>6
    <3>2. r.h[1].bal >= pos.holdings[1].bal
      BY <2>8
    <3>3. r.h[1].bal \in Nat /\ pos.holdings[1].bal \in Nat /\ out \in Nat
      BY <1>3, <2>3
    <3> QED
      BY <3>1, <3>2, <3>3
  <2>11. \A k \in 2 .. i - 1 : x.h[k] = pos.holdings[k]
    BY <1>1, <2>6
  <2>12. Visited(pos, base, x, i)
    BY <2>6, <2>8, <2>9, <2>10, <2>11 DEF Visited
  <2>13. PICK floor : floor = FloorOf(base, pos.holdings[i])
    OBVIOUS
  <2>14. floor \in Nat
    <3>1. price[base] # 0 /\ base \in Tokens
      BY <1>2, <1>3, <2>2, HoldingParts DEF CanSell, Quoted, Sound
    <3>2. Quote(base, asset, amount) \in Nat
      BY <1>3, <2>1, <3>1, QuoteNat
    <3>3. Quote(base, asset, amount) * FORCED_SWAP_MIN_OUT_BPS \in Nat /\ BPS \in Nat \ {0}
      <4>1. FORCED_SWAP_MIN_OUT_BPS \in Nat /\ BPS \in Nat \ {0}
        BY ParameterAssumption DEF BPS
      <4> HIDE DEF BPS
      <4>2. PICK q \in Nat, m \in Nat : q = Quote(base, asset, amount) /\ m = FORCED_SWAP_MIN_OUT_BPS
        BY <3>2, <4>1
      <4>3. q * m \in Nat
        OBVIOUS
      <4> QED
        BY <4>1, <4>2, <4>3
    <3> QED
      BY <1>2, <2>1, <2>13, <3>3, DivBounds DEF FloorOf
  <2>15. x.h[1].bal >= r.h[1].bal + FloorOf(base, pos.holdings[i])
    <3>1. x.h[1].bal = r.h[1].bal + out
      BY <2>6
    <3>2. out \in Nat /\ out >= floor
      BY <2>3, <2>13
    <3>3. r.h[1].bal \in Nat
      BY <1>3
    <3>4. x.h[1].bal >= r.h[1].bal + floor
      BY <2>14, <3>1, <3>2, <3>3
    <3> QED
      BY <2>13, <3>4
  <2> QED
    BY <1>s, <2>12, <2>15
<1>5. CASE ~ (sellAll \/ r.h[1].bal < calculateDebtAmount(pos))
  <2>1. x = r
    BY <1>s, <1>5 DEF WalkStep
  <2>2. Visited(pos, base, x, i)
    <3>1. \A k \in 2 .. i - 1 : x.h[k] = pos.holdings[k]
      BY <1>1, <2>1
    <3> QED
      BY <1>1, <2>1, <3>1 DEF Visited
  <2> QED
    BY <1>s, <1>5, <2>2
<1> QED
  BY <1>4, <1>5

\* A walk that goes through: from the end to slot 2.
LEMMA WalkKeeps ==
  ASSUME price \in [Tokens -> Nat], held \in [Tokens -> Int],
         NEW pos, NEW base, Sound(pos.holdings, base), NEW sellAll,
         NEW slip \in [2 .. Len(pos.holdings) -> Slips],
         NEW short \in [2 .. Len(pos.holdings) -> Shorts],
         WalkSells(pos, sellAll, slip, short)
  PROVE  \A i \in 2 .. Len(pos.holdings) + 1 :
           /\ Visited(pos, base, SaleWalk(pos, sellAll, slip, short)[i], i)
           /\ sellAll /\ i <= Len(pos.holdings) =>
                SaleWalk(pos, sellAll, slip, short)[i].h[1].bal
                  >= SaleWalk(pos, sellAll, slip, short)[i + 1].h[1].bal
                     + FloorOf(base, pos.holdings[i])
<1>n. PICK n \in Nat \ {0} : n = Len(pos.holdings)
  BY SoundLen
<1>w. PICK walk : walk = SaleWalk(pos, sellAll, slip, short)
  OBVIOUS
<1>1. \A i \in 2 .. n + 1 : walk[i] = IF i = n + 1 THEN [h |-> pos.holdings, held |-> held]
                                      ELSE WalkStep(pos, sellAll, slip, short, walk[i + 1], i)
  <2>1. Walks(pos, sellAll, slip, short, 2, walk)
    BY <1>n, <1>w, WalkEquation
  <2> QED
    BY <1>n, <2>1 DEF Walks
<1>2. \A i \in 2 .. n : slip[i] \in Int /\ short[i] \in Nat
  BY <1>n, ParameterAssumption
<1>3. \A i \in 2 .. n : (sellAll \/ walk[i + 1].h[1].bal < calculateDebtAmount(pos)) =>
           CanSell(pos, pos.holdings[i].asset, pos.holdings[i].bal, slip[i], short[i])
  BY <1>n, <1>w DEF WalkSells
<1>4. Visited(pos, base, walk[n + 1], n + 1)
  <2>1. n + 1 \in 2 .. n + 1
    OBVIOUS
  <2>2. walk[n + 1] = [h |-> pos.holdings, held |-> held]
    BY <1>1, <2>1
  <2>3. walk[n + 1].h = pos.holdings /\ walk[n + 1].held = held
    BY <2>2
  <2>4. pos.holdings \in Seq(Holding) /\ pos.holdings[1].bal \in Nat
    BY SoundLen, HoldingParts
  <2> QED
    BY <1>n, <2>3, <2>4 DEF Visited, Funded, Slack
<1>5. ASSUME NEW i \in 2 .. n, Visited(pos, base, walk[i + 1], i + 1)
      PROVE  /\ Visited(pos, base, walk[i], i)
             /\ sellAll => walk[i].h[1].bal >= walk[i + 1].h[1].bal + FloorOf(base, pos.holdings[i])
  <2>1. i \in 2 .. n + 1 /\ i # n + 1 /\ i \in 2 .. Len(pos.holdings)
    BY <1>n
  <2>2. walk[i] = WalkStep(pos, sellAll, slip, short, walk[i + 1], i)
    BY <1>1, <2>1
  <2>3. slip[i] \in Int /\ short[i] \in Nat
    BY <1>2
  <2>4. (sellAll \/ walk[i + 1].h[1].bal < calculateDebtAmount(pos)) =>
           CanSell(pos, pos.holdings[i].asset, pos.holdings[i].bal, slip[i], short[i])
    BY <1>3
  <2>5. PICK r : r = walk[i + 1]
    OBVIOUS
  <2>6. Visited(pos, base, r, i + 1)
    BY <1>5, <2>5
  <2>7. (sellAll \/ r.h[1].bal < calculateDebtAmount(pos)) =>
           CanSell(pos, pos.holdings[i].asset, pos.holdings[i].bal, slip[i], short[i])
    BY <2>4, <2>5
  <2>8. /\ Visited(pos, base, WalkStep(pos, sellAll, slip, short, r, i), i)
        /\ sellAll => WalkStep(pos, sellAll, slip, short, r, i).h[1].bal
                        >= r.h[1].bal + FloorOf(base, pos.holdings[i])
    BY <2>1, <2>3, <2>6, <2>7, VisitStep
  <2> QED
    BY <2>2, <2>5, <2>8
<1>6. \A i \in 2 .. n + 1 : Visited(pos, base, walk[i], i)
  <2> DEFINE B == {i \in 2 .. n + 1 : ~ Visited(pos, base, walk[i], i)}
  <2>1. SUFFICES ASSUME B # {} PROVE FALSE
    OBVIOUS
  <2>2. PICK m \in B : \A x \in B : x <= m
    <3>1. B \in SUBSET (2 .. n + 1) /\ 2 \in Int /\ n + 1 \in Int
      OBVIOUS
    <3> HIDE DEF B
    <3> QED
      BY <2>1, <3>1, LargestIndex
  <2>3. m \in 2 .. n + 1 /\ ~ Visited(pos, base, walk[m], m)
    OBVIOUS
  <2>4. m # n + 1
    BY <1>4, <2>3
  <2>5. m \in 2 .. n /\ m + 1 \in 2 .. n + 1 /\ ~ (m + 1 <= m)
    BY <2>3, <2>4
  <2>6. m + 1 \notin B
    <3> HIDE DEF B
    <3> QED
      BY <2>2, <2>5
  <2>7. Visited(pos, base, walk[m + 1], m + 1)
    BY <2>5, <2>6
  <2> QED
    BY <1>5, <2>3, <2>5, <2>7
<1>7. ASSUME NEW i \in 2 .. n + 1, sellAll, i <= n
      PROVE  walk[i].h[1].bal >= walk[i + 1].h[1].bal + FloorOf(base, pos.holdings[i])
  <2>1. i \in 2 .. n /\ i + 1 \in 2 .. n + 1
    BY <1>7
  <2>2. Visited(pos, base, walk[i + 1], i + 1)
    BY <1>6, <2>1
  <2> QED
    BY <1>5, <1>7, <2>1, <2>2
<1> QED
  BY <1>n, <1>w, <1>6, <1>7

\* Together: what any outcome of the walk leaves.
LEMMA SoldKeeps ==
  ASSUME price \in [Tokens -> Nat], held \in [Tokens -> Int],
         NEW pos, NEW base, Sound(pos.holdings, base), NEW sellAll, NEW w \in Sold(pos, sellAll)
  PROVE  Visited(pos, base, w, 2)
<1>1. PICK slip \in [2 .. Len(pos.holdings) -> Slips], short \in [2 .. Len(pos.holdings) -> Shorts] :
         WalkSells(pos, sellAll, slip, short) /\ w = SaleWalk(pos, sellAll, slip, short)[2]
  BY DEF Sold
<1>2. 2 \in 2 .. Len(pos.holdings) + 1
  BY SoundLen
<1> QED
  BY <1>1, <1>2, WalkKeeps

LEMMA FloorInt ==
  ASSUME price \in [Tokens -> Nat], NEW base \in Tokens, price[base] # 0, NEW x \in Holding
  PROVE  FloorOf(base, x) \in Nat
<1>1. PICK q \in Nat, m \in Nat : q = Quote(base, x.asset, x.bal) /\ m = FORCED_SWAP_MIN_OUT_BPS
  <2>1. Quote(base, x.asset, x.bal) \in Nat
    BY HoldingIsSlot, QuoteNat
  <2> QED
    <3>1. FORCED_SWAP_MIN_OUT_BPS \in Nat
      BY ParameterAssumption DEF BPS
    <3> QED
      BY <2>1, <3>1
<1>2. q * m \in Nat /\ BPS \in Nat \ {0}
  BY DEF BPS
<1> HIDE DEF BPS
<1> QED
  BY <1>1, <1>2, DivBounds DEF FloorOf

\* A full sale brings in every holding's floor.
LEMMA SoldAboveFloor ==
  ASSUME price \in [Tokens -> Nat], held \in [Tokens -> Int],
         NEW pos, NEW base, Sound(pos.holdings, base), NEW w \in Sold(pos, TRUE)
  PROVE  w.h[1].bal >= pos.holdings[1].bal
           + SumFunction([i \in 2 .. Len(pos.holdings) |-> FloorOf(base, pos.holdings[i])])
<1>n. PICK n \in Nat \ {0} : n = Len(pos.holdings)
  BY SoundLen
<1>1. PICK slip \in [2 .. n -> Slips], short \in [2 .. n -> Shorts] :
         WalkSells(pos, TRUE, slip, short) /\ w = SaleWalk(pos, TRUE, slip, short)[2]
  BY <1>n DEF Sold
<1>w. PICK walk : walk = SaleWalk(pos, TRUE, slip, short)
  OBVIOUS
<1>2. \A i \in 2 .. n + 1 :
        /\ Visited(pos, base, walk[i], i)
        /\ i <= n => walk[i].h[1].bal >= walk[i + 1].h[1].bal + FloorOf(base, pos.holdings[i])
  BY <1>n, <1>1, <1>w, WalkKeeps
<1> DEFINE F == [i \in 2 .. n |-> FloorOf(base, pos.holdings[i])]
<1>3. pos.holdings \in Seq(Holding) /\ pos.holdings[1].asset = base /\ pos.holdings[1].bal \in Nat
      /\ base \in Tokens
  BY SoundLen, HoldingParts DEF Sound
<1>4. F \in [2 .. n -> Int] /\ \A i \in 2 .. n : F[i] = FloorOf(base, pos.holdings[i]) /\ F[i] \in Int
  <2>1. ASSUME NEW i \in 2 .. n  PROVE FloorOf(base, pos.holdings[i]) \in Int
    <3>1. CanSell(pos, pos.holdings[i].asset, pos.holdings[i].bal, slip[i], short[i])
      BY <1>1, <1>n DEF WalkSells
    <3>2. price[base] # 0
      BY <1>3, <3>1 DEF CanSell, Quoted
    <3>3. pos.holdings[i] \in Holding
      BY <1>3, <1>n, HoldingParts DEF Ids
    <3> QED
      BY <1>3, <3>2, <3>3, FloorInt
  <2> QED
    BY <2>1
<1>5. \A i \in 2 .. n + 1 : walk[i].h[1].bal \in Nat
  <2> SUFFICES ASSUME NEW i \in 2 .. n + 1 PROVE walk[i].h[1].bal \in Nat
    OBVIOUS
  <2>1. Sound(walk[i].h, base)
    BY <1>2 DEF Visited
  <2> QED
    BY <2>1, SoundLen, HoldingParts
<1>6. \A i \in 2 .. n + 1 : SumFunctionOnSet(F, i .. n) \in Int
  <2> SUFFICES ASSUME NEW i \in 2 .. n + 1 PROVE SumFunctionOnSet(F, i .. n) \in Int
    OBVIOUS
  <2>1. i .. n \in SUBSET (2 .. n) /\ IsFiniteSet(i .. n)
    BY FS_Interval
  <2> HIDE DEF F
  <2> QED
    BY <1>4, <2>1, SumInt
<1> HIDE DEF F
<1> DEFINE Above(i) == walk[i].h[1].bal >= pos.holdings[1].bal + SumFunctionOnSet(F, i .. n)
           B == {i \in 2 .. n + 1 : ~ Above(i)}
<1>7. B = {}
  <2>1. SUFFICES ASSUME B # {} PROVE FALSE
    OBVIOUS
  <2>2. PICK m \in B : \A x \in B : x <= m
    <3>1. B \in SUBSET (2 .. n + 1) /\ 2 \in Int /\ n + 1 \in Int
      OBVIOUS
    <3> HIDE DEF B
    <3> QED
      BY <2>1, <3>1, LargestIndex
  <2>3. m \in 2 .. n + 1 /\ ~ Above(m)
    OBVIOUS
  <2>4. CASE m = n + 1
    <3>1. m .. n = {}
      BY <2>4
    <3>2. SumFunctionOnSet(F, m .. n) = 0
      BY <3>1, SumNone
    <3>3. walk[m].h[1].bal >= pos.holdings[1].bal
      BY <1>2, <2>3 DEF Visited
    <3> QED
      BY <1>3, <1>5, <2>3, <3>2, <3>3
  <2>5. CASE m # n + 1
    <3>1. m \in 2 .. n /\ m + 1 \in 2 .. n + 1 /\ ~ (m + 1 <= m) /\ m <= n
      BY <2>3, <2>5
    <3>2. Above(m + 1)
      <4>1. m + 1 \notin B
        <5> HIDE DEF B
        <5> QED
          BY <2>2, <3>1
      <4> QED
        BY <3>1, <4>1
    <3>3. SumFunctionOnSet(F, m .. n) = SumFunctionOnSet(F, m + 1 .. n) + F[m]
      <4>1. m .. n \in SUBSET (2 .. n) /\ m + 1 .. n = (m .. n) \ {m} /\ m \in m .. n
        BY <3>1
      <4>2. IsFiniteSet(m .. n) /\ IsFiniteSet(m + 1 .. n)
        BY <3>1, FS_Interval
      <4>3. Without(F, 2 .. n, m .. n, m, m + 1 .. n)
        BY <1>4, <4>1, <4>2 DEF Without
      <4> QED
        BY <4>3, SumWithout
    <3>4. walk[m].h[1].bal >= walk[m + 1].h[1].bal + F[m]
      BY <1>2, <1>4, <3>1
    <3>5. /\ walk[m].h[1].bal \in Nat /\ walk[m + 1].h[1].bal \in Nat /\ F[m] \in Int
          /\ SumFunctionOnSet(F, m + 1 .. n) \in Int
      BY <1>4, <1>5, <1>6, <3>1
    <3> QED
      <4>1. PICK x, y, z, b : /\ x = walk[m].h[1].bal /\ y = walk[m + 1].h[1].bal
                              /\ z = SumFunctionOnSet(F, m + 1 .. n) /\ b = pos.holdings[1].bal
        OBVIOUS
      <4>2. x \in Int /\ y \in Int /\ z \in Int /\ b \in Int /\ F[m] \in Int
        BY <1>3, <3>5, <4>1
      <4>3. x >= y + F[m] /\ y >= b + z
        BY <3>2, <3>4, <4>1
      <4>4. x >= b + (z + F[m])
        BY <4>2, <4>3
      <4> QED
        BY <2>3, <3>3, <4>1, <4>4
  <2> QED
    BY <2>4, <2>5
<1>8. Above(2)
  <2>1. 2 \in 2 .. n + 1 /\ 2 \notin B
    BY <1>7
  <2> QED
    BY <2>1
<1>9. SumFunction(F) = SumFunctionOnSet(F, 2 .. n)
  <2>1. DOMAIN F = 2 .. n
    BY <1>4
  <2> QED
    BY <2>1 DEF SumFunction
<1> QED
  BY <1>1, <1>n, <1>w, <1>8, <1>9 DEF F

-----------------------------------------------------------------------------
(* The inductive invariant.  The currency limit of an open position can    *)
(* only be trusted because an order is not modified under its positions,   *)
(* so the invariant needs orders to count their open positions exactly,    *)
(* but for the one whose loan is still being pulled in; the autoWithdraw   *)
(* walk reads slots of a position other calls could have shortened, so it  *)
(* needs to know whose holdings it walks.                                  *)

Scalars ==
    /\ now \in Nat /\ held \in [Tokens -> Int]
    /\ erc223deposit \in [Users -> [Tokens -> Nat]]
    /\ tokenlists \subseteq Whitelist /\ autolisted \subseteq Tokens
    /\ price \in [Tokens -> Nat]
    /\ _entered \in BOOLEAN /\ calling \in BOOLEAN /\ caller \in Users \cup {NoOne}

\* What a position keeps under the order it belongs to.
Kept(q, x) ==
    /\ Sound(q.holdings, x.terms.baseAsset)
    /\ q.open /\ Reneging = {} => Len(q.holdings) <= x.terms.currencyLimit

Places ==
    /\ positions \in Seq(Position)
    /\ \A p \in Ids(positions) : /\ positions[p].orderId \in Ids(orders)
                                 /\ positions[p].createdAt <= now
                                 /\ Kept(positions[p], OrderOf(p))

\* The open positions that have paid their loan in.
Counted(o) == {p \in OpenPositions(o) : pulling # <<>> => p # pulling.position}
CountsAgree == \A o \in Ids(orders) : orders[o].positions = Cardinality(Counted(o))

\* The call in progress: the walk it makes, the loan it pulls in, the loss it
\* has still to book.
TodoOK ==
    todo # <<>> =>
      /\ _entered /\ todo \in Ids(positions) \X Nat
      /\ ~positions[todo[1]].open
      /\ todo[2] <= Len(positions[todo[1]].holdings)

PullOK ==
    pulling # <<>> =>
      /\ _entered /\ caller \in Users /\ todo = <<>> /\ loss = <<>>
      /\ pulling.position \in Ids(positions) /\ positions[pulling.position].open
      /\ pulling.asset \in Tokens /\ pulling.amount \in Nat /\ pulling.reward \in BOOLEAN

LossOK == loss # <<>> => _entered /\ loss \in Ids(orders) \X Nat

CallOK == TodoOK /\ PullOK /\ LossOK

IInv == Scalars /\ orders \in Seq(Order) /\ Places /\ CountsAgree /\ CallOK

LEMMA Idle ==
  ASSUME IInv, ~_entered
  PROVE  todo = <<>> /\ pulling = <<>> /\ loss = <<>>
BY DEF IInv, CallOK, TodoOK, PullOK, LossOK

LEMMA PositionParts ==
  ASSUME NEW ps \in Seq(Position), NEW p \in Ids(ps)
  PROVE  /\ ps[p] \in Position
         /\ ps[p].orderId \in Nat /\ ps[p].owner \in Users /\ ps[p].holdings \in Seq(Holding)
         /\ ps[p].deadline \in Nat /\ ps[p].createdAt \in Nat /\ ps[p].initialBalance \in Nat
         /\ ps[p].interest \in Nat /\ ps[p].open \in BOOLEAN /\ ps[p].frozenTime \in Nat
         /\ ps[p].liquidator \in Users \cup {NoOne} /\ ps[p].initialCollateral \in Tokens
         /\ ps[p].underwaterSince \in Nat
<1>1. ps[p] \in Position
  BY DEF Ids
<1> QED
  BY <1>1 DEF Position

LEMMA OrderParts ==
  ASSUME NEW os \in Seq(Order), NEW o \in Ids(os)
  PROVE  /\ os[o] \in Order
         /\ os[o].terms \in OrderParams /\ os[o].owner \in Users /\ os[o].balance \in Nat
         /\ os[o].alive \in BOOLEAN /\ os[o].positions \in Int /\ os[o].shortfall \in Nat
         /\ os[o].marginBps \in Nat /\ os[o].keeper \in Users \cup {NoOne}
         /\ os[o].terms.baseAsset \in Tokens /\ os[o].terms.currencyLimit \in Nat
         /\ os[o].terms.rewardAsset \in Tokens /\ os[o].terms.rewardAmount \in Nat
         /\ os[o].terms.duration \in Nat /\ os[o].terms.interestRate \in Nat
<1>1. os[o] \in Order
  BY DEF Ids
<1>2. os[o].terms \in OrderParams
  BY <1>1 DEF Order
<1> QED
  BY <1>1, <1>2 DEF Order, OrderParams

LEMMA OpenFinite ==
  ASSUME positions \in Seq(Position), NEW o
  PROVE  /\ IsFiniteSet(OpenPositions(o)) /\ Cardinality(OpenPositions(o)) \in Nat
         /\ IsFiniteSet(Counted(o)) /\ Cardinality(Counted(o)) \in Nat
<1>1. IsFiniteSet(Ids(positions)) /\ OpenPositions(o) \in SUBSET Ids(positions)
  BY FS_Interval DEF Ids, OpenPositions
<1>2. IsFiniteSet(OpenPositions(o)) /\ Counted(o) \in SUBSET OpenPositions(o)
  BY <1>1, FS_Subset DEF Counted
<1>3. IsFiniteSet(Counted(o))
  BY <1>2, FS_Subset
<1> QED
  BY <1>2, <1>3, FS_CardinalityType

\* Replacing one entry of a sequence.
Replaced(s, t, i, x) ==
    /\ Len(t) = Len(s) /\ Ids(t) = Ids(s) /\ t[i] = x
    /\ \A j \in Ids(s) : j # i => t[j] = s[j]

LEMMA SeqReplaced ==
  ASSUME NEW S, NEW s \in Seq(S), NEW i \in Ids(s), NEW x \in S
  PROVE  [s EXCEPT ![i] = x] \in Seq(S) /\ Replaced(s, [s EXCEPT ![i] = x], i, x)
BY DEF Ids, Replaced

Extended(s, t, x) ==
    /\ Len(t) = Len(s) + 1 /\ Ids(t) = Ids(s) \cup {Len(s) + 1} /\ Len(s) + 1 \notin Ids(s)
    /\ t[Len(s) + 1] = x
    /\ \A j \in Ids(s) : t[j] = s[j]

LEMMA SeqExtended ==
  ASSUME NEW S, NEW s \in Seq(S), NEW x \in S
  PROVE  Append(s, x) \in Seq(S) /\ Extended(s, Append(s, x), x)
BY DEF Ids, Extended

\* The loan being taken, if any, is of the same position.
PullStays ==
    /\ pulling' = <<>> <=> pulling = <<>>
    /\ pulling # <<>> => pulling'.position = pulling.position

LEMMA CountedStays ==
  ASSUME PullStays, NEW o, OpenPositions(o)' = OpenPositions(o)
  PROVE  Counted(o)' = Counted(o)
BY DEF PullStays, Counted

\* Steps that leave the positions alone: orders come, and change only what
\* their open positions do not rest on.
OrdersKept ==
    /\ orders' \in Seq(Order) /\ Ids(orders) \subseteq Ids(orders')
    /\ \A o \in Ids(orders) :
         /\ orders'[o].terms.baseAsset = orders[o].terms.baseAsset
         /\ orders'[o].positions = orders[o].positions
         /\ Reneging = {} /\ OpenPositions(o) # {} =>
              orders'[o].terms.currencyLimit = orders[o].terms.currencyLimit
    /\ \A o \in Ids(orders') \ Ids(orders) : orders'[o].positions = 0

LEMMA PlacesStay ==
  ASSUME IInv, Scalars', now' >= now, positions' = positions,
         Ids(orders) \subseteq Ids(orders'),
         \A o \in Ids(orders) :
           /\ orders'[o].terms.baseAsset = orders[o].terms.baseAsset
           /\ Reneging = {} /\ OpenPositions(o) # {} =>
                orders'[o].terms.currencyLimit = orders[o].terms.currencyLimit
  PROVE  Places'
<1>1. positions' \in Seq(Position) /\ Ids(positions)' = Ids(positions)
  BY DEF IInv, Places, Ids
<1>2. ASSUME NEW p \in Ids(positions)
      PROVE  /\ positions'[p].orderId \in Ids(orders')
             /\ positions'[p].createdAt <= now'
             /\ Kept(positions'[p], orders'[positions'[p].orderId])
  <2>1. PICK o : o = positions[p].orderId
    OBVIOUS
  <2>2. /\ o \in Ids(orders) /\ o \in Ids(orders')
        /\ positions[p].createdAt <= now /\ Kept(positions[p], orders[o])
    BY <2>1 DEF IInv, Places, OrderOf
  <2>3. positions[p].open => OpenPositions(o) # {}
    BY <2>1 DEF OpenPositions
  <2>4. Kept(positions[p], orders'[o])
    BY <2>2, <2>3 DEF Kept
  <2>5. positions[p].createdAt \in Nat /\ now \in Nat /\ now' \in Nat
    BY PositionParts DEF IInv, Places, Scalars
  <2> QED
    BY <2>1, <2>2, <2>4, <2>5
<1> QED
  BY <1>1, <1>2 DEF Places, OrderOf, Ids

LEMMA OrdersMove ==
  ASSUME IInv, Scalars', now' >= now, OrdersKept, positions' = positions, PullStays, CallOK'
  PROVE  IInv'
<1>1. \A o : Counted(o)' = Counted(o)
  BY CountedStays DEF OpenPositions, Ids
<1>2. CountsAgree'
  <2> SUFFICES ASSUME NEW o \in Ids(orders')
               PROVE  orders'[o].positions = Cardinality(Counted(o)')
    BY DEF CountsAgree, Ids
  <2>1. CASE o \in Ids(orders)
    BY <2>1, <1>1 DEF OrdersKept, IInv, CountsAgree
  <2>2. CASE o \notin Ids(orders)
    <3>1. Counted(o) = {}
      BY <2>2 DEF Counted, OpenPositions, IInv, Places
    <3>2. orders'[o].positions = 0
      BY <2>2 DEF OrdersKept
    <3> QED
      BY <3>1, <3>2, <1>1, FS_EmptySet
  <2> QED
    BY <2>1, <2>2
<1>3. Places'
  BY PlacesStay DEF OrdersKept
<1> QED
  BY <1>2, <1>3 DEF IInv, OrdersKept

\* Inside a call or outside, one that changes nothing of the call in progress.
LEMMA QuietKeeps ==
  ASSUME IInv, Scalars', now' >= now, OrdersKept, positions' = positions, UNCHANGED callVars
  PROVE  IInv'
<1>1. PullStays /\ CallOK'
  BY DEF PullStays, callVars, IInv, CallOK, TodoOK, PullOK, LossOK, OrdersKept, Ids
<1> QED
  BY <1>1, OrdersMove

\* A call that ends with one payout.
LEMMA EnteredToPay ==
  ASSUME IInv, NEW who \in Users, EnterToPay(who)
  PROVE  PullStays /\ CallOK' /\ _entered' = TRUE /\ caller' = who
<1>1. pulling = <<>>
  BY Idle DEF EnterToPay, Enter
<1> QED
  BY <1>1 DEF EnterToPay, Enter, PullStays, CallOK, TodoOK, PullOK, LossOK

LEMMA PayoutKeeps ==
  ASSUME IInv, Scalars', now' = now, OrdersKept, positions' = positions,
         NEW who \in Users, EnterToPay(who)
  PROVE  IInv'
<1>1. now' >= now
  BY DEF IInv, Scalars
<1> QED
  BY <1>1, EnteredToPay, OrdersMove

\* Steps that rewrite one position, open or closed as it was.
SamePlace(q, p) ==
    /\ q \in Position /\ q.orderId = positions[p].orderId
    /\ q.createdAt = positions[p].createdAt

LEMMA RewriteKeeps ==
  ASSUME IInv, Scalars', now' = now, orders' = orders, NEW p \in Ids(positions), NEW q,
         positions' = [positions EXCEPT ![p] = q], SamePlace(q, p),
         q.open = positions[p].open, Kept(q, OrderOf(p)), PullStays, CallOK'
  PROVE  IInv'
<1>1. /\ positions' \in Seq(Position) /\ Replaced(positions, positions', p, q)
  BY SeqReplaced DEF SamePlace, IInv, Places
<1>2. \A r \in Ids(positions) : /\ positions'[r].orderId = positions[r].orderId
                                /\ positions'[r].createdAt = positions[r].createdAt
                                /\ positions'[r].open = positions[r].open
  BY <1>1 DEF Replaced, SamePlace
<1>3. \A o : Counted(o)' = Counted(o)
  <2>1. \A o : OpenPositions(o)' = OpenPositions(o)
    BY <1>1, <1>2 DEF OpenPositions, Replaced, Ids
  <2> QED
    BY <2>1, CountedStays
<1>4. CountsAgree'
  BY <1>3 DEF IInv, CountsAgree, Ids
<1>5. ASSUME NEW r \in Ids(positions)
      PROVE  /\ positions'[r].orderId \in Ids(orders')
             /\ positions'[r].createdAt <= now'
             /\ Kept(positions'[r], orders'[positions'[r].orderId])
  <2>1. /\ positions[r].orderId \in Ids(orders) /\ positions[r].createdAt <= now
        /\ Kept(positions[r], OrderOf(r))
    BY DEF IInv, Places
  <2>2. Kept(positions'[r], OrderOf(r))
    BY <1>1, <2>1 DEF Replaced
  <2> QED
    BY <1>2, <2>1, <2>2 DEF OrderOf
<1>6. Places'
  BY <1>1, <1>5 DEF Places, OrderOf, Replaced, Ids
<1> QED
  BY <1>4, <1>6 DEF IInv

\* Steps that close one position, which its order stops counting.
LEMMA CloseKeeps ==
  ASSUME IInv, Scalars', now' = now, NEW p \in Ids(positions), NEW q, NEW x \in Order,
         positions' = [positions EXCEPT ![p] = q], SamePlace(q, p),
         positions[p].open, ~q.open, Kept(q, OrderOf(p)),
         orders' = [orders EXCEPT ![positions[p].orderId] = x],
         x.terms = OrderOf(p).terms, x.positions = Released(OrderOf(p).positions),
         pulling = <<>>, pulling' = <<>>, CallOK'
  PROVE  IInv'
<1>o. PICK o : o = positions[p].orderId
  OBVIOUS
<1>0. o \in Ids(orders) /\ orders \in Seq(Order) /\ positions \in Seq(Position)
  BY <1>o DEF IInv, Places
<1>1. /\ positions' \in Seq(Position) /\ Replaced(positions, positions', p, q)
      /\ orders' \in Seq(Order) /\ Replaced(orders, orders', o, x)
  BY <1>o, <1>0, SeqReplaced DEF SamePlace
<1>2. \A r \in Ids(positions) : /\ positions'[r].orderId = positions[r].orderId
                                /\ positions'[r].createdAt = positions[r].createdAt
                                /\ r # p => positions'[r].open = positions[r].open
  BY <1>1 DEF Replaced, SamePlace
<1>c. \A c : Counted(c) = OpenPositions(c) /\ Counted(c)' = OpenPositions(c)'
  BY DEF Counted
<1>3. \A c : Counted(c)' = IF c = o THEN Counted(c) \ {p} ELSE Counted(c)
  <2>1. Ids(positions)' = Ids(positions) /\ ~positions'[p].open /\ positions'[p].orderId = o
    BY <1>o, <1>1, <1>2 DEF Replaced, Ids
  <2>2. \A c : OpenPositions(c)' = IF c = o THEN OpenPositions(c) \ {p} ELSE OpenPositions(c)
    BY <1>o, <1>2, <2>1 DEF OpenPositions
  <2> QED
    BY <1>c, <2>2
<1>4. ASSUME NEW c \in Ids(orders')
      PROVE  orders'[c].positions = Cardinality(Counted(c)')
  <2>1. c \in Ids(orders) /\ orders[c].positions = Cardinality(Counted(c))
    BY <1>1 DEF Replaced, IInv, CountsAgree
  <2>2. CASE c # o
    BY <1>1, <1>3, <2>1, <2>2 DEF Replaced
  <2>3. CASE c = o
    <3>1. IsFiniteSet(Counted(c)) /\ Cardinality(Counted(c)) \in Nat
      BY <1>0, OpenFinite
    <3>2. p \in Counted(c)
      BY <1>o, <1>c, <2>3 DEF OpenPositions
    <3>3. Cardinality(Counted(c) \ {p}) = Cardinality(Counted(c)) - 1
      BY <3>1, <3>2, FS_RemoveElement
    <3>4. Cardinality(Counted(c)) # 0
      BY <3>1, <3>2, FS_EmptySet
    <3>5. orders'[c].positions = Released(orders[c].positions)
      BY <1>o, <1>1, <2>3 DEF Replaced, OrderOf
    <3>6. PICK n \in Nat : n = Cardinality(Counted(c))
      BY <3>1
    <3>7. orders'[c].positions = n - 1
      BY <2>1, <3>4, <3>5, <3>6 DEF Released
    <3>8. Counted(c)' = Counted(c) \ {p}
      BY <1>3, <2>3
    <3> QED
      BY <3>3, <3>6, <3>7, <3>8
  <2> QED
    BY <2>2, <2>3
<1>5. CountsAgree'
  BY <1>4 DEF CountsAgree, Ids
<1>6. \A c \in Ids(orders) : orders'[c].terms = orders[c].terms
  BY <1>o, <1>1 DEF Replaced, OrderOf
<1>7. ASSUME NEW r \in Ids(positions)
      PROVE  /\ positions'[r].orderId \in Ids(orders')
             /\ positions'[r].createdAt <= now'
             /\ Kept(positions'[r], orders'[positions'[r].orderId])
  <2>1. /\ positions[r].orderId \in Ids(orders) /\ positions[r].createdAt <= now
        /\ Kept(positions[r], OrderOf(r))
    BY DEF IInv, Places
  <2>2. Kept(positions'[r], OrderOf(r))
    BY <1>1, <2>1 DEF Replaced
  <2>3. Kept(positions'[r], orders'[positions[r].orderId])
    BY <1>6, <2>1, <2>2 DEF Kept, OrderOf
  <2> QED
    BY <1>1, <1>2, <2>1, <2>3 DEF Replaced
<1>8. Places'
  BY <1>1, <1>7 DEF Places, OrderOf, Replaced, Ids
<1> QED
  BY <1>1, <1>5, <1>8 DEF IInv

\* The step that opens a position, which its order does not count yet.
LEMMA OpenKeeps ==
  ASSUME IInv, Scalars', now' = now, NEW o \in Ids(orders), NEW q \in Position, NEW x \in Order,
         positions' = Append(positions, q), q.orderId = o, q.createdAt = now, q.open,
         Kept(q, orders[o]), orders' = [orders EXCEPT ![o] = x],
         x.terms = orders[o].terms, x.positions = orders[o].positions,
         pulling = <<>>, pulling' # <<>>, pulling'.position = Len(positions) + 1, CallOK'
  PROVE  IInv'
<1>p. PICK p : p = Len(positions) + 1
  OBVIOUS
<1>0. orders \in Seq(Order) /\ positions \in Seq(Position)
  BY DEF IInv, Places
<1>1. /\ positions' \in Seq(Position) /\ Extended(positions, positions', q)
      /\ orders' \in Seq(Order) /\ Replaced(orders, orders', o, x)
  BY <1>0, SeqReplaced, SeqExtended
<1>2. Ids(positions)' = Ids(positions) \cup {p} /\ p \notin Ids(positions) /\ positions'[p] = q
      /\ \A r \in Ids(positions) : positions'[r] = positions[r]
  BY <1>p, <1>1 DEF Extended, Ids
<1>3. \A c : Counted(c)' = Counted(c)
  <2> SUFFICES ASSUME NEW c PROVE Counted(c)' = Counted(c)
    OBVIOUS
  <2>1. OpenPositions(c)' = IF c = o THEN OpenPositions(c) \cup {p} ELSE OpenPositions(c)
    BY <1>2 DEF OpenPositions
  <2>2. p \notin OpenPositions(c)
    BY <1>2 DEF OpenPositions
  <2>3. Counted(c)' = {r \in OpenPositions(c)' : r # p}
    BY <1>p DEF Counted
  <2>4. Counted(c) = OpenPositions(c)
    BY DEF Counted
  <2> QED
    BY <2>1, <2>2, <2>3, <2>4
<1>4. ASSUME NEW c \in Ids(orders')
      PROVE  orders'[c].positions = Cardinality(Counted(c)')
  BY <1>1, <1>3 DEF Replaced, IInv, CountsAgree
<1>5. CountsAgree'
  BY <1>4 DEF CountsAgree, Ids
<1>6. \A c \in Ids(orders) : orders'[c].terms = orders[c].terms
  BY <1>1 DEF Replaced
<1>7. ASSUME NEW r \in Ids(positions)'
      PROVE  /\ positions'[r].orderId \in Ids(orders')
             /\ positions'[r].createdAt <= now'
             /\ Kept(positions'[r], orders'[positions'[r].orderId])
  <2>1. CASE r = p
    <3>1. Kept(q, orders'[o])
      BY <1>6 DEF Kept
    <3>2. now <= now
      BY DEF IInv, Scalars
    <3> QED
      BY <1>1, <1>2, <2>1, <3>1, <3>2 DEF Replaced
  <2>2. CASE r # p
    <3>1. /\ r \in Ids(positions) /\ positions'[r] = positions[r]
          /\ positions[r].orderId \in Ids(orders) /\ positions[r].createdAt <= now
          /\ Kept(positions[r], OrderOf(r))
      BY <1>2, <2>2 DEF IInv, Places
    <3>2. Kept(positions[r], orders'[positions[r].orderId])
      BY <1>6, <3>1 DEF Kept, OrderOf
    <3> QED
      BY <1>1, <3>1, <3>2 DEF Replaced
  <2> QED
    BY <2>1, <2>2
<1>8. Places'
  BY <1>1, <1>7 DEF Places, OrderOf, Ids
<1> QED
  BY <1>1, <1>5, <1>8 DEF IInv

\* The step that has it counted.
LEMMA CountKeeps ==
  ASSUME IInv, Scalars', now' = now, positions' = positions, pulling # <<>>, pulling' = <<>>,
         NEW o, o = positions[pulling.position].orderId, NEW x \in Order,
         orders' = [orders EXCEPT ![o] = x], x.terms = orders[o].terms,
         x.positions = orders[o].positions + 1, CallOK'
  PROVE  IInv'
<1>p. PICK p : p = pulling.position
  OBVIOUS
<1>0. /\ p \in Ids(positions) /\ positions[p].open /\ o = positions[p].orderId
      /\ positions \in Seq(Position) /\ orders \in Seq(Order)
  BY <1>p DEF IInv, CallOK, PullOK, Places
<1>1. o \in Ids(orders)
  BY <1>0 DEF IInv, Places
<1>2. orders' \in Seq(Order) /\ Replaced(orders, orders', o, x)
  BY <1>0, <1>1, SeqReplaced
<1>3. \A c : OpenPositions(c)' = OpenPositions(c)
  BY DEF OpenPositions, Ids
<1>4. \A c : Counted(c)' = IF c = o THEN Counted(c) \cup {p} ELSE Counted(c)
  <2>1. \A c : Counted(c)' = OpenPositions(c)
    BY <1>3 DEF Counted
  <2>2. \A c : Counted(c) = OpenPositions(c) \ {p}
    BY <1>p DEF Counted
  <2>3. p \in OpenPositions(o) /\ \A c : p \in OpenPositions(c) => c = o
    BY <1>0 DEF OpenPositions
  <2> QED
    BY <2>1, <2>2, <2>3
<1>5. ASSUME NEW c \in Ids(orders')
      PROVE  orders'[c].positions = Cardinality(Counted(c)')
  <2>1. c \in Ids(orders) /\ orders[c].positions = Cardinality(Counted(c))
    BY <1>2 DEF Replaced, IInv, CountsAgree
  <2>2. CASE c # o
    BY <1>2, <1>4, <2>1, <2>2 DEF Replaced
  <2>3. CASE c = o
    <3>1. IsFiniteSet(Counted(c)) /\ Cardinality(Counted(c)) \in Nat
      BY <1>0, OpenFinite
    <3>2. p \notin Counted(c)
      BY <1>p DEF Counted
    <3>3. Cardinality(Counted(c) \cup {p}) = Cardinality(Counted(c)) + 1
      BY <3>1, <3>2, FS_AddElement
    <3>4. orders'[c].positions = orders[c].positions + 1
      BY <1>2, <2>3 DEF Replaced
    <3> QED
      BY <1>4, <2>1, <2>3, <3>3, <3>4
  <2> QED
    BY <2>2, <2>3
<1>6. CountsAgree'
  BY <1>5 DEF CountsAgree, Ids
<1>7. Places'
  <2>1. \A c \in Ids(orders) : orders'[c].terms = orders[c].terms
    BY <1>2 DEF Replaced
  <2>2. now' >= now /\ Ids(orders) \subseteq Ids(orders')
    BY <1>2 DEF IInv, Scalars, Replaced
  <2> QED
    BY <2>1, <2>2, PlacesStay
<1> QED
  BY <1>2, <1>6, <1>7 DEF IInv

-----------------------------------------------------------------------------
(* What the steps write: positions, orders, and the purse.                 *)

LEMMA DebtNat ==
  ASSUME now \in Nat, NEW pos, pos.createdAt \in Nat, pos.createdAt <= now,
         pos.initialBalance \in Nat, pos.interest \in Nat
  PROVE  calculateDebtAmount(pos) \in Nat
<1>1. PICK b \in Nat, i \in Nat, e \in Nat :
        b = pos.initialBalance /\ i = pos.interest /\ e = now - pos.createdAt
  OBVIOUS
<1>2. INTEREST_RATE_PRECISION \in Nat \ {0} /\ INTEREST_PERIOD \in Nat \ {0}
  BY ParameterAssumption
<1>3. b * i \in Nat
  OBVIOUS
<1>4. PICK r \in Nat : r = (b * i) \div INTEREST_RATE_PRECISION
  BY <1>2, <1>3, DivBounds
<1>5. r * e \in Nat
  OBVIOUS
<1>6. (r * e) \div INTEREST_PERIOD \in Nat
  BY <1>2, <1>5, DivBounds
<1> QED
  BY <1>1, <1>4, <1>6 DEF calculateDebtAmount

\* A position as it was, but for its marks: freeze, liquidator, underwater.
Remarked(q, pos) ==
    /\ q \in Position
    /\ q.orderId = pos.orderId /\ q.owner = pos.owner /\ q.holdings = pos.holdings
    /\ q.deadline = pos.deadline /\ q.createdAt = pos.createdAt
    /\ q.initialBalance = pos.initialBalance /\ q.interest = pos.interest
    /\ q.open = pos.open /\ q.initialCollateral = pos.initialCollateral

LEMMA Remark ==
  ASSUME NEW pos \in Position, NEW f \in Nat, NEW l \in Users \cup {NoOne}, NEW u \in Nat
  PROVE  Remarked([pos EXCEPT !.frozenTime = f, !.liquidator = l, !.underwaterSince = u], pos)
BY DEF Position, Remarked

LEMMA MarkRemarks ==
  ASSUME NEW pos \in Position, now \in Nat
  PROVE  /\ Remarked(MarkUnderwater(pos), pos)
         /\ MarkUnderwater(pos).frozenTime = pos.frozenTime
         /\ MarkUnderwater(pos).liquidator = pos.liquidator
         /\ MarkUnderwater(pos).underwaterSince =
              IF ~UnderWater(pos) THEN 0
              ELSE IF pos.underwaterSince = 0 THEN now ELSE pos.underwaterSince
<1>1. PICK u \in Nat : u = IF ~UnderWater(pos) THEN 0
                           ELSE IF pos.underwaterSince = 0 THEN now ELSE pos.underwaterSince
  BY DEF Position
<1>2. MarkUnderwater(pos) = [pos EXCEPT !.underwaterSince = u]
  BY <1>1 DEF MarkUnderwater, Position
<1> QED
  BY <1>1, <1>2 DEF Position, Remarked

LEMMA ClearRemarks ==
  ASSUME NEW pos \in Position
  PROVE  /\ Remarked(ClearIfCovered(pos), pos)
         /\ ClearIfCovered(pos).frozenTime = pos.frozenTime
         /\ ClearIfCovered(pos).liquidator = pos.liquidator
         /\ ClearIfCovered(pos).underwaterSince =
              IF UnderWater(pos) THEN pos.underwaterSince ELSE 0
BY DEF Position, Remarked, ClearIfCovered

LEMMA RemarkedDebt ==
  ASSUME NEW pos, NEW q, Remarked(q, pos)
  PROVE  /\ calculateDebtAmount(q) = calculateDebtAmount(pos)
         /\ _positionValue(q) = _positionValue(pos)
         /\ UnderWater(q) <=> UnderWater(pos)
         /\ subjectToLiquidation(q) <=> subjectToLiquidation(pos)
<1>1. calculateDebtAmount(q) = calculateDebtAmount(pos)
  BY DEF Remarked, calculateDebtAmount
<1>2. _positionValue(q) = _positionValue(pos)
  BY DEF Remarked, _positionValue
<1> QED
  BY <1>1, <1>2 DEF UnderWater, subjectToLiquidation, Remarked

\* A position with new holdings.
LEMMA Rehold ==
  ASSUME NEW pos \in Position, NEW h \in Seq(Holding)
  PROVE  /\ [pos EXCEPT !.holdings = h] \in Position
         /\ [pos EXCEPT !.holdings = h].holdings = h
         /\ [pos EXCEPT !.holdings = h].orderId = pos.orderId
         /\ [pos EXCEPT !.holdings = h].createdAt = pos.createdAt
         /\ [pos EXCEPT !.holdings = h].open = pos.open
BY DEF Position

\* The purse: balances and credited deposits, and what they leave of a token.
Typed(purse) ==
    /\ purse = [held |-> purse.held, dep |-> purse.dep]
    /\ purse.held \in [Tokens -> Int] /\ purse.dep \in [Users -> [Tokens -> Nat]]
Due(dep, t) == SumFunction([u \in Users |-> dep[u][t]])
Spare(purse, t) == purse.held[t] - Due(purse.dep, t)

LEMMA DueChanges ==
  ASSUME NEW d \in [Users -> [Tokens -> Nat]], NEW e \in [Users -> [Tokens -> Nat]],
         NEW who \in Users, \A u \in Users : u # who => e[u] = d[u], NEW t \in Tokens
  PROVE  /\ Due(d, t) \in Int /\ Due(e, t) \in Int
         /\ Due(e, t) = Due(d, t) + e[who][t] - d[who][t]
<1> DEFINE f == [u \in Users |-> d[u][t]]
           g == [u \in Users |-> e[u][t]]
<1>1. \A u \in Users : d[u] \in [Tokens -> Nat] /\ e[u] \in [Tokens -> Nat]
  OBVIOUS
<1>2. \A u \in Users : d[u][t] \in Int /\ e[u][t] \in Int
  BY <1>1
<1>3. /\ f \in [Users -> Int] /\ g \in [Users -> Int]
      /\ f[who] = d[who][t] /\ g[who] = e[who][t]
      /\ \A u \in Users \ {who} : f[u] = g[u]
      /\ DOMAIN f = Users /\ DOMAIN g = Users
  BY <1>2
<1>4. IsFiniteSet(Users)
  BY UsersAssumption
<1> HIDE DEF f, g
<1>5. /\ SumFunctionOnSet(g, Users) = SumFunctionOnSet(f, Users) + g[who] - f[who]
      /\ SumFunctionOnSet(g, Users) \in Int /\ SumFunctionOnSet(f, Users) \in Int
  BY <1>3, <1>4, SumChange, SumInt
<1> QED
  BY <1>3, <1>5 DEF f, g, Due, SumFunction

\* A payment into the purse.
Paid(purse, r, asset, amount) ==
    /\ Typed(r)
    /\ \A t \in Tokens : Spare(r, t) = Spare(purse, t) + (IF t = asset THEN amount ELSE 0)

LEMMA SpareInt ==
  ASSUME NEW purse, Typed(purse), NEW t \in Tokens
  PROVE  Spare(purse, t) \in Int /\ Due(purse.dep, t) \in Int
<1> DEFINE f == [u \in Users |-> purse.dep[u][t]]
<1>1. \A u \in Users : purse.dep[u] \in [Tokens -> Nat] /\ purse.dep[u][t] \in Int
  BY DEF Typed
<1>2. f \in [Users -> Int] /\ DOMAIN f = Users /\ IsFiniteSet(Users)
  BY <1>1, UsersAssumption
<1>3. purse.held[t] \in Int
  BY DEF Typed
<1> HIDE DEF f
<1>4. SumFunctionOnSet(f, Users) \in Int
  BY <1>2, SumInt
<1> QED
  BY <1>2, <1>3, <1>4 DEF f, Spare, Due, SumFunction

LEMMA HeldPays ==
  ASSUME NEW purse, Typed(purse), NEW asset \in Tokens, NEW amount \in Int
  PROVE  Paid(purse, [purse EXCEPT !.held[asset] = @ + amount], asset, amount)
<1>1. PICK h, d : h = purse.held /\ d = purse.dep /\ purse = [held |-> h, dep |-> d]
  BY DEF Typed
<1>2. h \in [Tokens -> Int] /\ d \in [Users -> [Tokens -> Nat]]
  BY <1>1 DEF Typed
<1>3. PICK r : r = [purse EXCEPT !.held[asset] = @ + amount]
  OBVIOUS
<1>4. r = [held |-> [h EXCEPT ![asset] = @ + amount], dep |-> d]
  BY <1>1, <1>3
<1>5. r.held = [h EXCEPT ![asset] = @ + amount] /\ r.dep = d
  BY <1>4
<1>6. Typed(r)
  BY <1>2, <1>4, <1>5 DEF Typed
<1>7. ASSUME NEW t \in Tokens
      PROVE  Spare(r, t) = Spare(purse, t) + (IF t = asset THEN amount ELSE 0)
  <2>1. Spare(purse, t) \in Int /\ h[t] \in Int
    BY <1>2, SpareInt
  <2>2. r.held[t] = h[t] + (IF t = asset THEN amount ELSE 0)
    BY <1>2, <1>5
  <2>3. Due(d, t) \in Int
    BY <1>1, SpareInt
  <2> QED
    BY <1>1, <1>5, <2>1, <2>2, <2>3 DEF Spare
<1> QED
  BY <1>3, <1>6, <1>7 DEF Paid

LEMMA ReceivePays ==
  ASSUME NEW purse, Typed(purse), NEW who \in Users, NEW asset \in Tokens, NEW amount \in Nat,
         CanReceive(purse, who, asset, amount)
  PROVE  Paid(purse, _receiveAsset(purse, who, asset, amount), asset, amount)
<1>1. PICK h, d : h = purse.held /\ d = purse.dep /\ purse = [held |-> h, dep |-> d]
  BY DEF Typed
<1>2. h \in [Tokens -> Int] /\ d \in [Users -> [Tokens -> Nat]]
  BY <1>1 DEF Typed
<1>3. CASE d[who][asset] > 0
  <2>1. PICK r : r = _receiveAsset(purse, who, asset, amount)
    OBVIOUS
  <2>2. PICK e : e = [d EXCEPT ![who][asset] = @ - amount]
    OBVIOUS
  <2>3. r = [held |-> h, dep |-> e]
    BY <1>1, <1>3, <2>1, <2>2 DEF _receiveAsset
  <2>4. d[who] \in [Tokens -> Nat] /\ d[who][asset] \in Nat /\ d[who][asset] - amount \in Nat
    BY <1>1, <1>2, <1>3 DEF CanReceive
  <2>5. e \in [Users -> [Tokens -> Nat]] /\ \A u \in Users : u # who => e[u] = d[u]
    BY <1>2, <2>2, <2>4
  <2>6. \A t \in Tokens : e[who][t] = d[who][t] - (IF t = asset THEN amount ELSE 0)
    BY <1>2, <2>2, <2>4
  <2>7. Typed(r)
    BY <1>2, <2>3, <2>5 DEF Typed
  <2>8. ASSUME NEW t \in Tokens
        PROVE  Spare(r, t) = Spare(purse, t) + (IF t = asset THEN amount ELSE 0)
    <3>1. /\ Due(d, t) \in Int /\ Due(e, t) \in Int
          /\ Due(e, t) = Due(d, t) + e[who][t] - d[who][t]
      BY <1>2, <2>5, DueChanges
    <3>2. d[who][t] \in Int /\ h[t] \in Int
      BY <1>2
    <3>3. Due(e, t) = Due(d, t) - (IF t = asset THEN amount ELSE 0)
      BY <2>6, <3>1, <3>2
    <3>4. Spare(r, t) = h[t] - Due(e, t) /\ Spare(purse, t) = h[t] - Due(d, t)
      BY <1>1, <2>3 DEF Spare
    <3> QED
      BY <3>1, <3>2, <3>3, <3>4
  <2> QED
    BY <2>1, <2>7, <2>8 DEF Paid
<1>4. CASE ~ (d[who][asset] > 0)
  <2>1. _receiveAsset(purse, who, asset, amount) = [purse EXCEPT !.held[asset] = @ + amount]
    BY <1>1, <1>4 DEF _receiveAsset
  <2> QED
    BY <2>1, HeldPays
<1> QED
  BY <1>3, <1>4

LEMMA PullPays ==
  ASSUME NEW purse, Typed(purse), NEW who \in Users, NEW asset \in Tokens, NEW amount \in Nat,
         CanPull(purse, who, asset, amount)
  PROVE  Paid(purse, Pull(purse, who, asset, amount), asset, amount)
<1>1. CASE asset = ETH
  BY <1>1, HeldPays DEF Pull
<1>2. CASE asset # ETH
  BY <1>2, ReceivePays DEF Pull, CanPull
<1> QED
  BY <1>1, <1>2

-----------------------------------------------------------------------------
(* Steps that leave the positions alone.                                   *)

\* Nothing moves but one order's terms, status or balance.
LEMMA OrdersStay ==
  ASSUME IInv, orders' = orders
  PROVE  OrdersKept
BY DEF OrdersKept, IInv, Ids

\* One order rewritten: what its positions rest on stays.
OrderRewritten(o, x) ==
    /\ orders' = [orders EXCEPT ![o] = x] /\ x \in Order
    /\ x.terms.baseAsset = orders[o].terms.baseAsset
    /\ x.positions = orders[o].positions
    /\ Reneging = {} /\ OpenPositions(o) # {} =>
         /\ x.terms.currencyLimit = orders[o].terms.currencyLimit
         /\ x.terms.rewardAsset = orders[o].terms.rewardAsset
         /\ x.terms.rewardAmount = orders[o].terms.rewardAmount

LEMMA OrderStays ==
  ASSUME IInv, NEW o \in Ids(orders), NEW x, OrderRewritten(o, x)
  PROVE  OrdersKept
<1>1. orders' \in Seq(Order) /\ Replaced(orders, orders', o, x)
  BY SeqReplaced DEF OrderRewritten, IInv
<1> QED
  BY <1>1 DEF OrdersKept, OrderRewritten, Replaced

LEMMA createOrderKeeps ==
  ASSUME IInv, NEW who \in Users, NEW params \in OrderChoices, createOrder(who, params)
  PROVE  IInv'
<1>1. PICK x : x = [terms |-> params, owner |-> who, balance |-> 0,
                    alive |-> TRUE, positions |-> 0, shortfall |-> 0,
                    marginBps |-> 0, keeper |-> NoOne]
  OBVIOUS
<1>2. orders' = Append(orders, x) /\ x.positions = 0
  BY <1>1 DEF createOrder
<1>3. params \in OrderParams
  BY ChoiceAssumption
<1>4. x \in Order
  BY <1>1, <1>3 DEF Order
<1>5. orders' \in Seq(Order) /\ Extended(orders, orders', x)
  BY <1>2, <1>4, SeqExtended DEF IInv
<1>6. OrdersKept
  BY <1>2, <1>5 DEF OrdersKept, Extended
<1>7. positions' = positions /\ now' = now /\ Scalars' /\ UNCHANGED callVars
  BY DEF createOrder, marketVars, callVars, IInv, Scalars
<1>8. now' >= now
  BY <1>7 DEF IInv, Scalars
<1> QED
  BY <1>6, <1>7, <1>8, QuietKeeps

LEMMA SetOrderKeeps ==
  ASSUME IInv, NEW who \in Users, NEW o \in Ids(orders), NEW x, SetOrder(who, o, x),
         OrderRewritten(o, x)
  PROVE  IInv'
<1>1. positions' = positions /\ now' = now /\ Scalars' /\ UNCHANGED callVars
  BY DEF SetOrder, marketVars, callVars, IInv, Scalars
<1>2. now' >= now
  BY <1>1 DEF IInv, Scalars
<1> QED
  BY <1>1, <1>2, OrderStays, QuietKeeps

\* What an order is after its owner changed one part of it.
LEMMA TermsSet ==
  ASSUME NEW x \in Order, NEW terms \in OrderParams
  PROVE  /\ [x EXCEPT !.terms = terms] \in Order
         /\ [x EXCEPT !.terms = terms].terms = terms
         /\ [x EXCEPT !.terms = terms].positions = x.positions
         /\ [x EXCEPT !.terms = terms].balance = x.balance
BY DEF Order

LEMMA orderSetCollateralsRewrites ==
  ASSUME IInv, NEW who \in Users, NEW o \in Ids(orders), NEW assets \in CollateralLists,
         orderSetCollaterals(who, o, assets)
  PROVE  \E x : SetOrder(who, o, x) /\ OrderRewritten(o, x) /\ x.balance = orders[o].balance
<1>1. PICK terms : terms = [orders[o].terms EXCEPT !.collateralAssets = assets]
  OBVIOUS
<1>2. orders[o] \in Order /\ orders[o].terms \in OrderParams
  BY OrderParts DEF IInv
<1>3. terms \in OrderParams /\ terms.baseAsset = orders[o].terms.baseAsset
      /\ terms.currencyLimit = orders[o].terms.currencyLimit
      /\ terms.rewardAsset = orders[o].terms.rewardAsset
      /\ terms.rewardAmount = orders[o].terms.rewardAmount
  BY <1>1, <1>2, ChoiceAssumption DEF OrderParams
<1>4. PICK x : x = [orders[o] EXCEPT !.terms = terms]
  OBVIOUS
<1>5. x = [orders[o] EXCEPT !.terms.collateralAssets = assets]
  BY <1>1, <1>2, <1>4 DEF Order
<1>6. SetOrder(who, o, x)
  BY <1>5 DEF orderSetCollaterals
<1>7. OrderRewritten(o, x)
  BY <1>2, <1>3, <1>4, <1>6, TermsSet DEF OrderRewritten, SetOrder
<1>8. x.balance = orders[o].balance
  BY <1>2, <1>3, <1>4, TermsSet
<1> QED
  BY <1>6, <1>7, <1>8

\* Owners who keep their terms modify an order only without open positions.
LEMMA NoneOpen ==
  ASSUME IInv, NEW who \in Users, NEW o \in Ids(orders), orders[o].positions = 0,
         KeepsTerms(who, o), Reneging = {}
  PROVE  OpenPositions(o) = {}
<1>1. Cardinality(Counted(o)) = 0
  BY DEF IInv, CountsAgree
<1>2. Counted(o) = {}
  BY <1>1, OpenFinite, FS_EmptySet DEF IInv, Places
<1>3. pulling # <<>> => pulling.position \notin OpenPositions(o)
  BY DEF KeepsTerms, OpenPositions
<1> QED
  BY <1>2, <1>3 DEF Counted

LEMMA modifyOrderRewrites ==
  ASSUME IInv, NEW who \in Users, NEW o \in Ids(orders), NEW params \in OrderChoices,
         KeepsTerms(who, o), modifyOrder(who, o, params)
  PROVE  \E x : SetOrder(who, o, x) /\ OrderRewritten(o, x) /\ x.balance = orders[o].balance
<1>1. PICK terms : terms = [params EXCEPT !.baseAsset = orders[o].terms.baseAsset,
                                          !.collateralAssets = orders[o].terms.collateralAssets]
  OBVIOUS
<1>2. orders[o] \in Order /\ orders[o].terms \in OrderParams /\ params \in OrderParams
  BY OrderParts, ChoiceAssumption DEF IInv
<1>3. terms \in OrderParams /\ terms.baseAsset = orders[o].terms.baseAsset
  BY <1>1, <1>2 DEF OrderParams
<1>4. PICK x : x = [orders[o] EXCEPT !.terms = terms]
  OBVIOUS
<1>5. SetOrder(who, o, x) /\ orders[o].positions = 0
  BY <1>1, <1>4 DEF modifyOrder
<1>n. Reneging = {} => OpenPositions(o) = {}
  BY <1>5, NoneOpen
<1>6. OrderRewritten(o, x)
  BY <1>n, <1>2, <1>3, <1>4, <1>5, TermsSet DEF OrderRewritten, SetOrder
<1>7. x.balance = orders[o].balance
  BY <1>2, <1>3, <1>4, TermsSet
<1> QED
  BY <1>5, <1>6, <1>7

LEMMA orderSetLenderProtectionRewrites ==
  ASSUME IInv, NEW who \in Users, NEW o \in Ids(orders), NEW bps \in MarginChoices,
         NEW keeper \in Users \cup {NoOne}, orderSetLenderProtection(who, o, bps, keeper)
  PROVE  \E x : SetOrder(who, o, x) /\ OrderRewritten(o, x) /\ x.balance = orders[o].balance
<1>1. PICK x : x = [orders[o] EXCEPT !.marginBps = bps, !.keeper = keeper]
  OBVIOUS
<1>2. orders[o] \in Order /\ bps \in Nat
  BY OrderParts, ParameterAssumption DEF IInv
<1>3. x \in Order /\ x.terms = orders[o].terms /\ x.positions = orders[o].positions
      /\ x.balance = orders[o].balance
  BY <1>1, <1>2 DEF Order
<1>4. SetOrder(who, o, x)
  BY <1>1 DEF orderSetLenderProtection
<1>5. OrderRewritten(o, x)
  BY <1>3, <1>4 DEF OrderRewritten, SetOrder
<1> QED
  BY <1>3, <1>4, <1>5

LEMMA setOrderStatusRewrites ==
  ASSUME IInv, NEW who \in Users, NEW o \in Ids(orders), NEW status \in StatusChoices,
         setOrderStatus(who, o, status)
  PROVE  \E x : SetOrder(who, o, x) /\ OrderRewritten(o, x) /\ x.balance = orders[o].balance
<1>1. PICK x : x = [orders[o] EXCEPT !.alive = status]
  OBVIOUS
<1>2. orders[o] \in Order /\ status \in BOOLEAN
  BY OrderParts, ChoiceAssumption DEF IInv
<1>3. x \in Order /\ x.terms = orders[o].terms /\ x.positions = orders[o].positions
      /\ x.balance = orders[o].balance
  BY <1>1, <1>2 DEF Order
<1>4. SetOrder(who, o, x)
  BY <1>1 DEF setOrderStatus
<1>5. OrderRewritten(o, x)
  BY <1>3, <1>4 DEF OrderRewritten, SetOrder
<1> QED
  BY <1>3, <1>4, <1>5

\* An order's balance goes up or down.
Balance(o, n) == [orders[o] EXCEPT !.balance = n]

LEMMA BalanceSet ==
  ASSUME IInv, NEW o \in Ids(orders), NEW n \in Nat
  PROVE  /\ Balance(o, n) \in Order /\ Balance(o, n).terms = orders[o].terms
         /\ Balance(o, n).positions = orders[o].positions /\ Balance(o, n).balance = n
<1>1. orders[o] \in Order
  BY OrderParts DEF IInv
<1> QED
  BY <1>1 DEF Order, Balance

LEMMA PurseTyped ==
  ASSUME IInv
  PROVE  Typed(Purse)
BY DEF IInv, Scalars, Typed, Purse

LEMMA FundKeeps ==
  ASSUME IInv, NEW who \in Users, NEW o \in Ids(orders), NEW amount \in Nat, NEW purse,
         Typed(purse), Fund(who, o, amount, purse)
  PROVE  IInv'
<1>1. orders[o].balance \in Nat /\ orders[o] \in Order
  BY OrderParts DEF IInv
<1>2. PICK x : x = Balance(o, orders[o].balance + amount)
  OBVIOUS
<1>3. x \in Order /\ x.terms = orders[o].terms /\ x.positions = orders[o].positions
  BY <1>1, <1>2, BalanceSet
<1>4. orders' = [orders EXCEPT ![o] = x]
  BY <1>2 DEF Fund, Balance, IInv
<1>5. OrderRewritten(o, x)
  BY <1>3, <1>4 DEF OrderRewritten
<1>6. positions' = positions /\ now' = now /\ Scalars' /\ UNCHANGED callVars
  BY DEF Fund, Guarded, SetPurse, Typed, marketVars, callVars, IInv, Scalars
<1>7. now' >= now
  BY <1>6 DEF IInv, Scalars
<1> QED
  BY <1>5, <1>6, <1>7, OrderStays, QuietKeeps

LEMMA DepositsKeep ==
  ASSUME IInv, NEW who \in Users, NEW o \in Ids(orders), NEW amount \in Nat,
         \/ orderDepositEth(who, o, amount)
         \/ orderDepositWETH9(who, o, amount)
         \/ orderDepositToken(who, o, amount)
  PROVE  \E purse : /\ Paid(Purse, purse, orders[o].terms.baseAsset, amount)
                    /\ Fund(who, o, amount, purse)
<1>0. Typed(Purse) /\ orders[o].terms.baseAsset \in Tokens /\ ETH \in Tokens /\ WETH \in Tokens
  BY PurseTyped, OrderParts, TokenAssumption DEF IInv
<1>1. CASE orderDepositEth(who, o, amount)
  BY <1>0, <1>1, PullPays DEF orderDepositEth
<1>2. CASE orderDepositWETH9(who, o, amount)
  <2>1. Paid(Purse, [Purse EXCEPT !.held[WETH] = @ + amount], WETH, amount)
    BY <1>0, HeldPays
  <2> QED
    BY <1>2, <2>1 DEF orderDepositWETH9
<1>3. CASE orderDepositToken(who, o, amount)
  BY <1>0, <1>3, ReceivePays DEF orderDepositToken
<1> QED
  BY <1>1, <1>2, <1>3

\* A payout of the module.
LEMMA OutTyped ==
  ASSUME NEW balances \in [Tokens -> Int], NEW asset \in Tokens, NEW amount \in Nat,
         _transferOut(balances, asset, amount)
  PROVE  /\ held' \in [Tokens -> Int] /\ calling' = TRUE
         /\ \A t \in Tokens : held'[t] = balances[t] - (IF t = asset THEN amount ELSE 0)
BY DEF _transferOut

LEMMA orderWithdrawKeeps ==
  ASSUME IInv, NEW who \in Users, NEW o \in Ids(orders), NEW amount \in Nat,
         orderWithdraw(who, o, amount)
  PROVE  IInv'
<1>1. /\ orders[o].balance \in Nat /\ orders[o] \in Order /\ orders[o].terms.baseAsset \in Tokens
      /\ orders[o].balance - amount \in Nat
  BY OrderParts DEF IInv, orderWithdraw
<1>2. PICK x : x = Balance(o, orders[o].balance - amount)
  OBVIOUS
<1>3. x \in Order /\ x.terms = orders[o].terms /\ x.positions = orders[o].positions
  BY <1>1, <1>2, BalanceSet
<1>4. orders' = [orders EXCEPT ![o] = x]
  BY <1>2 DEF orderWithdraw, Balance, IInv
<1>5. OrderRewritten(o, x)
  BY <1>3, <1>4 DEF OrderRewritten
<1>6. held' \in [Tokens -> Int] /\ calling' = TRUE
  BY <1>1, OutTyped DEF orderWithdraw, IInv, Scalars
<1>7. EnterToPay(who) /\ positions' = positions /\ now' = now /\ Scalars'
  BY <1>6, EnteredToPay DEF orderWithdraw, marketVars, IInv, Scalars
<1> QED
  BY <1>5, <1>7, OrderStays, PayoutKeeps

\* Deposits credited, and paid back.
LEMMA CreditPays ==
  ASSUME IInv, NEW user \in Users, NEW token \in Tokens, NEW amount \in Nat,
         tokenReceived(user, token, amount)
  PROVE  /\ Typed(Purse)'
         /\ \A t \in Tokens : Spare(Purse, t)' >= Spare(Purse, t)
<1>1. /\ held \in [Tokens -> Int] /\ erc223deposit \in [Users -> [Tokens -> Nat]]
      /\ held' = [held EXCEPT ![token] = @ + amount] /\ Credit(user, token, amount)
  BY DEF IInv, Scalars, tokenReceived
<1>2. erc223deposit[user] \in [Tokens -> Nat] /\ erc223deposit[user][token] \in Nat
  BY <1>1
<1>3. PICK e : e = erc223deposit'
  OBVIOUS
<1>4. /\ e \in [Users -> [Tokens -> Nat]] /\ \A u \in Users : u # user => e[u] = erc223deposit[u]
      /\ \A t \in Tokens : e[user][t] - erc223deposit[user][t] <= (IF t = token THEN amount ELSE 0)
  <2>1. CASE _entered
    BY <1>1, <1>2, <1>3, <2>1 DEF Credit
  <2>2. CASE ~_entered
    <3>1. e = [erc223deposit EXCEPT ![user][token] = @ + amount]
      BY <1>1, <1>3, <2>2 DEF Credit
    <3>2. /\ e \in [Users -> [Tokens -> Nat]] /\ \A u \in Users : u # user => e[u] = erc223deposit[u]
      BY <1>1, <1>2, <3>1
    <3>3. \A t \in Tokens : e[user][t] = erc223deposit[user][t] + (IF t = token THEN amount ELSE 0)
      BY <1>1, <1>2, <3>1
    <3> QED
      BY <1>2, <3>2, <3>3
  <2> QED
    BY <2>1, <2>2
<1>5. ASSUME NEW t \in Tokens  PROVE Spare(Purse, t)' >= Spare(Purse, t)
  <2>1. /\ Due(erc223deposit, t) \in Int /\ Due(e, t) \in Int
        /\ Due(e, t) = Due(erc223deposit, t) + e[user][t] - erc223deposit[user][t]
    BY <1>1, <1>4, DueChanges
  <2>2. held[t] \in Int /\ held'[t] = held[t] + (IF t = token THEN amount ELSE 0)
        /\ e[user][t] \in Int /\ erc223deposit[user][t] \in Int
    BY <1>1, <1>4
  <2>3. Spare(Purse, t)' = held'[t] - Due(e, t) /\ Spare(Purse, t) = held[t] - Due(erc223deposit, t)
    BY <1>3 DEF Spare, Purse, Due
  <2> QED
    BY <1>4, <2>1, <2>2, <2>3
<1> QED
  BY <1>1, <1>3, <1>4, <1>5 DEF Typed, Purse

LEMMA RefundPays ==
  ASSUME IInv, NEW who \in Users, NEW asset \in Tokens, withdraw223(who, asset)
  PROVE  /\ Typed(Purse)' /\ calling' = TRUE
         /\ \A t \in Tokens : Spare(Purse, t)' = Spare(Purse, t)
<1>1. /\ held \in [Tokens -> Int] /\ erc223deposit \in [Users -> [Tokens -> Nat]]
      /\ erc223deposit' = [erc223deposit EXCEPT ![who][asset] = 0]
      /\ _transferOut(held, asset, erc223deposit[who][asset])
  BY DEF IInv, Scalars, withdraw223
<1>2. PICK n \in Nat : n = erc223deposit[who][asset]
  BY <1>1
<1>3. PICK e : e = erc223deposit'
  OBVIOUS
<1>4. /\ e \in [Users -> [Tokens -> Nat]] /\ \A u \in Users : u # who => e[u] = erc223deposit[u]
      /\ \A t \in Tokens : e[who][t] = erc223deposit[who][t] - (IF t = asset THEN n ELSE 0)
  BY <1>1, <1>2, <1>3
<1>5. /\ held' \in [Tokens -> Int] /\ calling' = TRUE
      /\ \A t \in Tokens : held'[t] = held[t] - (IF t = asset THEN n ELSE 0)
  BY <1>1, <1>2, OutTyped
<1>6. ASSUME NEW t \in Tokens  PROVE Spare(Purse, t)' = Spare(Purse, t)
  <2>1. /\ Due(erc223deposit, t) \in Int /\ Due(e, t) \in Int
        /\ Due(e, t) = Due(erc223deposit, t) + e[who][t] - erc223deposit[who][t]
    BY <1>1, <1>4, DueChanges
  <2>2. held[t] \in Int /\ erc223deposit[who][t] \in Int
    BY <1>1
  <2>3. Spare(Purse, t)' = held'[t] - Due(e, t) /\ Spare(Purse, t) = held[t] - Due(erc223deposit, t)
    BY <1>3 DEF Spare, Purse, Due
  <2> QED
    BY <1>4, <1>5, <2>1, <2>2, <2>3
<1> QED
  BY <1>3, <1>4, <1>5, <1>6 DEF Typed, Purse

LEMMA tokenReceivedKeeps ==
  ASSUME IInv, NEW user \in Users, NEW token \in Tokens, NEW amount \in Nat,
         tokenReceived(user, token, amount)
  PROVE  IInv'
<1>1. Typed(Purse)'
  BY CreditPays
<1>2. orders' = orders /\ positions' = positions /\ now' = now /\ Scalars' /\ UNCHANGED callVars
  BY <1>1 DEF tokenReceived, Typed, Purse, marketVars, callVars, IInv, Scalars
<1>3. now' >= now
  BY <1>2 DEF IInv, Scalars
<1> QED
  BY <1>2, <1>3, OrdersStay, QuietKeeps

LEMMA withdraw223Keeps ==
  ASSUME IInv, NEW who \in Users, NEW asset \in Tokens, withdraw223(who, asset)
  PROVE  IInv'
<1>1. Typed(Purse)' /\ calling' = TRUE
  BY RefundPays
<1>2. EnterToPay(who) /\ orders' = orders /\ positions' = positions /\ now' = now /\ Scalars'
  BY <1>1, EnteredToPay DEF withdraw223, Typed, Purse, marketVars, IInv, Scalars
<1> QED
  BY <1>2, OrdersStay, PayoutKeeps

\* The loss a liquidation books when its payout has returned.
Loss(o, n) == [orders[o] EXCEPT !.shortfall = @ + n]

LEMMA ReturnRewrites ==
  ASSUME IInv, Return
  PROVE  \/ orders' = orders
         \/ \E o \in Ids(orders) : \E x : OrderRewritten(o, x) /\ x.balance = orders[o].balance
                                      /\ x.terms = orders[o].terms
<1>1. CASE loss = <<>>
  BY <1>1 DEF Return
<1>2. CASE loss # <<>>
  <2>1. loss \in Ids(orders) \X Nat
    BY <1>2 DEF IInv, CallOK, LossOK
  <2>2. PICK o \in Ids(orders), n \in Nat : loss = <<o, n>>
    BY <2>1
  <2>3. PICK x : x = Loss(o, n)
    OBVIOUS
  <2>4. orders' = [orders EXCEPT ![o] = x]
    BY <1>2, <2>2, <2>3 DEF Return, Loss, IInv
  <2>5. orders[o] \in Order /\ orders[o].shortfall + n \in Nat
    BY OrderParts DEF IInv
  <2>6. /\ x \in Order /\ x.terms = orders[o].terms /\ x.positions = orders[o].positions
        /\ x.balance = orders[o].balance
    BY <2>3, <2>5 DEF Loss, Order
  <2> QED
    BY <2>4, <2>6 DEF OrderRewritten
<1> QED
  BY <1>1, <1>2

LEMMA LeftCall ==
  ASSUME Leave
  PROVE  CallOK' /\ _entered' = FALSE /\ calling' = FALSE /\ caller' = NoOne /\ pulling' = <<>>
BY DEF Leave, CallOK, TodoOK, PullOK, LossOK

LEMMA ReturnKeeps ==
  ASSUME IInv, Return
  PROVE  IInv'
<1>1. positions' = positions /\ now' = now /\ Scalars' /\ PullStays /\ CallOK'
  BY LeftCall DEF Return, PullStays, marketVars, IInv, Scalars
<1>2. now' >= now
  BY <1>1 DEF IInv, Scalars
<1>3. OrdersKept
  BY ReturnRewrites, OrdersStay, OrderStays
<1> QED
  BY <1>1, <1>2, <1>3, OrdersMove

LEMMA EnvironmentKeeps ==
  ASSUME IInv, Environment
  PROVE  IInv'
<1>1. orders' = orders /\ positions' = positions /\ UNCHANGED callVars
  BY DEF Environment, addTokenlist, PriceMoves, AutoListing, Tick
<1>2. Scalars' /\ now' >= now
  <2>1. CASE \E list \in Whitelists : addTokenlist(list)
    <3>1. PICK list \in Whitelists : addTokenlist(list)
      BY <2>1
    <3>2. list \in Whitelist
      BY ChoiceAssumption
    <3> QED
      BY <3>1, <3>2 DEF addTokenlist, marketVars, callVars, IInv, Scalars
  <2>2. CASE \E asset \in Tokens : \E quote \in Prices[asset] : PriceMoves(asset, quote)
    <3>1. PICK asset \in Tokens : \E quote \in Prices[asset] : PriceMoves(asset, quote)
      BY <2>2
    <3>2. PICK quote \in Prices[asset] : PriceMoves(asset, quote)
      BY <3>1
    <3>3. Prices \in [Tokens -> SUBSET Nat]
      BY ParameterAssumption
    <3>4. quote \in Nat
      BY <3>3
    <3>5. price' = [price EXCEPT ![asset] = quote] /\ price \in [Tokens -> Nat]
      BY <3>2 DEF PriceMoves, IInv, Scalars
    <3>6. price' \in [Tokens -> Nat]
      BY <3>4, <3>5
    <3> QED
      BY <3>2, <3>6 DEF PriceMoves, callVars, IInv, Scalars
  <2>3. CASE \E asset \in {t \in Tokens : \E list \in Whitelists :
                             list.isContract /\ t \in list.tokens} : AutoListing(asset)
    BY <2>3 DEF AutoListing, callVars, IInv, Scalars
  <2>4. CASE Tick
    BY <2>4 DEF Tick, callVars, IInv, Scalars
  <2> QED
    BY <2>1, <2>2, <2>3, <2>4 DEF Environment
<1> QED
  BY <1>1, <1>2, OrdersStay, QuietKeeps

-----------------------------------------------------------------------------
(* Steps that rewrite one position.                                        *)

\* What is known of a position, whatever step takes it up.
LEMMA PositionFacts ==
  ASSUME IInv, NEW p \in Ids(positions)
  PROVE  /\ positions[p] \in Position /\ positions[p].holdings \in Seq(Holding)
         /\ positions[p].orderId \in Ids(orders) /\ OrderOf(p) \in Order
         /\ BaseOf(p) \in Tokens /\ OrderOf(p).terms.currencyLimit \in Nat
         /\ OrderOf(p) = orders[positions[p].orderId]
         /\ Kept(positions[p], OrderOf(p)) /\ Sound(positions[p].holdings, BaseOf(p))
         /\ calculateDebtAmount(positions[p]) \in Nat
         /\ now \in Nat /\ held \in [Tokens -> Int] /\ price \in [Tokens -> Nat]
         /\ Typed(Purse)
<1>1. positions \in Seq(Position) /\ orders \in Seq(Order) /\ now \in Nat
      /\ held \in [Tokens -> Int] /\ price \in [Tokens -> Nat] /\ Typed(Purse)
  BY PurseTyped DEF IInv, Places, Scalars
<1>2. /\ positions[p].orderId \in Ids(orders) /\ positions[p].createdAt <= now
      /\ Kept(positions[p], OrderOf(p))
  BY DEF IInv, Places
<1>3. /\ OrderOf(p) \in Order /\ BaseOf(p) \in Tokens
      /\ OrderOf(p).terms.currencyLimit \in Nat
  BY <1>1, <1>2, OrderParts DEF OrderOf, BaseOf
<1>4. calculateDebtAmount(positions[p]) \in Nat
  BY <1>1, <1>2, PositionParts, DebtNat
<1> QED
  BY <1>1, <1>2, <1>3, <1>4, PositionParts DEF OrderOf, BaseOf, Kept

\* A position that keeps its place, its state and the currency limit.
Rewrites(p, q) ==
    /\ positions' = [positions EXCEPT ![p] = q]
    /\ SamePlace(q, p) /\ q.open = positions[p].open /\ Kept(q, OrderOf(p))

LEMMA GuardedRewriteKeeps ==
  ASSUME IInv, NEW p \in Ids(positions), NEW q, Rewrites(p, q), positions[p].open,
         held' \in [Tokens -> Int], erc223deposit' \in [Users -> [Tokens -> Nat]],
         UNCHANGED <<marketVars, tokenlists, orders, callVars>>
  PROVE  IInv'
<1>1. now' = now /\ orders' = orders /\ Scalars' /\ PullStays
  BY DEF marketVars, callVars, PullStays, IInv, Scalars
<1>2. positions' \in Seq(Position) /\ Replaced(positions, positions', p, q)
  BY SeqReplaced DEF Rewrites, SamePlace, IInv, Places
<1>3. CallOK'
  <2>1. /\ UNCHANGED <<todo, pulling, loss, _entered, caller, orders>>
        /\ Ids(positions)' = Ids(positions) /\ Ids(orders)' = Ids(orders)
        /\ \A r \in Ids(positions) : /\ positions'[r].open = positions[r].open
                                     /\ r # p => positions'[r] = positions[r]
    BY <1>2 DEF callVars, Ids, Replaced, Rewrites
  <2> QED
    BY <2>1 DEF IInv, CallOK, TodoOK, PullOK, LossOK
<1> QED
  BY <1>1, <1>3, RewriteKeeps DEF Rewrites

LEMMA DepositRewrites ==
  ASSUME IInv, NEW who \in Users, NEW p \in Ids(positions), NEW asset \in Tokens, NEW amount \in Nat,
         positionDeposit(who, p, asset, amount)
  PROVE  \E q : /\ Rewrites(p, q) /\ positions[p].open
                /\ q.holdings = addAsset(positions[p].holdings, asset, amount)
                /\ q.frozenTime = positions[p].frozenTime
                /\ q.liquidator = positions[p].liquidator
                /\ q.underwaterSince \in {0, positions[p].underwaterSince}
                /\ q.underwaterSince = 0 <=> positions[p].underwaterSince = 0 \/ ~UnderWater(q)
                /\ q.underwaterSince # 0 => Priced(q)
                /\ calculateDebtAmount(q) = calculateDebtAmount(positions[p])
                /\ Sound(q.holdings, BaseOf(p))
                /\ Paid(Purse, Purse', asset, amount)
<1>0. PICK pos : pos = positions[p]
  OBVIOUS
<1>1. /\ pos \in Position /\ pos.holdings \in Seq(Holding) /\ Typed(Purse)
      /\ OrderOf(p).terms.currencyLimit \in Nat
      /\ Sound(pos.holdings, BaseOf(p)) /\ Kept(pos, OrderOf(p))
  BY <1>0, PositionFacts
<1>2. PICK h : h = addAsset(pos.holdings, asset, amount)
  OBVIOUS
<1>3. PICK more : more = [pos EXCEPT !.holdings = h]
  OBVIOUS
<1>4. /\ pos.open /\ amount > 0
      /\ CanAdd(pos.holdings, asset, amount, OrderOf(p).terms.currencyLimit)
  BY <1>0 DEF positionDeposit
<1>5. Sound(h, BaseOf(p)) /\ (Len(pos.holdings) <= OrderOf(p).terms.currencyLimit =>
                                Len(h) <= OrderOf(p).terms.currencyLimit)
  BY <1>1, <1>2, <1>4, AddSound
<1>6. /\ more \in Position /\ more.holdings = h /\ more.orderId = pos.orderId
      /\ more.createdAt = pos.createdAt /\ more.open = pos.open
      /\ more.frozenTime = pos.frozenTime /\ more.liquidator = pos.liquidator
      /\ more.underwaterSince = pos.underwaterSince
      /\ more.initialBalance = pos.initialBalance /\ more.interest = pos.interest
  <2>1. h \in Seq(Holding)
    BY <1>5, SoundLen
  <2> QED
    BY <1>1, <1>3, <2>1 DEF Position
<1>7. PICK q : /\ positions' = [positions EXCEPT ![p] = q]
               /\ \/ q = ClearIfCovered(more) /\ Priced(more)
                  \/ q = more /\ pos.underwaterSince = 0
  BY <1>0, <1>2, <1>3 DEF positionDeposit
<1>8. Remarked(q, more) /\ q.frozenTime = more.frozenTime /\ q.liquidator = more.liquidator
  BY <1>6, <1>7, ClearRemarks DEF Remarked
<1>d. calculateDebtAmount(q) = calculateDebtAmount(pos)
  <2>1. calculateDebtAmount(more) = calculateDebtAmount(pos)
    BY <1>6 DEF calculateDebtAmount
  <2> QED
    BY <1>8, <2>1, RemarkedDebt
<1>v. Priced(more) => Priced(q)
  BY <1>8 DEF Priced, Remarked
<1>m. /\ q.underwaterSince \in {0, pos.underwaterSince}
      /\ q.underwaterSince = 0 <=> pos.underwaterSince = 0 \/ ~UnderWater(q)
      /\ q.underwaterSince # 0 => Priced(q)
  <2>1. UnderWater(ClearIfCovered(more)) <=> UnderWater(more)
    BY <1>6, ClearRemarks, RemarkedDebt
  <2>2. ClearIfCovered(more).underwaterSince = IF UnderWater(more) THEN more.underwaterSince ELSE 0
    BY <1>6, ClearRemarks
  <2> QED
    BY <1>6, <1>7, <1>v, <2>1, <2>2
<1>9. Kept(q, OrderOf(p))
  BY <1>1, <1>4, <1>5, <1>6, <1>8 DEF Kept, BaseOf, Remarked
<1>10. Rewrites(p, q)
  BY <1>0, <1>6, <1>7, <1>8, <1>9 DEF Rewrites, SamePlace, Remarked
<1>11. Paid(Purse, Purse', asset, amount)
  <2>1. PICK r : r = _receiveAsset(Purse, who, asset, amount)
    OBVIOUS
  <2>2. Paid(Purse, r, asset, amount)
    BY <1>1, <2>1, ReceivePays DEF positionDeposit
  <2>3. held' = r.held /\ erc223deposit' = r.dep
    BY <2>1 DEF positionDeposit, SetPurse
  <2>4. Purse' = r
    BY <2>2, <2>3 DEF Purse, Paid, Typed
  <2> QED
    BY <2>2, <2>4
<1> QED
  BY <1>0, <1>2, <1>4, <1>5, <1>6, <1>8, <1>10, <1>11, <1>d, <1>m DEF Remarked

\* The holdings and balances a position and the module start a swap from.
Stock(p) == [h |-> positions[p].holdings, held |-> held]

\* What a swap of `used` of slot i for `out` of asset2 leaves.
SwapLeaves(p, q, i, asset2, out, used) ==
    /\ i \in Ids(positions[p].holdings) /\ asset2 \in Tokens
    /\ asset2 # positions[p].holdings[i].asset
    /\ out \in Nat /\ used \in Nat /\ used > 0 /\ used <= positions[p].holdings[i].bal
    /\ held' \in [Tokens -> Int]
    /\ SwapEffect(Stock(p), [h |-> q.holdings, held |-> held'], BaseOf(p), i, asset2, out, used,
                  OrderOf(p).terms.currencyLimit)

LEMMA StockSwaps ==
  ASSUME IInv, NEW p \in Ids(positions), NEW i \in Ids(positions[p].holdings),
         NEW asset2 \in Tokens, asset2 # positions[p].holdings[i].asset,
         NEW out \in Nat, NEW used \in Nat, used > 0, used <= positions[p].holdings[i].bal,
         CanAdd(positions[p].holdings, asset2, out, OrderOf(p).terms.currencyLimit),
         NEW q, NEW w, w = AfterSwap(Stock(p), positions[p].holdings[i].asset, asset2, used, out),
         held' = w.held, q.holdings = w.h
  PROVE  SwapLeaves(p, q, i, asset2, out, used)
<1>1. /\ Stock(p).h = positions[p].holdings /\ Stock(p).held = held
  BY DEF Stock
<1>2. /\ positions[p].holdings \in Seq(Holding) /\ held \in [Tokens -> Int]
      /\ OrderOf(p).terms.currencyLimit \in Nat /\ Sound(positions[p].holdings, BaseOf(p))
  BY PositionFacts
<1>3. SwapReady(Stock(p), BaseOf(p), i, asset2, out, used, OrderOf(p).terms.currencyLimit)
  BY <1>1, <1>2 DEF SwapReady, Funded
<1>4. SwapEffect(Stock(p), w, BaseOf(p), i, asset2, out, used, OrderOf(p).terms.currencyLimit)
  BY <1>1, <1>3, SwapMoves
<1>5. w = [h |-> q.holdings, held |-> held']
  BY DEF AfterSwap
<1>6. held' \in [Tokens -> Int]
  BY <1>4 DEF SwapEffect, Funded
<1> QED
  BY <1>4, <1>5, <1>6 DEF SwapLeaves

LEMMA SwapKeeps ==
  ASSUME IInv, NEW p \in Ids(positions), positions[p].open, NEW q \in Position,
         NEW i, NEW asset2, NEW out, NEW used, SwapLeaves(p, q, i, asset2, out, used),
         q.orderId = positions[p].orderId, q.createdAt = positions[p].createdAt,
         q.open = positions[p].open, positions' = [positions EXCEPT ![p] = q]
  PROVE  Rewrites(p, q)
<1>1. /\ Sound(q.holdings, BaseOf(p))
      /\ Len(positions[p].holdings) <= OrderOf(p).terms.currencyLimit =>
           Len(q.holdings) <= OrderOf(p).terms.currencyLimit
  BY DEF SwapLeaves, SwapEffect, Stock
<1>2. Kept(positions[p], OrderOf(p))
  BY PositionFacts
<1> QED
  BY <1>1, <1>2 DEF Rewrites, SamePlace, Kept, BaseOf

LEMMA marginSwapRewrites ==
  ASSUME IInv, NEW who \in Users, NEW p \in Ids(positions), NEW i \in Ids(positions[p].holdings),
         NEW amount \in Nat, NEW asset2 \in Tokens, NEW slip \in Int, NEW short \in Nat,
         marginSwap(who, p, i, amount, asset2, slip, short)
  PROVE  \E q : /\ Rewrites(p, q) /\ positions[p].open /\ q.underwaterSince = 0
                /\ q.open /\ Priced(q) /\ ~subjectToLiquidation(q)
                /\ \E out, used : SwapLeaves(p, q, i, asset2, out, used)
<1>0. PICK pos : pos = positions[p]
  OBVIOUS
<1>1. /\ pos \in Position /\ pos.holdings \in Seq(Holding) /\ price \in [Tokens -> Nat]
  BY <1>0, PositionFacts
<1>2. pos.holdings[i].asset \in Tokens /\ pos.holdings[i].bal \in Nat
  BY <1>0, <1>1, HoldingParts
<1>3. PICK used, out : /\ used = amount - short
                       /\ out = Quote(asset2, pos.holdings[i].asset, used) - slip
  OBVIOUS
<1>4. PICK w : w = AfterSwap(Stock(p), pos.holdings[i].asset, asset2, used, out)
  OBVIOUS
<1>5. PICK q : q = [pos EXCEPT !.holdings = w.h, !.underwaterSince = 0]
  OBVIOUS
<1>6. /\ pos.open /\ asset2 # pos.holdings[i].asset /\ Quoted(asset2, pos.holdings[i].asset)
      /\ amount <= pos.holdings[i].bal /\ used > 0 /\ out > 0
      /\ CanAdd(pos.holdings, asset2, out, OrderOf(p).terms.currencyLimit)
      /\ held' = w.held /\ positions' = [positions EXCEPT ![p] = q]
      /\ Priced(q) /\ ~subjectToLiquidation(q)
  BY <1>0, <1>3, <1>4, <1>5 DEF marginSwap, Stock
<1>7. used \in Nat /\ used > 0 /\ used <= pos.holdings[i].bal
  BY <1>2, <1>3, <1>6
<1>8. out \in Nat
  <2>1. Quote(asset2, pos.holdings[i].asset, used) \in Nat
    BY <1>1, <1>2, <1>6, <1>7, QuoteNat DEF Quoted
  <2> QED
    BY <1>3, <1>6, <2>1
<1>9. q.holdings = w.h
  BY <1>1, <1>5 DEF Position
<1>10. SwapLeaves(p, q, i, asset2, out, used)
  BY <1>0, <1>4, <1>6, <1>7, <1>8, <1>9, StockSwaps
<1>11. q.holdings \in Seq(Holding)
  BY <1>10, SoundLen DEF SwapLeaves, SwapEffect
<1>12. /\ q \in Position /\ q.orderId = pos.orderId /\ q.createdAt = pos.createdAt
       /\ q.open = pos.open /\ q.underwaterSince = 0
  BY <1>1, <1>5, <1>9, <1>11 DEF Position
<1>13. Rewrites(p, q)
  BY <1>0, <1>6, <1>10, <1>12, SwapKeeps
<1> QED
  BY <1>0, <1>6, <1>10, <1>12, <1>13

\* A step of a liquidation sells a holding for the base asset.
SellsSlot(p, q, i) ==
    /\ positions[p].holdings[i].asset # BaseOf(p)
    /\ Quoted(BaseOf(p), positions[p].holdings[i].asset)
    /\ \E out, used : SwapLeaves(p, q, i, BaseOf(p), out, used)

LEMMA liquidateStepRewrites ==
  ASSUME IInv, NEW who \in Users, NEW p \in Ids(positions), NEW i \in Ids(positions[p].holdings),
         NEW amount \in Nat, NEW slip \in Int, NEW short \in Nat,
         liquidateStep(who, p, i, amount, slip, short)
  PROVE  \E q : /\ Rewrites(p, q) /\ positions[p].open /\ q.open /\ SellsSlot(p, q, i)
                /\ q.underwaterSince = MarkUnderwater(positions[p]).underwaterSince
                /\ \/ q.liquidator = who /\ _isLossLiquidator(OrderOf(p), who)
                   \/ q.liquidator = who /\ ~InLenderWindow(MarkUnderwater(positions[p]))
                /\ q.frozenTime = positions[p].frozenTime
                /\ _requireLiquidatable(p) /\ SaleReady(positions[p])
                /\ calculateDebtAmount(q) = calculateDebtAmount(positions[p])
<1>0. PICK old : old = positions[p]
  OBVIOUS
<1>1. /\ old \in Position /\ old.holdings \in Seq(Holding) /\ price \in [Tokens -> Nat]
      /\ Sound(old.holdings, BaseOf(p)) /\ BaseOf(p) \in Tokens /\ now \in Nat
      /\ OrderOf(p) = orders[old.orderId]
  BY <1>0, PositionFacts
<1>2. PICK pos : pos = MarkUnderwater(old)
  OBVIOUS
<1>3. /\ Remarked(pos, old) /\ pos.liquidator = old.liquidator /\ pos.frozenTime = old.frozenTime
      /\ pos.underwaterSince = MarkUnderwater(old).underwaterSince
  BY <1>1, <1>2, MarkRemarks
<1>4. pos \in Position /\ pos.holdings = old.holdings /\ pos.orderId = old.orderId
      /\ pos.createdAt = old.createdAt /\ pos.open = old.open
  BY <1>3 DEF Remarked
<1>5. PICK x : x = old.holdings[i]
  OBVIOUS
<1>6. x.asset \in Tokens /\ x.bal \in Nat
  BY <1>1, <1>0, <1>5, HoldingParts
<1>7. PICK takes : takes = (InLenderWindow(pos) /\ ~_isLossLiquidator(OrderOf(p), pos.liquidator))
  OBVIOUS
<1>8. PICK out, used : /\ used = amount - short
                       /\ out = SaleOut(BaseOf(p), x.asset, amount, slip, short)
  OBVIOUS
<1>9. old.holdings[1].asset = BaseOf(p)
  BY <1>1 DEF Sound
<1>10. PICK w : w = AfterSwap(Stock(p), x.asset, BaseOf(p), used, out)
  OBVIOUS
<1>11. w = _swapToBaseAsset(pos, [h |-> pos.holdings, held |-> held], pos.holdings[i].asset,
                            amount, slip, short)
  BY <1>0, <1>4, <1>5, <1>8, <1>9, <1>10 DEF _swapToBaseAsset, Stock
<1>12. PICK q : q = [pos EXCEPT !.holdings = w.h, !.liquidator = IF takes THEN who ELSE @]
  OBVIOUS
<1>13. /\ _requireLiquidatable(p) /\ _requireMayRealizeLoss(pos, who)
       /\ takes \/ who = pos.liquidator
       /\ i > 1 /\ amount <= x.bal /\ CanSell(pos, x.asset, amount, slip, short)
       /\ held' = w.held /\ positions' = [positions EXCEPT ![p] = q]
  BY <1>0, <1>2, <1>4, <1>5, <1>7, <1>11, <1>12 DEF liquidateStep
<1>14. /\ out \in Nat /\ used \in Nat /\ used <= amount /\ used > 0
  BY <1>1, <1>4, <1>6, <1>8, <1>13, SaleAmounts
<1>15. Quoted(BaseOf(p), x.asset) /\ x.asset # BaseOf(p)
  <2>1. pos.holdings[1].asset = BaseOf(p)
    BY <1>4, <1>9
  <2>2. i \in Ids(old.holdings) /\ i # 1 /\ Distinct(old.holdings)
    BY <1>0, <1>1, <1>13 DEF Sound, Ids
  <2>3. 1 \in Ids(old.holdings)
    BY <1>1, SoundLen
  <2> QED
    BY <1>5, <1>9, <1>13, <2>1, <2>2, <2>3 DEF CanSell, Distinct
<1>16. CanAdd(old.holdings, BaseOf(p), out, OrderOf(p).terms.currencyLimit)
  <2>1. 1 \in Ids(old.holdings) /\ old.holdings \in Seq(Holding) /\ Distinct(old.holdings)
    BY <1>1, SoundLen DEF Sound
  <2>2. getAssetId(old.holdings, BaseOf(p)) = 1
    BY <1>9, <2>1, FindAsset
  <2> QED
    BY <2>1, <2>2 DEF CanAdd
<1>17. /\ q.holdings = w.h /\ q.liquidator = IF takes THEN who ELSE pos.liquidator
       /\ q.orderId = pos.orderId /\ q.createdAt = pos.createdAt /\ q.open = pos.open
       /\ q.underwaterSince = pos.underwaterSince /\ q.frozenTime = pos.frozenTime
  BY <1>4, <1>12 DEF Position
<1>18. used <= x.bal
  BY <1>6, <1>13, <1>14
<1>19. SwapLeaves(p, q, i, BaseOf(p), out, used)
  BY <1>0, <1>1, <1>5, <1>10, <1>13, <1>14, <1>15, <1>16, <1>17, <1>18, StockSwaps
<1>20. q.holdings \in Seq(Holding)
  BY <1>19, SoundLen DEF SwapLeaves, SwapEffect
<1>21. q \in Position
  <2>1. (IF takes THEN who ELSE pos.liquidator) \in Users \cup {NoOne}
    BY <1>4 DEF Position
  <2> QED
    BY <1>4, <1>12, <1>17, <1>20, <2>1 DEF Position
<1>22. positions[p].open
  BY <1>13 DEF _requireLiquidatable
<1>23. Rewrites(p, q)
  BY <1>0, <1>4, <1>13, <1>17, <1>19, <1>21, <1>22, SwapKeeps
<1>24. SellsSlot(p, q, i)
  BY <1>0, <1>5, <1>14, <1>15, <1>19 DEF SellsSlot
<1>25. q.liquidator = who
  BY <1>13, <1>17
<1>26. InLenderWindow(pos) => _isLossLiquidator(OrderOf(p), who)
  BY <1>1, <1>4, <1>13 DEF _requireMayRealizeLoss
<1>27. _requireLiquidatable(p) /\ SaleReady(old)
  BY <1>0, <1>2, <1>3 DEF liquidateStep, SaleReady, LiveFreeze
<1>28. calculateDebtAmount(q) = calculateDebtAmount(old)
  <2>1. /\ q.initialBalance = pos.initialBalance /\ q.interest = pos.interest
        /\ q.createdAt = pos.createdAt
    BY <1>4, <1>12 DEF Position
  <2>2. calculateDebtAmount(q) = calculateDebtAmount(pos)
    BY <2>1 DEF calculateDebtAmount
  <2> QED
    BY <1>3, <2>2, RemarkedDebt
<1> QED
  BY <1>0, <1>2, <1>3, <1>4, <1>17, <1>22, <1>23, <1>24, <1>25, <1>26, <1>27, <1>28

LEMMA FreezeRewrites ==
  ASSUME IInv, NEW who \in Users, NEW p \in Ids(positions), Freeze(who, p)
  PROVE  \E q : /\ Rewrites(p, q) /\ positions[p].open /\ Remarked(q, positions[p])
                /\ q.underwaterSince = MarkUnderwater(positions[p]).underwaterSince
<1>0. PICK old : old = positions[p]
  OBVIOUS
<1>1. old \in Position /\ now \in Nat /\ Kept(old, OrderOf(p))
  BY <1>0, PositionFacts
<1>2. PICK pos : pos = MarkUnderwater(old)
  OBVIOUS
<1>3. Remarked(pos, old)
  BY <1>1, <1>2, MarkRemarks
<1>4. PICK q : q = [pos EXCEPT !.frozenTime = now, !.liquidator = who]
  OBVIOUS
<1>5. /\ positions' = [positions EXCEPT ![p] = q] /\ old.open
  BY <1>0, <1>2, <1>4 DEF Freeze, _requireLiquidatable, IInv, Places
<1>6. Remarked(q, old) /\ q.underwaterSince = pos.underwaterSince
  BY <1>1, <1>3, <1>4 DEF Remarked, Position
<1>7. Kept(q, OrderOf(p))
  BY <1>1, <1>6 DEF Kept, Remarked
<1> QED
  BY <1>0, <1>2, <1>5, <1>6, <1>7 DEF Rewrites, SamePlace, Remarked

LEMMA unfreezeRewrites ==
  ASSUME IInv, NEW p \in Ids(positions), unfreeze(p)
  PROVE  \E q : /\ Rewrites(p, q) /\ positions[p].open /\ Remarked(q, positions[p])
                /\ q.underwaterSince = 0 /\ q.frozenTime = 0
                /\ Priced(positions[p]) /\ ~subjectToLiquidation(positions[p])
<1>0. PICK old : old = positions[p]
  OBVIOUS
<1>1. old \in Position /\ Kept(old, OrderOf(p)) /\ positions \in Seq(Position)
  BY <1>0, PositionFacts DEF IInv, Places
<1>2. PICK q : q = [old EXCEPT !.frozenTime = 0, !.liquidator = NoOne, !.underwaterSince = 0]
  OBVIOUS
<1>3. positions' = [positions EXCEPT ![p].frozenTime = 0, ![p].liquidator = NoOne,
                                     ![p].underwaterSince = 0]
      /\ old.open /\ Priced(old) /\ ~subjectToLiquidation(old)
  BY <1>0 DEF unfreeze
<1>4. positions' = [positions EXCEPT ![p] = q]
  BY <1>0, <1>1, <1>2, <1>3
<1>5. Remarked(q, old) /\ q.underwaterSince = 0 /\ q.frozenTime = 0
  BY <1>1, <1>2 DEF Remarked, Position
<1>6. Kept(q, OrderOf(p))
  BY <1>1, <1>5 DEF Kept, Remarked
<1> QED
  BY <1>0, <1>3, <1>4, <1>5, <1>6 DEF Rewrites, SamePlace, Remarked

\* A payout of a holding charges exactly that holding.
PaysOut(p, q, i) ==
    /\ Rewrites(p, q) /\ held' \in [Tokens -> Int] /\ calling' = TRUE
    /\ Len(q.holdings) >= Len(positions[p].holdings) - 1
    /\ \A t \in Tokens : /\ held'[t] - Amount(q.holdings, t) = held[t] - Amount(positions[p].holdings, t)
                         /\ Amount(q.holdings, t) \in Int

LEMMA PayRewrites ==
  ASSUME IInv, NEW p \in Ids(positions), ~positions[p].open,
         NEW i \in Ids(positions[p].holdings), PayHolding(p, i)
  PROVE  \E q : PaysOut(p, q, i)
<1>0. PICK old : old = positions[p]
  OBVIOUS
<1>1. /\ old \in Position /\ old.holdings \in Seq(Holding) /\ held \in [Tokens -> Int]
      /\ Sound(old.holdings, BaseOf(p)) /\ positions \in Seq(Position)
  BY <1>0, PositionFacts DEF IInv, Places
<1>2. PICK x : x = old.holdings[i]
  OBVIOUS
<1>3. x.asset \in Tokens /\ x.bal \in Nat /\ i \in Ids(old.holdings)
  BY <1>0, <1>1, <1>2, HoldingParts
<1>4. PICK h : h = reduceAsset(old.holdings, x.asset, x.bal)
  OBVIOUS
<1>5. /\ Sound(h, BaseOf(p)) /\ Len(h) >= Len(old.holdings) - 1
  <2>1. Reduced(old.holdings, reduceAsset(old.holdings, old.holdings[i].asset, x.bal), BaseOf(p), i)
    BY <1>1, <1>2, <1>3, ReduceSound
  <2>2. Reduced(old.holdings, h, BaseOf(p), i)
    BY <1>2, <1>4, <2>1
  <2> QED
    BY <2>2 DEF Reduced
<1>6. ASSUME NEW t \in Tokens
      PROVE  /\ Amount(h, t) = Amount(old.holdings, t) - (IF x.asset = t THEN x.bal ELSE 0)
             /\ Amount(old.holdings, t) \in Int /\ Amount(h, t) \in Int
  <2>1. Amount(reduceAsset(old.holdings, old.holdings[i].asset, x.bal), t)
          = Amount(old.holdings, t) - (IF old.holdings[i].asset = t THEN x.bal ELSE 0)
    <3>1. Distinct(old.holdings) /\ x.bal <= old.holdings[i].bal
      BY <1>1, <1>2, <1>3 DEF Sound
    <3> QED
      BY <1>1, <1>3, <3>1, ReduceAmount
  <2>2. h \in Seq(Holding)
    BY <1>5, SoundLen
  <2> QED
    BY <1>1, <1>2, <1>4, <2>1, <2>2, AmountInt
<1>7. PICK q : q = [old EXCEPT !.holdings = h]
  OBVIOUS
<1>8. /\ positions' = [positions EXCEPT ![p] = q] /\ _transferOut(held, x.asset, x.bal)
  BY <1>0, <1>1, <1>2, <1>4, <1>7 DEF PayHolding
<1>9. /\ q \in Position /\ q.holdings = h /\ q.orderId = old.orderId
      /\ q.createdAt = old.createdAt /\ q.open = old.open
  BY <1>1, <1>5, <1>7, SoundLen, Rehold
<1>10. Rewrites(p, q)
  BY <1>0, <1>5, <1>8, <1>9 DEF Rewrites, SamePlace, Kept, BaseOf
<1>11. /\ held' \in [Tokens -> Int] /\ calling' = TRUE
       /\ \A t \in Tokens : held'[t] = held[t] - (IF t = x.asset THEN x.bal ELSE 0)
  BY <1>1, <1>3, <1>8, OutTyped
<1>12. ASSUME NEW t \in Tokens
       PROVE  held'[t] - Amount(h, t) = held[t] - Amount(old.holdings, t)
  <2>1. held[t] \in Int
    BY <1>1
  <2> QED
    BY <1>3, <1>6, <1>11, <2>1
<1> QED
  BY <1>0, <1>5, <1>6, <1>9, <1>10, <1>11, <1>12 DEF PaysOut

LEMMA PaysOutKeeps ==
  ASSUME IInv, NEW p \in Ids(positions), NEW q, NEW i, PaysOut(p, q, i),
         UNCHANGED <<marketVars, erc223deposit, tokenlists, orders>>,
         _entered' \in BOOLEAN, caller' \in Users \cup {NoOne}, PullStays, CallOK'
  PROVE  IInv'
<1>1. now' = now /\ orders' = orders /\ Scalars'
  BY DEF PaysOut, marketVars, IInv, Scalars
<1> QED
  BY <1>1, RewriteKeeps DEF PaysOut, Rewrites

LEMMA positionWithdrawKeeps ==
  ASSUME IInv, NEW who \in Users, NEW p \in Ids(positions), NEW i \in Ids(positions[p].holdings),
         positionWithdraw(who, p, i)
  PROVE  IInv'
<1>1. /\ ~positions[p].open /\ PayHolding(p, i)
      /\ PullStays /\ CallOK' /\ _entered' = TRUE /\ caller' = who
  BY EnteredToPay DEF positionWithdraw
<1>2. UNCHANGED <<marketVars, erc223deposit, tokenlists, orders>>
  BY <1>1 DEF PayHolding
<1>3. \E q : PaysOut(p, q, i)
  BY <1>1, PayRewrites
<1> QED
  BY <1>1, <1>2, <1>3, PaysOutKeeps

\* The walk pays the slots of the position it started from.
LEMMA ContinuePays ==
  ASSUME IInv, Continue
  PROVE  \E p \in Ids(positions) : \E i \in Ids(positions[p].holdings) :
           /\ todo' = <<p, i - 1>> /\ PayHolding(p, i)
           /\ ~positions[p].open /\ _entered
           /\ pulling = <<>> /\ UNCHANGED <<_entered, caller, pulling, loss>>
<1>1. PICK i \in Unpaid : todo' = <<todo[1], i - 1>> /\ PayHolding(todo[1], i)
  BY DEF Continue
<1>2. todo # <<>> /\ i \in 1 .. todo[2]
  BY <1>1 DEF Unpaid
<1>3. /\ todo \in Ids(positions) \X Nat /\ ~positions[todo[1]].open /\ pulling = <<>>
      /\ todo[2] <= Len(positions[todo[1]].holdings)
  BY <1>2 DEF IInv, CallOK, TodoOK, PullOK
<1>4. PICK p \in Ids(positions), n \in Nat : todo = <<p, n>>
  BY <1>3
<1>5. todo[1] = p /\ todo[2] = n
  BY <1>4
<1>6. positions[p].holdings \in Seq(Holding)
  BY PositionFacts
<1>7. i \in Ids(positions[p].holdings)
  BY <1>2, <1>3, <1>5, <1>6 DEF Ids
<1> QED
  BY <1>1, <1>3, <1>5, <1>7 DEF Continue

LEMMA ContinueKeeps ==
  ASSUME IInv, Continue
  PROVE  IInv'
<1>1. PICK p, i : /\ p \in Ids(positions) /\ i \in Ids(positions[p].holdings)
                  /\ todo' = <<p, i - 1>> /\ PayHolding(p, i)
                  /\ ~positions[p].open /\ _entered
                  /\ pulling = <<>> /\ UNCHANGED <<_entered, caller, pulling, loss>>
  BY ContinuePays
<1>2. PICK q : PaysOut(p, q, i)
  BY <1>1, PayRewrites
<1>3. UNCHANGED <<marketVars, erc223deposit, tokenlists, orders>>
  BY <1>1 DEF PayHolding
<1>4. _entered' = TRUE /\ caller' \in Users \cup {NoOne}
  BY <1>1 DEF IInv, Scalars
<1>p. PullStays /\ PullOK' /\ LossOK'
  BY <1>1, <1>3 DEF PullStays, PullOK, LossOK, IInv, CallOK, Ids
<1>5. TodoOK'
  <2>1. positions' \in Seq(Position) /\ Replaced(positions, positions', p, q)
    BY <1>1, <1>2, SeqReplaced DEF PaysOut, Rewrites, SamePlace, IInv, Places
  <2>2. positions'[p] = q /\ p \in Ids(positions)' /\ ~q.open
    BY <1>1, <1>2, <2>1 DEF Replaced, Ids, PaysOut, Rewrites
  <2>3. q.holdings \in Seq(Holding) /\ positions[p].holdings \in Seq(Holding)
    BY <1>1, <1>2, PositionFacts DEF PaysOut, Rewrites, SamePlace, Position
  <2>4. i - 1 \in Nat /\ i - 1 <= Len(q.holdings)
    BY <1>1, <1>2, <2>3 DEF PaysOut, Ids
  <2> QED
    BY <1>1, <1>4, <2>2, <2>4 DEF TodoOK
<1> QED
  BY <1>1, <1>2, <1>3, <1>4, <1>5, <1>p, PaysOutKeeps DEF CallOK

-----------------------------------------------------------------------------
(* Steps that close a position.                                            *)

LEMMA RemarkedSelf ==
  ASSUME NEW pos \in Position
  PROVE  Remarked(pos, pos)
BY DEF Remarked

LEMMA SetWeight ==
  ASSUME NEW W \in [Holding -> Int], NEW h \in Seq(Holding), NEW i \in Ids(h), NEW g, NEW b \in Nat,
         SlotSet(h, g, i, b)
  PROVE  Weigh(W, g) = Weigh(W, h) - W[h[i]] + W[Slot(h[i].asset, b)]
<1>1. Weigh(W, g) = Weigh(W, h) - W[h[i]] + W[g[i]]
  BY WeighSet DEF SlotSet
<1>2. g[i] \in Holding
  BY HoldingParts DEF Ids, SlotSet
<1>3. g[i].asset = h[i].asset /\ g[i].bal = b
  BY DEF SlotSet
<1> QED
  BY <1>1, <1>2, <1>3, HoldingIsSlot

\* Taking some of the base asset off.
Less(h, n) == [h EXCEPT ![1].bal = @ - n]

LEMMA ChargeBase ==
  ASSUME NEW h, NEW base, Sound(h, base), NEW n \in Nat, n <= h[1].bal,
         NEW g, g = Less(h, n)
  PROVE  /\ Sound(g, base) /\ Len(g) = Len(h)
         /\ \A t \in Tokens : Amount(g, t) = Amount(h, t) - (IF t = base THEN n ELSE 0)
<1>1. /\ h \in Seq(Holding) /\ 1 \in Ids(h) /\ Distinct(h) /\ h[1].asset = base
      /\ Len(h) \in Nat \ {0} /\ h[1].bal \in Nat /\ h[1] \in Holding
  BY SoundLen, HoldingParts DEF Sound
<1>2. PICK b \in Nat : b = h[1].bal - n
  BY <1>1
<1>3. g = WithBal(h, 1, b)
  BY <1>1, <1>2 DEF WithBal, Less
<1>4. SlotSet(h, g, 1, b)
  BY <1>1, <1>2, <1>3, SetBal
<1>5. g \in Seq(Holding) /\ Len(g) = Len(h) /\ Ids(g) = Ids(h)
  BY <1>4 DEF SlotSet, Ids
<1>6. Sound(g, base)
  <2>0. \A k \in Ids(h) : g[k].asset = h[k].asset
    BY <1>4 DEF SlotSet
  <2>1. Distinct(g) /\ g[1].asset = base /\ g # <<>>
    <3>1. Distinct(g) /\ g[1].asset = base
      BY <1>1, <1>5, <2>0 DEF Distinct
    <3>2. g # <<>>
      BY <1>1, <1>5
    <3> QED
      BY <3>1, <3>2
  <2>2. \A k \in 2 .. Len(g) : g[k].bal > 0
    <3> SUFFICES ASSUME NEW k \in 2 .. Len(g) PROVE g[k].bal > 0
      OBVIOUS
    <3>1. k \in Ids(h) /\ k # 1 /\ k \in 2 .. Len(h)
      BY <1>5 DEF Ids
    <3> QED
      BY <1>4, <3>1 DEF SlotSet, Sound
  <2> QED
    BY <1>5, <2>1, <2>2 DEF Sound
<1>7. ASSUME NEW t \in Tokens
      PROVE  Amount(g, t) = Amount(h, t) - (IF t = base THEN n ELSE 0)
  <2>1. PICK W : W = OfToken(t)
    OBVIOUS
  <2>2. /\ W \in [Holding -> Int] /\ Amount(h, t) \in Int
        /\ \A x \in Holding : W[x] = IF x.asset = t THEN x.bal ELSE 0
    BY <1>1, <2>1, OfTokenWeight, AmountInt
  <2>3. Weigh(W, g) = Weigh(W, h) - W[h[1]] + W[Slot(h[1].asset, b)]
    BY <1>1, <1>2, <1>4, <2>2, SetWeight
  <2>4. W[h[1]] = IF base = t THEN h[1].bal ELSE 0
    <3>1. h[1] \in Holding /\ h[1].asset = base
      BY <1>1
    <3> QED
      BY <2>2, <3>1
  <2>5. W[Slot(h[1].asset, b)] = IF base = t THEN b ELSE 0
    <3>1. base \in Tokens /\ h[1].asset = base
      BY <1>1, HoldingParts
    <3> QED
      BY <1>2, <2>1, <3>1, OfTokenWeight
  <2>6. Weigh(W, g) = Amount(g, t) /\ Weigh(W, h) = Amount(h, t)
    BY <2>1 DEF Amount
  <2> QED
    BY <1>1, <1>2, <2>2, <2>3, <2>4, <2>5, <2>6
<1> QED
  BY <1>5, <1>6, <1>7

\* What a settlement writes: position q, order x.
Settles(p, q, x, w) ==
    /\ positions' = [positions EXCEPT ![p] = q]
    /\ orders' = [orders EXCEPT ![positions[p].orderId] = x]
    /\ SamePlace(q, p) /\ positions[p].open /\ ~q.open /\ Kept(q, OrderOf(p))
    /\ x \in Order /\ x.terms = OrderOf(p).terms
    /\ x.positions = Released(OrderOf(p).positions)
    /\ x.balance = OrderOf(p).balance + Repaid(w, calculateDebtAmount(positions[p]))
    /\ x.shortfall = OrderOf(p).shortfall
    /\ Repaid(w, calculateDebtAmount(positions[p])) \in Nat
    /\ Shortfall(w, calculateDebtAmount(positions[p])) \in Nat
    /\ w.h[1].bal \in Nat /\ Len(q.holdings) = Len(w.h)

\* ... and what it does to the balances.
Charges(p, q, w) ==
    /\ held' \in [Tokens -> Int] /\ calling' = TRUE
    /\ \A t \in Tokens :
         /\ Amount(q.holdings, t) \in Int
         /\ held'[t] - Amount(q.holdings, t)
              = held[t] - Amount(positions[p].holdings, t)
                + (IF t = BaseOf(p) THEN Repaid(w, calculateDebtAmount(positions[p])) ELSE 0)
                - (IF t = OrderOf(p).terms.rewardAsset THEN OrderOf(p).terms.rewardAmount ELSE 0)

LEMMA RepaidParts ==
  ASSUME NEW w, w.h[1].bal \in Nat, NEW debt \in Nat
  PROVE  /\ Repaid(w, debt) \in Nat /\ Shortfall(w, debt) \in Nat
         /\ Repaid(w, debt) <= w.h[1].bal
         /\ Repaid(w, debt) + Shortfall(w, debt) = debt
         /\ Shortfall(w, debt) > 0 => w.h[1].bal < debt
BY DEF Repaid, Shortfall

Charged(p, w) == Less(w.h, Repaid(w, calculateDebtAmount(positions[p])))

LEMMA SettleWrites ==
  ASSUME IInv, NEW who \in Users, NEW p \in Ids(positions), positions[p].open,
         NEW pos, Remarked(pos, positions[p]), NEW sellAll, NEW w \in Sold(pos, sellAll),
         _settle(who, p, pos, w)
  PROVE  \E q, x : /\ Settles(p, q, x, w) /\ Charges(p, q, w)
                   /\ q.holdings = Charged(p, w)
<1>0. PICK old, o, base : old = positions[p] /\ o = positions[p].orderId /\ base = BaseOf(p)
  OBVIOUS
<1>1. /\ old \in Position /\ held \in [Tokens -> Int] /\ price \in [Tokens -> Nat]
      /\ o \in Ids(orders) /\ OrderOf(p) \in Order /\ OrderOf(p) = orders[o]
      /\ Sound(old.holdings, base) /\ Kept(old, OrderOf(p)) /\ base \in Tokens
      /\ calculateDebtAmount(old) \in Nat
  BY <1>0, PositionFacts
<1>2. /\ pos \in Position /\ pos.holdings = old.holdings /\ pos.orderId = o
      /\ pos.createdAt = old.createdAt /\ pos.open = old.open
  BY <1>0 DEF Remarked
<1>3. PICK debt \in Nat : debt = calculateDebtAmount(old)
  BY <1>1
<1>4. calculateDebtAmount(pos) = debt
  BY <1>0, <1>3, RemarkedDebt
<1>5. Visited(pos, base, w, 2)
  BY <1>1, <1>2, SoldKeeps
<1>6. /\ Sound(w.h, base) /\ Len(w.h) <= Len(old.holdings) /\ w.held \in [Tokens -> Int]
      /\ \A t \in Tokens : w.held[t] - Amount(w.h, t) = held[t] - Amount(old.holdings, t)
  BY <1>2, <1>5 DEF Visited, Funded, Slack
<1>7. w.h \in Seq(Holding) /\ w.h[1].bal \in Nat /\ Len(w.h) \in Nat
  BY <1>6, SoundLen, HoldingParts
<1>8. PICK r, s : r = Repaid(w, debt) /\ s = Shortfall(w, debt)
  OBVIOUS
<1>9. r \in Nat /\ s \in Nat /\ r <= w.h[1].bal
  BY <1>7, <1>8, RepaidParts
<1>10. PICK g : g = Less(w.h, r)
  OBVIOUS
<1>11. /\ Sound(g, base) /\ Len(g) = Len(w.h)
       /\ \A t \in Tokens : Amount(g, t) = Amount(w.h, t) - (IF t = base THEN r ELSE 0)
  <2>1. PICK h : h = w.h
    OBVIOUS
  <2>2. Sound(h, base) /\ r \in Nat /\ r <= h[1].bal /\ g = Less(h, r)
    BY <1>6, <1>9, <1>10, <2>1
  <2>3. /\ Sound(g, base) /\ Len(g) = Len(h)
        /\ \A t \in Tokens : Amount(g, t) = Amount(h, t) - (IF t = base THEN r ELSE 0)
    BY <2>2, ChargeBase
  <2> QED
    BY <2>1, <2>3
<1>12. PICK q : q = [pos EXCEPT !.holdings = g, !.open = FALSE, !.frozenTime = 0, !.liquidator = NoOne]
  OBVIOUS
<1>13. positions' = [positions EXCEPT ![p] = q]
  BY <1>4, <1>8, <1>10, <1>12 DEF _settle, Settled, Less
<1>14. g \in Seq(Holding)
  BY <1>11, SoundLen
<1>15. /\ q \in Position /\ q.holdings = g /\ q.orderId = o /\ q.createdAt = old.createdAt /\ ~q.open
  BY <1>2, <1>12, <1>14 DEF Position
<1>16. SamePlace(q, p) /\ Kept(q, OrderOf(p))
  BY <1>0, <1>11, <1>15 DEF SamePlace, Kept, BaseOf
<1>17. PICK x : x = [orders[o] EXCEPT !.balance = @ + r, !.positions = Released(@)]
  OBVIOUS
<1>18. orders' = [orders EXCEPT ![o] = x]
  <2>1. orders' = [orders EXCEPT ![o].balance = @ + r, ![o].positions = Released(@)]
    BY <1>2, <1>4, <1>8 DEF _settle
  <2>2. orders \in Seq(Order)
    BY DEF IInv
  <2> QED
    BY <1>1, <1>17, <2>1, <2>2 DEF Ids
<1>19. /\ x \in Order /\ x.terms = OrderOf(p).terms
       /\ x.positions = Released(OrderOf(p).positions)
       /\ x.balance = OrderOf(p).balance + r /\ x.shortfall = OrderOf(p).shortfall
  <2>1. OrderOf(p).positions \in Int /\ Released(OrderOf(p).positions) \in Int
    BY <1>1 DEF Order, Released
  <2>2. OrderOf(p).balance + r \in Nat /\ OrderOf(p).shortfall \in Nat
    BY <1>1, <1>9 DEF Order
  <2> QED
    BY <1>1, <1>17, <2>1, <2>2 DEF Order
<1>20. Settles(p, q, x, w)
  BY <1>0, <1>3, <1>7, <1>8, <1>9, <1>11, <1>13, <1>15, <1>16, <1>18, <1>19 DEF Settles
<1>21. Charges(p, q, w)
  <2>1. PICK ra, rn : ra = OrderOf(p).terms.rewardAsset /\ rn = OrderOf(p).terms.rewardAmount
    OBVIOUS
  <2>2. ra \in Tokens /\ rn \in Nat
    BY <1>1, <2>1 DEF Order, OrderParams
  <2>3. _transferOut(w.held, ra, rn)
    BY <1>1, <1>2, <2>1 DEF _settle
  <2>4. /\ held' \in [Tokens -> Int] /\ calling' = TRUE
        /\ \A t \in Tokens : held'[t] = w.held[t] - (IF t = ra THEN rn ELSE 0)
    <3>1. PICK b \in [Tokens -> Int] : b = w.held
      BY <1>6
    <3>2. _transferOut(b, ra, rn)
      BY <2>3, <3>1
    <3> QED
      BY <2>2, <3>1, <3>2 DEF _transferOut
  <2>5. ASSUME NEW t \in Tokens
        PROVE  /\ Amount(g, t) \in Int
               /\ held'[t] - Amount(g, t) = held[t] - Amount(old.holdings, t)
                    + (IF t = base THEN r ELSE 0) - (IF t = ra THEN rn ELSE 0)
    <3>1. /\ Amount(g, t) \in Int /\ Amount(w.h, t) \in Int /\ Amount(old.holdings, t) \in Int
          /\ w.held[t] \in Int /\ held[t] \in Int
      BY <1>1, <1>6, <1>7, <1>14, AmountInt, SoundLen
    <3>2. PICK a, b, c, d, e, f :
            /\ a = Amount(g, t) /\ b = Amount(w.h, t) /\ c = Amount(old.holdings, t)
            /\ d = w.held[t] /\ e = held[t] /\ f = held'[t]
      OBVIOUS
    <3>3. PICK m, n : m = (IF t = base THEN r ELSE 0) /\ n = (IF t = ra THEN rn ELSE 0)
      OBVIOUS
    <3>4. a \in Int /\ b \in Int /\ c \in Int /\ d \in Int /\ e \in Int /\ m \in Int /\ n \in Int
      BY <1>9, <2>2, <3>1, <3>2, <3>3
    <3>5. a = b - m /\ d - b = e - c /\ f = d - n
      BY <1>6, <1>11, <2>4, <3>2, <3>3
    <3>6. f - a = e - c + m - n
      BY <3>4, <3>5
    <3> QED
      BY <3>2, <3>3, <3>4, <3>6
  <2> QED
    BY <1>0, <1>3, <1>8, <1>15, <2>1, <2>4, <2>5 DEF Charges
<1> QED
  BY <1>0, <1>3, <1>8, <1>10, <1>15, <1>20, <1>21 DEF Charged

\* The loss a liquidation is going to book.
Loses(p, w) == loss' = <<positions[p].orderId, Shortfall(w, calculateDebtAmount(positions[p]))>>

LEMMA SettlesKeeps ==
  ASSUME IInv, NEW p \in Ids(positions), NEW q, NEW x, NEW w, Settles(p, q, x, w),
         Charges(p, q, w), UNCHANGED <<marketVars, erc223deposit, tokenlists>>,
         ~_entered, _entered' = TRUE, caller' \in Users, pulling' = <<>>,
         todo' = <<>> \/ todo' = <<p, Len(w.h)>>, loss' = <<>> \/ Loses(p, w)
  PROVE  IInv'
<1>1. now' = now /\ Scalars'
  BY DEF Charges, marketVars, IInv, Scalars
<1>2. TodoOK'
  <2>1. CASE todo' = <<>>
    BY <2>1 DEF TodoOK
  <2>2. CASE todo' = <<p, Len(w.h)>>
    <3>1. positions' \in Seq(Position) /\ Replaced(positions, positions', p, q)
      BY SeqReplaced DEF Settles, SamePlace, IInv, Places
    <3>2. positions'[p] = q /\ p \in Ids(positions)' /\ ~q.open /\ Len(w.h) = Len(q.holdings)
      BY <3>1 DEF Replaced, Ids, Settles
    <3>3. Len(q.holdings) \in Nat
      BY DEF Settles, SamePlace, Position
    <3>4. Len(w.h) <= Len(q.holdings)
      BY <3>2, <3>3
    <3> QED
      BY <2>2, <3>2, <3>3, <3>4 DEF TodoOK
  <2> QED
    BY <2>1, <2>2
<1>3. pulling = <<>> /\ PullOK'
  BY Idle DEF PullOK
<1>4. LossOK'
  <2>1. positions[p].orderId \in Ids(orders) /\ OrderOf(p) = orders[positions[p].orderId]
        /\ orders \in Seq(Order)
    BY PositionFacts DEF IInv
  <2>2. Ids(orders)' = Ids(orders)
    BY <2>1, SeqReplaced DEF Settles, Replaced, Ids
  <2> QED
    BY <2>1, <2>2 DEF LossOK, Loses, Settles
<1> QED
  BY <1>1, <1>2, <1>3, <1>4, CloseKeeps DEF Settles, CallOK

LEMMA LiquidateSettles ==
  ASSUME IInv, NEW who \in Users, NEW p \in Ids(positions), Liquidate(who, p)
  PROVE  \E q, x, w : /\ w \in Sold(MarkUnderwater(positions[p]), TRUE)
                      /\ _requireLiquidatable(p) /\ SaleReady(positions[p])
                      /\ InLenderWindow(MarkUnderwater(positions[p])) =>
                           _isLossLiquidator(OrderOf(p), who)
                      /\ Settles(p, q, x, w) /\ Charges(p, q, w)
                      /\ q.holdings = Charged(p, w)
                      /\ ~_entered /\ _entered' = TRUE /\ caller' = who
                      /\ pulling' = <<>> /\ todo' = <<>> /\ Loses(p, w)
                      /\ UNCHANGED <<marketVars, erc223deposit, tokenlists>>
<1>1. PICK pos : pos = MarkUnderwater(positions[p])
  OBVIOUS
<1>2. PICK w \in Sold(pos, TRUE) :
        /\ _settle(who, p, pos, w)
        /\ loss' = <<pos.orderId, Shortfall(w, calculateDebtAmount(pos))>>
  BY <1>1 DEF Liquidate
<1>3. Remarked(pos, positions[p])
  BY <1>1, PositionFacts, MarkRemarks
<1>4. positions[p].open /\ todo' = <<>>
  BY DEF Liquidate, MayLiquidate, _requireLiquidatable
<1>5. PICK q, x : /\ Settles(p, q, x, w) /\ Charges(p, q, w)
                  /\ q.holdings = Charged(p, w)
  BY <1>2, <1>3, <1>4, SettleWrites
<1>6. /\ ~_entered /\ _entered' = TRUE /\ caller' = who /\ pulling' = <<>>
      /\ UNCHANGED <<marketVars, erc223deposit, tokenlists>>
  BY <1>2 DEF _settle, Enter
<1>7. _requireLiquidatable(p) /\ SaleReady(positions[p])
  <2>1. pos.frozenTime = positions[p].frozenTime
    BY <1>1, PositionFacts, MarkRemarks
  <2> QED
    BY <1>1, <2>1 DEF Liquidate, MayLiquidate, SaleReady, LiveFreeze
<1>8. InLenderWindow(pos) => _isLossLiquidator(OrderOf(p), who)
  <2>1. pos.orderId = positions[p].orderId
    BY <1>3 DEF Remarked
  <2> QED
    BY <1>1, <2>1 DEF Liquidate, MayLiquidate, _requireMayRealizeLoss, OrderOf
<1>9. Loses(p, w)
  <2>1. pos.orderId = positions[p].orderId /\ calculateDebtAmount(pos) = calculateDebtAmount(positions[p])
    BY <1>3, RemarkedDebt DEF Remarked
  <2> QED
    BY <1>2, <2>1 DEF Loses
<1> QED
  BY <1>1, <1>2, <1>4, <1>5, <1>6, <1>7, <1>8, <1>9

LEMMA CloseSettles ==
  ASSUME IInv, NEW who \in Users, NEW p \in Ids(positions), NEW autoWithdraw \in BOOLEAN,
         positionClose(who, p, autoWithdraw)
  PROVE  \E q, x, w : /\ w \in Sold(positions[p], FALSE)
                      /\ w.h[1].bal >= calculateDebtAmount(positions[p])
                      /\ Priced(positions[p]) /\ ~subjectToLiquidation(positions[p])
                      /\ Settles(p, q, x, w) /\ Charges(p, q, w)
                      /\ ~_entered /\ _entered' = TRUE /\ caller' = who
                      /\ pulling' = <<>> /\ loss' = <<>>
                      /\ todo' = <<>> \/ todo' = <<p, Len(w.h)>>
                      /\ UNCHANGED <<marketVars, erc223deposit, tokenlists>>
<1>1. PICK pos : pos = positions[p]
  OBVIOUS
<1>2. PICK w \in Sold(pos, FALSE) :
        /\ w.h[1].bal >= calculateDebtAmount(pos) /\ _settle(who, p, pos, w)
        /\ todo' = IF autoWithdraw THEN <<p, Len(w.h)>> ELSE <<>>
        /\ loss' = <<>>
  BY <1>1 DEF positionClose
<1>3. Remarked(pos, positions[p]) /\ positions[p].open
  BY <1>1, PositionFacts, RemarkedSelf DEF positionClose, MayClose
<1>4. PICK q, x : Settles(p, q, x, w) /\ Charges(p, q, w)
  BY <1>2, <1>3, SettleWrites
<1>5. /\ ~_entered /\ _entered' = TRUE /\ caller' = who /\ pulling' = <<>>
      /\ UNCHANGED <<marketVars, erc223deposit, tokenlists>>
  BY <1>2 DEF _settle, Enter
<1>6. Priced(positions[p]) /\ ~subjectToLiquidation(positions[p])
  BY DEF positionClose, MayClose, Closable
<1> QED
  BY <1>1, <1>2, <1>4, <1>5, <1>6

-----------------------------------------------------------------------------
(* The step that opens a position.                                         *)

First(h, base, amount) ==
    /\ Sound(h, base) /\ Len(h) = 1
    /\ \A t \in Tokens : Amount(h, t) = IF t = base THEN amount ELSE 0

LEMMA FirstHolding ==
  ASSUME NEW base \in Tokens, NEW amount \in Nat, NEW limit, CanAdd(<<>>, base, amount, limit)
  PROVE  First(addAsset(<<>>, base, amount), base, amount) /\ 1 <= limit
<1>1. Ids(<<>>) = {} /\ Len(<<>>) = 0
  BY DEF Ids
<1>2. getAssetId(<<>>, base) = 1
  BY <1>1 DEF getAssetId
<1>3. addAsset(<<>>, base, amount) = <<Slot(base, amount)>> /\ 1 <= limit
  BY <1>1, <1>2 DEF addAsset, CanAdd, Slot
<1>4. PICK x \in Holding : x = Slot(base, amount) /\ x.asset = base /\ x.bal = amount
  BY SlotIsHolding
<1>5. <<x>> \in Seq(Holding) /\ Len(<<x>>) = 1 /\ <<x>>[1] = x /\ <<x>> # <<>> /\ Ids(<<x>>) = {1}
  BY DEF Ids
<1>6. Sound(<<x>>, base)
  BY <1>4, <1>5 DEF Sound, Distinct
<1>7. ASSUME NEW t \in Tokens
      PROVE  Amount(<<x>>, t) = IF t = base THEN amount ELSE 0
  <2>1. PICK W : W = OfToken(t)
    OBVIOUS
  <2>2. W[x] = (IF t = base THEN amount ELSE 0) /\ W[x] \in Int
    BY <1>4, <2>1, OfTokenWeight
  <2>3. PICK s : s = <<x>>
    OBVIOUS
  <2>4. [i \in Ids(s) |-> W[s[i]]] = [i \in {1} |-> W[x]]
    BY <1>5, <2>3
  <2>5. PICK f : f = [i \in {1} |-> W[x]]
    OBVIOUS
  <2>6. f \in [{1} -> Int] /\ DOMAIN f = {1} /\ f[1] = W[x]
    BY <2>2, <2>5
  <2>7. SumFunctionOnSet(f, {1}) = f[1] + SumFunctionOnSet(f, {1} \ {1})
    <3>1. IsFiniteSet({1}) /\ {1} \in SUBSET {1} /\ 1 \in {1}
      BY FS_Singleton
    <3> QED
      BY <2>6, <3>1, SumSplit
  <2>8. SumFunctionOnSet(f, {1} \ {1}) = 0
    <3>1. {1} \ {1} = {}
      OBVIOUS
    <3> QED
      BY <3>1, SumNone
  <2>9. SumFunction(f) = W[x]
    BY <2>2, <2>6, <2>7, <2>8 DEF SumFunction
  <2> QED
    BY <2>1, <2>2, <2>3, <2>4, <2>5, <2>9 DEF Amount, Weigh
<1>8. First(<<x>>, base, amount)
  BY <1>5, <1>6, <1>7 DEF First
<1> QED
  BY <1>3, <1>4, <1>8

\* What taking a loan writes: the position, the order, and what to pull first.
Opens(o, q, x, asset, collateral) ==
    /\ positions' = Append(positions, q) /\ q \in Position
    /\ q.orderId = o /\ q.createdAt = now /\ q.open /\ Kept(q, orders[o])
    /\ orders' = [orders EXCEPT ![o] = x] /\ x \in Order
    /\ x.terms = orders[o].terms /\ x.positions = orders[o].positions
    /\ pulling = <<>> /\ pulling' # <<>> /\ pulling'.position = Len(positions) + 1
    /\ pulling'.asset = asset /\ pulling'.amount = collateral /\ pulling'.reward = FALSE
    /\ \A t \in Tokens :
         /\ Amount(q.holdings, t) \in Int
         /\ Amount(q.holdings, t)
              = (IF t = orders[o].terms.baseAsset THEN orders[o].balance - x.balance ELSE 0)
                + (IF t = asset THEN collateral ELSE 0)

LEMMA takeLoanOpens ==
  ASSUME IInv, NEW who \in Users, NEW o \in Ids(orders), NEW amount \in Nat,
         NEW asset \in Tokens, NEW collateral \in Nat, takeLoan(who, o, amount, asset, collateral)
  PROVE  \E q, x : Opens(o, q, x, asset, collateral)
<1>0. PICK y, base, limit : y = orders[o] /\ base = y.terms.baseAsset /\ limit = y.terms.currencyLimit
  OBVIOUS
<1>1. /\ y \in Order /\ base \in Tokens /\ limit \in Nat /\ orders \in Seq(Order)
      /\ y.balance \in Nat /\ y.positions \in Int
      /\ y.terms.duration \in Nat /\ y.terms.interestRate \in Nat
  BY <1>0, OrderParts DEF IInv
<1>2. now \in Nat
  BY DEF IInv, Scalars
<1>3. PICK h1, h2 : h1 = addAsset(<<>>, base, amount) /\ h2 = addAsset(h1, asset, collateral)
  OBVIOUS
<1>4. PICK q : q = Loan(who, o, amount, asset, collateral)
  OBVIOUS
<1>6. /\ amount <= y.balance
      /\ CanAdd(<<>>, base, amount, limit) /\ CanAdd(h1, asset, collateral, limit)
      /\ positions' = Append(positions, q)
      /\ orders' = [orders EXCEPT ![o].balance = @ - amount]
      /\ Enter(who) /\ Pulls(Len(positions) + 1, asset, collateral, FALSE)
  BY <1>0, <1>3, <1>4 DEF takeLoan
<1>7. /\ Sound(h1, base) /\ 1 <= limit /\ Len(h1) = 1
      /\ \A t \in Tokens : Amount(h1, t) = IF t = base THEN amount ELSE 0
  BY <1>1, <1>3, <1>6, FirstHolding DEF First
<1>8. Sound(h2, base) /\ (Len(h1) <= limit => Len(h2) <= limit)
  BY <1>1, <1>3, <1>6, <1>7, AddSound
<1>9. Len(h1) = 1 /\ Len(h2) <= limit /\ h2 \in Seq(Holding) /\ h1 \in Seq(Holding) /\ Distinct(h1)
  BY <1>7, <1>8, SoundLen DEF Sound
<1>10. q = [orderId |-> o, owner |-> who, holdings |-> h2,
            deadline |-> now + y.terms.duration, createdAt |-> now,
            initialBalance |-> amount, interest |-> y.terms.interestRate,
            open |-> TRUE, frozenTime |-> 0, liquidator |-> NoOne,
            initialCollateral |-> asset, underwaterSince |-> 0]
  BY <1>0, <1>3, <1>4 DEF Loan
<1>11. now + y.terms.duration \in Nat /\ o \in Nat
  BY <1>1, <1>2 DEF Ids
<1>12. q \in Position /\ q.orderId = o /\ q.createdAt = now /\ q.open /\ q.holdings = h2
  BY <1>1, <1>2, <1>9, <1>10, <1>11 DEF Position
<1>13. Kept(q, orders[o])
  BY <1>0, <1>8, <1>9, <1>12 DEF Kept
<1>14. PICK x : x = [y EXCEPT !.balance = @ - amount]
  OBVIOUS
<1>15. orders' = [orders EXCEPT ![o] = x]
  BY <1>0, <1>1, <1>6, <1>14 DEF Ids
<1>16. y.balance - amount \in Nat
  BY <1>1, <1>6
<1>17. x \in Order /\ x.terms = y.terms /\ x.positions = y.positions /\ x.balance = y.balance - amount
  BY <1>1, <1>14, <1>16 DEF Order
<1>18. /\ pulling = <<>> /\ pulling' # <<>> /\ pulling'.position = Len(positions) + 1
       /\ pulling'.asset = asset /\ pulling'.amount = collateral /\ pulling'.reward = FALSE
  BY <1>6, Idle DEF Enter, Pulls
<1>19. ASSUME NEW t \in Tokens
       PROVE  /\ Amount(h2, t) \in Int
              /\ Amount(h2, t) = (IF t = base THEN amount ELSE 0) + (IF t = asset THEN collateral ELSE 0)
  <2>1. Amount(h2, t) = Amount(h1, t) + (IF asset = t THEN collateral ELSE 0)
    BY <1>3, <1>9, AddAmount
  <2>2. Amount(h1, t) = IF t = base THEN amount ELSE 0
    BY <1>7
  <2>3. Amount(h2, t) \in Int
    BY <1>9, AmountInt
  <2> QED
    BY <2>1, <2>2, <2>3
<1>20. y.balance - x.balance = amount
  BY <1>1, <1>17
<1>21. \A t \in Tokens :
         /\ Amount(q.holdings, t) \in Int
         /\ Amount(q.holdings, t)
              = (IF t = y.terms.baseAsset THEN y.balance - x.balance ELSE 0)
                + (IF t = asset THEN collateral ELSE 0)
  BY <1>0, <1>12, <1>19, <1>20
<1>22. Opens(o, q, x, asset, collateral)
  BY <1>0, <1>6, <1>12, <1>13, <1>15, <1>17, <1>18, <1>21 DEF Opens
<1> QED
  BY <1>22

LEMMA takeLoanKeeps ==
  ASSUME IInv, NEW who \in Users, NEW o \in Ids(orders), NEW amount \in Nat,
         NEW asset \in Tokens, NEW collateral \in Nat, takeLoan(who, o, amount, asset, collateral)
  PROVE  IInv'
<1>1. PICK q, x : Opens(o, q, x, asset, collateral)
  BY takeLoanOpens
<1>2. /\ UNCHANGED <<marketVars, held, erc223deposit, tokenlists, todo, loss>>
      /\ ~_entered /\ _entered' = TRUE /\ caller' = who /\ calling' \in BOOLEAN
  BY DEF takeLoan, Enter, Pulls
<1>3. now' = now /\ Scalars'
  BY <1>2 DEF marketVars, IInv, Scalars
<1>4. CallOK'
  <2>1. positions' \in Seq(Position) /\ Extended(positions, positions', q)
    BY <1>1, SeqExtended DEF Opens, IInv, Places
  <2>2. /\ Len(positions) + 1 \in Ids(positions)' /\ positions'[Len(positions) + 1] = q
        /\ todo' = <<>> /\ loss' = <<>>
    BY <1>2, <2>1, Idle DEF Extended, Ids
  <2> QED
    BY <1>1, <1>2, <2>2 DEF Opens, CallOK, TodoOK, PullOK, LossOK
<1> QED
  BY <1>1, <1>3, <1>4, OpenKeeps DEF Opens

-----------------------------------------------------------------------------
(* The steps that pull the loan in.                                        *)

LEMMA PayInPays ==
  ASSUME IInv, pulling # <<>>, PayIn
  PROVE  /\ Typed(Purse)'
         /\ \A t \in Tokens : Spare(Purse, t)' = Spare(Purse, t)
                                + (IF t = pulling.asset THEN pulling.amount ELSE 0)
<1>1. caller \in Users /\ pulling.asset \in Tokens /\ pulling.amount \in Nat /\ Typed(Purse)
  BY PurseTyped DEF IInv, CallOK, PullOK
<1>2. PICK r : r = Pull(Purse, caller, pulling.asset, pulling.amount)
  OBVIOUS
<1>3. Paid(Purse, r, pulling.asset, pulling.amount) /\ SetPurse(r)
  BY <1>1, <1>2, PullPays DEF PayIn
<1>4. held' = r.held /\ erc223deposit' = r.dep /\ Typed(r)
  BY <1>3 DEF SetPurse, Paid
<1>5. Typed(Purse)' /\ \A t \in Tokens : Spare(Purse, t)' = Spare(r, t)
  BY <1>4 DEF Typed, Purse, Spare, Due
<1> QED
  BY <1>3, <1>5 DEF Paid

LEMMA PullCollateralKeeps ==
  ASSUME IInv, PullCollateral
  PROVE  IInv'
<1>p. PICK p : p = pulling.position
  OBVIOUS
<1>1. /\ pulling # <<>> /\ PayIn
      /\ UNCHANGED <<marketVars, tokenlists, orders, positions, _entered, caller, todo, loss>>
      /\ Pulls(p, OrderOf(p).terms.rewardAsset, OrderOf(p).terms.rewardAmount, TRUE)
  BY <1>p DEF PullCollateral
<1>2. Typed(Purse)' /\ calling' \in BOOLEAN
  BY <1>1, PayInPays DEF Pulls
<1>3. now' = now /\ now' >= now /\ Scalars'
  BY <1>1, <1>2 DEF marketVars, Typed, Purse, IInv, Scalars
<1>4. /\ pulling' # <<>> /\ pulling'.position = p
      /\ pulling'.asset = OrderOf(p).terms.rewardAsset
      /\ pulling'.amount = OrderOf(p).terms.rewardAmount /\ pulling'.reward = TRUE
  BY <1>1 DEF Pulls
<1>5. PullStays
  BY <1>p, <1>1, <1>4 DEF PullStays
<1>6. CallOK'
  <2>1. p \in Ids(positions) /\ positions[p].open /\ CallOK
    BY <1>p, <1>1 DEF IInv, CallOK, PullOK
  <2>2. OrderOf(p).terms.rewardAsset \in Tokens /\ OrderOf(p).terms.rewardAmount \in Nat
    BY <2>1, PositionFacts DEF Order, OrderParams
  <2> QED
    BY <1>p, <1>1, <1>4, <2>1, <2>2 DEF CallOK, TodoOK, PullOK, LossOK, Ids
<1> QED
  BY <1>1, <1>3, <1>5, <1>6, OrdersStay, OrdersMove

\* Its order counts the position.
Counts(o, x) ==
    /\ o = positions[pulling.position].orderId /\ o \in Ids(orders)
    /\ orders' = [orders EXCEPT ![o] = x] /\ x \in Order
    /\ x.terms = orders[o].terms /\ x.balance = orders[o].balance
    /\ x.positions = orders[o].positions + 1

LEMMA PullRewardCounts ==
  ASSUME IInv, PullReward
  PROVE  \E o, x : Counts(o, x)
<1>1. PICK o : o = positions[pulling.position].orderId
  OBVIOUS
<1>2. o \in Ids(orders) /\ orders \in Seq(Order)
  BY <1>1, PositionFacts DEF PullReward, IInv, CallOK, PullOK
<1>3. orders[o] \in Order /\ orders[o].positions + 1 \in Int
  BY <1>2, OrderParts
<1>4. PICK x : x = [orders[o] EXCEPT !.positions = @ + 1]
  OBVIOUS
<1>5. orders' = [orders EXCEPT ![o] = x]
  BY <1>1, <1>2, <1>4 DEF PullReward
<1>6. /\ x \in Order /\ x.terms = orders[o].terms /\ x.balance = orders[o].balance
      /\ x.positions = orders[o].positions + 1
  BY <1>3, <1>4 DEF Order
<1> QED
  BY <1>1, <1>2, <1>5, <1>6 DEF Counts

LEMMA PullRewardKeeps ==
  ASSUME IInv, PullReward
  PROVE  IInv'
<1>1. PICK o, x : Counts(o, x)
  BY PullRewardCounts
<1>2. pulling # <<>> /\ PayIn /\ Leave /\ UNCHANGED <<marketVars, tokenlists, positions>>
  BY DEF PullReward
<1>3. CallOK' /\ pulling' = <<>> /\ _entered' \in BOOLEAN /\ calling' \in BOOLEAN /\ caller' = NoOne
  BY <1>2, LeftCall
<1>4. Typed(Purse)'
  BY <1>2, PayInPays
<1>5. now' = now /\ Scalars'
  BY <1>2, <1>3, <1>4 DEF marketVars, Typed, Purse, IInv, Scalars
<1> QED
  BY <1>1, <1>2, <1>3, <1>5, CountKeeps DEF Counts

-----------------------------------------------------------------------------
(* The invariant, and the soundness of the holdings.                       *)

LEMMA InitInvariant == Init => IInv
<1> SUFFICES ASSUME Init PROVE IInv
  OBVIOUS
<1>1. Scalars
  <2>1. now \in Nat /\ held \in [Tokens -> Int]
    BY DEF Init
  <2>2. erc223deposit \in [Users -> [Tokens -> Nat]]
    BY DEF Init
  <2>3. price \in [Tokens -> Nat]
    BY ParameterAssumption DEF Init
  <2> QED
    BY <2>1, <2>2, <2>3 DEF Init, Scalars
<1>2. orders \in Seq(Order) /\ positions \in Seq(Position) /\ Ids(orders) = {} /\ Ids(positions) = {}
  BY DEF Init, Ids
<1>3. Places /\ CountsAgree /\ CallOK
  BY <1>2 DEF Places, CountsAgree, CallOK, TodoOK, PullOK, LossOK, Init
<1> QED
  BY <1>1, <1>2, <1>3 DEF IInv

LEMMA OrderStepKeeps ==
  ASSUME IInv, NEW who \in Users, OrderStep(who)
  PROVE  IInv'
<1>0. FundAmounts \subseteq Nat /\ LoanAmounts \subseteq Nat /\ CollateralAmounts \subseteq Nat
  BY ParameterAssumption
<1>1. CASE \E params \in OrderChoices : createOrder(who, params)
  BY <1>1, createOrderKeeps
<1>2. CASE \E o \in Ids(orders), assets \in CollateralLists : orderSetCollaterals(who, o, assets)
  BY <1>2, orderSetCollateralsRewrites, SetOrderKeeps
<1>3. CASE \E o \in Ids(orders), bps \in MarginChoices, keeper \in Users \cup {NoOne} :
             orderSetLenderProtection(who, o, bps, keeper)
  BY <1>3, orderSetLenderProtectionRewrites, SetOrderKeeps
<1>4. CASE \E o \in Ids(orders), status \in StatusChoices : setOrderStatus(who, o, status)
  BY <1>4, setOrderStatusRewrites, SetOrderKeeps
<1>5. CASE \E o \in Ids(orders), params \in OrderChoices :
             KeepsTerms(who, o) /\ modifyOrder(who, o, params)
  BY <1>5, modifyOrderRewrites, SetOrderKeeps
<1>6. CASE \E o \in Ids(orders), amount \in FundAmounts :
             \/ orderDepositEth(who, o, amount)
             \/ orderDepositWETH9(who, o, amount)
             \/ orderDepositToken(who, o, amount)
  <2>1. PICK o \in Ids(orders), amount \in FundAmounts :
             \/ orderDepositEth(who, o, amount)
             \/ orderDepositWETH9(who, o, amount)
             \/ orderDepositToken(who, o, amount)
    BY <1>6
  <2>2. amount \in Nat
    BY <1>0
  <2>3. PICK purse : /\ Paid(Purse, purse, orders[o].terms.baseAsset, amount)
                     /\ Fund(who, o, amount, purse)
    BY <2>1, <2>2, DepositsKeep
  <2> QED
    BY <2>2, <2>3, FundKeeps DEF Paid
<1>7. CASE \E o \in Ids(orders), amount \in FundAmounts : orderWithdraw(who, o, amount)
  BY <1>0, <1>7, orderWithdrawKeeps
<1>8. CASE \E o \in Ids(orders), amount \in LoanAmounts, asset \in Tokens,
              collateral \in CollateralAmounts : takeLoan(who, o, amount, asset, collateral)
  BY <1>0, <1>8, takeLoanKeeps
<1> QED
  BY <1>1, <1>2, <1>3, <1>4, <1>5, <1>6, <1>7, <1>8 DEF OrderStep

LEMMA PositionStepKeeps ==
  ASSUME IInv, NEW who \in Users, PositionStep(who)
  PROVE  IInv'
<1>0. /\ TopUps \subseteq Nat /\ SwapAmounts \subseteq Nat /\ Slips \subseteq Int /\ Shorts \subseteq Nat
  BY ParameterAssumption
<1>1. PICK p \in Ids(positions) :
      \/ \E asset \in Tokens, amount \in TopUps : positionDeposit(who, p, asset, amount)
      \/ \E i \in Ids(positions[p].holdings) :
           \/ \E amount \in SwapAmounts, slip \in Slips, short \in Shorts :
                \/ \E asset2 \in Tokens :
                     marginSwap(who, p, i, amount, asset2, slip, short)
                \/ liquidateStep(who, p, i, amount, slip, short)
           \/ positionWithdraw(who, p, i)
      \/ liquidate(who, p)
      \/ \E autoWithdraw \in BOOLEAN : positionClose(who, p, autoWithdraw)
  BY DEF PositionStep
<1>s. /\ held \in [Tokens -> Int] /\ erc223deposit \in [Users -> [Tokens -> Nat]]
  BY DEF IInv, Scalars
<1>2. CASE \E asset \in Tokens, amount \in TopUps : positionDeposit(who, p, asset, amount)
  <2>1. PICK asset \in Tokens, amount \in Nat : positionDeposit(who, p, asset, amount)
    BY <1>0, <1>2
  <2>2. PICK q : Rewrites(p, q) /\ positions[p].open /\ Paid(Purse, Purse', asset, amount)
    BY <2>1, DepositRewrites
  <2>3. held' \in [Tokens -> Int] /\ erc223deposit' \in [Users -> [Tokens -> Nat]]
    BY <2>2 DEF Paid, Typed, Purse
  <2>4. UNCHANGED <<marketVars, tokenlists, orders, callVars>>
    BY <2>1 DEF positionDeposit, Guarded, callVars
  <2> QED
    BY <2>2, <2>3, <2>4, GuardedRewriteKeeps
<1>3. CASE \E i \in Ids(positions[p].holdings), amount \in SwapAmounts, slip \in Slips,
              short \in Shorts, asset2 \in Tokens :
                marginSwap(who, p, i, amount, asset2, slip, short)
  <2>1. PICK i \in Ids(positions[p].holdings), amount \in Nat, slip \in Int, short \in Nat,
              asset2 \in Tokens : marginSwap(who, p, i, amount, asset2, slip, short)
    BY <1>0, <1>3
  <2>2. PICK q : Rewrites(p, q) /\ positions[p].open
                 /\ \E out, used : SwapLeaves(p, q, i, asset2, out, used)
    BY <2>1, marginSwapRewrites
  <2>3. held' \in [Tokens -> Int]
    BY <2>2 DEF SwapLeaves
  <2>4. UNCHANGED <<marketVars, erc223deposit, tokenlists, orders, callVars>>
    BY <2>1 DEF marginSwap, Guarded, callVars
  <2> QED
    BY <1>s, <2>2, <2>3, <2>4, GuardedRewriteKeeps
<1>4. CASE \E i \in Ids(positions[p].holdings), amount \in SwapAmounts, slip \in Slips,
              short \in Shorts : liquidateStep(who, p, i, amount, slip, short)
  <2>1. PICK i \in Ids(positions[p].holdings), amount \in Nat, slip \in Int, short \in Nat :
              liquidateStep(who, p, i, amount, slip, short)
    BY <1>0, <1>4
  <2>2. PICK q : Rewrites(p, q) /\ positions[p].open /\ SellsSlot(p, q, i)
    BY <2>1, liquidateStepRewrites
  <2>3. held' \in [Tokens -> Int]
    BY <2>2 DEF SellsSlot, SwapLeaves
  <2>4. UNCHANGED <<marketVars, erc223deposit, tokenlists, orders, callVars>>
    BY <2>1 DEF liquidateStep, Guarded, callVars
  <2> QED
    BY <1>s, <2>2, <2>3, <2>4, GuardedRewriteKeeps
<1>5. CASE \E i \in Ids(positions[p].holdings) : positionWithdraw(who, p, i)
  BY <1>5, positionWithdrawKeeps
<1>6. CASE Freeze(who, p)
  <2>1. PICK q : Rewrites(p, q) /\ positions[p].open
    BY <1>6, FreezeRewrites
  <2>2. UNCHANGED <<marketVars, held, erc223deposit, tokenlists, orders, callVars>>
    BY <1>6 DEF Freeze, Guarded, callVars
  <2> QED
    BY <1>s, <2>1, <2>2, GuardedRewriteKeeps
<1>7. CASE Liquidate(who, p)
  BY <1>7, LiquidateSettles, SettlesKeeps
<1>8. CASE \E autoWithdraw \in BOOLEAN : positionClose(who, p, autoWithdraw)
  BY <1>8, CloseSettles, SettlesKeeps
<1> QED
  BY <1>1, <1>2, <1>3, <1>4, <1>5, <1>6, <1>7, <1>8 DEF liquidate

LEMMA StepInvariant == IInv /\ [Next]_vars => IInv'
<1> SUFFICES ASSUME IInv, [Next]_vars PROVE IInv'
  OBVIOUS
<1>1. CASE \E who \in Users : OrderStep(who)
  BY <1>1, OrderStepKeeps
<1>2. CASE \E who \in Users : PositionStep(who)
  BY <1>2, PositionStepKeeps
<1>3. CASE \E who \in Users, token \in Erc223, amount \in TopUps : tokenReceived(who, token, amount)
  BY <1>3, TokenAssumption, ParameterAssumption, tokenReceivedKeeps
<1>4. CASE \E who \in Users, token \in Erc223 : withdraw223(who, token)
  BY <1>4, TokenAssumption, withdraw223Keeps
<1>5. CASE \E p \in Ids(positions) : unfreeze(p)
  <2>1. PICK p \in Ids(positions) : unfreeze(p)
    BY <1>5
  <2>2. PICK q : Rewrites(p, q) /\ positions[p].open
    BY <2>1, unfreezeRewrites
  <2>3. UNCHANGED <<marketVars, held, erc223deposit, tokenlists, orders, callVars>>
    BY <2>1 DEF unfreeze, callVars
  <2>4. held' \in [Tokens -> Int] /\ erc223deposit' \in [Users -> [Tokens -> Nat]]
    BY <2>3 DEF IInv, Scalars
  <2> QED
    BY <2>2, <2>3, <2>4, GuardedRewriteKeeps
<1>6. CASE Continue
  BY <1>6, ContinueKeeps
<1>7. CASE Return
  BY <1>7, ReturnKeeps
<1>8. CASE Environment
  BY <1>8, EnvironmentKeeps
<1>9. CASE UNCHANGED vars
  <2>1. UNCHANGED <<now, held, erc223deposit, tokenlists, autolisted, price, orders, positions>>
    BY <1>9 DEF vars, marketVars
  <2>2. UNCHANGED <<_entered, caller, calling, todo, pulling, loss>>
    BY <1>9 DEF vars, callVars
  <2>3. Scalars' /\ (orders \in Seq(Order))'
    BY <2>1, <2>2 DEF IInv, Scalars
  <2>4. Places'
    BY <2>1 DEF IInv, Places, OrderOf, Ids
  <2>5. CountsAgree'
    BY <2>1, <2>2 DEF IInv, CountsAgree, Counted, OpenPositions, Ids
  <2>6. CallOK'
    BY <2>1, <2>2 DEF IInv, CallOK, TodoOK, PullOK, LossOK, Ids
  <2> QED
    BY <2>3, <2>4, <2>5, <2>6 DEF IInv
<1>10. CASE PullCollateral
  BY <1>10, PullCollateralKeeps
<1>11. CASE PullReward
  BY <1>11, PullRewardKeeps
<1> QED
  BY <1>1, <1>2, <1>3, <1>4, <1>5, <1>6, <1>7, <1>8, <1>9, <1>10, <1>11 DEF Next

LEMMA Invariant == Spec => []IInv
<1> QED
  BY InitInvariant, StepInvariant, PTL DEF Spec

LEMMA InvariantSound == IInv => HoldingsSound
<1> SUFFICES ASSUME IInv, NEW p \in Ids(positions)
             PROVE  LET h == positions[p].holdings
                    IN  /\ h # <<>> /\ h[1].asset = BaseOf(p)
                        /\ \A i, j \in Ids(h) : h[i].asset = h[j].asset => i = j
                        /\ \A i \in 2 .. Len(h) : h[i].bal > 0
                        /\ positions[p].open /\ Reneging = {} =>
                             Len(h) <= OrderOf(p).terms.currencyLimit
  BY DEF HoldingsSound
<1>1. Sound(positions[p].holdings, BaseOf(p)) /\ Kept(positions[p], OrderOf(p))
  BY PositionFacts
<1> QED
  BY <1>1 DEF Sound, Distinct, Kept

\* However a position was traded, sold and paid out, its base asset comes
\* first, no asset occurs twice, no other slot is empty, and, of owners who keep
\* their terms while a loan is taken, an open position fits its order's
\* currency limit: addAsset, reduceAsset and removeAsset of the module, through
\* every call, whatever the tokens, prices and amounts.
THEOREM HoldingsStaySound == Spec => []HoldingsSound
<1> QED
  BY Invariant, InvariantSound, PTL

-----------------------------------------------------------------------------
(* Solvency.  What the module owes is a total over the orders, one over    *)
(* the positions and one over the credited deposits; Gap is what it holds  *)
(* beyond them, Free what it holds once the loan being taken is paid in,   *)
(* and no step lowers that.                                                *)

Total(V, s) == SumFunction([i \in Ids(s) |-> V[s[i]]])

LEMMA TotalInt ==
  ASSUME NEW S, NEW V \in [S -> Int], NEW s \in Seq(S)
  PROVE  Total(V, s) \in Int
<1> DEFINE f == [i \in Ids(s) |-> V[s[i]]]
<1>1. f \in [Ids(s) -> Int] /\ DOMAIN f = Ids(s) /\ IsFiniteSet(Ids(s))
  BY FS_Interval DEF Ids
<1> HIDE DEF f
<1>2. SumFunctionOnSet(f, DOMAIN f) \in Int
  BY <1>1, SumInt
<1> QED
  BY <1>2 DEF f, Total, SumFunction

LEMMA TotalSet ==
  ASSUME NEW S, NEW V \in [S -> Int], NEW s \in Seq(S), NEW r \in Seq(S), NEW i \in Ids(s), NEW x \in S,
         Replaced(s, r, i, x)
  PROVE  Total(V, r) = Total(V, s) - V[s[i]] + V[x]
<1> DEFINE f == [k \in Ids(s) |-> V[s[k]]]
           e == [k \in Ids(r) |-> V[r[k]]]
<1>1. Ids(r) = Ids(s) /\ Ids(s) = 1 .. Len(s) /\ Len(s) \in Nat
  BY DEF Ids, Replaced
<1>2. f \in [1 .. Len(s) -> Int] /\ e \in [1 .. Len(s) -> Int]
  <2>1. (\A k \in Ids(s) : s[k] \in S) /\ (\A k \in Ids(r) : r[k] \in S)
    BY DEF Ids
  <2> QED
    BY <1>1, <2>1
<1>3. /\ \A k \in 1 .. Len(s) : k # i => e[k] = f[k]
      /\ f[i] = V[s[i]] /\ e[i] = V[x] /\ i \in 1 .. Len(s)
  BY <1>1 DEF Replaced
<1> HIDE DEF f, e
<1>4. SumFunction(e) = SumFunction(f) - f[i] + e[i]
  BY <1>1, <1>2, <1>3, SumOverSet
<1> QED
  BY <1>3, <1>4 DEF f, e, Total

LEMMA TotalAppend ==
  ASSUME NEW S, NEW V \in [S -> Int], NEW s \in Seq(S), NEW r \in Seq(S), NEW x \in S,
         Extended(s, r, x)
  PROVE  Total(V, r) = Total(V, s) + V[x]
<1>n. PICK n \in Nat : n = Len(s)
  OBVIOUS
<1> DEFINE f == [k \in Ids(s) |-> V[s[k]]]
           e == [k \in Ids(r) |-> V[r[k]]]
<1>1. Ids(s) = 1 .. n /\ Ids(r) = 1 .. n + 1 /\ n + 1 \in Ids(r)
  BY <1>n DEF Ids, Extended
<1>2. f \in [1 .. n -> Int] /\ e \in [1 .. n + 1 -> Int]
  <2>1. (\A k \in Ids(s) : s[k] \in S) /\ (\A k \in Ids(r) : r[k] \in S)
    BY DEF Ids
  <2> QED
    BY <1>1, <2>1
<1>3. (\A k \in 1 .. n : e[k] = f[k]) /\ e[n + 1] = V[x]
  BY <1>n, <1>1 DEF Extended
<1> HIDE DEF f, e
<1>4. SumFunction(e) = SumFunction(f) + e[n + 1]
  BY <1>2, <1>3, SumAppend
<1> QED
  BY <1>3, <1>4 DEF f, e, Total

\* What an order is owed: its balance, and the rewards it counts.
OrderDue(x, t) ==
    (IF x.terms.baseAsset = t THEN x.balance ELSE 0)
    + (IF x.terms.rewardAsset = t THEN x.terms.rewardAmount * x.positions ELSE 0)
DueTo(t) == [x \in Order |-> OrderDue(x, t)]
HeldBy(t) == [q \in Position |-> Amount(q.holdings, t)]

LEMMA DueToInt ==
  ASSUME NEW t
  PROVE  /\ DueTo(t) \in [Order -> Int]
         /\ \A x \in Order : DueTo(t)[x] = OrderDue(x, t) /\ OrderDue(x, t) \in Int
<1> SUFFICES ASSUME NEW x \in Order PROVE OrderDue(x, t) \in Int
  BY DEF DueTo
<1>1. PICK b \in Int, m \in Int, n \in Int :
        b = x.balance /\ m = x.terms.rewardAmount /\ n = x.positions
  BY DEF Order, OrderParams
<1>2. m * n \in Int
  OBVIOUS
<1> QED
  BY <1>1, <1>2 DEF OrderDue

LEMMA HeldByInt ==
  ASSUME NEW t
  PROVE  /\ HeldBy(t) \in [Position -> Int]
         /\ \A q \in Position : /\ HeldBy(t)[q] = Amount(q.holdings, t)
                                /\ Amount(q.holdings, t) \in Int
<1> SUFFICES ASSUME NEW q \in Position PROVE Amount(q.holdings, t) \in Int
  BY DEF HeldBy
<1>1. q.holdings \in Seq(Holding)
  BY DEF Position
<1> QED
  BY <1>1, AmountInt

\* The position of the loan being taken is open and not yet counted.
LEMMA LoanCounted ==
  ASSUME IInv, NEW o
  PROVE  Cardinality(OpenPositions(o)) = Cardinality(Counted(o))
           + (IF pulling # <<>> /\ o = positions[pulling.position].orderId THEN 1 ELSE 0)
<1>1. IsFiniteSet(Counted(o)) /\ Cardinality(Counted(o)) \in Nat
  BY OpenFinite DEF IInv, Places
<1>2. CASE pulling # <<>> /\ o = positions[pulling.position].orderId
  <2>1. PICK p : p = pulling.position
    OBVIOUS
  <2>2. p \in OpenPositions(o)
    BY <1>2, <2>1 DEF OpenPositions, IInv, CallOK, PullOK
  <2>3. OpenPositions(o) = Counted(o) \cup {p} /\ p \notin Counted(o)
    BY <1>2, <2>1, <2>2 DEF Counted
  <2>4. Cardinality(Counted(o) \cup {p}) = Cardinality(Counted(o)) + 1
    BY <1>1, <2>3, FS_AddElement
  <2> QED
    BY <1>2, <2>3, <2>4
<1>3. CASE ~(pulling # <<>> /\ o = positions[pulling.position].orderId)
  <2>1. OpenPositions(o) = Counted(o)
    BY <1>3 DEF Counted, OpenPositions
  <2> QED
    BY <1>1, <1>3, <2>1
<1> QED
  BY <1>2, <1>3

\* The reward of the loan being taken, which its order does not count yet.
Rewarding(t) ==
    IF pulling = <<>> THEN 0
    ELSE IF OrderOf(pulling.position).terms.rewardAsset = t
         THEN OrderOf(pulling.position).terms.rewardAmount ELSE 0

LEMMA LoanParts ==
  ASSUME IInv, pulling # <<>>
  PROVE  /\ pulling.position \in Ids(positions)
         /\ positions[pulling.position].open
         /\ positions[pulling.position].orderId \in Ids(orders)
         /\ OrderOf(pulling.position) = orders[positions[pulling.position].orderId]
         /\ OrderOf(pulling.position).terms.rewardAsset \in Tokens
         /\ OrderOf(pulling.position).terms.rewardAmount \in Nat
         /\ pulling.asset \in Tokens /\ pulling.amount \in Nat /\ pulling.reward \in BOOLEAN
<1>1. PICK p : p = pulling.position
  OBVIOUS
<1>2. /\ p \in Ids(positions) /\ positions[p].open
      /\ pulling.asset \in Tokens /\ pulling.amount \in Nat /\ pulling.reward \in BOOLEAN
  BY <1>1 DEF IInv, CallOK, PullOK
<1>3. positions[p].orderId \in Ids(orders) /\ orders \in Seq(Order)
  BY <1>2, PositionFacts DEF IInv
<1>4. PICK o \in Ids(orders) : o = positions[p].orderId
  BY <1>3
<1>5. orders[o].terms.rewardAsset \in Tokens /\ orders[o].terms.rewardAmount \in Nat
  BY <1>3, OrderParts
<1> QED
  BY <1>1, <1>2, <1>4, <1>5 DEF OrderOf

LEMMA OrdersOwed ==
  ASSUME IInv, NEW t \in Tokens
  PROVE  SumFunction([o \in Ids(orders) |->
             (IF orders[o].terms.baseAsset = t THEN orders[o].balance ELSE 0)
             + (IF orders[o].terms.rewardAsset = t
                THEN orders[o].terms.rewardAmount * Cardinality(OpenPositions(o)) ELSE 0)])
           = Total(DueTo(t), orders) + Rewarding(t)
<1> DEFINE e == [o \in Ids(orders) |->
                   (IF orders[o].terms.baseAsset = t THEN orders[o].balance ELSE 0)
                   + (IF orders[o].terms.rewardAsset = t
                      THEN orders[o].terms.rewardAmount * Cardinality(OpenPositions(o)) ELSE 0)]
           f == [o \in Ids(orders) |-> DueTo(t)[orders[o]]]
<1>1. orders \in Seq(Order) /\ positions \in Seq(Position) /\ CountsAgree
  BY DEF IInv, Places
<1>2. ASSUME NEW o \in Ids(orders)
      PROVE  /\ f[o] \in Int
             /\ e[o] = f[o] + (IF /\ pulling # <<>> /\ o = positions[pulling.position].orderId
                                 /\ orders[o].terms.rewardAsset = t
                               THEN orders[o].terms.rewardAmount ELSE 0)
  <2>1. /\ orders[o] \in Order /\ orders[o].terms.rewardAmount \in Nat
        /\ orders[o].balance \in Nat
    BY <1>1, OrderParts
  <2>2. PICK n \in Nat, k \in Nat :
          /\ n = orders[o].positions /\ k = Cardinality(OpenPositions(o))
          /\ k = n + (IF pulling # <<>> /\ o = positions[pulling.position].orderId THEN 1 ELSE 0)
    <3>1. orders[o].positions = Cardinality(Counted(o))
      BY <1>1 DEF CountsAgree
    <3>2. Cardinality(OpenPositions(o)) \in Nat /\ Cardinality(Counted(o)) \in Nat
      BY <1>1, OpenFinite
    <3> QED
      BY <3>1, <3>2, LoanCounted
  <2>3. PICK m \in Nat, b \in Nat : m = orders[o].terms.rewardAmount /\ b = orders[o].balance
    BY <2>1
  <2>4. f[o] = (IF orders[o].terms.baseAsset = t THEN b ELSE 0)
               + (IF orders[o].terms.rewardAsset = t THEN m * n ELSE 0)
    BY <2>1, <2>2, <2>3, DueToInt DEF OrderDue
  <2>5. e[o] = (IF orders[o].terms.baseAsset = t THEN b ELSE 0)
               + (IF orders[o].terms.rewardAsset = t THEN m * k ELSE 0)
    BY <2>2, <2>3
  <2>6. m * n \in Int /\ m * (n + 1) = m * n + m /\ m * (n + 0) = m * n
    OBVIOUS
  <2>7. PICK l \in Int : l = m * n
    BY <2>6
  <2>8. m * k = l + (IF pulling # <<>> /\ o = positions[pulling.position].orderId THEN m ELSE 0)
    BY <2>2, <2>6, <2>7
  <2> HIDE DEF e, f
  <2>9. f[o] \in Int
    BY <2>3, <2>4, <2>7
  <2>10. PICK r \in Int, s \in Int : r = m * n /\ s = m * k
    BY <2>6, <2>7, <2>8
  <2>11. CASE pulling # <<>> /\ o = positions[pulling.position].orderId
    <3>1. s = r + m
      BY <2>7, <2>8, <2>10, <2>11
    <3>2. /\ f[o] = (IF orders[o].terms.baseAsset = t THEN b ELSE 0)
                    + (IF orders[o].terms.rewardAsset = t THEN r ELSE 0)
          /\ e[o] = (IF orders[o].terms.baseAsset = t THEN b ELSE 0)
                    + (IF orders[o].terms.rewardAsset = t THEN r + m ELSE 0)
      BY <2>4, <2>5, <2>10, <3>1
    <3>3. e[o] = f[o] + (IF orders[o].terms.rewardAsset = t THEN m ELSE 0)
      BY <3>2
    <3> QED
      BY <2>3, <2>9, <2>11, <3>3
  <2>12. CASE ~(pulling # <<>> /\ o = positions[pulling.position].orderId)
    <3>1. s = r
      BY <2>7, <2>8, <2>10, <2>12
    <3>2. e[o] = f[o]
      BY <2>4, <2>5, <2>10, <3>1
    <3> QED
      BY <2>9, <2>12, <3>2
  <2> QED
    BY <2>11, <2>12
<1>3. Ids(orders) = 1 .. Len(orders) /\ Len(orders) \in Nat
  BY <1>1 DEF Ids
<1>4. f \in [1 .. Len(orders) -> Int] /\ DOMAIN e = 1 .. Len(orders)
  BY <1>2, <1>3
<1>5. SumFunction(f) = Total(DueTo(t), orders)
  BY DEF Total
<1>6. CASE pulling = <<>>
  <2>1. \A o \in Ids(orders) : e[o] = f[o]
    <3>1. ASSUME NEW o \in Ids(orders)  PROVE e[o] = f[o]
      <4>1. f[o] \in Int /\ e[o] = f[o] + 0
        BY <1>2, <1>6
      <4> HIDE DEF e, f
      <4> QED
        BY <4>1
    <3> QED
      BY <3>1
  <2>2. e = f
    BY <2>1
  <2>3. Rewarding(t) = 0 /\ Total(DueTo(t), orders) \in Int
    BY <1>1, <1>6, DueToInt, TotalInt DEF Rewarding
  <2>4. SumFunction(e) = Total(DueTo(t), orders)
    BY <1>5, <2>2
  <2> HIDE DEF e, f
  <2>5. SumFunction(e) = Total(DueTo(t), orders) + Rewarding(t)
    BY <2>3, <2>4
  <2> QED
    BY <2>5 DEF e
<1>7. CASE pulling # <<>>
  <2>1. PICK i \in Ids(orders) : /\ i = positions[pulling.position].orderId
                                 /\ OrderOf(pulling.position) = orders[i]
                                 /\ orders[i].terms.rewardAmount \in Nat
    BY <1>7, LoanParts
  <2>2. Rewarding(t) = (IF orders[i].terms.rewardAsset = t THEN orders[i].terms.rewardAmount ELSE 0)
    BY <1>7, <2>1 DEF Rewarding
  <2> HIDE DEF e, f
  <2>3. /\ e[i] = f[i] + Rewarding(t) /\ f[i] \in Int /\ Rewarding(t) \in Int
        /\ \A o \in Ids(orders) : o # i => e[o] = f[o]
    <3>1. e[i] = f[i] + Rewarding(t) /\ f[i] \in Int /\ Rewarding(t) \in Int
      BY <1>2, <1>7, <2>1, <2>2
    <3>2. ASSUME NEW o \in Ids(orders), o # i  PROVE e[o] = f[o]
      <4>1. e[o] = f[o] + 0 /\ f[o] \in Int
        BY <1>2, <2>1, <3>2
      <4> QED
        BY <4>1
    <3> QED
      BY <3>1, <3>2
  <2>4. e \in [1 .. Len(orders) -> Int]
    <3>1. \A o \in 1 .. Len(orders) : e[o] \in Int
      BY <1>3, <1>4, <2>3
    <3>2. e = [o \in 1 .. Len(orders) |-> e[o]]
      BY <1>3 DEF e
    <3> QED
      BY <3>1, <3>2
  <2>5. SumFunction(e) = SumFunction(f) - f[i] + e[i]
    <3>1. PICK n \in Nat : n = Len(orders) /\ Ids(orders) = 1 .. n
      BY <1>3
    <3>2. e \in [1 .. n -> Int] /\ f \in [1 .. n -> Int] /\ i \in 1 .. n
      BY <1>4, <2>1, <2>4, <3>1
    <3>3. \A k \in 1 .. n : k # i => e[k] = f[k]
      BY <2>3, <3>1
    <3> QED
      BY <3>2, <3>3, SumOverSet
  <2>6. Total(DueTo(t), orders) \in Int
    BY <1>1, DueToInt, TotalInt
  <2>7. SumFunction(e) = Total(DueTo(t), orders) + Rewarding(t)
    BY <1>5, <2>3, <2>5, <2>6
  <2> QED
    BY <2>7 DEF e
<1> QED
  BY <1>6, <1>7

LEMMA OwedIs ==
  ASSUME IInv, NEW t \in Tokens
  PROVE  Owed(t) = Total(DueTo(t), orders) + Rewarding(t) + Total(HeldBy(t), positions)
                     + Due(erc223deposit, t)
<1>1. positions \in Seq(Position)
  BY DEF IInv, Places
<1>2. ASSUME NEW p \in Ids(positions)
      PROVE  HeldBy(t)[positions[p]] =
               SumFunction([i \in Ids(positions[p].holdings) |->
                 IF positions[p].holdings[i].asset = t THEN positions[p].holdings[i].bal ELSE 0])
  <2>1. positions[p] \in Position /\ positions[p].holdings \in Seq(Holding)
    BY <1>1, PositionParts
  <2>2. Holds(positions[p], t) = Amount(positions[p].holdings, t)
    BY <2>1, HoldsIsAmount
  <2> QED
    BY <2>1, <2>2, HeldByInt DEF Holds
<1>3. PICK b : b = Total(HeldBy(t), positions)
  OBVIOUS
<1>4. b = SumFunction([p \in Ids(positions) |->
             SumFunction([i \in Ids(positions[p].holdings) |->
               IF positions[p].holdings[i].asset = t THEN positions[p].holdings[i].bal ELSE 0])])
  BY <1>2, <1>3 DEF Total
<1> QED
  BY <1>3, <1>4, OrdersOwed DEF Owed, Due

\* What is left of a token once everything owed is paid.
Gap(t) == Spare(Purse, t) - Total(DueTo(t), orders) - Total(HeldBy(t), positions)
GapKept == \A t \in Tokens : Gap(t)' >= Gap(t)

\* ... and what the loan being taken adds: what it is pulling in, less the
\* reward, which it owes from then on when that is what it pulls.
InLoan(t) ==
    IF pulling = <<>> THEN 0
    ELSE (IF pulling.asset = t THEN pulling.amount ELSE 0)
         - (IF pulling.reward /\ OrderOf(pulling.position).terms.rewardAsset = t
            THEN OrderOf(pulling.position).terms.rewardAmount ELSE 0)
Free(t) == Gap(t) + InLoan(t)

LEMMA GapInt ==
  ASSUME IInv, NEW t \in Tokens
  PROVE  /\ Total(DueTo(t), orders) \in Int /\ Total(HeldBy(t), positions) \in Int
         /\ Spare(Purse, t) \in Int /\ Due(erc223deposit, t) \in Int /\ held[t] \in Int
         /\ Spare(Purse, t) = held[t] - Due(erc223deposit, t)
<1>1. orders \in Seq(Order) /\ positions \in Seq(Position) /\ Typed(Purse)
  BY PurseTyped DEF IInv, Places
<1>2. /\ Purse.held = held /\ Purse.dep = erc223deposit
  BY DEF Purse
<1>3. Spare(Purse, t) \in Int /\ Due(Purse.dep, t) \in Int
  BY <1>1, SpareInt
<1>4. DueTo(t) \in [Order -> Int] /\ HeldBy(t) \in [Position -> Int]
  BY DueToInt, HeldByInt
<1>5. Total(DueTo(t), orders) \in Int
  BY <1>1, <1>4, TotalInt
<1>6. Total(HeldBy(t), positions) \in Int
  BY <1>1, <1>4, TotalInt
<1>7. held[t] \in Int
  BY DEF IInv, Scalars
<1> QED
  BY <1>2, <1>3, <1>5, <1>6, <1>7 DEF Spare

LEMMA InLoanIs ==
  ASSUME IInv, NEW t \in Tokens
  PROVE  /\ Awaited(t) - Rewarding(t) = InLoan(t)
         /\ Awaited(t) \in Int /\ Rewarding(t) \in Int /\ InLoan(t) \in Int
<1>1. CASE pulling = <<>>
  BY <1>1 DEF Awaited, Rewarding, InLoan
<1>2. CASE pulling # <<>>
  <2>1. PICK ra \in Tokens, rn \in Nat, a \in Tokens, n \in Nat, reward \in BOOLEAN :
          /\ ra = OrderOf(pulling.position).terms.rewardAsset
          /\ rn = OrderOf(pulling.position).terms.rewardAmount
          /\ a = pulling.asset /\ n = pulling.amount /\ reward = pulling.reward
    BY <1>2, LoanParts
  <2>2. /\ Awaited(t) = (IF a = t THEN n ELSE 0) + (IF ~reward /\ ra = t THEN rn ELSE 0)
        /\ Rewarding(t) = (IF ra = t THEN rn ELSE 0)
        /\ InLoan(t) = (IF a = t THEN n ELSE 0) - (IF reward /\ ra = t THEN rn ELSE 0)
    BY <1>2, <2>1 DEF Awaited, Rewarding, InLoan
  <2>3. PICK l \in Nat, m \in Nat : l = (IF a = t THEN n ELSE 0) /\ m = (IF ra = t THEN rn ELSE 0)
    BY <2>1
  <2>4. CASE reward
    <3>1. Awaited(t) = l + 0 /\ Rewarding(t) = m /\ InLoan(t) = l - m
      BY <2>2, <2>3, <2>4
    <3> QED
      BY <3>1
  <2>5. CASE ~reward
    <3>1. Awaited(t) = l + m /\ Rewarding(t) = m /\ InLoan(t) = l - 0
      BY <2>2, <2>3, <2>5
    <3> QED
      BY <3>1
  <2> QED
    BY <2>4, <2>5
<1> QED
  BY <1>1, <1>2

LEMMA SolventIs ==
  ASSUME IInv
  PROVE  Solvent <=> \A t \in Tokens : Free(t) >= 0
<1>1. ASSUME NEW t \in Tokens  PROVE held[t] + Awaited(t) >= Owed(t) <=> Free(t) >= 0
  BY OwedIs, GapInt, InLoanIs DEF Gap, Free
<1> QED
  BY <1>1 DEF Solvent

LEMMA OrderTotal ==
  ASSUME orders \in Seq(Order), NEW o \in Ids(orders), NEW x \in Order,
         orders' = [orders EXCEPT ![o] = x], NEW t
  PROVE  /\ Total(DueTo(t), orders)' = Total(DueTo(t), orders) - OrderDue(orders[o], t) + OrderDue(x, t)
         /\ Total(DueTo(t), orders) \in Int /\ OrderDue(x, t) \in Int /\ OrderDue(orders[o], t) \in Int
<1>1. orders[o] \in Order
  BY DEF Ids
<1>2. orders' \in Seq(Order) /\ Replaced(orders, orders', o, x)
  BY <1>1, SeqReplaced
<1>3. PICK V : V = DueTo(t)
  OBVIOUS
<1>4. V \in [Order -> Int] /\ V[x] = OrderDue(x, t) /\ V[orders[o]] = OrderDue(orders[o], t)
      /\ OrderDue(x, t) \in Int /\ OrderDue(orders[o], t) \in Int
  BY <1>1, <1>3, DueToInt
<1>5. PICK s \in Seq(Order), r \in Seq(Order) : s = orders /\ r = orders'
  BY <1>1, <1>2
<1>6. Replaced(s, r, o, x) /\ o \in Ids(s)
  BY <1>2, <1>5
<1>7. Total(V, r) = Total(V, s) - V[s[o]] + V[x] /\ Total(V, s) \in Int
  BY <1>4, <1>6, TotalSet, TotalInt
<1>8. Total(DueTo(t), orders)' = Total(V, r) /\ Total(DueTo(t), orders) = Total(V, s)
  BY <1>3, <1>5 DEF Total, DueTo
<1> QED
  BY <1>4, <1>5, <1>7, <1>8

LEMMA OrderTotalAppended ==
  ASSUME orders \in Seq(Order), NEW x \in Order, orders' = Append(orders, x), NEW t
  PROVE  /\ Total(DueTo(t), orders)' = Total(DueTo(t), orders) + OrderDue(x, t)
         /\ Total(DueTo(t), orders) \in Int /\ OrderDue(x, t) \in Int
<1>2. orders' \in Seq(Order) /\ Extended(orders, orders', x)
  BY SeqExtended
<1>3. PICK V : V = DueTo(t)
  OBVIOUS
<1>4. V \in [Order -> Int] /\ V[x] = OrderDue(x, t) /\ OrderDue(x, t) \in Int
  BY <1>3, DueToInt
<1>5. PICK s \in Seq(Order), r \in Seq(Order) : s = orders /\ r = orders'
  BY <1>2
<1>6. Extended(s, r, x)
  BY <1>2, <1>5
<1>7. Total(V, r) = Total(V, s) + V[x] /\ Total(V, s) \in Int
  BY <1>4, <1>6, TotalAppend, TotalInt
<1>8. Total(DueTo(t), orders)' = Total(V, r) /\ Total(DueTo(t), orders) = Total(V, s)
  BY <1>3, <1>5 DEF Total, DueTo
<1> QED
  BY <1>4, <1>5, <1>7, <1>8

LEMMA PositionTotal ==
  ASSUME positions \in Seq(Position), NEW p \in Ids(positions), NEW q \in Position,
         positions' = [positions EXCEPT ![p] = q], NEW t
  PROVE  /\ Total(HeldBy(t), positions)' = Total(HeldBy(t), positions)
              - Amount(positions[p].holdings, t) + Amount(q.holdings, t)
         /\ Total(HeldBy(t), positions) \in Int
         /\ Amount(positions[p].holdings, t) \in Int /\ Amount(q.holdings, t) \in Int
<1>1. positions[p] \in Position
  BY DEF Ids
<1>2. positions' \in Seq(Position) /\ Replaced(positions, positions', p, q)
  BY <1>1, SeqReplaced
<1>3. PICK V : V = HeldBy(t)
  OBVIOUS
<1>4. V \in [Position -> Int] /\ V[q] = Amount(q.holdings, t)
      /\ V[positions[p]] = Amount(positions[p].holdings, t)
      /\ Amount(positions[p].holdings, t) \in Int /\ Amount(q.holdings, t) \in Int
  BY <1>1, <1>3, HeldByInt
<1>5. PICK s \in Seq(Position), r \in Seq(Position) : s = positions /\ r = positions'
  BY <1>1, <1>2
<1>6. Replaced(s, r, p, q) /\ p \in Ids(s)
  BY <1>2, <1>5
<1>7. Total(V, r) = Total(V, s) - V[s[p]] + V[q] /\ Total(V, s) \in Int
  BY <1>4, <1>6, TotalSet, TotalInt
<1>8. Total(HeldBy(t), positions)' = Total(V, r) /\ Total(HeldBy(t), positions) = Total(V, s)
  BY <1>3, <1>5 DEF Total, HeldBy
<1> QED
  BY <1>4, <1>5, <1>7, <1>8

LEMMA PositionTotalAppended ==
  ASSUME positions \in Seq(Position), NEW q \in Position, positions' = Append(positions, q), NEW t
  PROVE  /\ Total(HeldBy(t), positions)' = Total(HeldBy(t), positions) + Amount(q.holdings, t)
         /\ Total(HeldBy(t), positions) \in Int /\ Amount(q.holdings, t) \in Int
<1>2. positions' \in Seq(Position) /\ Extended(positions, positions', q)
  BY SeqExtended
<1>3. PICK V : V = HeldBy(t)
  OBVIOUS
<1>4. V \in [Position -> Int] /\ V[q] = Amount(q.holdings, t) /\ Amount(q.holdings, t) \in Int
  BY <1>3, HeldByInt
<1>5. PICK s \in Seq(Position), r \in Seq(Position) : s = positions /\ r = positions'
  BY <1>2
<1>6. Extended(s, r, q)
  BY <1>2, <1>5
<1>7. Total(V, r) = Total(V, s) + V[q] /\ Total(V, s) \in Int
  BY <1>4, <1>6, TotalAppend, TotalInt
<1>8. Total(HeldBy(t), positions)' = Total(V, r) /\ Total(HeldBy(t), positions) = Total(V, s)
  BY <1>3, <1>5 DEF Total, HeldBy
<1> QED
  BY <1>4, <1>5, <1>7, <1>8

LEMMA TotalsStay ==
  ASSUME NEW t
  PROVE  /\ orders' = orders => Total(DueTo(t), orders)' = Total(DueTo(t), orders)
         /\ positions' = positions => Total(HeldBy(t), positions)' = Total(HeldBy(t), positions)
         /\ UNCHANGED <<held, erc223deposit>> => Spare(Purse, t)' = Spare(Purse, t)
<1>1. orders' = orders => Total(DueTo(t), orders)' = Total(DueTo(t), orders)
  BY DEF Total, DueTo
<1>2. positions' = positions => Total(HeldBy(t), positions)' = Total(HeldBy(t), positions)
  BY DEF Total, HeldBy
<1>3. UNCHANGED <<held, erc223deposit>> => Spare(Purse, t)' = Spare(Purse, t)
  BY DEF Spare, Purse, Due
<1> QED
  BY <1>1, <1>2, <1>3

\* An order's balance comes and goes with the money behind it.
LEMMA GapOrder ==
  ASSUME IInv, NEW o \in Ids(orders), NEW x \in Order, Typed(Purse)',
         orders' = [orders EXCEPT ![o] = x], positions' = positions, NEW t \in Tokens,
         Spare(Purse, t)' - OrderDue(x, t) >= Spare(Purse, t) - OrderDue(orders[o], t)
  PROVE  Gap(t)' >= Gap(t)
<1>1. Spare(Purse, t)' \in Int
  BY SpareInt DEF Spare, Typed, Purse
<1>2. PICK a, b, c, d, e, f :
        /\ a = Spare(Purse, t)' /\ b = Spare(Purse, t) /\ c = Total(DueTo(t), orders)
        /\ d = Total(HeldBy(t), positions) /\ e = OrderDue(x, t) /\ f = OrderDue(orders[o], t)
  OBVIOUS
<1>3. /\ a \in Int /\ b \in Int /\ c \in Int /\ d \in Int /\ e \in Int /\ f \in Int
      /\ Total(DueTo(t), orders)' = c - f + e
  BY <1>1, <1>2, OrderTotal, GapInt DEF IInv
<1>4. Total(HeldBy(t), positions)' = d
  BY <1>2, TotalsStay
<1>5. a - e >= b - f
  BY <1>2
<1>6. a - (c - f + e) - d >= b - c - d
  BY <1>3, <1>5
<1> QED
  BY <1>2, <1>3, <1>4, <1>6 DEF Gap

LEMMA GapSame ==
  ASSUME IInv, Typed(Purse)', UNCHANGED <<orders, positions>>, NEW t \in Tokens,
         Spare(Purse, t)' >= Spare(Purse, t)
  PROVE  Gap(t)' >= Gap(t)
<1>1. Spare(Purse, t)' \in Int
  BY SpareInt DEF Spare, Typed, Purse
<1>2. PICK a, b, c, d :
        /\ a = Spare(Purse, t)' /\ b = Spare(Purse, t) /\ c = Total(DueTo(t), orders)
        /\ d = Total(HeldBy(t), positions)
  OBVIOUS
<1>3. a \in Int /\ b \in Int /\ c \in Int /\ d \in Int /\ a >= b
  BY <1>1, <1>2, GapInt
<1>4. Total(DueTo(t), orders)' = c /\ Total(HeldBy(t), positions)' = d
  BY <1>2, TotalsStay
<1>5. a - c - d >= b - c - d
  BY <1>3
<1> QED
  BY <1>2, <1>4, <1>5 DEF Gap

LEMMA PurseStays ==
  ASSUME IInv, UNCHANGED <<held, erc223deposit>>
  PROVE  Typed(Purse)' /\ \A t \in Tokens : Spare(Purse, t)' = Spare(Purse, t) /\ Spare(Purse, t) \in Int
<1>1. Typed(Purse)'
  BY PurseTyped DEF Typed, Purse
<1> QED
  BY <1>1, TotalsStay, GapInt

\* An order rewritten with its balance and terms kept, while they matter, is
\* owed what it was.
LEMMA RewrittenDue ==
  ASSUME IInv, Reneging = {}, NEW o \in Ids(orders), NEW x, OrderRewritten(o, x),
         x.balance = orders[o].balance, NEW t \in Tokens
  PROVE  x \in Order /\ OrderDue(x, t) = OrderDue(orders[o], t)
<1>1. x \in Order /\ orders[o] \in Order
  BY OrderParts DEF OrderRewritten, IInv
<1>2. CASE OpenPositions(o) = {}
  <2>1. Cardinality(Counted(o)) = 0
    BY <1>2, FS_EmptySet DEF Counted
  <2>2. orders[o].positions = 0
    BY <2>1 DEF IInv, CountsAgree
  <2>3. x.positions = 0 /\ x.terms.rewardAmount \in Nat /\ orders[o].terms.rewardAmount \in Nat
    BY <1>1, <2>2 DEF OrderRewritten, Order, OrderParams
  <2>4. x.terms.rewardAmount * 0 = 0 /\ orders[o].terms.rewardAmount * 0 = 0
    BY <2>3
  <2> QED
    BY <1>1, <2>2, <2>3, <2>4 DEF OrderDue, OrderRewritten
<1>3. CASE OpenPositions(o) # {}
  BY <1>1, <1>3 DEF OrderDue, OrderRewritten
<1> QED
  BY <1>2, <1>3

LEMMA RewrittenGap ==
  ASSUME IInv, Reneging = {}, NEW o \in Ids(orders), NEW x, OrderRewritten(o, x),
         x.balance = orders[o].balance, positions' = positions, UNCHANGED <<held, erc223deposit>>
  PROVE  GapKept
<1>1. ASSUME NEW t \in Tokens  PROVE Gap(t)' >= Gap(t)
  <2>1. /\ Typed(Purse)' /\ Spare(Purse, t)' = Spare(Purse, t) /\ Spare(Purse, t) \in Int
    BY PurseStays
  <2>2. x \in Order /\ OrderDue(x, t) = OrderDue(orders[o], t)
    BY RewrittenDue
  <2>3. OrderDue(x, t) \in Int
    BY <2>2, DueToInt
  <2>4. Spare(Purse, t)' - OrderDue(x, t) >= Spare(Purse, t) - OrderDue(orders[o], t)
    BY <2>1, <2>2, <2>3
  <2>5. orders' = [orders EXCEPT ![o] = x]
    BY DEF OrderRewritten
  <2> QED
    BY <2>1, <2>2, <2>4, <2>5, GapOrder
<1> QED
  BY <1>1 DEF GapKept

LEMMA SetOrderGap ==
  ASSUME IInv, Reneging = {}, NEW who \in Users, NEW o \in Ids(orders), NEW x,
         SetOrder(who, o, x), OrderRewritten(o, x), x.balance = orders[o].balance
  PROVE  GapKept
<1>1. positions' = positions /\ UNCHANGED <<held, erc223deposit>>
  BY DEF SetOrder
<1> QED
  BY <1>1, RewrittenGap

LEMMA createOrderGap ==
  ASSUME IInv, NEW who \in Users, NEW params \in OrderChoices, createOrder(who, params)
  PROVE  GapKept
<1>1. PICK x : x = [terms |-> params, owner |-> who, balance |-> 0,
                    alive |-> TRUE, positions |-> 0, shortfall |-> 0,
                    marginBps |-> 0, keeper |-> NoOne]
  OBVIOUS
<1>2. /\ orders' = Append(orders, x) /\ positions' = positions /\ UNCHANGED <<held, erc223deposit>>
  BY <1>1 DEF createOrder
<1>3. params \in OrderParams
  BY ChoiceAssumption
<1>4. x \in Order /\ x.balance = 0 /\ x.positions = 0 /\ x.terms.rewardAmount \in Nat
  BY <1>1, <1>3 DEF Order, OrderParams
<1>5. ASSUME NEW t \in Tokens  PROVE Gap(t)' >= Gap(t)
  <2>1. OrderDue(x, t) = 0
    <3>1. x.terms.rewardAmount * 0 = 0
      BY <1>4
    <3> QED
      BY <1>4, <3>1 DEF OrderDue
  <2>2. /\ Total(DueTo(t), orders)' = Total(DueTo(t), orders) + 0
        /\ Total(DueTo(t), orders) \in Int
    BY <1>2, <1>4, <2>1, OrderTotalAppended DEF IInv
  <2>3. Spare(Purse, t)' = Spare(Purse, t) /\ Total(HeldBy(t), positions)' = Total(HeldBy(t), positions)
    BY <1>2, TotalsStay
  <2> QED
    BY <2>2, <2>3, GapInt DEF Gap
<1> QED
  BY <1>5 DEF GapKept

LEMMA BalanceDue ==
  ASSUME IInv, NEW o \in Ids(orders), NEW n \in Nat, NEW t \in Tokens
  PROVE  /\ OrderDue(Balance(o, n), t) = OrderDue(orders[o], t)
              + (IF t = orders[o].terms.baseAsset THEN n - orders[o].balance ELSE 0)
         /\ OrderDue(orders[o], t) \in Int
<1>1. orders[o] \in Order /\ orders[o].balance \in Nat
  BY OrderParts DEF IInv
<1>2. PICK x : x = Balance(o, n)
  OBVIOUS
<1>3. x \in Order /\ x.terms = orders[o].terms /\ x.positions = orders[o].positions /\ x.balance = n
  BY <1>2, BalanceSet
<1>4. PICK r : r = IF x.terms.rewardAsset = t THEN x.terms.rewardAmount * x.positions ELSE 0
  OBVIOUS
<1>5. OrderDue(x, t) = (IF x.terms.baseAsset = t THEN n ELSE 0) + r
      /\ OrderDue(orders[o], t) = (IF x.terms.baseAsset = t THEN orders[o].balance ELSE 0) + r
  BY <1>3, <1>4 DEF OrderDue
<1>6. OrderDue(orders[o], t) \in Int /\ r \in Int
  <2>1. x.terms.rewardAmount \in Int /\ x.positions \in Int
    BY <1>3 DEF Order, OrderParams
  <2>2. x.terms.rewardAmount * x.positions \in Int
    BY <2>1
  <2> QED
    BY <1>1, <1>4, <2>2, DueToInt
<1> QED
  BY <1>1, <1>2, <1>3, <1>5, <1>6

LEMMA FundGap ==
  ASSUME IInv, NEW who \in Users, NEW o \in Ids(orders), NEW amount \in Nat, NEW purse,
         Paid(Purse, purse, orders[o].terms.baseAsset, amount), Fund(who, o, amount, purse)
  PROVE  GapKept
<1>1. orders[o].balance \in Nat /\ orders[o] \in Order
  BY OrderParts DEF IInv
<1>2. PICK n \in Nat : n = orders[o].balance + amount
  BY <1>1
<1>3. Balance(o, n) \in Order
  BY BalanceSet
<1>4. orders' = [orders EXCEPT ![o] = Balance(o, n)] /\ positions' = positions
  BY <1>2 DEF Fund, Balance, IInv
<1>5. Purse' = purse /\ Typed(Purse)'
  BY DEF Fund, SetPurse, Purse, Paid, Typed
<1>6. ASSUME NEW t \in Tokens  PROVE Gap(t)' >= Gap(t)
  <2>1. Spare(Purse, t)' = Spare(purse, t)
    BY <1>5 DEF Spare, Due
  <2>2. Spare(purse, t) = Spare(Purse, t) + (IF t = orders[o].terms.baseAsset THEN amount ELSE 0)
    BY DEF Paid
  <2>3. Spare(Purse, t)' - OrderDue(Balance(o, n), t) >= Spare(Purse, t) - OrderDue(orders[o], t)
    BY <1>1, <1>2, <2>1, <2>2, BalanceDue, GapInt
  <2> QED
    BY <1>3, <1>4, <1>5, <2>3, GapOrder
<1> QED
  BY <1>6 DEF GapKept

LEMMA orderWithdrawGap ==
  ASSUME IInv, NEW who \in Users, NEW o \in Ids(orders), NEW amount \in Nat,
         orderWithdraw(who, o, amount)
  PROVE  GapKept
<1>1. /\ orders[o].balance \in Nat /\ orders[o] \in Order /\ orders[o].terms.baseAsset \in Tokens
      /\ held \in [Tokens -> Int] /\ erc223deposit \in [Users -> [Tokens -> Nat]]
  BY OrderParts DEF IInv, Scalars
<1>2. PICK n \in Nat : n = orders[o].balance - amount
  BY <1>1 DEF orderWithdraw
<1>3. Balance(o, n) \in Order
  BY BalanceSet
<1>4. /\ orders' = [orders EXCEPT ![o] = Balance(o, n)] /\ positions' = positions
      /\ erc223deposit' = erc223deposit
  BY <1>2 DEF orderWithdraw, Balance, IInv
<1>5. /\ held' \in [Tokens -> Int]
      /\ \A t \in Tokens : held'[t] = held[t] - (IF t = orders[o].terms.baseAsset THEN amount ELSE 0)
  <2>1. _transferOut(held, orders[o].terms.baseAsset, amount)
    BY DEF orderWithdraw
  <2> QED
    BY <1>1, <2>1 DEF _transferOut
<1>6. Typed(Purse)'
  BY <1>1, <1>4, <1>5 DEF Typed, Purse
<1>7. ASSUME NEW t \in Tokens  PROVE Gap(t)' >= Gap(t)
  <2>1. Spare(Purse, t)' = held'[t] - Due(erc223deposit, t)
    BY <1>4 DEF Spare, Purse, Due
  <2>2. Spare(Purse, t)' = Spare(Purse, t) - (IF t = orders[o].terms.baseAsset THEN amount ELSE 0)
    BY <1>5, <2>1, GapInt
  <2>3. Spare(Purse, t)' - OrderDue(Balance(o, n), t) >= Spare(Purse, t) - OrderDue(orders[o], t)
    BY <1>1, <1>2, <2>2, BalanceDue, GapInt
  <2> QED
    BY <1>3, <1>4, <1>6, <2>3, GapOrder
<1> QED
  BY <1>7 DEF GapKept

\* A position's holdings come and go with the money behind them.
LEMMA GapPosition ==
  ASSUME IInv, NEW p \in Ids(positions), NEW q, Rewrites(p, q), Typed(Purse)',
         orders' = orders, NEW t \in Tokens,
         Spare(Purse, t)' - Amount(q.holdings, t) >= Spare(Purse, t) - Amount(positions[p].holdings, t)
  PROVE  Gap(t)' >= Gap(t)
<1>1. Spare(Purse, t)' \in Int
  BY SpareInt DEF Spare, Typed, Purse
<1>2. PICK a, b, c, d, e, f :
        /\ a = Spare(Purse, t)' /\ b = Spare(Purse, t) /\ c = Total(DueTo(t), orders)
        /\ d = Total(HeldBy(t), positions) /\ e = Amount(q.holdings, t)
        /\ f = Amount(positions[p].holdings, t)
  OBVIOUS
<1>3. q \in Position /\ positions' = [positions EXCEPT ![p] = q] /\ positions \in Seq(Position)
  BY DEF Rewrites, SamePlace, IInv, Places
<1>4. /\ a \in Int /\ b \in Int /\ c \in Int /\ d \in Int /\ e \in Int /\ f \in Int
      /\ Total(HeldBy(t), positions)' = d - f + e
  BY <1>1, <1>2, <1>3, PositionTotal, GapInt
<1>5. Total(DueTo(t), orders)' = c
  BY <1>2, TotalsStay
<1>6. a - e >= b - f
  BY <1>2
<1>7. a - c - (d - f + e) >= b - c - d
  BY <1>4, <1>6
<1> QED
  BY <1>2, <1>4, <1>5, <1>7 DEF Gap

\* ... and so it is when only the balances change.
LEMMA GapHeld ==
  ASSUME IInv, NEW p \in Ids(positions), NEW q, Rewrites(p, q),
         UNCHANGED <<orders, erc223deposit>>, held' \in [Tokens -> Int],
         \A t \in Tokens : held'[t] - Amount(q.holdings, t) = held[t] - Amount(positions[p].holdings, t)
  PROVE  GapKept
<1>1. Typed(Purse)'
  BY DEF Typed, Purse, IInv, Scalars
<1>2. ASSUME NEW t \in Tokens  PROVE Gap(t)' >= Gap(t)
  <2>1. Spare(Purse, t)' = held'[t] - Due(erc223deposit, t)
    BY DEF Spare, Purse, Due
  <2>2. /\ Spare(Purse, t) = held[t] - Due(erc223deposit, t) /\ Due(erc223deposit, t) \in Int
        /\ held[t] \in Int /\ held'[t] \in Int
    BY GapInt
  <2>3. Amount(q.holdings, t) \in Int /\ Amount(positions[p].holdings, t) \in Int
    <3>1. q \in Position /\ positions[p] \in Position
      BY PositionFacts DEF Rewrites, SamePlace
    <3> QED
      BY <3>1, HeldByInt
  <2>4. Spare(Purse, t)' - Amount(q.holdings, t) >= Spare(Purse, t) - Amount(positions[p].holdings, t)
    <3>1. PICK a, b, c, d, e : /\ a = held'[t] /\ b = held[t] /\ c = Due(erc223deposit, t)
                               /\ d = Amount(q.holdings, t) /\ e = Amount(positions[p].holdings, t)
      OBVIOUS
    <3>2. a \in Int /\ b \in Int /\ c \in Int /\ d \in Int /\ e \in Int /\ a - d = b - e
      BY <2>2, <2>3, <3>1
    <3>3. a - c - d >= b - c - e
      BY <3>2
    <3> QED
      BY <2>1, <2>2, <3>1, <3>3
  <2> QED
    BY <1>1, <2>4, GapPosition
<1> QED
  BY <1>2 DEF GapKept

LEMMA DepositGap ==
  ASSUME IInv, NEW who \in Users, NEW p \in Ids(positions), NEW asset \in Tokens, NEW amount \in Nat,
         positionDeposit(who, p, asset, amount)
  PROVE  GapKept
<1>1. PICK q : /\ Rewrites(p, q) /\ q.holdings = addAsset(positions[p].holdings, asset, amount)
               /\ Paid(Purse, Purse', asset, amount)
  BY DepositRewrites
<1>2. orders' = orders /\ Typed(Purse)'
  BY <1>1 DEF positionDeposit, Paid, Typed, Purse
<1>3. ASSUME NEW t \in Tokens  PROVE Gap(t)' >= Gap(t)
  <2>1. PICK h : h = positions[p].holdings
    OBVIOUS
  <2>2. h \in Seq(Holding) /\ Distinct(h)
    BY <2>1, PositionFacts DEF Sound
  <2>3. Amount(addAsset(h, asset, amount), t) = Amount(h, t) + (IF asset = t THEN amount ELSE 0)
    BY <2>2, AddAmount
  <2>4. Spare(Purse, t)' = Spare(Purse, t) + (IF t = asset THEN amount ELSE 0)
    <3>1. Spare(Purse', t) = Spare(Purse, t) + (IF t = asset THEN amount ELSE 0)
      BY <1>1 DEF Paid
    <3> QED
      BY <3>1 DEF Spare, Due
  <2>5. Spare(Purse, t) \in Int /\ Amount(h, t) \in Int
    BY <2>2, GapInt, AmountInt
  <2>6. Spare(Purse, t)' - Amount(q.holdings, t) >= Spare(Purse, t) - Amount(positions[p].holdings, t)
    BY <1>1, <2>1, <2>3, <2>4, <2>5
  <2> QED
    BY <1>1, <1>2, <2>6, GapPosition
<1> QED
  BY <1>3 DEF GapKept

LEMMA SwapGap ==
  ASSUME IInv, NEW p \in Ids(positions), NEW q, Rewrites(p, q),
         NEW i, NEW asset2, NEW out, NEW used, SwapLeaves(p, q, i, asset2, out, used),
         UNCHANGED <<orders, erc223deposit>>
  PROVE  GapKept
<1>1. held' \in [Tokens -> Int]
  BY DEF SwapLeaves
<1>2. ASSUME NEW t \in Tokens
      PROVE  held'[t] - Amount(q.holdings, t) = held[t] - Amount(positions[p].holdings, t)
  BY DEF SwapLeaves, SwapEffect, Stock, Slack
<1> QED
  BY <1>1, <1>2, GapHeld

LEMMA RemarkGap ==
  ASSUME IInv, NEW p \in Ids(positions), NEW q, Rewrites(p, q), Remarked(q, positions[p]),
         UNCHANGED <<orders, held, erc223deposit>>
  PROVE  GapKept
BY GapHeld DEF Remarked, IInv, Scalars

LEMMA PayGap ==
  ASSUME IInv, NEW p \in Ids(positions), NEW q, NEW i, PaysOut(p, q, i),
         UNCHANGED <<orders, erc223deposit>>
  PROVE  GapKept
BY GapHeld DEF PaysOut

\* A settlement: the position pays its debt to the order and its reward to
\* the caller; the order stops counting a position it did count.
LEMMA SettleGap ==
  ASSUME IInv, NEW p \in Ids(positions), NEW q, NEW x, NEW w, Settles(p, q, x, w),
         Charges(p, q, w), erc223deposit' = erc223deposit, ~_entered
  PROVE  GapKept
<1>0. PICK o, y, debt : o = positions[p].orderId /\ y = OrderOf(p)
                        /\ debt = calculateDebtAmount(positions[p])
  OBVIOUS
<1>1. /\ o \in Ids(orders) /\ y = orders[o] /\ y \in Order /\ orders \in Seq(Order)
      /\ positions \in Seq(Position) /\ BaseOf(p) = y.terms.baseAsset
      /\ y.terms.rewardAmount \in Nat
  BY <1>0, PositionFacts DEF IInv, Places, Order, OrderParams, BaseOf
<1>2. y.positions \in Nat /\ y.positions > 0
  <2>1. y.positions = Cardinality(Counted(o))
    BY <1>0, <1>1 DEF IInv, CountsAgree
  <2>2. p \in Counted(o)
    BY <1>0, Idle DEF OpenPositions, Counted, Settles
  <2>3. IsFiniteSet(Counted(o)) /\ Cardinality(Counted(o)) \in Nat
    BY <1>1, OpenFinite
  <2>4. Cardinality(Counted(o)) # 0
    BY <2>2, <2>3, FS_EmptySet
  <2> QED
    BY <2>1, <2>3, <2>4
<1>3. PICK r \in Nat : r = Repaid(w, debt)
  BY <1>0 DEF Settles
<1>4. /\ positions' = [positions EXCEPT ![p] = q] /\ q \in Position
      /\ orders' = [orders EXCEPT ![o] = x] /\ x \in Order
      /\ x.terms = y.terms /\ x.positions = y.positions - 1 /\ x.balance = y.balance + r
  BY <1>0, <1>2, <1>3 DEF Settles, SamePlace, Released
<1>5. PICK ra, rn : ra = y.terms.rewardAsset /\ rn = y.terms.rewardAmount /\ rn \in Nat
  BY <1>1
<1>6. ASSUME NEW t \in Tokens  PROVE Gap(t)' >= Gap(t)
  <2>1. OrderDue(x, t) = OrderDue(y, t) + (IF t = BaseOf(p) THEN r ELSE 0)
                                        - (IF t = ra THEN rn ELSE 0)
    <3>1. PICK n \in Nat, b \in Nat : n = y.positions /\ b = y.balance
      BY <1>1, <1>2 DEF Order
    <3>2. rn * (n - 1) = rn * n - rn /\ rn * n \in Nat
      BY <1>5, <3>1
    <3>3. /\ OrderDue(x, t) = (IF t = BaseOf(p) THEN b + r ELSE 0) + (IF t = ra THEN rn * (n - 1) ELSE 0)
          /\ OrderDue(y, t) = (IF t = BaseOf(p) THEN b ELSE 0) + (IF t = ra THEN rn * n ELSE 0)
      BY <1>1, <1>4, <1>5, <3>1 DEF OrderDue
    <3>4. PICK l, m : l = rn * (n - 1) /\ m = rn * n
      OBVIOUS
    <3>5. l = m - rn /\ m \in Nat
      BY <3>2, <3>4
    <3>6. b \in Nat /\ r \in Nat /\ rn \in Nat
      BY <1>3, <1>5, <3>1
    <3>7. /\ OrderDue(x, t) = (IF t = BaseOf(p) THEN b + r ELSE 0) + (IF t = ra THEN l ELSE 0)
          /\ OrderDue(y, t) = (IF t = BaseOf(p) THEN b ELSE 0) + (IF t = ra THEN m ELSE 0)
      BY <3>3, <3>4
    <3> QED
      BY <3>5, <3>6, <3>7
  <2>2. held'[t] - Amount(q.holdings, t) = held[t] - Amount(positions[p].holdings, t)
                + (IF t = BaseOf(p) THEN r ELSE 0) - (IF t = ra THEN rn ELSE 0)
    BY <1>0, <1>3, <1>5 DEF Charges
  <2>3. Spare(Purse, t)' = held'[t] - Due(erc223deposit, t)
    BY DEF Spare, Purse, Due
  <2>4. PICK a, b, c, d, e, f, g, h, l :
          /\ a = held'[t] /\ b = held[t] /\ c = Total(DueTo(t), orders)
          /\ d = Total(HeldBy(t), positions) /\ e = OrderDue(x, t) /\ f = OrderDue(y, t)
          /\ g = Amount(q.holdings, t) /\ h = Amount(positions[p].holdings, t)
          /\ l = Due(erc223deposit, t)
    OBVIOUS
  <2>5. /\ a \in Int /\ b \in Int /\ l \in Int /\ Spare(Purse, t) = b - l
    BY <2>4, GapInt DEF Charges
  <2>6. /\ c \in Int /\ e \in Int /\ f \in Int /\ Total(DueTo(t), orders)' = c - f + e
    BY <1>1, <1>4, <2>4, OrderTotal
  <2>7. /\ d \in Int /\ g \in Int /\ h \in Int /\ Total(HeldBy(t), positions)' = d - h + g
    BY <1>1, <1>4, <2>4, PositionTotal
  <2>8. PICK m \in Int, n \in Int : m = (IF t = BaseOf(p) THEN r ELSE 0) /\ n = (IF t = ra THEN rn ELSE 0)
    BY <1>3, <1>5
  <2>9. e = f + m - n /\ a - g = b - h + m - n
    BY <2>1, <2>2, <2>4, <2>8
  <2>10. (a - l) - (c - f + e) - (d - h + g) >= (b - l) - c - d
    BY <2>5, <2>6, <2>7, <2>8, <2>9
  <2> QED
    BY <2>3, <2>4, <2>5, <2>6, <2>7, <2>10 DEF Gap
<1> QED
  BY <1>6 DEF GapKept

\* A call that takes a loan.
TakesLoan ==
    \E who \in Users, o \in Ids(orders), amount \in Nat, asset \in Tokens, collateral \in Nat :
      takeLoan(who, o, amount, asset, collateral)

LEMMA OrderStepGap ==
  ASSUME IInv, Reneging = {}, NEW who \in Users, OrderStep(who)
  PROVE  GapKept \/ TakesLoan
<1>0. FundAmounts \subseteq Nat /\ LoanAmounts \subseteq Nat /\ CollateralAmounts \subseteq Nat
  BY ParameterAssumption
<1>1. CASE \E params \in OrderChoices : createOrder(who, params)
  BY <1>1, createOrderGap
<1>2. CASE \E o \in Ids(orders), assets \in CollateralLists : orderSetCollaterals(who, o, assets)
  BY <1>2, orderSetCollateralsRewrites, SetOrderGap
<1>3. CASE \E o \in Ids(orders), bps \in MarginChoices, keeper \in Users \cup {NoOne} :
             orderSetLenderProtection(who, o, bps, keeper)
  BY <1>3, orderSetLenderProtectionRewrites, SetOrderGap
<1>4. CASE \E o \in Ids(orders), status \in StatusChoices : setOrderStatus(who, o, status)
  BY <1>4, setOrderStatusRewrites, SetOrderGap
<1>5. CASE \E o \in Ids(orders), params \in OrderChoices :
             KeepsTerms(who, o) /\ modifyOrder(who, o, params)
  BY <1>5, modifyOrderRewrites, SetOrderGap
<1>6. CASE \E o \in Ids(orders), amount \in FundAmounts :
             \/ orderDepositEth(who, o, amount)
             \/ orderDepositWETH9(who, o, amount)
             \/ orderDepositToken(who, o, amount)
  <2>1. PICK o \in Ids(orders), amount \in FundAmounts :
             \/ orderDepositEth(who, o, amount)
             \/ orderDepositWETH9(who, o, amount)
             \/ orderDepositToken(who, o, amount)
    BY <1>6
  <2>2. amount \in Nat
    BY <1>0
  <2>3. PICK purse : /\ Paid(Purse, purse, orders[o].terms.baseAsset, amount)
                     /\ Fund(who, o, amount, purse)
    BY <2>1, <2>2, DepositsKeep
  <2> QED
    BY <2>2, <2>3, FundGap
<1>7. CASE \E o \in Ids(orders), amount \in FundAmounts : orderWithdraw(who, o, amount)
  BY <1>0, <1>7, orderWithdrawGap
<1>8. CASE \E o \in Ids(orders), amount \in LoanAmounts, asset \in Tokens,
              collateral \in CollateralAmounts : takeLoan(who, o, amount, asset, collateral)
  BY <1>0, <1>8 DEF TakesLoan
<1> QED
  BY <1>1, <1>2, <1>3, <1>4, <1>5, <1>6, <1>7, <1>8 DEF OrderStep

LEMMA PositionStepGap ==
  ASSUME IInv, NEW who \in Users, PositionStep(who)
  PROVE  GapKept
<1>0. /\ TopUps \subseteq Nat /\ SwapAmounts \subseteq Nat /\ Slips \subseteq Int /\ Shorts \subseteq Nat
  BY ParameterAssumption
<1>1. PICK p \in Ids(positions) :
      \/ \E asset \in Tokens, amount \in TopUps : positionDeposit(who, p, asset, amount)
      \/ \E i \in Ids(positions[p].holdings) :
           \/ \E amount \in SwapAmounts, slip \in Slips, short \in Shorts :
                \/ \E asset2 \in Tokens :
                     marginSwap(who, p, i, amount, asset2, slip, short)
                \/ liquidateStep(who, p, i, amount, slip, short)
           \/ positionWithdraw(who, p, i)
      \/ liquidate(who, p)
      \/ \E autoWithdraw \in BOOLEAN : positionClose(who, p, autoWithdraw)
  BY DEF PositionStep
<1>2. CASE \E asset \in Tokens, amount \in TopUps : positionDeposit(who, p, asset, amount)
  BY <1>0, <1>2, DepositGap
<1>3. CASE \E i \in Ids(positions[p].holdings), amount \in SwapAmounts, slip \in Slips,
              short \in Shorts, asset2 \in Tokens :
                marginSwap(who, p, i, amount, asset2, slip, short)
  <2>1. PICK i \in Ids(positions[p].holdings), amount \in Nat, slip \in Int, short \in Nat,
              asset2 \in Tokens : marginSwap(who, p, i, amount, asset2, slip, short)
    BY <1>0, <1>3
  <2>2. PICK q : Rewrites(p, q) /\ \E out, used : SwapLeaves(p, q, i, asset2, out, used)
    BY <2>1, marginSwapRewrites
  <2>3. UNCHANGED <<orders, erc223deposit>>
    BY <2>1 DEF marginSwap
  <2> QED
    BY <2>2, <2>3, SwapGap
<1>4. CASE \E i \in Ids(positions[p].holdings), amount \in SwapAmounts, slip \in Slips,
              short \in Shorts : liquidateStep(who, p, i, amount, slip, short)
  <2>1. PICK i \in Ids(positions[p].holdings), amount \in Nat, slip \in Int, short \in Nat :
              liquidateStep(who, p, i, amount, slip, short)
    BY <1>0, <1>4
  <2>2. PICK q : Rewrites(p, q) /\ SellsSlot(p, q, i)
    BY <2>1, liquidateStepRewrites
  <2>3. UNCHANGED <<orders, erc223deposit>>
    BY <2>1 DEF liquidateStep
  <2> QED
    BY <2>2, <2>3, SwapGap DEF SellsSlot
<1>5. CASE \E i \in Ids(positions[p].holdings) : positionWithdraw(who, p, i)
  <2>1. PICK i \in Ids(positions[p].holdings) : positionWithdraw(who, p, i)
    BY <1>5
  <2>2. ~positions[p].open /\ PayHolding(p, i)
    BY <2>1 DEF positionWithdraw
  <2>3. PICK q : PaysOut(p, q, i)
    BY <2>2, PayRewrites
  <2>4. UNCHANGED <<orders, erc223deposit>>
    BY <2>2 DEF PayHolding
  <2> QED
    BY <2>3, <2>4, PayGap
<1>6. CASE Freeze(who, p)
  <2>1. PICK q : Rewrites(p, q) /\ Remarked(q, positions[p])
    BY <1>6, FreezeRewrites
  <2>2. UNCHANGED <<orders, held, erc223deposit>>
    BY <1>6 DEF Freeze
  <2> QED
    BY <2>1, <2>2, RemarkGap
<1>7. CASE Liquidate(who, p)
  BY <1>7, LiquidateSettles, SettleGap
<1>8. CASE \E autoWithdraw \in BOOLEAN : positionClose(who, p, autoWithdraw)
  BY <1>8, CloseSettles, SettleGap
<1> QED
  BY <1>1, <1>2, <1>3, <1>4, <1>5, <1>6, <1>7, <1>8 DEF liquidate

LEMMA StepGap ==
  IInv /\ Reneging = {} /\ [Next]_vars => GapKept \/ TakesLoan \/ PullCollateral \/ PullReward
<1> SUFFICES ASSUME IInv, Reneging = {}, [Next]_vars
             PROVE  GapKept \/ TakesLoan \/ PullCollateral \/ PullReward
  OBVIOUS
<1>q. ASSUME Typed(Purse)', UNCHANGED <<orders, positions>>,
             \A t \in Tokens : Spare(Purse, t)' >= Spare(Purse, t)
      PROVE  GapKept
  BY <1>q, GapSame DEF GapKept
<1>u. ASSUME UNCHANGED <<orders, positions, held, erc223deposit>>  PROVE GapKept
  <2>1. /\ Typed(Purse)'
        /\ \A t \in Tokens : Spare(Purse, t)' = Spare(Purse, t) /\ Spare(Purse, t) \in Int
    BY <1>u, PurseStays
  <2>2. \A t \in Tokens : Spare(Purse, t)' >= Spare(Purse, t)
    BY <2>1
  <2> QED
    BY <1>q, <1>u, <2>1, <2>2
<1>1. CASE \E who \in Users : OrderStep(who)
  BY <1>1, OrderStepGap
<1>2. CASE \E who \in Users : PositionStep(who)
  BY <1>2, PositionStepGap
<1>3. CASE \E who \in Users, token \in Erc223, amount \in TopUps : tokenReceived(who, token, amount)
  <2>1. PICK who \in Users, token \in Tokens, amount \in Nat : tokenReceived(who, token, amount)
    BY <1>3, TokenAssumption, ParameterAssumption
  <2> QED
    BY <1>q, <2>1, CreditPays DEF tokenReceived
<1>4. CASE \E who \in Users, token \in Erc223 : withdraw223(who, token)
  <2>1. PICK who \in Users, token \in Tokens : withdraw223(who, token)
    BY <1>4, TokenAssumption
  <2>2. Typed(Purse)' /\ \A t \in Tokens : Spare(Purse, t)' = Spare(Purse, t)
    BY <2>1, RefundPays
  <2>3. \A t \in Tokens : Spare(Purse, t)' >= Spare(Purse, t)
    BY <2>2, GapInt
  <2> QED
    BY <1>q, <2>1, <2>2, <2>3 DEF withdraw223
<1>5. CASE \E p \in Ids(positions) : unfreeze(p)
  <2>1. PICK p \in Ids(positions) : unfreeze(p)
    BY <1>5
  <2>2. PICK q : Rewrites(p, q) /\ Remarked(q, positions[p])
    BY <2>1, unfreezeRewrites
  <2>3. UNCHANGED <<orders, held, erc223deposit>>
    BY <2>1 DEF unfreeze
  <2> QED
    BY <2>2, <2>3, RemarkGap
<1>6. CASE Continue
  <2>1. PICK p, i : /\ p \in Ids(positions) /\ i \in Ids(positions[p].holdings)
                    /\ PayHolding(p, i) /\ ~positions[p].open
    BY <1>6, ContinuePays
  <2>2. PICK q : PaysOut(p, q, i)
    BY <2>1, PayRewrites
  <2>3. UNCHANGED <<orders, erc223deposit>>
    BY <2>1 DEF PayHolding
  <2> QED
    BY <2>1, <2>2, <2>3, PayGap
<1>7. CASE Return
  <2>1. positions' = positions /\ UNCHANGED <<held, erc223deposit>>
    BY <1>7 DEF Return
  <2> QED
    BY <1>7, <1>u, <2>1, ReturnRewrites, RewrittenGap
<1>8. CASE Environment
  <2>1. UNCHANGED <<orders, positions, held, erc223deposit>>
    BY <1>8 DEF Environment, addTokenlist, PriceMoves, AutoListing, Tick
  <2> QED
    BY <1>u, <2>1
<1>9. CASE UNCHANGED vars
  BY <1>9, <1>u DEF vars
<1> QED
  BY <1>1, <1>2, <1>3, <1>4, <1>5, <1>6, <1>7, <1>8, <1>9 DEF Next

-----------------------------------------------------------------------------
(* The loan being taken, through the steps that are not its own.           *)

\* Only a call that is over has none, and only takeLoan starts one.
LEMMA PullingStays ==
  ASSUME IInv, [Next]_vars
  PROVE  pulling' = pulling \/ TakesLoan \/ PullCollateral \/ PullReward
<1>i. ~_entered => pulling = <<>>
  BY Idle
<1>1. ASSUME NEW who \in Users, OrderStep(who)  PROVE pulling' = pulling \/ TakesLoan
  <2>0. LoanAmounts \subseteq Nat /\ CollateralAmounts \subseteq Nat
    BY ParameterAssumption
  <2>1. ASSUME NEW params, createOrder(who, params)  PROVE pulling' = pulling
    BY <2>1 DEF createOrder, callVars
  <2>2. ASSUME NEW o, NEW x, SetOrder(who, o, x)  PROVE pulling' = pulling
    BY <2>2 DEF SetOrder, callVars
  <2>3. ASSUME NEW o, NEW amount, NEW purse, Fund(who, o, amount, purse)  PROVE pulling' = pulling
    BY <2>3 DEF Fund, Guarded, callVars
  <2>4. ASSUME NEW o, NEW amount, orderWithdraw(who, o, amount)  PROVE pulling' = pulling
    BY <1>i, <2>4 DEF orderWithdraw, EnterToPay, Enter
  <2>5. CASE \E params \in OrderChoices : createOrder(who, params)
    BY <2>1, <2>5
  <2>6. CASE \E o \in Ids(orders) :
               \/ \E assets \in CollateralLists : orderSetCollaterals(who, o, assets)
               \/ \E bps \in MarginChoices, keeper \in Users \cup {NoOne} :
                    orderSetLenderProtection(who, o, bps, keeper)
               \/ \E status \in StatusChoices : setOrderStatus(who, o, status)
               \/ \E params \in OrderChoices : modifyOrder(who, o, params)
    BY <2>2, <2>6 DEF orderSetCollaterals, orderSetLenderProtection, setOrderStatus, modifyOrder
  <2>7. CASE \E o \in Ids(orders), amount \in FundAmounts :
               \/ orderDepositEth(who, o, amount)
               \/ orderDepositWETH9(who, o, amount)
               \/ orderDepositToken(who, o, amount)
               \/ orderWithdraw(who, o, amount)
    BY <2>3, <2>4, <2>7 DEF orderDepositEth, orderDepositWETH9, orderDepositToken
  <2>8. CASE \E o \in Ids(orders), amount \in LoanAmounts, asset \in Tokens,
                collateral \in CollateralAmounts : takeLoan(who, o, amount, asset, collateral)
    BY <2>0, <2>8 DEF TakesLoan
  <2> QED
    BY <1>1, <2>5, <2>6, <2>7, <2>8 DEF OrderStep
<1>2. ASSUME NEW who \in Users, PositionStep(who)  PROVE pulling' = pulling
  <2>1. ASSUME Guarded  PROVE pulling' = pulling
    BY <2>1 DEF Guarded, callVars
  <2>2. ASSUME EnterToPay(who)  PROVE pulling' = pulling
    BY <1>i, <2>2 DEF EnterToPay, Enter
  <2>3. ASSUME NEW p, NEW pos, NEW w, _settle(who, p, pos, w)  PROVE pulling' = pulling
    BY <1>i, <2>3 DEF _settle, Enter
  <2>4. ASSUME NEW p, \/ Freeze(who, p)
                      \/ \E asset, amount : positionDeposit(who, p, asset, amount)
                      \/ \E i, amount, slip, short : liquidateStep(who, p, i, amount, slip, short)
                      \/ \E i, amount, asset2, slip, short :
                           marginSwap(who, p, i, amount, asset2, slip, short)
        PROVE  pulling' = pulling
    <3>1. CASE Freeze(who, p)
      BY <2>1, <3>1 DEF Freeze
    <3>2. CASE \E asset, amount : positionDeposit(who, p, asset, amount)
      BY <2>1, <3>2 DEF positionDeposit
    <3>3. CASE \E i, amount, slip, short : liquidateStep(who, p, i, amount, slip, short)
      <4>1. PICK i, amount, slip, short : liquidateStep(who, p, i, amount, slip, short)
        BY <3>3
      <4>2. Guarded
        BY <4>1 DEF liquidateStep
      <4> QED
        BY <2>1, <4>2
    <3>4. CASE \E i, amount, asset2, slip, short : marginSwap(who, p, i, amount, asset2, slip, short)
      <4>1. PICK i, amount, asset2, slip, short : marginSwap(who, p, i, amount, asset2, slip, short)
        BY <3>4
      <4>2. Guarded
        BY <4>1 DEF marginSwap
      <4> QED
        BY <2>1, <4>2
    <3> QED
      BY <2>4, <3>1, <3>2, <3>3, <3>4
  <2>5. ASSUME NEW p, Liquidate(who, p) \/ \E autoWithdraw : positionClose(who, p, autoWithdraw)
        PROVE  pulling' = pulling
    BY <2>3, <2>5 DEF Liquidate, positionClose
  <2>6. ASSUME NEW p, \E i : positionWithdraw(who, p, i)  PROVE pulling' = pulling
    BY <2>2, <2>6 DEF positionWithdraw
  <2> QED
    BY <1>2, <2>4, <2>5, <2>6 DEF PositionStep, liquidate
<1>3. ASSUME NEW who \in Users, NEW token, NEW amount, tokenReceived(who, token, amount)
      PROVE  pulling' = pulling
  BY <1>3 DEF tokenReceived, callVars
<1>4. ASSUME NEW who \in Users, NEW token, withdraw223(who, token)  PROVE pulling' = pulling
  BY <1>i, <1>4 DEF withdraw223, EnterToPay, Enter
<1>5. ASSUME NEW p, unfreeze(p)  PROVE pulling' = pulling
  BY <1>5 DEF unfreeze, callVars
<1>6. CASE Continue
  BY <1>6 DEF Continue
<1>7. CASE Return
  BY <1>7 DEF Return, Leave
<1>8. CASE Environment
  BY <1>8 DEF Environment, addTokenlist, PriceMoves, AutoListing, Tick, callVars
<1>9. CASE UNCHANGED vars
  BY <1>9 DEF vars, callVars
<1> QED
  BY <1>1, <1>2, <1>3, <1>4, <1>5, <1>6, <1>7, <1>8, <1>9 DEF Next

\* While it is under way its position stays with its order, and owners who
\* keep their terms leave it the reward.
LEMMA LoanKeepsTerms ==
  ASSUME IInv, Reneging = {}, [Next]_vars, pulling # <<>>, pulling' = pulling,
         NEW p, p = pulling.position
  PROVE  /\ OrderOf(p)'.terms.rewardAsset = OrderOf(p).terms.rewardAsset
         /\ OrderOf(p)'.terms.rewardAmount = OrderOf(p).terms.rewardAmount
<1>1. PICK o : o = positions[p].orderId
  OBVIOUS
<1>2. /\ p \in Ids(positions) /\ positions[p].open /\ o \in Ids(orders) /\ OrderOf(p) = orders[o]
      /\ orders \in Seq(Order) /\ positions \in Seq(Position)
  BY <1>1, LoanParts DEF IInv, Places
<1>3. OpenPositions(o) # {}
  BY <1>1, <1>2 DEF OpenPositions
<1>4. _entered /\ todo = <<>>
  BY DEF IInv, CallOK, PullOK
<1>5. ASSUME positions' = positions, orders' = orders  PROVE OrderOf(p)' = OrderOf(p)
  BY <1>5 DEF OrderOf
<1>6. ASSUME NEW i \in Ids(orders), NEW x, OrderRewritten(i, x), positions' = positions
      PROVE  /\ OrderOf(p)'.terms.rewardAsset = OrderOf(p).terms.rewardAsset
             /\ OrderOf(p)'.terms.rewardAmount = OrderOf(p).terms.rewardAmount
  <2>1. orders' \in Seq(Order) /\ Replaced(orders, orders', i, x)
    BY <1>2, <1>6, SeqReplaced DEF OrderRewritten
  <2>2. OrderOf(p)' = orders'[o]
    BY <1>1, <1>6 DEF OrderOf
  <2>3. CASE i = o
    BY <1>2, <1>3, <1>6, <2>1, <2>2, <2>3 DEF OrderRewritten, Replaced
  <2>4. CASE i # o
    BY <1>2, <2>1, <2>2, <2>4 DEF Replaced
  <2> QED
    BY <2>3, <2>4
<1>7. ASSUME NEW who \in Users, OrderStep(who)
      PROVE  /\ OrderOf(p)'.terms.rewardAsset = OrderOf(p).terms.rewardAsset
             /\ OrderOf(p)'.terms.rewardAmount = OrderOf(p).terms.rewardAmount
  <2>1. CASE \E params \in OrderChoices : createOrder(who, params)
    <3>1. PICK x : orders' = Append(orders, x) /\ positions' = positions
      BY <2>1 DEF createOrder
    <3>2. orders'[o] = orders[o]
      BY <1>2, <3>1 DEF Ids
    <3> QED
      BY <1>1, <1>2, <3>1, <3>2 DEF OrderOf
  <2>2. CASE \E i \in Ids(orders), assets \in CollateralLists : orderSetCollaterals(who, i, assets)
    BY <1>6, <2>2, orderSetCollateralsRewrites DEF SetOrder
  <2>3. CASE \E i \in Ids(orders), bps \in MarginChoices, keeper \in Users \cup {NoOne} :
               orderSetLenderProtection(who, i, bps, keeper)
    BY <1>6, <2>3, orderSetLenderProtectionRewrites DEF SetOrder
  <2>4. CASE \E i \in Ids(orders), status \in StatusChoices : setOrderStatus(who, i, status)
    BY <1>6, <2>4, setOrderStatusRewrites DEF SetOrder
  <2>5. CASE \E i \in Ids(orders), params \in OrderChoices :
               KeepsTerms(who, i) /\ modifyOrder(who, i, params)
    BY <1>6, <2>5, modifyOrderRewrites DEF SetOrder
  <2>6. ASSUME NEW i, NEW amount, \/ orderDepositEth(who, i, amount)
                                  \/ orderDepositWETH9(who, i, amount)
                                  \/ orderDepositToken(who, i, amount)
                                  \/ orderWithdraw(who, i, amount)
        PROVE  FALSE
    BY <1>4, <2>6 DEF orderDepositEth, orderDepositWETH9, orderDepositToken, orderWithdraw,
                      Fund, Guarded, EnterToPay, Enter
  <2>7. ASSUME NEW i, NEW amount, NEW asset, NEW collateral,
               takeLoan(who, i, amount, asset, collateral)
        PROVE  FALSE
    BY <1>4, <2>7 DEF takeLoan, Enter
  <2> QED
    BY <1>7, <2>1, <2>2, <2>3, <2>4, <2>5, <2>6, <2>7 DEF OrderStep
<1>8. ASSUME NEW who \in Users, PositionStep(who)  PROVE FALSE
  <2>1. ASSUME NEW r, \/ Freeze(who, r)
                      \/ \E asset, amount : positionDeposit(who, r, asset, amount)
                      \/ \E i, amount, slip, short : liquidateStep(who, r, i, amount, slip, short)
                      \/ \E i, amount, asset2, slip, short :
                           marginSwap(who, r, i, amount, asset2, slip, short)
        PROVE  FALSE
    BY <1>4, <2>1 DEF Freeze, positionDeposit, liquidateStep, marginSwap, Guarded
  <2>2. ASSUME NEW r, Liquidate(who, r) \/ \E autoWithdraw : positionClose(who, r, autoWithdraw)
        PROVE  FALSE
    BY <1>4, <2>2 DEF Liquidate, positionClose, _settle, Enter
  <2>3. ASSUME NEW r, \E i : positionWithdraw(who, r, i)  PROVE FALSE
    BY <1>4, <2>3 DEF positionWithdraw, EnterToPay, Enter
  <2> QED
    BY <1>8, <2>1, <2>2, <2>3 DEF PositionStep, liquidate
<1>9. ASSUME NEW who \in Users, NEW token, NEW amount, tokenReceived(who, token, amount)
      PROVE  OrderOf(p)' = OrderOf(p)
  BY <1>5, <1>9 DEF tokenReceived
<1>10. ASSUME NEW who \in Users, NEW token, withdraw223(who, token)  PROVE FALSE
  BY <1>4, <1>10 DEF withdraw223, EnterToPay, Enter
<1>11. ASSUME NEW r \in Ids(positions), unfreeze(r)  PROVE OrderOf(p)' = OrderOf(p)
  <2>1. PICK q : Rewrites(r, q) /\ orders' = orders
    BY <1>11, unfreezeRewrites DEF unfreeze
  <2>2. positions' \in Seq(Position) /\ Replaced(positions, positions', r, q)
    BY <1>2, <2>1, SeqReplaced DEF Rewrites, SamePlace
  <2>3. positions'[p].orderId = positions[p].orderId
    BY <1>2, <2>1, <2>2 DEF Replaced, Rewrites, SamePlace
  <2> QED
    BY <2>1, <2>3 DEF OrderOf
<1>12. CASE Continue
  BY <1>4, <1>12 DEF Continue, Unpaid
<1>13. CASE Return
  BY <1>13 DEF Return
<1>14. CASE Environment
  BY <1>5, <1>14 DEF Environment, addTokenlist, PriceMoves, AutoListing, Tick
<1>15. CASE UNCHANGED vars
  BY <1>5, <1>15 DEF vars
<1>16. CASE PullCollateral
  BY <1>5, <1>16 DEF PullCollateral
<1>17. CASE PullReward
  <2>1. pulling' = <<>>
    BY <1>17 DEF PullReward, Leave
  <2> QED
    BY <2>1
<1> QED
  BY <1>7, <1>8, <1>9, <1>10, <1>11, <1>12, <1>13, <1>14, <1>15, <1>16, <1>17 DEF Next

LEMMA InLoanStays ==
  ASSUME IInv, Reneging = {}, [Next]_vars, pulling' = pulling, NEW t
  PROVE  InLoan(t)' = InLoan(t)
<1>1. CASE pulling = <<>>
  BY <1>1 DEF InLoan
<1>2. CASE pulling # <<>>
  <2>1. PICK p : p = pulling.position
    OBVIOUS
  <2>2. /\ OrderOf(p)'.terms.rewardAsset = OrderOf(p).terms.rewardAsset
        /\ OrderOf(p)'.terms.rewardAmount = OrderOf(p).terms.rewardAmount
    BY <1>2, <2>1, LoanKeepsTerms
  <2>3. /\ OrderOf(pulling.position)'.terms.rewardAsset = OrderOf(p).terms.rewardAsset
        /\ OrderOf(pulling.position)'.terms.rewardAmount = OrderOf(p).terms.rewardAmount
    BY <2>1, <2>2 DEF OrderOf
  <2> QED
    BY <1>2, <2>1, <2>3 DEF InLoan
<1> QED
  BY <1>1, <1>2

-----------------------------------------------------------------------------
(* The steps of the loan.                                                  *)

FreeKept == \A t \in Tokens : Free(t)' >= Free(t)

\* The position is owed its collateral from now on, and the loan pulls it in.
LEMMA takeLoanFree ==
  ASSUME IInv, TakesLoan
  PROVE  FreeKept
<1>1. PICK who \in Users, o \in Ids(orders), amount \in Nat, asset \in Tokens, n \in Nat :
        takeLoan(who, o, amount, asset, n)
  BY DEF TakesLoan
<1>2. PICK q, x : Opens(o, q, x, asset, n)
  BY <1>1, takeLoanOpens
<1>3. UNCHANGED <<held, erc223deposit>>
  BY <1>1 DEF takeLoan
<1>4. /\ orders[o] \in Order /\ orders \in Seq(Order) /\ positions \in Seq(Position)
      /\ orders[o].balance \in Int /\ x.balance \in Int
  <2>1. orders[o] \in Order /\ x \in Order
    BY <1>2, OrderParts DEF IInv, Opens
  <2> QED
    BY <2>1 DEF IInv, Places, Order
<1>y. PICK y : y = orders[o]
  OBVIOUS
<1>5. PICK k \in Int : y = orders[o] /\ k = y.balance - x.balance
  BY <1>4, <1>y
<1>6. ASSUME NEW t \in Tokens  PROVE Free(t)' >= Free(t)
  <2>1. InLoan(t) = 0 /\ InLoan(t)' = (IF asset = t THEN n ELSE 0) - 0
    BY <1>2 DEF InLoan, Opens
  <2>2. PICK m \in Int, l \in Int : /\ m = (IF t = y.terms.baseAsset THEN k ELSE 0)
                                    /\ l = (IF asset = t THEN n ELSE 0)
    BY <1>5
  <2>3. OrderDue(x, t) = OrderDue(y, t) - m
    <3>1. x.terms = y.terms /\ x.positions = y.positions
      BY <1>2, <1>5 DEF Opens
    <3>2. PICK r : r = IF y.terms.rewardAsset = t THEN y.terms.rewardAmount * y.positions ELSE 0
      OBVIOUS
    <3>3. r \in Int
      <4>1. y.terms.rewardAmount \in Int /\ y.positions \in Int
        BY <1>4, <1>5, OrderParts
      <4>2. y.terms.rewardAmount * y.positions \in Int
        BY <4>1
      <4> QED
        BY <3>2, <4>2
    <3>4. /\ OrderDue(x, t) = (IF y.terms.baseAsset = t THEN x.balance ELSE 0) + r
          /\ OrderDue(y, t) = (IF y.terms.baseAsset = t THEN y.balance ELSE 0) + r
      BY <3>1, <3>2 DEF OrderDue
    <3>5. PICK b \in Int, c \in Int : b = y.balance /\ c = x.balance
      BY <1>4, <1>5
    <3> QED
      BY <1>5, <2>2, <3>3, <3>4, <3>5
  <2>4. Amount(q.holdings, t) = m + l
    BY <1>2, <1>5, <2>2 DEF Opens
  <2>5. Spare(Purse, t)' = Spare(Purse, t)
    BY <1>3, TotalsStay
  <2>6. PICK b, c, d, e, f, g :
          /\ b = Spare(Purse, t) /\ c = Total(DueTo(t), orders)
          /\ d = Total(HeldBy(t), positions) /\ e = OrderDue(x, t) /\ f = OrderDue(y, t)
          /\ g = Amount(q.holdings, t)
    OBVIOUS
  <2>7. b \in Int
    BY <2>6, GapInt
  <2>8. /\ c \in Int /\ e \in Int /\ f \in Int /\ Total(DueTo(t), orders)' = c - f + e
    <3>1. x \in Order /\ orders' = [orders EXCEPT ![o] = x]
      BY <1>2 DEF Opens
    <3>2. /\ Total(DueTo(t), orders)' = Total(DueTo(t), orders) - OrderDue(orders[o], t) + OrderDue(x, t)
          /\ Total(DueTo(t), orders) \in Int /\ OrderDue(x, t) \in Int
          /\ OrderDue(orders[o], t) \in Int
      BY <1>4, <3>1, OrderTotal
    <3> QED
      BY <1>5, <2>6, <3>2
  <2>9. /\ d \in Int /\ g \in Int /\ Total(HeldBy(t), positions)' = d + g
    BY <1>2, <1>4, <2>6, PositionTotalAppended DEF Opens
  <2>10. e = f - m /\ g = m + l
    BY <2>3, <2>4, <2>6
  <2>11. (b - (c - f + e) - (d + g)) + l >= (b - c - d) + 0
    BY <2>2, <2>7, <2>8, <2>9, <2>10
  <2>12. InLoan(t)' = l
    BY <2>1, <2>2
  <2> QED
    BY <2>1, <2>5, <2>6, <2>8, <2>9, <2>11, <2>12 DEF Free, Gap
<1> QED
  BY <1>6 DEF FreeKept

\* The collateral has come in; the reward is pulled and owed at once.
LEMMA PullCollateralFree ==
  ASSUME IInv, PullCollateral
  PROVE  FreeKept
<1>1. /\ pulling # <<>> /\ ~pulling.reward /\ PayIn /\ UNCHANGED <<orders, positions>>
      /\ pulling' # <<>> /\ pulling'.position = pulling.position /\ pulling'.reward = TRUE
      /\ pulling'.asset = OrderOf(pulling.position).terms.rewardAsset
      /\ pulling'.amount = OrderOf(pulling.position).terms.rewardAmount
  BY DEF PullCollateral, Pulls
<1>2. PICK ra \in Tokens, rn \in Nat, a \in Tokens, n \in Nat :
        /\ ra = OrderOf(pulling.position).terms.rewardAsset
        /\ rn = OrderOf(pulling.position).terms.rewardAmount
        /\ a = pulling.asset /\ n = pulling.amount
  BY <1>1, LoanParts
<1>3. OrderOf(pulling.position)' = OrderOf(pulling.position)
  BY <1>1 DEF OrderOf
<1>4. ASSUME NEW t \in Tokens  PROVE Free(t)' >= Free(t)
  <2>1. InLoan(t) = (IF a = t THEN n ELSE 0) - 0
    BY <1>1, <1>2 DEF InLoan
  <2>2. InLoan(t)' = (IF ra = t THEN rn ELSE 0) - (IF ra = t THEN rn ELSE 0)
    BY <1>1, <1>2, <1>3 DEF InLoan
  <2>3. Spare(Purse, t)' = Spare(Purse, t) + (IF t = a THEN n ELSE 0)
    BY <1>1, <1>2, PayInPays
  <2>4. PICK b, c, d : /\ b = Spare(Purse, t) /\ c = Total(DueTo(t), orders)
                       /\ d = Total(HeldBy(t), positions)
    OBVIOUS
  <2>5. /\ b \in Int /\ c \in Int /\ d \in Int
        /\ Total(DueTo(t), orders)' = c /\ Total(HeldBy(t), positions)' = d
    BY <1>1, <2>4, GapInt, TotalsStay
  <2>6. PICK l \in Int : l = (IF a = t THEN n ELSE 0)
    BY <1>2
  <2>7. InLoan(t) = l /\ InLoan(t)' = 0 /\ Spare(Purse, t)' = b + l
    BY <1>2, <2>1, <2>2, <2>3, <2>4, <2>6
  <2>8. (b + l - c - d) + 0 >= (b - c - d) + l
    BY <2>5, <2>6
  <2> QED
    BY <2>4, <2>5, <2>7, <2>8 DEF Free, Gap
<1> QED
  BY <1>4 DEF FreeKept

\* The reward has come in; its order counts the position and its reward.
LEMMA PullRewardFree ==
  ASSUME IInv, PullReward
  PROVE  FreeKept
<1>1. pulling # <<>> /\ pulling.reward /\ PayIn /\ positions' = positions /\ pulling' = <<>>
  BY DEF PullReward, Leave
<1>2. PICK o, x : Counts(o, x)
  BY PullRewardCounts
<1>3. PICK y : y = orders[o]
  OBVIOUS
<1>4. /\ o \in Ids(orders) /\ orders \in Seq(Order) /\ y \in Order /\ x \in Order
      /\ OrderOf(pulling.position) = y /\ y.positions \in Int /\ y.balance \in Nat
  <2>1. o \in Ids(orders) /\ orders \in Seq(Order)
    BY <1>2 DEF Counts, IInv
  <2> QED
    BY <1>2, <1>3, <2>1, OrderParts DEF Counts, OrderOf
<1>5. PICK ra \in Tokens, rn \in Nat, a \in Tokens, n \in Nat :
        /\ ra = y.terms.rewardAsset /\ rn = y.terms.rewardAmount
        /\ a = pulling.asset /\ n = pulling.amount
  BY <1>1, <1>4, LoanParts
<1>6. ASSUME NEW t \in Tokens  PROVE Free(t)' >= Free(t)
  <2>1. PICK l \in Int, m \in Int : l = (IF a = t THEN n ELSE 0) /\ m = (IF ra = t THEN rn ELSE 0)
    BY <1>5
  <2>2. InLoan(t) = l - m /\ InLoan(t)' = 0
    BY <1>1, <1>4, <1>5, <2>1 DEF InLoan
  <2>3. Spare(Purse, t)' = Spare(Purse, t) + l
    BY <1>1, <1>5, <2>1, PayInPays
  <2>4. OrderDue(x, t) = OrderDue(y, t) + m
    <3>1. x.terms = y.terms /\ x.balance = y.balance /\ x.positions = y.positions + 1
      BY <1>2, <1>3 DEF Counts
    <3>2. PICK k \in Int, b \in Nat : k = y.positions /\ b = y.balance
      BY <1>4
    <3>3. rn * (k + 1) = rn * k + rn /\ rn * k \in Int
      BY <1>5, <3>2
    <3>4. PICK i \in Int, j \in Int : i = rn * k /\ j = rn * (k + 1)
      BY <3>3
    <3>5. /\ OrderDue(x, t) = (IF y.terms.baseAsset = t THEN b ELSE 0) + (IF ra = t THEN j ELSE 0)
          /\ OrderDue(y, t) = (IF y.terms.baseAsset = t THEN b ELSE 0) + (IF ra = t THEN i ELSE 0)
      BY <1>5, <3>1, <3>2, <3>4 DEF OrderDue
    <3>6. j = i + rn
      BY <3>3, <3>4
    <3> QED
      BY <2>1, <3>2, <3>4, <3>5, <3>6
  <2>5. PICK b, c, d, e, f :
          /\ b = Spare(Purse, t) /\ c = Total(DueTo(t), orders)
          /\ d = Total(HeldBy(t), positions) /\ e = OrderDue(x, t) /\ f = OrderDue(y, t)
    OBVIOUS
  <2>6. b \in Int /\ d \in Int /\ Total(HeldBy(t), positions)' = d
    BY <1>1, <2>5, GapInt, TotalsStay
  <2>7. c \in Int /\ e \in Int /\ f \in Int /\ Total(DueTo(t), orders)' = c - f + e
    BY <1>2, <1>3, <1>4, <2>5, OrderTotal DEF Counts
  <2>8. e = f + m
    BY <2>4, <2>5
  <2>9. (b + l - (c - f + e) - d) + 0 >= (b - c - d) + (l - m)
    BY <2>1, <2>6, <2>7, <2>8
  <2> QED
    BY <2>2, <2>3, <2>5, <2>6, <2>7, <2>9 DEF Free, Gap
<1> QED
  BY <1>6 DEF FreeKept

LEMMA GapNext ==
  ASSUME IInv', NEW t \in Tokens
  PROVE  Gap(t)' \in Int
<1>1. /\ Typed(Purse)' /\ orders' \in Seq(Order) /\ positions' \in Seq(Position)
  BY DEF IInv, Scalars, Places, Typed, Purse
<1>2. Spare(Purse, t)' \in Int
  BY <1>1, SpareInt DEF Spare, Typed, Purse
<1>3. Total(DueTo(t), orders)' \in Int
  <2>1. Total(DueTo(t), orders') \in Int
    BY <1>1, DueToInt, TotalInt
  <2> QED
    BY <2>1 DEF Total, DueTo
<1>4. Total(HeldBy(t), positions)' \in Int
  <2>1. Total(HeldBy(t), positions') \in Int
    BY <1>1, HeldByInt, TotalInt
  <2> QED
    BY <2>1 DEF Total, HeldBy
<1> QED
  BY <1>2, <1>3, <1>4 DEF Gap

InLoanInt == \A t \in Tokens : InLoan(t) \in Int

LEMMA InLoanTyped == IInv => InLoanInt
BY InLoanIs DEF InLoanInt

LEMMA StepFree == IInv /\ IInv' /\ Reneging = {} /\ [Next]_vars => FreeKept
<1> SUFFICES ASSUME IInv, IInv', Reneging = {}, [Next]_vars PROVE FreeKept
  OBVIOUS
<1>1. CASE TakesLoan
  BY <1>1, takeLoanFree
<1>2. CASE PullCollateral
  BY <1>2, PullCollateralFree
<1>3. CASE PullReward
  BY <1>3, PullRewardFree
<1>4. CASE GapKept /\ pulling' = pulling
  <2>1. ASSUME NEW t \in Tokens  PROVE Free(t)' >= Free(t)
    <3>1. Gap(t)' >= Gap(t) /\ InLoan(t)' = InLoan(t)
      BY <1>4, InLoanStays DEF GapKept
    <3>2. Gap(t) \in Int /\ Gap(t)' \in Int /\ InLoan(t) \in Int
      BY GapInt, GapNext, InLoanIs DEF Gap
    <3> QED
      BY <3>1, <3>2 DEF Free
  <2> QED
    BY <2>1 DEF FreeKept
<1> QED
  BY <1>1, <1>2, <1>3, <1>4, StepGap, PullingStays

LEMMA InitSolvent == Init => \A t \in Tokens : Free(t) >= 0
<1> SUFFICES ASSUME Init, NEW t \in Tokens PROVE Free(t) >= 0
  OBVIOUS
<1>1. Ids(orders) = {} /\ Ids(positions) = {} /\ held[t] = 0 /\ InLoan(t) = 0
  BY DEF Init, Ids, InLoan
<1>2. \A f : DOMAIN f = {} => SumFunction(f) = 0
  BY SumNone DEF SumFunction
<1>3. Total(DueTo(t), orders) = 0 /\ Total(HeldBy(t), positions) = 0
  BY <1>1, <1>2 DEF Total
<1>4. Due(erc223deposit, t) = 0
  <2>1. PICK f : f = [u \in Users |-> erc223deposit[u][t]]
    OBVIOUS
  <2>2. f = [u \in Users |-> 0] /\ DOMAIN f = Users
    BY <2>1 DEF Init
  <2>3. SumFunctionOnSet(f, Users) = 0
    BY <2>2, SumZero, UsersAssumption
  <2> QED
    BY <2>1, <2>2, <2>3 DEF Due, SumFunction
<1> QED
  BY <1>1, <1>3, <1>4 DEF Free, Gap, Spare, Purse

\* Orders, positions, rewards and credited deposits share one balance per
\* token and never come to more than it and what a loan in progress has still
\* to pay in, in no payout and in no pull of untrusted tokens either: every
\* transfer, repayment, reward and sale of the module is charged exactly once,
\* to its own account, for any users, tokens, prices, slippage and partial
\* fills.  It takes lenders who do not use modifyOrder while a loan on their
\* order is being taken, which takeLoan leaves open by counting the position
\* only after the pulls.
THEOREM ModuleIsSolvent ==
  ASSUME Reneging = {}
  PROVE  Spec => []Solvent
<1> DEFINE Covered == \A t \in Tokens : Free(t) >= 0
<1>r. Reneging = {}
  OBVIOUS
<1>t. IInv' => InLoanInt'
  BY InLoanTyped, PTL
<1>1. IInv /\ IInv' /\ Covered /\ FreeKept => Covered'
  <2> SUFFICES ASSUME IInv, IInv', Covered, FreeKept, NEW t \in Tokens PROVE Free(t)' >= 0
    OBVIOUS
  <2>1. Free(t) \in Int
    BY GapInt, InLoanIs DEF Gap, Free
  <2>2. Free(t)' \in Int
    <3>1. InLoan(t)' \in Int
      BY <1>t DEF InLoanInt
    <3> QED
      BY <3>1, GapNext DEF Free
  <2> QED
    BY <2>1, <2>2 DEF FreeKept
<1>2. IInv => (Solvent <=> Covered)
  BY SolventIs
<1>3. Init => Covered
  BY InitSolvent
<1>4. IInv /\ IInv' /\ [Next]_vars => FreeKept
  BY <1>r, StepFree
<1> HIDE DEF Covered
<1>5. Spec => []Covered
  BY <1>1, <1>3, <1>4, Invariant, PTL DEF Spec
<1> QED
  BY <1>2, <1>5, Invariant, PTL

-----------------------------------------------------------------------------
(* What a position is worth.                                               *)

\* The margin comes on top of the debt, and the value is that of the
\* holdings, of a position as it is and as a step leaves it.
LEMMA DebtUnderThreshold ==
  ASSUME IInv, NEW p \in Ids(positions), NEW q, SamePlace(q, p),
         Sound(q.holdings, BaseOf(p)), Priced(q)
  PROVE  LET debt == calculateDebtAmount(q)
             threshold == _liquidationThreshold(OrderOf(p), debt)
         IN  /\ debt \in Nat /\ threshold \in Int /\ threshold >= debt
             /\ _positionValue(q) \in Int
             /\ _positionValue(q) = Weigh(InBase(BaseOf(p)), q.holdings)
<1>1. PICK debt, m : /\ debt = calculateDebtAmount(q)
                     /\ m = _maintenanceMarginBps(OrderOf(p))
  OBVIOUS
<1>2. m \in Nat
  BY <1>1, PositionFacts, ParameterAssumption DEF _maintenanceMarginBps, Order
<1>d. debt \in Nat
  <2>1. q \in Position /\ q.createdAt = positions[p].createdAt
    BY DEF SamePlace
  <2>2. now \in Nat /\ q.createdAt <= now
    BY <2>1 DEF IInv, Scalars, Places
  <2>3. q.createdAt \in Nat /\ q.initialBalance \in Nat /\ q.interest \in Nat
    BY <2>1 DEF Position
  <2> QED
    BY <1>1, <2>2, <2>3, DebtNat
<1>3. PICK k \in Nat : k = debt * m
  BY <1>2, <1>d
<1>4. PICK n \in Nat : n = debt * (BPS + m) + BPS - 1 /\ n = debt * 10000 + k + 9999
  <2>1. debt * (10000 + m) = debt * 10000 + debt * m
    BY <1>2, <1>d
  <2>2. debt * 10000 + k + 9999 \in Nat
    BY <1>d
  <2>3. debt * (BPS + m) + BPS - 1 = debt * 10000 + k + 9999
    BY <1>2, <1>3, <1>d, <2>1 DEF BPS
  <2> QED
    BY <2>2, <2>3
<1>5. n \div 10000 >= debt /\ n \div 10000 \in Int
  BY <1>d, <1>4
<1>6. /\ _liquidationThreshold(OrderOf(p), debt) >= debt
      /\ _liquidationThreshold(OrderOf(p), debt) \in Int
  BY <1>1, <1>4, <1>5 DEF _liquidationThreshold, BPS
<1>7. PICK h, base : h = q.holdings /\ base = BaseOf(p)
  OBVIOUS
<1>8. Sound(h, base) /\ price \in [Tokens -> Nat] /\ base \in Tokens /\ h \in Seq(Holding)
  BY <1>7, PositionFacts, SoundLen
<1>9. Quotable(h)
  BY <1>7 DEF Priced, Quotable
<1>10. _positionValue(q) = Weigh(InBase(base), h) /\ Weigh(InBase(base), h) \in Int
  BY <1>7, <1>8, <1>9, ValueIsSum, InBaseWeight, WeighInt
<1> QED
  BY <1>1, <1>6, <1>7, <1>10, <1>d

\* Below the debt is below the debt and its margin.
LEMMA UnderIsSubject ==
  ASSUME IInv, NEW p \in Ids(positions), NEW q, SamePlace(q, p),
         Sound(q.holdings, BaseOf(p)), Priced(q), UnderWater(q)
  PROVE  subjectToLiquidation(q)
<1>1. PICK v, debt, l : /\ v = _positionValue(q) /\ debt = calculateDebtAmount(q)
                        /\ l = _liquidationThreshold(OrderOf(p), debt)
  OBVIOUS
<1>2. v \in Int /\ debt \in Nat /\ l \in Int /\ l >= debt
  BY <1>1, DebtUnderThreshold
<1>3. v < debt
  BY <1>1 DEF UnderWater
<1>4. v < l
  BY <1>2, <1>3
<1>5. OrderOf(p) = orders[q.orderId]
  BY DEF SamePlace, OrderOf
<1> QED
  BY <1>1, <1>4, <1>5 DEF subjectToLiquidation

\* A position is in its own place.
LEMMA InPlace ==
  ASSUME IInv, NEW p \in Ids(positions)
  PROVE  SamePlace(positions[p], p) /\ Sound(positions[p].holdings, BaseOf(p))
BY PositionFacts DEF SamePlace

\* A larger holding does not count for less.
LEMMA LargerWeighs ==
  ASSUME price \in [Tokens -> Nat], NEW base \in Tokens, NEW t \in Tokens,
         NEW x \in Nat, NEW y \in Nat
  PROVE  InBase(base)[Slot(t, x + y)] >= InBase(base)[Slot(t, x)]
<1>1. x + y \in Nat
  OBVIOUS
<1>2. CASE t = base
  <2>1. InBase(base)[Slot(t, x + y)] = x + y /\ InBase(base)[Slot(t, x)] = x
    BY <1>1, <1>2, InBaseWeight
  <2> QED
    BY <2>1
<1>3. CASE t # base /\ price[base] = 0
  <2>1. InBase(base)[Slot(t, x + y)] = 0 /\ InBase(base)[Slot(t, x)] = 0
    BY <1>1, <1>3, InBaseWeight
  <2> QED
    BY <2>1
<1>4. CASE t # base /\ price[base] # 0
  <2>1. PICK a, b, c : /\ a = Quote(base, t, x) /\ b = Quote(base, t, y)
                       /\ c = Quote(base, t, x + y)
    OBVIOUS
  <2>2. a \in Nat /\ b \in Nat /\ c \in Nat
    BY <1>1, <1>4, <2>1, QuoteNat
  <2>3. a + b <= c
    BY <1>4, <2>1, QuoteAdds
  <2>4. InBase(base)[Slot(t, x + y)] = c /\ InBase(base)[Slot(t, x)] = a
    BY <1>1, <1>4, <2>1, InBaseWeight
  <2> QED
    BY <2>2, <2>3, <2>4
<1> QED
  BY <1>2, <1>3, <1>4

\* What is added to holdings does not lower what they come to.
LEMMA AddWeighs ==
  ASSUME price \in [Tokens -> Nat], NEW base \in Tokens, NEW h \in Seq(Holding), Distinct(h),
         NEW asset \in Tokens, NEW amount \in Nat, NEW g, g = addAsset(h, asset, amount)
  PROVE  Weigh(InBase(base), g) >= Weigh(InBase(base), h)
<1>W. PICK W : W = InBase(base)
  OBVIOUS
<1>1. W \in [Holding -> Int] /\ W[Slot(asset, 0)] = 0 /\ Weigh(W, h) \in Int
  BY <1>W, InBaseWeight, WeighInt
<1>2. CASE \E k \in Ids(h) : h[k].asset = asset
  <2>1. PICK i \in Ids(h) : h[i].asset = asset
    BY <1>2
  <2>2. PICK b \in Nat : b = h[i].bal
    BY HoldingParts
  <2>3. h[i] = Slot(asset, b) /\ h[i] \in Holding
    BY <2>1, <2>2, HoldingParts, HoldingIsSlot
  <2>g. g = addAsset(h, h[i].asset, amount)
    BY <2>1
  <2>4. Weigh(W, g) = Weigh(W, h) - W[h[i]] + W[Slot(h[i].asset, h[i].bal + amount)]
    <3>1. /\ W \in [Holding -> Int] /\ h \in Seq(Holding) /\ Distinct(h) /\ i \in Ids(h)
          /\ amount \in Nat
      BY <1>1, <2>1
    <3> QED
      BY <2>g, <3>1, AddTopsUpWeight, Zenon
  <2>5. PICK m, n, k : m = W[Slot(asset, b)] /\ n = W[Slot(asset, b + amount)] /\ k = Weigh(W, h)
    OBVIOUS
  <2>6. n >= m
    BY <1>W, <2>5, LargerWeighs
  <2>7. m \in Int /\ n \in Int /\ k \in Int
    <3>1. PICK c \in Nat : c = b + amount
      BY <2>2
    <3>2. Slot(asset, b) \in Holding /\ Slot(asset, c) \in Holding
      BY <2>2, <3>1, SlotIsHolding
    <3> QED
      BY <1>1, <2>5, <3>1, <3>2
  <2>8. Weigh(W, g) = k - m + n
    BY <2>1, <2>2, <2>3, <2>4, <2>5
  <2> QED
    BY <1>W, <2>5, <2>6, <2>7, <2>8
<1>3. CASE ~ \E k \in Ids(h) : h[k].asset = asset
  <2>1. Weigh(W, g) = Weigh(W, h) + W[Slot(asset, amount)]
    BY <1>1, <1>3, AddAppendsWeight
  <2>2. W[Slot(asset, 0 + amount)] >= W[Slot(asset, 0)]
    BY <1>W, LargerWeighs
  <2>3. W[Slot(asset, amount)] >= 0 /\ W[Slot(asset, amount)] \in Int
    BY <1>1, <2>2, SlotIsHolding
  <2> QED
    BY <1>W, <1>1, <2>1, <2>3
<1> QED
  BY <1>2, <1>3

\* Holdings that were quoted with an asset added have a quote without it.
LEMMA AddQuotable ==
  ASSUME NEW h \in Seq(Holding), Distinct(h), 1 \in Ids(h), NEW asset \in Tokens,
         NEW amount \in Nat, NEW g, g = addAsset(h, asset, amount), Quotable(g)
  PROVE  Quotable(h)
<1>0. Len(h) \in Nat /\ \A i \in 2 .. Len(h) : i \in Ids(h)
  BY DEF Ids
<1>1. CASE \E k \in Ids(h) : h[k].asset = asset
  <2>1. PICK i \in Ids(h) : h[i].asset = asset
    BY <1>1
  <2>2. SlotSet(h, g, i, h[i].bal + amount)
    BY <2>1, AddTopsUp
  <2> QED
    BY <1>0, <2>2 DEF SlotSet, Quotable
<1>2. CASE ~ \E k \in Ids(h) : h[k].asset = asset
  <2>1. SlotAdded(h, g, asset, amount)
    BY <1>2, AddAppends
  <2>2. \A i \in 2 .. Len(h) : i \in 2 .. Len(g)
    BY <1>0, <2>1 DEF SlotAdded
  <2> QED
    BY <1>0, <2>1, <2>2 DEF SlotAdded, Quotable
<1> QED
  BY <1>1, <1>2

-----------------------------------------------------------------------------
(* What a step may do to a position: nothing, or one of six things.        *)

\* A freeze of an earlier second that has not lapsed, and a liquidatable
\* position under it.
Noticed(p) == _requireLiquidatable(p) /\ SaleReady(positions[p])

\* Only the lender or its keeper while the loss is theirs to realize.
MayRealize(p, who) ==
    InLenderWindow(MarkUnderwater(positions[p])) => _isLossLiquidator(OrderOf(p), who)

Deposits(p, q) ==
    /\ \E asset \in Tokens, amount \in Nat :
         q.holdings = addAsset(positions[p].holdings, asset, amount)
    /\ Sound(q.holdings, BaseOf(p)) /\ SamePlace(q, p)
    /\ calculateDebtAmount(q) = calculateDebtAmount(positions[p])
    /\ q.underwaterSince \in {0, positions[p].underwaterSince}
    /\ q.underwaterSince = 0 <=> positions[p].underwaterSince = 0 \/ ~UnderWater(q)
    /\ q.underwaterSince # 0 => Priced(q)

Trades(p, q) ==
    /\ Sound(q.holdings, BaseOf(p)) /\ SamePlace(q, p)
    /\ Priced(q) /\ ~subjectToLiquidation(q) /\ q.underwaterSince = 0

SellsStep(p, q) ==
    /\ Noticed(p) /\ MayRealize(p, q.liquidator)
    /\ \E i : SellsSlot(p, q, i)
    /\ q.underwaterSince = MarkUnderwater(positions[p]).underwaterSince

Marks(p, q) ==
    /\ Remarked(q, positions[p])
    /\ q.underwaterSince = MarkUnderwater(positions[p]).underwaterSince

SellsOut(p, q, w) ==
    /\ Noticed(p) /\ MayRealize(p, caller')
    /\ w \in Sold(MarkUnderwater(positions[p]), TRUE)
    /\ q.holdings = Charged(p, w)
    /\ loss = <<>> /\ Loses(p, w)

ClosesCovered(p, w) ==
    /\ Priced(positions[p]) /\ ~subjectToLiquidation(positions[p])
    /\ w.h[1].bal >= calculateDebtAmount(positions[p])
    /\ loss = <<>> /\ loss' = <<>>

Fate(p, q) ==
    \/ q = positions[p]
    \/ ~positions[p].open /\ ~q.open
    \/ /\ positions[p].open /\ q.open
       /\ Deposits(p, q) \/ Trades(p, q) \/ SellsStep(p, q) \/ Marks(p, q)
    \/ \E x, w : Settles(p, q, x, w) /\ (SellsOut(p, q, w) \/ ClosesCovered(p, w))

\* A step that rewrites one position has the fate of that one alone.
LEMMA OneRewritten ==
  ASSUME IInv, NEW r \in Ids(positions), NEW q, positions' = [positions EXCEPT ![r] = q],
         Fate(r, q), NEW p \in Ids(positions)
  PROVE  Fate(p, positions'[p])
<1>1. positions \in Seq(Position) /\ p \in 1 .. Len(positions) /\ r \in 1 .. Len(positions)
  BY DEF IInv, Places, Ids
<1>2. CASE p = r
  <2>1. positions'[p] = q
    BY <1>1, <1>2
  <2> QED
    BY <1>2, <2>1
<1>3. CASE p # r
  <2>1. positions'[p] = positions[p]
    BY <1>1, <1>3
  <2> QED
    BY <2>1 DEF Fate
<1> QED
  BY <1>2, <1>3

LEMMA StaysSo ==
  ASSUME NEW p, positions'[p] = positions[p]
  PROVE  Fate(p, positions'[p])
BY DEF Fate

LEMMA ClosedStaysClosed ==
  ASSUME NEW p, NEW q, Rewrites(p, q), ~positions[p].open
  PROVE  Fate(p, q) /\ positions' = [positions EXCEPT ![p] = q]
BY DEF Fate, Rewrites

LEMMA PositionStepFate ==
  ASSUME IInv, NEW who \in Users, PositionStep(who), NEW p \in Ids(positions)
  PROVE  Fate(p, positions'[p])
<1>0. /\ TopUps \subseteq Nat /\ SwapAmounts \subseteq Nat /\ Slips \subseteq Int /\ Shorts \subseteq Nat
  BY ParameterAssumption
<1>1. PICK r \in Ids(positions) :
      \/ \E asset \in Tokens, amount \in TopUps : positionDeposit(who, r, asset, amount)
      \/ \E i \in Ids(positions[r].holdings) :
           \/ \E amount \in SwapAmounts, slip \in Slips, short \in Shorts :
                \/ \E asset2 \in Tokens :
                     marginSwap(who, r, i, amount, asset2, slip, short)
                \/ liquidateStep(who, r, i, amount, slip, short)
           \/ positionWithdraw(who, r, i)
      \/ liquidate(who, r)
      \/ \E autoWithdraw \in BOOLEAN : positionClose(who, r, autoWithdraw)
  BY DEF PositionStep
<1>2. CASE \E asset \in Tokens, amount \in TopUps : positionDeposit(who, r, asset, amount)
  <2>1. PICK asset \in Tokens, amount \in Nat : positionDeposit(who, r, asset, amount)
    BY <1>0, <1>2
  <2>2. PICK q : /\ Rewrites(r, q) /\ positions[r].open
                 /\ q.holdings = addAsset(positions[r].holdings, asset, amount)
                 /\ q.underwaterSince \in {0, positions[r].underwaterSince}
                 /\ q.underwaterSince = 0 <=> positions[r].underwaterSince = 0 \/ ~UnderWater(q)
                 /\ q.underwaterSince # 0 => Priced(q)
                 /\ calculateDebtAmount(q) = calculateDebtAmount(positions[r])
                 /\ Sound(q.holdings, BaseOf(r))
    BY <2>1, DepositRewrites
  <2>3. Deposits(r, q)
    BY <2>2 DEF Deposits, Rewrites
  <2>4. Fate(r, q) /\ positions' = [positions EXCEPT ![r] = q]
    BY <2>2, <2>3 DEF Fate, Rewrites
  <2> QED
    BY <2>4, OneRewritten
<1>3. CASE \E i \in Ids(positions[r].holdings), amount \in SwapAmounts, slip \in Slips,
              short \in Shorts, asset2 \in Tokens :
                marginSwap(who, r, i, amount, asset2, slip, short)
  <2>1. PICK i \in Ids(positions[r].holdings), amount \in Nat, slip \in Int, short \in Nat,
              asset2 \in Tokens : marginSwap(who, r, i, amount, asset2, slip, short)
    BY <1>0, <1>3
  <2>2. PICK q : /\ Rewrites(r, q) /\ positions[r].open /\ q.underwaterSince = 0
                 /\ q.open /\ Priced(q) /\ ~subjectToLiquidation(q)
    BY <2>1, marginSwapRewrites
  <2>3. Trades(r, q)
    BY <2>2 DEF Trades, Rewrites, Kept, BaseOf
  <2>4. Fate(r, q) /\ positions' = [positions EXCEPT ![r] = q]
    BY <2>2, <2>3 DEF Fate, Rewrites
  <2> QED
    BY <2>4, OneRewritten
<1>4. CASE \E i \in Ids(positions[r].holdings), amount \in SwapAmounts, slip \in Slips,
              short \in Shorts : liquidateStep(who, r, i, amount, slip, short)
  <2>1. PICK i \in Ids(positions[r].holdings), amount \in Nat, slip \in Int, short \in Nat :
              liquidateStep(who, r, i, amount, slip, short)
    BY <1>0, <1>4
  <2>2. PICK q : /\ Rewrites(r, q) /\ positions[r].open /\ q.open /\ SellsSlot(r, q, i)
                 /\ q.underwaterSince = MarkUnderwater(positions[r]).underwaterSince
                 /\ \/ q.liquidator = who /\ _isLossLiquidator(OrderOf(r), who)
                    \/ q.liquidator = who /\ ~InLenderWindow(MarkUnderwater(positions[r]))
                 /\ _requireLiquidatable(r) /\ SaleReady(positions[r])
    BY <2>1, liquidateStepRewrites
  <2>3. SellsStep(r, q)
    BY <2>2 DEF SellsStep, Noticed, MayRealize
  <2>4. Fate(r, q) /\ positions' = [positions EXCEPT ![r] = q]
    BY <2>2, <2>3 DEF Fate, Rewrites
  <2> QED
    BY <2>4, OneRewritten
<1>5. CASE \E i \in Ids(positions[r].holdings) : positionWithdraw(who, r, i)
  <2>1. PICK i \in Ids(positions[r].holdings) : ~positions[r].open /\ PayHolding(r, i)
    BY <1>5 DEF positionWithdraw
  <2>2. PICK q : Rewrites(r, q)
    BY <2>1, PayRewrites DEF PaysOut
  <2> QED
    BY <2>1, <2>2, ClosedStaysClosed, OneRewritten
<1>6. CASE Freeze(who, r)
  <2>1. PICK q : /\ Rewrites(r, q) /\ positions[r].open /\ Remarked(q, positions[r])
                 /\ q.underwaterSince = MarkUnderwater(positions[r]).underwaterSince
    BY <1>6, FreezeRewrites
  <2>2. Fate(r, q) /\ positions' = [positions EXCEPT ![r] = q]
    BY <2>1 DEF Fate, Marks, Rewrites
  <2> QED
    BY <2>2, OneRewritten
<1>7. CASE Liquidate(who, r)
  <2>1. PICK q, x, w : /\ w \in Sold(MarkUnderwater(positions[r]), TRUE)
                       /\ _requireLiquidatable(r) /\ SaleReady(positions[r])
                       /\ InLenderWindow(MarkUnderwater(positions[r])) =>
                            _isLossLiquidator(OrderOf(r), who)
                       /\ Settles(r, q, x, w) /\ q.holdings = Charged(r, w) /\ caller' = who
                       /\ ~_entered /\ Loses(r, w)
    BY <1>7, LiquidateSettles
  <2>2. SellsOut(r, q, w)
    BY <2>1, Idle DEF SellsOut, Noticed, MayRealize
  <2>3. Fate(r, q) /\ positions' = [positions EXCEPT ![r] = q]
    BY <2>1, <2>2 DEF Fate, Settles
  <2> QED
    BY <2>3, OneRewritten
<1>8. CASE \E autoWithdraw \in BOOLEAN : positionClose(who, r, autoWithdraw)
  <2>1. PICK q, x, w : /\ w.h[1].bal >= calculateDebtAmount(positions[r])
                       /\ Priced(positions[r]) /\ ~subjectToLiquidation(positions[r])
                       /\ Settles(r, q, x, w) /\ ~_entered /\ loss' = <<>>
    BY <1>8, CloseSettles
  <2>2. ClosesCovered(r, w)
    BY <2>1, Idle DEF ClosesCovered
  <2>3. Fate(r, q) /\ positions' = [positions EXCEPT ![r] = q]
    BY <2>1, <2>2 DEF Fate, Settles
  <2> QED
    BY <2>3, OneRewritten
<1> QED
  BY <1>1, <1>2, <1>3, <1>4, <1>5, <1>6, <1>7, <1>8 DEF liquidate

LEMMA OrderStepFate ==
  ASSUME IInv, NEW who \in Users, OrderStep(who), NEW p \in Ids(positions)
  PROVE  Fate(p, positions'[p])
<1>0. /\ FundAmounts \subseteq Nat /\ LoanAmounts \subseteq Nat /\ CollateralAmounts \subseteq Nat
      /\ positions \in Seq(Position) /\ p \in 1 .. Len(positions)
  BY ParameterAssumption DEF IInv, Places, Ids
<1>1. CASE positions' = positions
  BY <1>1, StaysSo
<1>2. CASE \E o \in Ids(orders), amount \in LoanAmounts, asset \in Tokens,
              collateral \in CollateralAmounts : takeLoan(who, o, amount, asset, collateral)
  <2>1. PICK q : positions' = Append(positions, q) /\ q \in Position
    BY <1>0, <1>2, takeLoanOpens DEF Opens
  <2>2. positions'[p] = positions[p]
    BY <1>0, <2>1
  <2> QED
    BY <2>2, StaysSo
<1> QED
  BY <1>1, <1>2 DEF OrderStep, createOrder, SetOrder, orderSetCollaterals,
                    orderSetLenderProtection, setOrderStatus, modifyOrder, orderDepositEth,
                    orderDepositWETH9, orderDepositToken, Fund, orderWithdraw

LEMMA StepFate ==
  ASSUME IInv, [Next]_vars, NEW p \in Ids(positions)
  PROVE  Fate(p, positions'[p])
<1>1. CASE \E who \in Users : OrderStep(who)
  BY <1>1, OrderStepFate
<1>2. CASE \E who \in Users : PositionStep(who)
  BY <1>2, PositionStepFate
<1>3. CASE \E r \in Ids(positions) : unfreeze(r)
  <2>1. PICK r \in Ids(positions) : unfreeze(r)
    BY <1>3
  <2>2. PICK q : /\ Rewrites(r, q) /\ positions[r].open /\ Remarked(q, positions[r])
                 /\ q.underwaterSince = 0
                 /\ Priced(positions[r]) /\ ~subjectToLiquidation(positions[r])
    BY <2>1, unfreezeRewrites
  <2>3. ~UnderWater(positions[r])
    BY <2>2, InPlace, UnderIsSubject
  <2>4. MarkUnderwater(positions[r]).underwaterSince = 0
    BY <2>3, PositionFacts, MarkRemarks
  <2>5. Fate(r, q) /\ positions' = [positions EXCEPT ![r] = q]
    BY <2>2, <2>4 DEF Fate, Marks, Rewrites
  <2> QED
    BY <2>5, OneRewritten
<1>4. CASE Continue
  <2>1. PICK r, i : /\ r \in Ids(positions) /\ i \in Ids(positions[r].holdings)
                    /\ ~positions[r].open /\ PayHolding(r, i)
    BY <1>4, ContinuePays
  <2>2. PICK q : Rewrites(r, q)
    BY <2>1, PayRewrites DEF PaysOut
  <2> QED
    BY <2>1, <2>2, ClosedStaysClosed, OneRewritten
<1>5. CASE positions' = positions
  BY <1>5, StaysSo
<1>6. \/ \E who \in Users : OrderStep(who) \/ PositionStep(who)
      \/ \E r \in Ids(positions) : unfreeze(r)
      \/ Continue
      \/ positions' = positions
  <2>1. PullCollateral => positions' = positions
    BY DEF PullCollateral
  <2>2. PullReward => positions' = positions
    BY DEF PullReward
  <2>3. Return => positions' = positions
    BY DEF Return
  <2>4. Environment => positions' = positions
    BY DEF Environment, addTokenlist, PriceMoves, AutoListing, Tick
  <2>5. ASSUME NEW who \in Users, NEW token, NEW amount,
               tokenReceived(who, token, amount) \/ withdraw223(who, token)
        PROVE  positions' = positions
    BY <2>5 DEF tokenReceived, withdraw223
  <2>6. UNCHANGED vars => positions' = positions
    BY DEF vars
  <2> QED
    BY <2>1, <2>2, <2>3, <2>4, <2>5, <2>6 DEF Next
<1> QED
  BY <1>1, <1>2, <1>3, <1>4, <1>5, <1>6

-----------------------------------------------------------------------------
(* What follows of a settlement.                                           *)

LEMMA SettlesEntries ==
  ASSUME IInv, NEW p \in Ids(positions), NEW q, NEW x, NEW w, Settles(p, q, x, w)
  PROVE  /\ orders'[positions[p].orderId] = x /\ positions'[p] = q
         /\ x.balance - OrderOf(p).balance = Repaid(w, calculateDebtAmount(positions[p]))
         /\ \A c \in Ids(orders) : orders'[c].shortfall = orders[c].shortfall
<1>1. /\ positions \in Seq(Position) /\ p \in 1 .. Len(positions)
      /\ orders \in Seq(Order) /\ positions[p].orderId \in 1 .. Len(orders)
      /\ OrderOf(p) = orders[positions[p].orderId] /\ OrderOf(p) \in Order
  BY PositionFacts DEF IInv, Places, Ids
<1>2. orders'[positions[p].orderId] = x /\ positions'[p] = q
  BY <1>1 DEF Settles
<1>3. PICK b \in Nat : b = OrderOf(p).balance
  BY <1>1 DEF Order
<1>4. PICK r \in Nat : r = Repaid(w, calculateDebtAmount(positions[p]))
  BY DEF Settles
<1>5. x.balance = b + r /\ x.shortfall = OrderOf(p).shortfall
  BY <1>3, <1>4 DEF Settles
<1>6. ASSUME NEW c \in Ids(orders)  PROVE orders'[c].shortfall = orders[c].shortfall
  <2>1. CASE c = positions[p].orderId
    BY <1>1, <1>2, <1>5, <2>1
  <2>2. CASE c # positions[p].orderId
    <3>1. orders'[c] = orders[c]
      BY <1>1, <2>2 DEF Settles, Ids
    <3> QED
      BY <3>1
  <2> QED
    BY <2>1, <2>2
<1> QED
  BY <1>2, <1>3, <1>4, <1>5, <1>6

\* An open position that a step closes was settled.
LEMMA ClosedBySettling ==
  ASSUME IInv, [Next]_vars, NEW p \in Ids(positions), positions[p].open, ~positions'[p].open
  PROVE  \E x, w : /\ Settles(p, positions'[p], x, w)
                   /\ SellsOut(p, positions'[p], w) \/ ClosesCovered(p, w)
<1>1. PICK q : q = positions'[p]
  OBVIOUS
<1>2. Fate(p, q)
  BY <1>1, StepFate
<1> QED
  BY <1>1, <1>2 DEF Fate

\* What the order gets, and what it loses, by the step that closes p.
LEMMA LostBySettling ==
  ASSUME IInv, [Next]_vars, NEW p \in Ids(positions), NEW o \in Ids(orders), Closes(p, o)
  PROVE  \E w : LET debt == calculateDebtAmount(positions[p])
                IN  /\ SellsOut(p, positions'[p], w) \/ ClosesCovered(p, w)
                    /\ debt \in Nat /\ w.h[1].bal \in Nat
                    /\ orders'[o].balance - orders[o].balance = Repaid(w, debt)
                    /\ Lost(o) \in Nat /\ Lost(o)' = Lost(o) + Shortfall(w, debt)
<1>1. PICK x, w : /\ Settles(p, positions'[p], x, w)
                  /\ SellsOut(p, positions'[p], w) \/ ClosesCovered(p, w)
  BY ClosedBySettling DEF Closes
<1>2. PICK debt : debt = calculateDebtAmount(positions[p])
  OBVIOUS
<1>3. debt \in Nat /\ w.h[1].bal \in Nat /\ Shortfall(w, debt) \in Nat
  BY <1>1, <1>2, PositionFacts DEF Settles
<1>4. o = positions[p].orderId /\ orders[o] = OrderOf(p)
  BY DEF Closes, OrderOf
<1>5. orders'[o].balance - orders[o].balance = Repaid(w, debt)
  BY <1>1, <1>2, <1>4, SettlesEntries
<1>6. PICK s \in Nat : s = orders[o].shortfall
  BY OrderParts DEF IInv
<1>7. orders'[o].shortfall = s
  BY <1>1, <1>6, SettlesEntries
<1>8. Lost(o) = s
  <2>1. loss = <<>>
    BY <1>1 DEF SellsOut, ClosesCovered
  <2>2. Lost(o) = s + 0
    BY <1>6, <2>1 DEF Lost
  <2> QED
    BY <2>2
<1>9. Lost(o)' = s + Shortfall(w, debt)
  <2>1. CASE SellsOut(p, positions'[p], w)
    <3>1. loss' = <<o, Shortfall(w, debt)>>
      BY <1>2, <1>4, <2>1 DEF SellsOut, Loses
    <3>2. loss' # <<>> /\ loss'[1] = o /\ loss'[2] = Shortfall(w, debt)
      BY <3>1
    <3> QED
      BY <1>7, <3>2 DEF Lost
  <2>2. CASE ClosesCovered(p, w)
    <3>1. loss' = <<>> /\ w.h[1].bal >= debt
      BY <1>2, <2>2 DEF ClosesCovered
    <3>2. Shortfall(w, debt) = 0
      BY <3>1 DEF Shortfall
    <3>3. Lost(o)' = s
      <4>1. Lost(o)' = s + 0
        BY <1>7, <3>1 DEF Lost
      <4> QED
        BY <4>1
    <3> QED
      BY <3>2, <3>3
  <2> QED
    BY <1>1, <2>1, <2>2
<1> QED
  BY <1>1, <1>2, <1>3, <1>5, <1>8, <1>9

LEMMA SettledOnce ==
  ASSUME IInv, [Next]_vars, NEW p \in Ids(positions), NEW o \in Ids(orders), Closes(p, o)
  PROVE  (orders'[o].balance - orders[o].balance) + (Lost(o)' - Lost(o))
           = calculateDebtAmount(positions[p])
<1>1. PICK debt : debt = calculateDebtAmount(positions[p])
  OBVIOUS
<1>2. PICK w : /\ debt \in Nat /\ w.h[1].bal \in Nat
               /\ orders'[o].balance - orders[o].balance = Repaid(w, debt)
               /\ Lost(o) \in Nat /\ Lost(o)' = Lost(o) + Shortfall(w, debt)
  BY <1>1, LostBySettling
<1>3. PICK r, s : r = Repaid(w, debt) /\ s = Shortfall(w, debt)
  OBVIOUS
<1>4. r \in Nat /\ s \in Nat /\ r + s = debt
  BY <1>2, <1>3, RepaidParts
<1>5. Lost(o)' - Lost(o) = s
  BY <1>2, <1>3, <1>4
<1> QED
  BY <1>1, <1>2, <1>3, <1>4, <1>5

\* Every other step leaves the losses, booked and to be booked, alone.
LossesKept ==
    loss' = loss /\ \A c \in Ids(orders) : orders'[c].shortfall = orders[c].shortfall

SettlesOne ==
    \E r \in Ids(positions) : \E q, x, w :
      Settles(r, q, x, w) /\ loss = <<>> /\ (loss' = <<>> \/ Loses(r, w))

LEMMA OneOrderSet ==
  ASSUME IInv, NEW o \in Ids(orders), NEW x, orders' = [orders EXCEPT ![o] = x],
         x.shortfall = orders[o].shortfall, loss' = loss
  PROVE  LossesKept
<1>1. orders \in Seq(Order) /\ o \in 1 .. Len(orders)
  BY DEF IInv, Ids
<1>2. \A c \in Ids(orders) : orders'[c] = IF c = o THEN x ELSE orders[c]
  BY <1>1 DEF Ids
<1> QED
  BY <1>2 DEF LossesKept

LEMMA OrderStepLosses ==
  ASSUME IInv, NEW who \in Users, OrderStep(who)
  PROVE  LossesKept
<1>o. orders \in Seq(Order) /\ \A o \in Ids(orders) : orders[o] \in Order
  BY OrderParts DEF IInv
<1>i. ~_entered => loss = <<>>
  BY Idle
<1>1. ASSUME NEW params, createOrder(who, params)  PROVE LossesKept
  <2>1. loss' = loss
    BY <1>1 DEF createOrder, callVars
  <2>2. PICK x : orders' = Append(orders, x)
    BY <1>1 DEF createOrder
  <2>3. \A c \in Ids(orders) : orders'[c] = orders[c]
    BY <1>o, <2>2 DEF Ids
  <2> QED
    BY <2>1, <2>3 DEF LossesKept
<1>2. ASSUME NEW o \in Ids(orders), NEW x, SetOrder(who, o, x), x.shortfall = orders[o].shortfall
      PROVE  LossesKept
  <2>1. orders' = [orders EXCEPT ![o] = x] /\ loss' = loss
    BY <1>2 DEF SetOrder, callVars
  <2> QED
    BY <1>2, <2>1, OneOrderSet
<1>3. ASSUME NEW o \in Ids(orders), NEW assets, orderSetCollaterals(who, o, assets)
      PROVE  LossesKept
  <2>1. PICK x : x = [orders[o] EXCEPT !.terms.collateralAssets = assets]
    OBVIOUS
  <2>2. SetOrder(who, o, x) /\ x.shortfall = orders[o].shortfall
    BY <1>o, <1>3, <2>1 DEF orderSetCollaterals, Order
  <2> QED
    BY <1>2, <2>2
<1>4. ASSUME NEW o \in Ids(orders), NEW bps, NEW keeper,
             orderSetLenderProtection(who, o, bps, keeper)
      PROVE  LossesKept
  <2>1. PICK x : x = [orders[o] EXCEPT !.marginBps = bps, !.keeper = keeper]
    OBVIOUS
  <2>2. SetOrder(who, o, x) /\ x.shortfall = orders[o].shortfall
    BY <1>o, <1>4, <2>1 DEF orderSetLenderProtection, Order
  <2> QED
    BY <1>2, <2>2
<1>5. ASSUME NEW o \in Ids(orders), NEW status, setOrderStatus(who, o, status)
      PROVE  LossesKept
  <2>1. PICK x : x = [orders[o] EXCEPT !.alive = status]
    OBVIOUS
  <2>2. SetOrder(who, o, x) /\ x.shortfall = orders[o].shortfall
    BY <1>o, <1>5, <2>1 DEF setOrderStatus, Order
  <2> QED
    BY <1>2, <2>2
<1>6. ASSUME NEW o \in Ids(orders), NEW params, modifyOrder(who, o, params)
      PROVE  LossesKept
  <2>1. PICK terms : terms = [params EXCEPT !.baseAsset = orders[o].terms.baseAsset,
                                            !.collateralAssets = orders[o].terms.collateralAssets]
    OBVIOUS
  <2>2. PICK x : x = [orders[o] EXCEPT !.terms = terms]
    OBVIOUS
  <2>3. SetOrder(who, o, x)
    BY <1>6, <2>1, <2>2 DEF modifyOrder
  <2>4. x.shortfall = orders[o].shortfall
    BY <1>o, <2>2 DEF Order
  <2> QED
    BY <1>2, <2>3, <2>4
<1>7. ASSUME NEW o \in Ids(orders), NEW n,
             \/ orders' = [orders EXCEPT ![o].balance = @ + n]
             \/ orders' = [orders EXCEPT ![o].balance = @ - n], loss' = loss
      PROVE  LossesKept
  <2>1. PICK m : orders' = [orders EXCEPT ![o].balance = m]
    BY <1>7
  <2>2. PICK x : x = [orders[o] EXCEPT !.balance = m]
    OBVIOUS
  <2>3. orders' = [orders EXCEPT ![o] = x]
    BY <2>1, <2>2
  <2>4. x.shortfall = orders[o].shortfall
    BY <1>o, <2>2 DEF Order
  <2> QED
    BY <1>7, <2>3, <2>4, OneOrderSet
<1>8. ASSUME NEW o \in Ids(orders), NEW amount, NEW purse, Fund(who, o, amount, purse)
      PROVE  LossesKept
  BY <1>7, <1>8 DEF Fund, Guarded, callVars
<1>9. ASSUME NEW o \in Ids(orders), NEW amount, orderWithdraw(who, o, amount)
      PROVE  LossesKept
  <2>1. orders' = [orders EXCEPT ![o].balance = @ - amount] /\ loss' = loss
    BY <1>i, <1>9 DEF orderWithdraw, EnterToPay, Enter
  <2> QED
    BY <1>7, <2>1
<1>10. ASSUME NEW o \in Ids(orders), NEW amount, NEW asset, NEW collateral,
              takeLoan(who, o, amount, asset, collateral)
       PROVE  LossesKept
  <2>1. orders' = [orders EXCEPT ![o].balance = @ - amount] /\ loss' = loss
    BY <1>10 DEF takeLoan
  <2> QED
    BY <1>7, <2>1
<1>11. CASE \E params \in OrderChoices : createOrder(who, params)
  BY <1>1, <1>11
<1>12. CASE \E o \in Ids(orders) :
              \/ \E assets \in CollateralLists : orderSetCollaterals(who, o, assets)
              \/ \E bps \in MarginChoices, keeper \in Users \cup {NoOne} :
                   orderSetLenderProtection(who, o, bps, keeper)
              \/ \E status \in StatusChoices : setOrderStatus(who, o, status)
              \/ \E params \in OrderChoices : modifyOrder(who, o, params)
  BY <1>3, <1>4, <1>5, <1>6, <1>12
<1>13. CASE \E o \in Ids(orders), amount \in FundAmounts :
              \/ orderDepositEth(who, o, amount)
              \/ orderDepositWETH9(who, o, amount)
              \/ orderDepositToken(who, o, amount)
              \/ orderWithdraw(who, o, amount)
  BY <1>8, <1>9, <1>13 DEF orderDepositEth, orderDepositWETH9, orderDepositToken
<1>14. CASE \E o \in Ids(orders), amount \in LoanAmounts, asset \in Tokens,
               collateral \in CollateralAmounts : takeLoan(who, o, amount, asset, collateral)
  BY <1>10, <1>14
<1> QED
  BY <1>11, <1>12, <1>13, <1>14 DEF OrderStep

LEMMA PositionStepLosses ==
  ASSUME IInv, NEW who \in Users, PositionStep(who)
  PROVE  LossesKept \/ SettlesOne
<1>i. ~_entered => loss = <<>>
  BY Idle
<1>k. ASSUME orders' = orders, loss' = loss  PROVE LossesKept
  BY <1>k DEF LossesKept
<1>1. ASSUME NEW p, NEW asset, NEW amount, positionDeposit(who, p, asset, amount)
      PROVE  LossesKept
  <2>1. orders' = orders /\ loss' = loss
    BY <1>1 DEF positionDeposit, Guarded, callVars
  <2> QED
    BY <1>k, <2>1
<1>2. ASSUME NEW p, NEW i, NEW amount, NEW asset2, NEW slip, NEW short,
             marginSwap(who, p, i, amount, asset2, slip, short)
      PROVE  LossesKept
  <2>1. orders' = orders /\ Guarded
    BY <1>2 DEF marginSwap
  <2> QED
    BY <1>k, <2>1 DEF Guarded, callVars
<1>3. ASSUME NEW p, NEW i, NEW amount, NEW slip, NEW short,
             liquidateStep(who, p, i, amount, slip, short)
      PROVE  LossesKept
  <2>1. orders' = orders /\ Guarded
    BY <1>3 DEF liquidateStep
  <2> QED
    BY <1>k, <2>1 DEF Guarded, callVars
<1>4. ASSUME NEW p, NEW i, positionWithdraw(who, p, i)  PROVE LossesKept
  <2>1. orders' = orders /\ EnterToPay(who)
    BY <1>4 DEF positionWithdraw, PayHolding
  <2>2. loss' = loss
    BY <1>i, <2>1 DEF EnterToPay, Enter
  <2> QED
    BY <1>k, <2>1, <2>2
<1>5. ASSUME NEW p, Freeze(who, p)  PROVE LossesKept
  BY <1>k, <1>5 DEF Freeze, Guarded, callVars
<1>6. ASSUME NEW p \in Ids(positions), Liquidate(who, p)  PROVE SettlesOne
  <2>1. PICK q, x, w : Settles(p, q, x, w) /\ ~_entered /\ Loses(p, w)
    BY <1>6, LiquidateSettles
  <2> QED
    BY <1>i, <2>1 DEF SettlesOne
<1>7. ASSUME NEW p \in Ids(positions), NEW autoWithdraw \in BOOLEAN,
             positionClose(who, p, autoWithdraw)
      PROVE  SettlesOne
  <2>1. PICK q, x, w : Settles(p, q, x, w) /\ ~_entered /\ loss' = <<>>
    BY <1>7, CloseSettles
  <2> QED
    BY <1>i, <2>1 DEF SettlesOne
<1> QED
  BY <1>1, <1>2, <1>3, <1>4, <1>5, <1>6, <1>7 DEF PositionStep, liquidate

LEMMA StepLosses ==
  ASSUME IInv, [Next]_vars
  PROVE  LossesKept \/ SettlesOne \/ Return
<1>i. ~_entered => loss = <<>>
  BY Idle
<1>k. ASSUME orders' = orders, loss' = loss  PROVE LossesKept
  BY <1>k DEF LossesKept
<1>1. ASSUME NEW who \in Users, NEW token, NEW amount, tokenReceived(who, token, amount)
      PROVE  LossesKept
  BY <1>k, <1>1 DEF tokenReceived, callVars
<1>2. ASSUME NEW who \in Users, NEW token, withdraw223(who, token)  PROVE LossesKept
  BY <1>i, <1>k, <1>2 DEF withdraw223, EnterToPay, Enter
<1>3. ASSUME NEW p, unfreeze(p)  PROVE LossesKept
  BY <1>k, <1>3 DEF unfreeze, callVars
<1>4. CASE PullCollateral
  BY <1>k, <1>4 DEF PullCollateral
<1>5. CASE PullReward
  <2>1. PICK o, x : Counts(o, x)
    BY <1>5, PullRewardCounts
  <2>2. loss = <<>> /\ loss' = <<>>
    BY <1>5 DEF PullReward, Leave, IInv, CallOK, PullOK
  <2>3. PICK c \in Ids(orders) : c = positions[pulling.position].orderId
    BY <2>1 DEF Counts
  <2>4. orders[c] \in Order
    BY OrderParts DEF IInv
  <2>5. PICK y : y = [orders[c] EXCEPT !.positions = @ + 1]
    OBVIOUS
  <2>6. orders' = [orders EXCEPT ![c] = y] /\ y.shortfall = orders[c].shortfall
    BY <1>5, <2>3, <2>4, <2>5 DEF PullReward, Order
  <2> QED
    BY <2>2, <2>6, OneOrderSet
<1>6. CASE Continue
  <2>1. orders' = orders /\ loss' = loss
    BY <1>6 DEF Continue, PayHolding
  <2> QED
    BY <1>k, <2>1
<1>7. CASE Environment
  BY <1>k, <1>7 DEF Environment, addTokenlist, PriceMoves, AutoListing, Tick, callVars
<1>8. CASE UNCHANGED vars
  BY <1>k, <1>8 DEF vars, callVars
<1> QED
  BY <1>1, <1>2, <1>3, <1>4, <1>5, <1>6, <1>7, <1>8, OrderStepLosses, PositionStepLosses DEF Next

\* What Return books was lost already.
LEMMA ReturnLosesNothing ==
  ASSUME IInv, Return, NEW o \in Ids(orders)
  PROVE  Lost(o)' = Lost(o)
<1>1. loss' = <<>>
  BY DEF Return, Leave
<1>2. CASE loss = <<>>
  BY <1>1, <1>2 DEF Return, Lost
<1>3. CASE loss # <<>>
  <2>1. PICK c \in Ids(orders), n \in Nat : loss = <<c, n>>
    BY <1>3 DEF IInv, CallOK, LossOK
  <2>2. orders[c] \in Order /\ orders[c].shortfall \in Nat /\ orders[o].shortfall \in Nat
    BY OrderParts DEF IInv
  <2>3. PICK x : x = Loss(c, n)
    OBVIOUS
  <2>4. orders' = [orders EXCEPT ![c] = x]
    BY <1>3, <2>1, <2>3 DEF Return, Loss, IInv
  <2>5. x.shortfall = orders[c].shortfall + n
    BY <2>2, <2>3 DEF Loss, Order
  <2>6. orders'[o].shortfall = orders[o].shortfall + (IF c = o THEN n ELSE 0)
    <3>1. orders'[o] = IF c = o THEN x ELSE orders[o]
      BY <2>4 DEF IInv, Ids
    <3> QED
      BY <2>2, <2>5, <3>1
  <2>7. Lost(o) = orders[o].shortfall + (IF c = o THEN n ELSE 0)
    <3>1. loss[1] = c /\ loss[2] = n
      BY <2>1
    <3> QED
      BY <1>3, <3>1 DEF Lost
  <2>8. Lost(o)' = orders'[o].shortfall + 0
    BY <1>1 DEF Lost
  <2>9. PICK k \in Nat : k = orders'[o].shortfall
    BY <2>2, <2>6
  <2> QED
    BY <2>6, <2>7, <2>8, <2>9
<1> QED
  BY <1>2, <1>3

LEMMA LostBySettlingOnly ==
  ASSUME IInv, [Next]_vars, NEW o \in Ids(orders), Lost(o)' # Lost(o)
  PROVE  \E p \in Ids(positions) : Closes(p, o)
<1>1. ~Return
  BY ReturnLosesNothing
<1>2. ~LossesKept
  BY DEF LossesKept, Lost
<1>s. PICK r \in Ids(positions) :
        \E q, x, w : Settles(r, q, x, w) /\ loss = <<>> /\ (loss' = <<>> \/ Loses(r, w))
  <2>1. SettlesOne
    BY <1>1, <1>2, StepLosses
  <2> QED
    BY <2>1 DEF SettlesOne
<1>3. PICK q, x, w : Settles(r, q, x, w) /\ loss = <<>> /\ (loss' = <<>> \/ Loses(r, w))
  BY <1>s
<1>4. orders'[o].shortfall = orders[o].shortfall /\ positions'[r] = q
  BY <1>3, SettlesEntries
<1>5. CASE o = positions[r].orderId
  BY <1>3, <1>4, <1>5 DEF Closes, Settles
<1>6. CASE o # positions[r].orderId
  <2>1. loss' = <<>> \/ (loss' # <<>> /\ loss'[1] # o)
    BY <1>3, <1>6 DEF Loses
  <2>2. Lost(o)' = Lost(o)
    BY <1>3, <1>4, <2>1 DEF Lost
  <2> QED
    BY <2>2
<1> QED
  BY <1>5, <1>6

\* A closed position has paid its debt once: whatever it held and whatever
\* its sales brought, the order got the debt, or the rest of it is a loss of
\* the order, which is booked when the reward's receiver has returned,
\* whatever the receiver called in between; and nothing else loses an order
\* anything (_settle, _paybackBaseAsset, _liquidate).
THEOREM DebtIsSettledOnce == Spec => DebtSettledOnce
<1>1. IInv /\ [Next]_vars =>
        \A o \in Ids(orders), p \in Ids(positions) : Closes(p, o) =>
          (orders'[o].balance - orders[o].balance) + (Lost(o)' - Lost(o))
          = calculateDebtAmount(positions[p])
  BY SettledOnce
<1>2. IInv /\ [Next]_vars =>
        \A o \in Ids(orders) : Lost(o)' # Lost(o) => \E p \in Ids(positions) : Closes(p, o)
  BY LostBySettlingOnly
<1>3. IInv' => (loss' # <<>> => _entered')
  BY DEF IInv, CallOK, LossOK
<1>4. IInv /\ IInv' /\ [Next]_vars =>
        [/\ \A o \in Ids(orders), p \in Ids(positions) : Closes(p, o) =>
              (orders'[o].balance - orders[o].balance) + (Lost(o)' - Lost(o))
              = calculateDebtAmount(positions[p])
         /\ \A o \in Ids(orders) : Lost(o)' # Lost(o) => \E p \in Ids(positions) : Closes(p, o)
         /\ loss' # <<>> => _entered']_vars
  BY <1>1, <1>2, <1>3
<1> QED
  BY <1>4, Invariant, PTL DEF Spec, DebtSettledOnce

\* A loss comes of a liquidation only, and of one that did not cover the debt.
LEMMA LossWasSoldOut ==
  ASSUME IInv, [Next]_vars, NEW p \in Ids(positions), NEW o \in Ids(orders), Closes(p, o),
         Lost(o)' > Lost(o)
  PROVE  \E w : /\ SellsOut(p, positions'[p], w) /\ w.h[1].bal \in Nat
                /\ w.h[1].bal < calculateDebtAmount(positions[p])
<1>1. PICK debt : debt = calculateDebtAmount(positions[p])
  OBVIOUS
<1>2. PICK w : /\ SellsOut(p, positions'[p], w) \/ ClosesCovered(p, w)
               /\ debt \in Nat /\ w.h[1].bal \in Nat
               /\ Lost(o) \in Nat /\ Lost(o)' = Lost(o) + Shortfall(w, debt)
  BY <1>1, LostBySettling
<1>3. Shortfall(w, debt) \in Nat
  BY <1>2, RepaidParts
<1>4. Shortfall(w, debt) > 0
  BY <1>2, <1>3
<1>5. w.h[1].bal < debt
  BY <1>2, <1>4, RepaidParts
<1>6. ~ClosesCovered(p, w)
  BY <1>1, <1>2, <1>5 DEF ClosesCovered
<1> QED
  BY <1>1, <1>2, <1>5, <1>6

LEMMA LossUnderFloor ==
  ASSUME IInv, [Next]_vars, NEW p \in Ids(positions), NEW o \in Ids(orders), Closes(p, o),
         Lost(o)' > Lost(o)
  PROVE  positions[p].holdings[1].bal
           + SumFunction([i \in 2 .. Len(positions[p].holdings) |->
                            FloorOf(BaseOf(p), positions[p].holdings[i])])
           < calculateDebtAmount(positions[p])
<1>1. PICK w : /\ SellsOut(p, positions'[p], w) /\ w.h[1].bal \in Nat
               /\ w.h[1].bal < calculateDebtAmount(positions[p])
  BY LossWasSoldOut
<1>2. PICK pos : pos = MarkUnderwater(positions[p])
  OBVIOUS
<1>3. /\ positions[p] \in Position /\ Sound(positions[p].holdings, BaseOf(p))
      /\ now \in Nat /\ held \in [Tokens -> Int] /\ price \in [Tokens -> Nat]
      /\ calculateDebtAmount(positions[p]) \in Nat
  BY PositionFacts
<1>4. pos.holdings = positions[p].holdings /\ w \in Sold(pos, TRUE)
  BY <1>1, <1>2, <1>3, MarkRemarks DEF SellsOut, Remarked
<1>5. PICK s : s = SumFunction([i \in 2 .. Len(positions[p].holdings) |->
                                  FloorOf(BaseOf(p), positions[p].holdings[i])])
  OBVIOUS
<1>6. w.h[1].bal >= positions[p].holdings[1].bal + s
  <2>1. w.h[1].bal >= pos.holdings[1].bal
          + SumFunction([i \in 2 .. Len(pos.holdings) |-> FloorOf(BaseOf(p), pos.holdings[i])])
    BY <1>3, <1>4, SoldAboveFloor
  <2> QED
    BY <1>4, <1>5, <2>1
<1>7. s \in Int
  <2>1. PICK h, base : h = positions[p].holdings /\ base = BaseOf(p)
    OBVIOUS
  <2>2. /\ Sound(h, base) /\ h \in Seq(Holding) /\ base = h[1].asset /\ base \in Tokens
        /\ Len(h) \in Nat
    BY <1>3, <2>1, SoundLen, HoldingParts DEF Sound
  <2>3. \A i \in 2 .. Len(h) : Quoted(base, h[i].asset)
    BY <1>1, <2>1, <2>2 DEF SellsOut, Noticed, _requireLiquidatable, Priced
  <2>4. ASSUME NEW i \in 2 .. Len(h)  PROVE FloorOf(base, h[i]) \in Int
    <3>1. price[base] # 0 /\ i \in Ids(h)
      BY <2>2, <2>3 DEF Quoted, Ids
    <3>2. h[i] \in Holding
      BY <2>2, <3>1, HoldingParts
    <3> QED
      BY <1>3, <2>2, <3>1, <3>2, FloorInt
  <2>5. PICK F : F = [i \in 2 .. Len(h) |-> FloorOf(base, h[i])]
    OBVIOUS
  <2>6. F \in [2 .. Len(h) -> Int] /\ DOMAIN F = 2 .. Len(h)
    BY <2>4, <2>5
  <2>f. IsFiniteSet(2 .. Len(h))
    <3>1. 2 \in Int /\ Len(h) \in Int
      BY <2>2
    <3> QED
      BY <3>1, FS_Interval
  <2>7. SumFunctionOnSet(F, 2 .. Len(h)) \in Int
    BY <2>6, <2>f, SumInt
  <2> QED
    BY <1>5, <2>1, <2>5, <2>6, <2>7 DEF SumFunction
<1>8. positions[p].holdings[1].bal \in Nat
  <2>1. positions[p].holdings \in Seq(Holding) /\ 1 \in Ids(positions[p].holdings)
    BY <1>3, SoundLen DEF Sound
  <2> QED
    BY <2>1, HoldingParts
<1>9. PICK a, b, d : /\ a = w.h[1].bal /\ b = positions[p].holdings[1].bal
                     /\ d = calculateDebtAmount(positions[p])
  OBVIOUS
<1>10. a \in Nat /\ b \in Nat /\ d \in Nat /\ a < d /\ a >= b + s
  BY <1>1, <1>3, <1>6, <1>8, <1>9
<1>11. b + s < d
  BY <1>7, <1>10
<1> QED
  BY <1>5, <1>9, <1>11

\* A liquidation loses the lender something only if the debt was above what
\* the holdings are worth with every sale at FORCED_SWAP_MIN_OUT_BPS of the
\* oracle's quote, for any number of holdings, prices, slippage and fill.
THEOREM LossStaysWithinFloor == Spec => LossWithinFloor
<1>1. IInv /\ [Next]_vars =>
        [\A o \in Ids(orders), p \in Ids(positions) :
           LET h == positions[p].holdings
               floorOf(i) == (Quote(BaseOf(p), h[i].asset, h[i].bal)
                               * FORCED_SWAP_MIN_OUT_BPS) \div BPS
           IN  Closes(p, o) /\ Lost(o)' > Lost(o) =>
                 h[1].bal + SumFunction([i \in 2 .. Len(h) |-> floorOf(i)])
                   < calculateDebtAmount(positions[p])]_vars
  BY LossUnderFloor DEF FloorOf
<1> QED
  BY <1>1, Invariant, PTL DEF Spec, LossWithinFloor

-----------------------------------------------------------------------------
(* The mark of a position under water.                                     *)

\* What is deposited into a position above its debt leaves it above.
LEMMA DepositCovers ==
  ASSUME IInv, NEW p \in Ids(positions), NEW q, Deposits(p, q), Priced(q),
         ~UnderWater(positions[p])
  PROVE  ~UnderWater(q)
<1>1. PICK h, g, base : h = positions[p].holdings /\ g = q.holdings /\ base = BaseOf(p)
  OBVIOUS
<1>2. /\ h \in Seq(Holding) /\ Distinct(h) /\ 1 \in Ids(h) /\ base \in Tokens
      /\ price \in [Tokens -> Nat]
  BY <1>1, PositionFacts, SoundLen DEF Sound
<1>3. PICK asset \in Tokens, amount \in Nat : g = addAsset(h, asset, amount)
  BY <1>1 DEF Deposits
<1>4. Quotable(g)
  BY <1>1 DEF Priced, Quotable
<1>5. Quotable(h)
  BY <1>2, <1>3, <1>4, AddQuotable
<1>6. Priced(positions[p])
  BY <1>1, <1>5 DEF Priced, Quotable
<1>7. Weigh(InBase(base), g) >= Weigh(InBase(base), h)
  BY <1>2, <1>3, AddWeighs
<1>8. PICK v, u, debt : /\ v = _positionValue(positions[p]) /\ u = _positionValue(q)
                        /\ debt = calculateDebtAmount(positions[p])
  OBVIOUS
<1>9. v \in Int /\ debt \in Nat /\ v = Weigh(InBase(base), h)
  BY <1>1, <1>6, <1>8, InPlace, DebtUnderThreshold
<1>10. u \in Int /\ u = Weigh(InBase(base), g)
  BY <1>1, <1>8, DebtUnderThreshold DEF Deposits
<1>11. u >= v /\ ~(v < debt)
  BY <1>7, <1>8, <1>9, <1>10 DEF UnderWater
<1>12. calculateDebtAmount(q) = debt /\ ~(u < debt)
  BY <1>8, <1>9, <1>10, <1>11 DEF Deposits
<1> QED
  BY <1>8, <1>12 DEF UnderWater

\* A liquidation step leaves less of what it sells.
LEMMA StepSells ==
  ASSUME IInv, NEW p \in Ids(positions), NEW q, SellsStep(p, q)
  PROVE  \E t \in Tokens : Holds(q, t) < Holds(positions[p], t)
<1>1. PICK i, out, used : SellsSlot(p, q, i) /\ SwapLeaves(p, q, i, BaseOf(p), out, used)
  BY DEF SellsStep, SellsSlot
<1>2. PICK h, g, t : h = positions[p].holdings /\ g = q.holdings /\ t = h[i].asset
  OBVIOUS
<1>3. /\ h \in Seq(Holding) /\ i \in Ids(h) /\ t \in Tokens /\ t # BaseOf(p)
      /\ used \in Nat /\ used > 0
  BY <1>1, <1>2, PositionFacts, HoldingParts DEF SellsSlot, SwapLeaves
<1>4. SwapEffect(Stock(p), [h |-> g, held |-> held'], BaseOf(p), i, BaseOf(p), out, used,
                 OrderOf(p).terms.currencyLimit)
  BY <1>1, <1>2 DEF SwapLeaves
<1>5. g \in Seq(Holding)
  BY <1>4, SoundLen DEF SwapEffect
<1>6. Amount(g, t) = Amount(h, t) + (IF BaseOf(p) = t THEN out ELSE 0)
                                  - (IF h[i].asset = t THEN used ELSE 0)
  BY <1>2, <1>3, <1>4 DEF SwapEffect, Stock
<1>7. PICK a \in Int : a = Amount(h, t)
  BY <1>3, AmountInt
<1>8. Amount(g, t) = a + 0 - used
  BY <1>2, <1>3, <1>6, <1>7
<1>9. Amount(g, t) < a
  BY <1>3, <1>8
<1>10. Holds(q, t) = Amount(g, t) /\ Holds(positions[p], t) = a
  BY <1>2, <1>3, <1>5, <1>7, HoldsIsAmount
<1> QED
  BY <1>3, <1>9, <1>10

LEMMA MarkStaysFresh ==
  ASSUME IInv, [Next]_vars, NEW p \in Ids(positions), positions'[p] # positions[p],
         positions'[p].open
  PROVE  LET mark == positions[p].underwaterSince
             next == positions'[p].underwaterSince
         IN  /\ ~UnderWater(positions[p]) => next = 0
             /\ ~UnderWater(positions'[p]) /\ next # 0 =>
                  \E t \in Tokens : Holds(positions'[p], t) < Holds(positions[p], t)
             /\ next \in {0, now, mark}
             /\ mark # 0 /\ UnderWater(positions[p]) /\ UnderWater(positions'[p]) => next = mark
<1>1. PICK q, old : q = positions'[p] /\ old = positions[p]
  OBVIOUS
<1>2. Deposits(p, q) \/ Trades(p, q) \/ SellsStep(p, q) \/ Marks(p, q)
  BY <1>1, StepFate DEF Fate, Settles
<1>3. MarkUnderwater(old).underwaterSince =
        IF ~UnderWater(old) THEN 0 ELSE IF old.underwaterSince = 0 THEN now ELSE old.underwaterSince
  BY <1>1, PositionFacts, MarkRemarks
<1> SUFFICES /\ ~UnderWater(old) => q.underwaterSince = 0
             /\ ~UnderWater(q) /\ q.underwaterSince # 0 => \E t \in Tokens : Holds(q, t) < Holds(old, t)
             /\ q.underwaterSince \in {0, now, old.underwaterSince}
             /\ old.underwaterSince # 0 /\ UnderWater(old) /\ UnderWater(q) =>
                  q.underwaterSince = old.underwaterSince
  BY <1>1
<1>4. CASE Deposits(p, q)
  <2>1. ~UnderWater(old) /\ q.underwaterSince # 0 => ~UnderWater(q)
    BY <1>1, <1>4, DepositCovers DEF Deposits
  <2>2. /\ q.underwaterSince \in {0, old.underwaterSince}
        /\ q.underwaterSince = 0 <=> old.underwaterSince = 0 \/ ~UnderWater(q)
    BY <1>1, <1>4 DEF Deposits
  <2> QED
    BY <2>1, <2>2
<1>5. CASE Trades(p, q)
  <2>1. ~UnderWater(q) /\ q.underwaterSince = 0
    BY <1>5, UnderIsSubject DEF Trades
  <2> QED
    BY <2>1
<1>6. CASE SellsStep(p, q)
  <2>1. q.underwaterSince = MarkUnderwater(old).underwaterSince
    BY <1>1, <1>6 DEF SellsStep
  <2>2. \E t \in Tokens : Holds(q, t) < Holds(old, t)
    BY <1>1, <1>6, StepSells
  <2> QED
    BY <1>3, <2>1, <2>2
<1>7. CASE Marks(p, q)
  <2>1. UnderWater(q) <=> UnderWater(old)
    BY <1>1, <1>7, RemarkedDebt DEF Marks
  <2>2. q.underwaterSince = MarkUnderwater(old).underwaterSince
    BY <1>1, <1>7 DEF Marks
  <2> QED
    BY <1>3, <2>1, <2>2
<1> QED
  BY <1>2, <1>4, <1>5, <1>6, <1>7

\* The mark the lender's window runs from is never stale, for any holdings and
\* quotes and with sales above the quote as well as below: a call that touches
\* an open position and finds it covered leaves no mark, only a sale that
\* brings a position back above its debt leaves one behind, and a mark is set
\* only to the present and never moved while the position stays under water
\* (_requireLiquidatable, positionDeposit, the swaps, unfreeze).
THEOREM MarkStays == Spec => MarkIsFresh
<1>1. IInv /\ [Next]_vars =>
        [\A p \in Ids(positions) :
           LET mark == positions[p].underwaterSince
               next == positions'[p].underwaterSince
           IN  positions'[p] # positions[p] /\ positions'[p].open =>
                 /\ ~UnderWater(positions[p]) => next = 0
                 /\ ~UnderWater(positions'[p]) /\ next # 0 =>
                      \E t \in Tokens : Holds(positions'[p], t) < Holds(positions[p], t)
                 /\ next \in {0, now, mark}
                 /\ mark # 0 /\ UnderWater(positions[p]) /\ UnderWater(positions'[p]) =>
                      next = mark]_vars
  BY MarkStaysFresh
<1> QED
  BY <1>1, Invariant, PTL DEF Spec, MarkIsFresh

-----------------------------------------------------------------------------
(* Who may sell, and when.                                                 *)

LEMMA AddIsSeq ==
  ASSUME NEW h \in Seq(Holding), Distinct(h), NEW asset \in Tokens, NEW amount \in Nat
  PROVE  addAsset(h, asset, amount) \in Seq(Holding)
<1>1. CASE \E k \in Ids(h) : h[k].asset = asset
  BY <1>1, AddTopsUp DEF SlotSet
<1>2. CASE ~ \E k \in Ids(h) : h[k].asset = asset
  BY <1>2, AddAppends DEF SlotAdded
<1> QED
  BY <1>1, <1>2

\* Holdings that grow, or stay as they are, are not sold.
LEMMA NothingSold ==
  ASSUME IInv, NEW p \in Ids(positions), NEW q, Deposits(p, q) \/ Marks(p, q), NEW t \in Tokens
  PROVE  ~(Holds(q, t) < Holds(positions[p], t))
<1>1. PICK h : h = positions[p].holdings
  OBVIOUS
<1>2. h \in Seq(Holding) /\ Distinct(h) /\ Holds(positions[p], t) = Amount(h, t)
      /\ Amount(h, t) \in Int
  BY <1>1, PositionFacts, HoldsIsAmount, AmountInt DEF Sound
<1>3. CASE Deposits(p, q)
  <2>1. PICK asset \in Tokens, amount \in Nat : q.holdings = addAsset(h, asset, amount)
    BY <1>1, <1>3 DEF Deposits
  <2>2. Amount(addAsset(h, asset, amount), t) = Amount(h, t) + (IF asset = t THEN amount ELSE 0)
    BY <1>2, AddAmount
  <2>3. q.holdings \in Seq(Holding)
    BY <1>2, <2>1, AddIsSeq
  <2>4. Holds(q, t) = Amount(addAsset(h, asset, amount), t)
    BY <2>1, <2>3, HoldsIsAmount
  <2>5. PICK a \in Nat : a = IF asset = t THEN amount ELSE 0
    OBVIOUS
  <2>6. PICK k \in Int : k = Amount(h, t)
    BY <1>2
  <2>7. Holds(q, t) = k + a
    BY <2>2, <2>4, <2>5, <2>6
  <2> QED
    BY <1>2, <2>6, <2>7
<1>4. CASE Marks(p, q)
  <2>1. q.holdings = h
    BY <1>1, <1>4 DEF Marks, Remarked
  <2>2. Holds(q, t) = Amount(h, t)
    BY <1>2, <2>1, HoldsIsAmount
  <2> QED
    BY <1>2, <2>2
<1> QED
  BY <1>3, <1>4

LEMMA NoticeGiven ==
  ASSUME IInv, NEW p \in Ids(positions), Noticed(p)
  PROVE  /\ subjectToLiquidation(positions[p])
         /\ positions[p].frozenTime \in 1 .. now - 1
         /\ now - positions[p].frozenTime <= MAX_FREEZE_DURATION
<1>1. positions[p].frozenTime \in Nat /\ now \in Nat
  BY PositionFacts DEF Position
<1> QED
  BY <1>1 DEF Noticed, _requireLiquidatable, SaleReady, LiveFreeze

LEMMA SoldWithNotice ==
  ASSUME IInv, [Next]_vars, NEW p \in Ids(positions), positions[p].open,
         \/ ~positions'[p].open
         \/ \E t \in Tokens : Holds(positions'[p], t) < Holds(positions[p], t)
  PROVE  \/ ~subjectToLiquidation(positions[p]) /\ ~positions'[p].open
         \/ ~subjectToLiquidation(positions'[p]) /\ positions'[p].open
         \/ Noticed(p)
<1>1. PICK q : q = positions'[p]
  OBVIOUS
<1>2. Fate(p, q)
  BY <1>1, StepFate
<1>3. CASE ~q.open
  <2>1. PICK x, w : SellsOut(p, q, w) \/ ClosesCovered(p, w)
    BY <1>1, <1>3, ClosedBySettling
  <2> QED
    BY <1>1, <1>3, <2>1 DEF SellsOut, ClosesCovered
<1>4. CASE q.open
  <2>1. PICK t \in Tokens : Holds(q, t) < Holds(positions[p], t)
    BY <1>1, <1>4
  <2>2. q # positions[p]
    <3>1. Holds(positions[p], t) \in Int
      BY PositionFacts, HoldsIsAmount, AmountInt
    <3> QED
      BY <2>1, <3>1
  <2>3. Trades(p, q) \/ SellsStep(p, q)
    BY <1>2, <1>4, <2>1, <2>2, NothingSold DEF Fate, Settles
  <2> QED
    BY <1>1, <1>4, <2>3 DEF Trades, SellsStep
<1> QED
  BY <1>3, <1>4

\* Assets of an open position leave it, by whatever call, only so: its owner
\* trades and it ends healthy, it is closed while it is healthy, or it was
\* frozen at an earlier second, within MAX_FREEZE_DURATION, and is
\* liquidatable when it is sold (liquidate, liquidateStep, marginSwap,
\* positionClose).
THEOREM SalesNeedNotice == Spec => NoSaleWithoutNotice
<1>1. IInv /\ [Next]_vars =>
        [\A p \in Ids(positions) :
           /\ positions[p].open /\ positions'[p] # positions[p]
           /\ \/ ~positions'[p].open
              \/ \E t \in Tokens : Holds(positions'[p], t) < Holds(positions[p], t)
           => \/ ~subjectToLiquidation(positions[p]) /\ ~positions'[p].open
              \/ ~subjectToLiquidation(positions'[p]) /\ positions'[p].open
              \/ /\ subjectToLiquidation(positions[p])
                 /\ positions[p].frozenTime \in 1 .. now - 1
                 /\ now - positions[p].frozenTime <= MAX_FREEZE_DURATION]_vars
  BY SoldWithNotice, NoticeGiven
<1> QED
  BY <1>1, Invariant, PTL DEF Spec, NoSaleWithoutNotice

\* Nobody but the lender or its keeper gets through before the window ends.
LEMMA WindowOver ==
  ASSUME IInv, NEW p \in Ids(positions), Noticed(p), UnderWater(positions[p]),
         NEW who, MayRealize(p, who)
  PROVE  \/ who = OrderOf(p).owner \/ who = OrderOf(p).keeper
         \/ /\ positions[p].underwaterSince # 0
            /\ now >= positions[p].underwaterSince + LENDER_WINDOW
<1>1. PICK u, m : u = positions[p].underwaterSince /\ m = MarkUnderwater(positions[p]).underwaterSince
  OBVIOUS
<1>2. u \in Nat /\ now \in Nat /\ LENDER_WINDOW \in Nat \ {0}
  BY <1>1, PositionFacts, ParameterAssumption DEF Position
<1>3. m = IF u = 0 THEN now ELSE u
  BY <1>1, PositionFacts, MarkRemarks
<1>4. now > 0
  BY <1>2, NoticeGiven
<1>5. ~(m # 0 /\ now < m + LENDER_WINDOW) => u # 0 /\ now >= u + LENDER_WINDOW
  BY <1>2, <1>3, <1>4
<1> QED
  BY <1>1, <1>5 DEF MayRealize, InLenderWindow, _isLossLiquidator

LEMMA LossWaits ==
  ASSUME IInv, [Next]_vars, NEW p \in Ids(positions), SellsAtLoss(p)
  PROVE  LET seller == IF positions'[p].open THEN positions'[p].liquidator ELSE caller'
         IN  \/ seller = OrderOf(p).owner \/ seller = OrderOf(p).keeper
             \/ /\ positions[p].underwaterSince # 0
                /\ now >= positions[p].underwaterSince + LENDER_WINDOW
<1>1. PICK q : q = positions'[p]
  OBVIOUS
<1>2. /\ positions[p].open /\ q # positions[p] /\ UnderWater(positions[p])
      /\ q.open => /\ subjectToLiquidation(q)
                   /\ \E t \in Tokens : Holds(q, t) < Holds(positions[p], t)
  BY <1>1 DEF SellsAtLoss
<1>3. CASE ~q.open
  <2>1. PICK x, w : SellsOut(p, q, w) \/ ClosesCovered(p, w)
    BY <1>1, <1>2, <1>3, ClosedBySettling
  <2>2. CASE SellsOut(p, q, w)
    BY <1>1, <1>2, <1>3, <2>2, WindowOver DEF SellsOut
  <2>3. CASE ClosesCovered(p, w)
    BY <1>2, <2>3, InPlace, UnderIsSubject DEF ClosesCovered
  <2> QED
    BY <2>1, <2>2, <2>3
<1>4. CASE q.open
  <2>1. Fate(p, q)
    BY <1>1, StepFate
  <2>2. SellsStep(p, q)
    BY <1>2, <1>4, <2>1, NothingSold DEF Fate, Settles, Trades
  <2> QED
    BY <1>1, <1>2, <1>4, <2>2, WindowOver DEF SellsStep
<1> QED
  BY <1>3, <1>4

\* While a position is worth less than its debt, nobody but the lender or
\* its keeper sells any of it before it has been marked for LENDER_WINDOW,
\* whatever calls came between (_requireMayRealizeLoss, liquidate,
\* liquidateStep).
THEOREM LossesWaitForLender == Spec => LossWaitsForLender
<1>1. IInv /\ [Next]_vars =>
        [\A p \in Ids(positions) : SellsAtLoss(p) =>
           LET seller == IF positions'[p].open THEN positions'[p].liquidator ELSE caller'
           IN  \/ seller = OrderOf(p).owner \/ seller = OrderOf(p).keeper
               \/ /\ positions[p].underwaterSince # 0
                  /\ now >= positions[p].underwaterSince + LENDER_WINDOW]_vars
  BY LossWaits
<1> QED
  BY <1>1, Invariant, PTL DEF Spec, LossWaitsForLender

-----------------------------------------------------------------------------
(* What stays possible.  A pool that pays the oracle's quote goes through  *)
(* with every sale that is accepted; then the guards that are left are     *)
(* about money, and Solvent pays them.                                     *)

SellsAtOracle(pos) ==
    \A i \in 2 .. Len(pos.holdings) :
      CanSell(pos, pos.holdings[i].asset, pos.holdings[i].bal, 0, 0)

\* The quote itself meets the floor.
LEMMA QuoteMeetsFloor ==
  ASSUME price \in [Tokens -> Nat], NEW pos, NEW base, Sound(pos.holdings, base),
         Priced(pos), Sellable(pos)
  PROVE  SellsAtOracle(pos)
<1> SUFFICES ASSUME NEW i \in 2 .. Len(pos.holdings)
             PROVE  CanSell(pos, pos.holdings[i].asset, pos.holdings[i].bal, 0, 0)
  BY DEF SellsAtOracle
<1>1. PICK a, b : a = pos.holdings[i].asset /\ b = pos.holdings[i].bal
  OBVIOUS
<1>2. /\ pos.holdings \in Seq(Holding) /\ i \in Ids(pos.holdings) /\ 1 \in Ids(pos.holdings)
      /\ pos.holdings[1].asset = base
  BY SoundLen DEF Sound, Ids
<1>3. a \in Tokens /\ b \in Nat /\ b > 0 /\ base \in Tokens
  BY <1>1, <1>2, HoldingParts DEF Sound
<1>4. Quoted(base, a) /\ price[base] # 0
  BY <1>1, <1>2 DEF Priced, Quoted
<1>5. PICK q \in Nat : q = Quote(base, a, b)
  BY <1>3, <1>4, QuoteNat
<1>6. q > 0
  BY <1>1, <1>2, <1>5 DEF Sellable
<1>7. SaleOut(base, a, b, 0, 0) = q
  <2>1. b - 0 = b /\ q - 0 = q
    BY <1>3
  <2> QED
    BY <1>5, <2>1 DEF SaleOut
<1>8. q >= (q * FORCED_SWAP_MIN_OUT_BPS) \div BPS
  <2>1. PICK m \in Nat : m = FORCED_SWAP_MIN_OUT_BPS /\ m <= 10000
    BY ParameterAssumption DEF BPS
  <2>2. q * m \in Nat /\ q * m <= q * 10000
    BY <2>1
  <2>3. (q * m) \div 10000 <= (q * 10000) \div 10000
    BY <2>2, DivMonotone
  <2>4. (q * 10000) \div 10000 = q
    OBVIOUS
  <2>5. (q * m) \div 10000 \in Nat
    BY <2>2, DivBounds
  <2>6. q >= (q * m) \div 10000
    BY <2>3, <2>4, <2>5
  <2> QED
    BY <2>1, <2>6 DEF BPS
<1>9. MeetsFloor(base, a, b, SaleOut(base, a, b, 0, 0))
  BY <1>5, <1>6, <1>7, <1>8 DEF MeetsFloor
<1>10. /\ HasIdInTokenlist(orders[pos.orderId].terms.whitelist, a)
       /\ HasIdInTokenlist(orders[pos.orderId].terms.whitelist, base)
       /\ _validateAsset(pos, a)
  BY <1>1, <1>2 DEF Sellable
<1>11. 0 < b
  BY <1>3
<1> QED
  BY <1>1, <1>2, <1>4, <1>9, <1>10, <1>11 DEF CanSell

LEMMA RemarkedSells ==
  ASSUME NEW pos, NEW q, Remarked(q, pos), SellsAtOracle(pos)
  PROVE  SellsAtOracle(q)
<1> SUFFICES ASSUME NEW i \in 2 .. Len(q.holdings)
             PROVE  CanSell(q, q.holdings[i].asset, q.holdings[i].bal, 0, 0)
  BY DEF SellsAtOracle
<1>1. /\ q.holdings = pos.holdings /\ q.orderId = pos.orderId
      /\ q.initialCollateral = pos.initialCollateral
  BY DEF Remarked
<1>2. CanSell(pos, pos.holdings[i].asset, pos.holdings[i].bal, 0, 0)
  BY <1>1 DEF SellsAtOracle
<1> QED
  BY <1>1, <1>2 DEF CanSell, _validateAsset

Exact(pos) == [i \in 2 .. Len(pos.holdings) |-> 0]

LEMMA ExactSells ==
  ASSUME NEW pos, SellsAtOracle(pos), NEW sellAll, 0 \in Slips, 0 \in Shorts
  PROVE  /\ Exact(pos) \in [2 .. Len(pos.holdings) -> Slips]
         /\ Exact(pos) \in [2 .. Len(pos.holdings) -> Shorts]
         /\ WalkSells(pos, sellAll, Exact(pos), Exact(pos))
         /\ SaleWalk(pos, sellAll, Exact(pos), Exact(pos))[2] \in Sold(pos, sellAll)
<1>1. \A i \in 2 .. Len(pos.holdings) : Exact(pos)[i] = 0
  BY DEF Exact
<1>2. /\ Exact(pos) \in [2 .. Len(pos.holdings) -> Slips]
      /\ Exact(pos) \in [2 .. Len(pos.holdings) -> Shorts]
  BY DEF Exact
<1>3. WalkSells(pos, sellAll, Exact(pos), Exact(pos))
  BY <1>1 DEF WalkSells, SellsAtOracle
<1>4. PICK f : f = <<Exact(pos), Exact(pos)>>
  OBVIOUS
<1>5. /\ f \in [2 .. Len(pos.holdings) -> Slips] \X [2 .. Len(pos.holdings) -> Shorts]
      /\ f[1] = Exact(pos) /\ f[2] = Exact(pos)
  BY <1>2, <1>4
<1>6. SaleWalk(pos, sellAll, f[1], f[2])[2] \in Sold(pos, sellAll)
  <2>1. WalkSells(pos, sellAll, f[1], f[2])
    BY <1>3, <1>5
  <2> QED
    BY <1>5, <2>1 DEF Sold
<1> QED
  BY <1>2, <1>3, <1>5, <1>6

\* A sale of the walk for a debt that is not covered yet brings in the quote.
LEMMA ExactStep ==
  ASSUME price \in [Tokens -> Nat], NEW pos, NEW base, Sound(pos.holdings, base),
         NEW i \in 2 .. Len(pos.holdings), NEW r, Visited(pos, base, r, i + 1),
         r.h[1].bal < calculateDebtAmount(pos),
         CanSell(pos, pos.holdings[i].asset, pos.holdings[i].bal, 0, 0)
  PROVE  WalkStep(pos, FALSE, Exact(pos), Exact(pos), r, i).h[1].bal
           = r.h[1].bal + InBase(base)[pos.holdings[i]]
<1>n. PICK n \in Nat : n = Len(pos.holdings)
  BY SoundLen
<1>1. /\ Funded(r) /\ Sound(r.h, base) /\ Len(r.h) >= i /\ Len(r.h) \in Nat
      /\ r.h[i] = pos.holdings[i] /\ i \in 2 .. n
  BY <1>n, SoundLen DEF Visited
<1>2. i \in 2 .. Len(r.h) /\ i \in Ids(pos.holdings) /\ 1 \in Ids(pos.holdings) /\ i # 1
  BY <1>1, <1>n DEF Ids
<1>3. PICK a, b : a = pos.holdings[i].asset /\ b = pos.holdings[i].bal
  OBVIOUS
<1>4. /\ a \in Tokens /\ b \in Nat /\ b > 0 /\ pos.holdings[i] = Slot(a, b)
      /\ pos.holdings[1].asset = base /\ base \in Tokens /\ a # base
  <2>1. pos.holdings \in Seq(Holding) /\ Distinct(pos.holdings) /\ pos.holdings[1].asset = base
    BY DEF Sound
  <2>2. pos.holdings[i] \in Holding /\ pos.holdings[1].asset \in Tokens
    BY <1>2, <2>1, HoldingParts
  <2>3. pos.holdings[i].bal > 0
    BY DEF Sound
  <2> QED
    BY <1>2, <1>3, <2>1, <2>2, <2>3, HoldingIsSlot DEF Distinct
<1>5. PICK out : out = SaleOut(base, a, b, 0, 0)
  OBVIOUS
<1>6. out \in Nat /\ price[base] # 0 /\ CanSell(pos, a, b, 0, 0)
  <2>1. CanSell(pos, a, b, 0, 0) /\ 0 \in Int /\ 0 \in Nat
    BY <1>3
  <2>2. SaleOut(base, a, b, 0, 0) \in Nat
    BY <1>4, <2>1, SaleAmounts
  <2>3. price[base] # 0
    BY <1>4, <2>1 DEF CanSell, Quoted
  <2> QED
    BY <1>5, <2>1, <2>2, <2>3
<1>7. out = Quote(base, a, b)
  <2>1. Quote(base, a, b) \in Nat /\ b - 0 = b
    BY <1>4, <1>6, QuoteNat
  <2> QED
    BY <1>5, <2>1 DEF SaleOut
<1>8. PICK x : x = WalkStep(pos, FALSE, Exact(pos), Exact(pos), r, i)
  OBVIOUS
<1>9. x = AfterSwap(r, r.h[i].asset, base, b, out)
  <2>1. r.h[i].asset = a /\ r.h[i].bal = b /\ b - 0 = b
    BY <1>1, <1>3, <1>4
  <2>2. x = _swapToBaseAsset(pos, r, r.h[i].asset, r.h[i].bal, Exact(pos)[i], Exact(pos)[i])
    BY <1>4, <1>8, <2>1 DEF WalkStep
  <2>3. Exact(pos)[i] = 0
    BY DEF Exact
  <2> QED
    BY <1>4, <1>5, <2>1, <2>2, <2>3 DEF _swapToBaseAsset
<1>10. x.h[1].bal = r.h[1].bal + out
  <2>1. b <= r.h[i].bal
    BY <1>1, <1>3, <1>4
  <2>2. /\ Funded(r) /\ Sound(r.h, base) /\ i \in 2 .. Len(r.h) /\ b \in Nat /\ out \in Nat
    BY <1>1, <1>2, <1>4, <1>6
  <2>3. SaleEffect(r, x, base, i, out)
    BY <1>9, <2>1, <2>2, SellMoves
  <2> QED
    BY <2>3 DEF SaleEffect
<1>11. InBase(base)[pos.holdings[i]] = out
  BY <1>4, <1>6, <1>7, InBaseWeight
<1> QED
  BY <1>8, <1>10, <1>11

\* Sold at the quotes, the walk stops with the debt covered or brings in all
\* the position is worth.
LEMMA SoldAtQuotes ==
  ASSUME price \in [Tokens -> Nat], held \in [Tokens -> Int], NEW pos, NEW base,
         Sound(pos.holdings, base), SellsAtOracle(pos), calculateDebtAmount(pos) \in Nat,
         0 \in Slips, 0 \in Shorts
  PROVE  \E w \in Sold(pos, FALSE) :
           \/ w.h[1].bal >= calculateDebtAmount(pos)
           \/ w.h[1].bal >= Weigh(InBase(base), pos.holdings)
<1>n. PICK n \in Nat \ {0} : n = Len(pos.holdings)
  BY SoundLen
<1>h. PICK h, debt, zero : /\ h = pos.holdings /\ debt = calculateDebtAmount(pos)
                           /\ zero = Exact(pos)
  OBVIOUS
<1>w. PICK walk : walk = SaleWalk(pos, FALSE, zero, zero)
  OBVIOUS
<1>1. /\ zero \in [2 .. n -> Slips] /\ zero \in [2 .. n -> Shorts]
      /\ WalkSells(pos, FALSE, zero, zero) /\ walk[2] \in Sold(pos, FALSE)
  BY <1>n, <1>h, <1>w, ExactSells
<1>2. \A i \in 2 .. n + 1 : Visited(pos, base, walk[i], i)
  BY <1>n, <1>w, <1>1, WalkKeeps
<1>3. /\ walk[n + 1] = [h |-> h, held |-> held]
      /\ \A i \in 2 .. n : walk[i] = WalkStep(pos, FALSE, zero, zero, walk[i + 1], i)
  <2>1. Walks(pos, FALSE, zero, zero, 2, walk)
    BY <1>n, <1>w, WalkEquation
  <2>2. \A i \in 2 .. n + 1 : walk[i] = IF i = n + 1 THEN [h |-> h, held |-> held]
                                        ELSE WalkStep(pos, FALSE, zero, zero, walk[i + 1], i)
    BY <1>n, <1>h, <2>1 DEF Walks
  <2>3. n + 1 \in 2 .. n + 1
    OBVIOUS
  <2>4. \A i \in 2 .. n : i \in 2 .. n + 1 /\ i # n + 1
    OBVIOUS
  <2> QED
    BY <2>2, <2>3, <2>4
<1>4. h \in Seq(Holding) /\ h[1].asset = base /\ h[1].bal \in Nat /\ base \in Tokens
      /\ Ids(h) = 1 .. n
  BY <1>n, <1>h, SoundLen, HoldingParts DEF Sound, Ids
<1> DEFINE F == [k \in Ids(h) |-> InBase(base)[h[k]]]
<1>5. F \in [1 .. n -> Int] /\ F[1] = h[1].bal /\ \A i \in 1 .. n : F[i] = InBase(base)[h[i]]
  <2>1. \A i \in Ids(h) : h[i] \in Holding
    BY <1>4, HoldingParts
  <2>2. InBase(base)[h[1]] = h[1].bal
    <3>1. 1 \in Ids(h)
      BY <1>4
    <3>2. h[1] = Slot(base, h[1].bal)
      BY <1>4, <2>1, <3>1, HoldingIsSlot
    <3>3. InBase(base)[Slot(base, h[1].bal)] = h[1].bal
      BY <1>4, InBaseWeight
    <3> QED
      BY <3>2, <3>3
  <2>3. \A k \in Ids(h) : InBase(base)[h[k]] \in Int
    BY <1>4, <2>1, InBaseWeight
  <2>4. 1 \in Ids(h) /\ \A k \in Ids(h) : F[k] = InBase(base)[h[k]]
    BY <1>4
  <2>5. F \in [1 .. n -> Int]
    BY <1>4, <2>3
  <2> HIDE DEF F
  <2> QED
    BY <1>4, <2>2, <2>4, <2>5
<1>6. Weigh(InBase(base), h) = SumFunctionOnSet(F, 1 .. n)
  <2>1. DOMAIN F = 1 .. n
    BY <1>4
  <2> QED
    BY <2>1 DEF Weigh, SumFunction
<1> HIDE DEF F
<1>7. ASSUME NEW i \in 2 .. n + 1
      PROVE  walk[i].h[1].bal \in Nat /\ SumFunctionOnSet(F, i .. n) \in Int
  <2>1. Sound(walk[i].h, base)
    BY <1>2 DEF Visited
  <2>2. i .. n \in SUBSET (1 .. n) /\ IsFiniteSet(i .. n)
    BY FS_Interval
  <2> QED
    BY <1>5, <2>1, <2>2, SoundLen, HoldingParts, SumInt
<1>8. debt \in Int /\ h[1].bal \in Int
  BY <1>h, <1>4
<1> DEFINE Above(i) == \/ walk[i].h[1].bal >= debt
                       \/ walk[i].h[1].bal >= h[1].bal + SumFunctionOnSet(F, i .. n)
           B == {i \in 2 .. n + 1 : ~ Above(i)}
<1>9. Above(n + 1)
  <2>1. n + 1 .. n = {}
    OBVIOUS
  <2>2. SumFunctionOnSet(F, n + 1 .. n) = 0
    BY <2>1, SumNone
  <2>3. walk[n + 1].h[1].bal = h[1].bal
    BY <1>3
  <2> QED
    BY <1>8, <2>2, <2>3
<1>10. ASSUME NEW i \in 2 .. n, Above(i + 1)  PROVE Above(i)
  <2>1. i + 1 \in 2 .. n + 1 /\ i \in 2 .. n + 1 /\ i \in 2 .. Len(pos.holdings)
    BY <1>n
  <2>2. PICK r : r = walk[i + 1]
    OBVIOUS
  <2>3. walk[i] = WalkStep(pos, FALSE, zero, zero, r, i)
    BY <1>3, <2>2
  <2>4. r.h[1].bal \in Nat
    BY <1>7, <2>1, <2>2
  <2>5. CASE r.h[1].bal >= debt
    <3>1. ~(r.h[1].bal < debt)
      BY <1>8, <2>4, <2>5
    <3>2. walk[i] = r
      BY <1>h, <2>3, <3>1 DEF WalkStep
    <3> QED
      BY <2>5, <3>2
  <2>6. CASE ~(r.h[1].bal >= debt)
    <3>1. r.h[1].bal < debt
      BY <1>8, <2>4, <2>6
    <3>2. CanSell(pos, pos.holdings[i].asset, pos.holdings[i].bal, 0, 0)
      BY <2>1 DEF SellsAtOracle
    <3>3. walk[i].h[1].bal = r.h[1].bal + InBase(base)[h[i]]
      <4>1. Visited(pos, base, r, i + 1)
        BY <1>2, <2>1, <2>2
      <4>2. r.h[1].bal < calculateDebtAmount(pos)
        BY <1>h, <3>1
      <4>3. WalkStep(pos, FALSE, Exact(pos), Exact(pos), r, i).h[1].bal
              = r.h[1].bal + InBase(base)[pos.holdings[i]]
        BY <2>1, <3>2, <4>1, <4>2, ExactStep
      <4> QED
        BY <1>h, <2>3, <4>3
    <3>4. SumFunctionOnSet(F, i .. n) = SumFunctionOnSet(F, i + 1 .. n) + F[i]
      <4>1. i .. n \in SUBSET (1 .. n) /\ i + 1 .. n = (i .. n) \ {i} /\ i \in i .. n
        OBVIOUS
      <4>2. IsFiniteSet(i .. n) /\ IsFiniteSet(i + 1 .. n)
        BY FS_Interval
      <4>3. Without(F, 1 .. n, i .. n, i, i + 1 .. n)
        BY <1>5, <4>1, <4>2 DEF Without
      <4> QED
        BY <4>3, SumWithout
    <3>5. r.h[1].bal >= h[1].bal + SumFunctionOnSet(F, i + 1 .. n)
      BY <1>10, <2>2, <2>6
    <3>6. PICK x, y, z, b, c : /\ x = walk[i].h[1].bal /\ y = r.h[1].bal
                               /\ z = SumFunctionOnSet(F, i + 1 .. n) /\ b = h[1].bal
                               /\ c = F[i]
      OBVIOUS
    <3>7. /\ x \in Int /\ y \in Int /\ z \in Int /\ b \in Int /\ c \in Int
          /\ x = y + c /\ y >= b + z
      <4>1. x \in Nat /\ z \in Int
        BY <1>7, <2>1, <3>6
      <4>2. c \in Int /\ c = InBase(base)[h[i]]
        BY <1>5, <2>1, <3>6
      <4> QED
        BY <1>8, <2>4, <3>3, <3>5, <3>6, <4>1, <4>2
    <3>8. x >= b + (z + c)
      BY <3>7
    <3> QED
      BY <3>4, <3>6, <3>8
  <2> QED
    BY <2>5, <2>6
<1>11. B = {}
  <2>1. SUFFICES ASSUME B # {} PROVE FALSE
    OBVIOUS
  <2>2. PICK m \in B : \A x \in B : x <= m
    <3>1. B \in SUBSET (2 .. n + 1) /\ 2 \in Int /\ n + 1 \in Int
      OBVIOUS
    <3> HIDE DEF B
    <3> QED
      BY <2>1, <3>1, LargestIndex
  <2>3. m \in 2 .. n + 1 /\ ~ Above(m)
    OBVIOUS
  <2>4. m # n + 1
    <3> HIDE DEF Above
    <3> QED
      BY <1>9, <2>3
  <2>5. m \in 2 .. n /\ m + 1 \in 2 .. n + 1 /\ ~ (m + 1 <= m)
    BY <2>3, <2>4
  <2>6. m + 1 \notin B
    <3> HIDE DEF B
    <3> QED
      BY <2>2, <2>5
  <2>7. Above(m + 1)
    BY <2>5, <2>6
  <2> HIDE DEF Above
  <2> QED
    BY <1>10, <2>3, <2>5, <2>7
<1>12. Above(2)
  <2>1. 2 \in 2 .. n + 1 /\ 2 \notin B
    BY <1>11
  <2> QED
    BY <2>1
<1>13. Weigh(InBase(base), h) = h[1].bal + SumFunctionOnSet(F, 2 .. n)
  <2>1. 1 .. n \in SUBSET (1 .. n) /\ 2 .. n = (1 .. n) \ {1} /\ 1 \in 1 .. n
    OBVIOUS
  <2>2. IsFiniteSet(1 .. n) /\ IsFiniteSet(2 .. n)
    BY FS_Interval
  <2>3. Without(F, 1 .. n, 1 .. n, 1, 2 .. n)
    BY <1>5, <2>1, <2>2 DEF Without
  <2>4. SumFunctionOnSet(F, 1 .. n) = SumFunctionOnSet(F, 2 .. n) + F[1]
    BY <2>3, SumWithout
  <2>5. SumFunctionOnSet(F, 2 .. n) \in Int
    BY <1>7
  <2> QED
    BY <1>5, <1>6, <1>8, <2>4, <2>5
<1> QED
  BY <1>h, <1>1, <1>12, <1>13

\* What an order, a position or an account is owed is never negative, so a
\* part of what the module owes is at most all of it.
LEMMA TotalBounds ==
  ASSUME NEW S, NEW V \in [S -> Int], NEW s \in Seq(S), \A k \in Ids(s) : V[s[k]] \in Nat
  PROVE  \A i \in Ids(s) : V[s[i]] <= Total(V, s)
<1> DEFINE f == [k \in Ids(s) |-> V[s[k]]]
<1>1. f \in [Ids(s) -> Nat] /\ DOMAIN f = Ids(s) /\ IsFiniteSet(Ids(s))
      /\ \A i \in Ids(s) : f[i] = V[s[i]]
  BY FS_Interval DEF Ids
<1>2. Total(V, s) = SumFunctionOnSet(f, Ids(s))
  <2>1. Total(V, s) = SumFunction(f)
    BY DEF Total
  <2> HIDE DEF f
  <2> QED
    BY <1>1, <2>1 DEF SumFunction
<1> HIDE DEF f
<1> QED
  BY <1>1, <1>2, SumBounds

LEMMA AmountNat ==
  ASSUME NEW h \in Seq(Holding), NEW t
  PROVE  Amount(h, t) \in Nat
<1> DEFINE f == [i \in Ids(h) |-> OfToken(t)[h[i]]]
<1>1. \A i \in Ids(h) : OfToken(t)[h[i]] \in Nat
  BY HoldingParts, OfTokenWeight
<1>2. f \in [Ids(h) -> Nat] /\ DOMAIN f = Ids(h)
  BY <1>1
<1>3. Amount(h, t) = SumFunction(f)
  BY DEF Amount, Weigh
<1> HIDE DEF f
<1>4. IsFiniteSet(Ids(h)) /\ Ids(h) \in SUBSET Ids(h)
  BY FS_Interval DEF Ids
<1>5. SumFunctionOnSet(f, Ids(h)) \in Nat
  BY <1>2, <1>4, SumNat
<1> QED
  BY <1>2, <1>3, <1>5 DEF SumFunction

LEMMA DueNat ==
  ASSUME IInv, NEW t \in Tokens
  PROVE  Due(erc223deposit, t) \in Nat
<1> DEFINE f == [u \in Users |-> erc223deposit[u][t]]
<1>1. \A u \in Users : erc223deposit[u][t] \in Nat
  BY DEF IInv, Scalars
<1>2. f \in [Users -> Nat] /\ DOMAIN f = Users
  BY <1>1
<1>3. Due(erc223deposit, t) = SumFunction(f)
  BY DEF Due
<1> HIDE DEF f
<1>4. IsFiniteSet(Users) /\ Users \in SUBSET Users
  BY UsersAssumption
<1>5. SumFunctionOnSet(f, Users) \in Nat
  BY <1>2, <1>4, SumNat
<1> QED
  BY <1>2, <1>3, <1>5 DEF SumFunction

\* An order with an open position is owed its reward.
LEMMA RewardDue ==
  ASSUME IInv, ~_entered, NEW p \in Ids(positions), positions[p].open
  PROVE  /\ OrderOf(p).terms.rewardAsset \in Tokens /\ OrderOf(p).terms.rewardAmount \in Nat
         /\ OrderDue(OrderOf(p), OrderOf(p).terms.rewardAsset) >= OrderOf(p).terms.rewardAmount
<1>1. /\ positions[p].orderId \in Ids(orders) /\ orders \in Seq(Order)
      /\ OrderOf(p) = orders[positions[p].orderId]
  BY PositionFacts DEF IInv
<1>2. PICK o \in Ids(orders) : o = positions[p].orderId
  BY <1>1
<1>3. PICK ra \in Tokens, rn \in Nat, b \in Nat :
        /\ ra = orders[o].terms.rewardAsset /\ rn = orders[o].terms.rewardAmount
        /\ b = orders[o].balance
  BY <1>1, OrderParts
<1>4. PICK c \in Nat \ {0} : c = orders[o].positions
  <2>1. IsFiniteSet(Counted(o)) /\ Cardinality(Counted(o)) \in Nat
    BY OpenFinite DEF IInv, Places
  <2>2. p \in Counted(o)
    <3>1. pulling = <<>>
      BY Idle
    <3> QED
      BY <1>2, <3>1 DEF Counted, OpenPositions
  <2>3. Cardinality(Counted(o)) # 0
    BY <2>1, <2>2, FS_EmptySet
  <2>4. orders[o].positions = Cardinality(Counted(o))
    BY DEF IInv, CountsAgree
  <2> QED
    BY <2>1, <2>3, <2>4
<1>5. rn * c >= rn /\ rn * c \in Nat
  <2>1. PICK d \in Nat : c = d + 1
    BY <1>4
  <2>2. rn * (d + 1) = rn * d + rn /\ rn * d \in Nat
    OBVIOUS
  <2> QED
    BY <2>1, <2>2
<1>6. OrderDue(orders[o], ra) = (IF orders[o].terms.baseAsset = ra THEN b ELSE 0) + rn * c
  BY <1>3, <1>4 DEF OrderDue
<1>7. OrderDue(orders[o], ra) >= rn
  BY <1>5, <1>6
<1> QED
  BY <1>1, <1>2, <1>3, <1>7

LEMMA OrderDueNat ==
  ASSUME IInv, NEW o \in Ids(orders), NEW t
  PROVE  OrderDue(orders[o], t) \in Nat
<1>1. PICK m \in Nat, b \in Nat : m = orders[o].terms.rewardAmount /\ b = orders[o].balance
  BY OrderParts DEF IInv
<1>2. PICK c \in Nat : c = orders[o].positions
  BY OpenFinite DEF IInv, Places, CountsAgree
<1>3. m * c \in Nat
  OBVIOUS
<1> QED
  BY <1>1, <1>2, <1>3 DEF OrderDue

\* What sales left beside a position's holdings pays the reward of its order.
LEMMA RewardCovered ==
  ASSUME IInv, Solvent, ~_entered, NEW p \in Ids(positions), positions[p].open,
         NEW w, Funded(w), \A t \in Tokens : Slack(w, t) = held[t] - Amount(positions[p].holdings, t)
  PROVE  RewardPayable(positions[p], w)
<1>1. PICK t \in Tokens, n \in Nat :
        /\ t = OrderOf(p).terms.rewardAsset /\ n = OrderOf(p).terms.rewardAmount
        /\ OrderDue(OrderOf(p), t) >= n
  BY RewardDue
<1>2. /\ positions \in Seq(Position) /\ orders \in Seq(Order)
      /\ positions[p].orderId \in Ids(orders) /\ OrderOf(p) = orders[positions[p].orderId]
      /\ positions[p].holdings \in Seq(Holding)
  BY PositionFacts DEF IInv, Places
<1>3. Total(DueTo(t), orders) >= OrderDue(OrderOf(p), t) /\ OrderDue(OrderOf(p), t) \in Nat
  <2>1. DueTo(t) \in [Order -> Int]
    BY DueToInt
  <2>2. \A o \in Ids(orders) : DueTo(t)[orders[o]] = OrderDue(orders[o], t)
                               /\ OrderDue(orders[o], t) \in Nat
    <3> SUFFICES ASSUME NEW o \in Ids(orders)
                 PROVE  DueTo(t)[orders[o]] = OrderDue(orders[o], t) /\ OrderDue(orders[o], t) \in Nat
      OBVIOUS
    <3>1. orders[o] \in Order
      BY <1>2, OrderParts
    <3> QED
      BY <3>1, DueToInt, OrderDueNat
  <2>3. \A o \in Ids(orders) : DueTo(t)[orders[o]] \in Nat
    BY <2>2
  <2>4. DueTo(t)[orders[positions[p].orderId]] <= Total(DueTo(t), orders)
    BY <1>2, <2>1, <2>3, TotalBounds
  <2>5. Total(DueTo(t), orders) \in Int
    BY GapInt
  <2> QED
    BY <1>2, <2>2, <2>4, <2>5
<1>4. Total(HeldBy(t), positions) >= Amount(positions[p].holdings, t)
  <2>1. HeldBy(t) \in [Position -> Int]
    BY HeldByInt
  <2>2. \A q \in Ids(positions) : HeldBy(t)[positions[q]] = Amount(positions[q].holdings, t)
                                  /\ Amount(positions[q].holdings, t) \in Nat
    <3> SUFFICES ASSUME NEW q \in Ids(positions)
                 PROVE  HeldBy(t)[positions[q]] = Amount(positions[q].holdings, t)
                        /\ Amount(positions[q].holdings, t) \in Nat
      OBVIOUS
    <3>1. positions[q] \in Position /\ positions[q].holdings \in Seq(Holding)
      BY <1>2, PositionParts
    <3> QED
      BY <3>1, HeldByInt, AmountNat
  <2>3. \A q \in Ids(positions) : HeldBy(t)[positions[q]] \in Nat
    BY <2>2
  <2>4. HeldBy(t)[positions[p]] <= Total(HeldBy(t), positions)
    BY <1>2, <2>1, <2>3, TotalBounds
  <2>5. Total(HeldBy(t), positions) \in Int
    BY GapInt
  <2> QED
    BY <2>2, <2>4, <2>5
<1>5. held[t] >= Total(DueTo(t), orders) + Total(HeldBy(t), positions) + Due(erc223deposit, t)
  <2>1. pulling = <<>>
    BY Idle
  <2>2. Awaited(t) = 0 /\ Rewarding(t) = 0
    BY <2>1 DEF Awaited, Rewarding
  <2>3. held[t] + Awaited(t) >= Owed(t)
    BY DEF Solvent
  <2>4. Owed(t) = Total(DueTo(t), orders) + Rewarding(t) + Total(HeldBy(t), positions)
                    + Due(erc223deposit, t)
    BY OwedIs
  <2>5. PICK a, b, c, d : /\ a = Total(DueTo(t), orders) /\ b = Total(HeldBy(t), positions)
                          /\ c = Due(erc223deposit, t) /\ d = held[t]
    OBVIOUS
  <2>6. a \in Int /\ b \in Int /\ c \in Int /\ d \in Int
    BY <2>5, GapInt
  <2>7. d + 0 >= a + 0 + b + c
    BY <2>2, <2>3, <2>4, <2>5
  <2> QED
    BY <2>5, <2>6, <2>7
<1>6. PICK a, b, c, d, e, f, g, m :
        /\ a = Total(DueTo(t), orders) /\ b = Total(HeldBy(t), positions)
        /\ c = Due(erc223deposit, t) /\ d = held[t] /\ e = Amount(positions[p].holdings, t)
        /\ f = w.held[t] /\ g = Amount(w.h, t) /\ m = OrderDue(OrderOf(p), t)
  OBVIOUS
<1>7. /\ a \in Int /\ b \in Int /\ c \in Nat /\ d \in Int /\ e \in Nat /\ f \in Int /\ g \in Nat
      /\ m \in Nat
  <2>1. w.h \in Seq(Holding) /\ w.held[t] \in Int
    BY DEF Funded
  <2> QED
    BY <1>2, <1>3, <1>6, <2>1, GapInt, DueNat, AmountNat
<1>8. m >= n /\ a >= m /\ b >= e /\ d >= a + b + c
  BY <1>1, <1>3, <1>4, <1>5, <1>6
<1>9. f - g = d - e
  <2>1. Slack(w, t) = held[t] - Amount(positions[p].holdings, t)
    OBVIOUS
  <2> QED
    BY <1>6, <2>1 DEF Slack
<1>10. n <= f
  BY <1>7, <1>8, <1>9
<1> QED
  BY <1>1, <1>2, <1>6, <1>10 DEF RewardPayable, CanTransfer

LEMMA WindowOpensCall ==
  ASSUME IInv, NEW p \in Ids(positions), _requireLiquidatable(p), SaleReady(positions[p]),
         positions[p].underwaterSince # 0, now >= positions[p].underwaterSince + LENDER_WINDOW,
         NEW who
  PROVE  MayLiquidate(who, p)
<1>1. PICK old, pos : old = positions[p] /\ pos = MarkUnderwater(positions[p])
  OBVIOUS
<1>2. /\ pos.frozenTime = old.frozenTime
      /\ pos.underwaterSince = IF ~UnderWater(old) THEN 0
                               ELSE IF old.underwaterSince = 0 THEN now ELSE old.underwaterSince
  BY <1>1, PositionFacts, MarkRemarks
<1>3. SaleReady(pos)
  BY <1>1, <1>2 DEF SaleReady, LiveFreeze
<1>4. now \in Nat /\ old.underwaterSince \in Nat /\ LENDER_WINDOW \in Nat
  BY <1>1, PositionFacts, ParameterAssumption DEF Position
<1>5. ~InLenderWindow(pos)
  BY <1>1, <1>2, <1>4 DEF InLenderWindow
<1> QED
  BY <1>1, <1>3, <1>5 DEF MayLiquidate, _requireMayRealizeLoss

LEMMA SellOutPays ==
  ASSUME IInv, Solvent, ~_entered, 0 \in Slips, 0 \in Shorts,
         NEW p \in Ids(positions), positions[p].open, Priced(positions[p]), Sellable(positions[p])
  PROVE  \E w \in Sold(MarkUnderwater(positions[p]), TRUE) : RewardPayable(positions[p], w)
<1>1. PICK old, pos : old = positions[p] /\ pos = MarkUnderwater(positions[p])
  OBVIOUS
<1>2. Remarked(pos, old) /\ pos.holdings = old.holdings
  BY <1>1, PositionFacts, MarkRemarks DEF Remarked
<1>3. PICK w \in Sold(pos, TRUE) : TRUE
  <2>1. SellsAtOracle(old)
    BY <1>1, PositionFacts, QuoteMeetsFloor
  <2> QED
    BY <1>2, <2>1, RemarkedSells, ExactSells
<1>4. /\ price \in [Tokens -> Nat] /\ held \in [Tokens -> Int] /\ Sound(pos.holdings, BaseOf(p))
  BY <1>1, <1>2, PositionFacts
<1>5. Funded(w) /\ \A t \in Tokens : Slack(w, t) = held[t] - Amount(old.holdings, t)
  <2>1. Visited(pos, BaseOf(p), w, 2)
    BY <1>4, SoldKeeps
  <2> QED
    BY <1>2, <2>1 DEF Visited
<1>6. RewardPayable(positions[p], w)
  BY <1>1, <1>5, RewardCovered
<1> QED
  BY <1>1, <1>3, <1>6

LEMMA CloseCovers ==
  ASSUME IInv, Solvent, ~_entered, 0 \in Slips, 0 \in Shorts,
         NEW p \in Ids(positions), positions[p].open, Priced(positions[p]),
         ~subjectToLiquidation(positions[p]), Sellable(positions[p])
  PROVE  \E w \in Sold(positions[p], FALSE) :
           /\ w.h[1].bal >= calculateDebtAmount(positions[p])
           /\ RewardPayable(positions[p], w)
<1>1. PICK pos, base, debt : /\ pos = positions[p] /\ base = BaseOf(p)
                             /\ debt = calculateDebtAmount(pos)
  OBVIOUS
<1>2. /\ price \in [Tokens -> Nat] /\ held \in [Tokens -> Int] /\ Sound(pos.holdings, base)
      /\ debt \in Nat
  BY <1>1, PositionFacts
<1>3. PICK w \in Sold(pos, FALSE) :
        w.h[1].bal >= debt \/ w.h[1].bal >= Weigh(InBase(base), pos.holdings)
  <2>1. SellsAtOracle(pos)
    BY <1>1, <1>2, QuoteMeetsFloor
  <2> QED
    BY <1>1, <1>2, <2>1, SoldAtQuotes
<1>4. Visited(pos, base, w, 2)
  BY <1>2, <1>3, SoldKeeps
<1>5. RewardPayable(positions[p], w)
  BY <1>1, <1>4, RewardCovered DEF Visited
<1>6. PICK v, l : v = _positionValue(pos) /\ l = _liquidationThreshold(OrderOf(p), debt)
  OBVIOUS
<1>7. v \in Int /\ l \in Int /\ l >= debt /\ v = Weigh(InBase(base), pos.holdings)
  BY <1>1, <1>6, InPlace, DebtUnderThreshold
<1>8. ~(v < l)
  BY <1>1, <1>6 DEF subjectToLiquidation, OrderOf
<1>9. w.h[1].bal \in Nat
  BY <1>4, SoundLen, HoldingParts DEF Visited
<1>10. w.h[1].bal >= debt
  BY <1>2, <1>3, <1>7, <1>8, <1>9
<1> QED
  BY <1>1, <1>3, <1>5, <1>10

\* Once a position has been marked for LENDER_WINDOW, liquidate is open to
\* every account, and if a pool may pay the oracle's quote (no slip, no part
\* of the input returned) a position whose holdings a sale accepts is sold and
\* the reward for it can be paid: no earlier sale, payout or repayment took
\* the reward or the balances the sale moves (_requireMayRealizeLoss,
\* _liquidate, _settle), of owners who keep their terms while a loan is taken.
THEOREM NobodyWaitsForLender ==
  ASSUME 0 \in Slips, 0 \in Shorts, Reneging = {}
  PROVE  Spec => []AnyoneMayAfterWindow
<1>1. IInv /\ Solvent => AnyoneMayAfterWindow
  <2> SUFFICES ASSUME IInv, Solvent, NEW p \in Ids(positions), ~_entered,
                      _requireLiquidatable(p), SaleReady(positions[p]),
                      positions[p].underwaterSince # 0,
                      now >= positions[p].underwaterSince + LENDER_WINDOW
               PROVE  /\ \A who \in Users : MayLiquidate(who, p)
                      /\ Sellable(positions[p]) =>
                           \E w \in Sold(MarkUnderwater(positions[p]), TRUE) :
                             RewardPayable(positions[p], w)
    BY DEF AnyoneMayAfterWindow
  <2>1. positions[p].open /\ Priced(positions[p])
    BY DEF _requireLiquidatable
  <2> QED
    BY <2>1, WindowOpensCall, SellOutPays
<1> QED
  BY <1>1, Invariant, ModuleIsSolvent, PTL

\* The owner of a position that is not liquidatable may close it, frozen or
\* not: if a pool may pay the oracle's quote and a sale accepts its holdings,
\* selling them until the debt is covered does cover it, and the reward can be
\* paid (positionClose, _paybackBaseAsset, _settle), of owners who keep their
\* terms while a loan is taken.
THEOREM RecoveredCloses ==
  ASSUME 0 \in Slips, 0 \in Shorts, Reneging = {}
  PROVE  Spec => []RecoveredCanBeClosed
<1>1. IInv /\ Solvent => RecoveredCanBeClosed
  <2> SUFFICES ASSUME IInv, Solvent, NEW p \in Ids(positions), ~_entered, positions[p].open,
                      Priced(positions[p]), ~subjectToLiquidation(positions[p])
               PROVE  /\ MayClose(positions[p].owner, p)
                      /\ Sellable(positions[p]) =>
                           \E w \in Sold(positions[p], FALSE) :
                             /\ w.h[1].bal >= calculateDebtAmount(positions[p])
                             /\ RewardPayable(positions[p], w)
    BY DEF RecoveredCanBeClosed
  <2>1. MayClose(positions[p].owner, p)
    BY DEF MayClose, Closable
  <2> QED
    BY <2>1, CloseCovers
<1> QED
  BY <1>1, Invariant, ModuleIsSolvent, PTL

=============================================================================
