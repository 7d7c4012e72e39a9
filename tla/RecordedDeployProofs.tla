------------------------ MODULE RecordedDeployProofs ------------------------
(* What TLAPS proves of RecordedDeploy for every value of the constants:   *)
(* how often a contract is deployed under a name that the file records.    *)
EXTENDS RecordedDeploy, FiniteSetTheorems, SequenceTheorems, TLAPS

(* Sets of positions in a sequence that loses its first element.           *)

\* Positions are finite in number.
LEMMA PositionsFinite ==
  ASSUME NEW m \in Nat, NEW A \in SUBSET (1 .. m)
  PROVE  IsFiniteSet(A) /\ Cardinality(A) \in Nat
<1>1. IsFiniteSet(1 .. m)
  BY FS_Interval
<1>2. IsFiniteSet(A)
  BY <1>1, FS_Subset
<1> QED
  BY <1>2, FS_CardinalityType

\* The positions of what is left when the head is gone.
LEMMA TailCount ==
  ASSUME NEW m \in Nat \ {0}, NEW A \in SUBSET (1 .. m)
  PROVE  Cardinality({n \in 1 .. m - 1 : n + 1 \in A})
           = IF 1 \in A THEN Cardinality(A) - 1 ELSE Cardinality(A)
<1> DEFINE B == {n \in 1 .. m - 1 : n + 1 \in A}
           f == [n \in B |-> n + 1]
<1>1. IsFiniteSet(A) /\ IsFiniteSet(B)
  <2>1. B \in SUBSET (1 .. m - 1) /\ m - 1 \in Nat
    OBVIOUS
  <2> QED
    BY <2>1, PositionsFinite
<1>2. f \in Bijection(B, A \ {1})
  <2>1. f \in [B -> A \ {1}]
    OBVIOUS
  <2>2. \A x, y \in B : f[x] = f[y] => x = y
    OBVIOUS
  <2>3. \A y \in A \ {1} : \E x \in B : f[x] = y
    <3> TAKE y \in A \ {1}
    <3>1. y - 1 \in B /\ f[y - 1] = y
      OBVIOUS
    <3> QED
      BY <3>1
  <2>4. IsInjective(f)
    BY <2>2 DEF IsInjective
  <2> QED
    BY <2>1, <2>3, <2>4 DEF Bijection, Injection, Surjection
<1>3. ExistsBijection(B, A \ {1})
  BY <1>2 DEF ExistsBijection
<1>4. Cardinality(A \ {1}) = Cardinality(B)
  BY <1>1, <1>3, FS_Bijection
<1> QED
  BY <1>1, <1>4, FS_RemoveElement

-----------------------------------------------------------------------------
(* Sequences of whatever.                                                  *)

SomeSeq(s) == \E S : s \in Seq(S)

LEMMA SomeSeqFacts ==
  ASSUME NEW s, SomeSeq(s)
  PROVE  /\ Len(s) \in Nat /\ DOMAIN s = 1 .. Len(s)
         /\ s # <<>> <=> Len(s) # 0
<1>1. PICK S : s \in Seq(S)
  BY DEF SomeSeq
<1> QED
  BY <1>1

LEMMA AppendFacts ==
  ASSUME NEW s, SomeSeq(s), NEW x
  PROVE  /\ SomeSeq(Append(s, x)) /\ Len(Append(s, x)) = Len(s) + 1
         /\ \A n \in 1 .. Len(s) : Append(s, x)[n] = s[n]
         /\ Append(s, x)[Len(s) + 1] = x
<1>1. PICK S : s \in Seq(S)
  BY DEF SomeSeq
<1>2. s \in Seq(S \cup {x}) /\ x \in S \cup {x}
  BY <1>1
<1>3. Append(s, x) \in Seq(S \cup {x})
  BY <1>2
<1> QED
  BY <1>2, <1>3 DEF SomeSeq

LEMMA TailFacts ==
  ASSUME NEW s, SomeSeq(s), s # <<>>
  PROVE  /\ SomeSeq(Tail(s)) /\ Len(Tail(s)) = Len(s) - 1 /\ Len(s) \in Nat \ {0}
         /\ \A n \in 1 .. Len(s) - 1 : Tail(s)[n] = s[n + 1]
         /\ Head(s) = s[1]
<1>1. PICK S : s \in Seq(S)
  BY DEF SomeSeq
<1>2. Tail(s) \in Seq(S)
  BY <1>1
<1> QED
  BY <1>1, <1>2 DEF SomeSeq

LEMMA FrontFacts ==
  ASSUME NEW s, SomeSeq(s), s # <<>>
  PROVE  LET r == SubSeq(s, 1, Len(s) - 1) IN
         /\ SomeSeq(r) /\ Len(r) = Len(s) - 1 /\ Len(s) \in Nat \ {0}
         /\ \A n \in 1 .. Len(s) - 1 : r[n] = s[n]
<1>1. PICK S : s \in Seq(S)
  BY DEF SomeSeq
<1>2. Len(s) \in Nat \ {0} /\ \A n \in 1 .. Len(s) - 1 : s[n] \in S
  BY <1>1
<1> DEFINE k == Len(s) - 1
           r == SubSeq(s, 1, k)
<1>3. k \in Nat /\ 1 \in Int /\ k \in Int
  BY <1>2
<1> HIDE DEF k
<1>4. /\ r \in Seq(S) /\ Len(r) = IF 1 <= k THEN k - 1 + 1 ELSE 0
      /\ \A n \in 1 .. k - 1 + 1 : r[n] = s[1 + n - 1]
  BY <1>2, <1>3, SubSeqProperties DEF k
<1>5. Len(r) = k /\ \A n \in 1 .. k : r[n] = s[n]
  BY <1>3, <1>4
<1> QED
  BY <1>2, <1>4, <1>5 DEF SomeSeq, k

\* What is defined at the places of a sequence is one of the same length.
LEMMA SameLength ==
  ASSUME NEW s, SomeSeq(s), NEW r, r = [n \in DOMAIN s |-> r[n]]
  PROVE  SomeSeq(r) /\ Len(r) = Len(s)
<1>1. Len(s) \in Nat /\ DOMAIN s = 1 .. Len(s)
  BY SomeSeqFacts
<1> DEFINE S == {r[n] : n \in DOMAIN s}
<1>2. r \in [1 .. Len(s) -> S]
  BY <1>1
<1>3. r \in Seq(S) /\ Len(r) = Len(s)
  BY <1>1, <1>2
<1> QED
  BY <1>3 DEF SomeSeq

-----------------------------------------------------------------------------
(* The invariant.                                                          *)

\* The shape of a contract and of a transaction.
IsContract(c) == c = [key |-> c.key, build |-> c.build, has |-> c.has]
IsTx(t) ==
    /\ t = [kind |-> t.kind, key |-> t.key, to |-> t.to, build |-> t.build, has |-> t.has,
            mine |-> t.mine]
    /\ t.mine \in BOOLEAN

Shapes ==
    /\ file \in Files
    /\ SomeSeq(code) /\ \A n \in 1 .. Len(code) : IsContract(code[n])
    /\ SomeSeq(pend) /\ \A n \in 1 .. Len(pend) : IsTx(pend[n])
    /\ IsFiniteSet(DOMAIN addr)
    /\ faults \in Nat /\ forgets \in Nat

\* A process is at a step of one of the scripts of its file.
AtSome ==
    /\ pc \in {"off", "step", "wait"} /\ i \in Nat \ {0}
    /\ pc # "off" => \E s \in Scripts : s.name = who
    /\ pc = "wait" => i <= Len(Steps)
    /\ pc # "wait" => receipt = "none"

\* What a process waits for is the one transaction of its own, until it is mined.
WaitsForOne ==
    /\ \A n \in 1 .. Len(pend) : pend[n].mine =>
         /\ pc = "wait" /\ receipt = "none"
         /\ pend[n].kind = Now.kind /\ pend[n].key = Now.key
         /\ \A m \in 1 .. Len(pend) : pend[m].mine => m = n
    /\ receipt # "none" /\ Now.kind = "deploy" =>
         /\ receipt = "mined"
         /\ \E n \in 1 .. Len(code) : code[n].key = Now.key

\* A recorded contract is on the chain.
RecordedExists ==
    \A k \in Reusable \cap DOMAIN addr : \E n \in 1 .. Len(code) : code[n].key = k

\* The contracts under recorded names, those on their way, and the names that
\* account for one of them each: recorded, or about to be.
InCode == {n \in 1 .. Len(code) : code[n].key \in Reusable}
InMempool == {n \in 1 .. Len(pend) : pend[n].kind = "deploy" /\ pend[n].key \in Reusable}
AwaitedNow == receipt = "mined" \/ \E n \in 1 .. Len(pend) : pend[n].mine
Awaited == IF pc = "wait" /\ Now.kind = "deploy" /\ AwaitedNow
           THEN {Now.key} \cap Reusable ELSE {}
Owned == (Reusable \cap DOMAIN addr) \cup Awaited

\* All others were lost to a fault or forgotten.
Accounted == Cardinality(InCode) + Cardinality(InMempool)
                 <= Cardinality(Owned) + faults + forgets

RInv == Shapes /\ AtSome /\ WaitsForOne /\ RecordedExists /\ Accounted

\* The sets that are counted are finite.
LEMMA Counted ==
  ASSUME Shapes
  PROVE  /\ Len(code) \in Nat /\ DOMAIN code = 1 .. Len(code)
         /\ Len(pend) \in Nat /\ DOMAIN pend = 1 .. Len(pend)
         /\ IsFiniteSet(InCode) /\ Cardinality(InCode) \in Nat
         /\ IsFiniteSet(InMempool) /\ Cardinality(InMempool) \in Nat
         /\ IsFiniteSet(Owned) /\ Cardinality(Owned) \in Nat
<1>1. /\ Len(code) \in Nat /\ DOMAIN code = 1 .. Len(code)
      /\ Len(pend) \in Nat /\ DOMAIN pend = 1 .. Len(pend)
  BY SomeSeqFacts DEF Shapes
<1>2. InCode \in SUBSET (1 .. Len(code)) /\ InMempool \in SUBSET (1 .. Len(pend))
  BY DEF InCode, InMempool
<1>3. /\ IsFiniteSet(InCode) /\ Cardinality(InCode) \in Nat
      /\ IsFiniteSet(InMempool) /\ Cardinality(InMempool) \in Nat
  BY <1>1, <1>2, PositionsFinite
<1>4. IsFiniteSet(DOMAIN addr \cup {Now.key})
  BY FS_AddElement DEF Shapes
<1>5. Owned \in SUBSET (DOMAIN addr \cup {Now.key})
  BY DEF Owned, Awaited
<1>6. IsFiniteSet(Owned) /\ Cardinality(Owned) \in Nat
  BY <1>4, <1>5, FS_Subset, FS_CardinalityType
<1> QED
  BY <1>1, <1>3, <1>6

\* So they are after a step.
LEMMA CountedNext ==
  ASSUME Shapes'
  PROVE  /\ Len(code') \in Nat /\ Len(pend') \in Nat
         /\ Cardinality(InCode') \in Nat /\ Cardinality(InMempool') \in Nat
         /\ IsFiniteSet(Owned') /\ Cardinality(Owned') \in Nat
<1>1. Len(code') \in Nat /\ Len(pend') \in Nat
  BY SomeSeqFacts DEF Shapes
<1>2. InCode' \in SUBSET (1 .. Len(code')) /\ InMempool' \in SUBSET (1 .. Len(pend'))
  BY DEF InCode, InMempool
<1>3. Cardinality(InCode') \in Nat /\ Cardinality(InMempool') \in Nat
  BY <1>1, <1>2, PositionsFinite
<1>4. IsFiniteSet((DOMAIN addr)' \cup {Now'.key})
  BY FS_AddElement DEF Shapes
<1>5. Owned' \in SUBSET ((DOMAIN addr)' \cup {Now'.key})
  BY DEF Owned, Awaited
<1>6. IsFiniteSet(Owned') /\ Cardinality(Owned') \in Nat
  BY <1>4, <1>5, FS_Subset, FS_CardinalityType
<1> QED
  BY <1>1, <1>3, <1>6

\* A set of names that loses at most one has at most one less.
LEMMA LosesOne ==
  ASSUME NEW A, NEW B, NEW x, IsFiniteSet(A), IsFiniteSet(B), A \subseteq B \cup {x}
  PROVE  Cardinality(A) <= Cardinality(B) + 1
<1>1. /\ IsFiniteSet(B \cup {x})
      /\ Cardinality(B \cup {x}) = IF x \in B THEN Cardinality(B) ELSE Cardinality(B) + 1
  BY FS_AddElement
<1>2. Cardinality(A) <= Cardinality(B \cup {x})
  BY <1>1, FS_Subset
<1>3. Cardinality(A) \in Nat /\ Cardinality(B) \in Nat
  BY FS_CardinalityType
<1> QED
  BY <1>1, <1>2, <1>3

\* The step a process is at, and how a deployment looks at the record.
LEMMA NowIsStep ==
  ASSUME Shapes, AtSome, pc # "off", i <= Len(Steps)
  PROVE  /\ Now \in UNION {Range(s.steps) : s \in Scripts}
         /\ Now.kind = "deploy" /\ Now.key \in Reusable =>
              Now.looks \in {"file", "args", "read"}
<1>1. PICK mine \in Scripts : mine.name = who
  BY DEF AtSome
<1>2. Named(who) \in Scripts
  BY <1>1 DEF Named
<1> DEFINE steps == UNION {Range(s.steps) : s \in Scripts}
<1>3. Steps \in Seq(steps)
  BY <1>2, RecordAssumption DEF Scripts, Steps, Shapes
<1>4. i \in DOMAIN Steps
  BY <1>3 DEF AtSome
<1>5. Now \in steps
  BY <1>2, <1>4 DEF Now, Steps, Range
<1>6. ASSUME Now.kind = "deploy", Now.key \in Reusable
      PROVE  Now.looks \in {"file", "args", "read"}
  <2>1. PICK t \in steps : t.kind = "deploy" /\ t.looks # "nothing" /\ t.key = Now.key
    BY <1>6 DEF Reusable
  <2> QED
    BY <1>5, <1>6, <2>1, RecordAssumption DEF Scripts, Shapes
<1> QED
  BY <1>5, <1>6

-----------------------------------------------------------------------------
(* Steps that touch neither the chain nor the mempool.                     *)

\* A process that waits for nothing awaits nothing.
LEMMA NothingAwaited ==
  ASSUME RInv, pc # "wait" \/ Gone \/ receipt = "reverted"
  PROVE  /\ Awaited = {}
         /\ \A n \in 1 .. Len(pend) : ~ pend[n].mine
<1>1. DOMAIN pend = 1 .. Len(pend)
  BY Counted DEF RInv
<1>2. \A n \in 1 .. Len(pend) : ~ pend[n].mine
  BY <1>1 DEF RInv, WaitsForOne, Gone
<1>3. Now.kind = "deploy" => pc # "wait" \/ receipt # "mined"
  BY DEF RInv, WaitsForOne, AtSome, Gone
<1> QED
  BY <1>2, <1>3 DEF Awaited, AwaitedNow

LEMMA SameChain ==
  ASSUME RInv, UNCHANGED <<file, code, pend, addr, forgets>>,
         faults' \in Nat, faults' >= faults
  PROVE  /\ Shapes' /\ RecordedExists'
         /\ Owned \subseteq Owned' => Accounted'
<1>1. Shapes'
  BY DEF RInv, Shapes
<1>2. Reusable' = Reusable
  BY DEF Reusable, Scripts
<1>3. RecordedExists'
  BY <1>2 DEF RInv, RecordedExists
<1>4. InCode' = InCode /\ InMempool' = InMempool
  BY <1>2 DEF InCode, InMempool
<1>5. ASSUME Owned \subseteq Owned' PROVE Accounted'
  <2>1. IsFiniteSet(Owned') /\ Cardinality(Owned') \in Nat
    BY <1>1, CountedNext
  <2>2. Cardinality(Owned) <= Cardinality(Owned')
    BY <1>5, <2>1, FS_Subset
  <2>3. /\ Cardinality(InCode) \in Nat /\ Cardinality(InMempool) \in Nat
        /\ Cardinality(Owned) \in Nat /\ faults \in Nat /\ forgets \in Nat
    BY Counted DEF RInv, Shapes
  <2> QED
    BY <1>4, <2>1, <2>2, <2>3 DEF RInv, Accounted
<1> QED
  BY <1>1, <1>3, <1>5

\* The process stays where it is.
LEMMA StandingStep ==
  ASSUME RInv, UNCHANGED <<file, code, pend, addr, forgets, who, i, pc, receipt>>,
         faults' \in Nat, faults' >= faults
  PROVE  RInv'
<1>1. Scripts' = Scripts /\ Steps' = Steps /\ Now' = Now /\ Reusable' = Reusable
  BY DEF Scripts, Steps, Now, Named, Reusable
<1>2. AtSome' /\ WaitsForOne'
  BY <1>1 DEF RInv, AtSome, WaitsForOne
<1>3. Owned' = Owned
  BY <1>1 DEF Owned, Awaited, AwaitedNow
<1> QED
  BY <1>2, <1>3, SameChain DEF RInv

\* It stops, starts or goes on to another step, having waited for nothing.
LEMMA MovingStep ==
  ASSUME RInv, UNCHANGED <<file, code, pend, addr, forgets>>,
         faults' \in Nat, faults' >= faults,
         pc # "wait" \/ Gone \/ receipt = "reverted",
         pc' \in {"off", "step"}, i' \in Nat \ {0}, receipt' = "none",
         pc' # "off" => \E s \in Scripts : s.name = who'
  PROVE  RInv'
<1>1. /\ Awaited = {}
      /\ \A n \in 1 .. Len(pend) : ~ pend[n].mine
  BY NothingAwaited
<1>2. Scripts' = Scripts /\ Reusable' = Reusable
  BY DEF Scripts, Reusable
<1>3. AtSome'
  BY <1>2 DEF AtSome
<1>4. WaitsForOne'
  BY <1>1 DEF WaitsForOne
<1>5. Owned \subseteq Owned'
  BY <1>1, <1>2 DEF Owned
<1> QED
  BY <1>3, <1>4, <1>5, SameChain DEF RInv

LEMMA StopStep ==
  ASSUME RInv, Stop, UNCHANGED <<file, code, pend, addr, forgets>>,
         faults' \in Nat, faults' >= faults,
         pc # "wait" \/ Gone \/ receipt = "reverted"
  PROVE  RInv'
<1>1. pc' = "off" /\ i' = 1 /\ receipt' = "none"
  BY DEF Stop
<1> QED
  BY <1>1, MovingStep

LEMMA AdvanceStep ==
  ASSUME RInv, Advance, UNCHANGED <<file, code, pend, addr, forgets>>,
         faults' \in Nat, faults' >= faults, pc = "step"
  PROVE  RInv'
<1>1. pc' = "step" /\ i' = i + 1 /\ receipt' = "none" /\ who' = who
  BY DEF Advance
<1>2. i' \in Nat \ {0} /\ \E s \in Scripts : s.name = who'
  BY <1>1 DEF RInv, AtSome
<1> QED
  BY <1>1, <1>2, MovingStep

-----------------------------------------------------------------------------
(* The process.                                                            *)

\* A fault is one more.
LEMMA FaultFacts ==
  ASSUME RInv, CanFault \/ faults' = faults
  PROVE  faults' \in Nat /\ faults' >= faults
  BY DEF RInv, Shapes, CanFault

LEMMA QuietSteps ==
  ASSUME RInv,
         \/ Start \/ Reuse \/ Complain \/ Refuse \/ NotOwner \/ Reject \/ Fail \/ GiveUp
         \/ AlreadyVerified \/ Submit \/ WrongCheckout \/ Finish \/ CheckFails
         \/ ExplorerFails \/ CatchUp \/ Again \/ ChangeBuild
         \/ CheckOut \/ PassOther \/ VerifyWith
  PROVE  RInv'
<1> USE DEF chainVars, fileVars, runVars, operatorVars
<1>1. CASE Start
  <2>1. /\ pc = "off" /\ \E n \in DOMAIN file.scripts : who' = file.scripts[n].name
        /\ i' = 1 /\ pc' = "step"
        /\ UNCHANGED <<file, code, pend, addr, forgets, faults, receipt>>
    BY <1>1 DEF Start
  <2>2. \E s \in Scripts : s.name = who'
    BY <2>1 DEF Scripts, Range
  <2>3. receipt = "none"
    BY <2>1 DEF RInv, AtSome
  <2> QED
    BY <2>1, <2>2, <2>3, FaultFacts, MovingStep
<1>2. CASE Reuse
  BY <1>2, FaultFacts, AdvanceStep DEF Reuse, AtStep
<1>3. CASE Complain
  BY <1>3, FaultFacts, StopStep DEF Complain, AtStep
<1>4. CASE Refuse
  BY <1>4, FaultFacts, StopStep DEF Refuse, AtStep
<1>5. CASE NotOwner
  BY <1>5, FaultFacts, StopStep DEF NotOwner
<1>6. CASE Reject
  BY <1>6, FaultFacts, StopStep DEF Reject, AtStep
<1>7. CASE Fail
  BY <1>7, FaultFacts, StopStep DEF Fail
<1>8. CASE GiveUp
  BY <1>8, FaultFacts, StopStep DEF GiveUp
<1>9. CASE AlreadyVerified
  BY <1>9, FaultFacts, AdvanceStep DEF AlreadyVerified, AtVerify
<1>10. CASE Submit
  BY <1>10, FaultFacts, AdvanceStep DEF Submit, AtVerify
<1>11. CASE WrongCheckout
  BY <1>11, FaultFacts, AdvanceStep DEF WrongCheckout, AtVerify
<1>12. CASE Finish
  BY <1>12, FaultFacts, StopStep DEF Finish, AtEnd
<1>13. CASE CheckFails
  BY <1>13, FaultFacts, StopStep DEF CheckFails, AtEnd
<1>14. CASE ExplorerFails
  BY <1>14, FaultFacts, AdvanceStep DEF ExplorerFails, AtVerify
<1>15. CASE CatchUp
  BY <1>15, FaultFacts, StandingStep DEF CatchUp
<1>16. CASE Again
  BY <1>16, FaultFacts, StandingStep DEF Again
<1>17. CASE ChangeBuild
  BY <1>17, FaultFacts, StandingStep DEF ChangeBuild
<1>18. CASE CheckOut
  BY <1>18, FaultFacts, StandingStep DEF CheckOut
<1>19. CASE PassOther
  BY <1>19, FaultFacts, StandingStep DEF PassOther
<1>20. CASE VerifyWith
  BY <1>20, FaultFacts, StandingStep DEF VerifyWith
<1> QED
  BY <1>1, <1>2, <1>3, <1>4, <1>5, <1>6, <1>7, <1>8, <1>9, <1>10, <1>11, <1>12, <1>13,
     <1>14, <1>15, <1>16, <1>17, <1>18, <1>19, <1>20

\* A deployment that is sent is the first under its name that is not recorded.
LEMMA SendStep ==
  ASSUME RInv, Send
  PROVE  RInv'
<1> DEFINE m == Len(pend) + 1
<1>1. /\ pc = "step" /\ i <= Len(Steps) /\ ~ Reuses(Now) /\ pc' = "wait"
      /\ UNCHANGED <<file, code, addr, forgets, faults, who, i, receipt>>
  BY DEF Send, AtStep, Due, fileVars, operatorVars
<1> DEFINE tx == [kind |-> Now.kind, key |-> Now.key, to |-> Address(Now.on),
                  build |-> build, has |-> Wanted(Now), mine |-> TRUE]
<1>2. /\ pend' = Append(pend, tx) /\ IsTx(tx) /\ tx.mine
      /\ tx.kind = Now.kind /\ tx.key = Now.key
  BY DEF Send, IsTx
<1> HIDE DEF tx
<1>3. /\ SomeSeq(pend') /\ Len(pend') = m /\ Len(pend) \in Nat
      /\ \A n \in 1 .. Len(pend) : pend'[n] = pend[n]
      /\ pend'[m] = tx
  BY <1>2, AppendFacts, Counted DEF RInv, Shapes
<1>4. Shapes'
  BY <1>1, <1>2, <1>3 DEF RInv, Shapes
<1>5. /\ Scripts' = Scripts /\ Steps' = Steps /\ Now' = Now /\ Reusable' = Reusable
  BY <1>1 DEF Scripts, Steps, Now, Named, Reusable
<1>6. receipt = "none" /\ AtSome'
  BY <1>1, <1>5 DEF RInv, AtSome
<1>7. Awaited = {} /\ \A n \in 1 .. Len(pend) : ~ pend[n].mine
  BY <1>1, NothingAwaited
<1>8. WaitsForOne'
  <2>1. \A n \in 1 .. m : pend'[n].mine => n = m
    BY <1>3, <1>7
  <2> QED
    BY <1>1, <1>2, <1>3, <1>5, <1>6, <2>1 DEF WaitsForOne
<1>9. RecordedExists'
  BY <1>1, <1>5 DEF RInv, RecordedExists
<1>10. InCode' = InCode
  BY <1>1, <1>5 DEF InCode
<1>11. /\ Cardinality(InCode) \in Nat /\ Cardinality(InMempool) \in Nat
       /\ IsFiniteSet(InMempool) /\ IsFiniteSet(Owned) /\ Cardinality(Owned) \in Nat
       /\ Cardinality(Owned') \in Nat /\ IsFiniteSet(Owned')
       /\ faults \in Nat /\ forgets \in Nat
  BY <1>4, Counted, CountedNext DEF RInv, Shapes
<1>12. CASE Now.kind = "deploy" /\ Now.key \in Reusable
  <2>1. Now.looks \in {"file", "args", "read"}
    BY <1>1, <1>12, NowIsStep DEF RInv
  <2>2. Now.key \notin DOMAIN addr
    BY <1>1, <2>1 DEF Reuses
  <2>3. InMempool' = InMempool \cup {m} /\ m \notin InMempool
    BY <1>2, <1>3, <1>5, <1>12 DEF InMempool
  <2>4. Owned' = Owned \cup {Now.key} /\ Now.key \notin Owned
    <3>1. AwaitedNow'
      BY <1>2, <1>3 DEF AwaitedNow
    <3> QED
      BY <1>1, <1>5, <1>7, <1>12, <2>2, <3>1 DEF Owned, Awaited
  <2>5. Cardinality(InMempool') = Cardinality(InMempool) + 1
    BY <1>11, <2>3, FS_AddElement
  <2>6. Cardinality(Owned') = Cardinality(Owned) + 1
    BY <1>11, <2>4, FS_AddElement
  <2>7. Accounted'
    BY <1>1, <1>10, <1>11, <2>5, <2>6 DEF RInv, Accounted
  <2> QED
    BY <1>4, <1>6, <1>8, <1>9, <2>7 DEF RInv
<1>13. CASE ~ (Now.kind = "deploy" /\ Now.key \in Reusable)
  <2>1. InMempool' = InMempool
    BY <1>2, <1>3, <1>5, <1>13 DEF InMempool
  <2>2. Owned \subseteq Owned'
    BY <1>1, <1>5, <1>7 DEF Owned
  <2>3. Cardinality(Owned) <= Cardinality(Owned')
    BY <1>11, <2>2, FS_Subset
  <2>4. Accounted'
    BY <1>1, <1>10, <1>11, <2>1, <2>3 DEF RInv, Accounted
  <2> QED
    BY <1>4, <1>6, <1>8, <1>9, <2>4 DEF RInv
<1> QED
  BY <1>12, <1>13

\* What was awaited is recorded: the names stay the same.
LEMMA RecordStep ==
  ASSUME RInv, Record
  PROVE  RInv'
<1>1. /\ pc = "wait" /\ receipt = "mined" /\ pc' = "step" /\ i' = i + 1 /\ receipt' = "none"
      /\ addr' = IF Now.kind = "deploy"
                 THEN [k \in DOMAIN addr \cup {Now.key} |->
                          IF k = Now.key THEN newId ELSE addr[k]]
                 ELSE addr
      /\ UNCHANGED <<file, code, pend, forgets, faults, who>>
  BY DEF Record, Confirmed, Advance, chainVars, operatorVars
<1>2. \A n \in 1 .. Len(pend) : ~ pend[n].mine
  BY <1>1 DEF RInv, WaitsForOne
<1>3. Scripts' = Scripts /\ Reusable' = Reusable
  BY <1>1 DEF Scripts, Reusable
<1>4. DOMAIN addr' = IF Now.kind = "deploy" THEN DOMAIN addr \cup {Now.key} ELSE DOMAIN addr
  BY <1>1
<1>5. Shapes'
  BY <1>1, <1>4, FS_AddElement DEF RInv, Shapes
<1>6. AtSome'
  BY <1>1, <1>3 DEF RInv, AtSome
<1>7. WaitsForOne'
  BY <1>1, <1>2 DEF WaitsForOne
<1>8. Now.kind = "deploy" => \E n \in 1 .. Len(code) : code[n].key = Now.key
  BY <1>1 DEF RInv, WaitsForOne
<1>9. RecordedExists'
  BY <1>1, <1>3, <1>4, <1>8 DEF RInv, RecordedExists
<1>10. InCode' = InCode /\ InMempool' = InMempool
  BY <1>1, <1>3 DEF InCode, InMempool
<1>11. Owned' = Owned
  BY <1>1, <1>3, <1>4 DEF Owned, Awaited, AwaitedNow
<1>12. Accounted'
  BY <1>1, <1>10, <1>11 DEF RInv, Accounted
<1> QED
  BY <1>5, <1>6, <1>7, <1>9, <1>12 DEF RInv

-----------------------------------------------------------------------------
(* The chain.                                                              *)

\* A transaction adds a contract, or changes what one is set to.
LEMMA ApplyFacts ==
  ASSUME Shapes, NEW tx, IsTx(tx)
  PROVE  LET c == Apply(tx) IN
         /\ SomeSeq(c) /\ \A n \in 1 .. Len(c) : IsContract(c[n])
         /\ \A n \in 1 .. Len(code) : c[n].key = code[n].key
         /\ tx.kind = "deploy" => Len(c) = Len(code) + 1 /\ c[Len(code) + 1].key = tx.key
         /\ tx.kind # "deploy" => Len(c) = Len(code)
<1>1. SomeSeq(code) /\ Len(code) \in Nat /\ DOMAIN code = 1 .. Len(code)
  BY Counted DEF Shapes
<1>2. CASE tx.kind = "deploy"
  <2> DEFINE new == [key |-> tx.key, build |-> tx.build, has |-> tx.has]
  <2>1. Apply(tx) = Append(code, new)
    BY <1>2 DEF Apply
  <2>2. IsContract(new) /\ new.key = tx.key
    BY DEF IsContract
  <2> HIDE DEF new
  <2>3. /\ SomeSeq(Append(code, new)) /\ Len(Append(code, new)) = Len(code) + 1
        /\ \A n \in 1 .. Len(code) : Append(code, new)[n] = code[n]
        /\ Append(code, new)[Len(code) + 1] = new
    BY <1>1, AppendFacts
  <2>4. \A n \in 1 .. Len(code) + 1 : IsContract(Append(code, new)[n])
    BY <1>1, <2>2, <2>3 DEF Shapes
  <2> QED
    BY <1>2, <2>1, <2>2, <2>3, <2>4
<1>3. CASE tx.kind # "deploy"
  <2> DEFINE c == Apply(tx)
  <2>1. c = [code EXCEPT ![tx.to].has = Overlaid(tx.has, @)]
    BY <1>3 DEF Apply
  <2>2. c = [n \in DOMAIN code |-> c[n]]
    BY <2>1
  <2>3. \A n \in 1 .. Len(code) : /\ IsContract(c[n]) /\ c[n].key = code[n].key
    BY <1>1, <2>1 DEF Shapes, IsContract
  <2> HIDE DEF c
  <2>4. SomeSeq(c) /\ Len(c) = Len(code)
    BY <1>1, <2>2, SameLength
  <2> QED
    BY <1>3, <2>3, <2>4 DEF c
<1> QED
  BY <1>2, <1>3

\* The head leaves the mempool: what is left of it, and whose the head was.
LEMMA HeadLeaves ==
  ASSUME RInv, pend # <<>>, pend' = Tail(pend)
  PROVE  /\ SomeSeq(pend') /\ Len(pend') = Len(pend) - 1 /\ Len(pend) \in Nat \ {0}
         /\ \A n \in 1 .. Len(pend) - 1 : pend'[n] = pend[n + 1]
         /\ Head(pend) = pend[1] /\ IsTx(Head(pend))
         /\ \A n \in 1 .. Len(pend') : IsTx(pend'[n])
         /\ Head(pend).mine =>
              /\ pc = "wait" /\ receipt = "none"
              /\ Head(pend).kind = Now.kind /\ Head(pend).key = Now.key
         /\ \A n \in 1 .. Len(pend') : pend'[n].mine =>
              /\ pc = "wait" /\ receipt = "none" /\ ~ Head(pend).mine
              /\ pend'[n].kind = Now.kind /\ pend'[n].key = Now.key
              /\ \A m \in 1 .. Len(pend') : pend'[m].mine => m = n
<1>1. /\ SomeSeq(pend') /\ Len(pend') = Len(pend) - 1 /\ Len(pend) \in Nat \ {0}
      /\ \A n \in 1 .. Len(pend) - 1 : pend'[n] = pend[n + 1]
      /\ Head(pend) = pend[1]
  BY TailFacts DEF RInv, Shapes
<1>2. 1 \in 1 .. Len(pend) /\ IsTx(Head(pend))
  BY <1>1 DEF RInv, Shapes
<1>3. Head(pend).mine =>
        /\ pc = "wait" /\ receipt = "none"
        /\ Head(pend).kind = Now.kind /\ Head(pend).key = Now.key
  BY <1>1, <1>2 DEF RInv, WaitsForOne
<1>4. ASSUME NEW n \in 1 .. Len(pend')
      PROVE  /\ IsTx(pend'[n])
             /\ pend'[n].mine =>
                  /\ pc = "wait" /\ receipt = "none" /\ ~ Head(pend).mine
                  /\ pend'[n].kind = Now.kind /\ pend'[n].key = Now.key
                  /\ \A m \in 1 .. Len(pend') : pend'[m].mine => m = n
  <2>1. n + 1 \in 1 .. Len(pend) /\ n \in 1 .. Len(pend) - 1 /\ pend'[n] = pend[n + 1]
    BY <1>1
  <2>2. IsTx(pend'[n])
    BY <2>1 DEF RInv, Shapes
  <2>3. ASSUME pend'[n].mine
        PROVE  /\ pc = "wait" /\ receipt = "none" /\ ~ Head(pend).mine
               /\ pend'[n].kind = Now.kind /\ pend'[n].key = Now.key
               /\ \A m \in 1 .. Len(pend') : pend'[m].mine => m = n
    <3>1. /\ pc = "wait" /\ receipt = "none"
          /\ pend'[n].kind = Now.kind /\ pend'[n].key = Now.key
          /\ \A m \in 1 .. Len(pend) : pend[m].mine => m = n + 1
      BY <2>1, <2>3 DEF RInv, WaitsForOne
    <3>2. ~ Head(pend).mine
      BY <1>1, <1>2, <2>1, <3>1
    <3>3. \A m \in 1 .. Len(pend') : pend'[m].mine => m = n
      <4> SUFFICES ASSUME NEW m \in 1 .. Len(pend'), pend'[m].mine PROVE m = n
        OBVIOUS
      <4>1. m + 1 \in 1 .. Len(pend) /\ pend[m + 1].mine
        BY <1>1
      <4> QED
        BY <2>1, <3>1, <4>1
    <3> QED
      BY <3>1, <3>2, <3>3
  <2> QED
    BY <2>2, <2>3
<1> QED
  BY <1>1, <1>2, <1>3, <1>4

\* A transaction is mined: a deployment leaves the mempool for the chain.
LEMMA MineStep ==
  ASSUME RInv, Mine
  PROVE  RInv'
<1> DEFINE tx == Head(pend)
<1>1. /\ pend # <<>> /\ code' = Apply(tx) /\ pend' = Tail(pend)
      /\ faults' = faults \/ CanFault
      /\ receipt' = IF tx.mine THEN "mined" ELSE receipt
      /\ UNCHANGED <<file, addr, who, i, pc, forgets>>
  BY DEF Mine, fileVars, operatorVars
<1>2. /\ SomeSeq(pend') /\ Len(pend') = Len(pend) - 1 /\ Len(pend) \in Nat \ {0}
      /\ \A n \in 1 .. Len(pend) - 1 : pend'[n] = pend[n + 1]
      /\ \A n \in 1 .. Len(pend') : IsTx(pend'[n])
      /\ \A n \in 1 .. Len(pend') : pend'[n].mine =>
           /\ pc = "wait" /\ receipt = "none" /\ ~ tx.mine
           /\ pend'[n].kind = Now.kind /\ pend'[n].key = Now.key
           /\ \A m \in 1 .. Len(pend') : pend'[m].mine => m = n
  BY <1>1, HeadLeaves
<1>3. /\ tx = pend[1] /\ IsTx(tx) /\ 1 \in 1 .. Len(pend)
      /\ tx.mine => /\ pc = "wait" /\ receipt = "none"
                    /\ tx.kind = Now.kind /\ tx.key = Now.key
  BY <1>1, <1>2, HeadLeaves
<1> HIDE DEF tx
<1>4. /\ SomeSeq(code') /\ \A n \in 1 .. Len(code') : IsContract(code'[n])
      /\ \A n \in 1 .. Len(code) : code'[n].key = code[n].key
      /\ tx.kind = "deploy" => Len(code') = Len(code) + 1 /\ code'[Len(code) + 1].key = tx.key
      /\ tx.kind # "deploy" => Len(code') = Len(code)
  BY <1>1, <1>3, ApplyFacts DEF RInv
<1>5. /\ Scripts' = Scripts /\ Steps' = Steps /\ Now' = Now /\ Reusable' = Reusable
  BY <1>1 DEF Scripts, Steps, Now, Named, Reusable
<1>6. faults' \in Nat /\ faults' >= faults
  BY <1>1, FaultFacts
<1>7. Shapes'
  BY <1>1, <1>2, <1>4, <1>6 DEF RInv, Shapes
<1>8. AtSome'
  BY <1>1, <1>3, <1>5 DEF RInv, AtSome
<1>9. Len(code) \in Nat /\ Len(code') \in Nat /\ Len(code) <= Len(code')
  BY <1>4, <1>7, Counted, CountedNext DEF RInv
<1>10. \A k : (\E n \in 1 .. Len(code) : code[n].key = k)
               => \E n \in 1 .. Len(code') : code'[n].key = k
  BY <1>4, <1>9
<1>11. WaitsForOne'
  <2>1. ASSUME NEW n \in 1 .. Len(pend'), pend'[n].mine
        PROVE  /\ pc' = "wait" /\ receipt' = "none"
               /\ pend'[n].kind = Now'.kind /\ pend'[n].key = Now'.key
               /\ \A m \in 1 .. Len(pend') : pend'[m].mine => m = n
    BY <1>1, <1>2, <1>5, <2>1
  <2>2. ASSUME receipt' # "none", Now'.kind = "deploy"
        PROVE  /\ receipt' = "mined"
               /\ \E n \in 1 .. Len(code') : code'[n].key = Now'.key
    <3>1. CASE tx.mine
      <4>1. tx.kind = "deploy" /\ tx.key = Now'.key /\ receipt' = "mined"
        BY <1>1, <1>3, <1>5, <2>2, <3>1
      <4>2. Len(code') \in 1 .. Len(code') /\ code'[Len(code')].key = tx.key
        BY <1>4, <1>9, <4>1
      <4> QED
        BY <4>1, <4>2
    <3>2. CASE ~ tx.mine
      <4>1. receipt' = receipt
        BY <1>1, <3>2
      <4>2. receipt = "mined" /\ \E n \in 1 .. Len(code) : code[n].key = Now.key
        BY <1>5, <2>2, <4>1 DEF RInv, WaitsForOne
      <4> QED
        BY <1>5, <1>10, <4>1, <4>2
    <3> QED
      BY <3>1, <3>2
  <2> QED
    BY <2>1, <2>2 DEF WaitsForOne
<1>12. RecordedExists'
  BY <1>1, <1>5, <1>10 DEF RInv, RecordedExists
<1>13. Owned \subseteq Owned'
  <2>1. ASSUME pc = "wait", Now.kind = "deploy", AwaitedNow PROVE AwaitedNow'
    <3>1. CASE receipt = "mined"
      BY <1>1, <3>1 DEF AwaitedNow
    <3>2. ASSUME NEW n \in 1 .. Len(pend), pend[n].mine PROVE AwaitedNow'
      <4>1. CASE n = 1
        BY <1>1, <1>3, <3>2, <4>1 DEF AwaitedNow
      <4>2. CASE n # 1
        <5>1. n - 1 \in 1 .. Len(pend') /\ pend'[n - 1] = pend[n]
          BY <1>2, <4>2
        <5> QED
          BY <3>2, <5>1 DEF AwaitedNow
      <4> QED
        BY <4>1, <4>2
    <3> QED
      BY <2>1, <3>1, <3>2 DEF AwaitedNow
  <2> QED
    BY <1>1, <1>5, <2>1 DEF Owned, Awaited
<1>14. /\ Cardinality(InCode) \in Nat /\ Cardinality(InMempool) \in Nat
       /\ IsFiniteSet(InCode) /\ Cardinality(Owned) \in Nat
       /\ Cardinality(Owned') \in Nat /\ IsFiniteSet(Owned')
       /\ faults \in Nat /\ forgets \in Nat
  BY <1>7, Counted, CountedNext DEF RInv, Shapes
<1>15. Cardinality(Owned) <= Cardinality(Owned')
  BY <1>13, <1>14, FS_Subset
<1>16. InMempool \in SUBSET (1 .. Len(pend))
       /\ InMempool' = {n \in 1 .. Len(pend) - 1 : n + 1 \in InMempool}
  <2>1. \A n \in 1 .. Len(pend) - 1 : n + 1 \in 1 .. Len(pend) /\ pend'[n] = pend[n + 1]
    BY <1>2
  <2> QED
    BY <1>2, <1>5, <2>1 DEF InMempool
<1>17. Cardinality(InMempool') = IF 1 \in InMempool THEN Cardinality(InMempool) - 1
                                                    ELSE Cardinality(InMempool)
  BY <1>2, <1>16, TailCount
<1>18. 1 \in InMempool <=> tx.kind = "deploy" /\ tx.key \in Reusable
  BY <1>3 DEF InMempool
<1>19. Cardinality(InCode') = IF tx.kind = "deploy" /\ tx.key \in Reusable
                              THEN Cardinality(InCode) + 1 ELSE Cardinality(InCode)
  <2>1. CASE tx.kind = "deploy" /\ tx.key \in Reusable
    <3>1. InCode' = InCode \cup {Len(code) + 1} /\ Len(code) + 1 \notin InCode
      BY <1>4, <1>5, <1>9, <2>1 DEF InCode
    <3> QED
      BY <1>14, <2>1, <3>1, FS_AddElement
  <2>2. CASE ~ (tx.kind = "deploy" /\ tx.key \in Reusable)
    <3>1. InCode' = InCode
      BY <1>4, <1>5, <1>9, <2>2 DEF InCode
    <3> QED
      BY <2>2, <3>1
  <2> QED
    BY <2>1, <2>2
<1>20. Accounted'
  BY SMTT(30), <1>1, <1>6, <1>14, <1>15, <1>17, <1>18, <1>19 DEF RInv, Accounted
<1> QED
  BY <1>7, <1>8, <1>11, <1>12, <1>20 DEF RInv

\* A call that is refused changes nothing that is counted.
LEMMA RevertStep ==
  ASSUME RInv, Revert
  PROVE  RInv'
<1> DEFINE tx == Head(pend)
<1>1. /\ pend # <<>> /\ tx.kind = "call" /\ pend' = Tail(pend)
      /\ faults' \in Nat /\ faults' >= faults
      /\ receipt' = IF tx.mine THEN "reverted" ELSE receipt
      /\ UNCHANGED <<file, code, addr, who, i, pc, forgets>>
  BY FaultFacts DEF Revert, fileVars, operatorVars
<1>2. /\ SomeSeq(pend') /\ Len(pend') = Len(pend) - 1 /\ Len(pend) \in Nat \ {0}
      /\ \A n \in 1 .. Len(pend) - 1 : pend'[n] = pend[n + 1]
      /\ \A n \in 1 .. Len(pend') : IsTx(pend'[n])
      /\ \A n \in 1 .. Len(pend') : pend'[n].mine =>
           /\ pc = "wait" /\ receipt = "none" /\ ~ tx.mine
           /\ pend'[n].kind = Now.kind /\ pend'[n].key = Now.key
           /\ \A m \in 1 .. Len(pend') : pend'[m].mine => m = n
  BY <1>1, HeadLeaves
<1>3. /\ tx = pend[1] /\ IsTx(tx) /\ 1 \in 1 .. Len(pend)
      /\ tx.mine => /\ pc = "wait" /\ receipt = "none"
                    /\ tx.kind = Now.kind /\ tx.key = Now.key
  BY <1>1, <1>2, HeadLeaves
<1> HIDE DEF tx
<1>4. /\ Scripts' = Scripts /\ Steps' = Steps /\ Now' = Now /\ Reusable' = Reusable
  BY <1>1 DEF Scripts, Steps, Now, Named, Reusable
<1>5. Shapes'
  BY <1>1, <1>2 DEF RInv, Shapes
<1>6. tx.mine => pc = "wait" /\ receipt = "none" /\ Now.kind = "call"
  BY <1>1, <1>3
<1>7. AtSome'
  BY <1>1, <1>4, <1>6 DEF RInv, AtSome
<1>8. WaitsForOne'
  <2>1. ASSUME NEW n \in 1 .. Len(pend'), pend'[n].mine
        PROVE  /\ pc' = "wait" /\ receipt' = "none"
               /\ pend'[n].kind = Now'.kind /\ pend'[n].key = Now'.key
               /\ \A m \in 1 .. Len(pend') : pend'[m].mine => m = n
    BY <1>1, <1>2, <1>4, <2>1
  <2>2. receipt' # "none" /\ Now'.kind = "deploy" => receipt' = receipt
    BY <1>1, <1>4, <1>6
  <2> QED
    BY <1>1, <1>4, <2>1, <2>2 DEF RInv, WaitsForOne
<1>9. RecordedExists' /\ InCode' = InCode
  BY <1>1, <1>4 DEF RInv, RecordedExists, InCode
<1>10. Owned \subseteq Owned'
  <2>1. ASSUME pc = "wait", Now.kind = "deploy", AwaitedNow PROVE AwaitedNow'
    <3>1. ~ tx.mine /\ receipt' = receipt
      BY <1>1, <1>6, <2>1
    <3>2. ASSUME NEW n \in 1 .. Len(pend), pend[n].mine PROVE AwaitedNow'
      <4>1. n # 1
        BY <1>3, <3>1, <3>2
      <4>2. n - 1 \in 1 .. Len(pend') /\ pend'[n - 1] = pend[n]
        BY <1>2, <4>1
      <4> QED
        BY <3>2, <4>2 DEF AwaitedNow
    <3> QED
      BY <2>1, <3>1, <3>2 DEF AwaitedNow
  <2> QED
    BY <1>1, <1>4, <2>1 DEF Owned, Awaited
<1>11. /\ Cardinality(InCode) \in Nat /\ Cardinality(InMempool) \in Nat
       /\ Cardinality(Owned) \in Nat
       /\ Cardinality(Owned') \in Nat /\ IsFiniteSet(Owned')
       /\ faults \in Nat /\ forgets \in Nat
  BY <1>5, Counted, CountedNext DEF RInv, Shapes
<1>12. Cardinality(Owned) <= Cardinality(Owned')
  BY <1>10, <1>11, FS_Subset
<1>13. Cardinality(InMempool') = Cardinality(InMempool)
  <2>1. InMempool \in SUBSET (1 .. Len(pend)) /\ 1 \notin InMempool
    BY <1>1, <1>2, <1>3 DEF InMempool
  <2>2. \A n \in 1 .. Len(pend) - 1 : n + 1 \in 1 .. Len(pend) /\ pend'[n] = pend[n + 1]
    BY <1>2
  <2>3. InMempool' = {n \in 1 .. Len(pend) - 1 : n + 1 \in InMempool}
    BY <1>2, <1>4, <2>2 DEF InMempool
  <2> QED
    BY <1>2, <2>1, <2>3, TailCount
<1>14. Accounted'
  BY <1>1, <1>9, <1>11, <1>12, <1>13 DEF RInv, Accounted
<1> QED
  BY <1>5, <1>7, <1>8, <1>9, <1>14 DEF RInv

\* A mempool that forgets loses at most what was awaited.
LEMMA DropStep ==
  ASSUME RInv, Drop
  PROVE  RInv'
<1>1. /\ pend # <<>> /\ pend' = SubSeq(pend, 1, Len(pend) - 1)
      /\ faults' = faults + 1
      /\ UNCHANGED <<file, code, addr, who, i, pc, receipt, forgets>>
  BY DEF Drop, CanFault, fileVars, runVars, operatorVars
<1>2. /\ SomeSeq(pend') /\ Len(pend') = Len(pend) - 1 /\ Len(pend) \in Nat \ {0}
      /\ \A n \in 1 .. Len(pend') : n \in 1 .. Len(pend) /\ pend'[n] = pend[n]
  <2>1. SomeSeq(pend)
    BY DEF RInv, Shapes
  <2> QED
    BY <1>1, <2>1, FrontFacts
<1>3. /\ Scripts' = Scripts /\ Steps' = Steps /\ Now' = Now /\ Reusable' = Reusable
  BY <1>1 DEF Scripts, Steps, Now, Named, Reusable
<1>4. Shapes'
  BY <1>1, <1>2 DEF RInv, Shapes
<1>5. AtSome' /\ WaitsForOne'
  BY <1>1, <1>2, <1>3 DEF RInv, AtSome, WaitsForOne
<1>6. RecordedExists' /\ InCode' = InCode
  BY <1>1, <1>3 DEF RInv, RecordedExists, InCode
<1>7. Owned \subseteq Owned' \cup {Now.key}
  BY <1>1, <1>3 DEF Owned, Awaited
<1>8. /\ Cardinality(InCode) \in Nat /\ Cardinality(InMempool) \in Nat
      /\ IsFiniteSet(InMempool) /\ IsFiniteSet(Owned) /\ Cardinality(Owned) \in Nat
      /\ Cardinality(Owned') \in Nat /\ IsFiniteSet(Owned') /\ Cardinality(InMempool') \in Nat
      /\ faults \in Nat /\ forgets \in Nat
  BY <1>4, Counted, CountedNext DEF RInv, Shapes
<1>9. Cardinality(Owned) <= Cardinality(Owned') + 1
  BY <1>7, <1>8, LosesOne
<1>10. InMempool' \subseteq InMempool
  BY <1>2, <1>3 DEF InMempool
<1>11. Cardinality(InMempool') <= Cardinality(InMempool)
  BY <1>8, <1>10, FS_Subset
<1>12. Accounted'
  BY SMTT(30), <1>1, <1>6, <1>8, <1>9, <1>11 DEF RInv, Accounted
<1> QED
  BY <1>4, <1>5, <1>6, <1>12 DEF RInv

-----------------------------------------------------------------------------
(* Deaths and people.                                                      *)

\* A death costs one name: what the process waited for is nobody's.
LEMMA DieStep ==
  ASSUME RInv, Die
  PROVE  RInv'
<1>1. /\ pend' = [n \in DOMAIN pend |-> [pend[n] EXCEPT !.mine = FALSE]]
      /\ faults' = faults + 1
      /\ pc' = "off" /\ i' = 1 /\ receipt' = "none"
      /\ UNCHANGED <<file, code, addr, forgets>>
  BY DEF Die, CanFault, Stop, fileVars, operatorVars
<1>2. SomeSeq(pend) /\ DOMAIN pend = 1 .. Len(pend)
  BY Counted DEF RInv, Shapes
<1>3. pend' = [n \in DOMAIN pend |-> pend'[n]]
  BY <1>1
<1>4. SomeSeq(pend') /\ Len(pend') = Len(pend)
  BY <1>2, <1>3, SameLength
<1>5. \A n \in 1 .. Len(pend) : /\ IsTx(pend'[n]) /\ ~ pend'[n].mine
                                /\ pend'[n].kind = pend[n].kind /\ pend'[n].key = pend[n].key
  <2> TAKE n \in 1 .. Len(pend)
  <2>1. pend'[n] = [pend[n] EXCEPT !.mine = FALSE] /\ IsTx(pend[n])
    BY <1>1, <1>2 DEF RInv, Shapes
  <2> QED
    BY <2>1 DEF IsTx
<1>6. Scripts' = Scripts /\ Reusable' = Reusable
  BY <1>1 DEF Scripts, Reusable
<1>7. Shapes'
  <2>1. UNCHANGED <<file, code, addr, forgets>> /\ faults' = faults + 1
    BY <1>1
  <2>2. \A n \in 1 .. Len(pend') : IsTx(pend'[n])
    BY <1>4, <1>5
  <2> QED
    BY <1>4, <2>1, <2>2 DEF RInv, Shapes
<1>8. AtSome'
  BY <1>1 DEF AtSome
<1>9. WaitsForOne'
  BY <1>1, <1>4, <1>5 DEF WaitsForOne
<1>10. RecordedExists' /\ InCode' = InCode /\ InMempool' = InMempool
  BY <1>1, <1>4, <1>5, <1>6 DEF RInv, RecordedExists, InCode, InMempool
<1>11. Owned \subseteq Owned' \cup {Now.key}
  BY <1>1, <1>6 DEF Owned, Awaited
<1>12. /\ Cardinality(InCode) \in Nat /\ Cardinality(InMempool) \in Nat
       /\ IsFiniteSet(Owned) /\ Cardinality(Owned) \in Nat
       /\ Cardinality(Owned') \in Nat /\ IsFiniteSet(Owned')
       /\ faults \in Nat /\ forgets \in Nat
  BY <1>7, Counted, CountedNext DEF RInv, Shapes
<1>13. Cardinality(Owned) <= Cardinality(Owned') + 1
  BY <1>11, <1>12, LosesOne
<1>14. Accounted'
  BY <1>1, <1>10, <1>12, <1>13 DEF RInv, Accounted
<1> QED
  BY <1>7, <1>8, <1>9, <1>10, <1>14 DEF RInv

\* So does an entry that is removed.
LEMMA ForgetStep ==
  ASSUME RInv, Forget
  PROVE  RInv'
<1>1. /\ pc = "off" /\ DOMAIN addr' = DOMAIN addr \ {complaint}
      /\ forgets' = forgets + 1
      /\ UNCHANGED <<file, code, pend, who, i, pc, receipt, faults>>
  BY DEF Forget, chainVars, runVars
<1>2. /\ Scripts' = Scripts /\ Steps' = Steps /\ Now' = Now /\ Reusable' = Reusable
  BY <1>1 DEF Scripts, Steps, Now, Named, Reusable
<1>3. Shapes'
  BY SMTT(30), <1>1, FS_RemoveElement DEF RInv, Shapes
<1>4. AtSome' /\ WaitsForOne'
  BY <1>1, <1>2 DEF RInv, AtSome, WaitsForOne
<1>5. RecordedExists' /\ InCode' = InCode /\ InMempool' = InMempool
  BY <1>1, <1>2 DEF RInv, RecordedExists, InCode, InMempool
<1>6. Owned \subseteq Owned' \cup {complaint}
  BY <1>1, <1>2 DEF Owned, Awaited
<1>7. /\ Cardinality(InCode) \in Nat /\ Cardinality(InMempool) \in Nat
      /\ IsFiniteSet(Owned) /\ Cardinality(Owned) \in Nat
      /\ Cardinality(Owned') \in Nat /\ IsFiniteSet(Owned')
      /\ faults \in Nat /\ forgets \in Nat
  BY <1>3, Counted, CountedNext DEF RInv, Shapes
<1>8. Cardinality(Owned) <= Cardinality(Owned') + 1
  BY <1>6, <1>7, LosesOne
<1>9. Accounted'
  BY <1>1, <1>5, <1>7, <1>8 DEF RInv, Accounted
<1> QED
  BY <1>3, <1>4, <1>5, <1>9 DEF RInv

\* What a contract is set to is not counted.
LEMMA SetRevenueStep ==
  ASSUME RInv, SetRevenue
  PROVE  RInv'
<1>1. /\ UNCHANGED <<file, pend, addr, who, i, pc, receipt, forgets, faults>>
      /\ code' = [code EXCEPT ![addr["feeCollector"]].has["revenue"] = addr["revenue"]]
  BY DEF SetRevenue, fileVars, runVars, operatorVars
<1>2. SomeSeq(code) /\ DOMAIN code = 1 .. Len(code)
  BY Counted DEF RInv, Shapes
<1>3. code' = [n \in DOMAIN code |-> code'[n]]
  BY <1>1
<1>4. SomeSeq(code') /\ Len(code') = Len(code)
  BY <1>2, <1>3, SameLength
<1>5. \A n \in 1 .. Len(code) : IsContract(code'[n]) /\ code'[n].key = code[n].key
  BY <1>1, <1>2 DEF RInv, Shapes, IsContract
<1>6. /\ Scripts' = Scripts /\ Steps' = Steps /\ Now' = Now /\ Reusable' = Reusable
  BY <1>1 DEF Scripts, Steps, Now, Named, Reusable
<1>7. Shapes'
  BY <1>1, <1>4, <1>5 DEF RInv, Shapes
<1>8. AtSome' /\ WaitsForOne' /\ RecordedExists'
  BY <1>1, <1>4, <1>5, <1>6 DEF RInv, AtSome, WaitsForOne, RecordedExists
<1>9. InCode' = InCode /\ InMempool' = InMempool /\ Owned' = Owned
  BY <1>1, <1>4, <1>5, <1>6 DEF InCode, InMempool, Owned, Awaited, AwaitedNow
<1> QED
  BY <1>1, <1>7, <1>8, <1>9 DEF RInv, Accounted

-----------------------------------------------------------------------------
(* The theorem.                                                            *)

\* What has been handed in for every name at most once is finite in number.
LEMMA OneForEach ==
  ASSUME NEW m \in Nat, NEW A \in SUBSET (1 .. m), NEW B,
         NEW f, f \in [A -> B], \A y \in B : \E x \in A : f[x] = y
  PROVE  IsFiniteSet(B) /\ Cardinality(B) \in Nat /\ Cardinality(B) <= Cardinality(A)
<1>1. IsFiniteSet(A) /\ Cardinality(A) \in Nat
  BY PositionsFinite
<1>2. f \in Surjection(A, B)
  BY DEF Surjection
<1> QED
  BY <1>1, <1>2, FS_Surjection, FS_CardinalityType

\* The names of the file's contracts are the ones it starts with.
LEMMA RInit == Init => RInv
<1> SUFFICES ASSUME Init PROVE RInv
  OBVIOUS
<1> USE DEF Init
<1>1. file \in Files /\ file.exist \in Seq(STRING)
  BY RecordAssumption
<1> DEFINE m == Len(file.exist)
<1>2. m \in Nat /\ DOMAIN file.exist = 1 .. m
  BY <1>1
<1>3. SomeSeq(code) /\ Len(code) = m
  <2>1. SomeSeq(file.exist)
    BY <1>1 DEF SomeSeq
  <2>2. code = [n \in DOMAIN file.exist |-> code[n]]
    OBVIOUS
  <2> QED
    BY <2>1, <2>2, SameLength
<1>4. \A n \in 1 .. Len(code) : IsContract(code[n]) /\ code[n].key = file.exist[n]
  BY <1>2, <1>3 DEF IsContract
<1>5. SomeSeq(pend) /\ Len(pend) = 0
  <2>1. pend \in Seq({})
    OBVIOUS
  <2> QED
    BY <2>1 DEF SomeSeq
<1>6. IsFiniteSet(DOMAIN addr)
  <2> DEFINE f == [n \in 1 .. m |-> file.exist[n]]
  <2>1. DOMAIN addr = Range(file.exist)
    OBVIOUS
  <2>2. f \in [1 .. m -> Range(file.exist)]
    BY <1>2 DEF Range
  <2>3. \A y \in Range(file.exist) : \E x \in 1 .. m : f[x] = y
    BY <1>2 DEF Range
  <2> DEFINE places == 1 .. m
             names == Range(file.exist)
  <2>4. /\ f \in [places -> names] /\ places \in SUBSET (1 .. m)
        /\ \A y \in names : \E x \in places : f[x] = y
    BY <2>2, <2>3
  <2> HIDE DEF f, places, names, m
  <2>5. IsFiniteSet(names)
    BY ZenonT(90), <1>2, <2>4, OneForEach
  <2> QED
    BY <2>1, <2>5 DEF names
<1>7. Shapes
  <2>1. \A n \in 1 .. Len(code) : IsContract(code[n])
    BY <1>4
  <2>2. \A n \in 1 .. Len(pend) : IsTx(pend[n])
    BY <1>5
  <2>3. faults \in Nat /\ forgets \in Nat
    OBVIOUS
  <2> QED
    BY <1>1, <1>3, <1>5, <1>6, <2>1, <2>2, <2>3 DEF Shapes
<1>8. AtSome /\ WaitsForOne
  BY <1>5 DEF AtSome, WaitsForOne
<1>9. \A k \in Reusable : k \notin Range(file.exist)
  BY DEF Reusable
<1>10. RecordedExists
  BY <1>9 DEF RecordedExists
<1>11. InCode = {}
  BY <1>2, <1>3, <1>4, <1>9 DEF InCode, Range
<1>12. InMempool = {}
  BY <1>5 DEF InMempool
<1>13. Accounted
  BY <1>7, <1>11, <1>12, Counted, FS_EmptySet DEF Accounted
<1> QED
  BY <1>7, <1>8, <1>10, <1>13 DEF RInv

\* Every step keeps the count.
LEMMA RStep == RInv /\ [Next]_vars => RInv'
<1> SUFFICES ASSUME RInv, [Next]_vars PROVE RInv'
  OBVIOUS
<1>1. CASE Chain
  BY <1>1, MineStep, QuietSteps DEF Chain
<1>2. CASE Start
  BY <1>2, QuietSteps
<1>3. CASE Process
  BY <1>3, SendStep, RecordStep, QuietSteps DEF Process
<1>4. CASE Fault
  BY <1>4, RevertStep, DropStep, DieStep, QuietSteps DEF Fault
<1>5. CASE Obey
  BY <1>5, ForgetStep, QuietSteps DEF Obey
<1>6. CASE SetRevenue
  BY <1>6, SetRevenueStep
<1>7. CASE UNCHANGED vars
  <2>1. faults' \in Nat /\ faults' >= faults
    BY <1>7 DEF vars, RInv, Shapes
  <2> QED
    BY <1>7, <2>1, StandingStep DEF vars, chainVars, fileVars, runVars, operatorVars
<1> QED
  BY <1>1, <1>2, <1>3, <1>4, <1>5, <1>6, <1>7 DEF Next

\* What is owned and not yet deployed is on its way.
LEMMA CountShows == RInv => NothingTwice
<1> SUFFICES ASSUME RInv PROVE NothingTwice
  OBVIOUS
<1> DEFINE keys == {k \in Reusable : \E n \in DOMAIN code : code[n].key = k}
           Coming == {k \in Awaited : k \notin keys}
<1>1. /\ Len(code) \in Nat /\ DOMAIN code = 1 .. Len(code)
      /\ Len(pend) \in Nat /\ DOMAIN pend = 1 .. Len(pend)
      /\ Cardinality(InCode) \in Nat
      /\ IsFiniteSet(InMempool) /\ Cardinality(InMempool) \in Nat
      /\ IsFiniteSet(Owned) /\ Cardinality(Owned) \in Nat
  BY Counted DEF RInv
<1>2. {n \in DOMAIN code : code[n].key \in keys} = InCode
  BY <1>1 DEF InCode
<1>3. IsFiniteSet(keys) /\ Cardinality(keys) \in Nat
  <2> DEFINE f == [n \in InCode |-> code[n].key]
  <2>1. InCode \in SUBSET (1 .. Len(code)) /\ f \in [InCode -> keys]
    BY <1>1 DEF InCode
  <2>2. \A y \in keys : \E x \in InCode : f[x] = y
    BY <1>1 DEF InCode
  <2> DEFINE places == InCode
             end == Len(code)
  <2>3. end \in Nat /\ places \in SUBSET (1 .. end) /\ f \in [places -> keys]
    BY <1>1, <2>1
  <2>4. \A y \in keys : \E x \in places : f[x] = y
    BY <2>2
  <2> HIDE DEF f, keys, places, end
  <2> QED
    BY ZenonT(90), <2>3, <2>4, OneForEach
<1>4. Owned \subseteq keys \cup Coming
  BY <1>1 DEF Owned, RInv, RecordedExists, Awaited
<1>5. Coming \subseteq {Now.key}
  BY DEF Awaited
<1>6. Coming # {} => InMempool # {}
  <2> SUFFICES ASSUME Coming # {} PROVE InMempool # {}
    OBVIOUS
  <2>1. /\ pc = "wait" /\ Now.kind = "deploy" /\ AwaitedNow
        /\ Now.key \in Reusable /\ Now.key \notin keys
    BY DEF Awaited
  <2>2. receipt # "mined"
    BY <1>1, <2>1 DEF RInv, WaitsForOne
  <2>3. PICK n \in 1 .. Len(pend) : pend[n].mine
    BY <2>1, <2>2 DEF AwaitedNow
  <2> QED
    BY <2>1, <2>3 DEF RInv, WaitsForOne, InMempool
<1> HIDE DEF keys, Coming
<1>7. Cardinality(Owned) <= Cardinality(keys) + Cardinality(InMempool)
  <2>1. CASE Coming = {}
    <3>1. Owned \subseteq keys
      BY <1>4, <2>1
    <3>2. Cardinality(Owned) <= Cardinality(keys)
      BY <1>3, <3>1, FS_Subset
    <3> QED
      BY <1>1, <1>3, <3>2
  <2>2. CASE Coming # {}
    <3>1. Owned \subseteq keys \cup {Now.key}
      BY <1>4, <1>5
    <3>2. Cardinality(Owned) <= Cardinality(keys) + 1
      BY <1>1, <1>3, <3>1, LosesOne
    <3>3. Cardinality(InMempool) # 0
      BY <1>1, <1>6, <2>2, FS_EmptySet
    <3> QED
      BY <1>1, <1>3, <3>2, <3>3
  <2> QED
    BY <2>1, <2>2
<1>8. Cardinality(InCode) <= Cardinality(keys) + faults + forgets
  BY <1>1, <1>3, <1>7 DEF RInv, Shapes, Accounted
<1> QED
  BY <1>2, <1>8 DEF NothingTwice, keys

\* For every set of files, scripts and inputs: a contract under a recorded name is
\* deployed once, but for one more for every death, lost transaction or entry that
\* the operator removed.  The deploy helpers of the scripts look at the record before
\* they send and write it after the receipt: between the two the process itself owns
\* the name, and only a death leaves it to nobody.
THEOREM DeployedOnce == Spec => []NothingTwice
<1>1. Init => RInv
  BY RInit
<1>2. RInv /\ [Next]_vars => RInv'
  BY RStep
<1>3. RInv => NothingTwice
  BY CountShows
<1> QED
  BY <1>1, <1>2, <1>3, PTL DEF Spec

-----------------------------------------------------------------------------
(* What a finished script leaves behind.                                   *)

\* A name means the same contract, or none, from now on.
Settled(u) == u \in DOMAIN addr \/ u \notin Contracts(file)
\* What was recorded is on the chain, under its name.
Recorded == DOMAIN addr \subseteq Contracts(file) /\ \A k \in DOMAIN addr : There(k)
KeepsExisting == Range(file.exist) \subseteq DOMAIN addr
\* A contract has, of each of these names, the contract that the file means now.
Carries(n, names) == \A u \in names : u \in DOMAIN code[n].has /\ code[n].has[u] = Address(u)

\* What the file alone is asked for was constructed with the contracts of the file.
FileWired ==
    \A st \in StepsOf(file) :
        st.kind = "deploy" /\ st.looks = "file" /\ st.key \in DOMAIN addr =>
            Carries(addr[st.key], st.uses) /\ \A u \in st.uses : Settled(u)

\* Calls on their way, whoever sent them, set contracts to what the file means now.
CallsFit ==
    \A n \in 1 .. Len(pend) :
        /\ pend[n].kind \in {"deploy", "call"}
        /\ pend[n].kind = "call" => \A u \in DOMAIN pend[n].has :
             Lasts(file, u) /\ Settled(u) /\ pend[n].has[u] = Address(u)

\* What a run asks to be removed is not one of them.
ComplaintFits ==
    complaint \in {"none", "checkout"}
    \/ \E st \in StepsOf(file) : st.kind = "deploy" /\ st.looks = "args" /\ st.key = complaint

\* A run has made the steps it has passed.
Passed ==
    pc # "off" =>
        /\ i <= Len(Steps) + 1
        /\ Named(who).needs \subseteq DOMAIN addr
        /\ Named(who).hash = "recorded" => HashInStep(build) /\ poolHash = build.pool
        /\ \A n \in 1 .. i - 1 : Steps[n].kind # "verify" => Made(Steps[n])

\* The transaction of the process is the last, and its contract will be the number the
\* process knows it by; once it is mined the step is made, but for the record.
Waits ==
    pc = "wait" =>
        /\ Now.kind \in {"deploy", "call"}
        /\ ~ Reuses(Now)
        /\ \A n \in 1 .. Len(pend) : pend[n].mine =>
             /\ n = Len(pend)
             /\ pend[n].kind = Now.kind /\ pend[n].key = Now.key /\ pend[n].to = Address(Now.on)
             /\ pend[n].build = build /\ pend[n].has = Wanted(Now)
             /\ Now.kind = "deploy" => newId = Len(code) + Deploys(pend)
        /\ receipt = "mined" =>
             IF Now.kind = "deploy"
             THEN /\ newId \in DOMAIN code
                  /\ code[newId].key = Now.key /\ code[newId].build = build
                  /\ Carries(newId, Now.uses)
             ELSE Has(Now)

\* Where the recorded factory is taken for granted, its pools have the recorded hash,
\* and so has the periphery.
HashKept ==
    (\E s \in Scripts : s.hash = "recorded") =>
        /\ code[addr["factory"]].build.pool = poolHash
        /\ \A k \in PeripheryKeys \cap DOMAIN addr : code[addr[k]].build.declared = poolHash

WInv ==
    /\ Recorded /\ KeepsExisting /\ FileWired /\ CallsFit /\ ComplaintFits /\ Passed /\ Waits
    /\ HashKept

\* The script and the step of a process.
LEMMA RunFacts ==
  ASSUME RInv, pc # "off"
  PROVE  /\ Named(who) \in Scripts /\ Named(who) \in Range(file.scripts)
         /\ Named(who).name = who
         /\ Steps = Named(who).steps /\ Len(Steps) \in Nat /\ DOMAIN Steps = 1 .. Len(Steps)
         /\ i \in Nat \ {0}
         /\ \A n \in 1 .. Len(Steps) :
              Steps[n] \in Range(Steps) /\ Steps[n] \in StepsOf(file)
         /\ i <= Len(Steps) => i \in 1 .. Len(Steps) /\ Now \in StepsOf(file)
<1>1. /\ file \in Files /\ i \in Nat \ {0}
      /\ \E s \in Scripts : s.name = who
  BY DEF RInv, Shapes, AtSome
<1>2. Named(who) \in Scripts /\ Named(who).name = who
  BY <1>1 DEF Named
<1>3. Named(who) \in Range(file.scripts) /\ Steps = Named(who).steps
  BY <1>2 DEF Scripts, Steps
<1> DEFINE S == StepsOf(file)
<1>4. Steps \in Seq(S)
  BY <1>1, <1>3, RecordAssumption DEF StepsOf
<1>5. /\ Len(Steps) \in Nat /\ DOMAIN Steps = 1 .. Len(Steps)
      /\ \A n \in 1 .. Len(Steps) : Steps[n] \in S
  BY <1>4
<1>6. \A n \in 1 .. Len(Steps) : Steps[n] \in Range(Steps)
  BY <1>5 DEF Range
<1>7. i <= Len(Steps) => i \in 1 .. Len(Steps) /\ Now \in S
  BY <1>1, <1>5 DEF Now
<1> QED
  BY <1>1, <1>2, <1>3, <1>5, <1>6, <1>7

\* The kinds of step, and how each looks at what was done.
LEMMA StepKinds ==
  ASSUME file \in Files, NEW st \in StepsOf(file)
  PROVE  /\ st.kind \in {"deploy", "call", "verify"}
         /\ st.kind = "deploy" =>
              /\ st.on = st.key /\ st.key \notin Range(file.exist) /\ st.key \in Contracts(file)
              /\ st.key # "inputs"
              /\ st.looks \in {"file", "args", "read", "nothing"}
         /\ st.kind = "call" => st.looks \in {"chain", "nothing"}
         /\ st.kind = "call" \/ st.looks = "file" => \A u \in st.uses : Lasts(file, u)
<1>1. st.kind \in {"deploy", "call", "verify"}
  <2>1. PICK s \in Range(file.scripts) : st \in Range(s.steps)
    BY DEF StepsOf
  <2>2. PICK n \in DOMAIN s.steps : st = s.steps[n]
    BY <2>1 DEF Range
  <2>3. s \in UNION {Range(g.scripts) : g \in Files}
    BY <2>1
  <2> QED
    BY <2>2, <2>3, FilesAssumption
<1>2. /\ "inputs" \notin Contracts(file)
      /\ st.kind = "deploy" => /\ st.on = st.key /\ st.key \notin Range(file.exist)
                               /\ st.looks \in {"file", "args", "read", "nothing"}
      /\ st.kind = "call" => st.looks \in {"chain", "nothing"}
      /\ st.kind = "call" \/ st.looks = "file" => \A u \in st.uses : Lasts(file, u)
  BY NamingAssumption
<1>3. st.kind = "deploy" => st.key \in Contracts(file)
  BY DEF Contracts
<1> QED
  BY <1>1, <1>2, <1>3

\* What a script knows at its step is recorded.
LEMMA KnownRecorded ==
  ASSUME RInv, WInv, pc # "off", i <= Len(Steps)
  PROVE  /\ KnownAt(file, Named(who), i) \subseteq DOMAIN addr
         /\ \A u \in Now.uses : Settled(u)
         /\ Now.kind = "call" => Now.on \in DOMAIN addr
<1>1. /\ Named(who) \in Range(file.scripts) /\ Steps = Named(who).steps
      /\ DOMAIN Steps = 1 .. Len(Steps) /\ i \in 1 .. Len(Steps) /\ file \in Files
      /\ Len(Steps) \in Nat
  BY RunFacts DEF RInv, Shapes
<1>2. \A m \in 1 .. i - 1 : Steps[m].kind = "deploy" => Steps[m].key \in DOMAIN addr
  BY DEF WInv, Passed, Made, There
<1>3. KnownAt(file, Named(who), i) \subseteq DOMAIN addr
  BY <1>1, <1>2 DEF KnownAt, WInv, KeepsExisting, Passed
<1>4. /\ Now.uses \cap Contracts(file) \subseteq KnownAt(file, Named(who), i)
      /\ Now.kind = "call" => Now.on \in KnownAt(file, Named(who), i)
  BY <1>1, NamingAssumption DEF Now
<1> QED
  BY <1>3, <1>4 DEF Settled

-----------------------------------------------------------------------------
(* Steps of the process that change neither the chain nor the record.      *)

\* A name other than the inputs means what it meant.
LEMMA SameAddress ==
  ASSUME addr' = addr, NEW u, u # "inputs" \/ inputs' = inputs
  PROVE  Address(u)' = Address(u)
  BY DEF Address

LEMMA SameRecord ==
  ASSUME RInv, WInv, UNCHANGED <<file, code, pend, addr>>,
         poolHash' = poolHash \/ \A s \in Scripts : s.hash # "recorded"
  PROVE  /\ Recorded' /\ KeepsExisting' /\ FileWired' /\ CallsFit' /\ HashKept'
<1>1. file \in Files
  BY DEF RInv, Shapes
<1>2. \A u : Lasts(file, u) => Address(u)' = Address(u) /\ (Settled(u) => Settled(u)')
  BY SameAddress DEF Lasts, Settled
<1>3. Recorded' /\ KeepsExisting'
  BY DEF WInv, Recorded, KeepsExisting, There
<1>4. FileWired'
  <2> SUFFICES ASSUME NEW st \in StepsOf(file), st.kind = "deploy", st.looks = "file",
                      st.key \in DOMAIN addr
               PROVE  Carries(addr[st.key], st.uses)' /\ \A u \in st.uses : Settled(u)'
    BY DEF FileWired
  <2>1. \A u \in st.uses : Lasts(file, u)
    BY <1>1, StepKinds
  <2>2. Carries(addr[st.key], st.uses) /\ \A u \in st.uses : Settled(u)
    BY DEF WInv, FileWired
  <2> QED
    BY <1>2, <2>1, <2>2 DEF Carries
<1>5. CallsFit'
  BY <1>2 DEF WInv, CallsFit
<1>6. HashKept'
  BY DEF WInv, HashKept, Scripts
<1> QED
  BY <1>3, <1>4, <1>5, <1>6

\* The process is off, and what it asks for is nothing or the name of a contract that
\* it compares the arguments of.
LEMMA OffStep ==
  ASSUME RInv, WInv, UNCHANGED <<file, code, pend, addr, poolHash>>, pc' = "off", ComplaintFits'
  PROVE  WInv'
  BY SameRecord DEF WInv, Passed, Waits

\* The process goes on with the next step, having made this one.
LEMMA NextStep ==
  ASSUME RInv, WInv, UNCHANGED <<file, code, pend, addr, poolHash, build, inputs, complaint>>,
         pc # "off", i <= Len(Steps), Now.kind # "verify" => Made(Now), Advance
  PROVE  WInv'
<1>1. pc' = "step" /\ i' = i + 1 /\ who' = who
  BY DEF Advance
<1>2. Scripts' = Scripts /\ Steps' = Steps /\ Named(who)' = Named(who)
  BY <1>1 DEF Scripts, Steps, Named
<1>3. Len(Steps) \in Nat /\ i \in 1 .. Len(Steps)
  BY RunFacts
<1>4. \A n \in 1 .. i : Steps[n].kind # "verify" => Made(Steps[n])
  <2> TAKE n \in 1 .. i
  <2>1. CASE n = i
    BY <2>1 DEF Now
  <2>2. CASE n # i
    BY <1>3, <2>2 DEF WInv, Passed
  <2> QED
    BY <2>1, <2>2
<1>5. Passed'
  <2>1. \A n \in 1 .. i' - 1 : Steps[n].kind # "verify" => Made(Steps[n])'
    BY <1>1, <1>2, <1>3, <1>4 DEF Made, There, Has, Address
  <2> QED
    BY <1>1, <1>2, <1>3, <2>1 DEF WInv, Passed, HashInStep
<1>6. ComplaintFits'
  BY DEF WInv, ComplaintFits
<1>7. Waits'
  BY <1>1 DEF Waits
<1> QED
  BY <1>5, <1>6, <1>7, SameRecord DEF WInv

\* A step that is reused was made.
LEMMA ReusedIsMade ==
  ASSUME RInv, WInv, Reuse
  PROVE  Made(Now)
<1>1. pc = "step" /\ i <= Len(Steps) /\ Now.kind # "verify"
  BY DEF Reuse, AtStep
<1>2. Now \in StepsOf(file) /\ file \in Files
  BY <1>1, RunFacts DEF RInv, Shapes
<1>3. TRUE \in Answers(Now) => Has(Now)
  BY DEF Answers
<1>4. CASE Now.kind = "call"
  BY <1>2, <1>3, <1>4, StepKinds DEF Reuse, Reuses, Made
<1>5. CASE Now.kind = "deploy"
  <2>1. /\ Now.key \in DOMAIN addr /\ Now.on = Now.key /\ Now.key # "inputs"
        /\ Now.looks \in {"file", "args", "read"}
    BY <1>2, <1>5, StepKinds DEF Reuse, Reuses
  <2>2. There(Now.key) /\ Address(Now.on) = addr[Now.key]
    BY <2>1 DEF WInv, Recorded, Address
  <2>3. CASE Now.looks = "file"
    <3>1. Carries(addr[Now.key], Now.uses)
      BY <1>2, <1>5, <2>1, <2>3 DEF WInv, FileWired
    <3> QED
      BY <1>5, <2>2, <3>1 DEF Made, Has, Carries, There
  <2>4. CASE Now.looks = "args"
    <3>1. code[addr[Now.key]].has = Wanted(Now)
      BY <2>4 DEF Reuse, SameArguments
    <3> QED
      BY <1>5, <2>2, <3>1 DEF Made, Has, Wanted, There
  <2>5. CASE Now.looks = "read"
    BY <1>3, <2>2, <2>5 DEF Reuse, Made
  <2> QED
    BY <2>1, <2>3, <2>4, <2>5
<1> QED
  BY <1>1, <1>2, <1>4, <1>5, StepKinds

\* A script starts with what it needs, in a checkout that fits.
LEMMA StartsFit ==
  ASSUME RInv, WInv, Start
  PROVE  WInv'
<1>1. /\ UNCHANGED <<file, code, pend, addr, build, inputs, complaint>>
      /\ pc' = "step" /\ i' = 1
  BY DEF Start, chainVars, operatorVars
<1>2. PICK n \in DOMAIN file.scripts :
        /\ Preflight(file.scripts[n])
        /\ who' = file.scripts[n].name
        /\ poolHash' = IF file.scripts[n].hash = "declared" THEN build.pool ELSE poolHash
  BY DEF Start
<1> DEFINE s == file.scripts[n]
<1>3. file \in Files /\ s \in Range(file.scripts) /\ s \in Scripts /\ Scripts' = Scripts
  BY <1>1 DEF RInv, Shapes, Range, Scripts
<1>4. Named(who)' = s
  BY <1>2, <1>3, NamingAssumption DEF Named, Scripts
<1>5. poolHash' = poolHash \/ \A t \in Scripts : t.hash # "recorded"
  BY <1>2, <1>3, HashAssumption DEF Scripts
<1>6. s.needs \subseteq DOMAIN addr /\ Fits(s)
  BY <1>2 DEF Preflight
<1>7. s.hash = "recorded" => HashInStep(build) /\ poolHash' = build.pool
  BY <1>2, <1>6 DEF Fits
<1>8. s.steps \in Seq(StepsOf(file))
  BY <1>3, RecordAssumption DEF StepsOf
<1>9. Len(s.steps) \in Nat
  BY <1>8
<1>10. Passed'
  <2>1. Steps' = s.steps
    BY <1>4 DEF Steps
  <2>2. 1 .. 1 - 1 = {}
    OBVIOUS
  <2> QED
    BY <1>1, <1>4, <1>6, <1>7, <1>9, <2>1, <2>2 DEF Passed, HashInStep
<1>11. ComplaintFits' /\ Waits'
  BY <1>1 DEF WInv, ComplaintFits, Waits
<1> QED
  BY <1>1, <1>5, <1>10, <1>11, SameRecord DEF WInv

-----------------------------------------------------------------------------
(* The chain and the mempool.                                              *)

\* No contract goes away, and what changes in one is set to what the file means.
Grows ==
    \A n \in DOMAIN code :
        /\ n \in DOMAIN code'
        /\ code'[n].key = code[n].key /\ code'[n].build = code[n].build
        /\ \A u \in DOMAIN code[n].has :
             u \in DOMAIN code'[n].has /\ code'[n].has[u] \in {code[n].has[u], Address(u)}

LEMMA GrownChain ==
  ASSUME RInv, WInv, Grows, UNCHANGED <<file, addr, poolHash, inputs, who, i, pc, build, complaint>>
  PROVE  /\ Recorded' /\ KeepsExisting' /\ FileWired' /\ HashKept' /\ ComplaintFits' /\ Passed'
         /\ \A n \in DOMAIN code : \A names : Carries(n, names) => Carries(n, names)'
<1>1. file \in Files /\ Scripts' = Scripts /\ Steps' = Steps /\ Named(who)' = Named(who)
  BY DEF RInv, Shapes, Scripts, Steps, Named
<1>2. \A u : Address(u)' = Address(u) /\ Settled(u)' = Settled(u)
  BY SameAddress DEF Settled
<1>3. \A n \in DOMAIN code : \A names : Carries(n, names) => Carries(n, names)'
  BY <1>2 DEF Carries, Grows
<1>4. \A k \in DOMAIN addr : There(k) /\ addr[k] \in DOMAIN code
  BY DEF WInv, Recorded, There
<1>5. Recorded' /\ KeepsExisting'
  BY <1>4 DEF WInv, Recorded, KeepsExisting, There, Grows
<1>6. FileWired'
  <2> SUFFICES ASSUME NEW st \in StepsOf(file), st.kind = "deploy", st.looks = "file",
                      st.key \in DOMAIN addr
               PROVE  Carries(addr[st.key], st.uses)' /\ \A u \in st.uses : Settled(u)'
    BY DEF FileWired
  <2>1. Carries(addr[st.key], st.uses) /\ \A u \in st.uses : Settled(u)
    BY DEF WInv, FileWired
  <2>2. addr[st.key] \in DOMAIN code
    BY <1>4
  <2> QED
    BY <1>2, <2>1, <2>2 DEF Carries, Grows
<1>7. HashKept'
  <2> SUFFICES ASSUME NEW s \in Scripts, s.hash = "recorded"
               PROVE  /\ code'[addr["factory"]].build.pool = poolHash
                      /\ \A k \in PeripheryKeys \cap DOMAIN addr :
                           code'[addr[k]].build.declared = poolHash
    BY <1>1 DEF HashKept
  <2>1. /\ code[addr["factory"]].build.pool = poolHash
        /\ \A k \in PeripheryKeys \cap DOMAIN addr : code[addr[k]].build.declared = poolHash
    BY DEF WInv, HashKept
  <2>2. "factory" \in DOMAIN addr
    BY <1>1, HashAssumption DEF Scripts, WInv, KeepsExisting
  <2> QED
    BY <1>4, <2>1, <2>2 DEF Grows
<1>8. ComplaintFits'
  BY DEF WInv, ComplaintFits
<1>9. Passed'
  <2> SUFFICES ASSUME pc # "off" PROVE Passed'
    BY DEF Passed
  <2>1. \A n \in 1 .. i - 1 : Steps[n].kind # "verify" => Made(Steps[n])'
    <3> SUFFICES ASSUME NEW n \in 1 .. i - 1, Steps[n].kind # "verify"
                 PROVE  Made(Steps[n])'
      OBVIOUS
    <3>1. Made(Steps[n])
      BY DEF WInv, Passed
    <3> DEFINE st == Steps[n]
               c == Address(st.on)
    <3>2. /\ st.kind = "deploy" => /\ st.key \in DOMAIN addr /\ addr[st.key] \in DOMAIN code
                                   /\ code[addr[st.key]].key = st.key
          /\ c \in DOMAIN code
          /\ \A u \in st.uses : u \in DOMAIN code[c].has /\ code[c].has[u] = Address(u)
      BY <3>1 DEF Made, There, Has
    <3>3. /\ st.kind = "deploy" => /\ st.key \in DOMAIN addr /\ addr[st.key] \in DOMAIN code'
                                   /\ code'[addr[st.key]].key = st.key
          /\ c \in DOMAIN code'
          /\ \A u \in st.uses : u \in DOMAIN code'[c].has /\ code'[c].has[u] = Address(u)
      BY <3>2 DEF Grows
    <3>4. st' = st /\ st.kind # "verify"
      BY <1>1
    <3>5. Address(st.on)' = c
      BY <3>4, SameAddress
    <3> HIDE DEF st, c
    <3>6. Made(st)'
      BY <1>2, <3>3, <3>4, <3>5 DEF Made, There, Has
    <3> QED
      BY <3>6 DEF st
  <2> QED
    BY <1>1, <2>1 DEF WInv, Passed, HashInStep
<1> QED
  BY <1>3, <1>5, <1>6, <1>7, <1>8, <1>9

\* What a transaction does to the contracts.
LEMMA ApplyHas ==
  ASSUME Shapes, NEW tx, IsTx(tx)
  PROVE  LET c == Apply(tx) IN
         /\ tx.kind = "deploy" =>
              /\ \A n \in 1 .. Len(code) : c[n] = code[n]
              /\ c[Len(code) + 1] = [key |-> tx.key, build |-> tx.build, has |-> tx.has]
         /\ tx.kind # "deploy" => \A n \in 1 .. Len(code) :
              /\ c[n].build = code[n].build
              /\ c[n].has = IF n = tx.to THEN Overlaid(tx.has, code[n].has) ELSE code[n].has
<1>1. SomeSeq(code) /\ Len(code) \in Nat /\ DOMAIN code = 1 .. Len(code)
  BY Counted DEF Shapes
<1>2. CASE tx.kind = "deploy"
  <2> DEFINE new == [key |-> tx.key, build |-> tx.build, has |-> tx.has]
  <2>1. Apply(tx) = Append(code, new)
    BY <1>2 DEF Apply
  <2> HIDE DEF new
  <2>2. /\ \A n \in 1 .. Len(code) : Append(code, new)[n] = code[n]
        /\ Append(code, new)[Len(code) + 1] = new
    BY <1>1, AppendFacts
  <2> QED
    BY <1>2, <2>1, <2>2 DEF new
<1>3. CASE tx.kind # "deploy"
  <2>1. Apply(tx) = [code EXCEPT ![tx.to].has = Overlaid(tx.has, @)]
    BY <1>3 DEF Apply
  <2> SUFFICES ASSUME NEW n \in 1 .. Len(code)
               PROVE  /\ Apply(tx)[n].build = code[n].build
                      /\ Apply(tx)[n].has = IF n = tx.to THEN Overlaid(tx.has, code[n].has)
                                                         ELSE code[n].has
    BY <1>3
  <2>2. IsContract(code[n])
    BY DEF Shapes
  <2> QED
    BY <1>1, <2>1, <2>2 DEF IsContract
<1> QED
  BY <1>2, <1>3

\* How many deployments are on their way: one more, one less, none.
LEMMA DeploysAppend ==
  ASSUME SomeSeq(pend), NEW tx
  PROVE  /\ Deploys(pend) \in Nat
         /\ Deploys(Append(pend, tx)) = Deploys(pend) + IF tx.kind = "deploy" THEN 1 ELSE 0
<1> DEFINE m == Len(pend)
           A == {n \in 1 .. m : pend[n].kind = "deploy"}
           B == {n \in 1 .. m + 1 : Append(pend, tx)[n].kind = "deploy"}
<1>1. /\ m \in Nat /\ DOMAIN pend = 1 .. m
      /\ SomeSeq(Append(pend, tx)) /\ Len(Append(pend, tx)) = m + 1
      /\ \A n \in 1 .. m : Append(pend, tx)[n] = pend[n]
      /\ Append(pend, tx)[m + 1] = tx
  BY SomeSeqFacts, AppendFacts
<1>2. DOMAIN Append(pend, tx) = 1 .. m + 1
  BY <1>1, SomeSeqFacts
<1>3. Deploys(pend) = Cardinality(A) /\ Deploys(Append(pend, tx)) = Cardinality(B)
  BY <1>1, <1>2 DEF Deploys
<1>4. IsFiniteSet(A) /\ Cardinality(A) \in Nat
  <2>1. A \in SUBSET (1 .. m)
    OBVIOUS
  <2> QED
    BY <1>1, <2>1, PositionsFinite
<1>5. B = IF tx.kind = "deploy" THEN A \cup {m + 1} ELSE A
  BY <1>1
<1>6. m + 1 \notin A
  BY <1>1
<1> HIDE DEF A, B, m
<1> QED
  BY <1>3, <1>4, <1>5, <1>6, FS_AddElement

LEMMA DeploysTail ==
  ASSUME SomeSeq(pend), pend # <<>>
  PROVE  /\ Deploys(pend) \in Nat
         /\ Deploys(Tail(pend)) = Deploys(pend) - IF pend[1].kind = "deploy" THEN 1 ELSE 0
<1> DEFINE m == Len(pend)
           r == Tail(pend)
           A == {n \in 1 .. m : pend[n].kind = "deploy"}
<1>1. /\ m \in Nat \ {0} /\ DOMAIN pend = 1 .. m
      /\ SomeSeq(r) /\ Len(r) = m - 1
      /\ \A n \in 1 .. m - 1 : r[n] = pend[n + 1]
  BY SomeSeqFacts, TailFacts
<1>2. DOMAIN r = 1 .. m - 1
  BY <1>1, SomeSeqFacts
<1>3. Deploys(pend) = Cardinality(A)
  BY <1>1 DEF Deploys
<1>4. Deploys(r) = Cardinality({n \in 1 .. m - 1 : n + 1 \in A})
  <2>1. {n \in 1 .. m - 1 : r[n].kind = "deploy"} = {n \in 1 .. m - 1 : n + 1 \in A}
    BY <1>1
  <2> QED
    BY <1>2, <2>1 DEF Deploys
<1>5. A \in SUBSET (1 .. m)
  OBVIOUS
<1>6. Cardinality(A) \in Nat
  BY <1>1, <1>5, PositionsFinite
<1>7. 1 \in A <=> pend[1].kind = "deploy"
  BY <1>1
<1> HIDE DEF A, m, r
<1>8. Cardinality({n \in 1 .. m - 1 : n + 1 \in A})
          = IF 1 \in A THEN Cardinality(A) - 1 ELSE Cardinality(A)
  BY <1>1, <1>5, TailCount
<1> QED
  BY <1>3, <1>4, <1>6, <1>7, <1>8 DEF r

\* The process sends what its step wants, behind all that is on its way.
LEMMA SendFits ==
  ASSUME RInv, WInv, Send
  PROVE  WInv'
<1> DEFINE m == Len(pend) + 1
           tx == [kind |-> Now.kind, key |-> Now.key, to |-> Address(Now.on),
                  build |-> build, has |-> Wanted(Now), mine |-> TRUE]
<1>1. /\ pc = "step" /\ i <= Len(Steps) /\ Now.kind # "verify" /\ ~ Reuses(Now)
      /\ pend' = Append(pend, tx) /\ pc' = "wait"
      /\ newId' = IF Now.kind = "deploy" THEN Len(code) + Deploys(pend) + 1 ELSE 0
      /\ UNCHANGED <<file, code, addr, poolHash, who, i, receipt, build, inputs, complaint>>
  BY DEF Send, AtStep, Due, fileVars, operatorVars
<1>2. /\ Scripts' = Scripts /\ Steps' = Steps /\ Named(who)' = Named(who) /\ Now' = Now
      /\ \A u : Address(u)' = Address(u) /\ Settled(u)' = Settled(u)
  BY <1>1, SameAddress DEF Scripts, Steps, Named, Now, Settled
<1>3. file \in Files /\ Now \in StepsOf(file) /\ Now.kind \in {"deploy", "call"}
  BY <1>1, RunFacts, StepKinds DEF RInv, Shapes
<1>4. /\ SomeSeq(pend) /\ Len(pend) \in Nat /\ Len(pend') = m
      /\ \A n \in 1 .. Len(pend) : pend'[n] = pend[n] /\ ~ pend[n].mine
      /\ pend'[m] = tx
  <2>1. SomeSeq(pend) /\ Len(pend) \in Nat
    BY Counted DEF RInv, Shapes
  <2>2. \A n \in 1 .. Len(pend) : ~ pend[n].mine
    BY <1>1, NothingAwaited
  <2> HIDE DEF tx
  <2> QED
    BY <1>1, <2>1, <2>2, AppendFacts
<1>5. /\ tx.kind = Now.kind /\ tx.key = Now.key /\ tx.to = Address(Now.on)
      /\ tx.build = build /\ tx.has = Wanted(Now)
  OBVIOUS
<1>6. Recorded' /\ KeepsExisting' /\ FileWired' /\ HashKept' /\ ComplaintFits'
  BY <1>1, <1>2 DEF WInv, Recorded, KeepsExisting, FileWired, HashKept, ComplaintFits, There, Carries
<1>7. CallsFit'
  <2> SUFFICES ASSUME NEW n \in 1 .. m
               PROVE  /\ pend'[n].kind \in {"deploy", "call"}
                      /\ pend'[n].kind = "call" => \A u \in DOMAIN pend'[n].has :
                           Lasts(file, u) /\ Settled(u) /\ pend'[n].has[u] = Address(u)
    BY <1>1, <1>2, <1>4 DEF CallsFit
  <2>1. CASE n = m
    <3>1. \A u \in Now.uses : Settled(u)
      BY <1>1, KnownRecorded
    <3>2. Now.kind = "call" => \A u \in Now.uses : Lasts(file, u)
      BY <1>3, StepKinds
    <3> QED
      BY <1>3, <1>4, <1>5, <2>1, <3>1, <3>2 DEF Wanted
  <2>2. CASE n # m
    <3>1. n \in 1 .. Len(pend)
      BY <1>4, <2>2
    <3> QED
      BY <1>4, <3>1 DEF WInv, CallsFit
  <2> QED
    BY <2>1, <2>2
<1>8. Passed'
  <2> SUFFICES \A n \in 1 .. i - 1 : Steps[n].kind # "verify" => Made(Steps[n])'
    BY <1>1, <1>2 DEF WInv, Passed, HashInStep
  <2>1. \A n \in 1 .. i - 1 : Steps[n].kind # "verify" => Made(Steps[n])
    BY <1>1 DEF WInv, Passed
  <2> QED
    BY <1>1, <1>2, <2>1 DEF Made, There, Has, Address
<1>9. Waits'
  <2>1. ~ Reuses(Now)'
    BY <1>1, <1>2 DEF Reuses
  <2>2. receipt = "none"
    BY <1>1 DEF RInv, AtSome
  <2>3. ASSUME NEW n \in 1 .. m, pend'[n].mine
        PROVE  /\ n = m
               /\ pend'[n].kind = Now.kind /\ pend'[n].key = Now.key
               /\ pend'[n].to = Address(Now.on)
               /\ pend'[n].build = build /\ pend'[n].has = Wanted(Now)
               /\ Now.kind = "deploy" => newId' = Len(code) + Deploys(pend')
    <3>1. n = m
      BY <1>4, <2>3
    <3>2. /\ Deploys(pend) \in Nat /\ Len(code) \in Nat
          /\ Deploys(pend') = Deploys(pend) + IF tx.kind = "deploy" THEN 1 ELSE 0
      BY <1>1, <1>4, DeploysAppend, Counted DEF RInv
    <3>3. Now.kind = "deploy" => newId' = Len(code) + Deploys(pend')
      BY <1>1, <1>5, <3>2
    <3> QED
      BY <1>4, <1>5, <3>1, <3>3
  <2>4. Wanted(Now)' = Wanted(Now) /\ Address(Now.on)' = Address(Now.on)
    BY <1>1, <1>2 DEF Wanted, Address
  <2> HIDE DEF tx, m
  <2> QED
    BY <1>1, <1>2, <1>3, <1>4, <2>1, <2>2, <2>3, <2>4 DEF Waits
<1> QED
  BY <1>6, <1>7, <1>8, <1>9 DEF WInv

\* The first transaction leaves the mempool: whose the others are.
LEMMA OthersWait ==
  ASSUME RInv, WInv, pend # <<>>, pend' = Tail(pend), UNCHANGED <<file, addr, inputs>>
  PROVE  /\ CallsFit'
         /\ pend[1].kind \in {"deploy", "call"}
         /\ pend[1].mine => Len(pend) = 1 /\ pc = "wait"
         /\ Deploys(pend) \in Nat
         /\ Deploys(pend') = Deploys(pend) - IF pend[1].kind = "deploy" THEN 1 ELSE 0
         /\ Len(pend) \in Nat \ {0} /\ Len(pend') = Len(pend) - 1
         /\ \A n \in 1 .. Len(pend') : pend'[n].mine =>
              /\ ~ pend[1].mine /\ pc = "wait" /\ receipt = "none"
              /\ n = Len(pend') /\ pend'[n] = pend[n + 1] /\ n + 1 \in 1 .. Len(pend)
<1>1. /\ Len(pend') = Len(pend) - 1 /\ Len(pend) \in Nat \ {0}
      /\ \A n \in 1 .. Len(pend) - 1 : pend'[n] = pend[n + 1]
      /\ Head(pend) = pend[1]
      /\ \A n \in 1 .. Len(pend') : pend'[n].mine =>
           pc = "wait" /\ receipt = "none" /\ ~ Head(pend).mine
  BY HeadLeaves
<1>2. 1 \in 1 .. Len(pend)
  BY <1>1
<1>3. \A n \in 1 .. Len(pend') : n + 1 \in 1 .. Len(pend) /\ n \in 1 .. Len(pend) - 1
  BY <1>1
<1>4. CallsFit'
  BY <1>1, <1>3, SameAddress DEF WInv, CallsFit, Settled
<1>5. pend[1].mine => pc = "wait"
  BY <1>2 DEF RInv, WaitsForOne
<1>6. \A n \in 1 .. Len(pend) : pend[n].mine => n = Len(pend)
  BY DEF RInv, WaitsForOne, WInv, Waits
<1>7. pend[1].kind \in {"deploy", "call"}
  BY <1>2 DEF WInv, CallsFit
<1>8. /\ Deploys(pend) \in Nat
      /\ Deploys(pend') = Deploys(pend) - IF pend[1].kind = "deploy" THEN 1 ELSE 0
  BY DeploysTail DEF RInv, Shapes
<1>9. ASSUME NEW n \in 1 .. Len(pend'), pend'[n].mine
      PROVE  n = Len(pend') /\ pend'[n] = pend[n + 1] /\ n + 1 \in 1 .. Len(pend)
  <2>1. n + 1 \in 1 .. Len(pend) /\ n \in 1 .. Len(pend) - 1
    BY <1>3
  <2>2. pend'[n] = pend[n + 1]
    BY <1>1, <2>1
  <2>3. pend[n + 1].mine
    BY <1>9, <2>2
  <2>4. n + 1 = Len(pend)
    BY <1>6, <2>1, <2>3
  <2> QED
    <3> DEFINE a == Len(pend)
               b == Len(pend')
    <3>1. a \in Nat
      BY <1>1
    <3>2. b = a - 1
      BY <1>1
    <3>3. n + 1 = a
      BY <2>4
    <3>4. n \in Int
      OBVIOUS
    <3> HIDE DEF a, b
    <3>5. n = b
      BY <3>1, <3>2, <3>3, <3>4
    <3> QED
      BY <2>1, <2>2, <3>5 DEF b
<1> QED
  BY <1>1, <1>2, <1>4, <1>5, <1>6, <1>7, <1>8, <1>9

\* A transaction is mined: every contract keeps what the file means, and the process
\* finds its contract where it expects it, or its call carried out.
LEMMA MineFits ==
  ASSUME RInv, WInv, Mine
  PROVE  WInv'
<1> DEFINE tx == pend[1]
<1>1. /\ pend # <<>> /\ pend' = Tail(pend) /\ code' = Apply(Head(pend)) /\ Head(pend) = tx
      /\ receipt' = IF tx.mine THEN "mined" ELSE receipt
      /\ UNCHANGED <<file, addr, poolHash, inputs, who, i, pc, newId, build, complaint>>
  <2>1. pend # <<>> /\ pend' = Tail(pend)
    BY DEF Mine
  <2>2. Head(pend) = tx
    BY <2>1, HeadLeaves
  <2> QED
    BY <2>1, <2>2 DEF Mine, fileVars, operatorVars
<1>2. /\ CallsFit' /\ tx.kind \in {"deploy", "call"}
      /\ tx.mine => Len(pend) = 1 /\ pc = "wait"
      /\ Deploys(pend) \in Nat
      /\ Deploys(pend') = Deploys(pend) - IF tx.kind = "deploy" THEN 1 ELSE 0
      /\ Len(pend) \in Nat \ {0} /\ Len(pend') = Len(pend) - 1
      /\ \A n \in 1 .. Len(pend') : pend'[n].mine =>
           /\ ~ tx.mine /\ pc = "wait" /\ receipt = "none"
           /\ n = Len(pend') /\ pend'[n] = pend[n + 1] /\ n + 1 \in 1 .. Len(pend)
  BY <1>1, OthersWait
<1>3. 1 \in 1 .. Len(pend) /\ IsTx(tx)
  BY <1>2 DEF RInv, Shapes
<1>4. /\ SomeSeq(code') /\ Len(code) \in Nat /\ DOMAIN code = 1 .. Len(code)
      /\ \A n \in 1 .. Len(code) : code'[n].key = code[n].key
      /\ tx.kind = "deploy" => Len(code') = Len(code) + 1
      /\ tx.kind # "deploy" => Len(code') = Len(code)
  BY <1>1, <1>3, ApplyFacts, Counted DEF RInv
<1>5. /\ tx.kind = "deploy" =>
           /\ \A n \in 1 .. Len(code) : code'[n] = code[n]
           /\ code'[Len(code) + 1] = [key |-> tx.key, build |-> tx.build, has |-> tx.has]
      /\ tx.kind # "deploy" => \A n \in 1 .. Len(code) :
           /\ code'[n].build = code[n].build
           /\ code'[n].has = IF n = tx.to THEN Overlaid(tx.has, code[n].has) ELSE code[n].has
  BY <1>1, <1>3, ApplyHas DEF RInv
<1>6. DOMAIN code' = 1 .. Len(code') /\ Len(code') \in Nat
  BY <1>4, SomeSeqFacts
<1>7. tx.kind = "call" => \A u \in DOMAIN tx.has : tx.has[u] = Address(u)
  BY <1>3 DEF WInv, CallsFit
<1> HIDE DEF tx
<1>8. Grows
  <2> SUFFICES ASSUME NEW n \in 1 .. Len(code)
               PROVE  /\ n \in DOMAIN code'
                      /\ code'[n].key = code[n].key /\ code'[n].build = code[n].build
                      /\ \A u \in DOMAIN code[n].has :
                           /\ u \in DOMAIN code'[n].has
                           /\ code'[n].has[u] \in {code[n].has[u], Address(u)}
    BY <1>4 DEF Grows
  <2>1. n \in DOMAIN code'
    <3> DEFINE a == Len(code)
               b == Len(code')
    <3>1. a \in Nat /\ b \in Nat /\ (b = a + 1 \/ b = a) /\ n \in 1 .. a
      BY <1>4, <1>6
    <3> HIDE DEF a, b
    <3>2. n \in 1 .. b
      BY <3>1
    <3> QED
      BY <1>6, <3>2 DEF b
  <2>2. code'[n].key = code[n].key
    BY <1>4
  <2>3. CASE tx.kind = "deploy"
    <3>1. code'[n] = code[n]
      BY <1>5, <2>3
    <3> QED
      BY <2>1, <3>1
  <2>4. CASE tx.kind = "call"
    <3>1. /\ code'[n].build = code[n].build
          /\ code'[n].has = IF n = tx.to THEN Overlaid(tx.has, code[n].has) ELSE code[n].has
      BY <1>5, <2>4
    <3>2. \A u \in DOMAIN tx.has : tx.has[u] = Address(u)
      BY <1>7, <2>4
    <3>3. ASSUME NEW u \in DOMAIN code[n].has
          PROVE  /\ u \in DOMAIN code'[n].has
                 /\ code'[n].has[u] \in {code[n].has[u], Address(u)}
      BY <3>1, <3>2 DEF Overlaid
    <3> QED
      BY <2>1, <2>2, <3>1, <3>3
  <2> QED
    BY <1>2, <2>3, <2>4
<1>9. /\ Recorded' /\ KeepsExisting' /\ FileWired' /\ HashKept' /\ ComplaintFits' /\ Passed'
      /\ \A n \in DOMAIN code : \A names : Carries(n, names) => Carries(n, names)'
  BY <1>1, <1>8, GrownChain
<1>10. /\ Scripts' = Scripts /\ Steps' = Steps /\ Named(who)' = Named(who) /\ Now' = Now
       /\ \A u : Address(u)' = Address(u)
  BY <1>1, SameAddress DEF Scripts, Steps, Named, Now
<1>11. /\ Wanted(Now)' = Wanted(Now) /\ Address(Now.on)' = Address(Now.on)
       /\ Reuses(Now)' = Reuses(Now)
  BY <1>1, <1>10 DEF Wanted, Address, Reuses
<1>12. Waits'
  <2> SUFFICES ASSUME pc = "wait" PROVE Waits'
    BY <1>1 DEF Waits
  <2>1. /\ Now.kind \in {"deploy", "call"} /\ ~ Reuses(Now)
        /\ \A n \in 1 .. Len(pend) : pend[n].mine =>
             /\ n = Len(pend)
             /\ pend[n].kind = Now.kind /\ pend[n].key = Now.key
             /\ pend[n].to = Address(Now.on)
             /\ pend[n].build = build /\ pend[n].has = Wanted(Now)
             /\ Now.kind = "deploy" => newId = Len(code) + Deploys(pend)
        /\ receipt = "mined" =>
             IF Now.kind = "deploy"
             THEN /\ newId \in DOMAIN code
                  /\ code[newId].key = Now.key /\ code[newId].build = build
                  /\ Carries(newId, Now.uses)
             ELSE Has(Now)
    BY DEF WInv, Waits
  <2>2. ASSUME NEW n \in 1 .. Len(pend'), pend'[n].mine
        PROVE  /\ n = Len(pend')
               /\ pend'[n].kind = Now.kind /\ pend'[n].key = Now.key
               /\ pend'[n].to = Address(Now.on)
               /\ pend'[n].build = build /\ pend'[n].has = Wanted(Now)
               /\ Now.kind = "deploy" => newId = Len(code') + Deploys(pend')
    <3>1. /\ n = Len(pend') /\ pend'[n] = pend[n + 1] /\ n + 1 \in 1 .. Len(pend)
      BY <1>2, <2>2
    <3>2. Len(code') + Deploys(pend') = Len(code) + Deploys(pend)
      BY <1>2, <1>4
    <3> QED
      BY <2>1, <2>2, <3>1, <3>2
  <2>3. ASSUME receipt' = "mined"
        PROVE  IF Now.kind = "deploy"
               THEN /\ newId \in DOMAIN code'
                    /\ code'[newId].key = Now.key /\ code'[newId].build = build
                    /\ \A u \in Now.uses : u \in DOMAIN code'[newId].has
                                           /\ code'[newId].has[u] = Address(u)
               ELSE LET c == Address(Now.on) IN
                    /\ c \in DOMAIN code'
                    /\ \A u \in Now.uses : u \in DOMAIN code'[c].has
                                           /\ code'[c].has[u] = Address(u)
    <3>1. CASE tx.mine
      <4>1. /\ tx.kind = Now.kind /\ tx.key = Now.key /\ tx.to = Address(Now.on)
            /\ tx.build = build /\ tx.has = Wanted(Now)
            /\ Now.kind = "deploy" => newId = Len(code) + Deploys(pend)
        BY <1>3, <2>1, <3>1 DEF tx
      <4>2. CASE Now.kind = "deploy"
        <5>1. Deploys(pend') = 0
          <6>1. Len(pend') = 0 /\ DOMAIN pend' = 1 .. Len(pend')
            BY <1>1, <1>2, <3>1, TailFacts, SomeSeqFacts DEF RInv, Shapes
          <6>2. {n \in DOMAIN pend' : pend'[n].kind = "deploy"} = {}
            BY <6>1
          <6> QED
            BY <6>2, FS_EmptySet DEF Deploys
        <5>2. newId = Len(code) + 1 /\ newId \in DOMAIN code'
          BY <1>2, <1>4, <1>6, <4>1, <4>2, <5>1
        <5>3. code'[newId].key = Now.key /\ code'[newId].build = build
              /\ code'[newId].has = Wanted(Now)
          BY <1>5, <4>1, <4>2, <5>2
        <5> QED
          BY <4>2, <5>2, <5>3 DEF Wanted
      <4>3. CASE Now.kind = "call"
        <5>1. i <= Len(Steps) /\ Now.on \in DOMAIN addr
          BY <4>3, KnownRecorded DEF RInv, AtSome
        <5>2. Now.on # "inputs"
          <6>1. file \in Files
            BY DEF RInv, Shapes
          <6>2. Now.on \in Contracts(file)
            BY <5>1 DEF WInv, Recorded
          <6> QED
            BY <6>1, <6>2, NamingAssumption
        <5>3. Address(Now.on) \in 1 .. Len(code)
          BY <1>4, <5>1, <5>2 DEF WInv, Recorded, There, Address
        <5>4. /\ Address(Now.on) \in DOMAIN code'
              /\ code'[Address(Now.on)].has = Overlaid(Wanted(Now), code[Address(Now.on)].has)
          BY <1>4, <1>5, <1>6, <4>1, <4>3, <5>3
        <5> QED
          BY <4>3, <5>4 DEF Overlaid, Wanted
      <4> QED
        BY <2>1, <4>2, <4>3
    <3>2. CASE ~ tx.mine
      <4>1. receipt = "mined"
        BY <1>1, <2>3, <3>2
      <4>2. CASE Now.kind = "deploy"
        <5>1. /\ newId \in DOMAIN code
              /\ code[newId].key = Now.key /\ code[newId].build = build
              /\ Carries(newId, Now.uses)
          BY <2>1, <4>1, <4>2
        <5> QED
          BY <1>8, <4>2, <5>1 DEF Grows, Carries
      <4>3. CASE Now.kind = "call"
        <5>1. Has(Now)
          BY <2>1, <4>1, <4>3
        <5> QED
          BY <1>8, <4>3, <5>1 DEF Grows, Has
      <4> QED
        BY <2>1, <4>2, <4>3
    <3> QED
      BY <3>1, <3>2
  <2>4. Now.kind = "deploy" => (Carries(newId, Now.uses)' <=>
            \A u \in Now.uses : u \in DOMAIN code'[newId].has
                                /\ code'[newId].has[u] = Address(u))
    BY <1>1, <1>10 DEF Carries
  <2>5. Now.kind = "call" => (Has(Now)' <=>
            LET c == Address(Now.on) IN
            /\ c \in DOMAIN code'
            /\ \A u \in Now.uses : u \in DOMAIN code'[c].has /\ code'[c].has[u] = Address(u))
    BY <1>10, <1>11 DEF Has
  <2> QED
    BY <1>1, <1>10, <1>11, <2>1, <2>2, <2>3, <2>4, <2>5 DEF Waits
<1> QED
  BY <1>2, <1>9, <1>12 DEF WInv

\* The contracts stay, and of the mempool only what was there before is left: the
\* process waits for what is still its own, and for nothing that was mined.
LEMMA LessFits ==
  ASSUME RInv, WInv,
         UNCHANGED <<file, code, addr, poolHash, inputs, who, i, pc, newId, build, complaint>>,
         CallsFit',
         receipt' = receipt \/ receipt' = "reverted",
         \A n \in 1 .. Len(pend') : pend'[n].mine =>
            /\ n = Len(pend') /\ pc = "wait"
            /\ pend'[n] \in {pend[k] : k \in 1 .. Len(pend)}
            /\ Now.kind = "deploy" => Deploys(pend') = Deploys(pend)
  PROVE  WInv'
<1>1. /\ Scripts' = Scripts /\ Steps' = Steps /\ Named(who)' = Named(who) /\ Now' = Now
      /\ \A u : Address(u)' = Address(u) /\ Settled(u)' = Settled(u)
  BY SameAddress DEF Scripts, Steps, Named, Now, Settled
<1>2. Recorded' /\ KeepsExisting' /\ FileWired' /\ HashKept' /\ ComplaintFits'
  BY <1>1 DEF WInv, Recorded, KeepsExisting, FileWired, HashKept, ComplaintFits, There, Carries
<1>3. Passed'
  <2> SUFFICES ASSUME pc # "off"
               PROVE  \A n \in 1 .. i - 1 : Steps[n].kind # "verify" => Made(Steps[n])'
    BY <1>1 DEF WInv, Passed, HashInStep
  <2>1. \A n \in 1 .. i - 1 : Steps[n].kind # "verify" => Made(Steps[n])
    BY DEF WInv, Passed
  <2> QED
    BY <1>1, <2>1 DEF Made, There, Has, Address
<1>4. Waits'
  <2> SUFFICES ASSUME pc = "wait" PROVE Waits'
    BY DEF Waits
  <2>1. /\ Wanted(Now)' = Wanted(Now) /\ Address(Now.on)' = Address(Now.on)
        /\ Reuses(Now)' = Reuses(Now)
        /\ Now.kind # "verify" => Has(Now)' = Has(Now)
    BY <1>1 DEF Wanted, Address, Reuses, Has
  <2>2. Carries(newId, Now.uses)' = Carries(newId, Now.uses)
    BY <1>1 DEF Carries
  <2>3. /\ Now.kind \in {"deploy", "call"} /\ ~ Reuses(Now)
        /\ \A n \in 1 .. Len(pend) : pend[n].mine =>
             /\ pend[n].kind = Now.kind /\ pend[n].key = Now.key
             /\ pend[n].to = Address(Now.on)
             /\ pend[n].build = build /\ pend[n].has = Wanted(Now)
             /\ Now.kind = "deploy" => newId = Len(code) + Deploys(pend)
        /\ receipt = "mined" =>
             IF Now.kind = "deploy"
             THEN /\ newId \in DOMAIN code
                  /\ code[newId].key = Now.key /\ code[newId].build = build
                  /\ Carries(newId, Now.uses)
             ELSE Has(Now)
    BY DEF WInv, Waits
  <2>4. ASSUME NEW n \in 1 .. Len(pend'), pend'[n].mine
        PROVE  /\ n = Len(pend')
               /\ pend'[n].kind = Now.kind /\ pend'[n].key = Now.key
               /\ pend'[n].to = Address(Now.on)
               /\ pend'[n].build = build /\ pend'[n].has = Wanted(Now)
               /\ Now.kind = "deploy" => newId = Len(code) + Deploys(pend')
    <3>1. PICK k \in 1 .. Len(pend) : pend'[n] = pend[k]
      BY <2>4
    <3> QED
      BY <2>3, <2>4, <3>1
  <2> QED
    BY <1>1, <2>1, <2>2, <2>3, <2>4 DEF Waits
<1> QED
  BY <1>2, <1>3, <1>4 DEF WInv

LEMMA RevertFits ==
  ASSUME RInv, WInv, Revert
  PROVE  WInv'
<1>1. /\ pend # <<>> /\ pend' = Tail(pend) /\ Head(pend).kind = "call"
      /\ receipt' = IF Head(pend).mine THEN "reverted" ELSE receipt
      /\ UNCHANGED <<file, code, addr, poolHash, inputs, who, i, pc, newId, build, complaint>>
  BY DEF Revert, fileVars, operatorVars
<1>2. Head(pend) = pend[1]
  BY <1>1, HeadLeaves
<1>3. /\ CallsFit'
      /\ Deploys(pend) \in Nat
      /\ Deploys(pend') = Deploys(pend) - IF pend[1].kind = "deploy" THEN 1 ELSE 0
      /\ \A n \in 1 .. Len(pend') : pend'[n].mine =>
           /\ ~ pend[1].mine /\ pc = "wait" /\ receipt = "none"
           /\ n = Len(pend') /\ pend'[n] = pend[n + 1] /\ n + 1 \in 1 .. Len(pend)
  BY <1>1, OthersWait
<1>4. Deploys(pend') = Deploys(pend)
  BY <1>1, <1>2, <1>3
<1>5. \A n \in 1 .. Len(pend') : pend'[n].mine =>
            /\ n = Len(pend') /\ pc = "wait"
            /\ pend'[n] \in {pend[k] : k \in 1 .. Len(pend)}
            /\ Now.kind = "deploy" => Deploys(pend') = Deploys(pend)
  BY <1>3, <1>4
<1>6. receipt' = receipt \/ receipt' = "reverted"
  BY <1>1
<1> QED
  BY <1>1, <1>3, <1>5, <1>6, LessFits

LEMMA DropFits ==
  ASSUME RInv, WInv, Drop
  PROVE  WInv'
<1>1. /\ pend # <<>> /\ pend' = SubSeq(pend, 1, Len(pend) - 1)
      /\ UNCHANGED <<file, code, addr, poolHash, inputs, who, i, pc, newId, receipt, build, complaint>>
  BY DEF Drop, fileVars, runVars, operatorVars
<1>2. /\ Len(pend') = Len(pend) - 1 /\ Len(pend) \in Nat \ {0}
      /\ \A n \in 1 .. Len(pend) - 1 : pend'[n] = pend[n]
  <2>1. SomeSeq(pend)
    BY DEF RInv, Shapes
  <2> QED
    BY <1>1, <2>1, FrontFacts
<1>3. \A n \in 1 .. Len(pend') :
        /\ n \in 1 .. Len(pend) - 1 /\ n \in 1 .. Len(pend) /\ n # Len(pend)
        /\ pend'[n] = pend[n]
  <2> TAKE n \in 1 .. Len(pend')
  <2>1. n \in 1 .. Len(pend) - 1
    BY <1>2
  <2> QED
    BY <1>2, <2>1
<1>4. \A n \in 1 .. Len(pend) : pend[n].mine => n = Len(pend)
  BY DEF RInv, WaitsForOne, WInv, Waits
<1>5. \A n \in 1 .. Len(pend') : ~ pend'[n].mine
  BY <1>3, <1>4
<1>6. CallsFit'
  BY <1>1, <1>3, SameAddress DEF WInv, CallsFit, Settled
<1>7. \A n \in 1 .. Len(pend') : pend'[n].mine =>
            /\ n = Len(pend') /\ pc = "wait"
            /\ pend'[n] \in {pend[k] : k \in 1 .. Len(pend)}
            /\ Now.kind = "deploy" => Deploys(pend') = Deploys(pend)
  BY <1>5
<1> QED
  BY <1>1, <1>6, <1>7, LessFits

\* What a dead process sent still means what it meant.
LEMMA DieFits ==
  ASSUME RInv, WInv, Die
  PROVE  WInv'
<1>1. /\ pend' = [n \in DOMAIN pend |-> [pend[n] EXCEPT !.mine = FALSE]]
      /\ pc' = "off"
      /\ UNCHANGED <<file, code, addr, poolHash, inputs, complaint>>
  BY DEF Die, Stop, fileVars, operatorVars
<1>2. SomeSeq(pend) /\ DOMAIN pend = 1 .. Len(pend)
  BY Counted DEF RInv, Shapes
<1>3. Len(pend') = Len(pend)
  <2>1. pend' = [n \in DOMAIN pend |-> pend'[n]]
    BY <1>1
  <2> QED
    BY <1>2, <2>1, SameLength
<1>4. \A n \in 1 .. Len(pend) : pend'[n].kind = pend[n].kind /\ pend'[n].has = pend[n].has
  <2> TAKE n \in 1 .. Len(pend)
  <2>1. pend'[n] = [pend[n] EXCEPT !.mine = FALSE] /\ IsTx(pend[n])
    BY <1>1, <1>2 DEF RInv, Shapes
  <2> QED
    BY <2>1 DEF IsTx
<1>5. \A u : Address(u)' = Address(u) /\ Settled(u)' = Settled(u)
  BY <1>1, SameAddress DEF Settled
<1>6. CallsFit'
  BY <1>1, <1>3, <1>4, <1>5 DEF WInv, CallsFit
<1>7. Recorded' /\ KeepsExisting' /\ FileWired' /\ HashKept' /\ ComplaintFits'
  BY <1>1, <1>5 DEF WInv, Recorded, KeepsExisting, FileWired, HashKept, ComplaintFits, There, Carries,
                    Scripts
<1> QED
  BY <1>1, <1>6, <1>7 DEF WInv, Passed, Waits

\* The collector's owner sets what the file means.
LEMMA SetRevenueFits ==
  ASSUME RInv, WInv, SetRevenue
  PROVE  WInv'
<1> DEFINE c == addr["feeCollector"]
<1>1. /\ "revenue" \in DOMAIN addr
      /\ code' = [code EXCEPT ![c].has["revenue"] = addr["revenue"]]
      /\ UNCHANGED <<file, pend, addr, poolHash, inputs, who, i, pc, newId, receipt, build, complaint>>
  BY DEF SetRevenue, fileVars, runVars, operatorVars
<1>2. DOMAIN code' = DOMAIN code /\ DOMAIN code = 1 .. Len(code)
  BY <1>1, Counted DEF RInv
<1>3. Address("revenue") = addr["revenue"]
  BY <1>1 DEF Address
<1>4. Grows
  <2> SUFFICES ASSUME NEW n \in DOMAIN code
               PROVE  /\ n \in DOMAIN code'
                      /\ code'[n].key = code[n].key /\ code'[n].build = code[n].build
                      /\ \A u \in DOMAIN code[n].has :
                           /\ u \in DOMAIN code'[n].has
                           /\ code'[n].has[u] \in {code[n].has[u], Address(u)}
    BY DEF Grows
  <2>1. IsContract(code[n])
    BY <1>2 DEF RInv, Shapes
  <2>2. CASE n # c
    BY <1>1, <1>2, <2>2
  <2>3. CASE n = c
    <3>1. code'[n] = [code[n] EXCEPT !.has["revenue"] = addr["revenue"]]
      BY <1>1, <2>3
    <3>2. code'[n].has = [code[n].has EXCEPT !["revenue"] = addr["revenue"]]
      BY <2>1, <3>1 DEF IsContract
    <3>3. code'[n].key = code[n].key /\ code'[n].build = code[n].build
      BY <2>1, <3>1 DEF IsContract
    <3> QED
      BY <1>2, <1>3, <3>2, <3>3
  <2> QED
    BY <2>2, <2>3
<1>5. /\ Recorded' /\ KeepsExisting' /\ FileWired' /\ HashKept' /\ ComplaintFits' /\ Passed'
      /\ \A n \in DOMAIN code : \A names : Carries(n, names) => Carries(n, names)'
  BY <1>1, <1>4, GrownChain
<1>6. /\ Scripts' = Scripts /\ Steps' = Steps /\ Named(who)' = Named(who) /\ Now' = Now
      /\ \A u : Address(u)' = Address(u) /\ Settled(u)' = Settled(u)
  BY <1>1, SameAddress DEF Scripts, Steps, Named, Now, Settled
<1>7. CallsFit'
  BY <1>1, <1>6 DEF WInv, CallsFit
<1>8. Len(code') = Len(code)
  <2>1. SomeSeq(code) /\ code' = [n \in DOMAIN code |-> code'[n]]
    BY <1>1 DEF RInv, Shapes
  <2> QED
    BY <2>1, SameLength
<1>9. Waits'
  <2> SUFFICES ASSUME pc = "wait" PROVE Waits'
    BY <1>1 DEF Waits
  <2>1. /\ Wanted(Now)' = Wanted(Now) /\ Address(Now.on)' = Address(Now.on)
        /\ Reuses(Now)' = Reuses(Now)
    BY <1>1, <1>6 DEF Wanted, Address, Reuses
  <2>2. newId \in DOMAIN code /\ Carries(newId, Now.uses) => Carries(newId, Now.uses)'
    BY <1>1, <1>4, <1>6 DEF Carries, Grows
  <2>3. newId \in DOMAIN code =>
          newId \in DOMAIN code' /\ code'[newId].key = code[newId].key
          /\ code'[newId].build = code[newId].build
    BY <1>4 DEF Grows
  <2>4. Now.kind = "call" /\ Has(Now) => Has(Now)'
    BY <1>4, <1>6, <2>1 DEF Has, Grows
  <2> HIDE DEF c
  <2> QED
    BY <1>1, <1>6, <1>8, <2>1, <2>2, <2>3, <2>4 DEF WInv, Waits
<1> QED
  BY <1>5, <1>7, <1>9 DEF WInv

-----------------------------------------------------------------------------
(* The record.                                                             *)

\* A name that lasts is not recorded anew, so that it means what it meant.
LEMMA RecordFits ==
  ASSUME RInv, WInv, Record
  PROVE  WInv'
<1>1. /\ pc = "wait" /\ receipt = "mined" /\ Advance
      /\ addr' = IF Now.kind = "deploy"
                 THEN [k \in DOMAIN addr \cup {Now.key} |->
                          IF k = Now.key THEN newId ELSE addr[k]]
                 ELSE addr
      /\ UNCHANGED <<file, code, pend, poolHash, inputs, build, complaint>>
  BY DEF Record, Confirmed, chainVars, operatorVars
<1>2. /\ i <= Len(Steps) /\ file \in Files
      /\ pc' = "step" /\ i' = i + 1 /\ who' = who
  BY <1>1 DEF RInv, AtSome, Shapes, Advance
<1>3. /\ Named(who) \in Range(file.scripts) /\ Named(who) \in Scripts
      /\ Steps = Named(who).steps
      /\ Len(Steps) \in Nat /\ DOMAIN Steps = 1 .. Len(Steps) /\ i \in 1 .. Len(Steps)
      /\ Now \in StepsOf(file)
      /\ \A n \in 1 .. Len(Steps) : Steps[n] \in StepsOf(file)
  BY <1>1, <1>2, RunFacts
<1>4. /\ Now.kind \in {"deploy", "call"} /\ ~ Reuses(Now)
      /\ IF Now.kind = "deploy"
         THEN /\ newId \in DOMAIN code
              /\ code[newId].key = Now.key /\ code[newId].build = build
              /\ Carries(newId, Now.uses)
         ELSE Has(Now)
  BY <1>1 DEF WInv, Waits
<1>5. CASE Now.kind = "call"
  <2>1. Made(Now)
    BY <1>4, <1>5 DEF Made
  <2> QED
    BY <1>1, <1>2, <1>5, <2>1, NextStep
<1>6. CASE Now.kind = "deploy"
  <2>1. /\ DOMAIN addr' = DOMAIN addr \cup {Now.key}
        /\ addr'[Now.key] = newId
        /\ \A k \in DOMAIN addr : k # Now.key => addr'[k] = addr[k]
    BY <1>1, <1>6
  <2>2. /\ Now.on = Now.key /\ Now.key \notin Range(file.exist)
        /\ Now.key \in Contracts(file) /\ Now.key # "inputs"
    BY <1>2, <1>3, <1>6, StepKinds
  <2>3. /\ newId \in DOMAIN code /\ code[newId].key = Now.key /\ code[newId].build = build
        /\ \A u \in Now.uses : u \in DOMAIN code[newId].has /\ code[newId].has[u] = Address(u)
    BY <1>4, <1>6 DEF Carries
  <2>4. \A u : u # Now.key => Address(u)' = Address(u)
    BY <1>1, <2>1 DEF Address
  <2>5. \A u : Settled(u) => Settled(u)'
    BY <1>1, <2>1 DEF Settled
  <2>6. \A u : Lasts(file, u) /\ Settled(u) => u # Now.key
    <3> SUFFICES ASSUME Lasts(file, Now.key), Settled(Now.key) PROVE FALSE
      OBVIOUS
    <3>1. Now.looks \in {"file", "read"} /\ Now.key \in DOMAIN addr
      BY <1>3, <1>6, <2>2 DEF Lasts, Settled
    <3> QED
      BY <1>4, <3>1 DEF Reuses
  <2>7. Recorded'
    BY <1>1, <2>1, <2>2, <2>3 DEF WInv, Recorded, There
  <2>8. KeepsExisting'
    BY <1>1, <2>1 DEF WInv, KeepsExisting
  <2>9. \A u \in Now.uses : Settled(u) /\ u # Now.key
    <3>1. \A u \in Now.uses : Settled(u)
      BY <1>1, <1>2, KnownRecorded
    <3>2. Now.key \notin Now.uses
      BY <1>2, <1>3, <1>6, NamingAssumption DEF Now
    <3> QED
      BY <3>1, <3>2
  <2>10. FileWired'
    <3> SUFFICES ASSUME NEW st \in StepsOf(file), st.kind = "deploy", st.looks = "file",
                        st.key \in DOMAIN addr'
                 PROVE  Carries(addr[st.key], st.uses)' /\ \A u \in st.uses : Settled(u)'
      BY <1>1 DEF FileWired
    <3>1. CASE st.key = Now.key
      <4>1. st.uses = Now.uses
        BY <1>2, <1>3, <1>6, <3>1, NamingAssumption
      <4> QED
        BY <1>1, <2>1, <2>3, <2>4, <2>5, <2>9, <3>1, <4>1 DEF Carries
    <3>2. CASE st.key # Now.key
      <4>1. st.key \in DOMAIN addr /\ addr'[st.key] = addr[st.key]
        BY <2>1, <3>2
      <4>2. Carries(addr[st.key], st.uses) /\ \A u \in st.uses : Settled(u)
        BY <4>1 DEF WInv, FileWired
      <4>3. \A u \in st.uses : Lasts(file, u)
        BY <1>2, StepKinds
      <4>4. \A u \in st.uses : Settled(u)' /\ Address(u)' = Address(u)
        BY <2>4, <2>5, <2>6, <4>2, <4>3
      <4> QED
        BY <1>1, <4>1, <4>2, <4>4 DEF Carries
    <3> QED
      BY <3>1, <3>2
  <2>11. CallsFit'
    BY <1>1, <2>4, <2>5, <2>6 DEF WInv, CallsFit
  <2>12. ComplaintFits'
    BY <1>1 DEF WInv, ComplaintFits
  <2>13. HashKept'
    <3> SUFFICES ASSUME NEW s \in Scripts, s.hash = "recorded"
                 PROVE  /\ code[addr'["factory"]].build.pool = poolHash
                        /\ \A k \in PeripheryKeys \cap DOMAIN addr' :
                             code[addr'[k]].build.declared = poolHash
      BY <1>1 DEF HashKept, Scripts
    <3>1. /\ code[addr["factory"]].build.pool = poolHash
          /\ \A k \in PeripheryKeys \cap DOMAIN addr : code[addr[k]].build.declared = poolHash
      BY DEF WInv, HashKept
    <3>2. /\ "factory" \in Range(file.exist)
          /\ Now.key \in PeripheryKeys => Named(who).hash = "recorded"
      <4>1. Now \in Range(Named(who).steps)
        BY <1>3 DEF Now, Range
      <4> QED
        BY <1>2, <1>3, <1>6, <4>1, HashAssumption DEF Scripts
    <3>3. "factory" \in DOMAIN addr /\ "factory" # Now.key
      BY <2>2, <3>2 DEF WInv, KeepsExisting
    <3>4. Now.key \in PeripheryKeys => code[newId].build.declared = poolHash
      BY <1>1, <2>3, <3>2 DEF WInv, Passed, HashInStep
    <3>5. addr'["factory"] = addr["factory"]
      BY <2>1, <3>3
    <3> QED
      BY <2>1, <3>1, <3>4, <3>5
  <2>14. Passed'
    <3>1. Scripts' = Scripts /\ Steps' = Steps /\ Named(who)' = Named(who)
      BY <1>1, <1>2 DEF Scripts, Steps, Named
    <3>2. i' <= Len(Steps) + 1 /\ i' - 1 = i
      BY <1>2, <1>3
    <3>3. ASSUME NEW n \in 1 .. i, Steps[n].kind # "verify"
          PROVE  Made(Steps[n])'
      <4> DEFINE st == Steps[n]
      <4>1. n \in 1 .. Len(Steps) /\ st \in StepsOf(file) /\ st' = st
        BY <1>3, <3>1
      <4>2. CASE n = i
        <5>1. st = Now /\ st.on = Now.key
          BY <2>2, <4>2 DEF Now
        <5>2. Address(st.on)' = newId
          BY <2>1, <2>2, <4>1, <5>1 DEF Address
        <5>3. There(st.key)'
          BY <1>1, <2>1, <2>3, <4>1, <5>1 DEF There
        <5>4. \A u \in st.uses : Address(u)' = Address(u)
          BY <2>4, <2>9, <5>1
        <5>5. st.kind = "deploy"
          BY <1>6, <5>1
        <5> HIDE DEF st
        <5>6. Made(st)'
          BY <1>1, <2>3, <4>1, <5>1, <5>2, <5>3, <5>4, <5>5 DEF Made, Has
        <5> QED
          BY <5>6 DEF st
      <4>3. CASE n # i
        <5>1. n \in 1 .. i - 1
          BY <1>3, <4>3
        <5>2. Made(st)
          BY <3>3, <5>1, <1>1 DEF WInv, Passed
        <5>3. /\ Now.key \notin st.uses /\ Now.key # st.on
              /\ st.kind = "deploy" => st.on = st.key
          <6>1. i \in n .. Len(Steps) /\ i # n
            BY <1>3, <5>1
          <6>2. Now = Named(who).steps[i] /\ st = Named(who).steps[n]
                /\ n \in DOMAIN Named(who).steps
            BY <1>3, <4>1 DEF Now
          <6>3. Now.key \notin st.uses /\ Now.key # st.on
            BY <1>2, <1>3, <1>6, <6>1, <6>2, NamingAssumption
          <6> QED
            BY <1>2, <4>1, <6>3, StepKinds
        <5>4. Address(st.on)' = Address(st.on) /\ \A u \in st.uses : Address(u)' = Address(u)
          <6>1. Address(st.on)' = Address(st.on)
            BY <1>1, <2>1, <4>1, <5>3 DEF Address
          <6> QED
            BY <2>4, <5>3, <6>1
        <5>5. st.kind = "deploy" => There(st.key)'
          <6>1. st.kind = "deploy" => There(st.key) /\ st.key # Now.key
            BY <5>2, <5>3 DEF Made
          <6> QED
            BY <1>1, <2>1, <4>1, <6>1 DEF There
        <5>6. st.kind # "verify"
          BY <3>3
        <5> HIDE DEF st
        <5>7. Made(st)'
          BY <1>1, <4>1, <5>2, <5>4, <5>5, <5>6 DEF Made, Has
        <5> QED
          BY <5>7 DEF st
      <4> QED
        BY <4>2, <4>3
    <3>4. Named(who).needs \subseteq DOMAIN addr'
      BY <1>1, <2>1 DEF WInv, Passed
    <3>5. Named(who).hash = "recorded" => HashInStep(build) /\ poolHash = build.pool
      BY <1>1 DEF WInv, Passed
    <3>6. \A n \in 1 .. i' - 1 : Steps[n].kind # "verify" => Made(Steps[n])'
      BY <3>2, <3>3
    <3> QED
      BY <1>1, <3>1, <3>2, <3>4, <3>5, <3>6 DEF Passed, HashInStep
  <2>15. Waits'
    BY <1>2 DEF Waits
  <2> QED
    BY <2>7, <2>8, <2>10, <2>11, <2>12, <2>13, <2>14, <2>15 DEF WInv
<1> QED
  BY <1>4, <1>5, <1>6

\* Only a contract whose arguments are compared is ever removed from the record.
LEMMA ForgetFits ==
  ASSUME RInv, WInv, Forget
  PROVE  WInv'
<1>1. /\ pc = "off" /\ pc' = "off" /\ complaint' = "none"
      /\ complaint \notin {"none", "checkout"}
      /\ addr' = [k \in DOMAIN addr \ {complaint} |-> addr[k]]
      /\ UNCHANGED <<file, code, pend, poolHash, inputs, build>>
  BY DEF Forget, chainVars, runVars
<1>2. PICK st \in StepsOf(file) :
        st.kind = "deploy" /\ st.looks = "args" /\ st.key = complaint
  BY <1>1 DEF WInv, ComplaintFits
<1>3. file \in Files /\ complaint \notin Range(file.exist)
  BY <1>2, StepKinds DEF RInv, Shapes
<1>4. \A u : u # complaint => Address(u)' = Address(u) /\ (Settled(u) => Settled(u)')
  BY <1>1 DEF Address, Settled
<1>5. \A u : Lasts(file, u) => u # complaint
  BY <1>2 DEF Lasts
<1>6. Recorded' /\ KeepsExisting'
  BY <1>1, <1>3 DEF WInv, Recorded, KeepsExisting, There
<1>7. FileWired'
  <2> SUFFICES ASSUME NEW t \in StepsOf(file), t.kind = "deploy", t.looks = "file",
                      t.key \in DOMAIN addr, t.key # complaint
               PROVE  Carries(addr[t.key], t.uses)' /\ \A u \in t.uses : Settled(u)'
    BY <1>1 DEF FileWired
  <2>1. Carries(addr[t.key], t.uses) /\ \A u \in t.uses : Settled(u)
    BY DEF WInv, FileWired
  <2>2. \A u \in t.uses : Settled(u)' /\ Address(u)' = Address(u)
    BY <1>3, <1>4, <1>5, <2>1, StepKinds
  <2>3. addr'[t.key] = addr[t.key]
    BY <1>1
  <2> QED
    BY <1>1, <2>1, <2>2, <2>3 DEF Carries
<1>8. CallsFit'
  BY <1>1, <1>4, <1>5 DEF WInv, CallsFit
<1>9. HashKept'
  <2> SUFFICES ASSUME NEW s \in Scripts, s.hash = "recorded"
               PROVE  /\ code[addr'["factory"]].build.pool = poolHash
                      /\ \A k \in PeripheryKeys \cap DOMAIN addr' :
                           code[addr'[k]].build.declared = poolHash
    BY <1>1 DEF HashKept, Scripts
  <2>1. "factory" \in DOMAIN addr /\ "factory" # complaint
    BY <1>3, HashAssumption DEF Scripts, WInv, KeepsExisting
  <2>2. /\ code[addr["factory"]].build.pool = poolHash
        /\ \A k \in PeripheryKeys \cap DOMAIN addr : code[addr[k]].build.declared = poolHash
    BY DEF WInv, HashKept
  <2> QED
    BY <1>1, <2>1, <2>2
<1> QED
  BY <1>1, <1>6, <1>7, <1>8, <1>9 DEF WInv, ComplaintFits, Passed, Waits

-----------------------------------------------------------------------------
(* The theorems about finished scripts.                                    *)

\* The steps that change neither the chain nor the record.
LEMMA QuietFits ==
  ASSUME RInv, WInv,
         \/ Start \/ Reuse \/ Complain \/ Refuse \/ NotOwner \/ Reject \/ Fail \/ GiveUp
         \/ AlreadyVerified \/ Submit \/ WrongCheckout \/ Finish \/ CheckFails
         \/ ExplorerFails \/ CatchUp \/ Again \/ ChangeBuild
         \/ CheckOut \/ PassOther \/ VerifyWith
  PROVE  WInv'
<1> USE DEF chainVars, fileVars, runVars, operatorVars
<1>1. complaint' \in {complaint, "none", "checkout"} /\ file' = file => ComplaintFits'
  BY DEF WInv, ComplaintFits
<1>2. CASE Start
  BY <1>2, StartsFit
<1>3. CASE Reuse
  <2>1. Made(Now)
    BY <1>3, ReusedIsMade
  <2> QED
    BY <1>3, <2>1, NextStep DEF Reuse, AtStep
<1>4. CASE Complain
  <2>1. /\ pc = "step" /\ i <= Len(Steps) /\ Now.kind # "verify" /\ Now.looks = "args"
        /\ complaint' = Now.key /\ file' = file
    BY <1>4 DEF Complain, AtStep
  <2>2. Now \in StepsOf(file) /\ file \in Files
    BY <2>1, RunFacts DEF RInv, Shapes
  <2>3. Now.kind = "deploy"
    BY <2>1, <2>2, StepKinds
  <2>4. ComplaintFits'
    BY <2>1, <2>2, <2>3 DEF ComplaintFits
  <2> QED
    BY <1>4, <2>4, OffStep DEF Complain, Stop
<1>5. CASE Refuse
  BY <1>1, <1>5, OffStep DEF Refuse, Stop
<1>6. CASE NotOwner
  BY <1>1, <1>6, OffStep DEF NotOwner, Stop
<1>7. CASE Reject
  BY <1>1, <1>7, OffStep DEF Reject, Stop
<1>8. CASE Fail
  BY <1>1, <1>8, OffStep DEF Fail, Stop
<1>9. CASE GiveUp
  BY <1>1, <1>9, OffStep DEF GiveUp, Stop
<1>10. CASE AlreadyVerified
  BY <1>10, NextStep DEF AlreadyVerified, AtVerify
<1>11. CASE Submit
  BY <1>11, NextStep DEF Submit, AtVerify
<1>12. CASE WrongCheckout
  BY <1>12, NextStep DEF WrongCheckout, AtVerify
<1>13. CASE ExplorerFails
  BY <1>13, NextStep DEF ExplorerFails, AtVerify
<1>14. CASE Finish
  BY <1>1, <1>14, OffStep DEF Finish, Stop
<1>15. CASE CheckFails
  <2>1. complaint' \in {complaint, "checkout"}
    BY <1>15 DEF CheckFails
  <2> QED
    BY <1>1, <1>15, <2>1, OffStep DEF CheckFails, Stop
<1>16. CASE CatchUp
  <2>1. \A n \in 1 .. Len(pend') : pend'[n].mine =>
            /\ n = Len(pend') /\ pc = "wait"
            /\ pend'[n] \in {pend[k] : k \in 1 .. Len(pend)}
            /\ Now.kind = "deploy" => Deploys(pend') = Deploys(pend)
    BY <1>16 DEF CatchUp, RInv, WaitsForOne, WInv, Waits
  <2>2. CallsFit'
    BY <1>16, SameRecord DEF CatchUp
  <2> QED
    BY <1>16, <2>1, <2>2, LessFits DEF CatchUp
<1>17. CASE Again
  BY <1>1, <1>17, OffStep DEF Again
<1>18. CASE ChangeBuild
  BY <1>1, <1>18, OffStep DEF ChangeBuild
<1>19. CASE CheckOut
  <2>1. complaint' \in {complaint, "none"}
    BY <1>19 DEF CheckOut
  <2> QED
    BY <1>1, <1>19, <2>1, OffStep DEF CheckOut
<1>20. CASE PassOther
  BY <1>1, <1>20, OffStep DEF PassOther
<1>21. CASE VerifyWith
  BY <1>1, <1>21, OffStep DEF VerifyWith
<1> QED
  BY <1>2, <1>3, <1>4, <1>5, <1>6, <1>7, <1>8, <1>9, <1>10, <1>11, <1>12, <1>13,
     <1>14, <1>15, <1>16, <1>17, <1>18, <1>19, <1>20, <1>21

\* The contracts a file starts with are recorded, and of a checkout in step.
LEMMA WInit == Init => WInv
<1> SUFFICES ASSUME Init PROVE WInv
  OBVIOUS
<1>1. /\ file \in Files /\ file.exist \in Seq(STRING)
      /\ code = [n \in DOMAIN file.exist |->
                     [key |-> file.exist[n], build |-> InitBuild, has |-> <<>>]]
      /\ addr = [k \in Range(file.exist) |->
                     CHOOSE n \in DOMAIN file.exist : file.exist[n] = k]
      /\ poolHash = InitBuild.pool /\ pend = <<>> /\ pc = "off" /\ complaint = "none"
  BY RecordAssumption DEF Init
<1>2. \A k \in Range(file.exist) :
        /\ k \in DOMAIN addr /\ addr[k] \in DOMAIN code
        /\ code[addr[k]].key = k /\ code[addr[k]].build = InitBuild
  <2> TAKE k \in Range(file.exist)
  <2>1. \E n \in DOMAIN file.exist : file.exist[n] = k
    BY DEF Range
  <2>2. addr[k] \in DOMAIN file.exist /\ file.exist[addr[k]] = k
    BY <1>1, <2>1
  <2> QED
    BY <1>1, <2>2
<1>3. Recorded /\ KeepsExisting
  BY <1>1, <1>2 DEF Recorded, KeepsExisting, There, Contracts
<1>4. FileWired
  <2>1. \A st \in StepsOf(file) : st.kind = "deploy" => st.key \notin DOMAIN addr
    BY <1>1, StepKinds
  <2> QED
    BY <2>1 DEF FileWired
<1>5. CallsFit
  BY <1>1 DEF CallsFit
<1>6. HashKept
  <2>1. InitBuild.declared = InitBuild.pool
    BY FilesAssumption DEF InitBuild, HashInStep
  <2>2. (\E s \in Scripts : s.hash = "recorded") => "factory" \in Range(file.exist)
    BY <1>1, HashAssumption DEF Scripts
  <2> QED
    BY <1>1, <1>2, <2>1, <2>2 DEF HashKept
<1> QED
  BY <1>1, <1>3, <1>4, <1>5, <1>6 DEF WInv, ComplaintFits, Passed, Waits

LEMMA WStep == RInv /\ WInv /\ [Next]_vars => WInv'
<1> SUFFICES ASSUME RInv, WInv, [Next]_vars PROVE WInv'
  OBVIOUS
<1>1. CASE Chain
  BY <1>1, MineFits, QuietFits DEF Chain
<1>2. CASE Start
  BY <1>2, QuietFits
<1>3. CASE Process
  BY <1>3, SendFits, RecordFits, QuietFits DEF Process
<1>4. CASE Fault
  BY <1>4, RevertFits, DropFits, DieFits, QuietFits DEF Fault
<1>5. CASE Obey
  BY <1>5, ForgetFits, QuietFits DEF Obey
<1>6. CASE SetRevenue
  BY <1>6, SetRevenueFits
<1>7. CASE UNCHANGED vars
  <2>1. \A n \in 1 .. Len(pend') : pend'[n].mine =>
            /\ n = Len(pend') /\ pc = "wait"
            /\ pend'[n] \in {pend[k] : k \in 1 .. Len(pend)}
            /\ Now.kind = "deploy" => Deploys(pend') = Deploys(pend)
    BY <1>7 DEF vars, chainVars, RInv, WaitsForOne, WInv, Waits
  <2>2. CallsFit'
    BY <1>7, SameRecord DEF vars, chainVars, fileVars
  <2> QED
    BY <1>7, <2>1, <2>2, LessFits DEF vars, chainVars, fileVars, runVars, operatorVars
<1> QED
  BY <1>1, <1>2, <1>3, <1>4, <1>5, <1>6, <1>7 DEF Next

\* Only its last line makes a script finished.
LEMMA OnlyFinish ==
  ASSUME RInv, [Next]_vars, NEW s \in Scripts, s.name \in finished' \ finished
  PROVE  /\ Finish /\ s = Named(who) /\ pc # "off" /\ file \in Files
         /\ s \in Range(file.scripts)
<1>1. Finish
  <2> USE DEF chainVars, fileVars, runVars, operatorVars
  <2>1. ~ Finish => finished' \subseteq finished
    BY DEF Next, Chain, Process, Fault, Obey, Mine, CatchUp, Start, Reuse, Complain, Refuse,
           NotOwner, Send, Reject, Record, Fail, GiveUp, AlreadyVerified, Submit, WrongCheckout,
           CheckFails, Revert, Drop, ExplorerFails, Die, Again, ChangeBuild, Forget, CheckOut,
           PassOther, VerifyWith, SetRevenue, vars
  <2> QED
    BY <2>1
<1>2. pc # "off" /\ s.name = who /\ file \in Files /\ s \in Range(file.scripts)
  BY <1>1 DEF Finish, AtEnd, RInv, Shapes, Scripts
<1>3. s = Named(who)
  <2>1. Named(who) \in Range(file.scripts) /\ Named(who).name = who
    BY <1>2, RunFacts
  <2> QED
    BY <1>2, <2>1, NamingAssumption
<1> QED
  BY <1>1, <1>2, <1>3

LEMMA FinishedIsWired ==
  ASSUME RInv, WInv, [Next]_vars, NEW s \in Scripts, s.name \in finished' \ finished
  PROVE  Wired(s)'
<1>1. /\ Finish /\ s = Named(who) /\ pc # "off" /\ file \in Files
      /\ s \in Range(file.scripts)
  BY OnlyFinish
<1>2. /\ Steps = s.steps /\ Len(Steps) \in Nat /\ DOMAIN Steps = 1 .. Len(Steps)
      /\ i = Len(Steps) + 1
      /\ \A n \in 1 .. Len(Steps) : Steps[n] \in StepsOf(file)
  BY <1>1, RunFacts DEF Finish, AtEnd
<1>3. UNCHANGED <<file, code, verified, addr, inputs>>
  BY <1>1 DEF Finish, chainVars, fileVars
<1>4. ASSUME NEW n \in 1 .. Len(Steps)
      PROVE  Made(Steps[n])
  <2>1. CASE Steps[n].kind # "verify"
    <3>1. n \in 1 .. i - 1
      BY <1>2
    <3> QED
      BY <1>1, <2>1, <3>1 DEF WInv, Passed
  <2>2. CASE Steps[n].kind = "verify"
    <3>1. Steps[n].key \in s.reads
      BY <1>1, <1>2, <2>2, NamingAssumption
    <3>2. Steps[n] \in Reads
      BY <1>1, <1>2, <3>1 DEF Reads, StepsOf, Scripts
    <3>3. TRUE \in Answers(Steps[n])
      BY <1>1, <3>2 DEF Finish
    <3> QED
      BY <2>2, <3>3 DEF Answers, Made
  <2> QED
    BY <2>1, <2>2
<1>5. ASSUME NEW n \in DOMAIN s.steps
      PROVE  Made(s.steps[n])'
  <2>1. Made(s.steps[n])
    BY <1>2, <1>4, <1>5
  <2>2. \A st : There(st.key) => There(st.key)'
    BY <1>3 DEF There
  <2>3. \A u : Address(u)' = Address(u)
    BY <1>3, SameAddress
  <2>4. \A st : Has(st) => Has(st)'
    BY <1>3, <2>3 DEF Has
  <2> QED
    BY <2>1, <2>2, <2>4 DEF Made
<1> QED
  BY <1>5 DEF Wired

LEMMA FinishedMatches ==
  ASSUME RInv, WInv, [Next]_vars, NEW s \in Scripts, s.name \in finished' \ finished,
         s.hash = "recorded" \/ s.checks # {}
  PROVE  FindsPools'
<1>1. /\ Finish /\ s = Named(who) /\ file \in Files /\ s \in Range(file.scripts)
  BY OnlyFinish
<1>2. UNCHANGED <<code, addr>>
  BY <1>1 DEF Finish, chainVars, fileVars
<1>3. CASE s.hash = "recorded"
  <2>1. "factory" \in DOMAIN addr
    BY <1>1, <1>3, HashAssumption DEF WInv, KeepsExisting
  <2>2. /\ code[addr["factory"]].build.pool = poolHash
        /\ \A k \in PeripheryKeys \cap DOMAIN addr : code[addr[k]].build.declared = poolHash
    BY <1>3 DEF WInv, HashKept
  <2>3. \A k \in DOMAIN addr : There(k)
    BY DEF WInv, Recorded
  <2> QED
    BY <1>2, <2>1, <2>2, <2>3 DEF FindsPools, There
<1>4. CASE s.checks # {}
  <2>1. /\ \A key \in s.checks : SameCode(key)
        /\ HashInStep(build)
    BY <1>1, <1>4 DEF Finish, Proven
  <2>2. {"factory"} \cup (PeripheryKeys \cap DOMAIN addr) \subseteq s.checks
    BY <1>1, <1>4, HashAssumption DEF WInv, Recorded
  <2>3. There("factory") /\ code[addr["factory"]].build.pool = build.pool
    BY <2>1, <2>2 DEF SameCode
  <2>4. \A k \in PeripheryKeys \cap DOMAIN addr :
          There(k) /\ code[addr[k]].build.declared = build.declared
    BY <2>1, <2>2 DEF SameCode
  <2> QED
    BY <1>2, <2>1, <2>3, <2>4 DEF FindsPools, There, HashInStep
<1> QED
  BY <1>3, <1>4

\* A script that comes to its last line leaves every contract of its file on the chain,
\* constructed with and set to the contracts of the file, or verified, for every set of
\* files and scripts: the helpers record an address after the receipt (deploy), look at
\* it before they send, and later steps name what earlier steps recorded, so that
\* what a dead run has in the mempool sets nothing that the file does not mean.
THEOREM FinishedScriptsAreWired == Spec => WiredTogether
<1>1. Init => RInv /\ WInv
  BY RInit, WInit
<1>2. (RInv /\ WInv) /\ [Next]_vars => (RInv /\ WInv)'
  BY RStep, WStep
<1>3. (RInv /\ WInv) /\ [Next]_vars =>
        [\A s \in Scripts : s.name \in finished' \ finished => Wired(s)']_vars
  BY FinishedIsWired
<1> QED
  BY <1>1, <1>2, <1>3, PTL DEF Spec, WiredTogether

\* A script that takes the recorded factory's pools for granted, or that checks a whole
\* deployment, finishes only if every contract of the periphery that the file records
\* was compiled with the hash of that factory's pools (pool-hash.ts, assertPoolHash,
\* and check-deployment-hashes.ts).
THEOREM FinishedPeripheryMatches == Spec => PeripheryMatches
<1>1. Init => RInv /\ WInv
  BY RInit, WInit
<1>2. (RInv /\ WInv) /\ [Next]_vars => (RInv /\ WInv)'
  BY RStep, WStep
<1>3. (RInv /\ WInv) /\ [Next]_vars =>
        [\A s \in Scripts : (s.hash = "recorded" \/ s.checks # {}) /\ s.name \in finished' \ finished
                                => FindsPools']_vars
  BY FinishedMatches
<1> QED
  BY <1>1, <1>2, <1>3, PTL DEF Spec, PeripheryMatches

=============================================================================
