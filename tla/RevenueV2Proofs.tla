--------------------------- MODULE RevenueV2Proofs ---------------------------
(* What TLAPS proves of RevenueV2 for every value of the constants.        *)
EXTENDS RevenueV2Notice, SumLemmas, TLAPS

(* Division of naturals by a positive natural.                             *)

LEMMA DivNat ==
  ASSUME NEW a \in Nat, NEW b \in Nat \ {0}
  PROVE  /\ a \div b \in Nat
         /\ (a \div b) * b <= a
  OBVIOUS

LEMMA DivBound ==
  ASSUME NEW x \in Nat, NEW a \in Nat, NEW b \in Nat \ {0}, x <= a * b
  PROVE  x \div b <= a
<1>1. (x \div b) * b <= x /\ x \div b \in Nat
  BY DivNat
<1>2. (x \div b) * b <= a * b
  BY <1>1
<1> QED
  BY <1>1, <1>2

-----------------------------------------------------------------------------
(* The reward bookkeeping keeps its types: no checked subtraction in it    *)
(* can underflow.                                                          *)

LEMMA PrecisionPos == PRECISION \in Nat \ {0}
<1>1. STREAM_SCALE \in Nat \ {0} /\ RPT_SCALE \in Nat \ {0}
  BY ScaleAssumption
<1> QED
  BY <1>1 DEF PRECISION

LEMMA mulDivNat ==
  ASSUME NEW a \in Nat, NEW b \in Nat, NEW c \in Nat \ {0}
  PROVE  mulDiv(a, b, c) \in Nat
<1>1. a * b \in Nat
  OBVIOUS
<1> QED
  BY <1>1, DivNat DEF mulDiv

\* _accrue: the released amount is natural, and so is the carry it queues.
LEMMA AccrueType ==
  ASSUME TypeOK, NEW r \in RewardData
  PROVE  /\ _accrue(r) \in RewardData
         /\ _accrue(r).accounted = r.accounted
         /\ _accrue(r).reward_per_token >= r.reward_per_token
         /\ _accrue(r).listed = r.listed
<1> DEFINE end == _min(now, r.period_finish)
           amount == Released(r)
           increment == mulDiv(amount, RPT_SCALE, total_staked)
           carry == amount - mulDiv(increment, total_staked, RPT_SCALE)
<1>0. now \in Nat /\ total_staked \in Nat /\ RPT_SCALE \in Nat \ {0}
  BY ScaleAssumption DEF TypeOK
<1>1. end \in Nat /\ r.rate \in Nat /\ r.last_update \in Nat
  BY <1>0 DEF _min, RewardData
<1>2. CASE end <= r.last_update
  BY <1>1, <1>2 DEF _accrue, RewardData
<1>3. CASE end > r.last_update
  <2>1. amount \in Nat
    BY <1>1, <1>3 DEF Released
  <2>2. CASE total_staked = 0
    <3>1. _accrue(r) = [r EXCEPT !.queued = @ + amount, !.last_update = end]
      BY <1>1, <1>3, <2>2 DEF _accrue
    <3>2. r.queued + amount \in Nat
      BY <2>1 DEF RewardData
    <3> HIDE DEF amount, end
    <3>3. _accrue(r) \in RewardData
      BY <3>1, <3>2, <1>1, Zenon DEF RewardData
    <3> QED
      BY <3>1, <3>3 DEF RewardData
  <2>3. CASE total_staked # 0
    <3>1. increment \in Nat /\ increment * total_staked <= amount * RPT_SCALE
      <4>1. amount * RPT_SCALE \in Nat /\ total_staked \in Nat \ {0}
        BY <2>1, <1>0, <2>3
      <4> QED
        BY <4>1, DivNat DEF mulDiv
    <3>2. mulDiv(increment, total_staked, RPT_SCALE) \in Nat
      BY <3>1, <1>0, mulDivNat
    <3>3. mulDiv(increment, total_staked, RPT_SCALE) <= amount
      <4>1. increment * total_staked \in Nat
        BY <3>1, <1>0
      <4> QED
        BY <4>1, <3>1, <2>1, <1>0, DivBound DEF mulDiv
    <3>4. carry \in Nat
      BY <3>2, <3>3, <2>1
    <3>5. _accrue(r) = [r EXCEPT !.reward_per_token = @ + increment,
                                 !.queued = @ + carry, !.last_update = end]
      BY <1>1, <1>3, <2>3 DEF _accrue
    <3>6. r.queued + carry \in Nat /\ r.reward_per_token + increment \in Nat
      BY <3>1, <3>4 DEF RewardData
    <3> HIDE DEF carry, increment, amount, end
    <3>7. _accrue(r) \in RewardData
      BY <3>5, <3>6, <1>1, Zenon DEF RewardData
    <3> QED
      BY <3>1, <3>5, <3>7 DEF RewardData
  <2> QED
    BY <2>2, <2>3
<1> QED
  BY <1>0, <1>1, <1>2, <1>3

LEMMA StartStreamType ==
  ASSUME TypeOK, NEW r \in RewardData
  PROVE  /\ _startStream(r) \in RewardData
         /\ _startStream(r).accounted = r.accounted
         /\ _startStream(r).reward_per_token = r.reward_per_token
         /\ _startStream(r).listed = r.listed
<1> DEFINE pot == r.queued + Remaining(r)
           rate == pot \div reward_duration
<1>0. now \in Nat /\ reward_duration \in Nat \ {0}
  BY ScaleAssumption DEF TypeOK
<1>1. Remaining(r) \in Nat
  BY <1>0 DEF Remaining, RewardData
<1>2. pot \in Nat
  BY <1>1 DEF RewardData
<1>3. rate \in Nat /\ rate * reward_duration <= pot
  BY <1>2, <1>0, DivNat
<1>4. pot - rate * reward_duration \in Nat
  BY <1>0, <1>2, <1>3
<1>5. \/ _startStream(r) = r
      \/ _startStream(r) = [r EXCEPT !.queued = pot - rate * reward_duration,
                              !.rate = rate, !.last_update = now,
                              !.period_finish = now + reward_duration]
  BY DEF _startStream
<1>6. now + reward_duration \in Nat
  BY <1>0
<1> HIDE DEF pot, rate
<1>7. _startStream(r) \in RewardData
  BY <1>0, <1>3, <1>4, <1>5, <1>6, Zenon DEF RewardData
<1> QED
  BY <1>5, <1>7 DEF RewardData

\* _sync: what it accounts for is held if it was held before.
LEMMA SyncType ==
  ASSUME TypeOK, NEW r \in RewardData, NEW bal \in Nat, NEW readable \in BOOLEAN
  PROVE  /\ _sync(r, bal, readable) \in RewardData
         /\ _sync(r, bal, readable).reward_per_token >= r.reward_per_token
         /\ _sync(r, bal, readable).listed = r.listed
         /\ r.accounted <= bal => _sync(r, bal, readable).accounted <= bal
<1> DEFINE a == _accrue(r)
           inc == _min(bal - a.accounted, MAX_SYNC)
<1>1. /\ a \in RewardData /\ a.accounted = r.accounted /\ a.listed = r.listed
      /\ a.reward_per_token >= r.reward_per_token
  BY AccrueType
<1>2. STREAM_SCALE \in Nat /\ MAX_SYNC \in Nat
  BY ScaleAssumption
<1> HIDE DEF a
<1>3. /\ TakeIn(a, bal) \in RewardData
      /\ TakeIn(a, bal).reward_per_token = a.reward_per_token
      /\ TakeIn(a, bal).listed = a.listed
      /\ a.accounted <= bal => TakeIn(a, bal).accounted <= bal
  <2>1. CASE bal > a.accounted
    <3>1. inc \in Nat /\ inc <= bal - a.accounted
      BY <2>1, <1>1, <1>2 DEF _min, RewardData
    <3>2. inc * STREAM_SCALE \in Nat
      BY <3>1, <1>2
    <3>3. TakeIn(a, bal) = [a EXCEPT !.accounted = @ + inc,
                                     !.queued = @ + inc * STREAM_SCALE]
      BY <2>1 DEF TakeIn
    <3>4. a.accounted + inc \in Nat /\ a.queued + inc * STREAM_SCALE \in Nat
      BY <3>1, <3>2, <1>1 DEF RewardData
    <3> HIDE DEF inc
    <3>5. TakeIn(a, bal) \in RewardData
      BY <3>3, <3>4, <1>1, Zenon DEF RewardData
    <3> QED
      BY <3>1, <3>3, <3>5, <1>1 DEF RewardData
  <2>2. CASE ~(bal > a.accounted)
    BY <2>2, <1>1 DEF TakeIn
  <2> QED
    BY <2>1, <2>2
<1>4. \/ _sync(r, bal, readable) = _startStream(TakeIn(a, bal))
      \/ _sync(r, bal, readable) = _startStream(a)
  BY DEF _sync, a
<1>5. /\ _startStream(TakeIn(a, bal)) \in RewardData
      /\ _startStream(TakeIn(a, bal)).accounted = TakeIn(a, bal).accounted
      /\ _startStream(TakeIn(a, bal)).reward_per_token = TakeIn(a, bal).reward_per_token
      /\ _startStream(TakeIn(a, bal)).listed = TakeIn(a, bal).listed
  BY <1>3, StartStreamType
<1>6. /\ _startStream(a) \in RewardData
      /\ _startStream(a).accounted = a.accounted
      /\ _startStream(a).reward_per_token = a.reward_per_token
      /\ _startStream(a).listed = a.listed
  BY <1>1, StartStreamType
<1> QED
  BY <1>1, <1>3, <1>4, <1>5, <1>6

LEMMA UnsettledNat ==
  ASSUME TypeOK, NEW u \in Users, NEW t \in RewardTokens, NEW rpt \in Nat,
         Settleable(u, t, rpt)
  PROVE  Unsettled(u, t, rpt) \in Nat
<1>1. staked[u] \in Nat /\ user_reward_per_token_paid[u][t] \in Nat
  BY DEF TypeOK
<1>2. rpt - user_reward_per_token_paid[u][t] \in Nat
  BY <1>1 DEF Settleable
<1> QED
  BY <1>1, <1>2, PrecisionPos, mulDivNat DEF Unsettled

-----------------------------------------------------------------------------
(* The inductive invariant.                                                *)

\* sweep() can only take an unlisted token, which nothing is accounted in.
UnlistedOwesNothing ==
    \A t \in RewardTokens : ~reward_data[t].listed => reward_data[t].accounted = 0

\* A stake payout still to come is due to somebody who was let out.
PayoutsDue ==
    \A i \in 1 .. Len(todo) :
      todo[i].act = "payStake" =>
        todo[i].token \in Versions /\ now >= unlock_time[todo[i].user]

NothingLeftIdle == ~locked => todo = <<>>

ClaimsInRewards ==
    \A i \in 1 .. Len(todo) :
      todo[i].act = "claim" => todo[i].token \in RewardTokens

IInv == /\ TypeOK
        /\ PrincipalBacked
        /\ RewardsBacked
        /\ UnlistedOwesNothing
        /\ PayoutsDue
        /\ ClaimsInRewards
        /\ NothingLeftIdle

(* What the shared parts of the actions preserve.                          *)

RewardTypeOK ==
    /\ reward_data \in [RewardTokens -> RewardData]
    /\ user_reward_per_token_paid \in [Users -> [RewardTokens -> Nat]]
    /\ owed \in [Users -> [RewardTokens -> Nat]]

\* Reward bookkeeping that takes no revenue in.
AccountedSame ==
    \A t \in RewardTokens :
      /\ reward_data'[t].accounted = reward_data[t].accounted
      /\ reward_data'[t].listed = reward_data[t].listed

LEMMA CheckpointType ==
  ASSUME TypeOK, NEW u \in Users, _checkpoint(u)
  PROVE  RewardTypeOK' /\ AccountedSame
<1> DEFINE Checked(t) == IF reward_data[t].listed
                         THEN _startStream(_accrue(reward_data[t]))
                         ELSE reward_data[t]
           rpt(t) == Checked(t).reward_per_token
<1>1. ASSUME NEW t \in RewardTokens
      PROVE  /\ Checked(t) \in RewardData
             /\ Checked(t).accounted = reward_data[t].accounted
             /\ Checked(t).listed = reward_data[t].listed
             /\ rpt(t) \in Nat
  <2>1. reward_data[t] \in RewardData
    BY DEF TypeOK
  <2>2. /\ _accrue(reward_data[t]) \in RewardData
        /\ _accrue(reward_data[t]).accounted = reward_data[t].accounted
        /\ _accrue(reward_data[t]).listed = reward_data[t].listed
    BY <2>1, AccrueType
  <2>3. Checked(t) \in RewardData
    BY <2>1, <2>2, StartStreamType
  <2> QED
    BY <2>1, <2>2, <2>3, StartStreamType DEF RewardData
<1>2. ASSUME NEW t \in RewardTokens, reward_data[t].listed
      PROVE  Unsettled(u, t, rpt(t)) \in Nat
  <2>1. Settleable(u, t, rpt(t))
    BY <1>2 DEF _checkpoint, CanCheckpoint
  <2> HIDE DEF rpt
  <2> QED
    BY <2>1, <1>1, UnsettledNat
<1>3. reward_data' = [t \in RewardTokens |-> Checked(t)]
  BY DEF _checkpoint, CanCheckpoint
<1>4. owed' = [owed EXCEPT ![u] = [t \in RewardTokens |->
                 IF reward_data[t].listed
                 THEN owed[u][t] + Unsettled(u, t, rpt(t)) ELSE owed[u][t]]]
  BY DEF _checkpoint, CanCheckpoint
<1>5. user_reward_per_token_paid' =
        [user_reward_per_token_paid EXCEPT ![u] = [t \in RewardTokens |->
           IF reward_data[t].listed
           THEN rpt(t) ELSE user_reward_per_token_paid[u][t]]]
  BY DEF _checkpoint, CanCheckpoint
<1> HIDE DEF Checked, rpt
<1>6. ASSUME NEW t \in RewardTokens
      PROVE  (IF reward_data[t].listed
              THEN owed[u][t] + Unsettled(u, t, rpt(t)) ELSE owed[u][t]) \in Nat
  <2>1. owed[u][t] \in Nat
    BY DEF TypeOK
  <2> QED
    BY <2>1, <1>2
<1>7. owed' \in [Users -> [RewardTokens -> Nat]]
  BY <1>4, <1>6 DEF TypeOK
<1>8. user_reward_per_token_paid' \in [Users -> [RewardTokens -> Nat]]
  BY <1>5, <1>1 DEF TypeOK
<1> QED
  BY <1>1, <1>3, <1>7, <1>8 DEF RewardTypeOK, AccountedSame

LEMMA ForfeitType ==
  ASSUME TypeOK, NEW u \in Users, NEW t \in RewardTokens
  PROVE  /\ Forfeit(u, t) \in RewardData
         /\ Forfeit(u, t).accounted = reward_data[t].accounted
         /\ Forfeit(u, t).listed = reward_data[t].listed
<1> DEFINE r == reward_data[t]
           paid == user_reward_per_token_paid[u][t]
           back == mulDiv(staked[u], r.reward_per_token - paid, PRECISION) * STREAM_SCALE
<1>1. r \in RewardData /\ paid \in Nat /\ staked[u] \in Nat /\ STREAM_SCALE \in Nat
  BY ScaleAssumption DEF TypeOK
<1>2. CASE r.reward_per_token > paid
  <2>1. r.reward_per_token - paid \in Nat
    BY <1>1, <1>2 DEF RewardData
  <2>2. mulDiv(staked[u], r.reward_per_token - paid, PRECISION) \in Nat
    BY <2>1, <1>1, PrecisionPos, mulDivNat
  <2>3. r.queued + back \in Nat
    BY <2>2, <1>1 DEF RewardData
  <2>4. Forfeit(u, t) = r \/ Forfeit(u, t) = [r EXCEPT !.queued = @ + back]
    BY DEF Forfeit
  <2> HIDE DEF back, r
  <2>5. Forfeit(u, t) \in RewardData
    BY <2>3, <2>4, <1>1, Zenon DEF RewardData
  <2> QED
    BY <2>4, <2>5 DEF RewardData, r
<1>3. CASE ~(r.reward_per_token > paid)
  BY <1>1, <1>3 DEF Forfeit
<1> QED
  BY <1>2, <1>3

\* One round of a claim: the bookkeeping stays typed and what it still
\* accounts for is still held.
LEMMA ClaimOneType ==
  ASSUME IInv, NEW u \in Users, NEW token \in RewardTokens, ClaimOne(u, token)
  PROVE  /\ RewardTypeOK'
         /\ balance' \in [Tokens -> Nat]
         /\ open' \in BOOLEAN
         /\ \A t \in Tokens \ {token} : balance'[t] = balance[t]
         /\ \A t \in RewardTokens :
              /\ reward_data'[t].accounted <= balance'[t]
              /\ reward_data'[t].listed = reward_data[t].listed
              /\ ~reward_data[t].listed => reward_data'[t].accounted = 0
<1>1. PICK readable \in BOOLEAN :
      LET r      == _sync(reward_data[token], balance[token], readable)
          amount == owed[u][token] + Unsettled(u, token, r.reward_per_token)
      IN  /\ reward_data[token].listed
          /\ Settleable(u, token, r.reward_per_token)
          /\ amount <= r.accounted
          /\ reward_data' = [reward_data EXCEPT ![token] = [r EXCEPT !.accounted = @ - amount]]
          /\ user_reward_per_token_paid' =
               [user_reward_per_token_paid EXCEPT ![u][token] = r.reward_per_token]
          /\ owed' = [owed EXCEPT ![u][token] = 0]
          /\ IF amount = 0 THEN UNCHANGED balance /\ open' = FALSE
                           ELSE TransferOut(token, amount)
  BY DEF ClaimOne, CanClaimOne
<1> DEFINE r == _sync(reward_data[token], balance[token], readable)
           amount == owed[u][token] + Unsettled(u, token, r.reward_per_token)
<1>2. /\ reward_data[token] \in RewardData /\ balance[token] \in Nat
      /\ owed[u][token] \in Nat /\ token \in Tokens /\ TypeOK
      /\ reward_data[token].accounted <= balance[token]
  BY DEF IInv, TypeOK, Tokens, RewardsBacked
<1>3. /\ r \in RewardData
      /\ r.listed = reward_data[token].listed
      /\ r.accounted <= balance[token]
  BY <1>2, SyncType
<1>4. /\ reward_data[token].listed
      /\ Settleable(u, token, r.reward_per_token)
      /\ amount <= r.accounted
      /\ reward_data' = [reward_data EXCEPT ![token] = [r EXCEPT !.accounted = @ - amount]]
      /\ user_reward_per_token_paid' =
           [user_reward_per_token_paid EXCEPT ![u][token] = r.reward_per_token]
      /\ owed' = [owed EXCEPT ![u][token] = 0]
      /\ IF amount = 0 THEN UNCHANGED balance /\ open' = FALSE
                       ELSE TransferOut(token, amount)
  BY <1>1
<1> HIDE DEF r
<1>5. r.reward_per_token \in Nat /\ r.accounted \in Nat
  BY <1>3 DEF RewardData
<1>6. amount \in Nat
  BY <1>2, <1>4, <1>5, UnsettledNat
<1> HIDE DEF amount
<1>7. r.accounted - amount \in Nat
  BY <1>4, <1>5, <1>6
<1>8. [r EXCEPT !.accounted = @ - amount] \in RewardData
  BY <1>3, <1>7, Zenon DEF RewardData
<1>9. RewardTypeOK'
  BY <1>2, <1>4, <1>5, <1>8 DEF RewardTypeOK, TypeOK
<1>10. /\ balance' \in [Tokens -> Nat] /\ open' \in BOOLEAN
       /\ \A t \in Tokens \ {token} : balance'[t] = balance[t]
       /\ balance'[token] = balance[token] - amount
  <2>1. balance \in [Tokens -> Nat]
    BY <1>2 DEF TypeOK
  <2>2. CASE amount = 0
    <3>1. balance' = balance /\ open' = FALSE
      BY <2>2, <1>4
    <3>2. open' \in BOOLEAN
      BY <3>1
    <3>3. balance'[token] = balance[token] - amount
      BY <3>1, <2>2, <1>2
    <3> QED
      BY <3>1, <3>2, <3>3, <2>1
  <2>3. CASE amount # 0
    <3>1. /\ amount <= balance[token] /\ open' = TRUE
          /\ balance' = [balance EXCEPT ![token] = @ - amount]
      BY <2>3, <1>4 DEF TransferOut
    <3>2. balance[token] - amount \in Nat
      BY <3>1, <1>2, <1>6
    <3>3. open' \in BOOLEAN
      BY <3>1
    <3> QED
      BY <3>1, <3>2, <3>3, <2>1, <1>2
  <2> QED
    BY <2>2, <2>3
<1>11. ASSUME NEW t \in RewardTokens
       PROVE  /\ reward_data'[t].accounted <= balance'[t]
              /\ reward_data'[t].listed = reward_data[t].listed
              /\ ~reward_data[t].listed => reward_data'[t].accounted = 0
  <2>1. CASE t = token
    <3>1. reward_data'[t] = [r EXCEPT !.accounted = @ - amount]
      BY <2>1, <1>4, <1>2 DEF TypeOK
    <3>2. reward_data'[t].accounted = r.accounted - amount /\ reward_data'[t].listed = r.listed
      BY <3>1, <1>3 DEF RewardData
    <3> QED
      BY <3>2, <2>1, <1>2, <1>3, <1>4, <1>5, <1>6, <1>10
  <2>2. CASE t # token
    <3>1. reward_data'[t] = reward_data[t] /\ t \in Tokens
      BY <2>2, <1>4, <1>2 DEF TypeOK, Tokens
    <3> QED
      BY <3>1, <2>2, <1>10 DEF IInv, RewardsBacked, UnlistedOwesNothing
  <2> QED
    BY <2>1, <2>2
<1> QED
  BY <1>9, <1>10, <1>11

-----------------------------------------------------------------------------
(* TypeOK in parts, so that a step proves only the part it touches.        *)

StakeTypeOK ==
    /\ total_staked \in Nat
    /\ staked \in [Users -> Nat]
    /\ staked_by_version \in [Users -> [Versions -> Nat]]
    /\ total_staked_by_version \in [Versions -> Nat]
    /\ unlock_time \in [Users -> Nat]
DepositTypeOK ==
    erc223deposit \in [Users -> Nat] /\ total_erc223_deposits \in Nat
DelayTypeOK ==
    /\ claim_delay_current \in Nat
    /\ pending_claim_delay \in Nat
    /\ pending_claim_delay_effective \in Nat
OwnerTypeOK ==
    /\ owner \in OwnerCandidates \cup {Admin}
    /\ pending_owner \in OwnerCandidates \cup {NoOne}
CallTypeOK == locked \in BOOLEAN /\ open \in BOOLEAN /\ todo \in Seq(Items)
BalanceTypeOK == balance \in [Tokens -> Nat]

LEMMA TypeParts ==
  TypeOK <=> /\ now \in Nat /\ BalanceTypeOK /\ StakeTypeOK /\ DepositTypeOK
             /\ DelayTypeOK /\ RewardTypeOK /\ OwnerTypeOK /\ CallTypeOK
BY DEF TypeOK, BalanceTypeOK, StakeTypeOK, DepositTypeOK, DelayTypeOK,
       RewardTypeOK, OwnerTypeOK, CallTypeOK

LEMMA TypePartsNext ==
  /\ now' \in Nat /\ BalanceTypeOK' /\ StakeTypeOK' /\ DepositTypeOK'
  /\ DelayTypeOK' /\ RewardTypeOK' /\ OwnerTypeOK' /\ CallTypeOK'
  => TypeOK'
BY DEF TypeOK, BalanceTypeOK, StakeTypeOK, DepositTypeOK, DelayTypeOK,
       RewardTypeOK, OwnerTypeOK, CallTypeOK

LEMMA UnchangedTypes ==
  /\ UNCHANGED stakeVars /\ StakeTypeOK => StakeTypeOK'
  /\ UNCHANGED depositVars /\ DepositTypeOK => DepositTypeOK'
  /\ UNCHANGED delayVars /\ DelayTypeOK => DelayTypeOK'
  /\ UNCHANGED rewardVars /\ RewardTypeOK => RewardTypeOK'
  /\ UNCHANGED ownerVars /\ OwnerTypeOK => OwnerTypeOK'
  /\ UNCHANGED callVars /\ CallTypeOK => CallTypeOK'
BY DEF stakeVars, depositVars, delayVars, rewardVars, ownerVars, callVars,
       StakeTypeOK, DepositTypeOK, DelayTypeOK, RewardTypeOK, OwnerTypeOK, CallTypeOK

LEMMA TokenFacts ==
  /\ Erc20 \in Versions /\ Erc223 \in Versions /\ Erc20 # Erc223
  /\ Versions \subseteq Tokens /\ RewardTokens \subseteq Tokens
  /\ \A t \in RewardTokens : t # Erc20 /\ t # Erc223
BY TokenAssumption DEF Versions, Tokens

\* Rewards stay backed when nothing is taken in and no reward token leaves.
LEMMA RewardsKept ==
  ASSUME IInv, AccountedSame, \A t \in RewardTokens : balance'[t] >= balance[t],
         balance' \in [Tokens -> Nat], RewardTypeOK'
  PROVE  RewardsBacked' /\ UnlistedOwesNothing'
<1>1. ASSUME NEW t \in RewardTokens
      PROVE  /\ reward_data'[t].accounted <= balance'[t]
             /\ ~reward_data'[t].listed => reward_data'[t].accounted = 0
  <2>1. /\ reward_data'[t].accounted = reward_data[t].accounted
        /\ reward_data'[t].listed = reward_data[t].listed
    BY DEF AccountedSame
  <2>2. reward_data[t].accounted \in Nat /\ balance[t] \in Nat /\ balance'[t] \in Nat
    BY TokenFacts DEF IInv, TypeOK, RewardData
  <2>3. reward_data[t].accounted <= balance[t]
    BY DEF IInv, RewardsBacked
  <2>4. ~reward_data[t].listed => reward_data[t].accounted = 0
    BY DEF IInv, UnlistedOwesNothing
  <2> QED
    BY <2>1, <2>2, <2>3, <2>4
<1> QED
  BY <1>1 DEF RewardsBacked, UnlistedOwesNothing

\* _payStake: total and balance of the version fall together.
LEMMA PayStakeKeeps ==
  ASSUME TypeOK, NEW u \in Users, NEW v \in Versions, NEW amount \in Nat,
         _payStake(u, v, amount)
  PROVE  /\ staked_by_version' \in [Users -> [Versions -> Nat]]
         /\ total_staked_by_version' \in [Versions -> Nat]
         /\ balance' \in [Tokens -> Nat]
         /\ open' = TRUE
         /\ balance'[Erc20] - total_staked_by_version'[Erc20]
              = balance[Erc20] - total_staked_by_version[Erc20]
         /\ balance'[Erc223] - total_staked_by_version'[Erc223]
              = balance[Erc223] - total_staked_by_version[Erc223]
         /\ \A t \in RewardTokens : balance'[t] = balance[t]
<1>1. /\ staked_by_version[u][v] \in Nat /\ total_staked_by_version[v] \in Nat
      /\ balance[v] \in Nat /\ v \in Tokens
  BY TokenFacts DEF TypeOK
<1>2. /\ amount <= staked_by_version[u][v]
      /\ amount <= total_staked_by_version[v]
      /\ amount <= balance[v]
      /\ staked_by_version' = [staked_by_version EXCEPT ![u][v] = @ - amount]
      /\ total_staked_by_version' = [total_staked_by_version EXCEPT ![v] = @ - amount]
      /\ balance' = [balance EXCEPT ![v] = @ - amount]
      /\ open' = TRUE
  BY DEF _payStake, CanPayStake, TransferOut
<1>3. /\ staked_by_version[u][v] - amount \in Nat
      /\ total_staked_by_version[v] - amount \in Nat
      /\ balance[v] - amount \in Nat
  BY <1>1, <1>2
<1>4. staked_by_version' \in [Users -> [Versions -> Nat]]
  BY <1>2, <1>3 DEF TypeOK
<1>5. /\ total_staked_by_version' \in [Versions -> Nat]
      /\ balance' \in [Tokens -> Nat]
  BY <1>2, <1>3 DEF TypeOK
<1>6. ASSUME NEW w \in Versions
      PROVE  balance'[w] - total_staked_by_version'[w]
               = balance[w] - total_staked_by_version[w]
  <2>1. w \in Tokens /\ balance[w] \in Nat /\ total_staked_by_version[w] \in Nat
    BY TokenFacts DEF TypeOK
  <2> QED
    BY <2>1, <1>1, <1>2 DEF TypeOK
<1>7. \A t \in RewardTokens : balance'[t] = balance[t]
  BY <1>2, TokenFacts DEF TypeOK, Versions
<1> QED
  BY <1>2, <1>4, <1>5, <1>6, <1>7, TokenFacts

\* Principal stays backed when balance and total of each version move
\* together and the deposits stand still.
LEMMA PrincipalKept ==
  ASSUME TypeOK, PrincipalBacked, UNCHANGED depositVars,
         total_staked_by_version' \in [Versions -> Nat],
         balance' \in [Tokens -> Nat],
         balance'[Erc20] - total_staked_by_version'[Erc20]
           >= balance[Erc20] - total_staked_by_version[Erc20],
         balance'[Erc223] - total_staked_by_version'[Erc223]
           >= balance[Erc223] - total_staked_by_version[Erc223]
  PROVE  PrincipalBacked'
<1>1. /\ balance[Erc20] \in Nat /\ balance[Erc223] \in Nat
      /\ balance'[Erc20] \in Nat /\ balance'[Erc223] \in Nat
      /\ total_staked_by_version[Erc20] \in Nat /\ total_staked_by_version[Erc223] \in Nat
      /\ total_staked_by_version'[Erc20] \in Nat /\ total_staked_by_version'[Erc223] \in Nat
      /\ total_erc223_deposits \in Nat /\ total_erc223_deposits' = total_erc223_deposits
  BY TokenFacts DEF TypeOK, depositVars
<1> QED
  BY <1>1 DEF PrincipalBacked

-----------------------------------------------------------------------------
(* One lemma per action.                                                   *)

LEMMA StakeStep ==
  ASSUME IInv, NEW u \in Users, NEW v \in Versions, NEW amount \in StakeAmounts[v],
         stake(u, v, amount)
  PROVE  IInv'
<1>1. /\ amount \in Nat /\ v \in Tokens /\ TypeOK
      /\ staked[u] \in Nat /\ staked_by_version[u][v] \in Nat
      /\ total_staked_by_version[v] \in Nat /\ balance[v] \in Nat
      /\ erc223deposit[u] \in Nat /\ total_erc223_deposits \in Nat /\ now \in Nat
      /\ total_staked \in Nat
  <2>1. amount \in Nat
    BY ParameterAssumption
  <2> QED
    BY <2>1, TokenFacts DEF IInv, TypeOK
<1>2. claim_delay \in Nat
  BY DEF claim_delay, IInv, TypeOK
<1>3. RewardTypeOK' /\ AccountedSame
  BY <1>1, CheckpointType DEF stake
<1>4. /\ staked' = [staked EXCEPT ![u] = @ + amount]
      /\ total_staked' = total_staked + amount
      /\ staked_by_version' = [staked_by_version EXCEPT ![u][v] = @ + amount]
      /\ total_staked_by_version' = [total_staked_by_version EXCEPT ![v] = @ + amount]
      /\ unlock_time' = [unlock_time EXCEPT ![u] = now + claim_delay]
      /\ now' = now /\ UNCHANGED delayVars /\ UNCHANGED ownerVars /\ UNCHANGED callVars
  BY DEF stake
<1>5. StakeTypeOK'
  <2>1. /\ staked[u] + amount \in Nat /\ total_staked + amount \in Nat
        /\ staked_by_version[u][v] + amount \in Nat
        /\ total_staked_by_version[v] + amount \in Nat
        /\ now + claim_delay \in Nat
    BY <1>1, <1>2
  <2>2. staked_by_version' \in [Users -> [Versions -> Nat]]
    BY <2>1, <1>1, <1>4 DEF TypeOK
  <2> QED
    BY <2>1, <2>2, <1>1, <1>4 DEF TypeOK, StakeTypeOK
<1>6. /\ balance' \in [Tokens -> Nat] /\ DepositTypeOK'
      /\ PrincipalBacked'
      /\ \A t \in RewardTokens : balance'[t] = balance[t]
  <2>0. /\ balance[Erc20] \in Nat /\ balance[Erc223] \in Nat
        /\ total_staked_by_version[Erc20] \in Nat /\ total_staked_by_version[Erc223] \in Nat
        /\ balance[Erc20] >= total_staked_by_version[Erc20]
        /\ balance[Erc223] >= total_staked_by_version[Erc223] + total_erc223_deposits
    BY TokenFacts DEF IInv, TypeOK, PrincipalBacked
  <2>1. CASE v = Erc223 /\ erc223deposit[u] >= amount
    <3>1. /\ amount <= total_erc223_deposits
          /\ erc223deposit' = [erc223deposit EXCEPT ![u] = @ - amount]
          /\ total_erc223_deposits' = total_erc223_deposits - amount
          /\ balance' = balance
      BY <2>1 DEF stake
    <3>2. erc223deposit[u] - amount \in Nat /\ total_erc223_deposits - amount \in Nat
      BY <3>1, <2>1, <1>1
    <3>3. DepositTypeOK' /\ balance' \in [Tokens -> Nat]
      BY <3>1, <3>2, <1>1 DEF DepositTypeOK, TypeOK
    <3>4. /\ total_staked_by_version'[Erc20] = total_staked_by_version[Erc20]
          /\ total_staked_by_version'[Erc223] = total_staked_by_version[Erc223] + amount
      BY <1>4, <2>1, <1>1, TokenFacts DEF TypeOK
    <3> QED
      BY <3>1, <3>3, <3>4, <2>0, <1>1 DEF PrincipalBacked
  <2>2. CASE ~(v = Erc223 /\ erc223deposit[u] >= amount)
    <3>1. balance' = [balance EXCEPT ![v] = @ + amount] /\ UNCHANGED depositVars
      BY <2>2 DEF stake
    <3>2. balance[v] + amount \in Nat
      BY <1>1
    <3>3. balance' \in [Tokens -> Nat] /\ DepositTypeOK'
      BY <3>1, <3>2, <1>1 DEF DepositTypeOK, TypeOK, depositVars
    <3>4. \A t \in RewardTokens : balance'[t] = balance[t]
      BY <3>1, <1>1, TokenFacts DEF TypeOK, Versions
    <3>5. /\ balance'[Erc20] - total_staked_by_version'[Erc20]
               = balance[Erc20] - total_staked_by_version[Erc20]
          /\ balance'[Erc223] - total_staked_by_version'[Erc223]
               = balance[Erc223] - total_staked_by_version[Erc223]
      <4>1. ASSUME NEW w \in Versions
            PROVE  balance'[w] - total_staked_by_version'[w]
                     = balance[w] - total_staked_by_version[w]
        <5>1. w \in Tokens /\ balance[w] \in Nat /\ total_staked_by_version[w] \in Nat
          BY TokenFacts DEF IInv, TypeOK
        <5> QED
          BY <5>1, <3>1, <1>4, <1>1 DEF TypeOK
      <4> QED
        BY <4>1, TokenFacts
    <3>6. balance'[Erc20] \in Nat /\ balance'[Erc223] \in Nat
          /\ total_staked_by_version'[Erc20] \in Nat /\ total_staked_by_version'[Erc223] \in Nat
      BY <3>3, <1>5, TokenFacts DEF StakeTypeOK
    <3>7. PrincipalBacked'
      BY <3>1, <3>5, <3>6, <2>0, <1>1 DEF PrincipalBacked, depositVars
    <3> QED
      BY <3>3, <3>4, <3>7
  <2> QED
    BY <2>1, <2>2
<1>7. TypeOK'
  BY <1>1, <1>3, <1>4, <1>5, <1>6, TypeParts, TypePartsNext, UnchangedTypes DEF BalanceTypeOK
<1>8. RewardsBacked' /\ UnlistedOwesNothing'
  <2>1. \A t \in RewardTokens : balance'[t] >= balance[t]
    BY <1>6, TokenFacts DEF IInv, TypeOK
  <2> QED
    BY <2>1, <1>3, <1>6, RewardsKept
<1>9. PayoutsDue' /\ ClaimsInRewards' /\ NothingLeftIdle'
  <2>1. todo' = <<>>
    BY <1>4 DEF callVars, stake, IInv, NothingLeftIdle
  <2> QED
    BY <2>1 DEF PayoutsDue, ClaimsInRewards, NothingLeftIdle
<1> QED
  BY <1>6, <1>7, <1>8, <1>9 DEF IInv

\* A payout with nothing to follow leaves an empty call frame.
LEMMA EmptyTodo ==
  ASSUME todo' = <<>>
  PROVE  /\ todo' \in Seq(Items)
         /\ PayoutsDue' /\ ClaimsInRewards' /\ NothingLeftIdle'
BY DEF PayoutsDue, ClaimsInRewards, NothingLeftIdle

LEMMA WithdrawStep ==
  ASSUME IInv, NEW u \in Users, NEW v \in Versions, NEW amount \in StakeAmounts[v],
         withdraw(u, v, amount)
  PROVE  IInv'
<1>1. amount \in Nat /\ TypeOK /\ staked[u] \in Nat /\ total_staked \in Nat
  BY ParameterAssumption DEF IInv, TypeOK
<1>2. /\ amount <= staked[u] /\ amount <= total_staked
      /\ staked' = [staked EXCEPT ![u] = @ - amount]
      /\ total_staked' = total_staked - amount
      /\ unlock_time' = unlock_time /\ now' = now
      /\ UNCHANGED depositVars /\ UNCHANGED delayVars /\ UNCHANGED ownerVars
      /\ locked' = TRUE /\ todo' = <<>>
      /\ _payStake(u, v, amount) /\ _checkpoint(u)
  BY DEF withdraw, Enter
<1>3. RewardTypeOK' /\ AccountedSame
  BY <1>1, <1>2, CheckpointType
<1>4. /\ staked_by_version' \in [Users -> [Versions -> Nat]]
      /\ total_staked_by_version' \in [Versions -> Nat]
      /\ balance' \in [Tokens -> Nat]
      /\ open' = TRUE
      /\ balance'[Erc20] - total_staked_by_version'[Erc20]
           = balance[Erc20] - total_staked_by_version[Erc20]
      /\ balance'[Erc223] - total_staked_by_version'[Erc223]
           = balance[Erc223] - total_staked_by_version[Erc223]
      /\ \A t \in RewardTokens : balance'[t] = balance[t]
  BY <1>1, <1>2, PayStakeKeeps
<1>5. StakeTypeOK'
  <2>1. staked[u] - amount \in Nat /\ total_staked - amount \in Nat
    BY <1>1, <1>2
  <2> QED
    BY <2>1, <1>1, <1>2, <1>4 DEF StakeTypeOK, TypeOK
<1>6. CallTypeOK'
  BY <1>2, <1>4, EmptyTodo DEF CallTypeOK
<1>7. TypeOK'
  BY <1>1, <1>2, <1>3, <1>4, <1>5, <1>6, TypeParts, TypePartsNext, UnchangedTypes
     DEF BalanceTypeOK
<1>8. PrincipalBacked'
  <2>1. /\ balance[Erc20] - total_staked_by_version[Erc20] \in Int
        /\ balance[Erc223] - total_staked_by_version[Erc223] \in Int
    BY <1>1, TokenFacts DEF TypeOK
  <2>2. /\ balance'[Erc20] - total_staked_by_version'[Erc20]
             >= balance[Erc20] - total_staked_by_version[Erc20]
        /\ balance'[Erc223] - total_staked_by_version'[Erc223]
             >= balance[Erc223] - total_staked_by_version[Erc223]
    BY <2>1, <1>4
  <2> QED
    BY <2>2, <1>1, <1>2, <1>4, PrincipalKept DEF IInv
<1>9. RewardsBacked' /\ UnlistedOwesNothing'
  <2>1. \A t \in RewardTokens : balance'[t] >= balance[t]
    BY <1>1, <1>4, TokenFacts DEF TypeOK
  <2> QED
    BY <2>1, <1>3, <1>4, RewardsKept
<1> QED
  BY <1>2, <1>7, <1>8, <1>9, EmptyTodo DEF IInv

\* The common tail of the two exits, whatever the bookkeeping before it did.
LEMMA LeaveStep ==
  ASSUME IInv, NEW u \in Users, locked' = TRUE, LeaveWith(u),
         RewardTypeOK', AccountedSame
  PROVE  IInv'
<1> DEFINE part20 == staked_by_version[u][Erc20]
           part223 == staked_by_version[u][Erc223]
           item == PayStakeItem(u, Erc223, part223)
<1>1. /\ TypeOK /\ staked[u] \in Nat /\ total_staked \in Nat
      /\ part20 \in Nat /\ part223 \in Nat /\ now \in Nat /\ unlock_time[u] \in Nat
  BY TokenFacts DEF IInv, TypeOK
<1>2. /\ staked[u] <= total_staked
      /\ now >= unlock_time[u]
      /\ staked' = [staked EXCEPT ![u] = 0]
      /\ total_staked' = total_staked - staked[u]
      /\ unlock_time' = unlock_time /\ now' = now
      /\ UNCHANGED depositVars /\ UNCHANGED delayVars /\ UNCHANGED ownerVars
  BY DEF LeaveWith, CanLeave, Unlocked
<1>3. /\ _payStake(u, Erc20, part20) \/ _payStake(u, Erc223, part223)
      /\ todo' = <<item>> \/ todo' = <<>>
  BY DEF LeaveWith, CanLeave
<1>4. /\ staked_by_version' \in [Users -> [Versions -> Nat]]
      /\ total_staked_by_version' \in [Versions -> Nat]
      /\ balance' \in [Tokens -> Nat]
      /\ open' = TRUE
      /\ balance'[Erc20] - total_staked_by_version'[Erc20]
           = balance[Erc20] - total_staked_by_version[Erc20]
      /\ balance'[Erc223] - total_staked_by_version'[Erc223]
           = balance[Erc223] - total_staked_by_version[Erc223]
      /\ \A t \in RewardTokens : balance'[t] = balance[t]
  BY <1>1, <1>3, TokenFacts, PayStakeKeeps
<1>5. StakeTypeOK'
  <2>1. total_staked - staked[u] \in Nat
    BY <1>1, <1>2
  <2> QED
    BY <2>1, <1>1, <1>2, <1>4 DEF StakeTypeOK, TypeOK
<1>6. /\ todo' \in Seq(Items)
      /\ PayoutsDue' /\ ClaimsInRewards' /\ NothingLeftIdle'
  <2>1. CASE todo' = <<>>
    BY <2>1, EmptyTodo
  <2>2. CASE todo' = <<item>>
    <3>1. item \in Items /\ item.act = "payStake" /\ item.token = Erc223 /\ item.user = u
      BY <1>1, TokenFacts DEF PayStakeItem, Items
    <3> HIDE DEF item
    <3>2. todo' \in Seq(Items) /\ Len(todo') = 1 /\ todo'[1] = item
      BY <2>2, <3>1
    <3>3. PayoutsDue'
      BY <3>1, <3>2, <1>2, TokenFacts DEF PayoutsDue
    <3>4. ClaimsInRewards'
      BY <3>1, <3>2 DEF ClaimsInRewards
    <3>5. NothingLeftIdle'
      BY DEF NothingLeftIdle
    <3> QED
      BY <3>2, <3>3, <3>4, <3>5
  <2> QED
    BY <1>3, <2>1, <2>2
<1>7. TypeOK'
  <2>1. CallTypeOK'
    BY <1>4, <1>6 DEF CallTypeOK
  <2> QED
    BY <2>1, <1>1, <1>2, <1>4, <1>5, TypeParts, TypePartsNext, UnchangedTypes
       DEF BalanceTypeOK
<1>8. PrincipalBacked'
  <2>1. /\ balance[Erc20] - total_staked_by_version[Erc20] \in Int
        /\ balance[Erc223] - total_staked_by_version[Erc223] \in Int
    BY <1>1, TokenFacts DEF TypeOK
  <2>2. /\ balance'[Erc20] - total_staked_by_version'[Erc20]
             >= balance[Erc20] - total_staked_by_version[Erc20]
        /\ balance'[Erc223] - total_staked_by_version'[Erc223]
             >= balance[Erc223] - total_staked_by_version[Erc223]
    BY <2>1, <1>4
  <2> QED
    BY <2>2, <1>1, <1>2, <1>4, PrincipalKept DEF IInv
<1>9. RewardsBacked' /\ UnlistedOwesNothing'
  <2>1. \A t \in RewardTokens : balance'[t] >= balance[t]
    BY <1>1, <1>4, TokenFacts DEF TypeOK
  <2> QED
    BY <2>1, <1>4, RewardsKept
<1> QED
  BY <1>6, <1>7, <1>8, <1>9 DEF IInv

LEMMA WithdrawAllStep ==
  ASSUME IInv, NEW u \in Users, withdraw_all(u)
  PROVE  IInv'
<1>1. locked' = TRUE /\ LeaveWith(u) /\ _checkpoint(u) /\ TypeOK
  BY DEF withdraw_all, Enter, IInv
<1> QED
  BY <1>1, CheckpointType, LeaveStep

LEMMA EmergencyStep ==
  ASSUME IInv, NEW u \in Users, emergency_withdraw(u)
  PROVE  IInv'
<1>1. /\ locked' = TRUE /\ LeaveWith(u) /\ TypeOK /\ owed' = owed
      /\ reward_data' = [t \in RewardTokens |-> Forfeit(u, t)]
      /\ user_reward_per_token_paid' =
           [user_reward_per_token_paid EXCEPT ![u] = [t \in RewardTokens |->
              IF reward_data[t].listed /\ reward_data[t].reward_per_token > @[t]
              THEN reward_data[t].reward_per_token ELSE @[t]]]
  BY DEF emergency_withdraw, Enter, IInv
<1>2. AccountedSame /\ reward_data' \in [RewardTokens -> RewardData]
  BY <1>1, ForfeitType DEF AccountedSame
<1>3. user_reward_per_token_paid' \in [Users -> [RewardTokens -> Nat]]
  BY <1>1 DEF TypeOK, RewardData
<1>4. RewardTypeOK'
  BY <1>1, <1>2, <1>3 DEF RewardTypeOK, TypeOK
<1> QED
  BY <1>1, <1>2, <1>4, LeaveStep

\* Principal and deposits stand still and only one reward token moves.
LEMMA RewardOnlyStep ==
  ASSUME IInv, now' = now, UNCHANGED stakeVars, UNCHANGED depositVars,
         UNCHANGED delayVars, UNCHANGED ownerVars, CallTypeOK',
         PayoutsDue', ClaimsInRewards', NothingLeftIdle',
         RewardTypeOK', balance' \in [Tokens -> Nat],
         \A v \in Versions : balance'[v] = balance[v],
         \A t \in RewardTokens :
           /\ reward_data'[t].accounted <= balance'[t]
           /\ ~reward_data'[t].listed => reward_data'[t].accounted = 0
  PROVE  IInv'
<1>1. TypeOK'
  BY TypeParts, TypePartsNext, UnchangedTypes DEF BalanceTypeOK, IInv
<1>2. PrincipalBacked'
  BY TokenFacts DEF PrincipalBacked, IInv, stakeVars, depositVars
<1> QED
  BY <1>1, <1>2 DEF IInv, RewardsBacked, UnlistedOwesNothing

LEMMA ClaimStep ==
  ASSUME IInv, NEW u \in Users, NEW tokens \in ClaimLists, claim(u, tokens)
  PROVE  IInv'
<1> DEFINE n == Len(tokens) - 1
<1>1. tokens \in Seq(RewardTokens) /\ tokens # <<>>
  BY ParameterAssumption DEF claim
<1>2. n \in Nat /\ Head(tokens) \in RewardTokens
      /\ \A i \in 1 .. n : tokens[i + 1] \in RewardTokens
  <2>1. Len(tokens) \in Nat /\ Len(tokens) # 0 /\ tokens \in [1 .. Len(tokens) -> RewardTokens]
    BY <1>1
  <2> QED
    BY <2>1, <1>1
<1>3. /\ now' = now /\ UNCHANGED stakeVars /\ UNCHANGED depositVars
      /\ UNCHANGED delayVars /\ UNCHANGED ownerVars
      /\ locked' = TRUE /\ ClaimOne(u, Head(tokens))
      /\ todo' = [i \in 1 .. n |-> ClaimItem(u, tokens[i + 1])]
  BY DEF claim, Enter
<1> HIDE DEF n
<1>4. /\ RewardTypeOK' /\ balance' \in [Tokens -> Nat] /\ open' \in BOOLEAN
      /\ \A t \in Tokens \ {Head(tokens)} : balance'[t] = balance[t]
      /\ \A t \in RewardTokens :
           /\ reward_data'[t].accounted <= balance'[t]
           /\ reward_data'[t].listed = reward_data[t].listed
           /\ ~reward_data[t].listed => reward_data'[t].accounted = 0
  BY <1>2, <1>3, ClaimOneType
<1>5. \A i \in 1 .. n : /\ ClaimItem(u, tokens[i + 1]) \in Items
                        /\ ClaimItem(u, tokens[i + 1]).act = "claim"
                        /\ ClaimItem(u, tokens[i + 1]).token \in RewardTokens
  BY <1>2, TokenFacts DEF ClaimItem, Items
<1>6. todo' \in Seq(Items) /\ Len(todo') = n
      /\ \A i \in 1 .. n : todo'[i] = ClaimItem(u, tokens[i + 1])
  BY <1>2, <1>3, <1>5
<1>7. PayoutsDue' /\ ClaimsInRewards' /\ NothingLeftIdle' /\ CallTypeOK'
  <2>1. PayoutsDue' /\ ClaimsInRewards'
    BY <1>5, <1>6 DEF PayoutsDue, ClaimsInRewards
  <2>2. NothingLeftIdle'
    BY <1>3 DEF NothingLeftIdle
  <2>3. CallTypeOK'
    BY <1>3, <1>4, <1>6 DEF CallTypeOK
  <2> QED
    BY <2>1, <2>2, <2>3
<1>8. \A v \in Versions : balance'[v] = balance[v]
  BY <1>4, <1>2, TokenFacts DEF Versions
<1>9. \A t \in RewardTokens :
           /\ reward_data'[t].accounted <= balance'[t]
           /\ ~reward_data'[t].listed => reward_data'[t].accounted = 0
  BY <1>4
<1> QED
  BY <1>3, <1>4, <1>7, <1>8, <1>9, RewardOnlyStep

LEMMA SyncStep ==
  ASSUME IInv, NEW token \in RewardTokens, sync(token)
  PROVE  IInv'
<1>1. /\ now' = now /\ UNCHANGED stakeVars /\ UNCHANGED depositVars
      /\ UNCHANGED delayVars /\ UNCHANGED ownerVars /\ UNCHANGED callVars
      /\ balance' = balance /\ owed' = owed
      /\ user_reward_per_token_paid' = user_reward_per_token_paid
      /\ reward_data[token].listed
  BY DEF sync
<1>2. PICK readable \in BOOLEAN :
        reward_data' = [reward_data EXCEPT ![token] = _sync(@, balance[token], readable)]
  BY DEF sync
<1>3. /\ TypeOK /\ reward_data[token] \in RewardData /\ balance[token] \in Nat
      /\ reward_data[token].accounted <= balance[token]
  BY TokenFacts DEF IInv, TypeOK, RewardsBacked
<1> DEFINE r == _sync(reward_data[token], balance[token], readable)
<1>4. /\ r \in RewardData
      /\ r.listed = reward_data[token].listed
      /\ r.accounted <= balance[token]
  BY <1>3, SyncType
<1>5. reward_data' = [reward_data EXCEPT ![token] = r]
  BY <1>2
<1> HIDE DEF r
<1>6. RewardTypeOK'
  BY <1>1, <1>3, <1>4, <1>5 DEF RewardTypeOK, TypeOK
<1>7. \A t \in RewardTokens :
        /\ reward_data'[t].accounted <= balance'[t]
        /\ ~reward_data'[t].listed => reward_data'[t].accounted = 0
  BY <1>1, <1>3, <1>4, <1>5 DEF TypeOK, IInv, RewardsBacked, UnlistedOwesNothing
<1>8. PayoutsDue' /\ ClaimsInRewards' /\ NothingLeftIdle' /\ CallTypeOK'
  <2>1. todo' = todo /\ locked' = locked /\ open' = open /\ unlock_time' = unlock_time
    BY <1>1 DEF callVars, stakeVars
  <2> QED
    BY <2>1, <1>1 DEF IInv, TypeOK, PayoutsDue, ClaimsInRewards, NothingLeftIdle, CallTypeOK
<1>9. balance' \in [Tokens -> Nat] /\ \A v \in Versions : balance'[v] = balance[v]
  BY <1>1, <1>3 DEF TypeOK
<1> QED
  BY <1>1, <1>6, <1>7, <1>8, <1>9, RewardOnlyStep

\* What is left of the frame after its head has been paid.
LEMMA TailTodo ==
  ASSUME IInv, todo # <<>>, todo' = Tail(todo), now' = now,
         unlock_time' = unlock_time, locked, locked' = locked
  PROVE  /\ todo' \in Seq(Items)
         /\ PayoutsDue' /\ ClaimsInRewards' /\ NothingLeftIdle'
         /\ Head(todo) \in Items
         /\ Head(todo).act = "payStake" =>
              Head(todo).token \in Versions /\ now >= unlock_time[Head(todo).user]
         /\ Head(todo).act = "claim" => Head(todo).token \in RewardTokens
<1>1. todo \in Seq(Items) /\ Len(todo) \in Nat /\ Len(todo) # 0
  BY DEF IInv, TypeOK
<1>2. Head(todo) = todo[1] /\ 1 \in 1 .. Len(todo) /\ Head(todo) \in Items
  BY <1>1
<1>3. /\ todo' \in Seq(Items) /\ Len(todo') = Len(todo) - 1
      /\ \A i \in 1 .. Len(todo') : todo'[i] = todo[i + 1] /\ i + 1 \in 1 .. Len(todo)
  BY <1>1
<1>4. PayoutsDue'
  BY <1>3 DEF PayoutsDue, IInv
<1>5. ClaimsInRewards'
  BY <1>3 DEF ClaimsInRewards, IInv
<1>6. NothingLeftIdle'
  BY DEF NothingLeftIdle
<1> QED
  BY <1>2, <1>3, <1>4, <1>5, <1>6 DEF IInv, PayoutsDue, ClaimsInRewards

LEMMA ContinueStep ==
  ASSUME IInv, Continue
  PROVE  IInv'
<1> DEFINE item == Head(todo)
<1>1. /\ locked /\ todo # <<>> /\ todo' = Tail(todo) /\ now' = now
      /\ locked' = locked /\ unlock_time' = unlock_time
      /\ UNCHANGED depositVars /\ UNCHANGED delayVars /\ UNCHANGED ownerVars
  BY DEF Continue, stakeVars
<1>2. /\ todo' \in Seq(Items)
      /\ PayoutsDue' /\ ClaimsInRewards' /\ NothingLeftIdle'
      /\ item \in Items
      /\ item.act = "payStake" => item.token \in Versions
      /\ item.act = "claim" => item.token \in RewardTokens
  BY <1>1, TailTodo
<1>3. item.user \in Users /\ item.amount \in Nat /\ TypeOK
  BY <1>2 DEF Items, IInv
<1>4. CASE /\ item.act = "payStake"
           /\ _payStake(item.user, item.token, item.amount)
           /\ UNCHANGED <<total_staked, staked, unlock_time, rewardVars>>
  <2>1. /\ staked_by_version' \in [Users -> [Versions -> Nat]]
        /\ total_staked_by_version' \in [Versions -> Nat]
        /\ balance' \in [Tokens -> Nat]
        /\ open' = TRUE
        /\ balance'[Erc20] - total_staked_by_version'[Erc20]
             = balance[Erc20] - total_staked_by_version[Erc20]
        /\ balance'[Erc223] - total_staked_by_version'[Erc223]
             = balance[Erc223] - total_staked_by_version[Erc223]
        /\ \A t \in RewardTokens : balance'[t] = balance[t]
    BY <1>2, <1>3, <1>4, PayStakeKeeps
  <2>2. StakeTypeOK' /\ CallTypeOK'
    BY <1>1, <1>2, <1>3, <1>4, <2>1 DEF StakeTypeOK, CallTypeOK, TypeOK
  <2>3. RewardTypeOK' /\ AccountedSame
    BY <1>3, <1>4 DEF RewardTypeOK, AccountedSame, rewardVars, TypeOK
  <2>4. TypeOK'
    BY <1>1, <1>3, <2>1, <2>2, <2>3, TypeParts, TypePartsNext, UnchangedTypes
       DEF BalanceTypeOK
  <2>5. PrincipalBacked'
    <3>1. /\ balance[Erc20] - total_staked_by_version[Erc20] \in Int
          /\ balance[Erc223] - total_staked_by_version[Erc223] \in Int
      BY <1>3, TokenFacts DEF TypeOK
    <3>2. /\ balance'[Erc20] - total_staked_by_version'[Erc20]
               >= balance[Erc20] - total_staked_by_version[Erc20]
          /\ balance'[Erc223] - total_staked_by_version'[Erc223]
               >= balance[Erc223] - total_staked_by_version[Erc223]
      BY <3>1, <2>1
    <3> QED
      BY <3>2, <1>1, <1>3, <2>1, PrincipalKept DEF IInv
  <2>6. RewardsBacked' /\ UnlistedOwesNothing'
    <3>1. \A t \in RewardTokens : balance'[t] >= balance[t]
      BY <1>3, <2>1, TokenFacts DEF TypeOK
    <3> QED
      BY <3>1, <2>1, <2>3, RewardsKept
  <2> QED
    BY <1>2, <2>4, <2>5, <2>6 DEF IInv
<1>5. CASE /\ item.act = "claim"
           /\ ClaimOne(item.user, item.token)
           /\ UNCHANGED stakeVars
  <2>1. /\ RewardTypeOK' /\ balance' \in [Tokens -> Nat] /\ open' \in BOOLEAN
        /\ \A t \in Tokens \ {item.token} : balance'[t] = balance[t]
        /\ \A t \in RewardTokens :
             /\ reward_data'[t].accounted <= balance'[t]
             /\ reward_data'[t].listed = reward_data[t].listed
             /\ ~reward_data[t].listed => reward_data'[t].accounted = 0
    BY <1>2, <1>3, <1>5, ClaimOneType
  <2>2. CallTypeOK'
    BY <1>1, <1>2, <1>3, <2>1 DEF CallTypeOK, TypeOK
  <2>3. \A v \in Versions : balance'[v] = balance[v]
    BY <2>1, <1>2, <1>5, TokenFacts DEF Versions
  <2>4. \A t \in RewardTokens :
          /\ reward_data'[t].accounted <= balance'[t]
          /\ ~reward_data'[t].listed => reward_data'[t].accounted = 0
    BY <2>1
  <2> QED
    BY <1>1, <1>2, <1>5, <2>1, <2>2, <2>3, <2>4, RewardOnlyStep
<1> QED
  BY <1>4, <1>5 DEF Continue

\* Steps that touch neither stakes, rewards, deposits nor the clock: only
\* balances may move, and what is owed stays covered.
LEMMA QuietStep ==
  ASSUME IInv, now' = now, UNCHANGED stakeVars, UNCHANGED rewardVars,
         DepositTypeOK', DelayTypeOK', OwnerTypeOK', CallTypeOK',
         PayoutsDue', ClaimsInRewards', NothingLeftIdle',
         balance' \in [Tokens -> Nat], PrincipalBacked',
         \A t \in RewardTokens : reward_data[t].accounted <= balance'[t]
  PROVE  IInv'
<1>1. TypeOK'
  BY TypeParts, TypePartsNext, UnchangedTypes DEF BalanceTypeOK, IInv
<1>2. RewardsBacked' /\ UnlistedOwesNothing'
  BY DEF IInv, rewardVars, RewardsBacked, UnlistedOwesNothing
<1> QED
  BY <1>1, <1>2 DEF IInv

LEMMA SameFrame ==
  ASSUME IInv, now' = now, UNCHANGED callVars, UNCHANGED stakeVars
  PROVE  PayoutsDue' /\ ClaimsInRewards' /\ NothingLeftIdle' /\ CallTypeOK'
BY DEF IInv, TypeOK, callVars, stakeVars, PayoutsDue, ClaimsInRewards,
       NothingLeftIdle, CallTypeOK

LEMMA ReturnStep ==
  ASSUME IInv, Return
  PROVE  IInv'
<1>1. /\ now' = now /\ UNCHANGED stakeVars /\ UNCHANGED rewardVars
      /\ UNCHANGED depositVars /\ UNCHANGED delayVars /\ UNCHANGED ownerVars
      /\ balance' = balance /\ locked' = FALSE /\ open' = FALSE /\ todo' = <<>>
  BY DEF Return
<1>2. DepositTypeOK' /\ DelayTypeOK' /\ OwnerTypeOK'
  BY <1>1, TypeParts, UnchangedTypes DEF IInv
<1>3. CallTypeOK'
  BY <1>1, EmptyTodo DEF CallTypeOK
<1>4. /\ balance' \in [Tokens -> Nat]
      /\ \A t \in RewardTokens : reward_data[t].accounted <= balance'[t]
      /\ PrincipalBacked'
  BY <1>1 DEF IInv, TypeOK, RewardsBacked, PrincipalBacked, depositVars, stakeVars
<1> QED
  BY <1>1, <1>2, <1>3, <1>4, EmptyTodo, QuietStep

LEMMA TokenReceivedStep ==
  ASSUME IInv, NEW u \in Users, NEW amount \in StakeAmounts[Erc223],
         tokenReceived(u, amount)
  PROVE  IInv'
<1>1. /\ now' = now /\ UNCHANGED stakeVars /\ UNCHANGED rewardVars
      /\ UNCHANGED delayVars /\ UNCHANGED ownerVars /\ UNCHANGED callVars
      /\ balance' = [balance EXCEPT ![Erc223] = @ + amount]
      /\ erc223deposit' = [erc223deposit EXCEPT ![u] = @ + amount]
      /\ total_erc223_deposits' = total_erc223_deposits + amount
  BY DEF tokenReceived
<1>2. amount \in Nat
  BY ParameterAssumption, TokenFacts
<1>3. /\ TypeOK /\ balance[Erc223] \in Nat /\ balance[Erc20] \in Nat
      /\ erc223deposit[u] \in Nat /\ total_erc223_deposits \in Nat
      /\ total_staked_by_version[Erc223] \in Nat
      /\ total_staked_by_version[Erc20] \in Nat
  BY TokenFacts DEF IInv, TypeOK
<1>4. /\ balance[Erc223] + amount \in Nat /\ erc223deposit[u] + amount \in Nat
      /\ total_erc223_deposits + amount \in Nat
  BY <1>2, <1>3
<1>5. balance' \in [Tokens -> Nat] /\ DepositTypeOK'
  BY <1>1, <1>3, <1>4 DEF TypeOK, DepositTypeOK
<1>6. /\ balance'[Erc223] = balance[Erc223] + amount
      /\ \A t \in Tokens : t # Erc223 => balance'[t] = balance[t]
  BY <1>1, <1>3, TokenFacts DEF TypeOK
<1>7. PrincipalBacked'
  BY <1>1, <1>2, <1>3, <1>6, TokenFacts DEF PrincipalBacked, IInv, stakeVars
<1>8. \A t \in RewardTokens : reward_data[t].accounted <= balance'[t]
  BY <1>6, TokenFacts DEF IInv, RewardsBacked
<1>9. DelayTypeOK' /\ OwnerTypeOK'
  BY <1>1, <1>3, TypeParts, UnchangedTypes
<1> QED
  BY <1>1, <1>5, <1>7, <1>8, <1>9, SameFrame, QuietStep

LEMMA WithdrawDepositStep ==
  ASSUME IInv, NEW u \in Users, withdrawDeposit(u)
  PROVE  IInv'
<1> DEFINE amount == erc223deposit[u]
<1>1. /\ now' = now /\ UNCHANGED stakeVars /\ UNCHANGED rewardVars
      /\ UNCHANGED delayVars /\ UNCHANGED ownerVars
      /\ locked' = TRUE /\ open' = TRUE /\ todo' = <<>>
      /\ amount <= balance[Erc223] /\ amount <= total_erc223_deposits
      /\ balance' = [balance EXCEPT ![Erc223] = @ - amount]
      /\ erc223deposit' = [erc223deposit EXCEPT ![u] = 0]
      /\ total_erc223_deposits' = total_erc223_deposits - amount
  BY DEF withdrawDeposit, Enter, TransferOut
<1>2. /\ TypeOK /\ balance[Erc223] \in Nat /\ balance[Erc20] \in Nat
      /\ amount \in Nat /\ total_erc223_deposits \in Nat
      /\ total_staked_by_version[Erc223] \in Nat
      /\ total_staked_by_version[Erc20] \in Nat
  BY TokenFacts DEF IInv, TypeOK
<1>3. balance[Erc223] - amount \in Nat /\ total_erc223_deposits - amount \in Nat
  BY <1>1, <1>2
<1>4. balance' \in [Tokens -> Nat] /\ DepositTypeOK'
  BY <1>1, <1>2, <1>3 DEF TypeOK, DepositTypeOK
<1>5. /\ balance'[Erc223] = balance[Erc223] - amount
      /\ \A t \in Tokens : t # Erc223 => balance'[t] = balance[t]
  BY <1>1, <1>2, TokenFacts DEF TypeOK
<1>6. PrincipalBacked'
  BY <1>1, <1>2, <1>5, TokenFacts DEF PrincipalBacked, IInv, stakeVars
<1>7. \A t \in RewardTokens : reward_data[t].accounted <= balance'[t]
  BY <1>5, TokenFacts DEF IInv, RewardsBacked
<1>8. DelayTypeOK' /\ OwnerTypeOK'
  BY <1>1, <1>2, TypeParts, UnchangedTypes
<1>9. CallTypeOK'
  BY <1>1, EmptyTodo DEF CallTypeOK
<1> QED
  BY <1>1, <1>4, <1>6, <1>7, <1>8, <1>9, EmptyTodo, QuietStep

LEMMA AddRewardStep ==
  ASSUME IInv, NEW token \in RewardTokens, add_reward_token(token)
  PROVE  IInv'
<1>1. /\ now' = now /\ UNCHANGED stakeVars /\ UNCHANGED depositVars
      /\ UNCHANGED delayVars /\ UNCHANGED ownerVars /\ UNCHANGED callVars
      /\ balance' = balance /\ owed' = owed
      /\ user_reward_per_token_paid' = user_reward_per_token_paid
      /\ reward_data' = [reward_data EXCEPT ![token].listed = TRUE,
                                            ![token].last_update = now]
  BY DEF add_reward_token
<1>2. TypeOK /\ now \in Nat /\ reward_data[token] \in RewardData
  BY DEF IInv, TypeOK
<1>3. reward_data' = [reward_data EXCEPT ![token] =
                        [reward_data[token] EXCEPT !.listed = TRUE, !.last_update = now]]
  BY <1>1, <1>2, Zenon DEF TypeOK
<1>4. [reward_data[token] EXCEPT !.listed = TRUE, !.last_update = now] \in RewardData
  BY <1>2, Zenon DEF RewardData
<1>5. RewardTypeOK'
  BY <1>1, <1>2, <1>3, <1>4 DEF RewardTypeOK, TypeOK
<1>6. \A t \in RewardTokens :
        /\ reward_data'[t].accounted = reward_data[t].accounted
        /\ ~reward_data'[t].listed => ~reward_data[t].listed
  <2>1. ASSUME NEW t \in RewardTokens, t # token
        PROVE  reward_data'[t] = reward_data[t]
    BY <2>1, <1>2, <1>3 DEF TypeOK
  <2>2. /\ reward_data'[token].accounted = reward_data[token].accounted
        /\ reward_data'[token].listed = TRUE
    BY <1>2, <1>3 DEF TypeOK, RewardData
  <2> QED
    BY <2>1, <2>2
<1>7. \A t \in RewardTokens :
        /\ reward_data'[t].accounted <= balance'[t]
        /\ ~reward_data'[t].listed => reward_data'[t].accounted = 0
  BY <1>1, <1>6 DEF IInv, RewardsBacked, UnlistedOwesNothing
<1>8. PayoutsDue' /\ ClaimsInRewards' /\ NothingLeftIdle' /\ CallTypeOK'
  BY <1>1, SameFrame
<1>9. balance' \in [Tokens -> Nat] /\ \A v \in Versions : balance'[v] = balance[v]
  BY <1>1, <1>2 DEF TypeOK
<1> QED
  BY <1>1, <1>5, <1>7, <1>8, <1>9, RewardOnlyStep

\* Steps that leave every balance and deposit alone.
LEMMA NoMoneyStep ==
  ASSUME IInv, now' = now, UNCHANGED stakeVars, UNCHANGED rewardVars,
         UNCHANGED depositVars, UNCHANGED callVars, balance' = balance,
         DelayTypeOK', OwnerTypeOK'
  PROVE  IInv'
<1>1. DepositTypeOK'
  BY TypeParts, UnchangedTypes DEF IInv
<1>2. /\ balance' \in [Tokens -> Nat] /\ PrincipalBacked'
      /\ \A t \in RewardTokens : reward_data[t].accounted <= balance'[t]
  BY DEF IInv, TypeOK, RewardsBacked, PrincipalBacked, depositVars, stakeVars
<1> QED
  BY <1>1, <1>2, SameFrame, QuietStep

LEMMA SetClaimDelayStep ==
  ASSUME IInv, NEW delay \in DelayChoices, set_claim_delay(delay)
  PROVE  IInv'
<1>1. /\ now' = now /\ UNCHANGED stakeVars /\ UNCHANGED rewardVars
      /\ UNCHANGED depositVars /\ UNCHANGED callVars /\ balance' = balance
      /\ UNCHANGED ownerVars
  BY DEF set_claim_delay
<1>2. /\ delay \in Nat /\ CLAIM_DELAY_NOTICE \in Nat /\ now \in Nat /\ claim_delay \in Nat
      /\ TypeOK
  BY ParameterAssumption DEF IInv, TypeOK, claim_delay
<1>3. now + CLAIM_DELAY_NOTICE \in Nat
  BY <1>2
<1>4. DelayTypeOK'
  <2>1. \/ /\ claim_delay_current' = delay
           /\ pending_claim_delay' = 0
           /\ pending_claim_delay_effective' = 0
        \/ /\ claim_delay_current' = claim_delay
           /\ pending_claim_delay' = delay
           /\ pending_claim_delay_effective' = now + CLAIM_DELAY_NOTICE
    BY DEF set_claim_delay, EffectiveAt
  <2> QED
    BY <2>1, <1>2, <1>3 DEF DelayTypeOK
<1>5. OwnerTypeOK'
  BY <1>1, <1>2, TypeParts, UnchangedTypes
<1> QED
  BY <1>1, <1>4, <1>5, NoMoneyStep

LEMMA OwnershipStep ==
  ASSUME IInv, NEW account \in OwnerCandidates,
         transfer_ownership(account) \/ accept_ownership(account)
  PROVE  IInv'
<1>1. /\ now' = now /\ UNCHANGED stakeVars /\ UNCHANGED rewardVars
      /\ UNCHANGED depositVars /\ UNCHANGED callVars /\ balance' = balance
      /\ UNCHANGED delayVars
  BY DEF transfer_ownership, accept_ownership
<1>2. OwnerTypeOK'
  BY DEF transfer_ownership, accept_ownership, OwnerTypeOK, IInv, TypeOK
<1>3. DelayTypeOK'
  BY <1>1, TypeParts, UnchangedTypes DEF IInv
<1> QED
  BY <1>1, <1>2, <1>3, NoMoneyStep

LEMMA SweepStep ==
  ASSUME IInv, NEW token \in Tokens, NEW amount \in ArrivalAmounts[token],
         sweep(token, amount)
  PROVE  IInv'
<1>1. /\ now' = now /\ UNCHANGED stakeVars /\ UNCHANGED rewardVars
      /\ UNCHANGED depositVars /\ UNCHANGED delayVars /\ UNCHANGED ownerVars
      /\ locked' = TRUE /\ open' = TRUE /\ todo' = <<>>
      /\ amount <= balance[token]
      /\ balance' = [balance EXCEPT ![token] = @ - amount]
      /\ Sweepable(token, amount)
  BY DEF sweep, Enter, TransferOut
<1>2. amount \in Nat
  BY ParameterAssumption
<1>3. /\ TypeOK /\ balance[token] \in Nat
      /\ balance[Erc223] \in Nat /\ balance[Erc20] \in Nat
      /\ total_erc223_deposits \in Nat
      /\ total_staked_by_version[Erc223] \in Nat
      /\ total_staked_by_version[Erc20] \in Nat
  BY TokenFacts DEF IInv, TypeOK
<1>4. balance[token] - amount \in Nat
  BY <1>1, <1>2, <1>3
<1>5. /\ balance' \in [Tokens -> Nat]
      /\ balance'[token] = balance[token] - amount
      /\ \A t \in Tokens : t # token => balance'[t] = balance[t]
  BY <1>1, <1>3, <1>4 DEF TypeOK
<1>6. DepositTypeOK' /\ DelayTypeOK' /\ OwnerTypeOK' /\ CallTypeOK'
  <2>1. DepositTypeOK' /\ DelayTypeOK' /\ OwnerTypeOK'
    BY <1>1, <1>3, TypeParts, UnchangedTypes
  <2>2. CallTypeOK'
    BY <1>1, EmptyTodo DEF CallTypeOK
  <2> QED
    BY <2>1, <2>2
<1>7. PrincipalBacked'
  <2>1. balance'[Erc20] >= total_staked_by_version[Erc20]
    BY <1>1, <1>2, <1>3, <1>5, TokenFacts DEF Sweepable, IInv, PrincipalBacked
  <2>2. balance'[Erc223] >= total_staked_by_version[Erc223] + total_erc223_deposits
    BY <1>1, <1>2, <1>3, <1>5, TokenFacts DEF Sweepable, IInv, PrincipalBacked
  <2> QED
    BY <2>1, <2>2, <1>1 DEF PrincipalBacked, stakeVars, depositVars
<1>8. \A t \in RewardTokens : reward_data[t].accounted <= balance'[t]
  <2>1. ASSUME NEW t \in RewardTokens
        PROVE  reward_data[t].accounted <= balance'[t]
    <3>1. CASE t # token
      BY <3>1, <1>5, TokenFacts DEF IInv, RewardsBacked
    <3>2. CASE t = token
      <4>1. reward_data[t].accounted = 0
        BY <3>2, <1>1 DEF Sweepable, IInv, UnlistedOwesNothing
      <4> QED
        BY <4>1, <3>2, <1>4, <1>5
    <3> QED
      BY <3>1, <3>2
  <2> QED
    BY <2>1
<1> QED
  BY <1>1, <1>5, <1>6, <1>7, <1>8, EmptyTodo, QuietStep

LEMMA ArriveStep ==
  ASSUME IInv, NEW token \in Tokens, NEW amount \in ArrivalAmounts[token],
         Arrive(token, amount)
  PROVE  IInv'
<1>1. /\ now' = now /\ UNCHANGED stakeVars /\ UNCHANGED rewardVars
      /\ UNCHANGED depositVars /\ UNCHANGED delayVars /\ UNCHANGED ownerVars
      /\ UNCHANGED callVars
      /\ balance' = [balance EXCEPT ![token] = @ + amount]
  BY DEF Arrive
<1>2. amount \in Nat
  BY ParameterAssumption
<1>3. TypeOK /\ balance \in [Tokens -> Nat] /\ balance[token] + amount \in Nat
  BY <1>2 DEF IInv, TypeOK
<1>4. /\ balance' \in [Tokens -> Nat]
      /\ \A t \in Tokens : balance'[t] >= balance[t]
  BY <1>1, <1>2, <1>3
<1>5. DepositTypeOK' /\ DelayTypeOK' /\ OwnerTypeOK'
  BY <1>1, <1>3, TypeParts, UnchangedTypes
<1>6. PrincipalBacked'
  BY <1>1, <1>3, <1>4, TokenFacts
     DEF PrincipalBacked, IInv, TypeOK, stakeVars, depositVars
<1>7. \A t \in RewardTokens : reward_data[t].accounted <= balance'[t]
  <2>1. ASSUME NEW t \in RewardTokens
        PROVE  reward_data[t].accounted <= balance'[t]
    <3>1. /\ reward_data[t].accounted \in Nat /\ balance[t] \in Nat /\ balance'[t] \in Nat
          /\ reward_data[t].accounted <= balance[t] /\ balance[t] <= balance'[t]
      BY <1>3, <1>4, TokenFacts DEF IInv, TypeOK, RewardData, RewardsBacked
    <3> QED
      BY <3>1
  <2> QED
    BY <2>1
<1> QED
  BY <1>1, <1>4, <1>5, <1>6, <1>7, SameFrame, QuietStep

LEMMA TickStep ==
  ASSUME IInv, Tick
  PROVE  IInv'
<1>1. /\ now' = now + 1 /\ UNCHANGED stakeVars /\ UNCHANGED rewardVars
      /\ UNCHANGED depositVars /\ UNCHANGED delayVars /\ UNCHANGED ownerVars
      /\ UNCHANGED callVars /\ balance' = balance /\ ~locked
  BY DEF Tick
<1>2. TypeOK /\ now' \in Nat
  BY <1>1 DEF IInv, TypeOK
<1>3. TypeOK'
  BY <1>1, <1>2, TypeParts, TypePartsNext, UnchangedTypes DEF BalanceTypeOK
<1>4. todo' = <<>>
  BY <1>1 DEF IInv, NothingLeftIdle, callVars
<1>5. PrincipalBacked' /\ RewardsBacked' /\ UnlistedOwesNothing'
  BY <1>1 DEF IInv, PrincipalBacked, RewardsBacked, UnlistedOwesNothing,
              stakeVars, depositVars, rewardVars
<1> QED
  BY <1>3, <1>4, <1>5, EmptyTodo DEF IInv

LEMMA StutterStep ==
  ASSUME IInv, UNCHANGED vars
  PROVE  IInv'
<1>1. /\ now' = now /\ UNCHANGED stakeVars /\ UNCHANGED rewardVars
      /\ UNCHANGED depositVars /\ UNCHANGED delayVars /\ UNCHANGED ownerVars
      /\ UNCHANGED callVars /\ balance' = balance
  BY DEF vars
<1>2. DelayTypeOK' /\ OwnerTypeOK'
  BY <1>1, TypeParts, UnchangedTypes DEF IInv
<1> QED
  BY <1>1, <1>2, NoMoneyStep

-----------------------------------------------------------------------------
(* The theorems.                                                           *)

LEMMA InitInv == Init => IInv
<1> SUFFICES ASSUME Init PROVE IInv
  OBVIOUS
<1>1. initial_claim_delay \in Nat
  BY ParameterAssumption
<1>2. todo = <<>> /\ locked = FALSE /\ open = FALSE
  BY DEF Init
<1>3. \A t \in RewardTokens : reward_data[t] = NoReward
  BY DEF Init
<1>4. NoReward \in RewardData /\ NoReward.accounted = 0
  BY DEF NoReward, RewardData
<1>5. StakeTypeOK /\ DepositTypeOK /\ DelayTypeOK /\ OwnerTypeOK /\ BalanceTypeOK
  BY <1>1 DEF Init, StakeTypeOK, DepositTypeOK, DelayTypeOK, OwnerTypeOK, BalanceTypeOK
<1>6. RewardTypeOK
  <2>1. /\ reward_data = [t \in RewardTokens |-> NoReward]
        /\ user_reward_per_token_paid = [u \in Users |-> [t \in RewardTokens |-> 0]]
        /\ owed = [u \in Users |-> [t \in RewardTokens |-> 0]]
    BY DEF Init
  <2>2. reward_data \in [RewardTokens -> RewardData]
    BY <2>1, <1>4
  <2> QED
    BY <2>1, <2>2 DEF RewardTypeOK
<1>7. CallTypeOK /\ PayoutsDue /\ ClaimsInRewards /\ NothingLeftIdle
  <2>0. todo \in Seq(Items)
    BY <1>2
  <2>1. locked \in BOOLEAN /\ open \in BOOLEAN
    BY <1>2, Zenon
  <2>2. PayoutsDue /\ ClaimsInRewards /\ NothingLeftIdle
    BY <1>2 DEF PayoutsDue, ClaimsInRewards, NothingLeftIdle
  <2> QED
    BY <2>0, <2>1, <2>2 DEF CallTypeOK
<1>8. TypeOK
  BY <1>5, <1>6, <1>7, TypeParts DEF Init
<1>9. PrincipalBacked
  BY TokenFacts DEF PrincipalBacked, Init
<1>10. RewardsBacked /\ UnlistedOwesNothing
  BY <1>3, <1>4, TokenFacts DEF RewardsBacked, UnlistedOwesNothing, Init
<1> QED
  BY <1>7, <1>8, <1>9, <1>10 DEF IInv

LEMMA NextInv == IInv /\ [Next]_vars => IInv'
<1> SUFFICES ASSUME IInv, [Next]_vars PROVE IInv'
  OBVIOUS
<1>1. ASSUME NEW u \in Users, StakerStep(u) PROVE IInv'
  BY <1>1, StakeStep, WithdrawStep, WithdrawAllStep, EmergencyStep, ClaimStep,
     TokenReceivedStep, WithdrawDepositStep DEF StakerStep
<1>2. ASSUME OwnerStep PROVE IInv'
  BY <1>2, AddRewardStep, SetClaimDelayStep, SweepStep, OwnershipStep DEF OwnerStep
<1>3. ASSUME NEW token \in RewardTokens, sync(token) PROVE IInv'
  BY <1>3, SyncStep
<1>4. ASSUME NEW account \in OwnerCandidates, accept_ownership(account) PROVE IInv'
  BY <1>4, OwnershipStep
<1>5. ASSUME NEW token \in Tokens, NEW amount \in ArrivalAmounts[token],
             Arrive(token, amount)
      PROVE IInv'
  BY <1>5, ArriveStep
<1> QED
  BY <1>1, <1>2, <1>3, <1>4, <1>5, ContinueStep, ReturnStep, TickStep, StutterStep
     DEF Next

LEMMA Invariant == Spec => []IInv
BY InitInv, NextInv, PTL DEF Spec

\* The storage keeps its types: no checked subtraction that the code relies
\* on ever has to revert to keep a value unsigned.
THEOREM TypeCorrect == Spec => []TypeOK
<1>1. IInv => TypeOK
  BY DEF IInv
<1> QED
  BY <1>1, Invariant, PTL

\* The principal and the deposits are always held in full, in their version.
THEOREM PrincipalIsBacked == Spec => []PrincipalBacked
<1>1. IInv => PrincipalBacked
  BY DEF IInv
<1> QED
  BY <1>1, Invariant, PTL

\* What is accounted for as reward is always held.
THEOREM RewardsAreBacked == Spec => []RewardsBacked
<1>1. IInv => RewardsBacked
  BY DEF IInv
<1> QED
  BY <1>1, Invariant, PTL

-----------------------------------------------------------------------------
(* Principal leaves only unlocked, to its owner, in full.                  *)

LeavesUnlocked ==
    \A u \in Users, v \in Versions :
      staked_by_version'[u][v] < staked_by_version[u][v] =>
        /\ now >= unlock_time[u]
        /\ balance[v] - balance'[v] = staked_by_version[u][v] - staked_by_version'[u][v]

LEMMA PayStakeLeaves ==
  ASSUME TypeOK, NEW u \in Users, NEW v \in Versions, NEW amount \in Nat,
         _payStake(u, v, amount), now >= unlock_time[u]
  PROVE  LeavesUnlocked
<1>1. /\ staked_by_version' = [staked_by_version EXCEPT ![u][v] = @ - amount]
      /\ balance' = [balance EXCEPT ![v] = @ - amount]
  BY DEF _payStake, CanPayStake, TransferOut
<1>2. SUFFICES ASSUME NEW w \in Users, NEW x \in Versions,
                      staked_by_version'[w][x] < staked_by_version[w][x]
               PROVE  /\ now >= unlock_time[w]
                      /\ balance[x] - balance'[x]
                           = staked_by_version[w][x] - staked_by_version'[w][x]
  BY DEF LeavesUnlocked
<1>3. staked_by_version[w][x] \in Nat /\ staked_by_version[u][v] \in Nat
      /\ balance[v] \in Nat /\ v \in Tokens
  BY TokenFacts DEF TypeOK
<1>4. w = u /\ x = v
  BY <1>1, <1>2, <1>3 DEF TypeOK
<1>5. /\ staked_by_version'[u][v] = staked_by_version[u][v] - amount
      /\ balance'[v] = balance[v] - amount
  BY <1>1, <1>3 DEF TypeOK
<1> QED
  BY <1>3, <1>4, <1>5

LEMMA StakesSame ==
  ASSUME TypeOK, staked_by_version' = staked_by_version
  PROVE  LeavesUnlocked
<1>1. \A u \in Users, v \in Versions : staked_by_version[u][v] \in Nat
  BY DEF TypeOK
<1> QED
  BY <1>1 DEF LeavesUnlocked

LEMMA NextLeaves == IInv /\ [Next]_vars => LeavesUnlocked
<1> SUFFICES ASSUME IInv, [Next]_vars PROVE LeavesUnlocked
  OBVIOUS
<1>0. TypeOK
  BY DEF IInv
<1>1. ASSUME NEW u \in Users, NEW v \in Versions, NEW amount \in StakeAmounts[v],
             stake(u, v, amount)
      PROVE  LeavesUnlocked
  <2>1. amount \in Nat
    BY ParameterAssumption
  <2>2. staked_by_version' = [staked_by_version EXCEPT ![u][v] = @ + amount]
    BY <1>1 DEF stake
  <2>3. ASSUME NEW w \in Users, NEW x \in Versions
        PROVE  ~(staked_by_version'[w][x] < staked_by_version[w][x])
    <3>1. staked_by_version[w][x] \in Nat
      BY <1>0 DEF TypeOK
    <3> QED
      BY <3>1, <2>1, <2>2, <1>0 DEF TypeOK
  <2> QED
    BY <2>3 DEF LeavesUnlocked
<1>2. ASSUME NEW u \in Users, NEW v \in Versions, NEW amount \in StakeAmounts[v],
             withdraw(u, v, amount)
      PROVE  LeavesUnlocked
  <2>1. amount \in Nat
    BY ParameterAssumption
  <2> QED
    BY <2>1, <1>2, <1>0, PayStakeLeaves DEF withdraw, Unlocked
<1>3. ASSUME NEW u \in Users, LeaveWith(u)
      PROVE  LeavesUnlocked
  <2>1. /\ staked_by_version[u][Erc20] \in Nat /\ staked_by_version[u][Erc223] \in Nat
        /\ Erc20 \in Versions /\ Erc223 \in Versions
    BY <1>0, TokenFacts DEF TypeOK
  <2>2. /\ now >= unlock_time[u]
        /\ \/ _payStake(u, Erc20, staked_by_version[u][Erc20])
           \/ _payStake(u, Erc223, staked_by_version[u][Erc223])
    BY <1>3 DEF LeaveWith, CanLeave, Unlocked
  <2> QED
    BY <2>1, <2>2, <1>0, PayStakeLeaves
<1>4. ASSUME NEW u \in Users, StakerStep(u)
      PROVE  LeavesUnlocked
  <2>1. ASSUME NEW tokens \in ClaimLists, claim(u, tokens)
        PROVE  LeavesUnlocked
    BY <2>1, <1>0, StakesSame DEF claim, stakeVars
  <2>2. ASSUME NEW amount \in StakeAmounts[Erc223], tokenReceived(u, amount)
        PROVE  LeavesUnlocked
    BY <2>2, <1>0, StakesSame DEF tokenReceived, stakeVars
  <2>3. ASSUME withdrawDeposit(u)
        PROVE  LeavesUnlocked
    BY <2>3, <1>0, StakesSame DEF withdrawDeposit, stakeVars
  <2> QED
    BY <1>1, <1>2, <1>3, <1>4, <2>1, <2>2, <2>3
       DEF StakerStep, withdraw_all, emergency_withdraw
<1>5. ASSUME Continue
      PROVE  LeavesUnlocked
  <2>1. /\ locked /\ todo # <<>> /\ todo' = Tail(todo) /\ now' = now
        /\ locked' = locked /\ unlock_time' = unlock_time
    BY <1>5 DEF Continue, stakeVars
  <2>2. /\ Head(todo) \in Items
        /\ Head(todo).act = "payStake" =>
             Head(todo).token \in Versions /\ now >= unlock_time[Head(todo).user]
    BY <2>1, TailTodo
  <2>3. Head(todo).user \in Users /\ Head(todo).amount \in Nat
    BY <2>2 DEF Items
  <2>4. CASE /\ Head(todo).act = "payStake"
             /\ _payStake(Head(todo).user, Head(todo).token, Head(todo).amount)
    BY <2>2, <2>3, <2>4, <1>0, PayStakeLeaves
  <2>5. CASE UNCHANGED stakeVars
    BY <2>5, <1>0, StakesSame DEF stakeVars
  <2> QED
    BY <2>4, <2>5, <1>5 DEF Continue
<1>6. ASSUME \/ OwnerStep \/ Return \/ Tick \/ UNCHANGED vars
             \/ \E token \in RewardTokens : sync(token)
             \/ \E account \in OwnerCandidates : accept_ownership(account)
             \/ \E token \in Tokens : \E amount \in ArrivalAmounts[token] :
                  Arrive(token, amount)
      PROVE  LeavesUnlocked
  <2>1. staked_by_version' = staked_by_version
    BY <1>6 DEF OwnerStep, add_reward_token, set_claim_delay, sweep, transfer_ownership,
                Return, Tick, sync, accept_ownership, Arrive, vars, stakeVars
  <2> QED
    BY <2>1, <1>0, StakesSame
<1> QED
  BY <1>4, <1>5, <1>6 DEF Next

\* A stake shrinks only for a user whose lock has expired, and by exactly
\* what the contract pays out of that version.
THEOREM PrincipalOnlyUnlocked == Spec => PrincipalLeavesUnlocked
<1>1. IInv /\ [Next]_vars => [LeavesUnlocked]_vars
  BY NextLeaves
<1>2. [][LeavesUnlocked]_vars => PrincipalLeavesUnlocked
  BY PTL DEF LeavesUnlocked, PrincipalLeavesUnlocked
<1> QED
  BY <1>1, <1>2, Invariant, PTL DEF Spec

-----------------------------------------------------------------------------
(* The lock a stake gets had been public for the whole notice period.      *)
(* Nothing but a call of the owner changes what is in force or scheduled,  *)
(* and nothing but time makes a scheduled increase the lock in force.      *)

\* The steps, as far as the lock and the clock go.
OthersStake ==
    /\ UNCHANGED <<now, delayVars>>
    /\ \A u \in Users : unlock_time'[u] # unlock_time[u] => unlock_time'[u] = now + claim_delay
ClockSteps == Tick /\ UNCHANGED <<delayVars, unlock_time>>
DelaySet(delay) ==
    /\ UNCHANGED <<now, unlock_time>>
    /\ \/ /\ delay <= claim_delay /\ claim_delay_current' = delay
          /\ pending_claim_delay' = 0 /\ pending_claim_delay_effective' = 0
       \/ /\ claim_delay_current' = claim_delay
          /\ pending_claim_delay' = delay
          /\ pending_claim_delay_effective' = now + CLAIM_DELAY_NOTICE

LEMMA NextLocks ==
  ASSUME TypeOK, [Next]_vars
  PROVE  OthersStake \/ ClockSteps \/ \E delay \in DelayChoices : DelaySet(delay)
<1>1. ASSUME NEW u \in Users, NEW v \in Versions, NEW amount \in StakeAmounts[v],
             stake(u, v, amount)
      PROVE  OthersStake
  <2>1. /\ unlock_time' = [unlock_time EXCEPT ![u] = now + claim_delay]
        /\ UNCHANGED <<now, delayVars>>
    BY <1>1 DEF stake
  <2>2. \A w \in Users : unlock_time'[w] = IF w = u THEN now + claim_delay ELSE unlock_time[w]
    BY <2>1 DEF TypeOK
  <2> QED
    BY <2>1, <2>2 DEF OthersStake
<1>2. ASSUME NEW u \in Users, StakerStep(u),
             ~ \E v \in Versions : \E amount \in StakeAmounts[v] : stake(u, v, amount)
      PROVE  UNCHANGED <<now, delayVars, unlock_time>>
  BY <1>2 DEF StakerStep, withdraw, withdraw_all, emergency_withdraw, LeaveWith, CanLeave, claim,
              tokenReceived, withdrawDeposit, stakeVars, delayVars
<1>3. ASSUME \/ Continue \/ Return \/ UNCHANGED vars
             \/ \E token \in RewardTokens : sync(token)
             \/ \E account \in OwnerCandidates : accept_ownership(account)
             \/ \E token \in Tokens : \E amount \in ArrivalAmounts[token] :
                  Arrive(token, amount)
             \/ \E token \in RewardTokens : add_reward_token(token)
             \/ \E token \in Tokens : \E amount \in ArrivalAmounts[token] : sweep(token, amount)
             \/ \E account \in OwnerCandidates : transfer_ownership(account)
      PROVE  UNCHANGED <<now, delayVars, unlock_time>>
  BY <1>3 DEF Continue, Return, vars, sync, accept_ownership, Arrive, add_reward_token, sweep,
              transfer_ownership, stakeVars, delayVars
<1>4. ASSUME Tick PROVE ClockSteps
  BY <1>4 DEF Tick, ClockSteps, stakeVars
<1>5. ASSUME NEW delay \in DelayChoices, set_claim_delay(delay) PROVE DelaySet(delay)
  BY <1>5 DEF set_claim_delay, DelaySet, stakeVars, EffectiveAt
<1>6. UNCHANGED <<now, delayVars, unlock_time>> => OthersStake
  BY DEF OthersStake
<1> QED
  BY <1>1, <1>2, <1>3, <1>4, <1>5, <1>6 DEF Next, OwnerStep

\* The lock in force had been public through the notice period that ends now,
\* and a scheduled one ever since it was scheduled.
InForceWasPublic ==
    \A s \in 0 .. now - 1 : s >= now - CLAIM_DELAY_NOTICE => claim_delay <= announced[s]
ScheduledIsPublic ==
    pending_claim_delay_effective # 0 =>
      \A s \in 0 .. now - 1 :
        s >= pending_claim_delay_effective - CLAIM_DELAY_NOTICE => pending_claim_delay <= announced[s]
NoticeInv ==
    /\ IInv
    /\ announced \in [0 .. MaxTime -> Nat] /\ now <= MaxTime
    /\ InForceWasPublic /\ ScheduledIsPublic

LEMMA DelayNat == TypeOK => claim_delay \in Nat /\ PublicDelay \in Nat
  BY DEF TypeOK, claim_delay, PublicDelay

LEMMA NoticeHolds == NoticeInit => NoticeInv
<1> SUFFICES ASSUME NoticeInit PROVE NoticeInv
  OBVIOUS
<1>1. IInv /\ now = 0 /\ announced = [s \in 0 .. MaxTime |-> 0]
  BY InitInv DEF NoticeInit, Init
<1>2. MaxTime \in Nat
  BY ParameterAssumption
<1> QED
  BY <1>1, <1>2 DEF NoticeInv, InForceWasPublic, ScheduledIsPublic

LEMMA NoticeStays ==
  ASSUME NoticeInv, [NoticeNext]_<<vars, announced>>
  PROVE  NoticeInv'
<1>0. /\ IInv /\ TypeOK /\ announced \in [0 .. MaxTime -> Nat] /\ now <= MaxTime
      /\ InForceWasPublic /\ ScheduledIsPublic
  BY DEF NoticeInv, IInv
<1>1. [Next]_vars /\ IInv'
  <2>1. [Next]_vars
    BY DEF NoticeNext
  <2> QED
    BY <1>0, <2>1, NextInv
<1>2. /\ now \in Nat /\ claim_delay \in Nat /\ PublicDelay \in Nat /\ MaxTime \in Nat
      /\ CLAIM_DELAY_NOTICE \in Nat \ {0}
      /\ pending_claim_delay \in Nat /\ pending_claim_delay_effective \in Nat
      /\ \A s \in 0 .. MaxTime : announced[s] \in Nat
      /\ \A s \in 0 .. now - 1 : s \in 0 .. MaxTime
  BY <1>0, DelayNat, ParameterAssumption DEF TypeOK
<1>3. OthersStake \/ ClockSteps \/ \E delay \in DelayChoices : DelaySet(delay)
  BY <1>0, <1>1, NextLocks
<1>4. CASE OthersStake
  <2>1. UNCHANGED <<now, claim_delay_current, pending_claim_delay, pending_claim_delay_effective>>
    BY <1>4 DEF OthersStake, delayVars
  <2>2. announced' = announced
    BY <2>1 DEF NoticeNext
  <2> QED
    BY <1>0, <1>1, <2>1, <2>2 DEF NoticeInv, InForceWasPublic, ScheduledIsPublic, claim_delay
<1>5. CASE ClockSteps
  <2>1. /\ now < MaxTime /\ now' = now + 1
        /\ UNCHANGED <<claim_delay_current, pending_claim_delay, pending_claim_delay_effective>>
    BY <1>5 DEF ClockSteps, Tick, delayVars
  <2>2. announced' = [announced EXCEPT ![now] = PublicDelay]
    BY <1>2, <2>1 DEF NoticeNext, vars
  <2>3. /\ announced' \in [0 .. MaxTime -> Nat]
        /\ \A s \in 0 .. now' - 1 :
             announced'[s] = IF s = now THEN PublicDelay ELSE announced[s]
    BY <1>0, <1>2, <2>1, <2>2
  <2>4. /\ claim_delay <= PublicDelay
        /\ pending_claim_delay_effective # 0 => pending_claim_delay <= PublicDelay
    BY <1>2 DEF PublicDelay
  <2>5. ScheduledIsPublic'
    <3> SUFFICES ASSUME pending_claim_delay_effective # 0, NEW s \in 0 .. now' - 1,
                        s >= pending_claim_delay_effective - CLAIM_DELAY_NOTICE
                 PROVE  pending_claim_delay <= announced'[s]
      BY <2>1 DEF ScheduledIsPublic
    <3>1. CASE s = now
      BY <2>3, <2>4, <3>1
    <3>2. CASE s # now
      <4>1. s \in 0 .. now - 1
        BY <1>2, <2>1, <3>2
      <4> QED
        BY <1>0, <2>3, <3>2, <4>1 DEF ScheduledIsPublic
    <3> QED
      BY <3>1, <3>2
  <2>6. InForceWasPublic'
    <3> SUFFICES ASSUME NEW s \in 0 .. now' - 1, s >= now' - CLAIM_DELAY_NOTICE
                 PROVE  claim_delay' <= announced'[s]
      BY DEF InForceWasPublic
    <3>1. CASE claim_delay' = claim_delay
      <4>1. CASE s = now
        BY <2>3, <2>4, <3>1, <4>1
      <4>2. CASE s # now
        <5>1. s \in 0 .. now - 1 /\ s >= now - CLAIM_DELAY_NOTICE
          BY <1>2, <2>1, <4>2
        <5>2. claim_delay <= announced[s]
          BY <1>0, <5>1 DEF InForceWasPublic
        <5> QED
          BY <2>3, <3>1, <4>2, <5>2
      <4> QED
        BY <4>1, <4>2
    <3>2. CASE claim_delay' # claim_delay
      <4>1. /\ pending_claim_delay_effective # 0 /\ now' >= pending_claim_delay_effective
            /\ claim_delay' = pending_claim_delay
        BY <1>2, <2>1, <3>2 DEF claim_delay
      <4>2. s >= pending_claim_delay_effective - CLAIM_DELAY_NOTICE
        BY <1>2, <2>1, <4>1
      <4> QED
        BY <2>1, <2>5, <4>1, <4>2 DEF ScheduledIsPublic
    <3> QED
      BY <3>1, <3>2
  <2> QED
    BY <1>1, <1>2, <2>1, <2>3, <2>5, <2>6 DEF NoticeInv
<1>6. ASSUME NEW delay \in DelayChoices, DelaySet(delay) PROVE NoticeInv'
  <2>1. now' = now /\ announced' = announced
    BY <1>6 DEF DelaySet, NoticeNext
  <2>2. delay \in Nat
    BY ParameterAssumption
  <2>3. CASE /\ delay <= claim_delay /\ claim_delay_current' = delay
             /\ pending_claim_delay' = 0 /\ pending_claim_delay_effective' = 0
    <3>1. claim_delay' = delay
      BY <2>3 DEF claim_delay
    <3>2. InForceWasPublic'
      <4> SUFFICES ASSUME NEW s \in 0 .. now - 1, s >= now - CLAIM_DELAY_NOTICE
                   PROVE  delay <= announced[s]
        BY <2>1, <3>1 DEF InForceWasPublic
      <4>1. claim_delay <= announced[s] /\ announced[s] \in Nat
        BY <1>0, <1>2 DEF InForceWasPublic
      <4> QED
        BY <1>2, <2>2, <2>3, <4>1
    <3> QED
      BY <1>0, <1>1, <2>1, <2>3, <3>2 DEF NoticeInv, ScheduledIsPublic
  <2>4. CASE /\ claim_delay_current' = claim_delay
             /\ pending_claim_delay' = delay
             /\ pending_claim_delay_effective' = now + CLAIM_DELAY_NOTICE
    <3>1. claim_delay' = claim_delay
      BY <1>2, <2>1, <2>4 DEF claim_delay
    <3>2. InForceWasPublic'
      BY <1>0, <2>1, <3>1 DEF InForceWasPublic
    <3>3. ScheduledIsPublic'
      <4>1. ~(\E s \in 0 .. now - 1 : s >= (now + CLAIM_DELAY_NOTICE) - CLAIM_DELAY_NOTICE)
        BY <1>2
      <4>2. \A s \in 0 .. now' - 1 :
              s >= pending_claim_delay_effective' - CLAIM_DELAY_NOTICE => FALSE
        BY <2>1, <2>4, <4>1
      <4> QED
        BY <4>2 DEF ScheduledIsPublic
    <3> QED
      BY <1>0, <1>1, <2>1, <3>2, <3>3 DEF NoticeInv
  <2> QED
    BY <2>3, <2>4, <1>6 DEF DelaySet
<1> QED
  BY <1>3, <1>4, <1>5, <1>6

\* For any schedule of increases, decreases and replacements: whenever a stake sets
\* an unlock time, a lock at least that long had been public at the end of every
\* second of the notice period before it (RevenueV2.sol set_claim_delay, stake).
THEOREM LockAnnounced == NoticeSpec => LockWasAnnounced
<1>1. NoticeSpec => []NoticeInv
  <2>1. NoticeInv /\ [NoticeNext]_<<vars, announced>> => NoticeInv'
    BY NoticeStays
  <2> QED
    BY NoticeHolds, <2>1, PTL DEF NoticeSpec
<1>2. NoticeInv /\ [NoticeNext]_<<vars, announced>> =>
        [\A u \in Users : unlock_time'[u] # unlock_time[u] =>
           \A s \in 0 .. now - 1 : s >= now - CLAIM_DELAY_NOTICE =>
             unlock_time'[u] <= now + announced[s]]_<<vars, announced>>
  <2> SUFFICES ASSUME NoticeInv, NoticeNext, NEW u \in Users, unlock_time'[u] # unlock_time[u],
                      NEW s \in 0 .. now - 1, s >= now - CLAIM_DELAY_NOTICE
               PROVE  unlock_time'[u] <= now + announced[s]
    OBVIOUS
  <2>1. OthersStake \/ ClockSteps \/ \E delay \in DelayChoices : DelaySet(delay)
    BY NextLocks DEF NoticeInv, IInv, NoticeNext
  <2>2. unlock_time'[u] = now + claim_delay
    BY <2>1 DEF OthersStake, ClockSteps, DelaySet
  <2>3. claim_delay <= announced[s]
    BY DEF NoticeInv, InForceWasPublic
  <2>4. now \in Nat /\ claim_delay \in Nat /\ announced[s] \in Nat
    <3>1. TypeOK
      BY DEF NoticeInv, IInv
    <3>2. now \in Nat /\ now <= MaxTime /\ MaxTime \in Nat /\ announced \in [0 .. MaxTime -> Nat]
      BY <3>1, ParameterAssumption DEF TypeOK, NoticeInv
    <3> QED
      BY <3>1, <3>2, DelayNat
  <2> QED
    BY <2>2, <2>3, <2>4
<1> QED
  BY <1>1, <1>2, PTL DEF NoticeSpec, LockWasAnnounced

-----------------------------------------------------------------------------
(* Reward solvency.                                                        *)

\* What a bookkeeping record r would owe of token t, to one user and to all:
\* Promised, as a function of the record.
DueAt(r, u, t) ==
    owed[u][t] * PRECISION
    + staked[u] * (r.reward_per_token - user_reward_per_token_paid[u][t])
DuesAt(r, t) == SumFunctionOnSet([u \in Users |-> DueAt(r, u, t)], Users)
ToCome(r) ==
    IF r.period_finish > r.last_update
    THEN r.rate * (r.period_finish - r.last_update) ELSE 0
PromisedAt(r, t) == DuesAt(r, t) + RPT_SCALE * (r.queued + ToCome(r))

\* The inductive form of RewardSolvency: the slack grows with the last
\* accrual, so two accruals in one second cannot both use it, and nobody was
\* paid for more than the accumulator shows.
Covered(r, t) ==
    /\ r \in RewardData
    /\ r.last_update <= now
    /\ ~r.listed => r.period_finish = 0 /\ r.reward_per_token = 0
    /\ \A u \in Users : Settleable(u, t, r.reward_per_token)
    /\ PromisedAt(r, t) <= r.accounted * PRECISION + RPT_SCALE * r.last_update

StakesAdd == SumFunctionOnSet(staked, Users) = total_staked
Ledger == StakesAdd /\ \A t \in RewardTokens : Covered(reward_data[t], t)

\* All of the stream that has run was accrued.
UpToDate(r) == r.last_update <= now /\ (r.last_update = now \/ r.period_finish <= r.last_update)

LEMMA DivRest ==
  ASSUME NEW a \in Nat, NEW b \in Nat \ {0}
  PROVE  a < b * (a \div b) + b
OBVIOUS

LEMMA PromisedIs ==
  ASSUME NEW t \in RewardTokens
  PROVE  Promised(t) = PromisedAt(reward_data[t], t)
BY DEF Promised, PromisedAt, DuesAt, DueAt, ToCome, SumFunction

LEMMA DueInt ==
  ASSUME TypeOK, NEW r \in RewardData, NEW t \in RewardTokens
  PROVE  /\ \A u \in Users : DueAt(r, u, t) \in Int
         /\ [u \in Users |-> DueAt(r, u, t)] \in [Users -> Int]
         /\ DuesAt(r, t) \in Int
         /\ ToCome(r) \in Nat
         /\ PromisedAt(r, t) \in Int
<1>1. ASSUME NEW u \in Users PROVE DueAt(r, u, t) \in Int
  <2>1. /\ owed[u][t] \in Nat /\ staked[u] \in Nat /\ user_reward_per_token_paid[u][t] \in Nat
        /\ r.reward_per_token \in Nat /\ PRECISION \in Nat
    BY PrecisionPos DEF TypeOK, RewardData
  <2> QED
    BY <2>1 DEF DueAt
<1>2. [u \in Users |-> DueAt(r, u, t)] \in [Users -> Int]
  BY <1>1
<1>3. DuesAt(r, t) \in Int
  BY <1>2, UsersAssumption, SumInt DEF DuesAt
<1>4. ToCome(r) \in Nat
  <2>1. r.period_finish \in Nat /\ r.last_update \in Nat /\ r.rate \in Nat
    BY DEF RewardData
  <2> QED
    BY <2>1 DEF ToCome
<1>5. PromisedAt(r, t) \in Int
  <2>1. RPT_SCALE \in Nat /\ r.queued \in Nat
    BY ScaleAssumption DEF RewardData
  <2> QED
    BY <2>1, <1>3, <1>4 DEF PromisedAt
<1> QED
  BY <1>1, <1>2, <1>3, <1>4, <1>5

\* A rise of the accumulator is owed to every staked unit.
LEMMA DuesRise ==
  ASSUME TypeOK, StakesAdd, NEW t \in RewardTokens, NEW r \in RewardData, NEW q \in RewardData,
         NEW k \in Nat, q.reward_per_token = r.reward_per_token + k
  PROVE  DuesAt(q, t) = DuesAt(r, t) + k * total_staked
<1> DEFINE f == [u \in Users |-> DueAt(r, u, t)]
           h == [u \in Users |-> DueAt(q, u, t)]
<1>1. f \in [Users -> Int] /\ h \in [Users -> Int] /\ staked \in [Users -> Int]
  BY DueInt DEF TypeOK
<1>2. ASSUME NEW u \in Users PROVE h[u] = f[u] + k * staked[u]
  <2>1. /\ owed[u][t] \in Nat /\ staked[u] \in Nat /\ user_reward_per_token_paid[u][t] \in Nat
        /\ r.reward_per_token \in Nat /\ PRECISION \in Nat
    BY PrecisionPos DEF TypeOK, RewardData
  <2>2. owed[u][t] * PRECISION \in Nat
    BY <2>1
  <2>3. staked[u] * ((r.reward_per_token + k) - user_reward_per_token_paid[u][t])
        = staked[u] * (r.reward_per_token - user_reward_per_token_paid[u][t]) + k * staked[u]
    BY <2>1
  <2>4. /\ h[u] = DueAt(q, u, t) /\ f[u] = DueAt(r, u, t)
        /\ staked[u] * (r.reward_per_token - user_reward_per_token_paid[u][t]) \in Int
        /\ k * staked[u] \in Int
    BY <2>1
  <2> HIDE DEF f, h
  <2> QED
    BY <2>2, <2>3, <2>4 DEF DueAt
<1> HIDE DEF f, h
<1>3. SumFunctionOnSet(h, Users) = SumFunctionOnSet(f, Users) + k * SumFunctionOnSet(staked, Users)
  BY <1>1, <1>2, UsersAssumption, SumScaled
<1> QED
  BY <1>3 DEF f, h, DuesAt, StakesAdd

\* One more second is worth at least one more unit of slack.
LEMMA SlackGrows ==
  ASSUME NEW R \in Nat, NEW lu \in Nat, NEW e \in Nat, e > lu
  PROVE  R * e \in Nat /\ R * lu \in Nat /\ R * e >= R * lu + R
<1>1. e - (lu + 1) \in Nat
  OBVIOUS
<1>2. R * (e - (lu + 1)) \in Nat
  BY <1>1
<1>3. R * (e - (lu + 1)) = R * e - (R * lu + R)
  OBVIOUS
<1> QED
  BY <1>2, <1>3

LEMMA CarryMoves ==
  ASSUME NEW R \in Nat, NEW q \in Nat, NEW amount \in Nat, NEW c \in Nat,
         NEW old \in Nat, NEW new \in Nat, amount + new = old
  PROVE  /\ R * ((q + (amount - c)) + new) = R * (q + old) - R * c
         /\ R * (q + old) \in Nat /\ R * c \in Nat
OBVIOUS

LEMMA AccrueCovers ==
  ASSUME TypeOK, StakesAdd, NEW t \in RewardTokens, NEW r, Covered(r, t), r.listed
  PROVE  Covered(_accrue(r), t) /\ UpToDate(_accrue(r)) /\ _accrue(r).listed
<1> DEFINE end == _min(now, r.period_finish)
           amount == Released(r)
           k == mulDiv(amount, RPT_SCALE, total_staked)
           c == mulDiv(k, total_staked, RPT_SCALE)
           a == _accrue(r)
<1>0. /\ now \in Nat /\ total_staked \in Nat /\ RPT_SCALE \in Nat \ {0} /\ r \in RewardData
      /\ r.last_update <= now
      /\ PRECISION \in Nat
  BY ScaleAssumption, PrecisionPos DEF TypeOK, Covered
<1>1. /\ end \in Nat /\ r.rate \in Nat /\ r.last_update \in Nat /\ r.period_finish \in Nat
      /\ r.queued \in Nat /\ r.accounted \in Nat /\ r.reward_per_token \in Nat
      /\ end <= now /\ end <= r.period_finish /\ (end = now \/ end = r.period_finish)
  BY <1>0 DEF _min, RewardData
<1>2. /\ a \in RewardData /\ a.accounted = r.accounted /\ a.listed
      /\ a.reward_per_token >= r.reward_per_token /\ a.reward_per_token \in Nat
  BY <1>0, AccrueType DEF RewardData
<1>3. CASE end <= r.last_update
  <2>1. a = r
    BY <1>1, <1>3 DEF _accrue
  <2> QED
    BY <2>1, <1>0, <1>1, <1>3 DEF UpToDate
<1>4. CASE end > r.last_update
  <2>1. amount \in Nat /\ amount = r.rate * (end - r.last_update)
    BY <1>1, <1>4 DEF Released
  <2>2. a.last_update = end /\ a.period_finish = r.period_finish /\ a.rate = r.rate
    BY <1>0, <1>1, <1>4 DEF _accrue, RewardData
  <2>3. ToCome(a) = r.rate * (r.period_finish - end) /\ ToCome(r) = r.rate * (r.period_finish - r.last_update)
    BY <2>2, <1>1, <1>4 DEF ToCome
  <2>4. amount + ToCome(a) = ToCome(r)
    BY <2>1, <2>3, <1>1
  <2>5. UpToDate(a)
    BY <2>2, <1>1 DEF UpToDate
  <2>6. \A u \in Users : Settleable(u, t, a.reward_per_token)
    <3> SUFFICES ASSUME NEW u \in Users PROVE Settleable(u, t, a.reward_per_token)
      OBVIOUS
    <3>1. user_reward_per_token_paid[u][t] \in Nat /\ Settleable(u, t, r.reward_per_token)
      BY DEF TypeOK, Covered
    <3> QED
      BY <3>1, <1>1, <1>2 DEF Settleable
  <2>7. /\ ToCome(a) \in Nat /\ ToCome(r) \in Nat /\ DuesAt(r, t) \in Int /\ DuesAt(a, t) \in Int
        /\ DuesAt(r, t) + RPT_SCALE * (r.queued + ToCome(r))
             <= r.accounted * PRECISION + RPT_SCALE * r.last_update
    BY <1>0, <1>2, DueInt DEF Covered, PromisedAt
  <2>8. r.accounted * PRECISION \in Int
    BY <1>0, <1>1
  <2>9. PromisedAt(a, t) <= a.accounted * PRECISION + RPT_SCALE * a.last_update
    <3>1. CASE total_staked = 0
      <4>1. a.reward_per_token = r.reward_per_token + 0 /\ a.queued = r.queued + (amount - 0)
        <5>1. a = [r EXCEPT !.queued = @ + amount, !.last_update = end]
          BY <1>1, <1>4, <3>1 DEF _accrue
        <5> HIDE DEF amount, end, a
        <5>2. a.reward_per_token = r.reward_per_token /\ a.queued = r.queued + amount
          BY <5>1, <1>0 DEF RewardData
        <5> QED
          BY <5>2, <2>1, <1>1
      <4>2. DuesAt(a, t) = DuesAt(r, t) + 0 * total_staked
        BY <4>1, <1>0, <1>2, DuesRise
      <4> HIDE DEF amount, a, end
      <4>4. (DuesAt(r, t) + 0 * total_staked)
              + RPT_SCALE * ((r.queued + (amount - 0)) + ToCome(a))
              <= r.accounted * PRECISION + RPT_SCALE * end
        <5>1. /\ RPT_SCALE * ((r.queued + (amount - 0)) + ToCome(a))
                   = RPT_SCALE * (r.queued + ToCome(r)) - RPT_SCALE * 0
              /\ RPT_SCALE * (r.queued + ToCome(r)) \in Nat /\ RPT_SCALE * 0 \in Nat
          BY <1>0, <1>1, <2>1, <2>4, <2>7, CarryMoves
        <5>2. /\ RPT_SCALE * end >= RPT_SCALE * r.last_update + RPT_SCALE
              /\ RPT_SCALE * end \in Nat /\ RPT_SCALE * r.last_update \in Nat
          BY <1>0, <1>1, <1>4, SlackGrows
        <5> QED
          BY <5>1, <5>2, <2>7, <2>8, <1>0
      <4> QED
        BY <4>1, <4>2, <4>4, <2>2, <1>2 DEF PromisedAt
    <3>2. CASE total_staked # 0
      <4>1. k \in Nat /\ k * total_staked \in Nat
        <5>1. amount * RPT_SCALE \in Nat /\ total_staked \in Nat \ {0}
          BY <2>1, <1>0, <3>2
        <5> QED
          BY <5>1, DivNat DEF mulDiv
      <4>2. c \in Nat /\ k * total_staked < RPT_SCALE * c + RPT_SCALE
        BY <4>1, <1>0, DivNat, DivRest DEF mulDiv
      <4>3. a.reward_per_token = r.reward_per_token + k /\ a.queued = r.queued + (amount - c)
        BY <3>2, <1>0, <1>1, <1>4 DEF _accrue, RewardData
      <4> HIDE DEF amount, a, end, k, c
      <4>4. DuesAt(a, t) = DuesAt(r, t) + k * total_staked
        BY <4>1, <4>3, <1>0, <1>2, DuesRise
      <4>5. (DuesAt(r, t) + k * total_staked)
              + RPT_SCALE * ((r.queued + (amount - c)) + ToCome(a))
              <= r.accounted * PRECISION + RPT_SCALE * end
        <5>1. /\ RPT_SCALE * ((r.queued + (amount - c)) + ToCome(a))
                   = RPT_SCALE * (r.queued + ToCome(r)) - RPT_SCALE * c
              /\ RPT_SCALE * (r.queued + ToCome(r)) \in Nat /\ RPT_SCALE * c \in Nat
          BY <1>0, <1>1, <2>1, <2>4, <2>7, <4>2, CarryMoves
        <5>2. /\ RPT_SCALE * end >= RPT_SCALE * r.last_update + RPT_SCALE
              /\ RPT_SCALE * end \in Nat /\ RPT_SCALE * r.last_update \in Nat
          BY <1>0, <1>1, <1>4, SlackGrows
        <5> QED
          BY <5>1, <5>2, <4>1, <4>2, <2>7, <2>8, <1>0
      <4> QED
        BY <4>3, <4>4, <4>5, <2>2, <1>2 DEF PromisedAt
    <3> QED
      BY <3>1, <3>2
  <2> QED
    BY <1>1, <1>2, <2>2, <2>5, <2>6, <2>9 DEF Covered
<1> QED
  BY <1>1, <1>3, <1>4

\* Records that agree on the accumulator owe the users the same.
LEMMA DuesSame ==
  ASSUME NEW r, NEW q, NEW t, q.reward_per_token = r.reward_per_token
  PROVE  DuesAt(q, t) = DuesAt(r, t)
BY DEF DuesAt, DueAt

LEMMA StartStreamCovers ==
  ASSUME TypeOK, NEW t \in RewardTokens, NEW r, Covered(r, t), UpToDate(r), r.listed
  PROVE  Covered(_startStream(r), t) /\ _startStream(r).listed
<1> DEFINE pot == r.queued + Remaining(r)
           rate == pot \div reward_duration
           q == _startStream(r)
<1>0. /\ now \in Nat /\ reward_duration \in Nat \ {0} /\ RPT_SCALE \in Nat /\ r \in RewardData
  BY ScaleAssumption DEF TypeOK, Covered
<1>1. /\ r.rate \in Nat /\ r.last_update \in Nat /\ r.period_finish \in Nat /\ r.queued \in Nat
      /\ r.last_update <= now
  BY <1>0 DEF RewardData, UpToDate
<1>2. Remaining(r) = ToCome(r) /\ ToCome(r) \in Nat
  BY <1>0, <1>1 DEF Remaining, ToCome, UpToDate
<1>3. q \in RewardData /\ q.accounted = r.accounted /\ q.listed
      /\ q.reward_per_token = r.reward_per_token
  BY <1>0, StartStreamType
<1>4. CASE q = r
  BY <1>4, <1>3
<1>5. CASE q = [r EXCEPT !.queued = pot - rate * reward_duration, !.rate = rate,
                         !.last_update = now, !.period_finish = now + reward_duration]
  <2>1. pot \in Nat /\ rate \in Nat
    <3>1. pot \in Nat
      BY <1>1, <1>2
    <3> HIDE DEF pot
    <3> QED
      BY <3>1, <1>0, DivNat
  <2> HIDE DEF pot, rate, q
  <2>2. /\ q.queued = pot - rate * reward_duration /\ q.last_update = now
        /\ q.rate = rate /\ q.period_finish = now + reward_duration
    BY <1>0, <1>5 DEF RewardData
  <2>3. ToCome(q) = rate * reward_duration
    BY <2>1, <2>2, <1>0 DEF ToCome
  <2>4. q.queued + ToCome(q) = r.queued + ToCome(r)
    <3>1. rate * reward_duration \in Nat
      BY <2>1, <1>0
    <3>2. q.queued + ToCome(q) = pot
      BY <2>1, <2>2, <2>3, <3>1
    <3> QED
      BY <3>2, <1>2 DEF pot
  <2>5. DuesAt(q, t) = DuesAt(r, t)
    BY <1>3, DuesSame
  <2>6. PromisedAt(q, t) = PromisedAt(r, t)
    BY <2>4, <2>5 DEF PromisedAt
  <2>7. RPT_SCALE * q.last_update >= RPT_SCALE * r.last_update
    <3>1. now - r.last_update \in Nat
      BY <1>0, <1>1
    <3>2. RPT_SCALE * (now - r.last_update) \in Nat
      BY <1>0, <3>1
    <3>3. RPT_SCALE * (now - r.last_update) = RPT_SCALE * now - RPT_SCALE * r.last_update
      BY <1>0, <1>1
    <3>4. RPT_SCALE * now \in Nat /\ RPT_SCALE * r.last_update \in Nat
      BY <1>0, <1>1
    <3> QED
      BY <2>2, <3>2, <3>3, <3>4
  <2>8. /\ PromisedAt(r, t) \in Int /\ r.accounted * PRECISION \in Int
        /\ RPT_SCALE * q.last_update \in Int /\ RPT_SCALE * r.last_update \in Int
    BY <1>0, <1>1, <2>2, DueInt, PrecisionPos DEF RewardData
  <2>9. PromisedAt(q, t) <= q.accounted * PRECISION + RPT_SCALE * q.last_update
    <3>1. PromisedAt(r, t) <= r.accounted * PRECISION + RPT_SCALE * r.last_update
      BY DEF Covered
    <3> QED
      BY <3>1, <2>6, <2>7, <2>8, <1>3
  <2>10. \A u \in Users : Settleable(u, t, q.reward_per_token)
    BY <1>3 DEF Covered
  <2>11. q.last_update <= now
    BY <1>0, <2>2
  <2>12. Covered(q, t)
    BY <1>3, <2>9, <2>10, <2>11 DEF Covered
  <2> QED
    BY <1>3, <2>12 DEF q
<1> QED
  BY <1>4, <1>5 DEF _startStream

LEMMA TakeInCovers ==
  ASSUME TypeOK, NEW t \in RewardTokens, NEW r, Covered(r, t), UpToDate(r), r.listed,
         NEW bal \in Nat
  PROVE  Covered(TakeIn(r, bal), t) /\ UpToDate(TakeIn(r, bal)) /\ TakeIn(r, bal).listed
<1> DEFINE inc == _min(bal - r.accounted, MAX_SYNC)
           q == TakeIn(r, bal)
<1>0. /\ r \in RewardData /\ STREAM_SCALE \in Nat /\ RPT_SCALE \in Nat /\ MAX_SYNC \in Nat
      /\ r.accounted \in Nat /\ r.queued \in Nat /\ r.last_update \in Nat
      /\ PRECISION \in Nat /\ PRECISION = STREAM_SCALE * RPT_SCALE
  BY ScaleAssumption, PrecisionPos DEF Covered, RewardData, PRECISION
<1>1. CASE ~(bal > r.accounted)
  BY <1>1 DEF TakeIn
<1>2. CASE bal > r.accounted
  <2>1. inc \in Nat
    BY <1>0, <1>2 DEF _min
  <2>2. q = [r EXCEPT !.accounted = @ + inc, !.queued = @ + inc * STREAM_SCALE]
    BY <1>2 DEF TakeIn
  <2> HIDE DEF inc, q
  <2>3. r.accounted + inc \in Nat /\ r.queued + inc * STREAM_SCALE \in Nat
    BY <1>0, <2>1
  <2>4. q \in RewardData
    BY <2>2, <2>3, <1>0, Zenon DEF RewardData
  <2>5. /\ q.accounted = r.accounted + inc /\ q.queued = r.queued + inc * STREAM_SCALE
        /\ q.reward_per_token = r.reward_per_token /\ q.last_update = r.last_update
        /\ q.period_finish = r.period_finish /\ q.rate = r.rate /\ q.listed = r.listed
    BY <2>2, <1>0 DEF RewardData
  <2>6. DuesAt(q, t) = DuesAt(r, t) /\ ToCome(q) = ToCome(r)
    BY <2>5, DuesSame DEF ToCome
  <2>7. DuesAt(r, t) \in Int /\ ToCome(r) \in Nat
    BY <1>0, DueInt
  <2>8. RPT_SCALE * ((r.queued + inc * STREAM_SCALE) + ToCome(r))
        = RPT_SCALE * (r.queued + ToCome(r)) + inc * PRECISION
    BY <1>0, <2>1, <2>7
  <2>9. (r.accounted + inc) * PRECISION = r.accounted * PRECISION + inc * PRECISION
    BY <1>0, <2>1
  <2>10. /\ RPT_SCALE * (r.queued + ToCome(r)) \in Nat /\ inc * PRECISION \in Nat
         /\ r.accounted * PRECISION \in Nat /\ RPT_SCALE * r.last_update \in Nat
    BY <1>0, <2>1, <2>7
  <2>11. DuesAt(r, t) + RPT_SCALE * (r.queued + ToCome(r))
           <= r.accounted * PRECISION + RPT_SCALE * r.last_update
    BY DEF Covered, PromisedAt
  <2>12. PromisedAt(q, t) <= q.accounted * PRECISION + RPT_SCALE * q.last_update
    BY <2>5, <2>6, <2>7, <2>8, <2>9, <2>10, <2>11 DEF PromisedAt
  <2>13. q.listed
    BY <1>0, <2>4, <2>5, Zenon DEF RewardData
  <2>14. \A u \in Users : Settleable(u, t, q.reward_per_token)
    BY <2>5 DEF Covered
  <2>15. q.last_update <= now /\ UpToDate(q)
    BY <2>5 DEF Covered, UpToDate
  <2>16. Covered(q, t)
    BY <2>4, <2>12, <2>13, <2>14, <2>15 DEF Covered
  <2> QED
    BY <2>13, <2>15, <2>16 DEF q
<1> QED
  BY <1>1, <1>2

LEMMA SyncCovers ==
  ASSUME TypeOK, StakesAdd, NEW t \in RewardTokens, NEW r, Covered(r, t), r.listed,
         NEW bal \in Nat, NEW readable \in BOOLEAN
  PROVE  Covered(_sync(r, bal, readable), t)
<1>1. Covered(_accrue(r), t) /\ UpToDate(_accrue(r)) /\ _accrue(r).listed
  BY AccrueCovers
<1>2. CASE readable
  <2>1. _sync(r, bal, readable) = _startStream(TakeIn(_accrue(r), bal))
    BY <1>2 DEF _sync
  <2>2. /\ Covered(TakeIn(_accrue(r), bal), t) /\ UpToDate(TakeIn(_accrue(r), bal))
        /\ TakeIn(_accrue(r), bal).listed
    BY <1>1, TakeInCovers
  <2> QED
    BY <2>1, <2>2, StartStreamCovers
<1>3. CASE ~readable
  BY <1>1, <1>3, StartStreamCovers DEF _sync
<1> QED
  BY <1>2, <1>3

\* One user's account of t is settled and the record charged for it: whatever
\* else happens to the user's stake, t stays covered.
LEMMA SettleCovers ==
  ASSUME TypeOK, TypeOK', now' = now, NEW t \in RewardTokens, NEW u \in Users,
         NEW q, Covered(q, t), NEW p \in RewardData, reward_data'[t] = p,
         p.reward_per_token = q.reward_per_token, p.last_update = q.last_update,
         p.period_finish = q.period_finish, p.rate = q.rate, p.listed = q.listed,
         \A w \in Users \ {u} :
           /\ owed'[w][t] = owed[w][t] /\ staked'[w] = staked[w]
           /\ user_reward_per_token_paid'[w][t] = user_reward_per_token_paid[w][t],
         user_reward_per_token_paid'[u][t] = q.reward_per_token,
         owed'[u][t] * PRECISION + RPT_SCALE * p.queued - p.accounted * PRECISION
           <= DueAt(q, u, t) + RPT_SCALE * q.queued - q.accounted * PRECISION
  PROVE  Covered(reward_data[t], t)'
<1> DEFINE f == [w \in Users |-> DueAt(q, w, t)]
           g == [w \in Users |-> DueAt(reward_data[t], w, t)']
<1>0. /\ q \in RewardData /\ RPT_SCALE \in Nat /\ PRECISION \in Nat
      /\ p.queued \in Nat /\ q.queued \in Nat /\ p.accounted \in Nat /\ q.accounted \in Nat
      /\ q.reward_per_token \in Nat /\ q.last_update \in Nat
      /\ owed'[u][t] \in Nat /\ staked'[u] \in Nat
  BY ScaleAssumption, PrecisionPos DEF Covered, RewardData, TypeOK
<1>1. f \in [Users -> Int] /\ DuesAt(q, t) \in Int /\ ToCome(q) \in Nat
  BY <1>0, DueInt
<1>2. ASSUME NEW w \in Users \ {u} PROVE g[w] = f[w]
  BY <1>2 DEF DueAt
<1>3. g[u] = owed'[u][t] * PRECISION /\ g[u] \in Int
  <2>1. g[u] = owed'[u][t] * PRECISION + staked'[u] * (q.reward_per_token - q.reward_per_token)
    BY DEF DueAt
  <2> QED
    BY <2>1, <1>0
<1>4. f[u] = DueAt(q, u, t) /\ f[u] \in Int
  BY <1>1
<1>5. g \in [Users -> Int]
  BY <1>1, <1>2, <1>3
<1>6. DuesAt(reward_data[t], t)' = SumFunctionOnSet(g, Users) /\ DuesAt(q, t) = SumFunctionOnSet(f, Users)
  BY DEF DuesAt
<1> HIDE DEF f, g
<1>7. SumFunctionOnSet(g, Users) = SumFunctionOnSet(f, Users) + g[u] - f[u]
  BY <1>1, <1>2, <1>5, UsersAssumption, SumChange
<1>8. ToCome(reward_data[t])' = ToCome(q)
  BY DEF ToCome
<1>9. PromisedAt(reward_data[t], t)' = DuesAt(reward_data[t], t)' + RPT_SCALE * (p.queued + ToCome(q))
  BY <1>8 DEF PromisedAt
<1>10. DuesAt(q, t) + RPT_SCALE * (q.queued + ToCome(q))
         <= q.accounted * PRECISION + RPT_SCALE * q.last_update
  BY DEF Covered, PromisedAt
<1>11. /\ RPT_SCALE * (q.queued + ToCome(q)) = RPT_SCALE * q.queued + RPT_SCALE * ToCome(q)
       /\ RPT_SCALE * (p.queued + ToCome(q)) = RPT_SCALE * p.queued + RPT_SCALE * ToCome(q)
       /\ RPT_SCALE * q.queued \in Int /\ RPT_SCALE * p.queued \in Int
       /\ RPT_SCALE * ToCome(q) \in Int /\ RPT_SCALE * q.last_update \in Int
       /\ q.accounted * PRECISION \in Int /\ p.accounted * PRECISION \in Int
       /\ owed'[u][t] * PRECISION \in Int
  BY <1>0, <1>1
<1>12. PromisedAt(reward_data[t], t)' <= p.accounted * PRECISION + RPT_SCALE * q.last_update
  BY <1>1, <1>3, <1>4, <1>6, <1>7, <1>9, <1>10, <1>11
<1>13. \A w \in Users : Settleable(w, t, p.reward_per_token)'
  <2> SUFFICES ASSUME NEW w \in Users PROVE Settleable(w, t, p.reward_per_token)'
    OBVIOUS
  <2>1. CASE w = u
    BY <2>1, <1>0 DEF Settleable
  <2>2. CASE w # u
    <3>1. Settleable(w, t, q.reward_per_token)
      BY DEF Covered
    <3> QED
      BY <2>2, <3>1 DEF Settleable
  <2> QED
    BY <2>1, <2>2
<1> QED
  BY <1>12, <1>13 DEF Covered

\* Nothing about t changes but the time.
LEMMA SameCovers ==
  ASSUME TypeOK, NEW t \in RewardTokens, NEW q, Covered(q, t), now' \in Nat, now' >= now,
         reward_data'[t] = q, staked' = staked,
         \A u \in Users : /\ owed'[u][t] = owed[u][t]
                          /\ user_reward_per_token_paid'[u][t] = user_reward_per_token_paid[u][t]
  PROVE  Covered(reward_data[t], t)'
<1>1. \A u \in Users : DueAt(reward_data[t], u, t)' = DueAt(q, u, t)
  BY DEF DueAt
<1>2. DuesAt(reward_data[t], t)' = DuesAt(q, t)
  BY <1>1 DEF DuesAt
<1>3. PromisedAt(reward_data[t], t)' = PromisedAt(q, t)
  BY <1>2 DEF PromisedAt, ToCome
<1>4. \A u \in Users : Settleable(u, t, q.reward_per_token)'
  BY DEF Settleable, Covered
<1>5. q.last_update \in Nat /\ now \in Nat
  BY DEF Covered, RewardData, TypeOK
<1> QED
  BY <1>3, <1>4, <1>5 DEF Covered

\* What a settlement credits is at most what was due.
LEMMA UnsettledPays ==
  ASSUME TypeOK, NEW u \in Users, NEW t \in RewardTokens, NEW r \in RewardData,
         Settleable(u, t, r.reward_per_token)
  PROVE  /\ Unsettled(u, t, r.reward_per_token) \in Nat
         /\ (owed[u][t] + Unsettled(u, t, r.reward_per_token)) * PRECISION <= DueAt(r, u, t)
<1> DEFINE x == staked[u] * (r.reward_per_token - user_reward_per_token_paid[u][t])
           d == x \div PRECISION
<1>1. /\ staked[u] \in Nat /\ user_reward_per_token_paid[u][t] \in Nat /\ owed[u][t] \in Nat
      /\ r.reward_per_token \in Nat /\ PRECISION \in Nat \ {0}
  BY PrecisionPos DEF TypeOK, RewardData
<1>2. r.reward_per_token - user_reward_per_token_paid[u][t] \in Nat
  BY <1>1 DEF Settleable
<1>3. x \in Nat
  BY <1>1, <1>2
<1>4. Unsettled(u, t, r.reward_per_token) = d /\ DueAt(r, u, t) = owed[u][t] * PRECISION + x
  BY DEF Unsettled, mulDiv, DueAt
<1> HIDE DEF x
<1>5. d \in Nat /\ d * PRECISION <= x
  BY <1>1, <1>3, DivNat
<1> HIDE DEF d
<1>6. (owed[u][t] + d) * PRECISION = owed[u][t] * PRECISION + d * PRECISION
  BY <1>1, <1>5
<1>7. d * PRECISION \in Nat /\ owed[u][t] * PRECISION \in Nat
  BY <1>1, <1>5
<1> QED
  BY <1>3, <1>4, <1>5, <1>6, <1>7

\* The stakes still add up when one of them and the total move together.
LEMMA StakesMove ==
  ASSUME TypeOK, TypeOK', StakesAdd, NEW u \in Users,
         \A w \in Users \ {u} : staked'[w] = staked[w],
         total_staked' = total_staked + staked'[u] - staked[u]
  PROVE  StakesAdd'
<1>1. staked \in [Users -> Int] /\ staked' \in [Users -> Int]
  BY DEF TypeOK
<1>2. SumFunctionOnSet(staked', Users) = SumFunctionOnSet(staked, Users) + staked'[u] - staked[u]
  BY <1>1, UsersAssumption, SumChange
<1> QED
  BY <1>2 DEF StakesAdd

LEMMA CheckpointCovers ==
  ASSUME TypeOK, TypeOK', Ledger, now' = now, NEW u \in Users, _checkpoint(u),
         \A w \in Users \ {u} : staked'[w] = staked[w],
         NEW t \in RewardTokens
  PROVE  Covered(reward_data[t], t)'
<1> DEFINE q == IF reward_data[t].listed
                THEN _startStream(_accrue(reward_data[t])) ELSE reward_data[t]
<1>1. StakesAdd /\ Covered(reward_data[t], t)
  BY DEF Ledger
<1>2. /\ reward_data'[t] = q
      /\ reward_data[t].listed => Settleable(u, t, q.reward_per_token)
      /\ \A w \in Users \ {u} :
           /\ owed'[w][t] = owed[w][t]
           /\ user_reward_per_token_paid'[w][t] = user_reward_per_token_paid[w][t]
      /\ owed'[u][t] = IF reward_data[t].listed
                       THEN owed[u][t] + Unsettled(u, t, q.reward_per_token) ELSE owed[u][t]
      /\ user_reward_per_token_paid'[u][t] =
           IF reward_data[t].listed THEN q.reward_per_token ELSE user_reward_per_token_paid[u][t]
  BY DEF _checkpoint, CanCheckpoint, TypeOK
<1>3. Covered(q, t)
  <2>1. CASE reward_data[t].listed
    <3>1. /\ Covered(_accrue(reward_data[t]), t) /\ UpToDate(_accrue(reward_data[t]))
          /\ _accrue(reward_data[t]).listed
      BY <1>1, <2>1, AccrueCovers
    <3> QED
      BY <2>1, <3>1, StartStreamCovers
  <2> QED
    BY <1>1, <2>1
<1> HIDE DEF q
<1>4. q \in RewardData /\ \A w \in Users : Settleable(w, t, q.reward_per_token)
  BY <1>3 DEF Covered
<1>5. /\ user_reward_per_token_paid'[u][t] = q.reward_per_token
      /\ owed'[u][t] * PRECISION <= DueAt(q, u, t)
      /\ owed'[u][t] \in Nat
  <2>1. CASE reward_data[t].listed
    <3>1. /\ Unsettled(u, t, q.reward_per_token) \in Nat
          /\ (owed[u][t] + Unsettled(u, t, q.reward_per_token)) * PRECISION <= DueAt(q, u, t)
      BY <2>1, <1>4, UnsettledPays
    <3>2. owed[u][t] \in Nat
      BY DEF TypeOK
    <3> QED
      BY <3>1, <3>2, <2>1, <1>2
  <2>2. CASE ~reward_data[t].listed
    <3>1. q.reward_per_token = 0
      BY <1>1, <2>2 DEF Covered, q
    <3>2. user_reward_per_token_paid[u][t] = 0
      BY <3>1, <1>4 DEF Settleable, TypeOK
    <3>3. staked[u] \in Nat /\ owed[u][t] \in Nat /\ PRECISION \in Nat
      BY PrecisionPos DEF TypeOK
    <3>4. DueAt(q, u, t) = owed[u][t] * PRECISION + staked[u] * (0 - 0)
      BY <3>1, <3>2 DEF DueAt
    <3> QED
      BY <1>2, <2>2, <3>1, <3>2, <3>3, <3>4
  <2> QED
    BY <2>1, <2>2
<1>6. /\ RPT_SCALE * q.queued \in Int /\ q.accounted * PRECISION \in Int
      /\ DueAt(q, u, t) \in Int /\ owed'[u][t] * PRECISION \in Int
  BY <1>4, <1>5, ScaleAssumption, PrecisionPos, DueInt DEF RewardData
<1>7. owed'[u][t] * PRECISION + RPT_SCALE * q.queued - q.accounted * PRECISION
        <= DueAt(q, u, t) + RPT_SCALE * q.queued - q.accounted * PRECISION
  BY <1>5, <1>6
<1> QED
  BY <1>2, <1>3, <1>4, <1>5, <1>7, SettleCovers

LEMMA ForfeitCovers ==
  ASSUME TypeOK, TypeOK', Ledger, now' = now, NEW u \in Users, emergency_withdraw(u),
         \A w \in Users \ {u} : staked'[w] = staked[w],
         NEW t \in RewardTokens
  PROVE  Covered(reward_data[t], t)'
<1> DEFINE r == reward_data[t]
           paid == user_reward_per_token_paid[u][t]
           x == staked[u] * (r.reward_per_token - paid)
           d == x \div PRECISION
           p == Forfeit(u, t)
<1>1. Covered(r, t) /\ r \in RewardData
  BY DEF Ledger, Covered
<1>2. /\ reward_data'[t] = p /\ owed' = owed
      /\ \A w \in Users \ {u} :
           user_reward_per_token_paid'[w][t] = user_reward_per_token_paid[w][t]
      /\ user_reward_per_token_paid'[u][t] =
           IF r.listed /\ r.reward_per_token > paid THEN r.reward_per_token ELSE paid
  BY DEF emergency_withdraw, TypeOK
<1>3. /\ staked[u] \in Nat /\ paid \in Nat /\ owed[u][t] \in Nat /\ r.reward_per_token \in Nat
      /\ r.queued \in Nat /\ r.accounted \in Nat
      /\ PRECISION \in Nat \ {0} /\ STREAM_SCALE \in Nat /\ RPT_SCALE \in Nat
      /\ PRECISION = STREAM_SCALE * RPT_SCALE
  BY <1>1, PrecisionPos, ScaleAssumption DEF TypeOK, RewardData, PRECISION
<1>4. paid <= r.reward_per_token
  BY <1>1 DEF Covered, Settleable
<1>5. ~r.listed => paid = 0 /\ r.reward_per_token = 0
  BY <1>1, <1>3, <1>4 DEF Covered
<1>6. user_reward_per_token_paid'[u][t] = r.reward_per_token
  BY <1>2, <1>3, <1>4, <1>5
<1>7. p \in RewardData
  BY ForfeitType
<1>8. /\ p.reward_per_token = r.reward_per_token /\ p.last_update = r.last_update
      /\ p.period_finish = r.period_finish /\ p.rate = r.rate /\ p.listed = r.listed
      /\ p.accounted = r.accounted
  BY <1>1 DEF Forfeit, RewardData
<1>9. x \in Nat /\ DueAt(r, u, t) = owed[u][t] * PRECISION + x
  <2>1. r.reward_per_token - paid \in Nat
    BY <1>3, <1>4
  <2> QED
    BY <2>1, <1>3 DEF DueAt
<1> HIDE DEF x
<1>10. d \in Nat /\ d * PRECISION <= x
  BY <1>3, <1>9, DivNat
<1>11. p.queued = r.queued + d * STREAM_SCALE \/ p.queued = r.queued
  BY <1>1 DEF Forfeit, RewardData, mulDiv, x
<1> HIDE DEF d, p, r
<1>12. RPT_SCALE * p.queued <= RPT_SCALE * r.queued + x
  <2>1. RPT_SCALE * (r.queued + d * STREAM_SCALE) = RPT_SCALE * r.queued + d * PRECISION
    BY <1>3, <1>10
  <2>2. RPT_SCALE * r.queued \in Nat /\ d * PRECISION \in Nat
    BY <1>3, <1>10
  <2> QED
    BY <1>9, <1>10, <1>11, <2>1, <2>2
<1>13. /\ RPT_SCALE * p.queued \in Int /\ RPT_SCALE * r.queued \in Int
       /\ p.accounted * PRECISION \in Int /\ owed[u][t] * PRECISION \in Int
  BY <1>3, <1>7, <1>8 DEF RewardData
<1>14. owed'[u][t] * PRECISION + RPT_SCALE * p.queued - p.accounted * PRECISION
         <= DueAt(r, u, t) + RPT_SCALE * r.queued - r.accounted * PRECISION
  BY <1>2, <1>8, <1>9, <1>12, <1>13
<1> QED
  BY <1>1, <1>2, <1>6, <1>7, <1>8, <1>14, SettleCovers

LEMMA ClaimOneCovers ==
  ASSUME IInv, TypeOK', Ledger, now' = now, staked' = staked,
         NEW u \in Users, NEW token \in RewardTokens, ClaimOne(u, token),
         NEW t \in RewardTokens
  PROVE  Covered(reward_data[t], t)'
<1>0. TypeOK /\ StakesAdd /\ Covered(reward_data[t], t)
  BY DEF IInv, Ledger
<1>1. CASE t # token
  <2>1. /\ reward_data'[t] = reward_data[t]
        /\ \A w \in Users : /\ owed'[w][t] = owed[w][t]
                            /\ user_reward_per_token_paid'[w][t] = user_reward_per_token_paid[w][t]
    <3>1. PICK readable \in BOOLEAN :
            LET q      == _sync(reward_data[token], balance[token], readable)
                amount == owed[u][token] + Unsettled(u, token, q.reward_per_token)
            IN  /\ reward_data' = [reward_data EXCEPT ![token] = [q EXCEPT !.accounted = @ - amount]]
                /\ user_reward_per_token_paid' =
                     [user_reward_per_token_paid EXCEPT ![u][token] = q.reward_per_token]
                /\ owed' = [owed EXCEPT ![u][token] = 0]
      BY DEF ClaimOne, CanClaimOne
    <3> DEFINE q == _sync(reward_data[token], balance[token], readable)
               p == [q EXCEPT !.accounted = @ - (owed[u][token] + Unsettled(u, token, q.reward_per_token))]
    <3>2. /\ reward_data' = [reward_data EXCEPT ![token] = p]
          /\ user_reward_per_token_paid' =
               [user_reward_per_token_paid EXCEPT ![u][token] = q.reward_per_token]
          /\ owed' = [owed EXCEPT ![u][token] = 0]
      BY <3>1
    <3> HIDE DEF p, q
    <3>3. reward_data'[t] = reward_data[t]
      BY <3>2, <1>0, <1>1 DEF TypeOK
    <3>4. \A w \in Users : owed'[w][t] = owed[w][t]
      BY <3>2, <1>0, <1>1 DEF TypeOK
    <3>5. \A w \in Users : user_reward_per_token_paid'[w][t] = user_reward_per_token_paid[w][t]
      BY <3>2, <1>0, <1>1 DEF TypeOK
    <3> QED
      BY <3>3, <3>4, <3>5
  <2>2. now' \in Nat /\ now' >= now
    BY <1>0 DEF TypeOK
  <2> QED
    BY <1>0, <2>1, <2>2, SameCovers
<1>2. CASE t = token
  <2>1. PICK readable \in BOOLEAN :
        LET r      == _sync(reward_data[t], balance[t], readable)
            amount == owed[u][t] + Unsettled(u, t, r.reward_per_token)
        IN  /\ reward_data[t].listed
            /\ Settleable(u, t, r.reward_per_token)
            /\ reward_data' = [reward_data EXCEPT ![t] = [r EXCEPT !.accounted = @ - amount]]
            /\ user_reward_per_token_paid' =
                 [user_reward_per_token_paid EXCEPT ![u][t] = r.reward_per_token]
            /\ owed' = [owed EXCEPT ![u][t] = 0]
    BY <1>2 DEF ClaimOne, CanClaimOne
  <2> DEFINE r == _sync(reward_data[t], balance[t], readable)
             amount == owed[u][t] + Unsettled(u, t, r.reward_per_token)
             p == [r EXCEPT !.accounted = @ - amount]
  <2>2. Covered(r, t)
    <3>1. balance[t] \in Nat
      BY <1>0 DEF TypeOK, Tokens
    <3> QED
      BY <1>0, <2>1, <3>1, SyncCovers
  <2>3. /\ reward_data' = [reward_data EXCEPT ![t] = p]
        /\ user_reward_per_token_paid' =
                 [user_reward_per_token_paid EXCEPT ![u][t] = r.reward_per_token]
        /\ owed' = [owed EXCEPT ![u][t] = 0]
        /\ Settleable(u, t, r.reward_per_token)
    BY <2>1
  <2> HIDE DEF r
  <2>4. r \in RewardData /\ r.accounted \in Nat /\ r.queued \in Nat
    BY <2>2 DEF Covered, RewardData
  <2>5. amount \in Nat /\ amount * PRECISION <= DueAt(r, u, t)
    <3>1. /\ Unsettled(u, t, r.reward_per_token) \in Nat
          /\ (owed[u][t] + Unsettled(u, t, r.reward_per_token)) * PRECISION <= DueAt(r, u, t)
      BY <1>0, <2>3, <2>4, UnsettledPays
    <3>2. owed[u][t] \in Nat
      BY <1>0 DEF TypeOK
    <3> QED
      BY <3>1, <3>2
  <2> HIDE DEF amount
  <2>6. /\ reward_data'[t] = p /\ p \in RewardData
        /\ \A w \in Users \ {u} :
             /\ owed'[w][t] = owed[w][t]
             /\ user_reward_per_token_paid'[w][t] = user_reward_per_token_paid[w][t]
        /\ owed'[u][t] = 0 /\ user_reward_per_token_paid'[u][t] = r.reward_per_token
    BY <1>0, <2>3 DEF TypeOK
  <2>7. /\ p.reward_per_token = r.reward_per_token /\ p.last_update = r.last_update
        /\ p.period_finish = r.period_finish /\ p.rate = r.rate /\ p.listed = r.listed
        /\ p.accounted = r.accounted - amount /\ p.queued = r.queued
    BY <2>4 DEF RewardData
  <2> HIDE DEF p
  <2>8. PRECISION \in Nat /\ RPT_SCALE \in Nat
    BY PrecisionPos, ScaleAssumption
  <2>9. 0 * PRECISION + RPT_SCALE * p.queued - p.accounted * PRECISION
          <= DueAt(r, u, t) + RPT_SCALE * r.queued - r.accounted * PRECISION
    <3>1. (r.accounted - amount) * PRECISION = r.accounted * PRECISION - amount * PRECISION
      BY <2>4, <2>5, <2>8
    <3>2. /\ RPT_SCALE * r.queued \in Int /\ r.accounted * PRECISION \in Int
          /\ amount * PRECISION \in Int /\ DueAt(r, u, t) \in Int
      BY <1>0, <2>4, <2>5, <2>8, DueInt
    <3> QED
      BY <2>5, <2>7, <2>8, <3>1, <3>2
  <2> QED
    BY <1>0, <2>2, <2>6, <2>7, <2>9, SettleCovers
<1> QED
  BY <1>1, <1>2

\* Steps that leave the rewards and the stakes alone, whatever the clock does.
LEMMA QuietLedger ==
  ASSUME IInv, IInv', Ledger, now' >= now, UNCHANGED rewardVars,
         staked' = staked, total_staked' = total_staked
  PROVE  Ledger'
<1>1. TypeOK /\ TypeOK'
  BY DEF IInv
<1>2. /\ reward_data' = reward_data /\ owed' = owed /\ now' \in Nat
      /\ user_reward_per_token_paid' = user_reward_per_token_paid
  BY <1>1 DEF rewardVars, TypeOK
<1>3. ASSUME NEW t \in RewardTokens PROVE Covered(reward_data[t], t)'
  <2>1. Covered(reward_data[t], t)
    BY DEF Ledger
  <2> QED
    BY <2>1, <1>1, <1>2, SameCovers
<1>4. StakesAdd'
  BY DEF Ledger, StakesAdd
<1> QED
  BY <1>3, <1>4 DEF Ledger

LEMMA StakerLedger ==
  ASSUME IInv, IInv', Ledger, now' = now, NEW u \in Users,
         _checkpoint(u) \/ emergency_withdraw(u),
         NEW x, staked' = [staked EXCEPT ![u] = x],
         total_staked' = total_staked + x - staked[u]
  PROVE  Ledger'
<1>1. TypeOK /\ TypeOK' /\ StakesAdd
  BY DEF IInv, Ledger
<1>2. staked'[u] = x /\ \A w \in Users \ {u} : staked'[w] = staked[w]
  BY <1>1 DEF TypeOK
<1>3. StakesAdd'
  BY <1>1, <1>2, StakesMove
<1>4. \A t \in RewardTokens : Covered(reward_data[t], t)'
  BY <1>1, <1>2, CheckpointCovers, ForfeitCovers
<1> QED
  BY <1>3, <1>4 DEF Ledger

LEMMA ClaimLedger ==
  ASSUME IInv, IInv', Ledger, now' = now, UNCHANGED stakeVars,
         NEW u \in Users, NEW token \in RewardTokens, ClaimOne(u, token)
  PROVE  Ledger'
<1>1. TypeOK' /\ staked' = staked /\ total_staked' = total_staked
  BY DEF IInv, stakeVars
<1>2. \A t \in RewardTokens : Covered(reward_data[t], t)'
  BY <1>1, ClaimOneCovers
<1>3. StakesAdd'
  BY <1>1 DEF Ledger, StakesAdd
<1> QED
  BY <1>2, <1>3 DEF Ledger

LEMMA SyncLedger ==
  ASSUME IInv, IInv', Ledger, NEW token \in RewardTokens, sync(token)
  PROVE  Ledger'
<1>1. /\ now' = now /\ staked' = staked /\ total_staked' = total_staked /\ owed' = owed
      /\ user_reward_per_token_paid' = user_reward_per_token_paid /\ reward_data[token].listed
  BY DEF sync, stakeVars
<1>2. TypeOK /\ StakesAdd /\ now' \in Nat /\ now' >= now /\ balance[token] \in Nat
  BY <1>1 DEF IInv, TypeOK, Ledger, Tokens
<1>3. PICK readable \in BOOLEAN :
        reward_data' = [reward_data EXCEPT ![token] = _sync(@, balance[token], readable)]
  BY DEF sync
<1>4. ASSUME NEW t \in RewardTokens PROVE Covered(reward_data[t], t)'
  <2>1. Covered(reward_data[t], t)
    BY DEF Ledger
  <2>2. CASE t = token
    <3>1. reward_data'[t] = _sync(reward_data[t], balance[t], readable)
      BY <2>2, <1>2, <1>3 DEF TypeOK
    <3>2. Covered(_sync(reward_data[t], balance[t], readable), t)
      BY <2>1, <2>2, <1>1, <1>2, SyncCovers
    <3> QED
      BY <3>1, <3>2, <1>1, <1>2, SameCovers
  <2>3. CASE t # token
    <3>1. reward_data'[t] = reward_data[t]
      BY <2>3, <1>2, <1>3 DEF TypeOK
    <3> QED
      BY <2>1, <3>1, <1>1, <1>2, SameCovers
  <2> QED
    BY <2>2, <2>3
<1>5. StakesAdd'
  BY <1>1, <1>2 DEF StakesAdd
<1> QED
  BY <1>4, <1>5 DEF Ledger

\* A newly listed token has no stream and owes nothing yet.
LEMMA AddLedger ==
  ASSUME IInv, IInv', Ledger, NEW token \in RewardTokens, add_reward_token(token)
  PROVE  Ledger'
<1> DEFINE r == reward_data[token]
           q == [r EXCEPT !.listed = TRUE, !.last_update = now]
<1>1. /\ now' = now /\ staked' = staked /\ total_staked' = total_staked /\ owed' = owed
      /\ user_reward_per_token_paid' = user_reward_per_token_paid /\ ~r.listed
      /\ reward_data' = [reward_data EXCEPT ![token].listed = TRUE,
                                            ![token].last_update = now]
  BY DEF add_reward_token, stakeVars
<1>2. TypeOK /\ now' \in Nat /\ now' >= now /\ now \in Nat
  BY <1>1 DEF IInv, TypeOK
<1>3. reward_data' = [reward_data EXCEPT ![token] = q]
  BY <1>1, <1>2, Zenon DEF TypeOK
<1>4. Covered(r, token) /\ r \in RewardData /\ r.last_update \in Nat /\ r.last_update <= now
  BY DEF Ledger, Covered, RewardData
<1>5. q \in RewardData
  BY <1>2, <1>4, Zenon DEF RewardData
<1>6. /\ q.reward_per_token = r.reward_per_token /\ q.accounted = r.accounted
      /\ q.queued = r.queued /\ q.period_finish = r.period_finish /\ q.last_update = now
      /\ q.listed
  BY <1>4 DEF RewardData
<1> HIDE DEF q, r
<1>7. Covered(q, token)
  <2>1. r.period_finish = 0
    BY <1>1, <1>4 DEF Covered
  <2>2. ToCome(q) = 0 /\ ToCome(r) = 0
    BY <2>1, <1>2, <1>4, <1>6 DEF ToCome
  <2>3. PromisedAt(q, token) = PromisedAt(r, token)
    BY <2>2, <1>6, DuesSame DEF PromisedAt
  <2>4. RPT_SCALE * now >= RPT_SCALE * r.last_update
    <3>0. RPT_SCALE \in Nat
      BY ScaleAssumption
    <3>1. r.last_update # now => RPT_SCALE * now >= RPT_SCALE * r.last_update + RPT_SCALE
      BY <3>0, <1>2, <1>4, SlackGrows
    <3>2. RPT_SCALE \in Nat /\ RPT_SCALE * now \in Nat /\ RPT_SCALE * r.last_update \in Nat
      BY <1>2, <1>4, ScaleAssumption
    <3> QED
      BY <3>1, <3>2
  <2>5. /\ PromisedAt(r, token) <= r.accounted * PRECISION + RPT_SCALE * r.last_update
        /\ PromisedAt(r, token) \in Int /\ r.accounted * PRECISION \in Int
        /\ RPT_SCALE * now \in Int /\ RPT_SCALE * r.last_update \in Int
    BY <1>2, <1>4, DueInt, PrecisionPos, ScaleAssumption DEF Covered, RewardData
  <2>6. PromisedAt(q, token) <= q.accounted * PRECISION + RPT_SCALE * q.last_update
    BY <2>3, <2>4, <2>5, <1>6
  <2>7. \A u \in Users : Settleable(u, token, q.reward_per_token)
    BY <1>4, <1>6 DEF Covered
  <2> QED
    BY <2>6, <2>7, <1>2, <1>5, <1>6 DEF Covered
<1>8. ASSUME NEW t \in RewardTokens PROVE Covered(reward_data[t], t)'
  <2>1. CASE t = token
    <3>1. reward_data'[t] = q
      BY <2>1, <1>2, <1>3 DEF TypeOK
    <3> QED
      BY <2>1, <3>1, <1>1, <1>2, <1>7, SameCovers
  <2>2. CASE t # token
    <3>1. reward_data'[t] = reward_data[t] /\ Covered(reward_data[t], t)
      BY <2>2, <1>2, <1>3 DEF TypeOK, Ledger
    <3> QED
      BY <3>1, <1>1, <1>2, SameCovers
  <2> QED
    BY <2>1, <2>2
<1>9. StakesAdd'
  BY <1>1 DEF StakesAdd, Ledger
<1> QED
  BY <1>8, <1>9 DEF Ledger

LEMMA ContinueLedger ==
  ASSUME IInv, IInv', Ledger, Continue
  PROVE  Ledger'
<1> DEFINE item == Head(todo)
<1>1. /\ locked /\ todo # <<>> /\ todo' = Tail(todo) /\ now' = now
      /\ locked' = locked /\ unlock_time' = unlock_time
  BY DEF Continue, stakeVars
<1>2. item \in Items /\ (item.act = "claim" => item.token \in RewardTokens)
  BY <1>1, TailTodo
<1>3. item.user \in Users /\ now \in Nat
  BY <1>2 DEF Items, IInv, TypeOK
<1>4. CASE UNCHANGED <<total_staked, staked, unlock_time, rewardVars>>
  BY <1>1, <1>3, <1>4, QuietLedger
<1>5. CASE /\ item.act = "claim"
           /\ ClaimOne(item.user, item.token)
           /\ UNCHANGED stakeVars
  BY <1>1, <1>2, <1>3, <1>5, ClaimLedger
<1> QED
  BY <1>4, <1>5 DEF Continue

LEMMA NextLedger == IInv /\ IInv' /\ Ledger /\ [Next]_vars => Ledger'
<1> SUFFICES ASSUME IInv, IInv', Ledger, [Next]_vars PROVE Ledger'
  OBVIOUS
<1>0. TypeOK /\ now \in Nat
  BY DEF IInv, TypeOK
<1>1. ASSUME NEW u \in Users, StakerStep(u) PROVE Ledger'
  <2>1. ASSUME NEW v \in Versions, NEW amount \in StakeAmounts[v], stake(u, v, amount)
        PROVE  Ledger'
    <3>1. /\ now' = now /\ _checkpoint(u)
          /\ staked' = [staked EXCEPT ![u] = staked[u] + amount]
          /\ total_staked' = total_staked + amount
      BY <2>1 DEF stake
    <3>2. total_staked' = total_staked + (staked[u] + amount) - staked[u]
      BY <3>1, <1>0, ParameterAssumption DEF TypeOK
    <3> QED
      BY <3>1, <3>2, StakerLedger
  <2>2. ASSUME NEW v \in Versions, NEW amount \in StakeAmounts[v], withdraw(u, v, amount)
        PROVE  Ledger'
    <3>1. /\ now' = now /\ _checkpoint(u)
          /\ staked' = [staked EXCEPT ![u] = staked[u] - amount]
          /\ total_staked' = total_staked - amount
      BY <2>2 DEF withdraw
    <3>2. total_staked' = total_staked + (staked[u] - amount) - staked[u]
      BY <3>1, <1>0, ParameterAssumption DEF TypeOK
    <3> QED
      BY <3>1, <3>2, StakerLedger
  <2>3. CASE LeaveWith(u) /\ (_checkpoint(u) \/ emergency_withdraw(u))
    <3>1. /\ now' = now /\ staked' = [staked EXCEPT ![u] = 0]
          /\ total_staked' = total_staked - staked[u]
      BY <2>3 DEF LeaveWith, CanLeave
    <3>2. total_staked' = total_staked + 0 - staked[u]
      BY <3>1, <1>0 DEF TypeOK
    <3> QED
      BY <2>3, <3>1, <3>2, StakerLedger
  <2>4. ASSUME NEW tokens \in ClaimLists, claim(u, tokens) PROVE Ledger'
    <3>1. Head(tokens) \in RewardTokens /\ now' = now /\ UNCHANGED stakeVars
          /\ ClaimOne(u, Head(tokens))
      BY <2>4, ParameterAssumption DEF claim
    <3> QED
      BY <3>1, ClaimLedger
  <2>5. ASSUME NEW amount \in StakeAmounts[Erc223], tokenReceived(u, amount) \/ withdrawDeposit(u)
        PROVE  Ledger'
    BY <2>5, <1>0, QuietLedger DEF tokenReceived, withdrawDeposit, stakeVars
  <2> QED
    BY <1>1, <2>1, <2>2, <2>3, <2>4, <2>5 DEF StakerStep, withdraw_all, emergency_withdraw
<1>2. ASSUME OwnerStep PROVE Ledger'
  <2>1. ASSUME NEW token \in RewardTokens, add_reward_token(token) PROVE Ledger'
    BY <2>1, AddLedger
  <2>2. ASSUME NEW delay \in DelayChoices, set_claim_delay(delay) PROVE Ledger'
    BY <2>2, <1>0, QuietLedger DEF set_claim_delay, stakeVars
  <2>3. ASSUME NEW token \in Tokens, NEW amount \in ArrivalAmounts[token], sweep(token, amount)
        PROVE Ledger'
    BY <2>3, <1>0, QuietLedger DEF sweep, stakeVars
  <2>4. ASSUME NEW account \in OwnerCandidates, transfer_ownership(account) PROVE Ledger'
    BY <2>4, <1>0, QuietLedger DEF transfer_ownership, stakeVars
  <2> QED
    BY <1>2, <2>1, <2>2, <2>3, <2>4 DEF OwnerStep
<1>3. ASSUME NEW token \in RewardTokens, sync(token) PROVE Ledger'
  BY <1>3, SyncLedger
<1>4. ASSUME NEW account \in OwnerCandidates, accept_ownership(account) PROVE Ledger'
  BY <1>4, <1>0, QuietLedger DEF accept_ownership, stakeVars
<1>5. ASSUME NEW token \in Tokens, NEW amount \in ArrivalAmounts[token], Arrive(token, amount)
      PROVE Ledger'
  BY <1>5, <1>0, QuietLedger DEF Arrive, stakeVars
<1>6. CASE Return \/ Tick \/ UNCHANGED vars
  <2>1. /\ now' >= now /\ UNCHANGED rewardVars /\ staked' = staked /\ total_staked' = total_staked
    BY <1>6, <1>0 DEF Return, Tick, vars, stakeVars
  <2> QED
    BY <2>1, QuietLedger
<1>7. CASE Continue
  BY <1>7, ContinueLedger
<1> QED
  BY <1>1, <1>2, <1>3, <1>4, <1>5, <1>6, <1>7 DEF Next

LEMMA InitLedger == Init => Ledger
<1> SUFFICES ASSUME Init PROVE Ledger
  OBVIOUS
<1>0. TypeOK /\ IInv
  BY InitInv DEF IInv
<1>1. StakesAdd
  BY UsersAssumption, SumZero DEF Init, StakesAdd
<1>2. ASSUME NEW t \in RewardTokens PROVE Covered(reward_data[t], t)
  <2> DEFINE r == reward_data[t]
  <2>1. /\ r = NoReward /\ r \in RewardData /\ now = 0
        /\ \A u \in Users : /\ owed[u][t] = 0 /\ staked[u] = 0
                            /\ user_reward_per_token_paid[u][t] = 0
    BY <1>0 DEF Init, TypeOK
  <2>2. /\ r.reward_per_token = 0 /\ r.queued = 0 /\ r.accounted = 0 /\ r.last_update = 0
        /\ r.period_finish = 0
    BY <2>1 DEF NoReward
  <2> HIDE DEF r
  <2>3. PRECISION \in Nat /\ RPT_SCALE \in Nat
    BY PrecisionPos, ScaleAssumption
  <2>4. \A u \in Users : DueAt(r, u, t) = 0
    BY <2>1, <2>2, <2>3 DEF DueAt
  <2>5. DuesAt(r, t) = 0
    <3>1. [u \in Users |-> DueAt(r, u, t)] = [u \in Users |-> 0]
      BY <2>4
    <3> QED
      BY <3>1, UsersAssumption, SumZero DEF DuesAt
  <2>6. ToCome(r) = 0
    BY <2>2 DEF ToCome
  <2>7. PromisedAt(r, t) = 0
    BY <2>2, <2>3, <2>5, <2>6 DEF PromisedAt
  <2>8. PromisedAt(r, t) <= r.accounted * PRECISION + RPT_SCALE * r.last_update
    BY <2>2, <2>3, <2>7
  <2> QED
    BY <2>1, <2>2, <2>8 DEF Covered, Settleable, r
<1> QED
  BY <1>1, <1>2 DEF Ledger

\* Everything the contract promised its stakers is covered by what it took in,
\* up to the rounding of one unit per second of accrual (RevenueV2.sol _accrue,
\* _startStream, _sync, claim, emergency_withdraw).
THEOREM RewardsAreSolvent == Spec => []RewardSolvency
<1>1. Spec => [](IInv /\ Ledger)
  <2>1. Init => IInv /\ Ledger
    BY InitInv, InitLedger
  <2>2. (IInv /\ Ledger) /\ [Next]_vars => (IInv /\ Ledger)'
    BY NextInv, NextLedger
  <2> QED
    BY <2>1, <2>2, PTL DEF Spec
<1>2. IInv /\ Ledger => RewardSolvency
  <2> SUFFICES ASSUME IInv, Ledger, NEW t \in RewardTokens
               PROVE  Promised(t) <= reward_data[t].accounted * PRECISION + RPT_SCALE * now
    BY DEF RewardSolvency
  <2> DEFINE r == reward_data[t]
  <2>1. Covered(r, t) /\ r \in RewardData /\ TypeOK
    BY DEF IInv, Ledger, Covered
  <2>2. /\ now \in Nat /\ r.last_update \in Nat /\ r.last_update <= now /\ r.accounted \in Nat
        /\ RPT_SCALE \in Nat /\ PRECISION \in Nat
    BY <2>1, PrecisionPos, ScaleAssumption DEF Covered, RewardData, TypeOK
  <2>3. RPT_SCALE * now >= RPT_SCALE * r.last_update
    <3>1. r.last_update # now => RPT_SCALE * now >= RPT_SCALE * r.last_update + RPT_SCALE
      BY <2>2, SlackGrows
    <3>2. RPT_SCALE * now \in Nat /\ RPT_SCALE * r.last_update \in Nat
      BY <2>2
    <3> QED
      BY <3>1, <3>2, <2>2
  <2>4. /\ PromisedAt(r, t) \in Int /\ r.accounted * PRECISION \in Int
        /\ RPT_SCALE * now \in Int /\ RPT_SCALE * r.last_update \in Int
    BY <2>1, <2>2, DueInt
  <2>5. PromisedAt(r, t) <= r.accounted * PRECISION + RPT_SCALE * r.last_update
    BY <2>1 DEF Covered
  <2>6. Promised(t) = PromisedAt(r, t)
    BY PromisedIs
  <2> HIDE DEF r
  <2>7. Promised(t) <= r.accounted * PRECISION + RPT_SCALE * now
    BY <2>3, <2>4, <2>5, <2>6
  <2> QED
    BY <2>7 DEF r
<1> QED
  BY <1>1, <1>2, PTL

-----------------------------------------------------------------------------
(* Earnings follow the clock.                                              *)

FollowsTime ==
    \A u \in Users, t \in RewardTokens :
      IF now' # now THEN earned(u, t)' >= earned(u, t)
      ELSE \/ earned(u, t)' = earned(u, t)
           \/ /\ earned(u, t)' = 0
              /\ balance'[t] = balance[t] - earned(u, t)
           \/ /\ \E w \in Users : emergency_withdraw(w)
              /\ earned(u, t)' >= IF staked'[u] = 0 THEN owed[u][t] ELSE earned(u, t)

\* The view shows what a settlement at this second would credit.
LEMMA EarnedIs ==
  ASSUME NEW u \in Users, NEW t \in RewardTokens, TypeOK
  PROVE  earned(u, t) = owed[u][t] + Unsettled(u, t, _accrue(reward_data[t]).reward_per_token)
<1> DEFINE r == reward_data[t]
           end == _min(now, r.period_finish)
<1>1. r \in RewardData /\ end \in Nat /\ r.last_update \in Nat /\ total_staked \in Nat
  BY DEF TypeOK, RewardData, _min
<1>2. CASE end <= r.last_update
  BY <1>1, <1>2 DEF earned, _accrue
<1>3. CASE end > r.last_update /\ total_staked = 0
  <2>1. _accrue(r) = [r EXCEPT !.queued = @ + Released(r), !.last_update = end]
    BY <1>1, <1>3 DEF _accrue
  <2>2. _accrue(r).reward_per_token = r.reward_per_token
    BY <1>1, <2>1, Zenon DEF RewardData
  <2> QED
    BY <1>3, <2>2 DEF earned
<1>4. CASE end > r.last_update /\ total_staked # 0
  <2>1. _accrue(r).reward_per_token
        = r.reward_per_token + mulDiv(Released(r), RPT_SCALE, total_staked)
    BY <1>1, <1>4 DEF _accrue, RewardData
  <2> QED
    BY <1>4, <2>1 DEF earned
<1> QED
  BY <1>1, <1>2, <1>3, <1>4

\* Once the record is up to date the view adds nothing to it.
LEMMA EarnedSettled ==
  ASSUME NEW u \in Users, NEW t \in RewardTokens, TypeOK', UpToDate(reward_data[t])'
  PROVE  earned(u, t)' = owed'[u][t] +
           mulDiv(staked'[u], reward_data'[t].reward_per_token
                              - user_reward_per_token_paid'[u][t], PRECISION)
<1>1. /\ now' \in Nat /\ reward_data'[t].period_finish \in Nat
      /\ reward_data'[t].last_update \in Nat
  BY DEF TypeOK, RewardData
<1>2. ~ (_min(now', reward_data'[t].period_finish) > reward_data'[t].last_update)
  BY <1>1 DEF UpToDate, _min
<1>3. ~ (_min(now, reward_data[t].period_finish) > reward_data[t].last_update)'
  BY <1>2 DEF _min
<1> QED
  BY <1>3 DEF earned, Unsettled

\* Nothing the view reads has changed.
LEMMA EarnedSame ==
  ASSUME NEW u \in Users, NEW t \in RewardTokens, now' = now, total_staked' = total_staked,
         staked'[u] = staked[u], owed'[u][t] = owed[u][t], reward_data'[t] = reward_data[t],
         user_reward_per_token_paid'[u][t] = user_reward_per_token_paid[u][t]
  PROVE  earned(u, t)' = earned(u, t)
BY DEF earned, Unsettled, Released

\* A record that was accrued, taken in to or restarted is up to date and shows
\* the accumulator the view had predicted.
LEMMA StartStreamShows ==
  ASSUME TypeOK, NEW r \in RewardData, UpToDate(r)
  PROVE  UpToDate(_startStream(r)) /\ _startStream(r).reward_per_token = r.reward_per_token
<1> DEFINE pot == r.queued + Remaining(r)
           rate == pot \div reward_duration
           q == [r EXCEPT !.queued = pot - rate * reward_duration, !.rate = rate,
                          !.last_update = now, !.period_finish = now + reward_duration]
<1>1. _startStream(r) = r \/ _startStream(r) = q
  BY DEF _startStream
<1> HIDE DEF pot, rate
<1>2. q.last_update = now /\ now \in Nat
  BY DEF RewardData, TypeOK
<1> HIDE DEF q
<1>3. UpToDate(q)
  BY <1>2 DEF UpToDate
<1> QED
  BY <1>1, <1>3, StartStreamType

LEMMA SyncShows ==
  ASSUME TypeOK, StakesAdd, NEW t \in RewardTokens, NEW r, Covered(r, t), r.listed,
         NEW bal \in Nat, NEW readable \in BOOLEAN
  PROVE  /\ UpToDate(_sync(r, bal, readable))
         /\ _sync(r, bal, readable).reward_per_token = _accrue(r).reward_per_token
<1> DEFINE a == _accrue(r)
<1>1. Covered(a, t) /\ UpToDate(a) /\ a.listed /\ a \in RewardData
  BY AccrueCovers DEF Covered
<1> HIDE DEF a
<1>2. /\ Covered(TakeIn(a, bal), t) /\ UpToDate(TakeIn(a, bal)) /\ TakeIn(a, bal) \in RewardData
  BY <1>1, TakeInCovers DEF Covered
<1>3. TakeIn(a, bal).reward_per_token = a.reward_per_token
  BY <1>1 DEF TakeIn, RewardData
<1>4. CASE readable
  BY <1>2, <1>3, <1>4, StartStreamShows DEF _sync, a
<1>5. CASE ~readable
  BY <1>1, <1>5, StartStreamShows DEF _sync, a
<1> QED
  BY <1>4, <1>5

\* Where everything is settled, mulDiv of nothing is nothing.
LEMMA NothingUnsettled ==
  ASSUME NEW a \in Nat, NEW x \in Nat
  PROVE  mulDiv(a, x - x, PRECISION) = 0
<1>1. a * (x - x) = 0 /\ PRECISION \in Nat \ {0}
  BY PrecisionPos
<1> QED
  BY <1>1 DEF mulDiv

LEMMA CheckpointEarned ==
  ASSUME TypeOK, TypeOK', Ledger, now' = now, NEW w \in Users, _checkpoint(w),
         \A v \in Users \ {w} : staked'[v] = staked[v],
         NEW u \in Users, NEW t \in RewardTokens
  PROVE  earned(u, t)' = earned(u, t)
<1> DEFINE r == reward_data[t]
           q == IF r.listed THEN _startStream(_accrue(r)) ELSE r
<1>1. StakesAdd /\ Covered(r, t) /\ r \in RewardData
  BY DEF Ledger, Covered
<1>2. /\ reward_data'[t] = q
      /\ \A v \in Users \ {w} :
           /\ owed'[v][t] = owed[v][t]
           /\ user_reward_per_token_paid'[v][t] = user_reward_per_token_paid[v][t]
      /\ owed'[w][t] = IF r.listed THEN owed[w][t] + Unsettled(w, t, q.reward_per_token)
                       ELSE owed[w][t]
      /\ user_reward_per_token_paid'[w][t] =
           IF r.listed THEN q.reward_per_token ELSE user_reward_per_token_paid[w][t]
  BY DEF _checkpoint, CanCheckpoint, TypeOK
<1>3. UpToDate(q) /\ q.reward_per_token = _accrue(r).reward_per_token /\ q.reward_per_token \in Nat
  <2>1. CASE r.listed
    <3>1. Covered(_accrue(r), t) /\ UpToDate(_accrue(r)) /\ _accrue(r) \in RewardData
      BY <1>1, <2>1, AccrueCovers DEF Covered
    <3> QED
      BY <2>1, <3>1, StartStreamShows DEF RewardData
  <2>2. CASE ~r.listed
    <3>1. /\ r.period_finish = 0 /\ r.last_update \in Nat /\ r.last_update <= now /\ now \in Nat
          /\ r.reward_per_token \in Nat
      BY <1>1, <2>2 DEF Covered, RewardData, TypeOK
    <3>2. _min(now, r.period_finish) <= r.last_update
      BY <3>1 DEF _min
    <3>3. _accrue(r) = r
      BY <3>1, <3>2 DEF _accrue, _min
    <3> QED
      BY <2>2, <3>1, <3>3 DEF UpToDate
  <2> QED
    BY <2>1, <2>2
<1>4. earned(u, t) = owed[u][t] + Unsettled(u, t, q.reward_per_token)
  BY <1>3, EarnedIs
<1> HIDE DEF q
<1>5. UpToDate(reward_data[t])'
  BY <1>2, <1>3 DEF UpToDate
<1>6. earned(u, t)' = owed'[u][t] +
           mulDiv(staked'[u], q.reward_per_token - user_reward_per_token_paid'[u][t], PRECISION)
  BY <1>2, <1>5, EarnedSettled
<1>7. CASE u # w
  BY <1>2, <1>4, <1>6, <1>7 DEF Unsettled
<1>8. CASE u = w /\ r.listed
  <2>1. /\ owed[u][t] \in Nat /\ Unsettled(u, t, q.reward_per_token) \in Nat /\ staked'[u] \in Nat
    <3>1. Settleable(u, t, q.reward_per_token)
      BY <1>8 DEF _checkpoint, CanCheckpoint, q
    <3> QED
      BY <3>1, <1>3, UnsettledNat DEF TypeOK
  <2>2. mulDiv(staked'[u], q.reward_per_token - q.reward_per_token, PRECISION) = 0
    BY <2>1, <1>3, NothingUnsettled
  <2> QED
    BY <1>2, <1>4, <1>6, <1>8, <2>1, <2>2
<1>9. CASE u = w /\ ~r.listed
  <2>1. q.reward_per_token = 0 /\ user_reward_per_token_paid[u][t] = 0
    BY <1>1, <1>9 DEF Covered, Settleable, q, TypeOK
  <2>2. staked'[u] \in Nat /\ staked[u] \in Nat
    BY DEF TypeOK
  <2>3. /\ mulDiv(staked[u], 0 - 0, PRECISION) = 0
        /\ mulDiv(staked'[u], 0 - 0, PRECISION) = 0
    BY <2>2, NothingUnsettled
  <2> QED
    BY <1>2, <1>4, <1>6, <1>9, <2>1, <2>3 DEF Unsettled
<1> QED
  BY <1>7, <1>8, <1>9

LEMMA SyncEarned ==
  ASSUME IInv, IInv', Ledger, NEW token \in RewardTokens, sync(token),
         NEW u \in Users, NEW t \in RewardTokens
  PROVE  earned(u, t)' = earned(u, t)
<1>1. /\ now' = now /\ staked' = staked /\ total_staked' = total_staked /\ owed' = owed
      /\ user_reward_per_token_paid' = user_reward_per_token_paid /\ reward_data[token].listed
  BY DEF sync, stakeVars
<1>2. TypeOK /\ TypeOK' /\ StakesAdd /\ Covered(reward_data[t], t) /\ balance[token] \in Nat
  BY DEF IInv, TypeOK, Ledger, Tokens
<1>3. PICK readable \in BOOLEAN :
        reward_data' = [reward_data EXCEPT ![token] = _sync(@, balance[token], readable)]
  BY DEF sync
<1>4. CASE t # token
  <2>1. reward_data'[t] = reward_data[t]
    BY <1>2, <1>3, <1>4 DEF TypeOK
  <2> QED
    BY <1>1, <2>1, EarnedSame
<1>5. CASE t = token
  <2> DEFINE q == _sync(reward_data[t], balance[t], readable)
  <2>1. reward_data'[t] = q
    BY <1>2, <1>3, <1>5 DEF TypeOK
  <2>2. UpToDate(q) /\ q.reward_per_token = _accrue(reward_data[t]).reward_per_token
    BY <1>1, <1>2, <1>5, SyncShows
  <2> HIDE DEF q
  <2>3. UpToDate(reward_data[t])'
    BY <1>1, <2>1, <2>2 DEF UpToDate
  <2>4. earned(u, t)' = owed[u][t] +
          mulDiv(staked[u], q.reward_per_token - user_reward_per_token_paid[u][t], PRECISION)
    BY <1>1, <1>2, <2>1, <2>3, EarnedSettled
  <2>5. earned(u, t) = owed[u][t] + Unsettled(u, t, q.reward_per_token)
    BY <1>2, <2>2, EarnedIs
  <2> QED
    BY <2>4, <2>5 DEF Unsettled
<1> QED
  BY <1>4, <1>5

\* A claim pays the claimer what the view showed, and nobody else is touched.
LEMMA ClaimEarned ==
  ASSUME IInv, IInv', Ledger, now' = now, UNCHANGED stakeVars,
         NEW w \in Users, NEW token \in RewardTokens, ClaimOne(w, token),
         NEW u \in Users, NEW t \in RewardTokens
  PROVE  \/ earned(u, t)' = earned(u, t)
         \/ earned(u, t)' = 0 /\ balance'[t] = balance[t] - earned(u, t)
<1>1. TypeOK /\ TypeOK' /\ StakesAdd /\ staked' = staked /\ total_staked' = total_staked
      /\ Covered(reward_data[t], t) /\ balance[t] \in Nat
  BY DEF IInv, TypeOK, Ledger, stakeVars, Tokens
<1>2. PICK readable \in BOOLEAN :
        LET r      == _sync(reward_data[token], balance[token], readable)
            amount == owed[w][token] + Unsettled(w, token, r.reward_per_token)
        IN  /\ reward_data[token].listed
            /\ Settleable(w, token, r.reward_per_token)
            /\ reward_data' = [reward_data EXCEPT ![token] = [r EXCEPT !.accounted = @ - amount]]
            /\ user_reward_per_token_paid' =
                 [user_reward_per_token_paid EXCEPT ![w][token] = r.reward_per_token]
            /\ owed' = [owed EXCEPT ![w][token] = 0]
            /\ IF amount = 0 THEN UNCHANGED balance /\ open' = FALSE
                             ELSE TransferOut(token, amount)
  BY DEF ClaimOne, CanClaimOne
<1> DEFINE r == _sync(reward_data[token], balance[token], readable)
           amount == owed[w][token] + Unsettled(w, token, r.reward_per_token)
           p == [r EXCEPT !.accounted = @ - amount]
<1>3. /\ reward_data[token].listed
      /\ Settleable(w, token, r.reward_per_token)
      /\ reward_data' = [reward_data EXCEPT ![token] = p]
      /\ user_reward_per_token_paid' =
           [user_reward_per_token_paid EXCEPT ![w][token] = r.reward_per_token]
      /\ owed' = [owed EXCEPT ![w][token] = 0]
      /\ IF amount = 0 THEN UNCHANGED balance /\ open' = FALSE
                       ELSE TransferOut(token, amount)
  BY <1>2
<1>4. CASE t # token
  <2> HIDE DEF r, amount, p
  <2>1. reward_data'[t] = reward_data[t]
    BY <1>1, <1>3, <1>4 DEF TypeOK
  <2>2. owed'[u][t] = owed[u][t]
    BY <1>1, <1>3, <1>4 DEF TypeOK
  <2>3. user_reward_per_token_paid'[u][t] = user_reward_per_token_paid[u][t]
    BY <1>1, <1>3, <1>4 DEF TypeOK
  <2> QED
    BY <1>1, <2>1, <2>2, <2>3, EarnedSame
<1>5. CASE t = token
  <2>1. /\ UpToDate(r) /\ r.reward_per_token = _accrue(reward_data[t]).reward_per_token
        /\ r \in RewardData
    BY <1>1, <1>3, <1>5, SyncShows, SyncCovers DEF Covered
  <2> HIDE DEF r
  <2>2. p.reward_per_token = r.reward_per_token /\ UpToDate(p) /\ r.reward_per_token \in Nat
    BY <2>1 DEF UpToDate, RewardData
  <2>3. amount \in Nat
    <3>1. Unsettled(w, token, r.reward_per_token) \in Nat
      BY <1>1, <1>3, <2>2, UnsettledNat
    <3>2. owed[w][token] \in Nat
      BY <1>1 DEF TypeOK
    <3> QED
      BY <3>1, <3>2
  <2> HIDE DEF amount, p
  <2>4. reward_data'[t] = p
    BY <1>1, <1>3, <1>5 DEF TypeOK
  <2>5. UpToDate(reward_data[t])'
    BY <2>2, <2>4 DEF UpToDate
  <2>6. earned(u, t)' = owed'[u][t] +
          mulDiv(staked[u], r.reward_per_token - user_reward_per_token_paid'[u][t], PRECISION)
    BY <1>1, <2>2, <2>4, <2>5, EarnedSettled
  <2>7. earned(u, t) = owed[u][t] + Unsettled(u, t, r.reward_per_token)
    BY <1>1, <2>1, EarnedIs
  <2>8. CASE u # w
    <3>1. owed'[u][t] = owed[u][t]
      BY <1>1, <1>3, <2>8 DEF TypeOK
    <3>2. user_reward_per_token_paid'[u][t] = user_reward_per_token_paid[u][t]
      BY <1>1, <1>3, <2>8 DEF TypeOK
    <3> QED
      BY <2>6, <2>7, <3>1, <3>2 DEF Unsettled
  <2>9. CASE u = w
    <3>1. owed'[u][t] = 0 /\ user_reward_per_token_paid'[u][t] = r.reward_per_token
      BY <1>1, <1>3, <1>5, <2>9 DEF TypeOK
    <3>2. mulDiv(staked[u], r.reward_per_token - r.reward_per_token, PRECISION) = 0
      BY <1>1, <2>2, NothingUnsettled DEF TypeOK
    <3>3. earned(u, t)' = 0
      BY <2>6, <3>1, <3>2
    <3>4. earned(u, t) = amount
      BY <1>5, <2>7, <2>9 DEF amount
    <3>5. balance'[t] = balance[t] - amount
      <4>1. CASE amount = 0
        BY <4>1, <1>1, <1>3
      <4>2. CASE amount # 0
        <5>1. balance' = [balance EXCEPT ![t] = @ - amount] /\ balance \in [Tokens -> Nat] /\ t \in Tokens
          BY <4>2, <1>1, <1>3, <1>5 DEF TransferOut, TypeOK, Tokens
        <5> QED
          BY <5>1
      <4> QED
        BY <4>1, <4>2
    <3> QED
      BY <3>3, <3>4, <3>5
  <2> QED
    BY <2>8, <2>9
<1> QED
  BY <1>4, <1>5

\* Nothing was earned of a token that is listed only now.
LEMMA AddEarned ==
  ASSUME IInv, IInv', Ledger, NEW token \in RewardTokens, add_reward_token(token),
         NEW u \in Users, NEW t \in RewardTokens
  PROVE  earned(u, t)' = earned(u, t)
<1> DEFINE r == reward_data[token]
           q == [r EXCEPT !.listed = TRUE, !.last_update = now]
<1>1. /\ now' = now /\ staked' = staked /\ total_staked' = total_staked /\ owed' = owed
      /\ user_reward_per_token_paid' = user_reward_per_token_paid /\ ~r.listed
      /\ reward_data' = [reward_data EXCEPT ![token].listed = TRUE,
                                            ![token].last_update = now]
  BY DEF add_reward_token, stakeVars
<1>2. TypeOK /\ TypeOK' /\ now \in Nat
  BY DEF IInv, TypeOK
<1>3. reward_data' = [reward_data EXCEPT ![token] = q]
  BY <1>1, <1>2, Zenon DEF TypeOK
<1>4. Covered(r, token) /\ r \in RewardData /\ r.last_update \in Nat /\ r.period_finish = 0
  BY <1>1 DEF Ledger, Covered, RewardData
<1>5. q.reward_per_token = r.reward_per_token /\ q.last_update = now
  BY <1>4 DEF RewardData
<1> HIDE DEF q
<1>6. CASE t # token
  <2>1. reward_data'[t] = reward_data[t]
    BY <1>2, <1>3, <1>6 DEF TypeOK
  <2> QED
    BY <1>1, <2>1, EarnedSame
<1>7. CASE t = token
  <2>1. reward_data'[t] = q
    BY <1>2, <1>3, <1>7 DEF TypeOK
  <2>2. UpToDate(reward_data[t])'
    BY <1>1, <1>2, <1>5, <2>1 DEF UpToDate
  <2>3. earned(u, t)' = owed[u][t] +
          mulDiv(staked[u], r.reward_per_token - user_reward_per_token_paid[u][t], PRECISION)
    <3>1. earned(u, t)' = owed'[u][t] +
            mulDiv(staked'[u], reward_data'[t].reward_per_token
                               - user_reward_per_token_paid'[u][t], PRECISION)
      BY <1>2, <2>2, EarnedSettled
    <3> QED
      BY <3>1, <1>1, <1>5, <2>1
  <2>4. _accrue(r).reward_per_token = r.reward_per_token
    BY <1>2, <1>4 DEF _accrue, _min
  <2>5. earned(u, t) = owed[u][t] + Unsettled(u, t, r.reward_per_token)
    BY <1>2, <1>7, <2>4, EarnedIs
  <2> QED
    BY <2>3, <2>5 DEF Unsettled
<1> QED
  BY <1>6, <1>7

\* Division is monotone in its dividend and antitone in its divisor.
LEMMA DivMono ==
  ASSUME NEW x \in Nat, NEW y \in Nat, NEW b \in Nat \ {0}, NEW c \in Nat \ {0},
         x <= y, c <= b
  PROVE  x \div b <= y \div c
<1> DEFINE m == x \div b
           n == y \div c
<1>1. m \in Nat /\ n \in Nat /\ m * b <= x /\ y < c * n + c
  BY DivNat, DivRest
<1> HIDE DEF m, n
<1>2. SUFFICES ASSUME m > n PROVE FALSE
  BY <1>1 DEF m, n
<1>3. m * c <= m * b
  <2>1. m * (b - c) \in Nat
    BY <1>1
  <2>2. m * (b - c) = m * b - m * c
    BY <1>1
  <2>3. m * b \in Nat /\ m * c \in Nat
    BY <1>1
  <2> QED
    BY <2>1, <2>2, <2>3
<1>4. c * m >= c * n + c /\ c * m \in Nat /\ c * n \in Nat
  BY <1>1, <1>2, SlackGrows
<1>5. c * m = m * c /\ m * b \in Nat
  BY <1>1
<1> QED
  BY <1>1, <1>3, <1>4, <1>5

LEMMA mulDivMono ==
  ASSUME NEW a \in Nat, NEW x \in Nat, NEW y \in Nat, NEW b \in Nat \ {0}, NEW c \in Nat \ {0},
         x <= y, c <= b
  PROVE  mulDiv(a, x, b) <= mulDiv(a, y, c) /\ mulDiv(x, a, b) <= mulDiv(y, a, c)
<1>1. a * x \in Nat /\ a * y \in Nat /\ a * x <= a * y
  <2>1. a * (y - x) \in Nat
    OBVIOUS
  <2>2. a * (y - x) = a * y - a * x
    OBVIOUS
  <2>3. a * x \in Nat /\ a * y \in Nat
    OBVIOUS
  <2> QED
    BY <2>1, <2>2, <2>3
<1>2. x * a = a * x /\ y * a = a * y
  OBVIOUS
<1> QED
  BY <1>1, <1>2, DivMono DEF mulDiv

\* An emergency exit leaves the others at least what they had: the stream's
\* release is shared by fewer.
LEMMA EmergencyEarned ==
  ASSUME IInv, IInv', Ledger, Ledger', NEW w \in Users, emergency_withdraw(w),
         NEW u \in Users, NEW t \in RewardTokens
  PROVE  earned(u, t)' >= IF staked'[u] = 0 THEN owed[u][t] ELSE earned(u, t)
<1> DEFINE r == reward_data[t]
           end == _min(now, r.period_finish)
           paid == user_reward_per_token_paid[u][t]
           rise(total) == IF end > r.last_update /\ total # 0
                          THEN mulDiv(Released(r), RPT_SCALE, total) ELSE 0
<1>1. TypeOK /\ TypeOK' /\ StakesAdd' /\ Covered(r, t) /\ r \in RewardData
      /\ now' = now /\ owed' = owed
      /\ staked' = [staked EXCEPT ![w] = 0] /\ total_staked' = total_staked - staked[w]
  BY DEF IInv, Ledger, Covered, emergency_withdraw, LeaveWith, CanLeave
<1>2. /\ staked[u] \in Nat /\ staked'[u] \in Nat /\ staked[w] \in Nat /\ total_staked \in Nat
      /\ total_staked' \in Nat /\ paid \in Nat /\ owed[u][t] \in Nat /\ now \in Nat
      /\ r.reward_per_token \in Nat /\ r.last_update \in Nat /\ r.rate \in Nat
      /\ end \in Nat /\ paid <= r.reward_per_token
      /\ PRECISION \in Nat \ {0} /\ RPT_SCALE \in Nat
  BY <1>1, PrecisionPos, ScaleAssumption DEF TypeOK, RewardData, _min, Covered, Settleable
<1>3. reward_data'[t] = Forfeit(w, t)
  BY <1>1 DEF emergency_withdraw, TypeOK
<1>4. /\ reward_data'[t].reward_per_token = r.reward_per_token
      /\ reward_data'[t].last_update = r.last_update /\ reward_data'[t].rate = r.rate
      /\ reward_data'[t].period_finish = r.period_finish
  BY <1>1, <1>3 DEF Forfeit, RewardData
<1>5. end > r.last_update => Released(r) \in Nat
  <2>1. CASE end > r.last_update
    <3>1. end - r.last_update \in Nat
      BY <1>2, <2>1
    <3> QED
      BY <3>1, <1>2 DEF Released
  <2> QED
    BY <2>1
<1>6. Released(reward_data[t])' = Released(r)
  BY <1>1, <1>4 DEF Released, _min
<1>7. earned(u, t) = owed[u][t] + mulDiv(staked[u], (r.reward_per_token + rise(total_staked)) - paid, PRECISION)
  <2>1. earned(u, t) = owed[u][t] + mulDiv(staked[u],
           (IF end > r.last_update /\ total_staked # 0
            THEN r.reward_per_token + mulDiv(Released(r), RPT_SCALE, total_staked)
            ELSE r.reward_per_token) - paid, PRECISION)
    BY DEF earned, Unsettled
  <2> QED
    BY <2>1, <1>2
<1>8. earned(u, t)' = owed[u][t] + mulDiv(staked'[u],
        (r.reward_per_token + rise(total_staked')) - user_reward_per_token_paid'[u][t], PRECISION)
  <2>1. _min(now, reward_data[t].period_finish)' = end
    BY <1>1, <1>4 DEF _min
  <2>2. earned(u, t)' = owed'[u][t] + mulDiv(staked'[u],
           (IF end > r.last_update /\ total_staked' # 0
            THEN r.reward_per_token + mulDiv(Released(r), RPT_SCALE, total_staked')
            ELSE r.reward_per_token) - user_reward_per_token_paid'[u][t], PRECISION)
    BY <2>1, <1>4, <1>6 DEF earned, Unsettled, mulDiv
  <2> QED
    BY <2>2, <1>1, <1>2
<1>9. /\ rise(total_staked) \in Nat /\ rise(total_staked') \in Nat
      /\ total_staked' # 0 => rise(total_staked) <= rise(total_staked')
  <2>1. CASE end > r.last_update
    <3>1. Released(r) \in Nat
      BY <1>5, <2>1
    <3>2. total_staked # 0 => mulDiv(Released(r), RPT_SCALE, total_staked) \in Nat
      BY <1>2, <3>1, mulDivNat
    <3>3. total_staked' # 0 => mulDiv(Released(r), RPT_SCALE, total_staked') \in Nat
      BY <1>2, <3>1, mulDivNat
    <3>4. total_staked' # 0 =>
            mulDiv(Released(r), RPT_SCALE, total_staked) <= mulDiv(Released(r), RPT_SCALE, total_staked')
      <4>1. total_staked' <= total_staked
        BY <1>1, <1>2
      <4> QED
        BY <1>2, <3>1, <4>1, mulDivMono
    <3>5. total_staked' # 0 => total_staked # 0
      BY <1>1, <1>2
    <3> QED
      BY <2>1, <3>2, <3>3, <3>4, <3>5
  <2>2. CASE ~(end > r.last_update)
    BY <2>2
  <2> QED
    BY <2>1, <2>2
<1> HIDE DEF rise, end, r, paid
<1>10. CASE staked'[u] = 0
  <2>1. user_reward_per_token_paid'[u][t] \in Nat
    BY <1>1 DEF TypeOK
  <2>2. mulDiv(0, (r.reward_per_token + rise(total_staked')) - user_reward_per_token_paid'[u][t], PRECISION) = 0
    BY <2>1, <1>2, <1>9 DEF mulDiv
  <2> QED
    BY <1>2, <1>8, <1>10, <2>2
<1>11. CASE staked'[u] # 0
  <2>1. u # w /\ staked'[u] = staked[u]
    BY <1>1, <1>11 DEF TypeOK
  <2>2. user_reward_per_token_paid'[u][t] = paid
    BY <1>1, <2>1 DEF emergency_withdraw, TypeOK, paid
  <2>3. total_staked' # 0
    <3>1. staked'[u] <= SumFunctionOnSet(staked', Users)
      BY <1>1, UsersAssumption, SumBounds DEF TypeOK
    <3> QED
      BY <3>1, <1>1, <1>2, <1>11 DEF StakesAdd
  <2>4. /\ (r.reward_per_token + rise(total_staked)) - paid \in Nat
        /\ (r.reward_per_token + rise(total_staked')) - paid \in Nat
        /\ (r.reward_per_token + rise(total_staked)) - paid
             <= (r.reward_per_token + rise(total_staked')) - paid
    BY <2>3, <1>2, <1>9
  <2>5. mulDiv(staked[u], (r.reward_per_token + rise(total_staked)) - paid, PRECISION)
             <= mulDiv(staked[u], (r.reward_per_token + rise(total_staked')) - paid, PRECISION)
    <3> DEFINE x == (r.reward_per_token + rise(total_staked)) - paid
               y == (r.reward_per_token + rise(total_staked')) - paid
    <3> HIDE DEF x, y
    <3>1. x \in Nat /\ y \in Nat /\ x <= y
      BY <2>4 DEF x, y
    <3>2. mulDiv(staked[u], x, PRECISION) <= mulDiv(staked[u], y, PRECISION)
      <4>1. staked[u] \in Nat /\ PRECISION \in Nat \ {0} /\ PRECISION <= PRECISION
        BY <1>2
      <4> QED
        BY <3>1, <4>1, mulDivMono
    <3> QED
      BY <3>2 DEF x, y
  <2>6. /\ mulDiv(staked[u], (r.reward_per_token + rise(total_staked)) - paid, PRECISION) \in Nat
        /\ mulDiv(staked[u], (r.reward_per_token + rise(total_staked')) - paid, PRECISION) \in Nat
    BY <2>4, <1>2, mulDivNat
  <2> QED
    BY <1>2, <1>7, <1>8, <1>11, <2>1, <2>2, <2>5, <2>6
<1> QED
  BY <1>10, <1>11

\* A second later everybody has earned at least as much.
LEMMA TickEarned ==
  ASSUME IInv, Ledger, Tick, NEW u \in Users, NEW t \in RewardTokens
  PROVE  earned(u, t)' >= earned(u, t)
<1> DEFINE r == reward_data[t]
           paid == user_reward_per_token_paid[u][t]
           gone(s) == _min(s, r.period_finish) - r.last_update
           view(s) == r.reward_per_token +
                        (IF gone(s) > 0 /\ total_staked # 0
                         THEN mulDiv(r.rate * gone(s), RPT_SCALE, total_staked) ELSE 0)
<1>1. /\ TypeOK /\ Covered(r, t) /\ r \in RewardData /\ now' = now + 1
      /\ total_staked' = total_staked /\ staked' = staked /\ owed' = owed
      /\ reward_data' = reward_data /\ user_reward_per_token_paid' = user_reward_per_token_paid
  BY DEF IInv, Ledger, Covered, Tick, stakeVars, rewardVars
<1>2. /\ staked[u] \in Nat /\ total_staked \in Nat /\ paid \in Nat /\ owed[u][t] \in Nat
      /\ now \in Nat /\ r.reward_per_token \in Nat /\ r.last_update \in Nat /\ r.rate \in Nat
      /\ r.period_finish \in Nat /\ paid <= r.reward_per_token
      /\ PRECISION \in Nat \ {0} /\ RPT_SCALE \in Nat
  BY <1>1, PrecisionPos, ScaleAssumption DEF TypeOK, RewardData, Covered, Settleable
<1>3. gone(now) \in Int /\ gone(now') \in Int /\ gone(now) <= gone(now')
  BY <1>1, <1>2 DEF _min
<1>4. _min(now, r.period_finish) > r.last_update <=> gone(now) > 0
  BY <1>2 DEF _min
<1>5. earned(u, t) = owed[u][t] + mulDiv(staked[u], view(now) - paid, PRECISION)
  <2>1. earned(u, t) = owed[u][t] + mulDiv(staked[u],
          (IF gone(now) > 0 /\ total_staked # 0
           THEN r.reward_per_token + mulDiv(r.rate * gone(now), RPT_SCALE, total_staked)
           ELSE r.reward_per_token) - paid, PRECISION)
    BY <1>4 DEF earned, Unsettled, Released
  <2> QED
    BY <2>1, <1>2
<1>6. earned(u, t)' = owed[u][t] + mulDiv(staked[u], view(now') - paid, PRECISION)
  <2>1. _min(now', r.period_finish) > r.last_update <=> gone(now') > 0
    BY <1>1, <1>2 DEF _min
  <2>2. _min(now, reward_data[t].period_finish)' = _min(now', r.period_finish)
    BY <1>1 DEF _min
  <2>3. Released(reward_data[t])' = r.rate * gone(now')
    BY <1>1 DEF Released, _min
  <2>4. earned(u, t)' = owed[u][t] + mulDiv(staked[u],
          (IF gone(now') > 0 /\ total_staked # 0
           THEN r.reward_per_token + mulDiv(r.rate * gone(now'), RPT_SCALE, total_staked)
           ELSE r.reward_per_token) - paid, PRECISION)
    BY <1>1, <2>1, <2>2, <2>3 DEF earned, Unsettled, mulDiv
  <2> QED
    BY <2>4, <1>2
<1> HIDE DEF r, paid, gone
<1>7. view(now) \in Nat /\ view(now') \in Nat /\ view(now) <= view(now') /\ r.reward_per_token <= view(now)
  <2>1. CASE gone(now') > 0 /\ total_staked # 0
    <3>1. r.rate * gone(now') \in Nat
      BY <2>1, <1>2, <1>3
    <3>2. mulDiv(r.rate * gone(now'), RPT_SCALE, total_staked) \in Nat
      BY <2>1, <3>1, <1>2, mulDivNat
    <3>3. CASE gone(now) > 0
      <4>1. r.rate * gone(now) \in Nat /\ r.rate * gone(now) <= r.rate * gone(now')
        <5>1. /\ r.rate * gone(now) \in Nat /\ r.rate * (gone(now') - gone(now)) \in Nat
              /\ r.rate * (gone(now') - gone(now)) = r.rate * gone(now') - r.rate * gone(now)
          BY <1>2, <1>3, <3>3
        <5> QED
          BY <5>1, <3>1
      <4>2. mulDiv(r.rate * gone(now), RPT_SCALE, total_staked) \in Nat
        BY <2>1, <4>1, <1>2, mulDivNat
      <4>3. mulDiv(r.rate * gone(now), RPT_SCALE, total_staked)
              <= mulDiv(r.rate * gone(now'), RPT_SCALE, total_staked)
        BY <2>1, <3>1, <4>1, <1>2, mulDivMono
      <4> QED
        BY <2>1, <3>2, <3>3, <4>2, <4>3, <1>2
    <3>4. CASE ~(gone(now) > 0)
      BY <2>1, <3>2, <3>4, <1>2
    <3> QED
      BY <3>3, <3>4
  <2>2. CASE ~(gone(now') > 0 /\ total_staked # 0)
    BY <2>2, <1>2, <1>3
  <2> QED
    BY <2>1, <2>2
<1> HIDE DEF view
<1>8. view(now) - paid \in Nat /\ view(now') - paid \in Nat /\ view(now) - paid <= view(now') - paid
  BY <1>2, <1>7
<1>9. mulDiv(staked[u], view(now) - paid, PRECISION) <= mulDiv(staked[u], view(now') - paid, PRECISION)
  BY <1>2, <1>8, mulDivMono
<1>10. /\ mulDiv(staked[u], view(now) - paid, PRECISION) \in Nat
       /\ mulDiv(staked[u], view(now') - paid, PRECISION) \in Nat
  BY <1>2, <1>8, mulDivNat
<1> QED
  BY <1>2, <1>5, <1>6, <1>9, <1>10

LEMMA NextFollows == IInv /\ IInv' /\ Ledger /\ Ledger' /\ [Next]_vars => [FollowsTime]_vars
<1> SUFFICES ASSUME IInv, IInv', Ledger, Ledger', Next,
                    NEW u \in Users, NEW t \in RewardTokens
             PROVE  IF now' # now THEN earned(u, t)' >= earned(u, t)
                    ELSE \/ earned(u, t)' = earned(u, t)
                         \/ /\ earned(u, t)' = 0
                            /\ balance'[t] = balance[t] - earned(u, t)
                         \/ /\ \E w \in Users : emergency_withdraw(w)
                            /\ earned(u, t)' >= IF staked'[u] = 0 THEN owed[u][t] ELSE earned(u, t)
  BY DEF FollowsTime
<1> DEFINE Goal == \/ earned(u, t)' = earned(u, t)
                   \/ /\ earned(u, t)' = 0
                      /\ balance'[t] = balance[t] - earned(u, t)
                   \/ /\ \E w \in Users : emergency_withdraw(w)
                      /\ earned(u, t)' >= IF staked'[u] = 0 THEN owed[u][t] ELSE earned(u, t)
<1>0. TypeOK /\ TypeOK'
  BY DEF IInv
<1>1. CASE Tick
  <2>1. now' # now
    BY <1>0, <1>1 DEF Tick, TypeOK
  <2> QED
    BY <2>1, <1>1, TickEarned
<1>2. ASSUME NEW w \in Users, StakerStep(w) PROVE now' = now /\ Goal
  <2>1. ASSUME NEW v \in Versions, NEW amount \in StakeAmounts[v],
               stake(w, v, amount) \/ withdraw(w, v, amount)
        PROVE  now' = now /\ Goal
    <3>1. now' = now /\ _checkpoint(w) /\ \A x \in Users \ {w} : staked'[x] = staked[x]
      BY <2>1, <1>0 DEF stake, withdraw, TypeOK
    <3> QED
      BY <3>1, <1>0, CheckpointEarned
  <2>2. CASE withdraw_all(w)
    <3>1. now' = now /\ _checkpoint(w) /\ \A x \in Users \ {w} : staked'[x] = staked[x]
      BY <2>2, <1>0 DEF withdraw_all, LeaveWith, CanLeave, TypeOK
    <3> QED
      BY <3>1, <1>0, CheckpointEarned
  <2>3. CASE emergency_withdraw(w)
    <3>1. now' = now
      BY <2>3 DEF emergency_withdraw, LeaveWith, CanLeave
    <3> QED
      BY <3>1, <2>3, EmergencyEarned
  <2>4. ASSUME NEW tokens \in ClaimLists, claim(w, tokens) PROVE now' = now /\ Goal
    <3>1. Head(tokens) \in RewardTokens /\ now' = now /\ UNCHANGED stakeVars
          /\ ClaimOne(w, Head(tokens))
      BY <2>4, ParameterAssumption DEF claim
    <3> QED
      BY <3>1, ClaimEarned
  <2>5. ASSUME NEW amount \in StakeAmounts[Erc223], tokenReceived(w, amount) \/ withdrawDeposit(w)
        PROVE  now' = now /\ Goal
    <3>1. now' = now /\ UNCHANGED stakeVars /\ UNCHANGED rewardVars
      BY <2>5 DEF tokenReceived, withdrawDeposit
    <3> QED
      BY <3>1, EarnedSame DEF stakeVars, rewardVars
  <2> QED
    BY <1>2, <2>1, <2>2, <2>3, <2>4, <2>5 DEF StakerStep
<1>3. ASSUME OwnerStep PROVE now' = now /\ Goal
  <2>1. ASSUME NEW token \in RewardTokens, add_reward_token(token) PROVE now' = now /\ Goal
    BY <2>1, AddEarned DEF add_reward_token
  <2>2. ASSUME now' = now, UNCHANGED stakeVars, UNCHANGED rewardVars PROVE Goal
    BY <2>2, EarnedSame DEF stakeVars, rewardVars
  <2> QED
    BY <1>3, <2>1, <2>2 DEF OwnerStep, set_claim_delay, sweep, transfer_ownership
<1>4. ASSUME NEW token \in RewardTokens, sync(token) PROVE now' = now /\ Goal
  BY <1>4, SyncEarned DEF sync
<1>5. CASE \/ Return
           \/ \E account \in OwnerCandidates : accept_ownership(account)
           \/ \E token \in Tokens : \E amount \in ArrivalAmounts[token] : Arrive(token, amount)
  <2>1. now' = now /\ UNCHANGED stakeVars /\ UNCHANGED rewardVars
    BY <1>5 DEF Return, accept_ownership, Arrive
  <2> QED
    BY <2>1, EarnedSame DEF stakeVars, rewardVars
<1>6. CASE Continue
  <2> DEFINE item == Head(todo)
  <2>1. /\ locked /\ todo # <<>> /\ todo' = Tail(todo) /\ now' = now
        /\ locked' = locked /\ unlock_time' = unlock_time
    BY <1>6 DEF Continue, stakeVars
  <2>2. item \in Items /\ (item.act = "claim" => item.token \in RewardTokens)
    BY <2>1, TailTodo
  <2>3. item.user \in Users
    BY <2>2 DEF Items
  <2>4. CASE UNCHANGED <<total_staked, staked, unlock_time, rewardVars>>
    BY <2>1, <2>4, EarnedSame DEF rewardVars
  <2>5. CASE /\ item.act = "claim"
             /\ ClaimOne(item.user, item.token)
             /\ UNCHANGED stakeVars
    BY <2>1, <2>2, <2>3, <2>5, ClaimEarned
  <2> QED
    BY <1>6, <2>4, <2>5 DEF Continue
<1> QED
  BY <1>1, <1>2, <1>3, <1>4, <1>5, <1>6 DEF Next

\* At a fixed time no call changes what anybody has earned, a claim pays the
\* claimer exactly that, an emergency exit forfeits only its own unsettled
\* part, and time only adds (RevenueV2.sol earned against _accrue, _checkpoint,
\* claim and emergency_withdraw).
THEOREM EarningsOnlyFollowTime == Spec => EarningsFollowTime
<1>1. Spec => [](IInv /\ Ledger)
  <2>1. Init => IInv /\ Ledger
    BY InitInv, InitLedger
  <2>2. (IInv /\ Ledger) /\ [Next]_vars => (IInv /\ Ledger)'
    BY NextInv, NextLedger
  <2> QED
    BY <2>1, <2>2, PTL DEF Spec
<1>2. [][FollowsTime]_vars => EarningsFollowTime
  BY PTL DEF FollowsTime, EarningsFollowTime
<1> QED
  BY <1>1, <1>2, NextFollows, PTL DEF Spec

-----------------------------------------------------------------------------
(* Nothing blocks an exit or a claim.                                      *)

\* All that is staked in one version, user by user.
PartsOf(v) == [u \in Users |-> staked_by_version[u][v]]
VersionsAdd ==
    \A v \in Versions : SumFunctionOnSet(PartsOf(v), Users) = total_staked_by_version[v]
DepositsAdd == SumFunctionOnSet(erc223deposit, Users) = total_erc223_deposits

\* A stake payout is the last one of its call, and the part it pays is
\* still there.
PayoutAlone ==
    \A i \in 1 .. Len(todo) :
      todo[i].act = "payStake" =>
        /\ Len(todo) = 1
        /\ todo[i].amount <= staked_by_version[todo[i].user][todo[i].token]

ClaimsListed ==
    \A i \in 1 .. Len(todo) :
      todo[i].act = "claim" => reward_data[todo[i].token].listed

InTime == now <= MaxTime
TotalsAdd == VersionsAdd /\ DepositsAdd
Frame == PayoutAlone /\ ClaimsListed
Exits == TotalsAdd /\ Frame /\ InTime

\* The parts of a version still add up when one of them and the total move
\* by the same amount.
LEMMA PartsMove ==
  ASSUME TypeOK, TypeOK', VersionsAdd, NEW u \in Users, NEW v \in Versions, NEW x \in Int,
         \A w \in Users \ {u} : \A z \in Versions :
           staked_by_version'[w][z] = staked_by_version[w][z],
         \A z \in Versions \ {v} :
           /\ staked_by_version'[u][z] = staked_by_version[u][z]
           /\ total_staked_by_version'[z] = total_staked_by_version[z],
         staked_by_version'[u][v] = staked_by_version[u][v] + x,
         total_staked_by_version'[v] = total_staked_by_version[v] + x
  PROVE  VersionsAdd'
<1> SUFFICES ASSUME NEW z \in Versions
             PROVE  SumFunctionOnSet(PartsOf(z)', Users) = total_staked_by_version'[z]
  BY DEF VersionsAdd
<1> DEFINE f == PartsOf(z)
           g == PartsOf(z)'
           k == IF z = v THEN x ELSE 0
<1>1. f \in [Users -> Int] /\ g \in [Users -> Int]
  <2>1. \A w \in Users : staked_by_version[w][z] \in Int /\ staked_by_version'[w][z] \in Int
    BY DEF TypeOK
  <2> QED
    BY <2>1 DEF PartsOf
<1>2. \A w \in Users \ {u} : f[w] = g[w]
  BY DEF PartsOf
<1>3. /\ staked_by_version[u][z] \in Nat /\ total_staked_by_version[z] \in Nat
      /\ f[u] = staked_by_version[u][z] /\ g[u] = staked_by_version'[u][z]
  BY DEF PartsOf, TypeOK
<1>4. /\ k \in Int /\ g[u] = f[u] + k
      /\ total_staked_by_version'[z] = total_staked_by_version[z] + k
  BY <1>3
<1>5. SumFunctionOnSet(f, Users) = total_staked_by_version[z]
  BY DEF VersionsAdd
<1> HIDE DEF f, g, k
<1>6. SumFunctionOnSet(g, Users) = SumFunctionOnSet(f, Users) + g[u] - f[u]
  BY <1>1, <1>2, UsersAssumption, SumChange
<1>7. SumFunctionOnSet(g, Users) = total_staked_by_version'[z]
  BY <1>1, <1>3, <1>4, <1>5, <1>6
<1> QED
  BY <1>7 DEF g

LEMMA DepositsMove ==
  ASSUME TypeOK, TypeOK', DepositsAdd, NEW u \in Users, NEW x,
         erc223deposit' = [erc223deposit EXCEPT ![u] = x],
         total_erc223_deposits' = total_erc223_deposits + x - erc223deposit[u]
  PROVE  DepositsAdd'
<1> DEFINE f == erc223deposit
           g == erc223deposit'
<1>1. f \in [Users -> Int] /\ g \in [Users -> Int]
  BY DEF TypeOK
<1>2. (\A w \in Users \ {u} : f[w] = g[w]) /\ g[u] = x
  BY <1>1
<1>3. SumFunctionOnSet(g, Users) = SumFunctionOnSet(f, Users) + g[u] - f[u]
  <2> HIDE DEF f, g
  <2> QED
    BY <1>1, <1>2, UsersAssumption, SumChange
<1> QED
  BY <1>2, <1>3 DEF DepositsAdd

LEMMA SumsSame ==
  ASSUME TotalsAdd, staked_by_version' = staked_by_version,
         total_staked_by_version' = total_staked_by_version, UNCHANGED depositVars
  PROVE  TotalsAdd'
BY DEF TotalsAdd, VersionsAdd, DepositsAdd, PartsOf, depositVars

\* _payStake takes the same amount off the part and off the total.
LEMMA PayStakeSums ==
  ASSUME TypeOK, TypeOK', TotalsAdd, UNCHANGED depositVars,
         NEW u \in Users, NEW v \in Versions, NEW amount \in Nat, _payStake(u, v, amount)
  PROVE  TotalsAdd'
<1>1. /\ staked_by_version' = [staked_by_version EXCEPT ![u][v] = @ - amount]
      /\ total_staked_by_version' = [total_staked_by_version EXCEPT ![v] = @ - amount]
  BY DEF _payStake
<1>2. staked_by_version[u][v] \in Nat /\ total_staked_by_version[v] \in Nat
  BY DEF TypeOK
<1>3. /\ \A w \in Users \ {u} : \A z \in Versions :
           staked_by_version'[w][z] = staked_by_version[w][z]
      /\ \A z \in Versions \ {v} : staked_by_version'[u][z] = staked_by_version[u][z]
      /\ staked_by_version'[u][v] = staked_by_version[u][v] - amount
  <2>1. staked_by_version \in [Users -> [Versions -> Nat]]
    BY DEF TypeOK
  <2> QED
    BY <1>1, <2>1
<1>4. /\ \A z \in Versions \ {v} : total_staked_by_version'[z] = total_staked_by_version[z]
      /\ total_staked_by_version'[v] = total_staked_by_version[v] - amount
  BY <1>1 DEF TypeOK
<1>5. /\ 0 - amount \in Int
      /\ staked_by_version'[u][v] = staked_by_version[u][v] + (0 - amount)
      /\ total_staked_by_version'[v] = total_staked_by_version[v] + (0 - amount)
  BY <1>2, <1>3, <1>4
<1>6. VersionsAdd'
  BY <1>3, <1>4, <1>5, PartsMove DEF TotalsAdd
<1> QED
  BY <1>6 DEF TotalsAdd, DepositsAdd, depositVars

LEMMA FrameEmpty ==
  ASSUME todo' = <<>>
  PROVE  Frame'
BY DEF Frame, PayoutAlone, ClaimsListed

LEMMA FrameSame ==
  ASSUME IInv, Frame, todo' = todo, staked_by_version' = staked_by_version,
         \A t \in RewardTokens : reward_data[t].listed => reward_data'[t].listed
  PROVE  Frame'
BY DEF Frame, PayoutAlone, ClaimsListed, IInv, ClaimsInRewards

LEMMA StakeExits ==
  ASSUME IInv, IInv', Exits, NEW u \in Users, NEW v \in Versions,
         NEW amount \in StakeAmounts[v], stake(u, v, amount)
  PROVE  Exits'
<1>0. amount \in Nat /\ TypeOK /\ TypeOK'
  BY ParameterAssumption DEF IInv
<1>1. /\ staked_by_version' = [staked_by_version EXCEPT ![u][v] = @ + amount]
      /\ total_staked_by_version' = [total_staked_by_version EXCEPT ![v] = @ + amount]
      /\ now' = now /\ todo' = <<>>
  BY DEF stake, callVars, IInv, NothingLeftIdle
<1>2. VersionsAdd'
  <2>1. staked_by_version[u][v] \in Nat /\ total_staked_by_version[v] \in Nat
    BY <1>0 DEF TypeOK
  <2>2. /\ \A w \in Users \ {u} : \A z \in Versions :
             staked_by_version'[w][z] = staked_by_version[w][z]
        /\ \A z \in Versions \ {v} :
             /\ staked_by_version'[u][z] = staked_by_version[u][z]
             /\ total_staked_by_version'[z] = total_staked_by_version[z]
        /\ staked_by_version'[u][v] = staked_by_version[u][v] + amount
        /\ total_staked_by_version'[v] = total_staked_by_version[v] + amount
    BY <1>0, <1>1, <2>1 DEF TypeOK
  <2> QED
    BY <1>0, <2>2, PartsMove DEF Exits, TotalsAdd
<1>3. DepositsAdd'
  <2>1. erc223deposit[u] \in Nat /\ total_erc223_deposits \in Nat
    BY <1>0 DEF TypeOK
  <2>2. CASE v = Erc223 /\ erc223deposit[u] >= amount
    <3>1. /\ erc223deposit' = [erc223deposit EXCEPT ![u] = erc223deposit[u] - amount]
          /\ total_erc223_deposits' = total_erc223_deposits - amount
      BY <2>2 DEF stake
    <3>2. total_erc223_deposits'
            = total_erc223_deposits + (erc223deposit[u] - amount) - erc223deposit[u]
      BY <3>1, <2>1, <1>0
    <3> QED
      BY <1>0, <3>1, <3>2, DepositsMove DEF Exits, TotalsAdd
  <2>3. CASE ~(v = Erc223 /\ erc223deposit[u] >= amount)
    BY <2>3 DEF stake, depositVars, DepositsAdd, Exits, TotalsAdd
  <2> QED
    BY <2>2, <2>3
<1>4. Frame'
  BY <1>1, FrameEmpty
<1> QED
  BY <1>1, <1>2, <1>3, <1>4 DEF Exits, TotalsAdd, InTime

LEMMA WithdrawExits ==
  ASSUME IInv, IInv', Exits, NEW u \in Users, NEW v \in Versions,
         NEW amount \in StakeAmounts[v], withdraw(u, v, amount)
  PROVE  Exits'
<1>1. /\ amount \in Nat /\ TypeOK /\ TypeOK' /\ now' = now /\ todo' = <<>>
      /\ UNCHANGED depositVars /\ _payStake(u, v, amount)
  BY ParameterAssumption DEF IInv, withdraw
<1> QED
  BY <1>1, PayStakeSums, FrameEmpty DEF Exits, InTime

\* After the ERC-20 part is paid the ERC-223 part waits, untouched.
LEMMA LeaveExits ==
  ASSUME IInv, IInv', Exits, NEW u \in Users, LeaveWith(u)
  PROVE  Exits'
<1> DEFINE part20 == staked_by_version[u][Erc20]
           part223 == staked_by_version[u][Erc223]
           item == PayStakeItem(u, Erc223, part223)
<1>1. /\ TypeOK /\ TypeOK' /\ part20 \in Nat /\ part223 \in Nat
      /\ now' = now /\ UNCHANGED depositVars
  <2>1. TypeOK /\ TypeOK' /\ now' = now /\ UNCHANGED depositVars
    BY DEF IInv, LeaveWith
  <2>2. part20 \in Nat /\ part223 \in Nat
    BY TokenFacts DEF IInv, TypeOK
  <2> QED
    BY <2>1, <2>2
<1>2. \/ _payStake(u, Erc20, part20) /\ todo' = <<item>>
      \/ _payStake(u, Erc20, part20) /\ todo' = <<>>
      \/ _payStake(u, Erc223, part223) /\ todo' = <<>>
  BY DEF LeaveWith
<1>3. TotalsAdd'
  BY <1>1, <1>2, TokenFacts, PayStakeSums DEF Exits
<1>4. CASE _payStake(u, Erc20, part20) /\ todo' = <<item>>
  <2>1. staked_by_version'[u][Erc223] = part223
    BY <1>1, <1>4, TokenFacts DEF _payStake, TypeOK
  <2>2. /\ item.act = "payStake" /\ item.user = u /\ item.token = Erc223
        /\ item.amount = part223
    BY DEF PayStakeItem
  <2> HIDE DEF item
  <2>3. Len(todo') = 1 /\ todo'[1] = item
    BY <1>4
  <2>4. PayoutAlone'
    BY <1>1, <2>1, <2>2, <2>3 DEF PayoutAlone
  <2>5. ClaimsListed'
    BY <2>2, <2>3 DEF ClaimsListed
  <2> QED
    BY <1>1, <1>3, <2>4, <2>5 DEF Exits, Frame, InTime
<1>5. CASE todo' = <<>>
  BY <1>1, <1>3, <1>5, FrameEmpty DEF Exits, InTime
<1> QED
  BY <1>2, <1>4, <1>5

LEMMA ClaimExits ==
  ASSUME IInv, IInv', Exits, NEW u \in Users, NEW tokens \in ClaimLists, claim(u, tokens)
  PROVE  Exits'
<1> DEFINE n == Len(tokens) - 1
<1>1. tokens \in Seq(RewardTokens) /\ tokens # <<>>
  BY ParameterAssumption DEF claim
<1>2. n \in Nat /\ Head(tokens) \in RewardTokens /\ n + 1 = Len(tokens)
      /\ \A i \in 1 .. n : i + 1 \in 1 .. n + 1 /\ tokens[i + 1] \in RewardTokens
  <2>1. Len(tokens) \in Nat /\ Len(tokens) # 0 /\ tokens \in [1 .. Len(tokens) -> RewardTokens]
    BY <1>1
  <2> QED
    BY <2>1, <1>1
<1>3. /\ now' = now /\ UNCHANGED stakeVars /\ UNCHANGED depositVars
      /\ ClaimOne(u, Head(tokens))
      /\ todo' = [i \in 1 .. n |-> ClaimItem(u, tokens[i + 1])]
      /\ \A i \in 1 .. n + 1 : reward_data[tokens[i]].listed
  BY <1>2 DEF claim
<1> HIDE DEF n
<1>4. \A t \in RewardTokens : reward_data'[t].listed = reward_data[t].listed
  BY <1>2, <1>3, ClaimOneType
<1>5. \A i \in 1 .. n : /\ ClaimItem(u, tokens[i + 1]).act = "claim"
                        /\ ClaimItem(u, tokens[i + 1]).token = tokens[i + 1]
  BY DEF ClaimItem
<1>6. Len(todo') = n /\ \A i \in 1 .. n : todo'[i] = ClaimItem(u, tokens[i + 1])
  <2>1. todo' \in Seq(Items)
    BY DEF IInv, TypeOK
  <2>2. DOMAIN todo' = 1 .. n
    BY <1>3
  <2> QED
    BY <1>2, <1>3, <2>1, <2>2
<1>7. PayoutAlone'
  BY <1>5, <1>6 DEF PayoutAlone
<1>8. ClaimsListed'
  <2> SUFFICES ASSUME NEW i \in 1 .. n PROVE reward_data'[todo'[i].token].listed
    BY <1>6 DEF ClaimsListed
  <2>1. todo'[i].token = tokens[i + 1] /\ tokens[i + 1] \in RewardTokens
    BY <1>2, <1>5, <1>6
  <2> QED
    BY <2>1, <1>2, <1>3, <1>4
<1>9. TotalsAdd'
  BY <1>3, SumsSame DEF Exits, stakeVars
<1> QED
  BY <1>3, <1>7, <1>8, <1>9 DEF Exits, Frame, InTime

LEMMA ContinueExits ==
  ASSUME IInv, IInv', Exits, Continue
  PROVE  Exits'
<1> DEFINE item == Head(todo)
<1>1. /\ locked /\ todo # <<>> /\ todo' = Tail(todo) /\ now' = now
      /\ locked' = locked /\ unlock_time' = unlock_time /\ UNCHANGED depositVars
  BY DEF Continue, stakeVars
<1>2. /\ item \in Items /\ (item.act = "claim" => item.token \in RewardTokens)
      /\ (item.act = "payStake" => item.token \in Versions)
  BY <1>1, TailTodo
<1>3. item.user \in Users /\ item.amount \in Nat /\ TypeOK /\ TypeOK'
  BY <1>2 DEF Items, IInv
<1>4. /\ todo \in Seq(Items) /\ Len(todo) \in Nat /\ Len(todo) # 0 /\ 1 \in 1 .. Len(todo)
      /\ item = todo[1] /\ Len(todo') = Len(todo) - 1
      /\ \A i \in 1 .. Len(todo') : todo'[i] = todo[i + 1] /\ i + 1 \in 1 .. Len(todo)
  <2>1. todo \in Seq(Items)
    BY DEF IInv, TypeOK
  <2> QED
    BY <2>1, <1>1
<1> HIDE DEF item
<1>5. CASE item.act = "payStake" /\ _payStake(item.user, item.token, item.amount)
  <2>1. Len(todo) = 1
    BY <1>4, <1>5 DEF Exits, Frame, PayoutAlone
  <2>2. todo' \in Seq(Items) /\ Len(todo') = 0
    BY <1>4, <2>1 DEF IInv, TypeOK
  <2>3. Frame'
    BY <2>2, FrameEmpty
  <2>4. TotalsAdd'
    BY <1>1, <1>2, <1>3, <1>5, PayStakeSums DEF Exits
  <2> QED
    BY <1>1, <2>3, <2>4 DEF Exits, InTime
<1>6. CASE item.act = "claim" /\ ClaimOne(item.user, item.token) /\ UNCHANGED stakeVars
  <2>1. \A t \in RewardTokens : reward_data'[t].listed = reward_data[t].listed
    BY <1>2, <1>3, <1>6, ClaimOneType
  <2>2. TotalsAdd' /\ staked_by_version' = staked_by_version
    BY <1>1, <1>6, SumsSame DEF Exits, stakeVars
  <2>3. PayoutAlone'
    <3> SUFFICES ASSUME NEW i \in 1 .. Len(todo'), todo'[i].act = "payStake" PROVE FALSE
      BY DEF PayoutAlone
    <3>1. Len(todo) = 1
      BY <1>4 DEF Exits, Frame, PayoutAlone
    <3> QED
      BY <3>1, <1>4
  <2>4. ClaimsListed'
    <3> SUFFICES ASSUME NEW i \in 1 .. Len(todo'), todo'[i].act = "claim"
                 PROVE  reward_data'[todo'[i].token].listed
      BY DEF ClaimsListed
    <3>1. reward_data[todo[i + 1].token].listed /\ todo[i + 1].token \in RewardTokens
      BY <1>4 DEF Exits, Frame, ClaimsListed, IInv, ClaimsInRewards
    <3> QED
      BY <3>1, <2>1, <1>4
  <2> QED
    BY <1>1, <2>2, <2>3, <2>4 DEF Exits, Frame, InTime
<1> QED
  BY <1>5, <1>6 DEF Continue, item

\* Steps that leave stakes and deposits alone and no payout to come behind.
LEMMA QuietExits ==
  ASSUME IInv, Exits, now' = now, UNCHANGED stakeVars, UNCHANGED depositVars,
         \/ todo' = <<>>
         \/ /\ todo' = todo
            /\ \A t \in RewardTokens : reward_data[t].listed => reward_data'[t].listed
  PROVE  Exits'
<1>1. TotalsAdd'
  BY SumsSame DEF Exits, stakeVars
<1>2. Frame'
  BY FrameEmpty, FrameSame DEF Exits, stakeVars
<1> QED
  BY <1>1, <1>2 DEF Exits, InTime

LEMMA DepositExits ==
  ASSUME IInv, IInv', Exits, NEW u \in Users,
         \/ \E amount \in StakeAmounts[Erc223] : tokenReceived(u, amount)
         \/ withdrawDeposit(u)
  PROVE  Exits'
<1>1. TypeOK /\ TypeOK' /\ erc223deposit[u] \in Nat /\ total_erc223_deposits \in Nat
  BY DEF IInv, TypeOK
<1>2. /\ now' = now /\ UNCHANGED stakeVars /\ todo' = <<>>
  BY DEF tokenReceived, withdrawDeposit, callVars, IInv, NothingLeftIdle
<1>3. PICK x \in Nat :
        /\ erc223deposit' = [erc223deposit EXCEPT ![u] = x]
        /\ total_erc223_deposits' = total_erc223_deposits + x - erc223deposit[u]
  <2>1. ASSUME NEW amount \in StakeAmounts[Erc223], tokenReceived(u, amount)
        PROVE  /\ erc223deposit[u] + amount \in Nat
               /\ erc223deposit' = [erc223deposit EXCEPT ![u] = erc223deposit[u] + amount]
               /\ total_erc223_deposits'
                    = total_erc223_deposits + (erc223deposit[u] + amount) - erc223deposit[u]
    <3>1. amount \in Nat
      BY ParameterAssumption, TokenFacts
    <3>2. /\ erc223deposit' = [erc223deposit EXCEPT ![u] = erc223deposit[u] + amount]
          /\ total_erc223_deposits' = total_erc223_deposits + amount
      BY <2>1 DEF tokenReceived
    <3> QED
      BY <3>1, <3>2, <1>1
  <2>2. ASSUME withdrawDeposit(u)
        PROVE  /\ erc223deposit' = [erc223deposit EXCEPT ![u] = 0]
               /\ total_erc223_deposits' = total_erc223_deposits + 0 - erc223deposit[u]
    BY <2>2, <1>1 DEF withdrawDeposit
  <2> QED
    BY <2>1, <2>2
<1>4. DepositsAdd'
  BY <1>1, <1>3, DepositsMove DEF Exits, TotalsAdd
<1>5. VersionsAdd'
  BY <1>2 DEF stakeVars, Exits, TotalsAdd, VersionsAdd, PartsOf
<1>6. Frame'
  BY <1>2, FrameEmpty
<1> QED
  BY <1>2, <1>4, <1>5, <1>6 DEF Exits, TotalsAdd, InTime

LEMMA NextExits == IInv /\ IInv' /\ Exits /\ [Next]_vars => Exits'
<1> SUFFICES ASSUME IInv, IInv', Exits, [Next]_vars PROVE Exits'
  OBVIOUS
<1>1. ASSUME NEW u \in Users, StakerStep(u) PROVE Exits'
  <2>1. ASSUME NEW v \in Versions, NEW amount \in StakeAmounts[v],
               stake(u, v, amount) \/ withdraw(u, v, amount)
        PROVE  Exits'
    BY <2>1, StakeExits, WithdrawExits
  <2>2. CASE withdraw_all(u) \/ emergency_withdraw(u)
    BY <2>2, LeaveExits DEF withdraw_all, emergency_withdraw
  <2>3. ASSUME NEW tokens \in ClaimLists, claim(u, tokens) PROVE Exits'
    BY <2>3, ClaimExits
  <2>4. ASSUME NEW amount \in StakeAmounts[Erc223], tokenReceived(u, amount) \/ withdrawDeposit(u)
        PROVE  Exits'
    BY <2>4, DepositExits
  <2> QED
    BY <1>1, <2>1, <2>2, <2>3, <2>4 DEF StakerStep
<1>2. ASSUME OwnerStep PROVE Exits'
  <2>1. ASSUME NEW token \in RewardTokens, add_reward_token(token) PROVE Exits'
    <3>1. /\ now' = now /\ UNCHANGED stakeVars /\ UNCHANGED depositVars /\ todo' = todo
          /\ reward_data' = [reward_data EXCEPT ![token].listed = TRUE,
                                                ![token].last_update = now]
      BY <2>1 DEF add_reward_token, callVars
    <3>2. reward_data \in [RewardTokens -> RewardData]
      BY DEF IInv, TypeOK
    <3>3. \A t \in RewardTokens : reward_data[t].listed => reward_data'[t].listed
      <4>1. ASSUME NEW t \in RewardTokens, t # token PROVE reward_data'[t] = reward_data[t]
        BY <3>1, <3>2, <4>1
      <4>2. reward_data'[token].listed
        BY <3>1, <3>2 DEF RewardData
      <4> QED
        BY <4>1, <4>2
    <3> QED
      BY <3>1, <3>3, QuietExits
  <2>2. ASSUME NEW delay \in DelayChoices, set_claim_delay(delay) PROVE Exits'
    BY <2>2, QuietExits DEF set_claim_delay, callVars, rewardVars
  <2>3. ASSUME NEW token \in Tokens, NEW amount \in ArrivalAmounts[token], sweep(token, amount)
        PROVE  Exits'
    BY <2>3, QuietExits DEF sweep
  <2>4. ASSUME NEW account \in OwnerCandidates, transfer_ownership(account) PROVE Exits'
    BY <2>4, QuietExits DEF transfer_ownership, callVars, rewardVars
  <2> QED
    BY <1>2, <2>1, <2>2, <2>3, <2>4 DEF OwnerStep
<1>3. ASSUME NEW token \in RewardTokens, sync(token) PROVE Exits'
  <2>1. now' = now /\ UNCHANGED stakeVars /\ UNCHANGED depositVars /\ todo' = <<>>
    BY <1>3 DEF sync, callVars, IInv, NothingLeftIdle
  <2> QED
    BY <2>1, QuietExits
<1>4. ASSUME NEW account \in OwnerCandidates, accept_ownership(account) PROVE Exits'
  BY <1>4, QuietExits DEF accept_ownership, callVars, rewardVars
<1>5. ASSUME NEW token \in Tokens, NEW amount \in ArrivalAmounts[token], Arrive(token, amount)
      PROVE  Exits'
  BY <1>5, QuietExits DEF Arrive, callVars, rewardVars
<1>6. CASE Return
  BY <1>6, QuietExits DEF Return
<1>7. CASE Tick
  <2>1. /\ now' = now + 1 /\ now < MaxTime /\ todo' = <<>>
        /\ UNCHANGED stakeVars /\ UNCHANGED depositVars
    BY <1>7 DEF Tick, callVars, IInv, NothingLeftIdle
  <2>2. TotalsAdd' /\ Frame'
    BY <2>1, SumsSame, FrameEmpty DEF Exits, stakeVars
  <2>3. now \in Nat /\ MaxTime \in Nat
    BY ParameterAssumption DEF IInv, TypeOK
  <2> QED
    BY <2>1, <2>2, <2>3 DEF Exits, InTime
<1>8. CASE UNCHANGED vars
  BY <1>8, QuietExits DEF vars, callVars, rewardVars
<1>9. CASE Continue
  BY <1>9, ContinueExits
<1> QED
  BY <1>1, <1>2, <1>3, <1>4, <1>5, <1>6, <1>7, <1>8, <1>9 DEF Next

LEMMA InitExits == Init => Exits
<1> SUFFICES ASSUME Init PROVE Exits
  OBVIOUS
<1>1. VersionsAdd
  <2> SUFFICES ASSUME NEW v \in Versions
               PROVE  SumFunctionOnSet(PartsOf(v), Users) = total_staked_by_version[v]
    BY DEF VersionsAdd
  <2>1. PartsOf(v) = [u \in Users |-> 0] /\ total_staked_by_version[v] = 0
    BY DEF Init, PartsOf
  <2> QED
    BY <2>1, UsersAssumption, SumZero
<1>2. DepositsAdd
  BY UsersAssumption, SumZero DEF Init, DepositsAdd
<1>3. Frame
  BY DEF Init, Frame, PayoutAlone, ClaimsListed
<1>4. InTime
  BY ParameterAssumption DEF Init, InTime
<1> QED
  BY <1>1, <1>2, <1>3, <1>4 DEF Exits, TotalsAdd

\* What is owed to one user never exceeds what was taken in: the rounding
\* slack, one scaled unit a second, stays below a whole unit of the token as
\* long as fewer than STREAM_SCALE seconds have passed.
LEMMA DueIsAccounted ==
  ASSUME TypeOK, InTime, MaxTime < STREAM_SCALE,
         NEW u \in Users, NEW t \in RewardTokens, NEW q, Covered(q, t)
  PROVE  /\ Settleable(u, t, q.reward_per_token)
         /\ owed[u][t] + Unsettled(u, t, q.reward_per_token) \in Nat
         /\ owed[u][t] + Unsettled(u, t, q.reward_per_token) <= q.accounted
<1> DEFINE amount == owed[u][t] + Unsettled(u, t, q.reward_per_token)
           f == [w \in Users |-> DueAt(q, w, t)]
           rest == RPT_SCALE * (q.queued + ToCome(q))
           slack == RPT_SCALE * q.last_update
           acc == q.accounted
           dues == DuesAt(q, t)
           P == PRECISION
<1>1. /\ q \in RewardData /\ q.last_update <= now /\ acc \in Nat /\ q.last_update \in Nat
      /\ q.queued \in Nat /\ RPT_SCALE \in Nat \ {0} /\ STREAM_SCALE \in Nat /\ now \in Nat
      /\ P \in Nat \ {0} /\ MaxTime \in Nat
      /\ \A w \in Users : Settleable(w, t, q.reward_per_token)
  BY ScaleAssumption, PrecisionPos, ParameterAssumption DEF Covered, RewardData, TypeOK
<1>2. ASSUME NEW w \in Users
      PROVE  /\ owed[w][t] + Unsettled(w, t, q.reward_per_token) \in Nat
             /\ (owed[w][t] + Unsettled(w, t, q.reward_per_token)) * P <= DueAt(q, w, t)
             /\ DueAt(q, w, t) \in Nat
  <2> DEFINE a == owed[w][t] + Unsettled(w, t, q.reward_per_token)
  <2>1. /\ Unsettled(w, t, q.reward_per_token) \in Nat /\ a * P <= DueAt(q, w, t)
    BY <1>1, UnsettledPays
  <2>2. owed[w][t] \in Nat
    BY DEF TypeOK
  <2>3. DueAt(q, w, t) \in Int
    BY <1>1, DueInt
  <2>4. a \in Nat
    BY <2>1, <2>2
  <2> HIDE DEF a
  <2>5. a * P \in Nat
    BY <2>4, <1>1
  <2>6. DueAt(q, w, t) \in Nat
    BY <2>1, <2>3, <2>5
  <2> QED
    BY <2>1, <2>4, <2>6 DEF a
<1>3. f \in [Users -> Nat] /\ f[u] = DueAt(q, u, t) /\ dues = SumFunctionOnSet(f, Users)
  BY <1>2 DEF DuesAt
<1>4. amount \in Nat /\ amount * P <= f[u] /\ f[u] \in Nat
  BY <1>2, <1>3
<1>5. f[u] <= dues
  <2> HIDE DEF f
  <2> QED
    BY <1>3, UsersAssumption, SumBounds
<1>6. rest \in Nat /\ dues \in Int /\ dues + rest <= acc * P + slack
  <2>1. ToCome(q) \in Nat /\ dues \in Int
    BY <1>1, DueInt
  <2>2. rest \in Nat
    BY <2>1, <1>1
  <2> QED
    BY <2>1, <2>2 DEF Covered, PromisedAt
<1>7. slack + RPT_SCALE <= P /\ slack \in Nat
  <2>1. q.last_update < STREAM_SCALE
    BY <1>1 DEF InTime
  <2>2. slack \in Nat /\ RPT_SCALE * STREAM_SCALE >= slack + RPT_SCALE
    BY <2>1, <1>1, SlackGrows
  <2>3. P = RPT_SCALE * STREAM_SCALE
    BY <1>1 DEF PRECISION
  <2> QED
    BY <2>2, <2>3
<1> HIDE DEF amount, f, rest, slack, acc, dues, P
<1>8. acc * P \in Nat /\ amount * P \in Nat
  BY <1>1, <1>4
<1>9. amount * P < acc * P + P
  BY <1>1, <1>4, <1>5, <1>6, <1>7, <1>8
<1>10. amount <= acc
  <2>1. SUFFICES ASSUME amount > acc PROVE FALSE
    BY <1>1, <1>4
  <2>2. P * amount >= P * acc + P
    BY <2>1, <1>1, <1>4, SlackGrows
  <2>3. P * amount = amount * P /\ P * acc = acc * P
    BY <1>1, <1>4
  <2> QED
    BY <1>1, <1>8, <1>9, <2>2, <2>3
<1> QED
  BY <1>1, <1>4, <1>10 DEF amount, acc

LEMMA ListedClaims ==
  ASSUME IInv, Ledger, InTime, MaxTime < STREAM_SCALE,
         NEW u \in Users, NEW t \in RewardTokens, NEW readable \in BOOLEAN,
         reward_data[t].listed
  PROVE  CanClaimOne(u, t, readable)
<1> DEFINE q == _sync(reward_data[t], balance[t], readable)
           amount == owed[u][t] + Unsettled(u, t, q.reward_per_token)
<1>1. /\ TypeOK /\ StakesAdd /\ Covered(reward_data[t], t)
      /\ reward_data[t] \in RewardData /\ balance[t] \in Nat
      /\ reward_data[t].accounted <= balance[t]
  BY TokenFacts DEF IInv, Ledger, TypeOK, RewardsBacked
<1>2. Covered(q, t)
  BY <1>1, SyncCovers
<1>3. q.accounted <= balance[t] /\ q.accounted \in Nat
  BY <1>1, SyncType DEF RewardData
<1> HIDE DEF q
<1>4. /\ Settleable(u, t, q.reward_per_token) /\ amount \in Nat /\ amount <= q.accounted
  BY <1>1, <1>2, DueIsAccounted
<1>5. amount <= balance[t]
  BY <1>1, <1>3, <1>4
<1> QED
  BY <1>4, <1>5 DEF CanClaimOne, q

LEMMA AnyCheckpoint ==
  ASSUME IInv, Ledger, NEW u \in Users
  PROVE  CanCheckpoint(u)
<1> SUFFICES ASSUME NEW t \in RewardTokens, reward_data[t].listed
             PROVE  Settleable(u, t, _startStream(_accrue(reward_data[t])).reward_per_token)
  BY DEF CanCheckpoint
<1>1. TypeOK /\ StakesAdd /\ Covered(reward_data[t], t)
  BY DEF IInv, Ledger
<1>2. /\ Covered(_accrue(reward_data[t]), t) /\ UpToDate(_accrue(reward_data[t]))
      /\ _accrue(reward_data[t]).listed
  BY <1>1, AccrueCovers
<1>3. Covered(_startStream(_accrue(reward_data[t])), t)
  BY <1>1, <1>2, StartStreamCovers
<1> QED
  BY <1>3 DEF Covered

\* A part of a stake is within the total of its version, which is held.
LEMMA PartPayable ==
  ASSUME IInv, TotalsAdd, NEW u \in Users, NEW v \in Versions, NEW amount \in Nat,
         amount <= staked_by_version[u][v]
  PROVE  CanPayStake(u, v, amount)
<1> DEFINE f == PartsOf(v)
<1>1. /\ staked_by_version[u][v] \in Nat /\ total_staked_by_version[v] \in Nat
      /\ balance[v] \in Nat /\ total_erc223_deposits \in Nat
      /\ total_staked_by_version[Erc20] \in Nat /\ total_staked_by_version[Erc223] \in Nat
      /\ balance[Erc20] \in Nat /\ balance[Erc223] \in Nat
  BY TokenFacts DEF IInv, TypeOK
<1>2. f \in [Users -> Nat] /\ f[u] = staked_by_version[u][v]
  <2>1. \A w \in Users : staked_by_version[w][v] \in Nat
    BY DEF IInv, TypeOK
  <2> QED
    BY <2>1 DEF PartsOf
<1>3. SumFunctionOnSet(f, Users) = total_staked_by_version[v]
  BY DEF TotalsAdd, VersionsAdd
<1> HIDE DEF f
<1>4. f[u] <= SumFunctionOnSet(f, Users)
  BY <1>2, UsersAssumption, SumBounds
<1>5. total_staked_by_version[v] <= balance[v]
  <2>1. v = Erc20 \/ v = Erc223
    BY DEF Versions
  <2>2. /\ balance[Erc20] >= total_staked_by_version[Erc20]
        /\ balance[Erc223] >= total_staked_by_version[Erc223] + total_erc223_deposits
    BY DEF IInv, PrincipalBacked
  <2>3. CASE v = Erc20
    BY <2>2, <2>3, <1>1
  <2>4. CASE v = Erc223
    BY <2>2, <2>4, <1>1
  <2> QED
    BY <2>1, <2>3, <2>4
<1> QED
  BY <1>1, <1>2, <1>3, <1>4, <1>5 DEF CanPayStake

LEMMA DepositPayable ==
  ASSUME IInv, TotalsAdd, NEW u \in Users
  PROVE  erc223deposit[u] <= total_erc223_deposits /\ erc223deposit[u] <= balance[Erc223]
<1>1. /\ erc223deposit \in [Users -> Nat] /\ total_erc223_deposits \in Nat
      /\ total_staked_by_version[Erc223] \in Nat /\ balance[Erc223] \in Nat
      /\ balance[Erc223] >= total_staked_by_version[Erc223] + total_erc223_deposits
  BY TokenFacts DEF IInv, TypeOK, PrincipalBacked
<1>2. erc223deposit[u] <= SumFunctionOnSet(erc223deposit, Users)
  BY <1>1, UsersAssumption, SumBounds
<1>3. erc223deposit[u] \in Nat /\ erc223deposit[u] <= total_erc223_deposits
  BY <1>1, <1>2 DEF TotalsAdd, DepositsAdd
<1> QED
  BY <1>1, <1>3

LEMMA AlwaysExits == Spec => [](IInv /\ Ledger /\ Exits)
<1>1. Init => IInv /\ Ledger /\ Exits
  BY InitInv, InitLedger, InitExits
<1>2. (IInv /\ Ledger /\ Exits) /\ [Next]_vars => (IInv /\ Ledger /\ Exits)'
  BY NextInv, NextLedger, NextExits
<1> QED
  BY <1>1, <1>2, PTL DEF Spec

\* A claim of a listed token never reverts for want of accounted reward or by
\* a checked subtraction (RevenueV2.sol claim), while fewer than STREAM_SCALE
\* (1e18) seconds have passed: the rounding slack of _accrue, a scaled unit a
\* second, is what could otherwise reach a whole unit of the token.
THEOREM ClaimsGoThrough ==
  ASSUME MaxTime < STREAM_SCALE
  PROVE  Spec => []EveryoneCanClaim
<1>1. IInv /\ Ledger /\ Exits => EveryoneCanClaim
  BY ListedClaims DEF EveryoneCanClaim, Exits
<1> QED
  BY <1>1, AlwaysExits, PTL

\* Whoever is unlocked can leave by either exit, every deposit can be taken
\* back and every payout that began can be completed (RevenueV2.sol
\* withdraw_all, emergency_withdraw, withdrawDeposit, _payStake): the totals
\* are the sums of the parts they are reduced by.
THEOREM ExitsStayOpen ==
  ASSUME MaxTime < STREAM_SCALE
  PROVE  Spec => []EveryoneCanExit
<1>1. IInv /\ Ledger /\ Exits => EveryoneCanExit
  <2> SUFFICES ASSUME IInv, Ledger, Exits PROVE EveryoneCanExit
    OBVIOUS
  <2>1. TotalsAdd /\ Frame /\ InTime /\ TypeOK
    BY DEF Exits, IInv
  <2>2. ASSUME NEW u \in Users, ~locked, staked[u] # 0, now >= unlock_time[u]
        PROVE  /\ CanCheckpoint(u) /\ CanLeave(u)
               /\ \A v \in Versions : CanPayStake(u, v, staked_by_version[u][v])
    <3>1. CanCheckpoint(u)
      BY AnyCheckpoint
    <3>2. CanLeave(u)
      <4>1. staked \in [Users -> Nat]
        BY <2>1 DEF TypeOK
      <4>2. staked[u] <= SumFunctionOnSet(staked, Users)
        BY <4>1, UsersAssumption, SumBounds
      <4> QED
        BY <4>2, <2>2 DEF CanLeave, Unlocked, Ledger, StakesAdd
    <3>3. ASSUME NEW v \in Versions PROVE CanPayStake(u, v, staked_by_version[u][v])
      <4>1. staked_by_version[u][v] \in Nat
        BY <2>1 DEF TypeOK
      <4> QED
        BY <4>1, <2>1, PartPayable
    <3> QED
      BY <3>1, <3>2, <3>3
  <2>3. \A u \in Users : /\ erc223deposit[u] <= total_erc223_deposits
                         /\ erc223deposit[u] <= balance[Erc223]
    BY <2>1, DepositPayable
  <2>4. ASSUME todo # <<>>
        PROVE  LET item == Head(todo) IN
               IF item.act = "payStake" THEN CanPayStake(item.user, item.token, item.amount)
               ELSE \A readable \in BOOLEAN : CanClaimOne(item.user, item.token, readable)
    <3> DEFINE item == Head(todo)
    <3>1. /\ item \in Items /\ item = todo[1] /\ 1 \in 1 .. Len(todo)
      <4>1. todo \in Seq(Items)
        BY <2>1 DEF TypeOK
      <4> QED
        BY <4>1, <2>4
    <3> HIDE DEF item
    <3>2. /\ item.user \in Users /\ item.amount \in Nat
          /\ item.act = "payStake" \/ item.act = "claim"
      BY <3>1 DEF Items
    <3>3. CASE item.act = "payStake"
      <4>1. item.token \in Versions /\ item.amount <= staked_by_version[item.user][item.token]
        BY <3>1, <3>3, <2>1 DEF Frame, PayoutAlone, IInv, PayoutsDue
      <4>2. CanPayStake(item.user, item.token, item.amount)
        BY <4>1, <3>2, <2>1, PartPayable
      <4> QED
        BY <4>2, <3>3 DEF item
    <3>4. CASE item.act = "claim"
      <4>1. item.token \in RewardTokens /\ reward_data[item.token].listed
        BY <3>1, <3>4, <2>1 DEF Frame, ClaimsListed, IInv, ClaimsInRewards
      <4>2. \A readable \in BOOLEAN : CanClaimOne(item.user, item.token, readable)
        BY <4>1, <3>2, <2>1, ListedClaims
      <4> QED
        BY <4>2, <3>4 DEF item
    <3> QED
      BY <3>2, <3>3, <3>4
  <2> QED
    BY <2>2, <2>3, <2>4 DEF EveryoneCanExit
<1> QED
  BY <1>1, AlwaysExits, PTL

=============================================================================
