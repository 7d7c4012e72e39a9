-------------------------- MODULE DeploymentProofs --------------------------
(* What TLAPS proves of Deployment for every set of scripts and every bound. *)
EXTENDS Deployment, TLAPS

StepRecord == [kind : {"deploy", "call", "open", "burn"}, key : STRING,
               on : STRING, uses : SUBSET STRING]

LEMMA ScriptFacts ==
  ASSUME script \in Scripts
  PROVE  /\ Steps \in Seq(StepRecord) /\ N \in Nat /\ N > 0
         /\ \A n \in 1..N : Steps[n].kind \in {"deploy", "call", "open", "burn"}
         /\ Steps[N].kind \in {"deploy", "call"} /\ N \in Checked
         /\ \A n \in 1..N : Steps[n].kind = "burn" => n + MaxLag <= N
         /\ MaxLag \in Nat
<1>1. /\ Steps \in Seq(StepRecord) /\ Len(Steps) > 0
      /\ Steps[Len(Steps)].kind \in {"deploy", "call"}
      /\ Steps[Len(Steps)].key \notin script.unread
      /\ \A n \in DOMAIN Steps : Steps[n].kind = "burn" => n + MaxLag <= Len(Steps)
      /\ MaxLag \in Nat
  BY ScriptAssumption DEF Steps, StepRecord
<1>2. Len(Steps) \in Nat /\ DOMAIN Steps = 1..Len(Steps)
  BY <1>1
<1>3. \A n \in 1..Len(Steps) : Steps[n] \in StepRecord
  BY <1>1, <1>2
<1>4. \A n \in 1..Len(Steps) : Steps[n].kind \in {"deploy", "call", "open", "burn"}
  BY <1>3 DEF StepRecord
<1> QED
  BY <1>1, <1>2, <1>4 DEF N, Checked

\* What the mempool and the chain may hold for a nonce: its own step or nothing of
\* the plan.
Slots(n) == {Void, Alien} \cup (IF n <= N THEN {n} ELSE {})

\* Every variable has its type, and a step's transaction is at its own nonce only.
TypeOK ==
    /\ script \in Scripts
    /\ log \in Seq(Int) /\ \A n \in DOMAIN log : log[n] \in Slots(n)
    /\ settled \in 0..Len(log)
    /\ DOMAIN pend \subseteq Nat \ {0} /\ pend = [n \in DOMAIN pend |-> pend[n]]
    /\ \A n \in DOMAIN pend : pend[n] \in Slots(n)
    /\ synced \in BOOLEAN /\ opened \in BOOLEAN /\ oldPool \in BOOLEAN
    /\ started \in BOOLEAN /\ announced \in BOOLEAN
    /\ done \in [1..N -> {"no", "made", "trusted"}]
    /\ pc \in {"off", "loop", "wait"} /\ i \in 1..(N + 1)
    /\ mytx \in BOOLEAN /\ orphan \in BOOLEAN
    /\ pc = "wait" => i <= N
    /\ faults \in Nat

\* Every step before n was made, as far as the run or the state file knows.
DoneBefore(n) == \A m \in 1..N : m < n => done[m] # "no"

\* A step is sent only after all before it are done.
InOrder ==
    /\ DoneBefore(i)
    /\ \A n \in DOMAIN pend : pend[n] = n => DoneBefore(n)
    /\ \A n \in DOMAIN log : log[n] = n => DoneBefore(n)

IInv == TypeOK /\ InOrder /\ RecordedStays

\* The two safety properties follow from the inductive one.
LEMMA InvImplies == IInv => NothingOverAGap
<1> SUFFICES ASSUME IInv, NEW m \in Gaps, NEW n \in DOMAIN log, m < n, log[n] = n PROVE FALSE
  BY DEF NothingOverAGap
<1>0. script \in Scripts /\ N \in Nat /\ DOMAIN log = 1..Len(log) /\ Len(log) \in Nat
  BY ScriptFacts DEF IInv, TypeOK
<1>1. DoneBefore(n) /\ m \in 1..Len(log)
  BY <1>0 DEF IInv, InOrder, Gaps
<1>2. n <= N
  <2> SUFFICES ASSUME n > N PROVE FALSE
    BY <1>0
  <2>1. log[n] \in {Void, Alien}
    BY <1>0 DEF IInv, TypeOK, Slots
  <2> QED
    BY <2>1, <1>0 DEF Void, Alien
<1>3. m \in 1..N /\ done[m] # "no" /\ done[m] # "trusted"
  BY <1>0, <1>1, <1>2 DEF DoneBefore, Gaps, OnTrust
<1>4. done[m] = "made"
  BY <1>3 DEF IInv, TypeOK
<1>5. log[m] = m
  BY <1>3, <1>4 DEF IInv, RecordedStays
<1> QED
  BY <1>0, <1>1, <1>3, <1>5 DEF Gaps, Planned

LEMMA InitInv == Init => IInv
<1> SUFFICES ASSUME Init PROVE IInv
  OBVIOUS
<1>1. N \in Nat /\ N > 0
  BY ScriptFacts DEF Init
<1>2. DOMAIN log = {} /\ Len(log) = 0 /\ DOMAIN pend = {} /\ log \in Seq(Int)
  BY DEF Init
<1>3. pend = [n \in DOMAIN pend |-> pend[n]]
  BY DEF Init
<1>6. /\ log \in Seq(Int) /\ \A n \in DOMAIN log : log[n] \in Slots(n)
      /\ settled \in 0..Len(log)
      /\ DOMAIN pend \subseteq Nat \ {0}
      /\ \A n \in DOMAIN pend : pend[n] \in Slots(n)
  BY <1>2 DEF Init
<1>7. done \in [1..N -> {"no", "made", "trusted"}]
  BY DEF Init
<1>9. /\ script \in Scripts /\ synced \in BOOLEAN /\ opened \in BOOLEAN
      /\ oldPool \in BOOLEAN /\ started \in BOOLEAN /\ announced \in BOOLEAN
      /\ pc \in {"off", "loop", "wait"} /\ mytx \in BOOLEAN /\ orphan \in BOOLEAN
  BY DEF Init
<1>10. i \in 1..(N + 1) /\ (pc = "wait" => i <= N) /\ faults \in Nat
  BY <1>1 DEF Init
<1>4. TypeOK
  BY <1>3, <1>6, <1>7, <1>9, <1>10 DEF TypeOK
<1>5. InOrder
  BY <1>1, <1>2 DEF Init, InOrder, DoneBefore
<1>8. RecordedStays
  BY <1>1 DEF Init, RecordedStays
<1> QED
  BY <1>4, <1>5, <1>8 DEF IInv

-----------------------------------------------------------------------------
(* Steps that leave the chain, the mempool and the record alone.           *)

LEMMA Quiet ==
  ASSUME IInv, UNCHANGED <<script, log, settled, pend, done>>,
         synced' \in BOOLEAN, opened' \in BOOLEAN, oldPool' \in BOOLEAN,
         started' \in BOOLEAN, announced' \in BOOLEAN, mytx' \in BOOLEAN, orphan' \in BOOLEAN,
         pc' \in {"off", "loop", "wait"}, i' \in 1..(N + 1), pc' = "wait" => i' <= N,
         faults' \in Nat, DoneBefore(i')
  PROVE  IInv'
<1>1. N' = N /\ Steps' = Steps
  BY DEF N, Steps
<1>2. TypeOK'
  BY <1>1 DEF IInv, TypeOK, Slots
<1>3. \A n : DoneBefore(n) => DoneBefore(n)'
  BY <1>1 DEF DoneBefore
<1>4. InOrder'
  <2>1. DoneBefore(i)'
    BY <1>1 DEF DoneBefore
  <2> QED
    BY <2>1, <1>3 DEF IInv, InOrder
<1>5. RecordedStays'
  BY <1>1 DEF IInv, RecordedStays
<1> QED
  BY <1>2, <1>4, <1>5 DEF IInv

\* The invariant, opened for the actions.
LEMMA Parts ==
  ASSUME IInv
  PROVE  /\ N \in Nat /\ N > 0 /\ script \in Scripts
         /\ log \in Seq(Int) /\ Len(log) \in Nat /\ DOMAIN log = 1..Len(log)
         /\ \A n \in 1..Len(log) : log[n] \in Slots(n)
         /\ settled \in 0..Len(log)
         /\ DOMAIN pend \subseteq Nat \ {0} /\ pend = [n \in DOMAIN pend |-> pend[n]]
         /\ \A n \in DOMAIN pend : pend[n] \in Slots(n)
         /\ synced \in BOOLEAN /\ opened \in BOOLEAN /\ oldPool \in BOOLEAN
         /\ started \in BOOLEAN /\ announced \in BOOLEAN
         /\ done \in [1..N -> {"no", "made", "trusted"}]
         /\ pc \in {"off", "loop", "wait"} /\ i \in 1..(N + 1)
         /\ mytx \in BOOLEAN /\ orphan \in BOOLEAN
         /\ pc = "wait" => i <= N
         /\ faults \in Nat
         /\ DoneBefore(i) /\ DoneBefore(1)
         /\ \A n \in DOMAIN pend : pend[n] = n => DoneBefore(n)
         /\ \A n \in 1..Len(log) : log[n] = n => DoneBefore(n)
         /\ \A n \in 1..N : done[n] = "made" => n <= settled /\ log[n] = n
<1>1. script \in Scripts /\ log \in Seq(Int)
  BY DEF IInv, TypeOK
<1>2. N \in Nat /\ N > 0
  BY <1>1, ScriptFacts
<1>3. Len(log) \in Nat /\ DOMAIN log = 1..Len(log)
  BY <1>1
<1> QED
  BY <1>1, <1>2, <1>3 DEF IInv, TypeOK, InOrder, RecordedStays, DoneBefore

LEMMA StopStep ==
  ASSUME IInv, Stop, UNCHANGED <<script, log, settled, pend, done>>,
         synced' \in BOOLEAN, opened' \in BOOLEAN, oldPool' \in BOOLEAN,
         started' \in BOOLEAN, announced' \in BOOLEAN, faults' \in Nat
  PROVE  IInv'
<1>1. pc' = "off" /\ i' = 1 /\ mytx' = FALSE /\ orphan' = FALSE
  BY DEF Stop
<1>2. i' \in 1..(N + 1) /\ DoneBefore(i')
  BY <1>1, Parts
<1> QED
  BY <1>1, <1>2, Quiet

LEMMA QuietSteps ==
  ASSUME IInv,
         CatchUp \/ Open \/ CreatePool \/ Start \/ Refuse \/ Reject \/ Failed \/ Timeout
         \/ Announce \/ CheckFails \/ Crash \/ AskAgain
  PROVE  IInv'
<1> USE Parts
<1>1. CASE CatchUp \/ Open \/ CreatePool
  <2>1. /\ UNCHANGED <<script, log, settled, pend, done, started, announced, pc, i, mytx, orphan, faults>>
        /\ synced' \in BOOLEAN /\ opened' \in BOOLEAN /\ oldPool' \in BOOLEAN
    BY <1>1 DEF CatchUp, Open, CreatePool, fileVars, runVars
  <2> QED
    BY <2>1, Quiet
<1>2. CASE Start
  <2>1. /\ UNCHANGED <<script, log, settled, pend, synced, opened, oldPool, done, announced, faults>>
        /\ started' = TRUE /\ pc' = "loop" /\ i' = 1 /\ mytx' = FALSE /\ orphan' = FALSE
    BY <1>2 DEF Start, chainVars
  <2>2. i' \in 1..(N + 1) /\ DoneBefore(i')
    BY <2>1
  <2> QED
    BY <2>1, <2>2, Quiet
<1>3. CASE Refuse \/ Reject \/ Failed \/ Timeout \/ CheckFails
  <2>1. /\ UNCHANGED <<script, log, settled, pend, synced, opened, oldPool, started, done, announced, faults>>
        /\ Stop
    BY <1>3 DEF Refuse, Reject, Failed, Timeout, CheckFails, chainVars, fileVars
  <2> QED
    BY <2>1, StopStep
<1>4. CASE Announce
  <2>1. /\ UNCHANGED <<script, log, settled, pend, synced, opened, oldPool, started, done, faults>>
        /\ Stop /\ announced' = TRUE
    BY <1>4 DEF Announce, chainVars
  <2> QED
    BY <2>1, StopStep
<1>5. CASE Crash
  <2>1. /\ UNCHANGED <<script, log, settled, pend, synced, opened, oldPool, started, done, announced>>
        /\ Stop /\ faults' = faults + 1
    BY <1>5 DEF Crash, CanFault, chainVars, fileVars
  <2> QED
    BY <2>1, StopStep
<1>6. CASE AskAgain
  <2>1. /\ UNCHANGED <<script, log, settled, pend, synced, opened, oldPool, done, started,
                       announced, pc, i, mytx, faults>>
        /\ orphan' = FALSE
    BY <1>6 DEF AskAgain, chainVars, fileVars
  <2> QED
    BY <2>1, Quiet
<1> QED
  BY <1>1, <1>2, <1>3, <1>4, <1>5, <1>6

LEMMA SkipStep == ASSUME IInv, Skip PROVE IInv'
<1> USE Parts
<1>1. PICK n \in (i + 1)..(N + 1) : i' = n /\ \A m \in i..(n - 1) : Recorded(m)
  BY DEF Skip
<1>2. /\ UNCHANGED <<script, log, settled, pend, synced, opened, oldPool, started, done, announced, pc, mytx, orphan, faults>>
      /\ pc = "loop"
  BY DEF Skip, chainVars, fileVars
<1>3. \A m \in 1..N : m < n => done[m] # "no"
  <2> SUFFICES ASSUME NEW m \in 1..N, m < n PROVE done[m] # "no"
    OBVIOUS
  <2>1. CASE m < i
    BY <2>1 DEF DoneBefore
  <2>2. CASE m >= i
    <3>1. m \in i..(n - 1)
      BY <2>2
    <3> QED
      BY <3>1, <1>1 DEF Recorded
  <2> QED
    BY <2>1, <2>2
<1>4. i' \in 1..(N + 1) /\ DoneBefore(i')
  BY <1>1, <1>3 DEF DoneBefore
<1> QED
  BY <1>1, <1>2, <1>4, Quiet

-----------------------------------------------------------------------------
(* Steps of the chain and of the mempool.                                  *)

LEMMA OutcomeIs == \A what : Outcome(what) \in {what, Void}
  BY DEF Outcome

LEMMA IncludeStep ==
  ASSUME IInv, Len(log) + 1 \in DOMAIN pend, NEW what \in {pend[Len(log) + 1], Void},
         Include(what), faults' \in Nat
  PROVE  IInv'
<1> DEFINE L == Len(log) + 1
<1> USE Parts
<1>1. /\ log' = Append(log, what) /\ pend' = Lose(L) /\ synced' \in BOOLEAN
      /\ UNCHANGED <<script, settled, opened, oldPool, started, done, announced, pc, i, mytx, orphan>>
  BY DEF Include, fileVars, runVars
<1>2. N' = N /\ Steps' = Steps
  BY <1>1 DEF N, Steps
<1>3. what \in Int /\ what \in Slots(L) /\ (what = L => DoneBefore(L))
  <2>1. pend[L] \in Slots(L) /\ L \in Nat /\ L > 0
    OBVIOUS
  <2>2. Void \in Slots(L) /\ Void # L
    BY <2>1 DEF Slots, Void
  <2> QED
    BY <2>1, <2>2 DEF Slots, Void, Alien
<1>4. /\ log' \in Seq(Int) /\ Len(log') = L
      /\ \A n \in 1..L : log'[n] = IF n = L THEN what ELSE log[n]
  BY <1>1, <1>3
<1>5. DOMAIN pend' = DOMAIN pend \ {L} /\ \A n \in DOMAIN pend' : pend'[n] = pend[n]
  BY <1>1 DEF Lose
<1>6. pend' = [n \in DOMAIN pend' |-> pend'[n]]
  BY <1>1 DEF Lose
<1>7. \A n : DoneBefore(n)' <=> DoneBefore(n)
  BY <1>1, <1>2 DEF DoneBefore
<1>8. TypeOK'
  <2>0. DOMAIN log' = 1..L
    BY <1>4
  <2>1. \A n \in DOMAIN log' : log'[n] \in Slots(n)'
    <3>1. ASSUME NEW n \in 1..L PROVE log'[n] \in Slots(n)
      <4>1. CASE n = L
        BY <4>1, <1>3, <1>4
      <4>2. CASE n # L
        <5>1. n \in 1..Len(log) /\ log'[n] = log[n]
          BY <4>2, <1>4
        <5> QED
          BY <5>1
      <4> QED
        BY <4>1, <4>2
    <3> QED
      BY <1>2, <2>0, <3>1 DEF Slots
  <2>2. \A n \in DOMAIN pend' : pend'[n] \in Slots(n)'
    BY <1>2, <1>5 DEF Slots
  <2>3. settled' \in 0..Len(log')
    BY <1>1, <1>4
  <2> QED
    BY <1>1, <1>2, <1>4, <1>5, <1>6, <2>1, <2>2, <2>3 DEF TypeOK
<1>9. InOrder'
  <2>1. \A n \in DOMAIN log' : log'[n] = n => DoneBefore(n)
    <3> SUFFICES ASSUME NEW n \in 1..L, log'[n] = n PROVE DoneBefore(n)
      BY <1>4
    <3>1. CASE n = L
      BY <3>1, <1>3, <1>4
    <3>2. CASE n # L
      <4>1. n \in 1..Len(log) /\ log[n] = n
        BY <3>2, <1>4
      <4> QED
        BY <4>1
    <3> QED
      BY <3>1, <3>2
  <2> QED
    BY <1>1, <1>5, <1>7, <2>1 DEF InOrder
<1>10. RecordedStays'
  BY <1>1, <1>2, <1>4 DEF RecordedStays
<1> QED
  BY <1>8, <1>9, <1>10 DEF IInv

LEMMA MineRevertSteps == ASSUME IInv, Mine \/ Revert PROVE IInv'
<1> USE Parts
<1> DEFINE L == Len(log) + 1
<1>1. CASE Mine
  <2>1. Outcome(pend[L]) \in {pend[L], Void}
    BY OutcomeIs
  <2> QED
    BY <1>1, <2>1, IncludeStep DEF Mine
<1>2. CASE Revert
  <2>1. L \in DOMAIN pend /\ Include(Void) /\ faults' \in Nat
    BY <1>2 DEF Revert, CanFault
  <2> QED
    BY <2>1, IncludeStep
<1> QED
  BY <1>1, <1>2

\* Slots, order and record are those of before, for a step that leaves the plan
\* and the record alone.
LEMMA Same ==
  ASSUME UNCHANGED <<script, done>>
  PROVE  /\ N' = N
         /\ \A n : Slots(n)' = Slots(n)
         /\ \A n : DoneBefore(n)' <=> DoneBefore(n)
<1>1. N' = N
  BY DEF N, Steps
<1> QED
  BY <1>1 DEF Slots, DoneBefore

LEMMA SettleStep == ASSUME IInv, Settle PROVE IInv'
<1> USE Parts
<1>1. /\ settled' = Len(log)
      /\ UNCHANGED <<script, log, pend, synced, opened, oldPool, started, announced,
                     pc, i, mytx, orphan, faults>>
      /\ done' = [n \in 1..N |-> IF done[n] = "trusted" /\ n \in DOMAIN log /\ log[n] = n
                                THEN "made" ELSE done[n]]
  BY DEF Settle, runVars
<1>2. N' = N /\ \A n : Slots(n)' = Slots(n)
  BY <1>1 DEF N, Steps, Slots
<1>3. /\ done' \in [1..N -> {"no", "made", "trusted"}]
      /\ \A n \in 1..N : done'[n] = "no" <=> done[n] = "no"
  BY <1>1
<1>4. \A n : DoneBefore(n)' <=> DoneBefore(n)
  BY <1>2, <1>3 DEF DoneBefore
<1>5. TypeOK'
  BY <1>1, <1>2, <1>3 DEF TypeOK
<1>6. InOrder'
  BY <1>1, <1>4 DEF InOrder
<1>7. RecordedStays'
  <2> SUFFICES ASSUME NEW n \in 1..N, done'[n] = "made" PROVE n <= settled' /\ log[n] = n
    BY <1>1, <1>2 DEF RecordedStays
  <2>1. CASE done[n] = "made"
    BY <2>1, <1>1
  <2>2. CASE done[n] # "made"
    <3>1. n \in DOMAIN log /\ log[n] = n
      BY <2>2, <1>1
    <3> QED
      BY <3>1, <1>1
  <2> QED
    BY <2>1, <2>2
<1> QED
  BY <1>5, <1>6, <1>7 DEF IInv

\* A step that only changes the mempool, to one whose entries are in order.
LEMMA PendStep ==
  ASSUME IInv, UNCHANGED <<script, log, settled, done>>,
         UNCHANGED <<synced, opened, oldPool, started, announced, i>>,
         faults' \in Nat, mytx' \in BOOLEAN, orphan' \in BOOLEAN, pc' \in {"off", "loop", "wait"},
         pc' = "wait" => i <= N,
         DOMAIN pend' \subseteq Nat \ {0}, pend' = [n \in DOMAIN pend' |-> pend'[n]],
         \A n \in DOMAIN pend' : pend'[n] \in Slots(n) /\ (pend'[n] = n => DoneBefore(n))
  PROVE  IInv'
<1> USE Parts
<1>2. N' = N /\ (\A n : Slots(n)' = Slots(n)) /\ (\A n : DoneBefore(n)' <=> DoneBefore(n))
  BY Same
<1>3. TypeOK'
  BY <1>2 DEF TypeOK
<1>4. InOrder'
  BY <1>2 DEF InOrder
<1>5. RecordedStays'
  BY <1>2 DEF RecordedStays
<1> QED
  BY <1>3, <1>4, <1>5 DEF IInv

LEMMA DropStep == ASSUME IInv, Drop PROVE IInv'
<1> USE Parts
<1>1. /\ UNCHANGED <<script, log, settled, synced, opened, oldPool, started, done, announced,
                     pc, i, orphan>>
      /\ faults' \in Nat
  BY DEF Drop, fileVars, CanFault
<1>2. PICK n \in DOMAIN pend : pend' = Lose(n) /\ mytx' = (mytx /\ n # i)
  BY DEF Drop
<1>3. DOMAIN pend' = DOMAIN pend \ {n} /\ \A m \in DOMAIN pend' : pend'[m] = pend[m]
  BY <1>2 DEF Lose
<1>4. pend' = [m \in DOMAIN pend' |-> pend'[m]]
  BY <1>2 DEF Lose
<1>5. mytx' \in BOOLEAN
  BY <1>2
<1> QED
  BY <1>1, <1>3, <1>4, <1>5, PendStep

LEMMA UseKeyStep == ASSUME IInv, UseKey PROVE IInv'
<1> USE Parts
<1>1. /\ UNCHANGED <<script, log, settled, synced, opened, oldPool, started, done, announced,
                     pc, i, mytx, orphan>>
      /\ faults' \in Nat
  BY DEF UseKey, fileVars, runVars, CanFault
<1>2. PICK n \in (Len(log) + 1)..(N + 1) \ DOMAIN pend, what \in {Void, Alien} :
        pend' = [m \in DOMAIN pend \cup {n} |-> IF m = n THEN what ELSE pend[m]]
  BY DEF UseKey
<1>3. n \in Nat \ {0} /\ what # n /\ what \in Slots(n)
  BY <1>2 DEF Void, Alien, Slots
<1>4. /\ DOMAIN pend' = DOMAIN pend \cup {n}
      /\ \A m \in DOMAIN pend' : pend'[m] = IF m = n THEN what ELSE pend[m]
      /\ pend' = [m \in DOMAIN pend' |-> pend'[m]]
  BY <1>2
<1>5. \A m \in DOMAIN pend' : pend'[m] \in Slots(m) /\ (pend'[m] = m => DoneBefore(m))
  BY <1>3, <1>4
<1> QED
  BY <1>1, <1>3, <1>4, <1>5, PendStep

LEMMA SendStep == ASSUME IInv, Send PROVE IInv'
<1> USE Parts
<1>1. /\ UNCHANGED <<script, log, settled, synced, opened, oldPool, started, done, announced,
                     i, orphan, faults>>
      /\ pc' = "wait" /\ mytx' \in BOOLEAN /\ i <= N
  BY DEF Send, AtStep, fileVars
<1>2. CASE UNCHANGED pend
  BY <1>1, <1>2, PendStep
<1>3. CASE pend' = [m \in DOMAIN pend \cup {i} |-> IF m = i THEN i ELSE pend[m]]
  <2>1. i \in Slots(i) /\ i \in Nat \ {0}
    BY <1>1 DEF Slots
  <2>2. /\ DOMAIN pend' = DOMAIN pend \cup {i}
        /\ \A m \in DOMAIN pend' : pend'[m] = IF m = i THEN i ELSE pend[m]
        /\ pend' = [m \in DOMAIN pend' |-> pend'[m]]
    BY <1>3
  <2>3. \A m \in DOMAIN pend' : pend'[m] \in Slots(m) /\ (pend'[m] = m => DoneBefore(m))
    BY <2>1, <2>2
  <2> QED
    BY <1>1, <2>1, <2>2, <2>3, PendStep
<1> QED
  BY <1>2, <1>3 DEF Send

LEMMA ReorganiseStep == ASSUME IInv, Reorganise PROVE IInv'
<1> USE Parts
<1> DEFINE D == DOMAIN pend \cup (settled + 1)..Len(log)
<1>1. /\ UNCHANGED <<script, settled, synced, opened, oldPool, started, done, announced, pc, i, mytx>>
      /\ faults' \in Nat /\ orphan' \in BOOLEAN
      /\ log' = SubSeq(log, 1, settled)
      /\ pend' = [n \in D |-> IF n <= Len(log) THEN log[n] ELSE pend[n]]
  BY DEF Reorganise, fileVars, runVars, CanFault
<1>2. N' = N /\ (\A n : Slots(n)' = Slots(n)) /\ (\A n : DoneBefore(n)' <=> DoneBefore(n))
  BY <1>1, Same
<1>3. /\ log' \in Seq(Int) /\ Len(log') = settled /\ DOMAIN log' = 1..settled
      /\ \A n \in 1..settled : log'[n] = log[n] /\ n \in 1..Len(log)
  BY <1>1
<1>4. /\ DOMAIN pend' = D /\ pend' = [n \in DOMAIN pend' |-> pend'[n]]
      /\ \A n \in D : n \in Nat \ {0}
                       /\ (pend'[n] = IF n <= Len(log) THEN log[n] ELSE pend[n])
                       /\ (n <= Len(log) \/ n \in DOMAIN pend)
  BY <1>1
<1>5. \A n \in D : pend'[n] \in Slots(n) /\ (pend'[n] = n => DoneBefore(n))
  <2> SUFFICES ASSUME NEW n \in D PROVE pend'[n] \in Slots(n) /\ (pend'[n] = n => DoneBefore(n))
    OBVIOUS
  <2>1. CASE n <= Len(log)
    <3>1. n \in 1..Len(log) /\ pend'[n] = log[n]
      BY <1>4, <2>1
    <3> QED
      BY <3>1
  <2>2. CASE ~ (n <= Len(log))
    <3>1. n \in DOMAIN pend /\ pend'[n] = pend[n]
      BY <1>4, <2>2
    <3> QED
      BY <3>1
  <2> QED
    BY <2>1, <2>2
<1>6. TypeOK'
  <2>1. \A n \in DOMAIN log' : log'[n] \in Slots(n)
    BY <1>3
  <2>2. settled' \in 0..Len(log')
    BY <1>1, <1>3
  <2>3. DOMAIN pend' \subseteq Nat \ {0}
    BY <1>4
  <2> QED
    BY <1>1, <1>2, <1>3, <1>4, <1>5, <2>1, <2>2, <2>3 DEF TypeOK
<1>7. InOrder'
  BY <1>1, <1>2, <1>3, <1>4, <1>5 DEF InOrder
<1>8. RecordedStays'
  <2> SUFFICES ASSUME NEW n \in 1..N, done[n] = "made" PROVE n <= settled /\ log'[n] = n
    BY <1>1, <1>2 DEF RecordedStays
  <2>1. n <= settled /\ log[n] = n /\ n \in 1..settled
    OBVIOUS
  <2> QED
    BY <2>1, <1>3
<1> QED
  BY <1>6, <1>7, <1>8 DEF IInv

-----------------------------------------------------------------------------
(* Steps of the record.                                                    *)

LEMMA DoneStep ==
  ASSUME IInv, i <= N, NEW how \in {"made", "trusted"},
         how = "made" => i <= settled /\ log[i] = i,
         done' = IF done[i] = "no" THEN [done EXCEPT ![i] = how] ELSE done,
         Advance, pc # "off",
         UNCHANGED <<script, log, settled, pend, synced, opened, oldPool, started, announced, faults>>
  PROVE  IInv'
<1> USE Parts
<1>1. pc' = "loop" /\ i' = i + 1 /\ mytx' = FALSE /\ orphan' = FALSE /\ i' \in 1..(N + 1)
  BY DEF Advance
<1>2. N' = N /\ \A n : Slots(n)' = Slots(n)
  BY DEF N, Steps, Slots
<1>3. /\ i \in 1..N /\ done' \in [1..N -> {"no", "made", "trusted"}]
      /\ done'[i] # "no" /\ (done'[i] # done[i] => done'[i] = how)
      /\ \A m \in 1..N : m # i => done'[m] = done[m]
  OBVIOUS
<1>4. \A n : DoneBefore(n) => DoneBefore(n)'
  BY <1>2, <1>3 DEF DoneBefore
<1>5. DoneBefore(i)'
  <2> SUFFICES ASSUME NEW m \in 1..N, m < i + 1 PROVE done'[m] # "no"
    BY <1>1, <1>2 DEF DoneBefore
  <2>1. m < i \/ m = i
    OBVIOUS
  <2> QED
    BY <2>1, <1>3 DEF DoneBefore
<1>6. TypeOK'
  BY <1>1, <1>2, <1>3 DEF TypeOK
<1>7. InOrder'
  BY <1>4, <1>5 DEF InOrder
<1>8. RecordedStays'
  <2> SUFFICES ASSUME NEW n \in 1..N, done'[n] = "made" PROVE n <= settled /\ log[n] = n
    BY <1>2 DEF RecordedStays
  <2>1. CASE n # i
    BY <2>1, <1>3
  <2>2. CASE n = i /\ done'[n] = done[n]
    BY <2>2
  <2>3. CASE n = i /\ done'[n] # done[n]
    BY <2>3, <1>3
  <2> QED
    BY <2>1, <2>2, <2>3
<1> QED
  BY <1>6, <1>7, <1>8 DEF IInv

LEMMA FoundStep == ASSUME IInv, Found PROVE IInv'
<1>1. /\ done' = IF done[i] = "no" THEN [done EXCEPT ![i] = "trusted"] ELSE done
      /\ Advance /\ i <= N /\ pc # "off"
      /\ UNCHANGED <<script, log, settled, pend, synced, opened, oldPool, started, announced, faults>>
  BY DEF Found, AtStep, chainVars
<1> QED
  BY <1>1, DoneStep

LEMMA RecordStep == ASSUME IInv, Record PROVE IInv'
<1> DEFINE how == IF orphan THEN "trusted" ELSE "made"
<1>1. /\ done' = IF done[i] = "no" THEN [done EXCEPT ![i] = how] ELSE done
      /\ Advance /\ pc # "off"
      /\ how = "made" => i <= settled /\ log[i] = i
      /\ UNCHANGED <<script, log, settled, pend, synced, opened, oldPool, started, announced, faults>>
  BY DEF Record, Made, Confirmed, chainVars
<1>2. i <= N /\ how \in {"made", "trusted"}
  BY Parts DEF Record
<1> HIDE DEF how
<1> QED
  BY <1>1, <1>2, DoneStep

LEMMA NextInv == ASSUME IInv, [Next]_vars PROVE IInv'
<1>1. CASE UNCHANGED vars
  <2>1. UNCHANGED <<script, log, settled, pend, synced, opened, oldPool, started, done,
                    announced, pc, i, mytx, orphan, faults>>
    BY <1>1 DEF vars, chainVars, fileVars, runVars
  <2> QED
    BY <2>1, Quiet, Parts
<1>2. CASE Next
  BY <1>2, MineRevertSteps, SettleStep, QuietSteps, SkipStep, ReorganiseStep, DropStep,
     UseKeyStep, SendStep, FoundStep, RecordStep
     DEF Next, Chain, Fault, Strangers, Loop, Wait
<1> QED
  BY <1>1, <1>2

-----------------------------------------------------------------------------
(* The theorems.                                                           *)

\* The invariant holds throughout: every variable has its type, steps are sent in
\* order, and recorded steps are on the chain for good.
THEOREM Invariance == Spec => []IInv
<1>1. Init => IInv
  BY InitInv
<1>2. IInv /\ [Next]_vars => IInv'
  BY NextInv
<1> QED
  BY <1>1, <1>2, PTL DEF Spec

\* Whatever dies, lags or is taken back, a step sent holds its nonce only over
\* nonces that hold theirs, or that a run took for made on what a node showed it
\* (the loops of the scripts stop rather than deploy at a wrong address).
THEOREM StepsFollowThePlan == Spec => []NothingOverAGap
<1>1. IInv => NothingOverAGap
  BY InvImplies
<1> QED
  BY <1>1, Invariance, PTL

\* A step that was waited for, or trusted and settled since, is there whatever is
\* taken back, dropped or replaced afterwards, so passing over it is sound; only
\* what was found, or confirmed by a receipt taken back meanwhile, can be missing.
THEOREM RecordIsSound == Spec => []RecordedStays
<1>1. IInv => RecordedStays
  BY DEF IInv
<1> QED
  BY <1>1, Invariance, PTL

-----------------------------------------------------------------------------
(* The scripts implement the layout.                                       *)

PlannedSteps == {n \in 1..N : Planned(n)}
CheckedSteps == {n \in Checked : Steps[n].kind # "open"}

LEMMA PlanFixed ==
  ASSUME UNCHANGED script
  PROVE  N' = N /\ Steps' = Steps /\ Idle' = Idle /\ CheckedSteps' = CheckedSteps
<1>1. N' = N /\ Steps' = Steps
  BY DEF N, Steps
<1> QED
  BY <1>1 DEF Idle, CheckedSteps, Checked

LEMMA PlannedFixed ==
  ASSUME UNCHANGED <<script, log>>
  PROVE  PlannedSteps' = PlannedSteps
<1>1. N' = N /\ Idle' = Idle
  BY PlanFixed
<1> QED
  BY <1>1 DEF PlannedSteps, Planned

\* What the abstract specification sees.
LayoutUnchanged ==
    UNCHANGED <<N, Idle, CheckedSteps, Len(log), PlannedSteps, settled, OnTrust, announced>>

LEMMA Unseen ==
  ASSUME UNCHANGED <<script, log, settled, done, announced>>
  PROVE  LayoutUnchanged
<1>1. N' = N /\ Idle' = Idle /\ CheckedSteps' = CheckedSteps /\ PlannedSteps' = PlannedSteps
  BY PlanFixed, PlannedFixed
<1>2. OnTrust' = OnTrust
  BY <1>1 DEF OnTrust
<1> QED
  BY <1>1, <1>2 DEF LayoutUnchanged

LEMMA UnseenSteps ==
  ASSUME IInv, CatchUp \/ Open \/ CreatePool \/ Start \/ Skip \/ Refuse \/ Reject \/ Failed
               \/ Timeout \/ CheckFails \/ Crash \/ Drop \/ UseKey \/ Send \/ AskAgain
  PROVE  LayoutUnchanged
<1>1. UNCHANGED <<script, log, settled, done, announced>>
  BY DEF CatchUp, Open, CreatePool, Start, Skip, Refuse, Reject, Failed, Timeout, CheckFails,
         Crash, Drop, UseKey, Send, AskAgain, chainVars, fileVars
<1> QED
  BY <1>1, Unseen

\* A step that is made holds its nonce.
LEMMA MadeIsPlanned ==
  ASSUME IInv, NEW n \in 1..N, done[n] = "made"
  PROVE  n \in PlannedSteps
<1>1. n <= settled /\ log[n] = n /\ n \in DOMAIN log
  BY Parts
<1> QED
  BY <1>1, Parts DEF PlannedSteps, Planned

\* What a node shows of a creation or a call is on the chain.
LEMMA ShownIsPlanned ==
  ASSUME IInv, NEW n \in 1..N, TRUE \in Answers(n)
  PROVE  n \in PlannedSteps \cup Idle
<1> USE Parts
<1>1. PICK k \in Views : Evidence(n, k)
  BY DEF Answers
<1>2. k \in 0..Len(log)
  BY DEF Views
<1>3. Steps[n].kind \in {"deploy", "call", "open", "burn"}
  BY ScriptFacts
<1>4. CASE Steps[n].kind \in {"open", "burn"}
  BY <1>4 DEF Idle
<1>5. CASE Steps[n].kind \in {"deploy", "call"}
  <2>1. n <= k /\ log[n] = n
    BY <1>1, <1>5 DEF Evidence
  <2>2. n \in DOMAIN log
    BY <2>1, <1>2
  <2> QED
    BY <2>1, <2>2 DEF PlannedSteps, Planned
<1> QED
  BY <1>3, <1>4, <1>5

ConsumesPlanned ==
    /\ Len(log) < N /\ 1..Len(log) \subseteq PlannedSteps \cup OnTrust
    /\ PlannedSteps' = PlannedSteps \cup {Len(log) + 1}
ConsumesOther ==
    \/ PlannedSteps' = PlannedSteps
    \/ Len(log) + 1 \in Idle /\ PlannedSteps' = PlannedSteps \cup {Len(log) + 1}

LEMMA IncludeConsumes ==
  ASSUME IInv, Len(log) + 1 \in DOMAIN pend, NEW what \in {pend[Len(log) + 1], Void},
         Include(what)
  PROVE  /\ Len(log') = Len(log) + 1
         /\ UNCHANGED <<script, settled, done, announced>>
         /\ ConsumesPlanned \/ ConsumesOther
<1> USE Parts
<1>0. PICK L \in Nat : L = Len(log) + 1
  OBVIOUS
<1>1. log' = Append(log, what) /\ UNCHANGED <<script, settled, done, announced>>
  BY DEF Include, fileVars
<1>2. what \in Int /\ what \in Slots(L) /\ L \in Nat /\ L > 0
  <2>1. pend[L] \in Slots(L) /\ L \in Nat /\ L > 0
    BY <1>0
  <2> QED
    BY <1>0, <2>1 DEF Slots, Void, Alien
<1>3. /\ Len(log') = L /\ DOMAIN log' = 1..L
      /\ \A n \in 1..L : log'[n] = IF n = L THEN what ELSE log[n]
  BY <1>0, <1>1, <1>2
<1>4. N' = N /\ Idle' = Idle
  BY <1>0, <1>1, PlanFixed
<1>5. \A n \in 1..N : n # L => (Planned(n)' <=> Planned(n))
  <2> SUFFICES ASSUME NEW n \in 1..N, n # L PROVE Planned(n)' <=> Planned(n)
    OBVIOUS
  <2>1. n \in DOMAIN log' <=> n \in DOMAIN log
    BY <1>0, <1>3
  <2>2. n \in DOMAIN log => log'[n] = log[n]
    BY <1>0, <1>3
  <2> QED
    BY <1>0, <2>1, <2>2, <1>4 DEF Planned
<1>6. L \notin PlannedSteps
  BY <1>0 DEF PlannedSteps, Planned
<1>7. PlannedSteps' \in {PlannedSteps, PlannedSteps \cup {L}}
      /\ (L \in PlannedSteps' => L \in 1..N /\ Planned(L)')
  <2>1. \A n \in 1..N : n # L => (n \in PlannedSteps' <=> n \in PlannedSteps)
    BY <1>4, <1>5 DEF PlannedSteps
  <2>2. PlannedSteps \subseteq 1..N /\ PlannedSteps' \subseteq 1..N
    BY <1>4 DEF PlannedSteps
  <2>3. L \in PlannedSteps' => L \in 1..N /\ Planned(L)'
    BY <1>4 DEF PlannedSteps
  <2>4. CASE L \in PlannedSteps'
    BY <2>1, <2>2, <2>3, <2>4, <1>6
  <2>5. CASE L \notin PlannedSteps'
    <3>1. PlannedSteps' = PlannedSteps
      <4>1. ASSUME NEW n PROVE n \in PlannedSteps' <=> n \in PlannedSteps
        BY <2>1, <2>2, <2>5, <1>6
      <4> QED
        BY <4>1
    <3> QED
      BY <3>1, <2>5
  <2> QED
    BY <2>3, <2>4, <2>5
<1>8. CASE what = L
  <2>1. L \in 1..N /\ DoneBefore(L)
    <3>1. L \in 1..N
      BY <1>0, <1>2, <1>8 DEF Slots, Void, Alien
    <3>2. pend[L] = L
      BY <1>0, <1>2, <1>8 DEF Void
    <3> QED
      BY <1>0, <3>1, <3>2
  <2>2. 1..Len(log) \subseteq PlannedSteps \cup OnTrust
    <3> SUFFICES ASSUME NEW m \in 1..Len(log) PROVE m \in PlannedSteps \cup OnTrust
      OBVIOUS
    <3>1. m \in 1..N /\ done[m] # "no"
      BY <1>0, <2>1 DEF DoneBefore
    <3>2. done[m] = "made" \/ done[m] = "trusted"
      BY <1>0, <3>1
    <3> QED
      BY <1>0, <3>1, <3>2, MadeIsPlanned DEF OnTrust
  <2>3. Planned(L)'
    BY <1>0, <1>3, <1>4, <1>8, <2>1 DEF Planned
  <2>4. PlannedSteps' = PlannedSteps \cup {L}
    BY <1>0, <1>4, <1>7, <2>1, <2>3 DEF PlannedSteps
  <2> QED
    BY <1>0, <1>1, <1>3, <2>1, <2>2, <2>4 DEF ConsumesPlanned
<1>9. CASE what # L
  <2>1. L \in PlannedSteps' => L \in Idle
    BY <1>0, <1>3, <1>4, <1>7, <1>9 DEF Planned
  <2> QED
    BY <1>0, <1>1, <1>3, <1>7, <2>1 DEF ConsumesOther
<1> QED
  BY <1>0, <1>8, <1>9

\* Found and Record leave what is trusted as it is, or add their step to it.
LEMMA DoneTrusts ==
  ASSUME IInv, Found \/ Record
  PROVE  /\ UNCHANGED <<script, log, settled, announced>>
         /\ \E n \in 1..N : OnTrust' \in {OnTrust, OnTrust \cup {n}}
<1> USE Parts
<1>1. UNCHANGED <<script, log, settled, announced>>
  BY DEF Found, Record, chainVars
<1>2. i \in 1..N
  <2>1. CASE Found
    BY <2>1 DEF Found, AtStep
  <2>2. CASE Record
    BY <2>2 DEF Record
  <2> QED
    BY <2>1, <2>2
<1>3. PICK how \in {"made", "trusted"} :
        done' = IF done[i] = "no" THEN [done EXCEPT ![i] = how] ELSE done
  BY DEF Found, Record
<1>4. N' = N
  BY <1>1, PlanFixed
<1>5. \A n \in 1..N : n # i => done'[n] = done[n]
  BY <1>2, <1>3
<1>6. OnTrust' = OnTrust \/ OnTrust' = OnTrust \cup {i}
  <2>1. CASE done[i] = "no" /\ how = "trusted"
    <3>1. done'[i] = "trusted"
      BY <1>2, <1>3, <2>1
    <3> QED
      BY <1>2, <1>4, <1>5, <3>1 DEF OnTrust
  <2>2. CASE done[i] = "no" /\ how = "made"
    <3>1. done'[i] = "made"
      BY <1>2, <1>3, <2>2
    <3> QED
      BY <1>2, <1>4, <1>5, <2>2, <3>1 DEF OnTrust
  <2>3. CASE done[i] # "no"
    BY <1>3, <1>4, <2>3 DEF OnTrust
  <2> QED
    BY <1>3, <2>1, <2>2, <2>3
<1> QED
  BY <1>1, <1>2, <1>6

\* Where the last step shows, no node lags far enough to hide what holds a burned
\* nonce: the checks at the end are not fooled by one.
LEMMA AnnounceWhole ==
  ASSUME IInv, Announce
  PROVE  1..N \subseteq PlannedSteps \cup (OnTrust \ CheckedSteps)
<1> USE Parts
<1> SUFFICES ASSUME NEW n \in 1..N
             PROVE n \in PlannedSteps \cup (OnTrust \ CheckedSteps)
  OBVIOUS
<1>1. i = N + 1 /\ \A m \in Checked : TRUE \in Answers(m)
  BY DEF Announce, AllShow, Shows
<1>2. done[n] = "made" \/ done[n] = "trusted"
  BY <1>1 DEF DoneBefore
<1>3. CASE done[n] = "made"
  BY <1>3, MadeIsPlanned
<1>4. CASE done[n] = "trusted" /\ n \notin CheckedSteps
  BY <1>4 DEF OnTrust
<1>5. CASE n \in CheckedSteps
  <2>1. TRUE \in Answers(n) /\ Steps[n].kind \in {"deploy", "call", "burn"}
    BY <1>1, <1>5, ScriptFacts DEF CheckedSteps
  <2>2. CASE Steps[n].kind \in {"deploy", "call"}
    BY <2>1, <2>2, ShownIsPlanned DEF Idle
  <2>3. CASE Steps[n].kind = "burn"
    <3>1. N \in Checked /\ Steps[N].kind \in {"deploy", "call"} /\ n + MaxLag <= N
          /\ MaxLag \in Nat
      BY <2>3, ScriptFacts
    <3>2. N \in PlannedSteps
      <4>1. N \in 1..N
        OBVIOUS
      <4>2. TRUE \in Answers(N)
        BY <3>1, <1>1, Zenon
      <4>3. N \in PlannedSteps \cup Idle
        BY <4>1, <4>2, ShownIsPlanned
      <4> QED
        BY <3>1, <4>3 DEF Idle
    <3>3. N <= Len(log)
      BY <3>2 DEF PlannedSteps, Planned
    <3>4. PICK k \in Views : Evidence(n, k)
      BY <2>1 DEF Answers
    <3>5. n <= k /\ n \in 1..Len(log)
      BY <3>1, <3>3 DEF Views
    <3>6. log[n] # Alien
      BY <2>3, <3>4, <3>5 DEF Evidence
    <3>7. log[n] = n \/ log[n] = Void
      BY <3>5, <3>6 DEF Slots
    <3> QED
      BY <2>3, <3>5, <3>7 DEF PlannedSteps, Planned, Idle
  <2> QED
    BY <2>1, <2>2, <2>3
<1> QED
  BY <1>2, <1>3, <1>4, <1>5

LEMMA LayoutInitially == Init => Layout!LayoutInit
<1> SUFFICES ASSUME Init PROVE Layout!LayoutInit
  OBVIOUS
<1>1. N \in Nat /\ Idle \subseteq 1..N /\ CheckedSteps \subseteq 1..N
  BY ScriptFacts DEF Init, Idle, CheckedSteps, Checked
<1>2. Len(log) = 0 /\ PlannedSteps = {} /\ OnTrust = {} /\ settled = 0 /\ announced = FALSE
  BY Parts, InitInv DEF Init, PlannedSteps, Planned, OnTrust
<1> QED
  BY <1>1, <1>2 DEF Layout!LayoutInit, PlannedSteps, CheckedSteps

LEMMA LayoutStep ==
  ASSUME IInv, [Next]_vars
  PROVE  [Layout!LayoutNext]_(Layout!layoutVars)
<1> USE Parts
<1> USE DEF PlannedSteps, CheckedSteps
<1>1. CASE LayoutUnchanged
  BY <1>1 DEF LayoutUnchanged, Layout!layoutVars
<1>2. CASE UNCHANGED vars
  BY <1>1, <1>2, Unseen DEF vars, chainVars, fileVars
<1>3. CASE Mine \/ Revert
  <2>1. /\ Len(log') = Len(log) + 1
        /\ UNCHANGED <<script, settled, done, announced>>
        /\ ConsumesPlanned \/ ConsumesOther
    <3>1. Outcome(pend[Len(log) + 1]) \in {pend[Len(log) + 1], Void}
      BY OutcomeIs
    <3> QED
      BY <1>3, <3>1, IncludeConsumes DEF Mine, Revert
  <2>2. N' = N /\ Idle' = Idle /\ CheckedSteps' = CheckedSteps
    BY <2>1, PlanFixed
  <2>3. OnTrust' = OnTrust
    BY <2>1, <2>2 DEF OnTrust
  <2> QED
    BY <2>1, <2>2, <2>3 DEF ConsumesPlanned, ConsumesOther, Layout!LayoutNext,
       Layout!ConsumePlanned, Layout!ConsumeOther
<1>4. CASE Settle
  <2>1. settled' = Len(log) /\ UNCHANGED <<script, log, announced>>
        /\ done' = [n \in 1..N |-> IF done[n] = "trusted" /\ n \in DOMAIN log /\ log[n] = n
                                  THEN "made" ELSE done[n]]
    BY <1>4 DEF Settle
  <2>2. N' = N /\ Idle' = Idle /\ CheckedSteps' = CheckedSteps /\ PlannedSteps' = PlannedSteps
    BY <2>1, PlanFixed, PlannedFixed
  <2>3. \A n \in 1..N : done'[n] = "trusted"
                     <=> done[n] = "trusted" /\ ~ (n \in DOMAIN log /\ log[n] = n)
    BY <2>1
  <2>4. OnTrust' \subseteq OnTrust
    BY <2>2, <2>3 DEF OnTrust
  <2>5. OnTrust \ OnTrust' \subseteq PlannedSteps
    BY <2>2, <2>3 DEF OnTrust, Planned
  <2> QED
    BY <2>1, <2>2, <2>4, <2>5 DEF Layout!LayoutNext, Layout!Settle
<1>5. CASE Reorganise
  <2>1. log' = SubSeq(log, 1, settled) /\ UNCHANGED <<script, settled, done, announced>>
    BY <1>5 DEF Reorganise, fileVars
  <2>2. N' = N /\ Idle' = Idle /\ CheckedSteps' = CheckedSteps
    BY <2>1, PlanFixed
  <2>3. Len(log') = settled /\ DOMAIN log' = 1..settled
        /\ \A n \in 1..settled : log'[n] = log[n] /\ n \in DOMAIN log
    BY <2>1
  <2>4. PlannedSteps' = PlannedSteps \cap 1..settled
    BY <2>2, <2>3 DEF Planned
  <2>5. OnTrust' = OnTrust
    BY <2>1, <2>2 DEF OnTrust
  <2> QED
    BY <2>1, <2>2, <2>3, <2>4, <2>5 DEF Layout!LayoutNext, Layout!Undo
<1>6. CASE Found \/ Record
  <2>1. UNCHANGED <<script, log, settled, announced>>
    BY <1>6, DoneTrusts
  <2>2. PICK n \in 1..N : OnTrust' \in {OnTrust, OnTrust \cup {n}}
    BY <1>6, DoneTrusts
  <2>3. N' = N /\ Idle' = Idle /\ CheckedSteps' = CheckedSteps /\ PlannedSteps' = PlannedSteps
    BY <2>1, PlanFixed, PlannedFixed
  <2>4. CASE OnTrust' = OnTrust
    BY <1>1, <2>1, <2>3, <2>4 DEF LayoutUnchanged
  <2>5. CASE OnTrust' = OnTrust \cup {n}
    BY <2>1, <2>3, <2>5 DEF Layout!LayoutNext, Layout!Trust
  <2> QED
    BY <2>2, <2>4, <2>5
<1>7. CASE Announce
  <2>1. UNCHANGED <<script, log, settled, done>> /\ announced' = TRUE
    BY <1>7 DEF Announce, chainVars
  <2>2. N' = N /\ Idle' = Idle /\ CheckedSteps' = CheckedSteps /\ PlannedSteps' = PlannedSteps
    BY <2>1, PlanFixed, PlannedFixed
  <2>3. OnTrust' = OnTrust
    BY <2>1, <2>2 DEF OnTrust
  <2> QED
    BY <1>7, <2>1, <2>2, <2>3, AnnounceWhole DEF Layout!LayoutNext, Layout!Announce
<1>9. CASE CatchUp \/ Open \/ CreatePool \/ Start \/ Skip \/ Refuse \/ Reject \/ Failed
           \/ Timeout \/ CheckFails \/ Crash \/ Drop \/ UseKey \/ Send \/ AskAgain
  BY <1>1, <1>9, UnseenSteps
<1> QED
  BY <1>2, <1>3, <1>4, <1>5, <1>6, <1>7, <1>9
     DEF Next, Chain, Fault, Strangers, Loop, Wait

\* Every behaviour of the scripts, with their crashes, lagging nodes, reorganised
\* blocks and foreign uses of the key, is one the layout specification allows: in
\* particular success is announced only over a whole layout.
THEOREM ScriptsKeepTheLayout == Spec => KeepsLayout
<1>1. Init => Layout!LayoutInit
  BY LayoutInitially
<1>2. IInv /\ [Next]_vars => [Layout!LayoutNext]_(Layout!layoutVars)
  BY LayoutStep
<1> QED
  BY <1>1, <1>2, Invariance, PTL DEF Spec, KeepsLayout, Layout!LayoutSpec
=============================================================================
