----------------------------- MODULE Deployment -----------------------------
(***************************************************************************)
(* The executor of the planned-nonce scripts (scripts/deploy-v3.ts,        *)
(* deploy-chain.ts, deploy-mainnet.ts, deploy-mainnet-v2.ts,               *)
(* handover-to-multisig.ts, upgrade-pool-lib-mainnet.ts) among the things  *)
(* it runs against: a mempool, a chain whose last block can be taken back, *)
(* nodes that lag behind one another, a process that dies anywhere, and    *)
(* other uses of the deployer's key.                                       *)
(*                                                                         *)
(* Nonces are counted from the start of the plan, so that step n belongs   *)
(* to nonce n.  Every transaction is sent at an explicit nonce, hence the  *)
(* chain, as far as the deployer is concerned, is the sequence log of what *)
(* each nonce was used for: the step n itself, nothing that lasts (Void: a *)
(* plain transfer, or a transaction that reverted or called an address     *)
(* without code), or a contract that is not of the plan (Alien).           *)
(***************************************************************************)
EXTENDS Integers, Sequences, FiniteSets, Functions

CONSTANTS
    Scripts,     \* the scripts, as in DeploymentPlans
    MaxLag,      \* bound: how many of the deployer's nonces a node may lag
    MaxFaults    \* bound: crashes, foreign uses, drops, reverts and reorganisations

Void == 0
Alien == -1

VARIABLES
    script,      \* the script that is run
    log,         \* nonce |-> what used it
    settled,     \* how many nonces have two confirmations
    pend,        \* nonce |-> the transaction of the mempool, where there is one
    synced,      \* every node knows the whole log
    opened,      \* somebody made the plan's open call
    oldPool,     \* a pool was created with the library an upgrade replaces
    started,     \* the state file has its startNonce
    done,        \* step |-> whether the state file has it: "no", or yes, be it that
                 \* it was waited for or settled ("made"), or is yet "trusted"
    announced,   \* "ALL CHECKS PASSED"
    pc, i,       \* the process: off, at step i of the loop, or waiting for it
    mytx,        \* the transaction waited for is the one that is or will be mined
    orphan,      \* its receipt in hand is of a block that was taken back
    faults

chainVars == <<log, settled, pend, synced, opened, oldPool>>
fileVars == <<started, done, announced>>
runVars == <<pc, i, mytx, orphan>>
vars == <<script, chainVars, fileVars, runVars, faults>>

Steps == script.steps
N == Len(Steps)

\* Every script has a step; the contracts a step refers to are created by
\* earlier steps; and the last step is one that is looked for at the end, after
\* more nonces than a node lags since the last nonce that was burned.
ASSUME ScriptAssumption ==
    /\ MaxLag \in Nat /\ MaxFaults \in Nat
    /\ \A s \in Scripts : LET p == s.steps IN
        /\ p \in Seq([kind : {"deploy", "call", "open", "burn"}, key : STRING,
                      on : STRING, uses : SUBSET STRING])
        /\ Len(p) > 0
        /\ p[Len(p)].kind \in {"deploy", "call"} /\ p[Len(p)].key \notin s.unread
        /\ \A n \in DOMAIN p : p[n].kind = "burn" => n + MaxLag <= Len(p)
        /\ \A n \in DOMAIN p : \A u \in p[n].uses :
            \E m \in 1..(n - 1) : p[m].kind = "deploy" /\ p[m].key = u

-----------------------------------------------------------------------------
(* What a node answers.                                                    *)

\* A node knows log[1..k].
Views == IF synced THEN {Len(log)} ELSE {k \in 0..Len(log) : k + MaxLag >= Len(log)}

\* Such a node shows step n made: its code or its effect is there; for a burned
\* nonce, its address is empty.
Evidence(n, k) ==
    CASE Steps[n].kind = "burn" -> ~ (n <= k /\ log[n] = Alien)
      [] Steps[n].kind = "open" -> opened \/ (n <= k /\ log[n] = n)
      [] OTHER -> n <= k /\ log[n] = n

\* What the nodes answer when they are asked for step n.
Answers(n) == {Evidence(n, k) : k \in Views}

\* The contract a step calls: one from before the plan, or on the chain.
Present(key) ==
    \/ key = "none"
    \/ \E n \in DOMAIN log : log[n] = n /\ Steps[n].kind = "deploy" /\ Steps[n].key = key

\* What the transaction of the next nonce leaves on the chain.  A call to an
\* address without code succeeds and does nothing.
Outcome(what) ==
    IF what \in 1..N /\ \/ Steps[what].kind \in {"call", "open"} /\ ~ Present(Steps[what].on)
                        \/ Steps[what].kind = "open" /\ opened
    THEN Void ELSE what

-----------------------------------------------------------------------------
(* The chain and the mempool.                                              *)

Lose(n) == [m \in DOMAIN pend \ {n} |-> pend[m]]
CanFault == faults < MaxFaults /\ faults' = faults + 1

Include(what) ==
    /\ log' = Append(log, what)
    /\ pend' = Lose(Len(log) + 1)
    /\ synced' = (MaxLag = 0)
    /\ UNCHANGED <<script, settled, opened, oldPool, fileVars, runVars>>

Mine ==
    /\ Len(log) + 1 \in DOMAIN pend
    /\ Include(Outcome(pend[Len(log) + 1]))
    /\ UNCHANGED faults

\* The transaction runs out of gas, or reverts for a reason of its own.
Revert ==
    /\ Len(log) + 1 \in DOMAIN pend
    /\ LET what == pend[Len(log) + 1] IN what \in 1..N /\ Steps[what].kind # "burn"
    /\ Include(Void)
    /\ CanFault

\* Whatever was trusted and is in these blocks is made.
Settle ==
    /\ settled # Len(log)
    /\ settled' = Len(log)
    /\ done' = [n \in 1..N |-> IF done[n] = "trusted" /\ n \in DOMAIN log /\ log[n] = n
                              THEN "made" ELSE done[n]]
    /\ UNCHANGED <<script, log, pend, synced, opened, oldPool, started, announced, runVars, faults>>

CatchUp ==
    /\ ~ synced
    /\ synced' = TRUE
    /\ UNCHANGED <<script, log, settled, pend, opened, oldPool, fileVars, runVars, faults>>

\* The blocks with a single confirmation are replaced; what they held is
\* pending again.  A receipt that the process read from them, or gets from a node
\* that still follows them, is an orphan.
Reorganise ==
    /\ settled < Len(log) /\ CanFault
    /\ log' = SubSeq(log, 1, settled)
    /\ pend' = [n \in DOMAIN pend \cup (settled + 1)..Len(log) |->
                    IF n <= Len(log) THEN log[n] ELSE pend[n]]
    /\ orphan' \in IF pc = "wait" /\ mytx /\ i \in (settled + 1)..Len(log) /\ log[i] = i
                  THEN BOOLEAN ELSE {orphan}
    /\ UNCHANGED <<script, settled, synced, opened, oldPool, fileVars, pc, i, mytx>>

\* A transaction is evicted from the mempool.
Drop ==
    /\ CanFault
    /\ \E n \in DOMAIN pend : pend' = Lose(n) /\ mytx' = (mytx /\ n # i)
    /\ UNCHANGED <<script, log, settled, synced, opened, oldPool, fileVars, pc, i, orphan>>

\* Something else uses the deployer's key, at the next nonce that is free.
UseKey ==
    /\ CanFault
    /\ \E n \in (Len(log) + 1)..(N + 1) \ DOMAIN pend, what \in {Void, Alien} :
        /\ (Len(log) + 1)..(n - 1) \subseteq DOMAIN pend
        /\ pend' = [m \in DOMAIN pend \cup {n} |-> IF m = n THEN what ELSE pend[m]]
    /\ UNCHANGED <<script, log, settled, synced, opened, oldPool, fileVars, runVars>>

\* Anybody makes the call that is open to anybody.
Open ==
    /\ ~ opened
    /\ \E n \in 1..N : Steps[n].kind = "open" /\ Present(Steps[n].on)
    /\ opened' = TRUE
    /\ UNCHANGED <<script, log, settled, pend, synced, oldPool, fileVars, runVars, faults>>

\* Anybody creates a pool of the live factory while an upgrade is not mined: the
\* pool copies the factory's library.
CreatePool ==
    /\ script.looks = "nonce" /\ ~ oldPool
    /\ ~ Evidence(N, Len(log))
    /\ oldPool' = TRUE
    /\ UNCHANGED <<script, log, settled, pend, synced, opened, fileVars, runVars, faults>>

-----------------------------------------------------------------------------
(* The process.                                                            *)

\* The address each contract is pinned at is where its nonce puts it.
Contracts == {n \in 1..N : Steps[n].kind = "deploy"}
PinsHold ==
    /\ {Steps[n].key : n \in Contracts} = DOMAIN script.pinned
    /\ \A n \in Contracts : script.pinned[Steps[n].key] = script.start + n - 1

Stop == pc' = "off" /\ i' = 1 /\ mytx' = FALSE /\ orphan' = FALSE
Advance == pc' = "loop" /\ i' = i + 1 /\ mytx' = FALSE /\ orphan' = FALSE

\* A first run wants an unused layout; the scripts without a state file want a
\* nonce of their plan.  An upgrade stops at pools that have the old library.
FreshLayout(k) == started \/ k = 0
StartsAt(k) ==
    IF script.looks = "record" THEN FreshLayout(k)
    ELSE k <= N /\ (script.looks = "nonce" => ~ oldPool \/ Evidence(N, k))

Start ==
    /\ pc = "off" /\ ~ announced
    /\ PinsHold
    /\ \E k \in Views : StartsAt(k)
    /\ started' = TRUE
    /\ pc' = "loop" /\ i' = 1 /\ mytx' = FALSE /\ orphan' = FALSE
    /\ UNCHANGED <<script, chainVars, done, announced, faults>>

\* Steps the state file has are passed over without a look at the chain.
Recorded(n) == script.looks = "record" /\ done[n] # "no"
Skip ==
    /\ pc = "loop" /\ i <= N /\ Recorded(i)
    /\ \E n \in (i + 1)..(N + 1) :
        /\ \A m \in i..(n - 1) : Recorded(m)
        /\ n <= N => ~ Recorded(n)
        /\ i' = n
    /\ UNCHANGED <<script, chainVars, fileVars, pc, mytx, orphan, faults>>

AtStep == pc = "loop" /\ i <= N /\ ~ Recorded(i)

\* The chain is asked for the step before, or only once, its nonce is used.
AsksFirst == \/ script.looks = "chain"
             \/ script.looks = "nonce" /\ Steps[i].kind = "call"
NotSeen == AsksFirst => FALSE \in Answers(i)
Counts(k) == k \in Views
Due == \/ Counts(i - 1)
       \/ script.looks = "nonce" /\ \E k \in 0..(i - 1) : Counts(k)

\* The step is on the chain: a run died after it was mined.  Nothing waits for
\* confirmations here.
Found ==
    /\ AtStep
    /\ TRUE \in Answers(i)
    /\ AsksFirst \/ Len(log) >= i
    /\ done' = IF done[i] = "no" THEN [done EXCEPT ![i] = "trusted"] ELSE done
    /\ Advance
    /\ UNCHANGED <<script, chainVars, started, announced, faults>>

\* The nonce was used by something else, or an earlier step is missing; or the
\* gas of an open call that was made cannot be estimated.
Refuse ==
    /\ AtStep
    /\ NotSeen
    /\ \/ Len(log) >= i /\ FALSE \in Answers(i)
       \/ script.looks # "nonce" /\ ~ (\A k \in Views : k >= i - 1)
       \/ Steps[i].kind = "open" /\ opened
    /\ Stop
    /\ UNCHANGED <<script, chainVars, fileVars, faults>>

\* The step is sent at its nonce.  Where that nonce is used or taken, the node
\* may refuse it (see Reject), or accept it in vain.
Send ==
    /\ AtStep
    /\ NotSeen /\ Due
    /\ \/ /\ i > Len(log)
          /\ pend' = [m \in DOMAIN pend \cup {i} |-> IF m = i THEN i ELSE pend[m]]
          /\ mytx' = TRUE
       \/ /\ i <= Len(log) \/ i \in DOMAIN pend
          /\ mytx' = FALSE
          /\ UNCHANGED pend
    /\ pc' = "wait"
    /\ UNCHANGED <<script, log, settled, synced, opened, oldPool, fileVars, i, orphan, faults>>

\* Nonce too low, or a replacement that pays too little.
Reject ==
    /\ AtStep
    /\ NotSeen /\ Due
    /\ i <= Len(log) \/ i \in DOMAIN pend
    /\ Stop
    /\ UNCHANGED <<script, chainVars, fileVars, faults>>

\* A poll asks for the receipt and then for the head of the chain.  With no
\* reorganisation in between that is one step, Record.  With one, the orphan is
\* dropped where the new head is not deep enough for it: the next poll asks again.
AskAgain ==
    /\ pc = "wait" /\ orphan
    /\ orphan' = FALSE
    /\ UNCHANGED <<script, chainVars, fileVars, pc, i, mytx, faults>>

\* mutant: one confirmation is enough
ConfirmedOnce(n) == n <= Len(log) /\ log[n] = n
\* mutant: the status of the receipt is not looked at
ConfirmedAnyhow(n) == n <= settled
\* The block of the receipt has two confirmations, and its status is good.
Confirmed(n) == n <= settled /\ log[n] = n

\* The steps whose effect is looked for once they are mined: not a burn, and not
\* a call of the scripts without a state file.
ReadBack(n) ==
    \/ Steps[n].kind = "deploy"
    \/ script.looks = "record" /\ Steps[n].kind \in {"call", "open"}

\* What was waited for reads back.
Made(n) == Confirmed(n) /\ (ReadBack(n) => TRUE \in Answers(n))

\* The step is recorded.  A node may count the new head for a receipt of the
\* blocks it replaced, and one that still follows those blocks shows the effect.
Record ==
    /\ pc = "wait"
    /\ (mytx /\ Made(i)) \/ orphan
    /\ done' = IF done[i] = "no"
               THEN [done EXCEPT ![i] = IF orphan THEN "trusted" ELSE "made"] ELSE done
    /\ Advance
    /\ UNCHANGED <<script, chainVars, started, announced, faults>>

\* The receipt says reverted, or the effect does not show.
Failed ==
    /\ pc = "wait"
    /\ \/ mytx /\ i <= Len(log) /\ log[i] # i
       \/ /\ (mytx /\ Confirmed(i)) \/ orphan
          /\ ReadBack(i) /\ FALSE \in Answers(i)
    /\ Stop
    /\ UNCHANGED <<script, chainVars, fileVars, faults>>

\* No receipt can come: the nonce is used by another transaction, or this one was
\* dropped.  A bounded wait ends after half an hour; in the scripts that leave it
\* to ethers, it may end.  Giving up on a transaction that is only slow is Crash.
WaitHangs == FALSE   \* mutant: the wait for a receipt never gives up
WaitEnds == ~ mytx
Timeout ==
    /\ pc = "wait" /\ WaitEnds
    /\ Stop
    /\ UNCHANGED <<script, chainVars, fileVars, faults>>

\* The checks after the last step.
Checked == {n \in 1..N : Steps[n].key \notin script.unread}
\* mutant: the burned nonces are not read back
ShowsContract(n) == Steps[n].kind = "burn" \/ TRUE \in Answers(n)
Shows(n) == TRUE \in Answers(n)
AllShow == \A n \in Checked : Shows(n)
Announce ==
    /\ pc = "loop" /\ i = N + 1
    /\ AllShow
    /\ announced' = TRUE
    /\ Stop
    /\ UNCHANGED <<script, chainVars, started, done, faults>>

CheckFails ==
    /\ pc = "loop" /\ i = N + 1
    /\ ~ \A n \in Checked : Answers(n) = {TRUE}
    /\ Stop
    /\ UNCHANGED <<script, chainVars, fileVars, faults>>

\* The process dies, or gives up, anywhere.
Crash ==
    /\ pc # "off" /\ CanFault
    /\ Stop
    /\ UNCHANGED <<script, chainVars, fileVars>>

-----------------------------------------------------------------------------
Init ==
    /\ script \in Scripts
    /\ log = <<>> /\ settled = 0 /\ pend = <<>>
    /\ synced = TRUE /\ opened = FALSE /\ oldPool = FALSE
    /\ started = FALSE /\ done = [n \in 1..N |-> "no"] /\ announced = FALSE
    /\ pc = "off" /\ i = 1 /\ mytx = FALSE /\ orphan = FALSE
    /\ faults = 0

Chain == Mine \/ Settle \/ CatchUp
Fault == Revert \/ Reorganise \/ Drop \/ UseKey \/ Crash
Strangers == Open \/ CreatePool
Loop == Skip \/ Found \/ Refuse \/ Send \/ Reject \/ Announce \/ CheckFails
Wait == AskAgain \/ Record \/ Failed
Next == Chain \/ Fault \/ Strangers \/ Start \/ Loop \/ Wait \/ Timeout

\* Blocks are produced and nodes catch up.  A live process takes its steps, and
\* somebody runs the script again after it stopped.  A wait that is bounded ends.
Fairness ==
    /\ WF_vars(Mine) /\ WF_vars(Settle) /\ WF_vars(CatchUp)
    /\ WF_vars(Start) /\ WF_vars(Loop) /\ WF_vars(Wait)
    /\ WF_vars(script.wait = "bounded" /\ Timeout)

Spec == Init /\ [][Next]_vars
FairSpec == Spec /\ Fairness

-----------------------------------------------------------------------------
(* Properties.                                                             *)

\* The nonce holds what the plan has for it; a burned nonce, or that of a call
\* anybody may make, holds no contract.
Idle == {n \in 1..N : Steps[n].kind \in {"burn", "open"}}
Planned(n) ==
    /\ n \in DOMAIN log /\ n <= N
    /\ log[n] = n \/ (n \in Idle /\ log[n] = Void)

\* What a run took for made without waiting, or on a receipt that was taken back,
\* and that has not settled since.
OnTrust == {n \in 1..N : done[n] = "trusted"}

\* A step goes out only over the plan: below every nonce that holds its step,
\* each nonce holds its own step, or was taken for made by a run that found it
\* on a node, or waited for it, while a reorganisation took it back.
Gaps == {m \in DOMAIN log : ~ Planned(m) /\ m \notin OnTrust}
NothingOverAGap == \A m \in Gaps, n \in DOMAIN log : m < n => log[n] # n

\* A step that was waited for is there for good, unless its block was taken back
\* between the two questions of a poll; and so is one that was trusted and settled.
RecordedStays == \A n \in 1..N : done[n] = "made" => n <= settled /\ log[n] = n

\* The scripts keep to the layout their headers promise.
Layout == INSTANCE DeploymentLayout WITH
    size <- N, idle <- Idle, checked <- {n \in Checked : Steps[n].kind # "open"},
    used <- Len(log), planned <- {n \in 1..N : Planned(n)}, trusted <- OnTrust
KeepsLayout == Layout!LayoutSpec

\* If in the end every nonce used holds its step and nobody else stepped in, a
\* script with a bounded wait comes to its last line, whatever died on the way.
Undisturbed ==
    /\ \A n \in DOMAIN log : log[n] = n
    /\ OnTrust \subseteq DOMAIN log
    /\ ~ opened /\ ~ oldPool
Completes == (script.wait = "bounded" /\ <>[]Undisturbed) => <>announced
=============================================================================
