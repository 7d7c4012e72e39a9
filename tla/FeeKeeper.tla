----------------------------- MODULE FeeKeeper -----------------------------
(***************************************************************************)
(* The keepers that move protocol fees to stakers, and Revenue's side of   *)
(* it: ops/fee-keeper-lambda/index.mjs, invoked every day for a list of    *)
(* networks, and scripts/fee-keeper.ts, run by hand for one.  A run lists  *)
(* the pools, reads each one, sends enableFees and collect in batches,     *)
(* reads the reward tokens and sends syncAll.  Everything it read may have *)
(* changed by the time it sends: swaps, pool creations, the owner and      *)
(* other callers of the same functions go on meanwhile.                    *)
(*                                                                         *)
(* One network (Here) is modelled with its contracts; of the others only   *)
(* whether they fail.                                                      *)
(***************************************************************************)
EXTENDS ProtocolFeeCollector, Sequences

CONSTANTS
    Networks,     \* the networks of an invocation, in order
    Here,         \* the one whose contracts are modelled
    Unreadable,   \* the reward tokens whose balanceOf reverts
    Batch,        \* pools per transaction
    ScriptMin,    \* what the script wants queued before it restarts a stream
    MaxFaults     \* bound: failures of lookups and transactions, stale answers, deaths

ASSUME KeeperAssumption ==
    /\ Networks \in Seq(STRING) /\ Here \in {Networks[k] : k \in DOMAIN Networks}
    /\ Unreadable \subseteq Tokens
    /\ Batch \in Nat \ {0} /\ ScriptMin \in Nat \ {0} /\ MaxFaults \in Nat

VARIABLES
    accounted, queued,  \* of each reward token: what was taken in, and waits
    remaining,          \* what the running stream has left; 0 when none runs
    keeper,             \* "lambda" or "script"
    pc, net,            \* the run: off, or at a network, sending, syncing
    toEnable,           \* pools to enable, of the batches not sent yet
    planned, tried,     \* pools to collect, and those of the batches sent
    got,                \* those whose fees it has sent to Revenue
    failed,             \* something of this run failed
    outcome,            \* of the last run
    faults

revenueVars == <<accounted, queued, remaining>>
runVars == <<pc, net, toEnable, planned, tried, got, failed, outcome>>
vars == <<poolVars, revenueVars, keeper, runVars, faults>>

-----------------------------------------------------------------------------
(* Revenue.                                                                *)

Unsynced(t) == balance[t] > accounted[t]

\* What a stream that starts, or is folded, carries with so much queued; 0 if none.
Pot(waiting, left) == IF left > 0 /\ waiting < left THEN 0 ELSE waiting + left

CanStart(t) == queued[t] > 0 /\ Pot(queued[t], remaining[t]) > 0

\* Takes in what has arrived, of the tokens that can be read, and starts streams.
SyncAll ==
    LET taken == [t \in Tokens |->
                    IF t \notin Unreadable THEN balance[t] - accounted[t] ELSE 0]
        waiting == [t \in Tokens |-> queued[t] + taken[t]]
        starts == {t \in Tokens : waiting[t] > 0 /\ Pot(waiting[t], remaining[t]) > 0}
    IN  /\ accounted' = [t \in Tokens |-> accounted[t] + taken[t]]
        /\ queued' = [t \in Tokens |-> IF t \in starts THEN 0 ELSE waiting[t]]
        /\ remaining' = [t \in Tokens |->
                IF t \in starts THEN Pot(waiting[t], remaining[t]) ELSE remaining[t]]
        /\ UNCHANGED poolVars

\* Time passes: the running streams pay out.  What a stream has left when nobody
\* stakes goes back to the queue (RevenueV2.sol:486-488); that is left out here.
Stream ==
    /\ \E t \in Tokens : remaining[t] > 0 /\ remaining' = [remaining EXCEPT ![t] = @ - 1]
    /\ UNCHANGED <<poolVars, accounted, queued, keeper, runVars, faults>>

-----------------------------------------------------------------------------
(* The run.                                                                *)

CanFault == faults < MaxFaults /\ faults' = faults + 1
ChainUnchanged == UNCHANGED <<poolVars, revenueVars, keeper>>

Stop(result) ==
    /\ pc' = "off" /\ outcome' = result
    /\ net' = 1 /\ failed' = FALSE
    /\ toEnable' = {} /\ planned' = {} /\ tried' = {} /\ got' = {}

NextNetwork(error) ==
    /\ pc' = "network" /\ net' = net + 1 /\ failed' = (failed \/ error)
    /\ toEnable' = {}
    /\ UNCHANGED <<planned, tried, got, outcome>>

\* The Lambda goes on to the next network, the script ends.
NetworkFails == IF keeper = "script" THEN Stop("failed") ELSE NextNetwork(TRUE)

\* The script is run for one network.
HereAt == CHOOSE k \in DOMAIN Networks : Networks[k] = Here

Invoke ==
    /\ pc = "off"
    /\ pc' = "network" /\ net' = IF keeper = "script" THEN HereAt ELSE 1
    /\ outcome' = "none"
    /\ UNCHANGED <<toEnable, planned, tried, got, failed, faults>>
    /\ ChainUnchanged

\* The handler's loop is over: an error on any network makes the run fail.
Finish ==
    /\ pc = "network"
    /\ IF keeper = "script" THEN net # HereAt ELSE net > Len(Networks)
    /\ Stop(IF failed THEN "failed" ELSE "ok")
    /\ UNCHANGED faults /\ ChainUnchanged

\* Another network, which may fail every time.
OtherNetwork ==
    /\ pc = "network" /\ net <= Len(Networks) /\ Networks[net] # Here /\ keeper = "lambda"
    /\ NetworkFails \/ NextNetwork(FALSE)
    /\ UNCHANGED faults /\ ChainUnchanged

AtHere == pc = "network" /\ net <= Len(Networks) /\ Networks[net] = Here

\* The Lambda skips a day with a base fee over its cap.
Skip ==
    /\ AtHere /\ keeper = "lambda" /\ CanFault
    /\ NextNetwork(FALSE)
    /\ ChainUnchanged

\* What a pool's fee and its owed fees call for.
ToEnable(p) == feeProtocol[p] = 0 /\ ~ custom[p] /\ default # 0
ToCollect(p) == \E s \in Sides : fees[p][s] > 1

\* The PoolCreated events, and a look at each pool.  The pools are independent of one
\* another, so that they may be read at once.
Read(seen) ==
    /\ AtHere
    /\ pc' = "send"
    /\ toEnable' = {p \in seen : ToEnable(p)} /\ planned' = {p \in seen : ToCollect(p)}
    /\ UNCHANGED <<net, tried, got, failed, outcome>>
    /\ ChainUnchanged
ReadPools == Read(created) /\ UNCHANGED faults

\* A node that lags, or an events API that does, knows nothing of some pools yet.
ReadStale == CanFault /\ \E p \in created : Read(created \ {p})

\* The next batch of a list.
Batches(list) == {b \in SUBSET list : Cardinality(b) = IF Cardinality(list) < Batch
                                                       THEN Cardinality(list) ELSE Batch}
Enabling == pc = "send" /\ toEnable # {}
Collecting == pc = "send" /\ toEnable = {} /\ planned \ tried # {}

SendEnable ==
    /\ Enabling
    /\ \E b \in Batches(toEnable) : EnableFees(b) /\ toEnable' = toEnable \ b
    /\ UNCHANGED <<revenueVars, keeper, pc, net, planned, tried, got, failed, outcome, faults>>

\* A pool the collector skips is logged, and no failure of the run.
SendCollect ==
    /\ Collecting
    /\ \E b \in Batches(planned \ tried) :
        Collect(b) /\ tried' = tried \cup b /\ got' = got \cup Collectable(b)
    /\ UNCHANGED <<revenueVars, keeper, pc, net, toEnable, planned, failed, outcome, faults>>

\* mutant: a transaction that failed is only logged
Logged == failed
Reported == TRUE
\* A transaction fails, before or after it was mined: the script ends, the Lambda
\* goes on with the next one.
SendFails ==
    /\ CanFault
    /\ \/ /\ Enabling
          /\ \E b \in Batches(toEnable) :
                /\ EnableFees(b) \/ UNCHANGED poolVars
                /\ \/ keeper = "script" /\ Stop("failed")
                   \/ /\ keeper = "lambda" /\ toEnable' = toEnable \ b /\ failed' = Reported
                      /\ UNCHANGED <<pc, net, planned, tried, got, outcome>>
       \/ /\ Collecting
          /\ \E b \in Batches(planned \ tried) :
                /\ Collect(b) \/ UNCHANGED poolVars
                /\ \/ keeper = "script" /\ Stop("failed")
                   \/ /\ keeper = "lambda" /\ tried' = tried \cup b /\ failed' = Reported
                      /\ UNCHANGED <<pc, net, toEnable, planned, got, outcome>>
    /\ UNCHANGED <<revenueVars, keeper>>

\* mutant: only new arrivals count, and what was left queued stays
OnlyArrivals(t) == Unsynced(t)
\* Whether a token calls for a sync: the Lambda asks what RevenueV2 would do, the
\* script only whether a finished stream can restart.
Pending(t) ==
    \/ Unsynced(t)
    \/ keeper = "lambda" /\ CanStart(t)
    \/ keeper = "script" /\ remaining[t] = 0 /\ queued[t] >= ScriptMin

Syncing == pc = "send" /\ toEnable = {} /\ planned \subseteq tried

\* Asking for what is unsynced calls the token's own balanceOf, which may throw.
LookUpRewards ==
    /\ Syncing
    /\ IF Unreadable # {} THEN NetworkFails
       ELSE IF \E t \in Tokens : Pending(t)
       THEN pc' = "sync" /\ UNCHANGED <<net, toEnable, planned, tried, got, failed, outcome>>
       ELSE NextNetwork(FALSE)
    /\ UNCHANGED faults /\ ChainUnchanged

\* A node that lags shows nothing to sync.
RewardsStale ==
    /\ Syncing /\ Unreadable = {} /\ CanFault
    /\ NextNetwork(FALSE)
    /\ ChainUnchanged

SendSync ==
    /\ pc = "sync"
    /\ SyncAll /\ NextNetwork(FALSE)
    /\ UNCHANGED <<keeper, faults>>

SyncFails ==
    /\ pc = "sync" /\ CanFault
    /\ SyncAll \/ UNCHANGED <<poolVars, revenueVars>>
    /\ NetworkFails
    /\ UNCHANGED keeper

\* A lookup throws.
LookupFails ==
    /\ AtHere \/ Syncing
    /\ CanFault
    /\ NetworkFails
    /\ ChainUnchanged

\* The process dies or is killed.
Killed ==
    /\ pc # "off" /\ CanFault
    /\ Stop("failed")
    /\ ChainUnchanged

-----------------------------------------------------------------------------
Init ==
    /\ CollectorInit
    /\ accounted = [t \in Tokens |-> 0] /\ queued = [t \in Tokens |-> 0]
    /\ remaining = [t \in Tokens |-> 0]
    /\ keeper \in {"lambda", "script"}
    /\ pc = "off" /\ net = 1 /\ toEnable = {}
    /\ planned = {} /\ tried = {} /\ got = {} /\ failed = FALSE /\ outcome = "none"
    /\ faults = 0

Run ==
    \/ Invoke \/ Finish \/ OtherNetwork \/ ReadPools \/ SendEnable \/ SendCollect
    \/ LookUpRewards \/ SendSync
Fault == Skip \/ ReadStale \/ SendFails \/ RewardsStale \/ SyncFails \/ LookupFails \/ Killed

OthersChange == UNCHANGED <<revenueVars, keeper, runVars, faults>>
Owner == (SetDefaultFeeProtocol \/ SetPoolFeeProtocol) /\ OthersChange
Users == (CreatePool \/ InitializePool \/ Swap) /\ OthersChange
\* The functions are open to anybody.
Anybody ==
    \/ (\E p \in created : EnableFees({p}) \/ Collect({p})) /\ OthersChange
    \/ SyncAll /\ UNCHANGED <<keeper, runVars, faults>>

Next == Run \/ Fault \/ Owner \/ Users \/ Anybody \/ Stream

\* The schedule invokes the keeper again and again, a run takes its steps, and
\* time passes.
Fairness == WF_vars(Run) /\ WF_vars(Stream)
Spec == Init /\ [][Next]_vars
FairSpec == Spec /\ Fairness

-----------------------------------------------------------------------------
(* Properties.                                                             *)

\* A run that reports success has collected from every pool it planned to collect
\* from, but those that refuse: the collector skips them, and index.mjs:177 only logs
\* that it did.
GreenMeansDone ==
    [][outcome # "ok" /\ outcome' = "ok" => planned \ got \subseteq Refusing]_vars

\* One pool that refuses, one network that is down or one transaction that fails
\* holds nobody else up: in the end every pool that trades and that nobody has set by
\* hand has a fee on if the default is on, and no pool that pays is owed more than
\* what is always left behind.  Which fee is another matter: a new default does not
\* reach the pools that have one.
FeesReachRevenue ==
    <>[](\A p \in initialized :
            /\ ~ ToEnable(p)
            /\ p \notin Refusing => \A s \in Sides : fees[p][s] <= 1)

\* What arrives at Revenue ends up streaming to the stakers.
RevenueStreams ==
    keeper = "lambda" =>
        \A t \in Tokens \ Unreadable : <>[](~ Unsynced(t) /\ ~ CanStart(t))
=============================================================================
