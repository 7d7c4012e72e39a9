--------------------------- MODULE RecordedDeploy ---------------------------
(***************************************************************************)
(* The scripts of RecordedPlans at work on one state file each, or several *)
(* on one: an operator who runs them, again and again until they are       *)
(* through, with other inputs or from another checkout if he likes;        *)
(* processes that die between a transaction and its record; a mempool that *)
(* forgets; nodes that lag.                                                *)
(*                                                                         *)
(* A contract is known by its number in code, as the address of a contract *)
(* is known when it is sent.  What it was constructed with and set to is   *)
(* has, of each name the number of the contract meant, or 0 for a plain    *)
(* setting.  Of a checkout (build) only the hash of the compiled pool      *)
(* matters, and the hash that PoolAddress.sol declares: the factory has    *)
(* the one in its code, the periphery the other.  Blocks are final: two    *)
(* scripts wait for two confirmations, the others for one.                 *)
(***************************************************************************)
EXTENDS Integers, Sequences, FiniteSets, Functions, Chains

CONSTANTS
    Files,       \* state files: [chain, scripts, exist], who works on it in order, and what it has
    Builds,      \* checkouts: [pool, declared], the hashes of the pool
    Inputs,      \* what the operator may pass
    DeriveInputs,  \* of these, those whose router derives the pools of the factory
    MaxFaults    \* bound: deaths, lost transactions, lags, changes of mind

ASSUME FilesAssumption ==
    /\ MaxFaults \in Nat /\ Inputs \subseteq Nat
    /\ DeriveInputs \subseteq Inputs /\ DeriveInputs # {}
    /\ \E b \in Builds : b.pool = b.declared
    /\ \A f \in Files, s \in UNION {Range(g.scripts) : g \in Files} :
        /\ Len(f.scripts) > 0
        /\ \A n \in DOMAIN s.steps : s.steps[n].kind \in {"deploy", "call", "verify"}

\* A name whose contract is recorded is deployed by steps that look at the record.
ASSUME RecordAssumption ==
    \A f \in Files :
        LET steps == UNION {Range(s.steps) : s \in Range(f.scripts)} IN
        /\ f.exist \in Seq(STRING)
        /\ \A s \in Range(f.scripts) : s.steps \in Seq(steps)
        /\ \A st, t \in steps :
            /\ st.kind = "deploy" /\ t.kind = "deploy"
            /\ st.key = t.key /\ t.looks # "nothing"
            => st.looks \in {"file", "args", "read"}

StepsOf(f) == UNION {Range(s.steps) : s \in Range(f.scripts)}
Contracts(f) == Range(f.exist) \cup {st.key : st \in {t \in StepsOf(f) : t.kind = "deploy"}}

\* A contract that the file records for good: no run deploys it anew.
Lasts(f, name) ==
    /\ name # "inputs"
    /\ \A st \in StepsOf(f) : st.kind = "deploy" /\ st.key = name => st.looks \in {"file", "read"}

\* The contracts that a script knows when it comes to its step n.
KnownAt(f, s, n) ==
    Range(f.exist) \cup s.needs
        \cup {s.steps[m].key : m \in {k \in 1 .. n - 1 : s.steps[k].kind = "deploy"}}

\* A script names contracts that it knows by then and does not deploy later; what is
\* looked up in the file alone, or called, is given contracts that last; and the
\* checks at the end ask for every verification.
ASSUME NamingAssumption ==
    \A f \in Files :
        /\ "inputs" \notin Contracts(f)
        /\ \A s, t \in Range(f.scripts) : s.name = t.name => s = t
        /\ \A st \in StepsOf(f) :
            /\ st.kind = "deploy" => /\ st.on = st.key /\ st.key \notin Range(f.exist)
                                     /\ st.looks \in {"file", "args", "read", "nothing"}
            /\ st.kind = "call" => st.looks \in {"chain", "nothing"}
            /\ st.kind = "call" \/ st.looks = "file" => \A u \in st.uses : Lasts(f, u)
        /\ \A st, t \in StepsOf(f) :
            /\ st.kind = "deploy" /\ t.kind = "deploy" /\ st.key = t.key
            /\ st.looks = "file"
            => st.uses = t.uses
        /\ \A s \in Range(f.scripts) : \A n \in DOMAIN s.steps :
            LET st == s.steps[n] IN
            /\ st.uses \cap Contracts(f) \subseteq KnownAt(f, s, n)
            /\ st.kind = "call" => st.on \in KnownAt(f, s, n)
            /\ st.kind = "verify" => st.key \in s.reads
            /\ \A m \in n .. Len(s.steps) : s.steps[m].kind = "deploy" =>
                /\ s.steps[m].key \notin st.uses
                /\ m # n => s.steps[m].key # st.on

VARIABLES
    file,        \* the state file, and the scripts that use it
    code,        \* the contracts of the chain: [key, build, has]
    pend,        \* the mempool, in order of nonce
    synced,      \* every node knows the last block
    verified,    \* the contracts whose source the explorer shows
    addr,        \* key |-> contract, in the state file
    poolHash,    \* the hash of the pool, in the state file
    build, inputs, access,  \* what a run would use: checkout, inputs, explorer
    who, i, pc,  \* the process: its script, its step, and off, at it or waiting
    newId,       \* the contract waited for
    receipt,     \* none, mined or reverted
    finished,    \* the scripts that came to their last line
    complaint,   \* the entry a run asked to remove
    forgets, faults

chainVars == <<code, pend, synced, verified>>
fileVars == <<addr, poolHash>>
runVars == <<who, i, pc, newId, receipt>>
operatorVars == <<build, inputs, access, finished, complaint, forgets>>
vars == <<file, chainVars, fileVars, runVars, operatorVars, faults>>

Scripts == Range(file.scripts)
Named(name) == CHOOSE s \in Scripts : s.name = name
Steps == Named(who).steps
Now == Steps[i]

-----------------------------------------------------------------------------
(* The chain.                                                              *)

CanFault == faults < MaxFaults /\ faults' = faults + 1
Deploys(txs) == Cardinality({n \in DOMAIN txs : txs[n].kind = "deploy"})

\* What a contract has after it was set to something new.
Overlaid(new, old) ==
    [u \in DOMAIN new \cup DOMAIN old |-> IF u \in DOMAIN new THEN new[u] ELSE old[u]]

Apply(tx) ==
    IF tx.kind = "deploy"
    THEN Append(code, [key |-> tx.key, build |-> tx.build, has |-> tx.has])
    ELSE [code EXCEPT ![tx.to].has = Overlaid(tx.has, @)]

\* Of the nodes, some may not know the block at once.
Mine ==
    /\ pend # <<>>
    /\ code' = Apply(Head(pend)) /\ pend' = Tail(pend)
    /\ \/ UNCHANGED <<synced, faults>>
       \/ CanFault /\ synced' = FALSE
    /\ receipt' = IF Head(pend).mine THEN "mined" ELSE receipt
    /\ UNCHANGED <<file, verified, fileVars, who, i, pc, newId, operatorVars>>

\* Out of gas, or a call that the contract refuses.
Revert ==
    /\ pend # <<>> /\ Head(pend).kind = "call" /\ CanFault
    /\ pend' = Tail(pend)
    /\ receipt' = IF Head(pend).mine THEN "reverted" ELSE receipt
    /\ UNCHANGED <<file, code, synced, verified, fileVars, who, i, pc, newId, operatorVars>>

\* The mempool forgets its last transaction.
Drop ==
    /\ pend # <<>> /\ CanFault
    /\ pend' = SubSeq(pend, 1, Len(pend) - 1)
    /\ UNCHANGED <<file, code, synced, verified, fileVars, runVars, operatorVars>>

CatchUp ==
    /\ ~ synced /\ synced' = TRUE
    /\ UNCHANGED <<file, code, pend, verified, fileVars, runVars, operatorVars, faults>>

-----------------------------------------------------------------------------
(* What a run knows.                                                       *)

Address(name) == CASE name = "inputs" -> inputs
                   [] name \in DOMAIN addr -> addr[name]
                   [] OTHER -> 0
Wanted(st) == [u \in st.uses |-> Address(u)]

\* The contract of a name has what the step wants.
Has(st) ==
    LET c == Address(st.on) IN
    IF st.kind = "verify" THEN c \in verified
    ELSE /\ c \in DOMAIN code
         /\ \A u \in st.uses : u \in DOMAIN code[c].has /\ code[c].has[u] = Address(u)
There(key) == key \in DOMAIN addr /\ addr[key] \in DOMAIN code /\ code[addr[key]].key = key
Made(st) == (st.kind = "deploy" => There(st.key)) /\ Has(st)

\* What the nodes, or the explorer, answer to that: one that lags may miss it.
Answers(st) == {Has(st)} \cup IF synced THEN {} ELSE {FALSE}

\* mutant: the record of an address is not looked at
ReusesNothing(st) == st.looks = "args" /\ st.key \in DOMAIN addr
Reuses(st) == st.looks \in {"file", "args", "read"} /\ st.key \in DOMAIN addr

SameArguments(st) == There(st.key) /\ code[addr[st.key]].has = Wanted(st)

\* The contracts whose code depends on the hash of the pool, and whether that of a
\* contract of the file is what this checkout compiles to.
PeripheryKeys == {"router", "positionManager", "quoter", "nfpm"}
SameCode(key) ==
    /\ There(key)
    /\ key = "factory" => code[addr[key]].build.pool = build.pool
    /\ key \in PeripheryKeys => code[addr[key]].build.declared = build.declared

\* Where a script takes the pools of the recorded factory for granted, the factory was
\* there before, and every script that deploys what depends on their hash does so;
\* a script that compares code compares all of that.
ASSUME HashAssumption ==
    \A f \in Files :
        /\ (\E s \in Range(f.scripts) : s.hash = "recorded") =>
            /\ "factory" \in Range(f.exist)
            /\ \A s \in Range(f.scripts) :
                /\ s.hash # "declared"
                /\ \A st \in Range(s.steps) :
                     st.kind = "deploy" /\ st.key \in PeripheryKeys => s.hash = "recorded"
        /\ \A s \in Range(f.scripts) :
            s.checks # {} => {"factory"} \cup (PeripheryKeys \cap Contracts(f)) \subseteq s.checks

\* PoolAddress.sol is in step with the pool.
HashInStep(b) == b.declared = b.pool

\* mutant: a checkout that agrees with itself will do
Compiled(s) == s.hash # "none" => HashInStep(build)
\* So are the pools of the recorded factory.
Fits(s) ==
    /\ s.hash # "none" => HashInStep(build)
    /\ s.hash = "recorded" => poolHash = build.pool

\* The router that the operator passes finds the pools of his factory.
Takes(s) == \E n \in DOMAIN s.steps : "inputs" \in s.steps[n].uses
RouterDerives == inputs \in DeriveInputs

Verifies(s) == \E n \in DOMAIN s.steps : s.steps[n].kind = "verify"

\* The collector owns the factory: a script that acts as its owner is refused.
Barred(s) == s.asOwner /\ There("factory")
             /\ "feeCollector" \in DOMAIN code[addr["factory"]].has

Preflight(s) ==
    /\ s.needs \subseteq DOMAIN addr /\ Fits(s) /\ ~ Barred(s)
    /\ Takes(s) => RouterDerives
    /\ Verifies(s) => Serves(file.chain, access)

-----------------------------------------------------------------------------
(* The process.                                                            *)

Stop == who' = "none" /\ i' = 1 /\ pc' = "off" /\ newId' = 0 /\ receipt' = "none"
Advance == i' = i + 1 /\ pc' = "step" /\ newId' = 0 /\ receipt' = "none" /\ UNCHANGED who

\* The first of the scripts that is not through.  No lag outlasts a run.  What is
\* compared with PoolAddress.sol is recorded at once.
Start ==
    /\ pc = "off" /\ complaint = "none" /\ synced
    /\ \E n \in DOMAIN file.scripts : LET s == file.scripts[n] IN
        /\ s.name \notin finished /\ Preflight(s)
        /\ \A m \in 1..(n - 1) : file.scripts[m].name \in finished \/ Barred(file.scripts[m])
        /\ who' = s.name
        /\ poolHash' = IF s.hash = "declared" THEN build.pool ELSE poolHash
    /\ i' = 1 /\ pc' = "step"
    /\ UNCHANGED <<file, chainVars, addr, newId, receipt, operatorVars, faults>>

AtStep == pc = "step" /\ i <= Len(Steps) /\ Now.kind # "verify" /\ ~ Barred(Named(who))

\* The step was made: by the file, or by what the chain shows.
Reuse ==
    /\ AtStep
    /\ \/ Now.looks = "chain" /\ TRUE \in Answers(Now)
       \/ Reuses(Now) /\ (Now.looks = "args" => SameArguments(Now))
                      /\ (Now.looks = "read" => TRUE \in Answers(Now))
    /\ Advance
    /\ UNCHANGED <<file, chainVars, fileVars, operatorVars, faults>>

\* A recorded contract with other arguments, or none to be seen: the run asks for
\* its entry to be removed.  Lagging is no reason for the operator to do so.
Complain ==
    /\ AtStep /\ Reuses(Now) /\ Now.looks = "args"
    /\ ~ SameArguments(Now)
    /\ complaint' = Now.key
    /\ Stop
    /\ UNCHANGED <<file, chainVars, fileVars, build, inputs, access, finished, forgets, faults>>

\* The recorded contract is another's, or cannot be seen.
Refuse ==
    /\ AtStep /\ Reuses(Now)
    /\ \/ Now.looks = "read" /\ FALSE \in Answers(Now)
       \/ Now.looks = "args" /\ ~ synced
    /\ Stop
    /\ UNCHANGED <<file, chainVars, fileVars, operatorVars, faults>>

\* The factory changed hands while the script ran.
NotOwner ==
    /\ pc = "step" /\ Barred(Named(who))
    /\ Stop
    /\ UNCHANGED <<file, chainVars, fileVars, operatorVars, faults>>

Due == ~ Reuses(Now) /\ (Now.looks = "chain" => FALSE \in Answers(Now))

Send ==
    /\ AtStep /\ Due
    /\ pend' = Append(pend, [kind |-> Now.kind, key |-> Now.key, to |-> Address(Now.on),
                             build |-> build, has |-> Wanted(Now), mine |-> TRUE])
    /\ newId' = IF Now.kind = "deploy" THEN Len(code) + Deploys(pend) + 1 ELSE 0
    /\ pc' = "wait"
    /\ UNCHANGED <<file, code, synced, verified, fileVars, who, i, receipt, operatorVars, faults>>

\* The nonce came from a node that lags, or is that of a transaction of an earlier run.
Reject ==
    /\ AtStep /\ Due
    /\ ~ synced \/ pend # <<>>
    /\ Stop
    /\ UNCHANGED <<file, chainVars, fileVars, operatorVars, faults>>

\* mutant: the address is recorded when it is known, not when the contract is there
AtOnce == TRUE
Confirmed == receipt = "mined"

Record ==
    /\ pc = "wait" /\ Confirmed
    /\ addr' = IF Now.kind = "deploy"
               THEN [k \in DOMAIN addr \cup {Now.key} |->
                        IF k = Now.key THEN newId ELSE addr[k]]
               ELSE addr
    /\ Advance
    /\ UNCHANGED <<file, chainVars, poolHash, operatorVars, faults>>

Fail ==
    /\ pc = "wait" /\ receipt = "reverted"
    /\ Stop
    /\ UNCHANGED <<file, chainVars, fileVars, operatorVars, faults>>

\* A transaction that is gone: a bounded wait ends.
Gone == pc = "wait" /\ receipt = "none" /\ \A n \in DOMAIN pend : ~ pend[n].mine
\* mutant: the receipt is polled without end
Polls(s) == FALSE
TimesOut(s) == s.wait = "bounded"
GiveUp ==
    /\ Gone /\ TimesOut(Named(who))
    /\ Stop
    /\ UNCHANGED <<file, chainVars, fileVars, operatorVars, faults>>

-----------------------------------------------------------------------------
(* The verification of sources: one contract after the other, whatever     *)
(* became of the one before.                                               *)

AtVerify == pc = "step" /\ i <= Len(Steps) /\ Now.kind = "verify"

AlreadyVerified ==
    /\ AtVerify /\ Has(Now)
    /\ Advance
    /\ UNCHANGED <<file, chainVars, fileVars, operatorVars, faults>>

\* Of a contract that is verified the explorer may not say so, and says it when the
\* source is submitted again.
Submit ==
    /\ AtVerify /\ SameCode(Now.on)
    /\ verified' = verified \cup {Address(Now.on)}
    /\ Advance
    /\ UNCHANGED <<file, code, pend, synced, fileVars, operatorVars, faults>>

\* The explorer limits the rate, does not find the code, or is not done in time: the
\* job may still succeed.
ExplorerFails ==
    /\ AtVerify /\ CanFault
    /\ verified' \in {verified} \cup IF SameCode(Now.on)
                                  THEN {verified \cup {Address(Now.on)}} ELSE {}
    /\ Advance
    /\ UNCHANGED <<file, code, pend, synced, fileVars, operatorVars>>

\* The code is not of this checkout, or cannot be seen.
WrongCheckout ==
    /\ AtVerify /\ ~ Has(Now)
    /\ ~ SameCode(Now.on) \/ ~ synced
    /\ Advance
    /\ UNCHANGED <<file, chainVars, fileVars, operatorVars, faults>>

-----------------------------------------------------------------------------
(* The checks at the end.                                                  *)

AtEnd == pc = "step" /\ i = Len(Steps) + 1
Reads == {st \in UNION {Range(s.steps) : s \in Scripts} : st.key \in Named(who).reads}

\* What the file records is what this checkout compiles to.
Proven(s) ==
    /\ \A key \in s.checks : SameCode(key)
    /\ s.checks # {} => HashInStep(build) /\ poolHash = build.pool

Finish ==
    /\ AtEnd /\ Proven(Named(who))
    /\ \A st \in Reads : TRUE \in Answers(st)
    /\ finished' = finished \cup {who}
    /\ Stop
    /\ UNCHANGED <<file, chainVars, fileVars, build, inputs, access, complaint, forgets, faults>>

\* Code that is not of this checkout sends the operator to another one.
CheckFails ==
    /\ AtEnd
    /\ ~ Proven(Named(who)) \/ \E st \in Reads : FALSE \in Answers(st)
    /\ LET s == Named(who)
           foreign == \E n \in DOMAIN s.steps :
                          s.steps[n].kind = "verify" /\ ~ SameCode(s.steps[n].on)
       IN  complaint' = IF ~ Proven(s) \/ foreign THEN "checkout" ELSE complaint
    /\ Stop
    /\ UNCHANGED <<file, chainVars, fileVars, build, inputs, access, finished, forgets, faults>>

\* What it sent stays in the mempool, as nobody's.
Die ==
    /\ pc # "off" /\ CanFault
    /\ pend' = [n \in DOMAIN pend |-> [pend[n] EXCEPT !.mine = FALSE]]
    /\ Stop
    /\ UNCHANGED <<file, code, synced, verified, fileVars, operatorVars>>

-----------------------------------------------------------------------------
(* The people.                                                             *)

\* The operator wants a script run again, perhaps with other inputs, and those that
\* come after it.
Again ==
    /\ pc = "off" /\ CanFault
    /\ \E n \in DOMAIN file.scripts :
        /\ finished' = finished \ {file.scripts[m].name : m \in n..Len(file.scripts)}
        /\ inputs' \in IF Takes(file.scripts[n]) THEN Inputs ELSE {inputs}
    /\ UNCHANGED <<file, chainVars, fileVars, runVars, build, access, complaint, forgets>>

ChangeBuild ==
    /\ pc = "off" /\ CanFault
    /\ \E b \in Builds \ {build} : build' = b
    /\ UNCHANGED <<file, chainVars, fileVars, runVars, inputs, access, finished, complaint,
                   forgets>>

\* He does what a run asked for: removes an entry, checks out the factory's commit (and
\* has the record rewritten where it is of another), passes another router or another
\* way to the explorer.
Forget ==
    /\ pc = "off" /\ complaint \notin {"none", "checkout"}
    /\ addr' = [k \in DOMAIN addr \ {complaint} |-> addr[k]]
    /\ complaint' = "none" /\ forgets' = forgets + 1
    /\ UNCHANGED <<file, chainVars, poolHash, runVars, build, inputs, access, finished, faults>>

CheckOut ==
    /\ pc = "off"
    /\ complaint = "checkout" \/ \E s \in Scripts : ~ Fits(s)
    /\ \E b \in Builds :
        /\ HashInStep(b) /\ (There("factory") => b.pool = code[addr["factory"]].build.pool)
        /\ build' = b
        /\ finished' = IF b.pool = poolHash THEN finished
                       ELSE finished \ {s.name : s \in {t \in Scripts : t.hash = "declared"}}
    /\ complaint' = IF complaint = "checkout" THEN "none" ELSE complaint
    /\ UNCHANGED <<file, chainVars, fileVars, runVars, inputs, access, forgets, faults>>

PassOther ==
    /\ pc = "off" /\ ~ RouterDerives /\ \E s \in Scripts : Takes(s)
    /\ inputs' \in DeriveInputs
    /\ UNCHANGED <<file, chainVars, fileVars, runVars, build, access, finished, complaint,
                   forgets, faults>>

VerifyWith ==
    /\ pc = "off" /\ ~ Serves(file.chain, access) /\ \E s \in Scripts : Verifies(s)
    /\ access' \in {a \in Access : Serves(file.chain, a)}
    /\ UNCHANGED <<file, chainVars, fileVars, runVars, build, inputs, finished, complaint,
                   forgets, faults>>

\* The collector's owner points it at the Revenue that is recorded.
SetRevenue ==
    /\ {"feeCollector", "revenue"} \subseteq DOMAIN addr
    /\ LET c == addr["feeCollector"] IN
        /\ There("feeCollector") /\ code[c].has["revenue"] # addr["revenue"]
        /\ code' = [code EXCEPT ![c].has["revenue"] = addr["revenue"]]
    /\ UNCHANGED <<file, pend, synced, verified, fileVars, runVars, operatorVars, faults>>

-----------------------------------------------------------------------------
InitBuild == CHOOSE b \in Builds : HashInStep(b)
Init ==
    /\ file \in Files
    /\ code = [n \in DOMAIN file.exist |->
                   [key |-> file.exist[n], build |-> InitBuild, has |-> <<>>]]
    /\ addr = [k \in Range(file.exist) |-> CHOOSE n \in DOMAIN file.exist : file.exist[n] = k]
    /\ poolHash = InitBuild.pool
    /\ pend = <<>> /\ synced = TRUE /\ verified = {}
    /\ build = InitBuild
    /\ inputs = CHOOSE v \in Inputs : TRUE
    /\ access \in IF \E s \in Scripts : Verifies(s) THEN Access ELSE {"none"}
    /\ who = "none" /\ i = 1 /\ pc = "off" /\ newId = 0 /\ receipt = "none"
    /\ finished = {} /\ complaint = "none" /\ forgets = 0 /\ faults = 0

Chain == Mine \/ CatchUp
Process == Reuse \/ Complain \/ Refuse \/ NotOwner \/ Send \/ Reject \/ Record \/ Fail \/ GiveUp
           \/ AlreadyVerified \/ Submit \/ WrongCheckout \/ Finish \/ CheckFails
Fault == Revert \/ Drop \/ ExplorerFails \/ Die \/ Again \/ ChangeBuild
Obey == Forget \/ CheckOut \/ PassOther \/ VerifyWith
Next == Chain \/ Start \/ Process \/ Fault \/ Obey \/ SetRevenue

\* Blocks are produced and nodes catch up, a live process goes on, and the operator
\* does what a run asks for and runs a script again until it is through.
Fairness ==
    /\ WF_vars(Mine) /\ WF_vars(CatchUp) /\ WF_vars(Process)
    /\ WF_vars(Obey) /\ WF_vars(SetRevenue) /\ WF_vars(Start)

Spec == Init /\ [][Next]_vars
FairSpec == Spec /\ Fairness

-----------------------------------------------------------------------------
(* Properties.                                                             *)

Wired(s) == \A n \in DOMAIN s.steps : Made(s.steps[n])

\* A script that comes to its last line leaves every contract of its file on the
\* chain, constructed with and set to the contracts of the file, or verified: never
\* one that an earlier run lost, whatever died on the way.
WiredTogether == [][\A s \in Scripts : s.name \in finished' \ finished => Wired(s)']_vars

\* What is deployed under a recorded name is deployed once, but for what a death or
\* a change of mind cost: one contract each.
Reusable == {st.key : st \in {t \in UNION {Range(s.steps) : s \in Scripts} :
                                t.kind = "deploy" /\ t.looks # "nothing"}}
            \ Range(file.exist)
NothingTwice ==
    LET keys == {k \in Reusable : \E n \in DOMAIN code : code[n].key = k}
    IN  Cardinality({n \in DOMAIN code : code[n].key \in keys})
            <= Cardinality(keys) + faults + forgets

\* The periphery derives pool addresses from the hash it was compiled with, so that is
\* the hash of the factory's pools: a script that is told the recorded hash, and the
\* one that checks a whole deployment, do not finish otherwise.
FindsPools ==
    \A k \in PeripheryKeys \cap DOMAIN addr :
        /\ There(k) /\ There("factory")
        /\ code[addr[k]].build.declared = code[addr["factory"]].build.pool
PeripheryMatches ==
    [][\A s \in Scripts : (s.hash = "recorded" \/ s.checks # {}) /\ s.name \in finished' \ finished
                                => FindsPools']_vars

\* A script that is run again until it is through gets through, unless ethers waits for
\* good for a transaction that is gone; and the collector ends up paying the Revenue
\* of the file.  A check cannot pass that compares contracts of several checkouts, and
\* what only the owner of the factory can do is left to the collector.
WaitsForGood == Gone /\ Named(who).wait = "ethers"
Compares(s) == s.checks # {} \/ Verifies(s)
Completes ==
    []<>~ WaitsForGood =>
        <>[](\A s \in Scripts : \/ s.name \in finished /\ Wired(s)
                                \/ Barred(s)
                                \/ Compares(s) /\ ~ FindsPools)
=============================================================================
