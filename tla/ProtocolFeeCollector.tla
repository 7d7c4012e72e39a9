------------------------ MODULE ProtocolFeeCollector ------------------------
(***************************************************************************)
(* contracts/dex-periphery/ProtocolFeeCollector.sol, the owner of the      *)
(* factory, and what it calls: setFeeProtocol and collectProtocol of the   *)
(* factory's pools.  Anybody may enable the default fee on pools that were *)
(* not set by hand, and send the fees pools owe to Revenue.                *)
(*                                                                         *)
(* The two denominators of a fee are one number.  Each of a pool's two     *)
(* sides owes fees in a token of its own.  The factory's owner is the      *)
(* collector throughout, and Revenue its receiver: transferOwnership,      *)
(* setRevenue and the other uses of execute are left out.                  *)
(***************************************************************************)
EXTENDS Naturals, FiniteSets, FiniteSetsExt

CONSTANTS
    Pools,          \* addresses of pools of the factory
    Existing,       \* those it has at first, with a price and their fees on
    Owed,           \* what each side of them owes at first
    Tokens,         \* the tokens Revenue lists as rewards
    SideToken,      \* pool |-> side |-> the token that side owes fees in
    Refusing,       \* pools with a token that reverts or burns the gas it is given
    Rates,          \* the fee denominators in use, 0 (off) among them
    InitialRate,    \* the default one at first
    Accrual,        \* what a swap accrues
    MaxSwaps,       \* bound: swaps
    MaxOwnerCalls   \* bound: calls of the collector's owner

Sides == {0, 1}

ASSUME CollectorAssumption ==
    /\ DOMAIN SideToken = Pools /\ \A p \in Pools : DOMAIN SideToken[p] = Sides
    /\ Existing \subseteq Pools /\ Refusing \subseteq Pools
    /\ {0, InitialRate} \subseteq Rates /\ Rates \subseteq Nat /\ Accrual \in Nat /\ Owed \in Nat
    /\ MaxSwaps \in Nat /\ MaxOwnerCalls \in Nat

VARIABLES
    created,        \* pools the factory has created
    initialized,    \* those with a price: the others are locked
    fees,           \* protocolFees of each pool
    feeProtocol,    \* feeProtocol of each pool
    custom,         \* customFeeProtocol
    default,        \* defaultFeeProtocol0 and 1
    balance,        \* what Revenue has received of each token it lists
    swaps, ownerCalls

poolVars == <<created, initialized, fees, feeProtocol, custom, default, balance, swaps, ownerCalls>>

\* enableFees leaves alone what was set by hand.
FollowsDefault(p) == ~ custom[p]

\* The default fee of each pool of the batch that follows it; a pool that is locked is
\* skipped.
EnableFees(batch) ==
    /\ feeProtocol' = [p \in Pools |->
            IF p \in batch \cap initialized /\ FollowsDefault(p) THEN default ELSE feeProtocol[p]]
    /\ UNCHANGED <<created, initialized, fees, custom, default, balance, swaps, ownerCalls>>

\* collectProtocol leaves 1 behind.
Payable(owed) == IF owed > 0 THEN owed - 1 ELSE 0

\* mutant: a pool that fails takes its batch along
AllOrNone(batch) == IF batch \cap Refusing = {} THEN batch \cap initialized ELSE {}
\* Pools that refuse, or are locked, are skipped.
Collectable(batch) == (batch \cap initialized) \ Refusing

\* The fees of each pool of the batch go to Revenue.
Collect(batch) ==
    LET paying == Collectable(batch) IN
    /\ fees' = [p \in Pools |->
            IF p \in paying THEN [s \in Sides |-> fees[p][s] - Payable(fees[p][s])] ELSE fees[p]]
    /\ balance' = [t \in Tokens |-> balance[t] +
            MapThenSumSet(LAMBDA q : Payable(fees[q[1]][q[2]]),
                          {q \in paying \X Sides : SideToken[q[1]][q[2]] = t})]
    /\ UNCHANGED <<created, initialized, feeProtocol, custom, default, swaps, ownerCalls>>

OwnerCalls == ownerCalls < MaxOwnerCalls /\ ownerCalls' = ownerCalls + 1

SetDefaultFeeProtocol ==
    /\ OwnerCalls
    /\ \E rate \in Rates \ {default} : default' = rate
    /\ UNCHANGED <<created, initialized, fees, feeProtocol, custom, balance, swaps>>

SetPoolFeeProtocol ==
    /\ OwnerCalls
    /\ \E p \in initialized, rate \in Rates, byHand \in BOOLEAN :
        /\ feeProtocol' = [feeProtocol EXCEPT ![p] = rate]
        /\ custom' = [custom EXCEPT ![p] = byHand]
    /\ UNCHANGED <<created, initialized, fees, default, balance, swaps>>

\* Anybody creates a pool, and anybody gives it its first price: its fee is off.
CreatePool ==
    /\ \E p \in Pools \ created : created' = created \cup {p}
    /\ UNCHANGED <<initialized, fees, feeProtocol, custom, default, balance, swaps, ownerCalls>>

InitializePool ==
    /\ \E p \in created \ initialized : initialized' = initialized \cup {p}
    /\ UNCHANGED <<created, fees, feeProtocol, custom, default, balance, swaps, ownerCalls>>

\* A swap accrues a fee on the side that is paid in.
Swap ==
    /\ swaps < MaxSwaps /\ swaps' = swaps + 1
    /\ \E p \in initialized, s \in Sides :
        /\ feeProtocol[p] # 0
        /\ fees' = [fees EXCEPT ![p][s] = @ + Accrual]
    /\ UNCHANGED <<created, initialized, feeProtocol, custom, default, balance, ownerCalls>>

CollectorInit ==
    /\ created = Existing /\ initialized = Existing
    /\ fees = [p \in Pools |-> [s \in Sides |-> IF p \in Existing THEN Owed ELSE 0]]
    /\ feeProtocol = [p \in Pools |-> IF p \in Existing THEN InitialRate ELSE 0]
    /\ custom = [p \in Pools |-> FALSE]
    /\ default = InitialRate /\ balance = [t \in Tokens |-> 0]
    /\ swaps = 0 /\ ownerCalls = 0
=============================================================================
