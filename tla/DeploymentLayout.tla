-------------------------- MODULE DeploymentLayout --------------------------
(***************************************************************************)
(* What the planned-nonce deployment scripts promise, without their        *)
(* processes, mempool, state file or nodes: the nonces of the deployer are *)
(* consumed in order; a planned transaction goes out only where every      *)
(* earlier nonce holds its own planned transaction or was taken on trust;  *)
(* what is settled stays; and success is announced only over a layout that *)
(* is whole, but for contracts that were taken on trust and that no check  *)
(* reads.                                                                  *)
(***************************************************************************)
EXTENDS Naturals

VARIABLES
    size,        \* the number of steps of the plan
    idle,        \* the nonces any transaction without a trace may use up
    checked,     \* the steps the checks at the end look for
    used,        \* how many nonces are used
    planned,     \* those of them that hold their planned transaction
    settled,     \* how many can no longer be undone
    trusted,     \* steps taken for made on what some node once answered
    announced    \* "ALL CHECKS PASSED"

layoutVars == <<size, idle, checked, used, planned, settled, trusted, announced>>

LayoutInit ==
    /\ size \in Nat
    /\ idle \subseteq 1..size /\ checked \subseteq 1..size
    /\ used = 0 /\ planned = {} /\ settled = 0
    /\ trusted = {} /\ announced = FALSE

\* The next nonce is used, by the plan or by something else.
ConsumePlanned ==
    /\ used < size /\ 1..used \subseteq planned \cup trusted
    /\ used' = used + 1 /\ planned' = planned \cup {used + 1}
    /\ UNCHANGED <<size, idle, checked, settled, trusted, announced>>

ConsumeOther ==
    /\ used' = used + 1
    /\ planned' = planned \/ (used + 1 \in idle /\ planned' = planned \cup {used + 1})
    /\ UNCHANGED <<size, idle, checked, settled, trusted, announced>>

\* A reorganisation takes back what had not settled.
Undo ==
    /\ used' = settled /\ planned' = planned \cap 1..settled
    /\ UNCHANGED <<size, idle, checked, settled, trusted, announced>>

\* What settles as planned need not be trusted any more.
Settle ==
    /\ settled' = used
    /\ trusted' \in SUBSET trusted /\ trusted \ trusted' \subseteq planned
    /\ UNCHANGED <<size, idle, checked, used, planned, announced>>

\* A step is taken for made.
Trust ==
    /\ \E n \in 1..size : trusted' = trusted \cup {n}
    /\ UNCHANGED <<size, idle, checked, used, planned, settled, announced>>

Announce ==
    /\ 1..size \subseteq planned \cup (trusted \ checked)
    /\ announced' = TRUE
    /\ UNCHANGED <<size, idle, checked, used, planned, settled, trusted>>

LayoutNext == ConsumePlanned \/ ConsumeOther \/ Undo \/ Settle \/ Trust \/ Announce

LayoutSpec == LayoutInit /\ [][LayoutNext]_layoutVars
=============================================================================
