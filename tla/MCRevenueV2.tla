---------------------------- MODULE MCRevenueV2 ----------------------------
(* A small instance of RevenueV2 for TLC: one version is staked, revenue    *)
(* arrives in one token, which a claim may name twice.                     *)
EXTENDS RevenueV2, TLC

CONSTANTS u1, u2, r1, erc20, erc223

Symmetry == Permutations(Users)

OneVersion == (Erc20 :> {1, 2}) @@ (Erc223 :> {})
Revenue2 == [t \in Tokens |-> IF t \in RewardTokens THEN {2} ELSE {}]
ClaimLists1 == {<<r1>>, <<r1, r1>>}
=============================================================================
