-------------------------- MODULE MCRevenueV2Notice --------------------------
(* A small instance of RevenueV2Notice for TLC: principal in both versions, *)
(* deposits, the lock and its schedule, sweeps; no reward token.           *)
EXTENDS RevenueV2Notice, TLC

CONSTANTS u1, u2, erc20, erc223

Symmetry == Permutations(Users)

BothVersions == (Erc20 :> {1, 2}) @@ (Erc223 :> {2})
SurplusOnly == (Erc20 :> {}) @@ (Erc223 :> {1})
NoClaims == {}
=============================================================================
