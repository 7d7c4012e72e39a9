-------------------------- MODULE MCTokenConverter --------------------------
(* Small instances of TokenConverter for TLC.                              *)
EXTENDS TokenConverter, TLC

CONSTANTS
    ann, ben,                \* users
    coin, coin223,           \* an ERC-20 token and its wrapper
    hyb, hyb20, hyb223,      \* an ERC-223 token with transferFrom, its wrappers
    hyb20w                   \* the ERC-223 wrapper of its ERC-20 wrapper

Wrapped223 == (coin :> coin223) @@ (hyb :> hyb223) @@ (hyb20 :> hyb20w)
Wrapped20 == (hyb :> hyb20)
StartBalances ==
    [t \in Tokens |-> [u \in Users |->
       IF <<t, u>> \in {<<coin, ann>>, <<hyb, ann>>} THEN 2
       ELSE IF <<t, u>> = <<hyb, ben>> THEN 1 ELSE 0]]
=============================================================================
