---------------------------- MODULE MCSwapRouter ----------------------------
(***************************************************************************)
(* Two users, one with two units of b, one with ether.  Ether buys a, whose *)
(* first version calls its recipients as well; b buys it through wrapped   *)
(* ether.                                                                  *)
(***************************************************************************)
EXTENDS SwapRouter

MCPaths == {<<"a", "w">>, <<"b", "w", "a">>}
MCWallets ==
    [u \in Users |-> [t \in Tokens |-> IF u = "ann" /\ t = Erc223("b") THEN 2 ELSE 0]]
MCEther == [u \in Users |-> IF u = "ben" THEN 1 ELSE 0]
=============================================================================
