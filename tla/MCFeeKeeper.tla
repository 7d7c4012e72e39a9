---------------------------- MODULE MCFeeKeeper ----------------------------
(***************************************************************************)
(* Three pools, one of which refuses to pay and one of which is created    *)
(* meanwhile, taken two at a time; the tokens of their first sides are     *)
(* listed as rewards; an invocation is for two networks.                   *)
(***************************************************************************)
EXTENDS FeeKeeper

MCNetworks == <<"other", "here">>
MCSideToken == [p \in Pools |-> [s \in Sides |-> IF s = 0 THEN "weth" ELSE "usdc"]]
=============================================================================
