-------------------------- MODULE MCRecordedDeploy --------------------------
(***************************************************************************)
(* The state files in use, each with the scripts that work on it.          *)
(***************************************************************************)
EXTENDS RecordedDeploy, RecordedPlans

File(scripts, exist) == [chain |-> "sepolia", scripts |-> scripts, exist |-> exist]
OnChain(chain) ==
    [chain |-> chain, scripts |-> <<Verify(<<"factory", "router">>)>>,
     exist |-> <<"factory", "router">>]
MCFiles ==
    {File(<<SepoliaV3, Seed, Rings, CheckHashes>>, <<>>),
     File(<<SepoliaV2>>, <<"factory", "revenue">>),
     File(<<Periphery>>, <<"factory">>),
     File(<<Margin, Verify(<<"marginOracle", "marginModule">>)>>, <<"factory">>),
     File(<<Revenue, AddRewards, EnableFees, CollectFees, Collector>>, <<"factory", "pool">>),
     File(<<Payment>>, <<"converter">>)}
    \cup {OnChain(c) : c \in DOMAIN Chains}

MCBuilds == {[pool |-> 1, declared |-> 1], [pool |-> 2, declared |-> 2],
             [pool |-> 2, declared |-> 1]}
=============================================================================
