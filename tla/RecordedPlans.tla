--------------------------- MODULE RecordedPlans ---------------------------
(***************************************************************************)
(* The scripts that deploy at whatever nonce is next and resume from a     *)
(* file of addresses, and those that configure what such a file records.   *)
(*                                                                         *)
(* A step names the contract it creates or calls (on), and what its        *)
(* arguments carry (uses): contracts of the file, inputs of the operator,  *)
(* or, for a setting, a name for it.  looks says how a run tells that the  *)
(* step was made: by the address in the file (file), by that address and   *)
(* its recorded arguments (args), by that address and what the contract    *)
(* answers (read), by the effect on the chain (chain), by the explorer, or *)
(* not at all.                                                             *)
(***************************************************************************)
EXTENDS Sequences, SequencesExt

Step(kind, key, on, uses, looks) ==
    [kind |-> kind, key |-> key, on |-> on, uses |-> uses, looks |-> looks]
Deploy(key, uses) == Step("deploy", key, key, uses, "file")
Call(key, on, uses) == Step("call", key, on, uses, "chain")
Set(setting, on) == Call(setting, on, {setting})
Sets(settings, on) == [k \in DOMAIN settings |-> Set(settings[k], on)]

SepoliaV3Steps ==
    <<Deploy("poolLib", {}), Deploy("quoteLib", {}), Deploy("validator", {}),
      Deploy("factory", {"validator"}), Call("factory.set", "factory", {"poolLib", "quoteLib"}),
      Deploy("router", {"factory"}), Deploy("positionManager", {"factory"}),
      Deploy("quoter", {"factory"}), Deploy("freeAutolisting", {"factory"}),
      Deploy("coreAutolisting", {"factory"})>>
    \o Sets(<<"price ETH", "price RED", "price TOT1">>, "coreAutolisting")
    \o <<Deploy("marginOracle", {"factory"}),
         Deploy("marginModule", {"factory", "router", "marginOracle"})>>

SepoliaV2Steps ==
    <<Deploy("poolLibV2", {}), Deploy("router", {"factory"}),
      Deploy("positionManager", {"factory"}),
      Deploy("quoter", {"factory"}), Deploy("freeAutolisting", {"factory"}),
      Deploy("coreAutolisting", {"factory"})>>
    \o Sets(<<"price ETH", "price RED", "price TOT1">>, "coreAutolisting")
    \o <<Call("collector.execute", "factory", {"poolLibV2"}),
         Call("revenue.set_factory", "revenue", {"factory"})>>

PeripherySteps ==
    <<Deploy("router", {"factory"}), Deploy("nftDescriptorLib", {}),
      Deploy("positionDescriptor", {"nftDescriptorLib"}),
      Deploy("nfpm", {"factory", "positionDescriptor"})>>

\* inputs: the factory, router and TWAP window the operator passes.
MarginSteps ==
    <<Step("deploy", "marginOracle", "marginOracle", {"inputs"}, "args"),
      Step("deploy", "marginModule", "marginModule", {"inputs", "marginOracle"}, "args")>>

\* Every run deploys a Revenue of its own.
RevenueSteps ==
    <<Step("deploy", "revenue", "revenue", {}, "nothing"), Set("reward WETH", "revenue"),
      Step("call", "transfer_ownership", "revenue", {"transfer_ownership"}, "nothing")>>

AddRewardsSteps == Sets(<<"reward USDT", "reward USDC">>, "revenue")

CollectorSteps ==
    <<Step("deploy", "feeCollector", "feeCollector", {"factory", "revenue"}, "read"),
      Call("factory.setOwner", "factory", {"feeCollector"})>>

SeedSteps ==
    Sets(<<"mint RED", "mint TOT1", "deposit WETH", "approve RED", "approve TOT1", "approve WETH",
           "pool RED/TOT1", "liquidity RED/TOT1", "observations RED/TOT1",
           "pool WETH/RED", "liquidity WETH/RED", "observations WETH/RED">>, "positionManager")

\* Only a pool that has accrued fees is collected from.
EnableFeesSteps == <<Step("call", "setFeeProtocol", "pool", {"setFeeProtocol"}, "nothing")>>
CollectFeesSteps == <<Set("collectProtocol", "pool")>>

\* The rings of all pools, those that users created included.
RingSteps ==
    Sets(<<"observations RED/TOT1", "observations WETH/RED", "observations other">>,
         "positionManager")

PaymentSteps ==
    <<Step("deploy", "paymentReceiver", "paymentReceiver", {}, "nothing"),
      Step("deploy", "safeSendRouter", "safeSendRouter", {"converter"}, "nothing")>>

VerifySteps(keys) ==
    [n \in DOMAIN keys |-> Step("verify", "verified " \o keys[n], keys[n], {}, "explorer")]

-----------------------------------------------------------------------------
(* The scripts.  needs: what the file must have.  hash: whether the pool   *)
(* bytecode of this checkout must be that of PoolAddress.sol (declared),   *)
(* also that of the recorded factory (recorded), or is not looked at.      *)
(* asOwner: it acts as the owner of the factory.  checks: the contracts    *)
(* whose code it compares.  reads: the steps whose effect the checks at    *)
(* the end read.  wait: as in DeploymentPlans.                             *)

Script(name, steps, needs, hash, reads, wait) ==
    [name |-> name, steps |-> steps, needs |-> needs, hash |-> hash, asOwner |-> FALSE,
     checks |-> {}, reads |-> reads, wait |-> wait]

SepoliaV3 == Script("sepolia-v3", SepoliaV3Steps, {}, "declared",
                    {"router", "marginModule"}, "ethers")
SepoliaV2 == Script("sepolia-v2", SepoliaV2Steps, {"factory", "revenue"}, "recorded",
                    {"router"}, "ethers")
Periphery == Script("periphery", PeripherySteps, {"factory"}, "recorded", {}, "ethers")
Margin == Script("margin", MarginSteps, {}, "none", {"marginOracle", "marginModule"}, "ethers")
Revenue == Script("revenue", RevenueSteps, {}, "none", {}, "ethers")
AddRewards == Script("add-rewards", AddRewardsSteps, {"revenue"}, "none", {}, "ethers")
EnableFees ==
    [Script("enable-fees", EnableFeesSteps, {}, "none", {}, "ethers") EXCEPT !.asOwner = TRUE]
CollectFees ==
    [Script("collect-fees", CollectFeesSteps, {"revenue"}, "none", {}, "ethers")
        EXCEPT !.asOwner = TRUE]
Collector == Script("fee-collector", CollectorSteps, {"factory", "revenue"}, "none",
                    {"feeCollector", "factory.setOwner"}, "ethers")
Seed == Script("seed", SeedSteps, {"factory", "positionManager"}, "none", {}, "bounded")
Rings == Script("rings", RingSteps, {"positionManager"}, "none", {}, "bounded")
Payment == Script("payment-receiver", PaymentSteps, {}, "none", {}, "ethers")
Verify(keys) ==
    LET steps == VerifySteps(keys)
    IN  Script("verify", steps, Range(keys), "none", {steps[n].key : n \in DOMAIN steps}, "ethers")

\* What sepolia-v3 recorded is compared with this checkout and with itself.
CheckHashes ==
    [Script("check-hashes", <<>>, {}, "none",
            {"factory", "factory.set", "router", "positionManager", "quoter", "freeAutolisting",
             "coreAutolisting", "marginOracle", "marginModule"}, "ethers")
        EXCEPT !.checks = {SepoliaV3Steps[n].key : n \in
                           {m \in DOMAIN SepoliaV3Steps : SepoliaV3Steps[m].kind = "deploy"}}]
=============================================================================
