-------------------------- MODULE DeploymentPlans --------------------------
(***************************************************************************)
(* The plans of the scripts that deploy at planned nonces (deploy-mainnet, *)
(* deploy-mainnet-v2, deploy-v3, deploy-chain) or act at them              *)
(* (handover-to-multisig, upgrade-pool-lib-mainnet).                       *)
(*                                                                         *)
(* Step i runs at the deployer's nonce start + i - 1.  The address of a    *)
(* contract depends on the deployer and the nonce alone, so here the nonce *)
(* stands for it.  A step names the contract it creates or calls (on) and  *)
(* the contracts whose addresses its arguments or libraries carry (uses),  *)
(* those of the same plan only.                                            *)
(***************************************************************************)
EXTENDS Naturals, Sequences, SequencesExt

Deploy(key, uses) == [kind |-> "deploy", key |-> key, on |-> key, uses |-> uses]
Call(key, on, uses) == [kind |-> "call", key |-> key, on |-> on, uses |-> uses]
\* A call that anybody may make, and that nobody can make a second time.
OpenCall(key, on, uses) == [kind |-> "open", key |-> key, on |-> on, uses |-> uses]
Burn == [kind |-> "burn", key |-> "burn", on |-> "none", uses |-> {}]
Burns(n) == [k \in 1..n |-> Burn]

PoolLib == Deploy("poolLib", {})
QuoteLib == Deploy("quoteLib", {})
Validator == Deploy("validator", {})
Factory == Deploy("factory", {"validator"})
SetLibraries(uses) == Call("factory.set", "factory", uses)
Libraries == {"poolLib", "quoteLib"}
Router == Deploy("router", {"factory"})
Quoter == Deploy("quoter", {"factory"})
Manager(uses) == Deploy("positionManager", {"factory"} \cup uses)
Descriptor == <<Deploy("nftDescriptorLib", {}),
                Deploy("positionDescriptor", {"nftDescriptorLib"}),
                Manager({"positionDescriptor"})>>
CoreListing(uses) == Deploy("coreAutolisting", {"factory"} \cup uses)
FreeListing(uses) == Deploy("freeAutolisting", {"factory"} \cup uses)
Price(key) == Call(key, "coreAutolisting", {})

MainnetPlan ==
    Burns(3) \o <<PoolLib, QuoteLib, Validator, Factory, SetLibraries(Libraries)>>
    \o Burns(1) \o <<Router, Manager({}), Quoter, FreeListing({}), CoreListing({}),
                     Price("setPaymentPrice")>>

MainnetV2Plan ==
    Burns(2) \o <<PoolLib, QuoteLib>> \o Burns(4)
    \o <<Validator, Factory, SetLibraries(Libraries), Router, CoreListing({}),
         FreeListing({}), Manager({}), Quoter, Price("setPaymentPrice")>>

\* burns: how many nonces collide with the other chain; prices: the calls
\* that price a listing.  Neither chain reuses a library.
V3Plan(burns, prices) ==
    Burns(burns) \o <<PoolLib, QuoteLib, Validator, Factory, SetLibraries(Libraries), Router>>
    \o Descriptor \o <<Quoter, CoreListing({}), FreeListing({})>>
    \o [k \in DOMAIN prices |-> Price(prices[k])]
    \o <<Deploy("marginOracle", {"factory"}),
         Deploy("marginModule", {"factory", "router", "marginOracle"}),
         Deploy("feeCollector", {"factory"}),
         Call("factory.setOwner", "factory", {"feeCollector"})>>

\* On a chain that has a converter, nonce 0 is burned and the converter the
\* steps refer to is not of the plan.
ChainPlan(reuseConverter, withD223) ==
    LET converter == IF reuseConverter THEN {} ELSE {"converter"}
    IN  <<IF reuseConverter THEN Burn ELSE Deploy("converter", {}), Deploy("registry", {}),
          Burn, PoolLib, QuoteLib, Validator, Factory, SetLibraries(Libraries \cup converter),
          Burn, Deploy("router", {"factory"} \cup converter)>>
        \o Descriptor
        \o <<Quoter, FreeListing({"registry"}), CoreListing({"registry"} \cup converter),
             Price("setPaymentPrice")>>
        \o IF withD223
           THEN <<Deploy("d223", {}),
                  OpenCall("createERC20Wrapper",
                           IF reuseConverter THEN "none" ELSE "converter", {"d223"}),
                  Deploy("revenue", {"d223"} \cup converter),
                  Call("add_reward_token", "revenue", {})>>
           ELSE <<>>

\* The multisig takes over contracts an earlier plan deployed.
HandoverPlan ==
    <<Deploy("multisig", {}), Call("factory.setOwner", "none", {"multisig"}),
      Call("core.transferOwnership", "none", {"multisig"}),
      Call("free.transferOwnership", "none", {"multisig"})>>

UpgradePlan == <<PoolLib, Call("factory.set", "none", {"poolLib"})>>

-----------------------------------------------------------------------------
(* The pinned layouts: where each contract must come out.                  *)

MainnetExpected ==
    [poolLib |-> 3, quoteLib |-> 4, validator |-> 5, factory |-> 6, router |-> 9,
     positionManager |-> 10, quoter |-> 11, freeAutolisting |-> 12, coreAutolisting |-> 13]

MainnetV2Expected ==
    [poolLib |-> 34, quoteLib |-> 35, validator |-> 40, factory |-> 41, router |-> 43,
     coreAutolisting |-> 44, freeAutolisting |-> 45, positionManager |-> 46, quoter |-> 47]

V3MainnetExpected ==
    [poolLib |-> 66, quoteLib |-> 67, validator |-> 68, factory |-> 69, router |-> 71,
     nftDescriptorLib |-> 72, positionDescriptor |-> 73, positionManager |-> 74, quoter |-> 75,
     coreAutolisting |-> 76, freeAutolisting |-> 77, marginOracle |-> 79, marginModule |-> 80,
     feeCollector |-> 81]

V3SepoliaExpected ==
    [poolLib |-> 161, quoteLib |-> 162, validator |-> 163, factory |-> 164, router |-> 166,
     nftDescriptorLib |-> 167, positionDescriptor |-> 168, positionManager |-> 169,
     quoter |-> 170, coreAutolisting |-> 171, freeAutolisting |-> 172, marginOracle |-> 176,
     marginModule |-> 177, feeCollector |-> 178]

ChainExpectedAll ==
    [converter |-> 0, registry |-> 1, poolLib |-> 3, quoteLib |-> 4, validator |-> 5,
     factory |-> 6, router |-> 9, nftDescriptorLib |-> 10, positionDescriptor |-> 11,
     positionManager |-> 12, quoter |-> 13, freeAutolisting |-> 14, coreAutolisting |-> 15,
     d223 |-> 17, revenue |-> 19]
\* A chain's layout leaves out what its plan does not deploy.
ChainExpected(reuseConverter, withD223) ==
    LET left == (IF reuseConverter THEN {"converter"} ELSE {})
                \cup (IF withD223 THEN {} ELSE {"d223", "revenue"})
    IN  [k \in DOMAIN ChainExpectedAll \ left |-> ChainExpectedAll[k]]

-----------------------------------------------------------------------------
(* The scripts.  unread: the contracts that no check at the end reads: one *)
(* is taken for deployed because its step is.  wait: whether the wait for  *)
(* a receipt is bounded (tx-wait.ts) or is tx.wait of ethers.  looks: how  *)
(* a step that was already made is told: from the state file first, from   *)
(* the chain alone, or from the nonce and then the chain.                  *)

MainnetScript ==
    [start |-> 0, steps |-> MainnetPlan, pinned |-> MainnetExpected,
     unread |-> Libraries \cup {"validator"}, wait |-> "ethers", looks |-> "record"]

MainnetV2Script ==
    [start |-> 32, steps |-> MainnetV2Plan, pinned |-> MainnetV2Expected,
     unread |-> Libraries \cup {"validator"}, wait |-> "ethers", looks |-> "record"]

V3Unread == Libraries \cup {"validator", "nftDescriptorLib"}
V3MainnetScript ==
    [start |-> 60, steps |-> V3Plan(6, <<"price USDT">>), pinned |-> V3MainnetExpected,
     unread |-> V3Unread, wait |-> "bounded", looks |-> "record"]
V3SepoliaScript ==
    [start |-> 161, steps |-> V3Plan(0, <<"price ETH", "price RED", "price TOT1">>),
     pinned |-> V3SepoliaExpected, unread |-> V3Unread, wait |-> "bounded", looks |-> "record"]

ChainScript(reuseConverter, withD223) ==
    [start |-> 0, steps |-> ChainPlan(reuseConverter, withD223),
     pinned |-> ChainExpected(reuseConverter, withD223),
     unread |-> V3Unread \cup {"registry"} \cup (IF withD223 THEN {} ELSE {"converter"}),
     wait |-> "ethers", looks |-> "record"]

\* The new owner is read back from all it owns.
HandoverUnread == {}
HandoverScript ==
    [start |-> 17, steps |-> HandoverPlan, pinned |-> [multisig |-> 17],
     unread |-> HandoverUnread, wait |-> "ethers", looks |-> "chain"]

UpgradeScript ==
    [start |-> 15, steps |-> UpgradePlan, pinned |-> [poolLib |-> 15],
     unread |-> {}, wait |-> "ethers", looks |-> "nonce"]
=============================================================================
