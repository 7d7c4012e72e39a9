------------------------------- MODULE Chains -------------------------------
(***************************************************************************)
(* The chains Dex223 can be deployed to, as far as the scripts behave      *)
(* differently on them: whether a converter is there to be reused, and     *)
(* which explorer verifies sources.  Addresses, prices and endpoints are   *)
(* left out.                                                               *)
(***************************************************************************)

Etherscan == [kind |-> "etherscan", paidOnly |-> FALSE, fallback |-> FALSE]
PaidOnly(fallback) == [kind |-> "etherscan", paidOnly |-> TRUE, fallback |-> fallback]
Compatible == [kind |-> "compatible", paidOnly |-> FALSE, fallback |-> FALSE]

Facts(converter, verifier) == [converter |-> converter, verifier |-> verifier]

Chains ==
    [mainnet |-> Facts(TRUE, Etherscan), base |-> Facts(FALSE, PaidOnly(TRUE)),
     bsc |-> Facts(FALSE, PaidOnly(FALSE)), arbitrum |-> Facts(FALSE, Etherscan),
     polygon |-> Facts(FALSE, Etherscan), avalanche |-> Facts(FALSE, Compatible),
     optimism |-> Facts(FALSE, PaidOnly(TRUE)), monad |-> Facts(FALSE, Etherscan),
     unichain |-> Facts(FALSE, Etherscan), plasma |-> Facts(FALSE, Etherscan),
     sonic |-> Facts(FALSE, Etherscan), linea |-> Facts(FALSE, Etherscan),
     ink |-> Facts(FALSE, Compatible), mantle |-> Facts(FALSE, Etherscan),
     eosevm |-> Facts(FALSE, Compatible)]

\* Sepolia is not of the list.
Verifier(chain) == IF chain \in DOMAIN Chains THEN Chains[chain].verifier ELSE Etherscan

\* What the operator has: no key, a key of the free or of a paid plan, or the wish to
\* use the fallback explorer; and whether a script can verify on the chain with it.
Access == {"none", "free", "paid", "fallback"}
Serves(chain, access) ==
    LET v == Verifier(chain) IN
    \/ v.kind = "compatible"
    \/ access = "paid"
    \/ access = "fallback" /\ v.fallback
    \/ access = "free" /\ ~ v.paidOnly
=============================================================================
