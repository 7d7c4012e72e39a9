---------------------------- MODULE MCDeployment ----------------------------
(***************************************************************************)
(* Every script with its real plan and pins.                               *)
(***************************************************************************)
EXTENDS Deployment, DeploymentPlans, Chains

MCScripts ==
    {MainnetScript, MainnetV2Script, V3MainnetScript, V3SepoliaScript,
     ChainScript(Chains["base"].converter, TRUE), ChainScript(Chains["mainnet"].converter, FALSE),
     HandoverScript, UpgradeScript}
=============================================================================
