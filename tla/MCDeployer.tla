----------------------------- MODULE MCDeployer -----------------------------
(* Bounds for the deployment script.                                       *)
EXTENDS Deployer
=============================================================================
