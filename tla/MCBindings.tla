----------------------------- MODULE MCBindings -----------------------------
(* All bindings, in the deployments that occur.                            *)
EXTENDS Bindings, BoundContracts
=============================================================================
