---------------------------- MODULE MCDeployment ----------------------------
(***************************************************************************)
(* A small instance of Deployment: one attestation and one subscription,   *)
(* which the script makes, and one request at a time.                      *)
(***************************************************************************)
EXTENDS Deployment, MCWatcher

=============================================================================
