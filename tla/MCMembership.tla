---------------------------- MODULE MCMembership ----------------------------
(***************************************************************************)
(* Two states of a chain with the stores "wasm" and "bank".                *)
(***************************************************************************)
EXTENDS Membership, TLC

CONSTANTS k1, k2, v1, v2

Before == "wasm" :> (k1 :> v1 @@ k2 :> v2) @@ "bank" :> (k1 :> v1)
After == "wasm" :> (k1 :> v2 @@ k2 :> v2) @@ "bank" :> (k1 :> v1)

MCChains == {Before, After}

=============================================================================
