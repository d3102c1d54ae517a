---------------------------- MODULE Verification ----------------------------
(***************************************************************************)
(* The two-level ICS-23 membership check of verification.rs, with a        *)
(* symbolic, collision-free hash: the root of a tree is the tree's kind    *)
(* together with the set of its leaves, so equal roots are equal trees.    *)
(*                                                                         *)
(*   root              [spec, leaves]; spec is "iavl" or "tendermint", a   *)
(*                     leaf is [key, value]                                *)
(*   existence proof   [spec, key, value, siblings]: the leaf and the rest *)
(*                     of the tree it claims to sit in                     *)
(*   CommitmentProof   [type, entries]: "exist" (one entry), "batch"       *)
(*                     (batch and compressed proofs, several entries),     *)
(*                     "nonexist", or "undecodable" bytes                  *)
(*   MerkleProof       [decodes, proofs]: the submitted bytes              *)
(*                                                                         *)
(* Anyone can build an existence proof for any leaf of a tree of his own:  *)
(* what binds a proof to a chain is the root it is compared with.          *)
(***************************************************************************)
EXTENDS Naturals, Sequences

CONSTANT
    Empty      \* the empty byte string, also the empty text

Leaf(key, value) == [key |-> key, value |-> value]

(***************************************************************************)
(* ics23: the root of the tree an existence proof describes. ics23 refuses *)
(* a leaf with an empty key or value, so such a proof has no root.         *)
(***************************************************************************)
HasRoot(ep) == ep.key # Empty /\ ep.value # Empty

calculate_existence_root(ep) ==
    [spec |-> ep.spec, leaves |-> ep.siblings \cup {Leaf(ep.key, ep.value)}]

(***************************************************************************)
(* ics23: the existence proof a commitment proof holds for a key. A batch  *)
(* offers the first of its entries with that key.                          *)
(***************************************************************************)
OffersFor(commitment, key) ==
    CASE commitment.type = "exist" -> {1}
      [] commitment.type = "batch" ->
            {i \in DOMAIN commitment.entries :
                /\ commitment.entries[i].key = key
                /\ \A j \in 1..(i - 1) : commitment.entries[j].key # key}
      [] OTHER -> {}

verify_membership(commitment, spec, root, key, value) ==
    \E i \in OffersFor(commitment, key) :
        LET ep == commitment.entries[i]
        IN  /\ ep.spec = spec
            /\ ep.key = key
            /\ ep.value = value
            /\ HasRoot(ep)
            /\ calculate_existence_root(ep) = root

(***************************************************************************)
(* proto.rs: decode_merkle_proof, "Ok" or the error it returns.            *)
(***************************************************************************)
decode_merkle_proof(proof) ==
    IF ~proof.decodes THEN "ProtoDecode"
    ELSE IF Len(proof.proofs) # 2 THEN "ProofVerificationFailed"
    ELSE "Ok"

\* The store's own root is checked, but not that the application hash commits
\* to it.
verify_chained_membership_OneLevel(app_hash, proof, key_path, key, value) ==
    IF key_path = << >> THEN "EmptyKeyPath"
    ELSE IF decode_merkle_proof(proof) # "Ok" THEN decode_merkle_proof(proof)
    ELSE LET iavl == proof.proofs[1]
         IN  IF /\ iavl.type = "exist"
                /\ HasRoot(iavl.entries[1])
                /\ verify_membership(iavl, "iavl",
                        calculate_existence_root(iavl.entries[1]), key, value)
             THEN "Ok" ELSE "ProofVerificationFailed"

\* The two levels are taken in the order of the tree, root first.
verify_chained_membership_Swapped(app_hash, proof, key_path, key, value) ==
    IF key_path = << >> THEN "EmptyKeyPath"
    ELSE IF decode_merkle_proof(proof) # "Ok" THEN decode_merkle_proof(proof)
    ELSE LET iavl == proof.proofs[2]
             simple == proof.proofs[1]
         IN  IF /\ iavl.type = "exist"
                /\ HasRoot(iavl.entries[1])
                /\ verify_membership(iavl, "iavl",
                        calculate_existence_root(iavl.entries[1]), key, value)
                /\ verify_membership(simple, "tendermint", app_hash, key_path[1],
                        calculate_existence_root(iavl.entries[1]))
             THEN "Ok" ELSE "ProofVerificationFailed"

(***************************************************************************)
(* verification.rs: verify_chained_membership. The module root is computed *)
(* from the first proof itself; only the second comparison, with app_hash, *)
(* ties it to anything. Only the first element of key_path is used.        *)
(***************************************************************************)
verify_chained_membership(app_hash, proof, key_path, key, value) ==
    IF key_path = << >> THEN "EmptyKeyPath"
    ELSE IF decode_merkle_proof(proof) # "Ok" THEN decode_merkle_proof(proof)
    ELSE LET iavl_commitment == proof.proofs[1]
             simple_commitment == proof.proofs[2]
             iavl_existence == iavl_commitment.entries[1]
             module_root == calculate_existence_root(iavl_existence)
         IN  IF "undecodable" \in {iavl_commitment.type, simple_commitment.type}
             THEN "ProtoDecode"
             ELSE IF /\ iavl_commitment.type = "exist"
                     /\ HasRoot(iavl_existence)
                     /\ verify_membership(iavl_commitment, "iavl", module_root, key, value)
                     /\ verify_membership(simple_commitment, "tendermint", app_hash,
                                          key_path[1], module_root)
             THEN "Ok"
             ELSE "ProofVerificationFailed"

-----------------------------------------------------------------------------
(***************************************************************************)
(* What an honest node of the remote chain answers, for the state `chain'  *)
(* of its multistore (a function from store names to stores, a store being *)
(* a function from keys to values): the AppHash of its header, and the two *)
(* proof operations abci_query returns with prove=true.                    *)
(***************************************************************************)
StoreRoot(store) ==
    [spec |-> "iavl", leaves |-> {Leaf(k, store[k]) : k \in DOMAIN store}]

AppHash(chain) ==
    [spec |-> "tendermint",
     leaves |-> {Leaf(s, StoreRoot(chain[s])) : s \in DOMAIN chain}]

ProofIn(root, leaf) ==
    [type |-> "exist",
     entries |-> << [spec |-> root.spec, key |-> leaf.key, value |-> leaf.value,
                     siblings |-> root.leaves \ {leaf}] >>]

(***************************************************************************)
(* The watcher's buildMerkleProof: the two operations, store level first.  *)
(***************************************************************************)
buildMerkleProof(proofOps) == [decodes |-> TRUE, proofs |-> proofOps]

ProofOps(chain, store, key) ==
    << ProofIn(StoreRoot(chain[store]), Leaf(key, chain[store][key])),
       ProofIn(AppHash(chain), Leaf(store, StoreRoot(chain[store]))) >>

=============================================================================
