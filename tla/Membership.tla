----------------------------- MODULE Membership -----------------------------
(***************************************************************************)
(* verify_chained_membership and the proofs it may be given: those honest  *)
(* nodes answer for several states of a chain, and whatever can be put     *)
(* together from existence proofs over other trees, in any order, number   *)
(* or encoding. A submission is verified against the application hash of   *)
(* the state the chain is in.                                              *)
(***************************************************************************)
EXTENDS Verification, FiniteSets

CONSTANTS
    Chains,     \* the states of the multistore
    Stores,     \* the names of stores
    Keys,
    Values

ASSUME ChainsAssumption ==
    /\ Empty \notin Stores \cup Keys \cup Values
    /\ \A c \in Chains : /\ DOMAIN c \subseteq Stores
                         /\ \A s \in DOMAIN c : /\ DOMAIN c[s] \subseteq Keys
                                                /\ \A k \in DOMAIN c[s] : c[s][k] \in Values
                                                /\ StoreRoot(c[s]) # Empty

VARIABLES
    chain,        \* the state whose application hash is submitted
    submission,   \* the message under way
    result        \* what verify_chained_membership answered, or "none"

vars == << chain, submission, result >>

NoSubmission == [key_path |-> << >>]

-----------------------------------------------------------------------------
\* Existence proofs over any tree of the known leaves, of either kind of tree.
LeafProofs ==
    [spec : {"iavl", "tendermint"}, key : Keys, value : Values,
     siblings : SUBSET {Leaf(k, v) : k \in Keys, v \in Values}]

\* The roots of the stores of the states of the chain.
StoreRoots == UNION {{StoreRoot(c[s]) : s \in DOMAIN c} : c \in Chains}

\* Existence proofs that some store has one of these roots, beside the stores of
\* a state of the chain, all of them or all but those of one root.
RootProofs(root) ==
    {[spec |-> "tendermint", key |-> s, value |-> r,
      siblings |-> {leaf \in AppHash(c).leaves : leaf.value # out}] :
        s \in Stores, r \in StoreRoots \cup {root}, c \in Chains,
        out \in StoreRoots \cup {Empty}}

Exist(ep) == [type |-> "exist", entries |-> << ep >>]
Batch(ep) == [type |-> "batch", entries |-> << ep >>]
Undecodable == [type |-> "undecodable", entries |-> << >>]

\* Two levels in either order, one or both in another encoding; one level only.
Arrangements(low, high) ==
    {<< Exist(low), Exist(high) >>, << Exist(high), Exist(low) >>,
     << Batch(low), Exist(high) >>, << Exist(low), Batch(high) >>,
     << Exist(low), Undecodable >>, << Exist(low) >>}

-----------------------------------------------------------------------------
Init ==
    /\ chain \in Chains
    /\ submission = NoSubmission
    /\ result = "none"

Submit(key_path, proof, key, value) ==
    /\ submission' = [key_path |-> key_path, proof |-> proof, key |-> key, value |-> value]
    /\ UNCHANGED << chain, result >>

\* The proof operations of an honest node, joined by the watcher.
SubmitHonest ==
    /\ submission = NoSubmission
    /\ \E s \in DOMAIN chain : \E k \in DOMAIN chain[s] :
        Submit(<< s >>, buildMerkleProof(ProofOps(chain, s, k)), k, chain[s][k])

SubmitAny ==
    /\ submission = NoSubmission
    /\ \E low \in LeafProofs : \E high \in RootProofs(calculate_existence_root(low)) :
        \E proofs \in Arrangements(low, high), s \in Stores :
            Submit(<< s >>, buildMerkleProof(proofs), low.key, low.value)

Verify ==
    /\ submission # NoSubmission
    /\ result = "none"
    /\ result' = verify_chained_membership(AppHash(chain), submission.proof,
                        submission.key_path, submission.key, submission.value)
    /\ UNCHANGED << chain, submission >>

Next == SubmitHonest \/ SubmitAny \/ Verify

Spec == Init /\ [][Next]_vars

-----------------------------------------------------------------------------
\* Soundness: what is accepted is what the chain has under that key of that
\* store, in the very state its application hash is of (verification.rs: the
\* module root is computed from the proof itself, so everything hangs on the
\* comparison with app_hash).
OnlyCommittedValues ==
    result = "Ok" =>
        LET store == submission.key_path[1]
        IN  /\ store \in DOMAIN chain
            /\ submission.key \in DOMAIN chain[store]
            /\ chain[store][submission.key] = submission.value

\* Completeness: the two proof operations an honest node answers, joined in the
\* order it gives them, are accepted for any key of any store.
HonestProofsAccepted ==
    \A s \in Stores \cap DOMAIN chain : \A k \in Keys \cap DOMAIN chain[s] :
        /\ submission = [key_path |-> << s >>, proof |-> buildMerkleProof(ProofOps(chain, s, k)),
                         key |-> k, value |-> chain[s][k]]
        /\ result # "none"
        => result = "Ok"

=============================================================================
