-------------------------- MODULE MembershipProofs --------------------------
(***************************************************************************)
(* Whatever is submitted to the contract for a chain, in any order: only   *)
(* values the chain has committed to are accepted, and everything an       *)
(* honest node proves is.                                                  *)
(***************************************************************************)
EXTENDS Membership, OperatorProofs

-----------------------------------------------------------------------------
\* What was answered is the answer to the submission there is.
Answered ==
    result # "none" =>
        /\ submission # NoSubmission
        /\ result = verify_chained_membership(AppHash(chain), submission.proof,
                        submission.key_path, submission.key, submission.value)

\* The state of the chain does not change while a submission is verified.
LEMMA AnsweredInvariant == Spec => [](Answered /\ chain \in Chains)
<1>1. Init => Answered /\ chain \in Chains
    BY DEF Init, Answered
<1>2. Answered /\ chain \in Chains /\ [Next]_vars => (Answered /\ chain \in Chains)'
    BY DEF Answered, Next, vars, SubmitHonest, SubmitAny, Submit, Verify
<1> QED BY <1>1, <1>2, PTL DEF Spec

\* Nothing is accepted that the chain does not have.
THEOREM Soundness == Spec => []OnlyCommittedValues
<1>1. Answered => OnlyCommittedValues
    BY ChainedSoundness DEF Answered, OnlyCommittedValues
<1> QED BY <1>1, AnsweredInvariant, PTL

\* Nothing an honest node proves is refused.
THEOREM Completeness == Spec => []HonestProofsAccepted
<1>1. ASSUME Answered, chain \in Chains PROVE HonestProofsAccepted
    <2> SUFFICES ASSUME NEW s \in DOMAIN chain, NEW k \in DOMAIN chain[s],
                        submission = [key_path |-> << s >>,
                                      proof |-> buildMerkleProof(ProofOps(chain, s, k)),
                                      key |-> k, value |-> chain[s][k]],
                        result # "none"
                 PROVE  result = "Ok"
        BY DEF HonestProofsAccepted
    <2>1. /\ submission.key_path = << s >> /\ submission.key = k
          /\ submission.value = chain[s][k]
          /\ submission.proof = buildMerkleProof(ProofOps(chain, s, k))
        OBVIOUS
    <2>2. result = verify_chained_membership(AppHash(chain),
                        buildMerkleProof(ProofOps(chain, s, k)), << s >>, k, chain[s][k])
        BY <1>1, <2>1 DEF Answered
    <2>3. Empty \notin {s, k, chain[s][k], StoreRoot(chain[s])}
        BY <1>1, ChainsAssumption
    <2> QED BY <2>2, <2>3, ChainedCompleteness
<1> QED BY <1>1, AnsweredInvariant, PTL

=============================================================================
