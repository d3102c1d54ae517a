--------------------------- MODULE OperatorProofs ---------------------------
(***************************************************************************)
(* What the pure operators of the contracts and of the watcher compute,    *)
(* for every input. The chained membership check is sound and complete,    *)
(* for every chain, every proof and every key, under the one assumption    *)
(* Verification makes: equal roots are equal trees.                        *)
(***************************************************************************)
EXTENDS CheckCondition, Verification, SequenceTheorems, TLAPS

-----------------------------------------------------------------------------
(***************************************************************************)
(* Sequences of anything, such as a mempool: what is put at the end, and   *)
(* what is taken off the front.                                            *)
(***************************************************************************)
IsSeq(s) == s \in Seq({s[i] : i \in DOMAIN s})

\* A sequence of some set is one of its own elements.
LEMMA SeqOfSome ==
    ASSUME NEW S, NEW s \in Seq(S)
    PROVE  IsSeq(s) /\ Len(s) \in Nat /\ DOMAIN s = 1..Len(s)
<1>1. Len(s) \in Nat /\ DOMAIN s = 1..Len(s) /\ s \in [1..Len(s) -> S]
    BY LenProperties
<1>2. s \in [1..Len(s) -> {s[i] : i \in DOMAIN s}]
    BY <1>1
<1> QED BY <1>1, <1>2 DEF IsSeq

LEMMA SeqLength ==
    ASSUME NEW s, IsSeq(s)
    PROVE  Len(s) \in Nat /\ DOMAIN s = 1..Len(s)
BY LenProperties DEF IsSeq

LEMMA AppendSeq ==
    ASSUME NEW s, IsSeq(s), NEW e
    PROVE  LET t == Append(s, e)
           IN  /\ IsSeq(t)
               /\ Len(t) = Len(s) + 1
               /\ t[Len(s) + 1] = e
               /\ \A i \in 1..Len(s) : t[i] = s[i]
<1> DEFINE S == {s[i] : i \in DOMAIN s} \cup {e}
<1>1. s \in Seq(S) /\ e \in S
    BY SeqMonotonic DEF IsSeq
<1> HIDE DEF S
<1>2. /\ Append(s, e) \in Seq(S)
      /\ Len(Append(s, e)) = Len(s) + 1
      /\ Append(s, e)[Len(s) + 1] = e
      /\ \A i \in 1..Len(s) : Append(s, e)[i] = s[i]
    BY <1>1, AppendProperties
<1> QED BY <1>2, SeqOfSome

LEMMA TailSeq ==
    ASSUME NEW s, IsSeq(s), s # << >>
    PROVE  /\ Len(s) \in Nat \ {0}
           /\ Head(s) = s[1]
           /\ IsSeq(Tail(s))
           /\ Len(Tail(s)) = Len(s) - 1
           /\ \A i \in 1..(Len(s) - 1) : Tail(s)[i] = s[i + 1]
<1> DEFINE S == {s[i] : i \in DOMAIN s}
<1>1. s \in Seq(S)
    BY DEF IsSeq
<1> HIDE DEF S
<1>2. /\ Tail(s) \in Seq(S)
      /\ Len(Tail(s)) = Len(s) - 1
      /\ \A i \in 1..Len(Tail(s)) : Tail(s)[i] = s[i + 1]
    BY <1>1, HeadTailProperties
<1>3. Len(s) \in Nat \ {0}
    BY <1>1, LenProperties, EmptySeq
<1>4. Head(s) = s[1]
    BY <1>1
<1> QED BY <1>2, <1>3, <1>4, SeqOfSome

-----------------------------------------------------------------------------
(***************************************************************************)
(* Proofs.                                                                 *)
(***************************************************************************)

\* A tree has the leaf of each existence proof that computes its root.
LEMMA LeafInRoot ==
    ASSUME NEW commitment, NEW spec, NEW root, NEW key, NEW value,
           verify_membership(commitment, spec, root, key, value)
    PROVE  root.spec = spec /\ Leaf(key, value) \in root.leaves
<1>1. PICK i \in OffersFor(commitment, key) :
        LET ep == commitment.entries[i]
        IN  /\ ep.spec = spec /\ ep.key = key /\ ep.value = value
            /\ calculate_existence_root(ep) = root
    BY DEF verify_membership
<1> QED BY <1>1 DEF calculate_existence_root

\* Leaves are the same only with the same key and the same value.
LEMMA LeafInjective ==
    ASSUME NEW k, NEW v, NEW l, NEW w, Leaf(k, v) = Leaf(l, w)
    PROVE  k = l /\ v = w
<1>1. Leaf(k, v).key = k /\ Leaf(k, v).value = v /\ Leaf(l, w).key = l /\ Leaf(l, w).value = w
    BY DEF Leaf
<1> QED BY <1>1

\* The application hash has the roots of the stores and the root of a store its
\* keys and values, and nothing else.
LEMMA LeafOfChain ==
    ASSUME NEW c, NEW s, NEW root, Leaf(s, root) \in AppHash(c).leaves,
           NEW k, NEW v, Leaf(k, v) \in root.leaves
    PROVE  s \in DOMAIN c /\ k \in DOMAIN c[s] /\ c[s][k] = v
<1>1. PICK t \in DOMAIN c : Leaf(s, root) = Leaf(t, StoreRoot(c[t]))
    BY DEF AppHash
<1>2. s \in DOMAIN c /\ root = StoreRoot(c[s])
    BY <1>1, LeafInjective
<1>3. PICK l \in DOMAIN c[s] : Leaf(k, v) = Leaf(l, c[s][l])
    BY <1>2 DEF StoreRoot
<1> QED BY <1>2, <1>3, LeafInjective

\* verify_chained_membership: what it accepts under the application hash of a
\* state of the chain is in that state, in the store key_path names.
THEOREM ChainedSoundness ==
    ASSUME NEW c, NEW proof, NEW key_path, NEW key, NEW value,
           verify_chained_membership(AppHash(c), proof, key_path, key, value) = "Ok"
    PROVE  /\ key_path[1] \in DOMAIN c
           /\ key \in DOMAIN c[key_path[1]]
           /\ c[key_path[1]][key] = value
<1> DEFINE iavl == proof.proofs[1]
           simple == proof.proofs[2]
           root == calculate_existence_root(iavl.entries[1])
<1>1. /\ verify_membership(iavl, "iavl", root, key, value)
      /\ verify_membership(simple, "tendermint", AppHash(c), key_path[1], root)
    BY DEF verify_chained_membership, decode_merkle_proof
<1> HIDE DEF iavl, simple, root
<1>2. Leaf(key, value) \in root.leaves /\ Leaf(key_path[1], root) \in AppHash(c).leaves
    BY <1>1, LeafInRoot
<1> QED BY <1>2, LeafOfChain

\* A proof made from a tree computes the root of that tree.
LEMMA ProofOfLeaf ==
    ASSUME NEW spec, NEW leaves, NEW key, NEW value, Leaf(key, value) \in leaves,
           key # Empty, value # Empty
    PROVE  LET root == [spec |-> spec, leaves |-> leaves]
               commitment == ProofIn(root, Leaf(key, value))
           IN  /\ commitment.type = "exist"
               /\ HasRoot(commitment.entries[1])
               /\ calculate_existence_root(commitment.entries[1]) = root
               /\ verify_membership(commitment, spec, root, key, value)
<1> DEFINE root == [spec |-> spec, leaves |-> leaves]
           commitment == ProofIn(root, Leaf(key, value))
           ep == commitment.entries[1]
<1>1. /\ commitment.type = "exist" /\ ep.spec = spec
      /\ ep.key = key /\ ep.value = value
      /\ ep.siblings = leaves \ {Leaf(key, value)}
    BY DEF ProofIn, Leaf
<1> HIDE DEF commitment
<1>2. HasRoot(ep) /\ calculate_existence_root(ep) = root
    BY <1>1 DEF HasRoot, calculate_existence_root
<1>3. 1 \in OffersFor(commitment, key)
    BY <1>1 DEF OffersFor
<1>4. verify_membership(commitment, spec, root, key, value)
    BY <1>1, <1>2, <1>3 DEF verify_membership
<1> QED BY <1>1, <1>2, <1>4 DEF commitment

\* buildMerkleProof: the two proof operations of an honest node are accepted for
\* every key of every store of the state they were asked of.
THEOREM ChainedCompleteness ==
    ASSUME NEW c, NEW s \in DOMAIN c, NEW k \in DOMAIN c[s],
           Empty \notin {s, k, c[s][k], StoreRoot(c[s])}
    PROVE  verify_chained_membership(AppHash(c), buildMerkleProof(ProofOps(c, s, k)),
                                     << s >>, k, c[s][k]) = "Ok"
<1> DEFINE proof == buildMerkleProof(ProofOps(c, s, k))
           low == ProofIn(StoreRoot(c[s]), Leaf(k, c[s][k]))
           high == ProofIn(AppHash(c), Leaf(s, StoreRoot(c[s])))
<1>1. /\ proof.decodes = TRUE /\ Len(proof.proofs) = 2
      /\ proof.proofs[1] = low /\ proof.proofs[2] = high
    BY DEF buildMerkleProof, ProofOps
<1>2. k # Empty /\ c[s][k] # Empty /\ s # Empty /\ StoreRoot(c[s]) # Empty
    OBVIOUS
<1>3. /\ low.type = "exist" /\ HasRoot(low.entries[1])
      /\ calculate_existence_root(low.entries[1]) = StoreRoot(c[s])
      /\ verify_membership(low, "iavl", StoreRoot(c[s]), k, c[s][k])
    <2> DEFINE leaves == {Leaf(l, c[s][l]) : l \in DOMAIN c[s]}
    <2>1. Leaf(k, c[s][k]) \in leaves
        OBVIOUS
    <2>2. StoreRoot(c[s]) = [spec |-> "iavl", leaves |-> leaves]
        BY DEF StoreRoot
    <2> HIDE DEF leaves
    <2> QED BY <1>2, <2>1, <2>2, ProofOfLeaf
<1>4. /\ high.type = "exist"
      /\ verify_membership(high, "tendermint", AppHash(c), s, StoreRoot(c[s]))
    <2> DEFINE leaves == {Leaf(t, StoreRoot(c[t])) : t \in DOMAIN c}
    <2>1. Leaf(s, StoreRoot(c[s])) \in leaves
        OBVIOUS
    <2>2. AppHash(c) = [spec |-> "tendermint", leaves |-> leaves]
        BY DEF AppHash
    <2> HIDE DEF leaves
    <2> QED BY <1>2, <2>1, <2>2, ProofOfLeaf
<1> HIDE DEF proof, low, high
<1>5. decode_merkle_proof(proof) = "Ok"
    BY <1>1 DEF decode_merkle_proof
<1>6. << s >> # << >> /\ << s >>[1] = s
    OBVIOUS
<1> QED BY <1>1, <1>3, <1>4, <1>5, <1>6 DEF verify_chained_membership, proof

=============================================================================
