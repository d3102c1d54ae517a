---------------------------- MODULE RemoteChain ----------------------------
(***************************************************************************)
(* The chain that is watched: its attestation-registry contract, a balance *)
(* of its bank, its blocks, and what a node of it answers to the watcher.  *)
(*                                                                         *)
(* A block is first stored, header and all, and then executed: the header  *)
(* of block h + 1, which carries the root of the state after block h, can  *)
(* be had before that block's own state can be queried.                    *)
(***************************************************************************)
EXTENDS Conditions, Verification

CONSTANTS
    AttestationIds,      \* identifiers of attestations
    AttestationTexts,    \* their statuses
    Attesters,           \* accounts
    BankKey,             \* a key of the bank store
    Balances,            \* the values it may have
    MaxRemoteHeight      \* bound: the last block executed

ASSUME RemoteBoundAssumption == MaxRemoteHeight \in Nat \ {0}

VARIABLES
    attestations,   \* ATTESTATIONS, of the block being executed
    balance,        \* the balance, of the same
    blocks,         \* the state of the multistore after each block
    headers         \* the number of the last block stored

remote_vars == << attestations, balance, blocks, headers >>

(***************************************************************************)
(* The bytes of a stored attestation: a JSON document whose scalars are    *)
(* its fields, and which no two attestations share. The IAVL key that      *)
(* buildAttestationIavlKey makes of an identifier (prefix, contract        *)
(* address, namespace, identifier) determines it, and is written as it.    *)
(***************************************************************************)
AttestationValue(a) ==
    [Ascii(a, None) EXCEPT !.json = [status |-> [rust |-> a.status, js |-> a.status]]]

\* What attestations of these accounts with these statuses are stored as.
StoredValues(accounts, texts) ==
    {AttestationValue(a) :
        a \in [status : texts, attester : accounts, height : 1..(MaxRemoteHeight + 1)]}

(***************************************************************************)
(* Nothing that is stored, no root of a store, and no name of one, is the  *)
(* empty byte string.                                                      *)
(***************************************************************************)
NothingEmpty(values) ==
    /\ Empty # "wasm"
    /\ Empty \notin values
    /\ Empty \notin [spec : {"iavl"},
                     leaves : SUBSET [key : AttestationIds, value : values]]

ASSUME StoredAssumption == NothingEmpty(StoredValues(Attesters, AttestationTexts))

Multistore ==
    [wasm |-> [id \in DOMAIN attestations |-> AttestationValue(attestations[id])],
     bank |-> [k \in {BankKey} |-> balance]]

Executed == Len(blocks)

(***************************************************************************)
(* abci_query on the store "wasm" at the last executed height, with the    *)
(* proof: None when the node has no value.                                 *)
(***************************************************************************)
fetchStateWithProof(key) ==
    LET state == blocks[Executed]
    IN  IF key \in DOMAIN state.wasm
        THEN [key |-> key, value |-> state.wasm[key], height |-> Executed,
              proofOps |-> ProofOps(state, "wasm", key)]
        ELSE None

\* The application hash a header carries: the root after the block before it.
HasHeader(h) == h <= headers
HeaderAppHash(h) == AppHash(blocks[h - 1])

\* As if the root took one block more to get into a header.
AppHashHeader_Later(height) == height + 2

\* fetchAppHash asks for the header of the block after the proof's height.
AppHashHeader(height) == height + 1

-----------------------------------------------------------------------------
RemoteInit ==
    /\ attestations = << >>
    /\ balance \in Balances
    /\ blocks = << Multistore >>
    /\ headers = 1

\* execute_attest: anyone may overwrite any attestation.
Attest(sender, id, status) ==
    /\ id # Empty
    /\ status # Empty
    /\ attestations' = [i \in DOMAIN attestations \cup {id} |->
            IF i = id
            THEN [status |-> status, attester |-> sender, height |-> Executed + 1]
            ELSE attestations[i]]
    /\ UNCHANGED << balance, blocks, headers >>

Transfer(b) ==
    /\ balance' = b
    /\ UNCHANGED << attestations, blocks, headers >>

\* Consensus agrees on the next block and its header can be read ...
StoreBlock ==
    /\ headers = Executed
    /\ headers' = headers + 1
    /\ UNCHANGED << attestations, balance, blocks >>

\* ... and then its transactions have been executed.
ExecuteBlock ==
    /\ headers = Executed + 1
    /\ Executed < MaxRemoteHeight
    /\ blocks' = Append(blocks, Multistore)
    /\ UNCHANGED << attestations, balance, headers >>

RemoteNext ==
    \/ \E s \in Attesters, id \in AttestationIds, t \in AttestationTexts : Attest(s, id, t)
    \/ \E b \in Balances : Transfer(b)
    \/ StoreBlock
    \/ ExecuteBlock

=============================================================================
