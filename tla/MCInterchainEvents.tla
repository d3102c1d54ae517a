------------------------- MODULE MCInterchainEvents -------------------------
(***************************************************************************)
(* Small instances of InterchainEvents: one watched key of a store "wasm", *)
(* a value above the threshold, one below it, one that is not UTF-8.       *)
(***************************************************************************)
EXTENDS InterchainEventsInv, TLC

CONSTANTS KeyWatched, KeyOther

NotUtf8(place) == [Ascii(place, None) EXCEPT !.utf8 = FALSE, !.text = 9]

High == Ascii(2, 5)
Low == Ascii(1, 3)
Binary == NotUtf8(3)
OtherBinary == NotUtf8(4)

\* The remote chain at the block the value is proven at.
Remote(value) == [wasm |-> (KeyWatched :> value @@ KeyOther :> Low)]

Proven(key, value) ==
    [key |-> key, value |-> value, app_hash |-> AppHash(Remote(value)),
     proof |-> buildMerkleProof(ProofOps(Remote(value), "wasm", key))]

\* The proof of another block than the application hash.
Mismatched ==
    [Proven(KeyWatched, High) EXCEPT !.app_hash = AppHash(Remote(Low))]

MCProofMsgs ==
    {Proven(KeyWatched, High), Proven(KeyWatched, Binary), Mismatched,
     Proven(KeyOther, Low), Proven(KeyWatched, Low), Proven(KeyWatched, OtherBinary)}

Watch(condition, callback, blocks) ==
    [client_id |-> "07-tendermint-0", key_path |-> << "wasm" >>,
     watch_key |-> KeyWatched, condition |-> condition,
     callback_contract |-> callback, expires_after_blocks |-> blocks]

AboveLow == GreaterThan(Low, "Numeric")

MCSubscribeMsgs ==
    {Watch(AboveLow, ProofCallback, 1),
     Watch(Exists, ProofCallback, 0),
     Watch(Equals(Binary), OtherCallback, None),
     Watch(Exists, "not a contract", U64Max),
     [Watch(Exists, ProofCallback, None) EXCEPT !.key_path = << >>],
     [Watch(Exists, ProofCallback, None) EXCEPT !.watch_key = Empty],
     Watch(Exists, Empty, None)}

=============================================================================
