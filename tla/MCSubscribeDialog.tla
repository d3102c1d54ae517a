------------------------- MODULE MCSubscribeDialog -------------------------
(***************************************************************************)
(* A small instance of SubscribeDialog: a leaf with a store key, a folder  *)
(* without one, and forms of each kind.                                    *)
(***************************************************************************)
EXTENDS SubscribeDialog, TLC

CONSTANT LeafKey

\* "approved" is base64 too, of six other bytes; "7" is not.
Word == [bytes |-> Ascii(2, None), base64 |-> Ascii(4, None)]
Number == [bytes |-> Ascii(1, 7), base64 |-> None]

MCEntries ==
    {[store |-> "wasm", key |-> LeafKey], [store |-> "wasm", key |-> None]}

Form(condition, expires) ==
    [condition |-> condition, expires |-> expires, client_id |-> "07-tendermint-0",
     callback_contract |-> ProofCallback]

MCPresets == {Form(Exists, None)}

MCForms ==
    {Form(JsonPathEquals("status", "approved"), 1), Form(Equals(Word), 0),
     Form(GreaterThan(Number, "Numeric"), None)}

Symmetric == Permutations(Calls)

=============================================================================
