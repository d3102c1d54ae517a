----------------------------- MODULE MCWatcher -----------------------------
(***************************************************************************)
(* Small instances of Watcher: one attestation, approved or pending, and   *)
(* one balance.                                                            *)
(***************************************************************************)
EXTENDS Watcher

CONSTANTS Attestation, Account

Coins == [AttestationValue([status |-> "coins"]) EXCEPT !.json = None]

WatchStatus(blocks_left) ==
    [client_id |-> "07-tendermint-0", key_path |-> << "wasm" >>,
     watch_key |-> Attestation, condition |-> JsonPathEquals("status", "approved"),
     callback_contract |-> ProofCallback, expires_after_blocks |-> blocks_left]

WatchBalance ==
    [WatchStatus(None) EXCEPT !.key_path = << "bank" >>, !.watch_key = Account,
                              !.condition = Exists]

MCBalances == {Coins}

Lasting == {WatchStatus(None)}
Expiring == {WatchStatus(0)}
\* There is no contract where the callback would go.
Unreceived == {[WatchStatus(0) EXCEPT !.callback_contract = User]}
Mixed == Lasting \cup Unreceived
AnyStore == {WatchStatus(None), WatchBalance}

=============================================================================
