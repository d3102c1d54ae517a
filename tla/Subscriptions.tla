--------------------------- MODULE Subscriptions ---------------------------
(***************************************************************************)
(* The storage and the handlers of the interchain-events contract, and of  *)
(* the proof-callback contract it calls, as pure operators. A handler maps *)
(* a storage to a response: its result, and the storage it leaves. What    *)
(* becomes of that storage is for the runtime to say.                      *)
(***************************************************************************)
EXTENDS Conditions, Verification, FiniteSets

CONSTANTS
    U64Max,          \* the largest u64
    Self,            \* the address of the interchain-events contract
    ProofCallback    \* the address of the proof-callback contract

ASSUME U64Assumption == U64Max \in Nat /\ U64Max > 0

(***************************************************************************)
(* A storage `k' holds, of interchain-events, NEXT_ID and SUBSCRIPTIONS;   *)
(* of proof-callback, EVENTS. An Event stores its caller and block_height; *)
(* the subscription and the value that proof-callback emits beside it, as  *)
(* attributes of the same response, are kept with it here. What other      *)
(* callback contracts received is kept in the same list.                   *)
(***************************************************************************)
Statuses == {"Active", "Triggered", "Expired", "Failed"}

Ids(k) == DOMAIN k.subs

\* instantiate, of both contracts.
InitialStorage == [next_id |-> 1, subs |-> << >>, events |-> << >>]

\* SUBSCRIPTIONS.save, which inserts or overwrites.
Save(subs, id, sub) ==
    [i \in DOMAIN subs \cup {id} |-> IF i = id THEN sub ELSE subs[i]]

WithStatus(k, id, status) ==
    [k EXCEPT !.subs = Save(k.subs, id, [k.subs[id] EXCEPT !.status = status])]

\* Arithmetic that is not checked.
Overflows_Never(n) == FALSE

\* Release builds are compiled with overflow-checks: the addition panics and the
\* runtime treats the call as failed.
Overflows(n) == n > U64Max

-----------------------------------------------------------------------------
(***************************************************************************)
(* execute_subscribe                                                       *)
(***************************************************************************)
ExpiryOf(m, now) ==
    IF m.expires_after_blocks = None THEN None ELSE now + m.expires_after_blocks

Subscription(id, sender, m, now) ==
    [id |-> id, creator |-> sender, client_id |-> m.client_id,
     key_path |-> m.key_path, watch_key |-> m.watch_key,
     condition |-> m.condition, callback_contract |-> m.callback_contract,
     status |-> "Active", created_at |-> now, expires_at |-> ExpiryOf(m, now)]

SubscribeResult(k, m, now) ==
    IF m.key_path = << >> THEN "EmptyKeyPath"
    ELSE IF m.watch_key = Empty THEN "EmptyWatchKey"
    ELSE IF m.callback_contract = Empty THEN "EmptyCallbackContract"
    ELSE IF \/ Overflows(k.next_id + 1)
            \/ m.expires_after_blocks # None /\ Overflows(ExpiryOf(m, now))
    THEN "Overflow"
    ELSE "Ok"

\* The identifier is read and used, and not moved on.
execute_subscribe_IdNotAdvanced(k, sender, m, now) ==
    [res |-> SubscribeResult(k, m, now),
     kv  |-> [k EXCEPT !.subs = Save(k.subs, k.next_id,
                                     Subscription(k.next_id, sender, m, now))]]

execute_subscribe(k, sender, m, now) ==
    [res |-> SubscribeResult(k, m, now),
     kv  |-> [k EXCEPT !.next_id = k.next_id + 1,
                       !.subs = Save(k.subs, k.next_id,
                                     Subscription(k.next_id, sender, m, now))]]

-----------------------------------------------------------------------------
(***************************************************************************)
(* execute_submit_proof                                                    *)
(***************************************************************************)

\* The expiry is taken to count from the creation.
Expired_FromCreation(sub, now) ==
    sub.expires_at # None /\ now > sub.created_at + sub.expires_at

\* The last block itself is still in time.
Expired(sub, now) == sub.expires_at # None /\ now > sub.expires_at

ProofResult(sub, p) ==
    IF p.key # sub.watch_key THEN "KeyMismatch"
    ELSE LET verified == verify_chained_membership(p.app_hash, p.proof, sub.key_path,
                                                   p.key, p.value)
         IN  IF verified = "Ok" THEN EvaluateCondition(sub.condition, p.value)
             ELSE verified

\* A failed delivery may be tried again.
SubmitResult_RetryFailed(k, id, p, now) ==
    IF id \notin Ids(k) THEN "SubscriptionNotFound"
    ELSE IF k.subs[id].status \notin {"Active", "Failed"} THEN "SubscriptionNotActive"
    ELSE IF Expired(k.subs[id], now) THEN "SubscriptionExpired"
    ELSE ProofResult(k.subs[id], p)

\* The condition is left to the callback.
SubmitResult_NoCondition(k, id, p, now) ==
    IF id \notin Ids(k) THEN "SubscriptionNotFound"
    ELSE IF k.subs[id].status # "Active" THEN "SubscriptionNotActive"
    ELSE IF Expired(k.subs[id], now) THEN "SubscriptionExpired"
    ELSE verify_chained_membership(p.app_hash, p.proof, k.subs[id].key_path, p.key, p.value)

SubmitResult(k, id, p, now) ==
    IF id \notin Ids(k) THEN "SubscriptionNotFound"
    ELSE IF k.subs[id].status # "Active" THEN "SubscriptionNotActive"
    ELSE IF Expired(k.subs[id], now) THEN "SubscriptionExpired"
    ELSE ProofResult(k.subs[id], p)

\* The status is left to the reply: a callback runs while it still is Active.
execute_submit_proof_MarkAfter(k, id, p, now) ==
    [res |-> SubmitResult(k, id, p, now), kv |-> k]

(***************************************************************************)
(* An expired subscription is saved as Expired and the error is returned   *)
(* all the same, in the same call; an accepted proof is saved as Triggered *)
(* before the callback runs.                                               *)
(***************************************************************************)
execute_submit_proof(k, id, p, now) ==
    LET res == SubmitResult(k, id, p, now)
    IN  [res |-> res,
         kv  |-> CASE res = "SubscriptionExpired" -> WithStatus(k, id, "Expired")
                   [] res = "Ok" -> WithStatus(k, id, "Triggered")
                   [] OTHER -> k]

(***************************************************************************)
(* reply, to a callback that failed. (It is asked for on errors only.)     *)
(***************************************************************************)
reply(k, id) == WithStatus(k, id, "Failed")

(***************************************************************************)
(* The payload of the callback: the proven bytes go through                *)
(* String::from_utf8_lossy, which puts U+FFFD for what is not UTF-8.       *)
(***************************************************************************)
from_utf8_lossy(value) == value.text

(***************************************************************************)
(* proof-callback: execute (InterchainEvent). Anyone may call it.          *)
(***************************************************************************)
execute_interchain_event(k, caller, id, proven_value, now) ==
    [k EXCEPT !.events = Append(k.events,
        [caller |-> caller, block_height |-> now,
         subscription_id |-> id, proven_value |-> proven_value])]

-----------------------------------------------------------------------------
\* The events interchain-events itself caused at a callback contract.
Delivered(k) == {i \in DOMAIN k.events : k.events[i].caller = Self}

DeliveredFor(k, id) == {i \in Delivered(k) : k.events[i].subscription_id = id}

=============================================================================
