-------------------------- MODULE InterchainEvents --------------------------
(***************************************************************************)
(* The interchain-events contract on its chain, together with the          *)
(* proof-callback contract it calls and with callback contracts written by *)
(* others, down to the message dispatch of the CosmWasm runtime.           *)
(*                                                                         *)
(* The runtime keeps what a handler of Subscriptions left in storage only  *)
(* when the result is "Ok". A submitted proof that is accepted does not    *)
(* end the transaction: its callback runs as a submessage, inside which a  *)
(* callback contract can subscribe, submit further proofs and so on. Each  *)
(* callback under way is a frame of `stack'; the storage it would be       *)
(* rolled back to is kept in the frame.                                    *)
(***************************************************************************)
EXTENDS Subscriptions

CONSTANTS
    SubscribeMsgs,   \* the Subscribe messages anyone may send
    ProofMsgs,       \* the app_hash, proof, key and value of SubmitProof messages
    User,            \* the sender of transactions
    OtherCallback,   \* the address of a callback contract not in this repository
    MaxHeight,       \* bound: the last block
    MaxDepth,        \* bound: the submessages that may be nested
    MaxForged        \* bound: the calls of proof-callback by others

ASSUME BoundsAssumption ==
    MaxHeight \in 1..U64Max /\ MaxDepth \in Nat /\ MaxForged \in Nat
ASSUME AddressAssumption ==
    /\ Self \notin {User, ProofCallback, OtherCallback}
    /\ ProofCallback # OtherCallback
ASSUME SubscribeMsgsAssumption ==
    \A m \in SubscribeMsgs : m.expires_after_blocks \in Nat \cup {None}

VARIABLES
    height,      \* env.block.height
    kv,          \* the storage of the contracts, as the running message sees it
    committed,   \* their storage after the last transaction: what queries read
    stack        \* the callbacks under way, the innermost last

vars == << height, kv, committed, stack >>

-----------------------------------------------------------------------------
(***************************************************************************)
(* The runtime: the storage a message leaves, and who is running.          *)
(***************************************************************************)

StorageAfter(k, response) == IF response.res = "Ok" THEN response.kv ELSE k

Idle == stack = << >>

Top == stack[Len(stack)]

\* The storage as it is outside a transaction, or at the end of one.
CommitIf(done) == committed' = IF done THEN kv' ELSE committed

\* Transactions of a user; messages of a callback contract that may do anything.
Sender == IF Idle THEN User ELSE Top.callback
MaySend == ~Idle => Top.callback = OtherCallback

Init ==
    /\ height = 1
    /\ kv = InitialStorage
    /\ committed = InitialStorage
    /\ stack = << >>

Subscribe(m) ==
    /\ MaySend
    /\ kv' = StorageAfter(kv, execute_subscribe(kv, Sender, m, height))
    /\ CommitIf(Idle)
    /\ UNCHANGED << height, stack >>

\* An accepted proof starts its callback ...
AcceptProof(id, p) ==
    /\ MaySend
    /\ Len(stack) < MaxDepth
    /\ SubmitResult(kv, id, p, height) = "Ok"
    /\ kv' = execute_submit_proof(kv, id, p, height).kv
    /\ stack' = Append(stack,
            [id |-> id, callback |-> kv.subs[id].callback_contract,
             proven_value |-> from_utf8_lossy(p.value), saved |-> kv'])
    /\ UNCHANGED << height, committed >>

\* ... any other is refused, and the runtime drops what the handler wrote.
RefuseProof(id, p) ==
    /\ MaySend
    /\ SubmitResult(kv, id, p, height) # "Ok"
    /\ kv' = StorageAfter(kv, execute_submit_proof(kv, id, p, height))
    /\ CommitIf(Idle)
    /\ UNCHANGED << height, stack >>

\* The innermost callback is over: the message below it goes on, or the
\* transaction ends and is committed.
EndCallback ==
    /\ stack' = SubSeq(stack, 1, Len(stack) - 1)
    /\ CommitIf(Len(stack) = 1)
    /\ UNCHANGED height

\* The callback contract took the message: proof-callback records the event and
\* returns; another contract is given the same record, and has done by now
\* whatever else it does.
CallbackSucceeds ==
    /\ ~Idle
    /\ Top.callback \in {ProofCallback, OtherCallback}
    /\ kv' = execute_interchain_event(kv, Self, Top.id, Top.proven_value, height)
    /\ EndCallback

\* The callback contract returns an error, or no contract that takes the
\* message has that address. The runtime drops everything done since the
\* callback began, and calls reply.
CallbackFails ==
    /\ ~Idle
    /\ Top.callback # ProofCallback
    /\ kv' = reply(Top.saved, Top.id)
    /\ EndCallback

\* A submessage has no gas limit of its own, so a callback that spends all the
\* gas takes the whole transaction with it and reply is never called.
OutOfGas ==
    /\ ~Idle
    /\ kv' = committed
    /\ stack' = << >>
    /\ UNCHANGED << height, committed >>

\* proof-callback called by someone else than interchain-events.
Forge(id, proven_value) ==
    /\ MaySend
    /\ Len(SelectSeq(kv.events, LAMBDA e : e.caller # Self)) < MaxForged
    /\ kv' = execute_interchain_event(kv, Sender, id, proven_value, height)
    /\ CommitIf(Idle)
    /\ UNCHANGED << height, stack >>

NextBlock ==
    /\ Idle
    /\ height < MaxHeight
    /\ height' = height + 1
    /\ UNCHANGED << kv, committed, stack >>

Next ==
    \/ \E m \in SubscribeMsgs : Subscribe(m)
    \/ \E id \in 1..U64Max, p \in ProofMsgs : AcceptProof(id, p)
    \/ \E id \in 1..U64Max, p \in ProofMsgs : RefuseProof(id, p)
    \/ CallbackSucceeds
    \/ CallbackFails
    \/ OutOfGas
    \/ \E id \in 1..U64Max, p \in ProofMsgs : Forge(id, from_utf8_lossy(p.value))
    \/ NextBlock

Spec == Init /\ [][Next]_vars

-----------------------------------------------------------------------------
(***************************************************************************)
(* Properties                                                              *)
(***************************************************************************)

SubscriptionRecord(sub) ==
    /\ sub.id \in 1..U64Max
    /\ sub.status \in Statuses
    /\ sub.created_at \in 0..U64Max
    /\ sub.expires_at \in (0..U64Max) \cup {None}

Storage(k) ==
    /\ k.next_id \in 1..U64Max
    /\ \A id \in Ids(k) : id \in 1..U64Max /\ SubscriptionRecord(k.subs[id])
    /\ \A i \in DOMAIN k.events : k.events[i].block_height \in 0..U64Max

\* Every integer the contracts store fits a u64 and every status is one of the
\* four of types.rs, in the committed storage, in the running one and in every
\* storage the runtime may come back to.
TypeOK ==
    /\ height \in 1..MaxHeight
    /\ Storage(kv)
    /\ Storage(committed)
    /\ Len(stack) <= MaxDepth
    /\ \A i \in DOMAIN stack : Storage(stack[i].saved)

\* The identifiers handed out are 1, 2, ... up to NEXT_ID with none missing and
\* none used twice, though a callback that subscribes may be rolled back after
\* its identifiers were taken (execute_subscribe, lines 158-177).
IdsAreDense ==
    /\ Ids(committed) = 1..(committed.next_id - 1)
    /\ \A id \in Ids(committed) : committed.subs[id].id = id

\* One-shot: the callback of a committed subscription took effect exactly once
\* if the subscription is Triggered and not at all otherwise, whatever was
\* re-entered, rolled back or retried on the way; and nothing was delivered for
\* a subscription that does not exist (lines 288-316 and reply).
TriggeredIffDelivered ==
    /\ \A id \in Ids(committed) :
        IF committed.subs[id].status = "Triggered"
        THEN \E n \in Delivered(committed) : DeliveredFor(committed, id) = {n}
        ELSE DeliveredFor(committed, id) = {}
    /\ \A n \in Delivered(committed) : committed.events[n].subscription_id \in Ids(committed)

\* A proof that meets the subscription's own condition and carries that text was
\* in time at that block.
Met(sub, now, text) ==
    /\ sub.expires_at # None => now <= sub.expires_at
    /\ sub.created_at <= now
    /\ \E p \in ProofMsgs : from_utf8_lossy(p.value) = text /\ ProofResult(sub, p) = "Ok"

\* What was delivered is the text of a value that meets the subscription's own
\* condition, and it was delivered no later than the block it expires at
\* (lines 207-216 and 230-286).
DeliveredInTimeAndMet ==
    \A n \in Delivered(committed) :
        LET e == committed.events[n]
        IN  Met(committed.subs[e.subscription_id], e.block_height, e.proven_value)

\* A callback contract that comes back into the contract cannot start the
\* callback of a subscription whose callback is still running, its own first of
\* all: the frames under way are of different subscriptions.
NoReentrantCallback ==
    \A i, j \in DOMAIN stack : stack[i].id = stack[j].id => i = j

\* reply loads the subscription from the storage the runtime rolled back to.
\* It finds it there, still Triggered: neither the load nor the change to Failed
\* can go wrong (lines 337-341).
ReplyFindsTriggered ==
    \A i \in DOMAIN stack :
        /\ stack[i].id \in Ids(stack[i].saved)
        /\ stack[i].saved.subs[stack[i].id].status = "Triggered"

\* Once a transaction has made a subscription Triggered, Expired or Failed it
\* never changes again, and nothing but the status of a subscription ever
\* changes: there is no retry of a failed callback and no way to take back a
\* trigger (lines 200-205).
TerminalIsFinal ==
    [][\A id \in Ids(committed) :
        /\ id \in Ids(committed')
        /\ IF committed.subs[id].status = "Active"
           THEN \E s \in Statuses :
                    committed'.subs[id] = [committed.subs[id] EXCEPT !.status = s]
           ELSE committed'.subs[id] = committed.subs[id]]_vars

-----------------------------------------------------------------------------
\* The contract keeps the promise of OneShotSubscriptions, as seen in committed
\* storage: what is pending inside a transaction, and what was rolled back, do
\* not show.
Promise == INSTANCE OneShotSubscriptions WITH
    now      <- height,
    deadline <- [id \in Ids(committed) |-> committed.subs[id].expires_at],
    life     <- [id \in Ids(committed) |-> committed.subs[id].status],
    effects  <- [id \in Ids(committed) |-> Cardinality(DeliveredFor(committed, id))]

KeepsPromise == Promise!Spec

=============================================================================
