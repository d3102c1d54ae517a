------------------------------ MODULE Watcher ------------------------------
(***************************************************************************)
(* The watcher between the two chains: the server's polling loop and its   *)
(* submit-proof endpoint (watcher.ts), with one account on the hub, the    *)
(* hub's mempool, and the contracts of the hub and of the remote chain.    *)
(*                                                                         *)
(* An asynchronous function is a task. Its `pc' names the call it waits    *)
(* for, and whatever it computes between two calls is part of the step     *)
(* that ends the wait. A transaction on the hub is executed whole; what    *)
(* may happen inside it is the subject of InterchainEvents.                *)
(***************************************************************************)
EXTENDS Queries, RemoteChain, CheckCondition

CONSTANTS
    SubscribeMsgs,    \* the Subscribe messages users may send
    User,             \* their sender
    Requests,         \* the tasks that serve POST /api/watcher/submit-proof
    RequestKeys,      \* the keys a request may ask the proof of
    PageLimit,        \* the limit the watcher gives list_subscriptions
    MaxAttempts,      \* the attempts of fetchAppHash
    MaxHeight,        \* bound: the last block of the hub
    MaxFaults         \* bound: failed calls, flushed mempools and restarts

ASSUME WatcherAssumption ==
    /\ PageLimit \in Nat /\ MaxAttempts \in Nat \ {0}
    /\ MaxHeight \in 1..U64Max /\ MaxFaults \in Nat
    /\ "loop" \notin Requests
    /\ \A m \in SubscribeMsgs : m.expires_after_blocks \in Nat \cup {None}

VARIABLES
    height,           \* the block of the hub
    kv,               \* the storage of its contracts
    sequence,         \* the sequence number of the watcher's account
    mempool,          \* its transactions waiting for a block, in order
    landed,           \* those that were executed, with their result
    subscriptions,    \* state.subscriptions, the server's cached list
    tasks,            \* the tasks under way
    faults            \* how much has gone wrong so far

hub_vars == << height, kv, sequence, mempool, landed >>
server_vars == << subscriptions, tasks >>
vars == << remote_vars, hub_vars, server_vars, faults >>

Tasks == {"loop"} \cup Requests

-----------------------------------------------------------------------------
(***************************************************************************)
(* The hub.                                                                *)
(***************************************************************************)

\* A SubmitProof transaction from its handler to its end, for a callback that
\* is proof-callback, or no contract at all.
SubmitProof(k, id, p, now) ==
    LET r == execute_submit_proof(k, id, p, now)
    IN  [res |-> r.res,
         kv  |-> IF r.res # "Ok" THEN k
                 ELSE IF k.subs[id].callback_contract = ProofCallback
                 THEN execute_interchain_event(r.kv, Self, id, from_utf8_lossy(p.value), now)
                 ELSE reply(r.kv, id)]

Subscribe(m) ==
    /\ LET r == execute_subscribe(kv, User, m, height)
       IN  r.res = "Ok" /\ kv' = r.kv
    /\ UNCHANGED << remote_vars, height, sequence, mempool, landed, server_vars, faults >>

HubBlock ==
    /\ height < MaxHeight
    /\ height' = height + 1
    /\ UNCHANGED << remote_vars, kv, sequence, mempool, landed, server_vars, faults >>

\* The first waiting transaction of the account is put in a block. Its sequence
\* number is spent even if the message fails.
Include ==
    /\ mempool # << >>
    /\ LET tx == Head(mempool)
           r == SubmitProof(kv, tx.id, tx.msg, height)
       IN  /\ kv' = r.kv
           /\ landed' = landed \cup
                {[task |-> tx.task, seq |-> tx.seq, id |-> tx.id, res |-> r.res]}
    /\ mempool' = Tail(mempool)
    /\ sequence' = sequence + 1
    /\ UNCHANGED << remote_vars, height, server_vars, faults >>

\* CheckTx counts the account's transactions that wait already.
CheckTx(seq) == seq = sequence + Len(mempool)

\* Someone else, with an account of his own, submits an honest proof.
SubmitAsOther(id) ==
    LET sub == kv.subs[id]
        store == sub.key_path[1]
        state == blocks[Executed]
        p == [app_hash |-> HeaderAppHash(AppHashHeader(Executed)), key |-> sub.watch_key,
              proof |-> buildMerkleProof(ProofOps(state, store, sub.watch_key)),
              value |-> state[store][sub.watch_key]]
    IN  /\ id \in Ids(kv)
        /\ HasHeader(AppHashHeader(Executed))
        /\ sub.watch_key \in DOMAIN state[store]
        /\ kv' = SubmitProof(kv, id, p, height).kv
        /\ UNCHANGED << remote_vars, height, sequence, mempool, landed, server_vars, faults >>

-----------------------------------------------------------------------------
(***************************************************************************)
(* The tasks of the server. `Rest' is the loop between two timers, and an  *)
(* endpoint without a request.                                             *)
(***************************************************************************)
Rest ==
    [pc |-> "rest", todo |-> << >>, id |-> None, key |-> None,
     found |-> None, attempts |-> 0, msg |-> None, seq |-> None]

\* The last subscription of the list is never come to.
Turn_LastMissed(todo) ==
    IF Len(todo) <= 1 THEN Rest
    ELSE [Rest EXCEPT !.pc = "state", !.todo = Tail(todo),
                      !.id = Head(todo).id, !.key = Head(todo).watch_key]

\* The loop turns to the next subscription of the list it started with.
Turn(todo) ==
    IF todo = << >> THEN Rest
    ELSE [Rest EXCEPT !.pc = "state", !.todo = Tail(todo),
                      !.id = Head(todo).id, !.key = Head(todo).watch_key]

\* What is left of a task when it is done with a subscription, or has failed.
Leave(t) == Turn(tasks[t].todo)

Becomes(t, task) == tasks' = [tasks EXCEPT ![t] = task]

\* A call of a task returns: only the task changes.
Returns(t, task) ==
    /\ Becomes(t, task)
    /\ UNCHANGED << remote_vars, hub_vars, subscriptions, faults >>

At(t, pc) == tasks[t].pc = pc

\* The timer of the loop fires.
Tick == At("loop", "rest") /\ Returns("loop", [Rest EXCEPT !.pc = "list"])

\* fetchActiveSubscriptions: the first page of all subscriptions, of which the
\* active ones are kept.
fetchActiveSubscriptions ==
    SelectSeq(query_list_subscriptions(kv, None, PageLimit),
              LAMBDA s : s.status = "Active")

ListSubscriptions ==
    /\ At("loop", "list")
    /\ subscriptions' = fetchActiveSubscriptions
    /\ Becomes("loop", Turn(subscriptions'))
    /\ UNCHANGED << remote_vars, hub_vars, faults >>

\* A user asks for the proof of a key, for a subscription.
StartRequest(t, id, key) ==
    /\ At(t, "rest")
    /\ Returns(t, [Rest EXCEPT !.pc = "state", !.id = id, !.key = key])

\* The condition is checked if the subscription is in the cached list; the loop
\* has it from its own list.
Passes(t, value) ==
    \A i \in DOMAIN subscriptions :
        subscriptions[i].id = tasks[t].id => checkCondition(subscriptions[i].condition, value)

FetchState(t) ==
    /\ At(t, "state")
    /\ LET found == fetchStateWithProof(tasks[t].key)
       IN  Returns(t, IF found # None /\ Passes(t, found.value)
                      THEN [tasks[t] EXCEPT !.pc = "hash", !.found = found]
                      ELSE Leave(t))

\* The message a task sends for the proof it found.
SubmitProofMsg(found, app_hash) ==
    [app_hash |-> app_hash, proof |-> buildMerkleProof(found.proofOps),
     key |-> found.key, value |-> found.value]

\* The attempts are not counted.
FetchAppHash_Forever(t) ==
    LET found == tasks[t].found
        header == AppHashHeader(found.height)
    IN  /\ At(t, "hash")
        /\ HasHeader(header)
        /\ Returns(t, [tasks[t] EXCEPT !.pc = "simulate",
                            !.msg = SubmitProofMsg(found, HeaderAppHash(header))])

\* One attempt too many.
FetchAppHash_OneMore(t) ==
    LET found == tasks[t].found
        header == AppHashHeader(found.height)
    IN  /\ At(t, "hash")
        /\ Returns(t,
            IF HasHeader(header)
            THEN [tasks[t] EXCEPT !.pc = "simulate",
                            !.msg = SubmitProofMsg(found, HeaderAppHash(header))]
            ELSE IF tasks[t].attempts < MaxAttempts
            THEN [tasks[t] EXCEPT !.attempts = @ + 1]
            ELSE Leave(t))

\* fetchAppHash: as long as the header is not there, it waits and asks again,
\* and in the end throws.
FetchAppHash(t) ==
    LET found == tasks[t].found
        header == AppHashHeader(found.height)
    IN  /\ At(t, "hash")
        /\ Returns(t,
            IF HasHeader(header)
            THEN [tasks[t] EXCEPT !.pc = "simulate",
                            !.msg = SubmitProofMsg(found, HeaderAppHash(header))]
            ELSE IF tasks[t].attempts + 1 < MaxAttempts
            THEN [tasks[t] EXCEPT !.attempts = @ + 1]
            ELSE Leave(t))

\* With a gas limit given, nothing is simulated.
Simulate_Skipped(t) ==
    /\ At(t, "simulate")
    /\ Returns(t, [tasks[t] EXCEPT !.pc = "sign"])

\* execute(..., "auto") first has the transaction simulated: a message that
\* would fail is never sent.
Simulate(t) ==
    /\ At(t, "simulate")
    /\ Returns(t, IF SubmitProof(kv, tasks[t].id, tasks[t].msg, height).res = "Ok"
                  THEN [tasks[t] EXCEPT !.pc = "sign"]
                  ELSE Leave(t))

Sign(t) ==
    /\ At(t, "sign")
    /\ Returns(t, [tasks[t] EXCEPT !.pc = "broadcast", !.seq = sequence])

Transaction(t) ==
    [task |-> t, seq |-> tasks[t].seq, id |-> tasks[t].id, msg |-> tasks[t].msg]

Broadcast(t) ==
    /\ At(t, "broadcast")
    /\ IF CheckTx(tasks[t].seq)
       THEN /\ mempool' = Append(mempool, Transaction(t))
            /\ Becomes(t, [tasks[t] EXCEPT !.pc = "await"])
       ELSE /\ UNCHANGED mempool
            /\ Becomes(t, Leave(t))
    /\ UNCHANGED << remote_vars, height, kv, sequence, landed, subscriptions, faults >>

\* The transaction is found in a block, whatever became of it there ...
FindResult(t) ==
    /\ At(t, "await")
    /\ \E tx \in landed : tx.task = t /\ tx.seq = tasks[t].seq /\ tx.id = tasks[t].id
    /\ Returns(t, Leave(t))

\* ... or not within the minute, though it may still come.
TimeOut(t) == At(t, "await") /\ Returns(t, Leave(t))

Step(t) ==
    \/ FetchState(t) \/ FetchAppHash(t) \/ Simulate(t) \/ Sign(t)
    \/ Broadcast(t) \/ FindResult(t) \/ TimeOut(t)

-----------------------------------------------------------------------------
(***************************************************************************)
(* What goes wrong.                                                        *)
(***************************************************************************)
Faulty == faults < MaxFaults /\ faults' = faults + 1

\* A call to a node fails: the loop goes on with the next subscription, or
\* sleeps if it has no list yet; a request is answered with an error.
CallFails(t) ==
    /\ Faulty
    /\ tasks[t].pc \in {"list", "state", "hash", "simulate", "sign", "broadcast"}
    /\ Becomes(t, Leave(t))
    /\ UNCHANGED << remote_vars, hub_vars, subscriptions >>

\* The node drops the transactions that wait.
Flush ==
    /\ Faulty
    /\ mempool # << >>
    /\ mempool' = << >>
    /\ UNCHANGED << remote_vars, height, kv, sequence, landed, server_vars >>

\* The server starts again, with nothing of what it held in memory.
Restart ==
    /\ Faulty
    /\ subscriptions' = << >>
    /\ tasks' = [t \in Tasks |-> Rest]
    /\ UNCHANGED << remote_vars, hub_vars >>

-----------------------------------------------------------------------------
Init ==
    /\ RemoteInit
    /\ height = 1
    /\ kv = InitialStorage
    /\ sequence = 0
    /\ mempool = << >>
    /\ landed = {}
    /\ subscriptions = << >>
    /\ tasks = [t \in Tasks |-> Rest]
    /\ faults = 0

RemoteStep == RemoteNext /\ UNCHANGED << hub_vars, server_vars, faults >>

Next ==
    \/ RemoteStep
    \/ \E m \in SubscribeMsgs : Subscribe(m)
    \/ \E id \in 1..U64Max : SubmitAsOther(id)
    \/ HubBlock
    \/ Include
    \/ Tick
    \/ ListSubscriptions
    \/ \E t \in Requests, id \in 1..U64Max, key \in RequestKeys : StartRequest(t, id, key)
    \/ \E t \in Tasks : Step(t) \/ CallFails(t)
    \/ Flush
    \/ Restart

(***************************************************************************)
(* Timers fire and calls return, with an answer or an error.               *)
(***************************************************************************)
ServerFairness ==
    /\ WF_vars(Tick)
    /\ WF_vars(ListSubscriptions)
    /\ \A t \in Tasks : WF_vars(Step(t))

(***************************************************************************)
(* The chains go on making blocks, and the hub's take in what waits. The   *)
(* properties that need it say so. Nobody has to subscribe, attest or ask. *)
(***************************************************************************)
ChainFairness ==
    /\ WF_vars(Include)
    /\ WF_vars(StoreBlock /\ UNCHANGED << hub_vars, server_vars, faults >>)

Spec == Init /\ [][Next]_vars
FairSpec == Spec /\ ServerFairness

-----------------------------------------------------------------------------
(***************************************************************************)
(* Properties                                                              *)
(***************************************************************************)

Pcs == {"rest", "list", "state", "hash", "simulate", "sign", "broadcast", "await"}

\* Sequence numbers, attempts and program counters stay in range.
TypeOK ==
    /\ sequence \in Nat
    /\ headers \in {Executed, Executed + 1}
    /\ \A t \in Tasks :
        /\ tasks[t].pc \in Pcs
        /\ tasks[t].attempts \in 0..(MaxAttempts - 1)

\* However blocks of the remote chain fall between the calls, the message a task
\* has put together proves its value: the application hash fetched is that of
\* the state the proof was taken from (fetchAppHash, height + 1).
MessagesVerify ==
    \A t \in Tasks :
        tasks[t].pc \in {"simulate", "sign", "broadcast", "await"} =>
            LET m == tasks[t].msg
            IN  verify_chained_membership(m.app_hash, m.proof, << "wasm" >>, m.key, m.value) = "Ok"

\* A subscription is Triggered only if, after some block of the remote chain, its
\* store held under its key a value that meets its condition.
TriggeredWasTrue ==
    \A id \in Ids(kv) :
        LET sub == kv.subs[id]
            store == sub.key_path[1]
        IN  sub.status = "Triggered" =>
                \E h \in DOMAIN blocks :
                    /\ sub.watch_key \in DOMAIN blocks[h][store]
                    /\ EvaluateCondition(sub.condition, blocks[h][store][sub.watch_key]) = "Ok"

\* A transaction of the watcher that waits for a block is for a subscription on
\* the store wasm, the only one the watcher looks at, with its own key and a
\* value that meets its condition: though a request may name any key for any
\* subscription, the cached list may not have it, and key_path is never read.
SentFitsSubscription ==
    \A i \in DOMAIN mempool :
        LET sub == kv.subs[mempool[i].id]
            msg == mempool[i].msg
        IN  /\ mempool[i].id \in Ids(kv)
            /\ sub.key_path[1] = "wasm"
            /\ msg.key = sub.watch_key
            /\ EvaluateCondition(sub.condition, msg.value) = "Ok"

\* The loop, requests, late inclusion after a time-out and restarts may all send
\* the same proof: of the transactions that land for a subscription at most one
\* takes effect, and only while its sequence number was next.
OneEffectPerSubscription ==
    /\ \A x, y \in landed : x.res = "Ok" /\ y.res = "Ok" /\ x.id = y.id => x = y
    /\ \A x, y \in landed : x.seq = y.seq => x = y
    /\ \A x \in landed : x.seq < sequence

\* Seen from the hub, the watcher and everyone else who submits, at any time and
\* in any order, are one more way to use the contract: its storage keeps the
\* promise that InterchainEvents keeps with its callbacks in progress. A
\* subscription is decided once, in time, with one effect or none.
Promise == INSTANCE OneShotSubscriptions WITH
    now      <- height,
    deadline <- [id \in Ids(kv) |-> kv.subs[id].expires_at],
    life     <- [id \in Ids(kv) |-> kv.subs[id].status],
    effects  <- [id \in Ids(kv) |-> Cardinality(DeliveredFor(kv, id))]

HubKeepsPromise == Promise!Spec

\* The watcher serves every subscription: if its condition comes to hold and
\* holds from then on, and it does not expire, it is decided in the end, as long
\* as the chains go on.
Holds(id) ==
    LET sub == kv.subs[id]
        store == sub.key_path[1]
    IN  /\ id \in Ids(kv)
        /\ sub.expires_at = None
        /\ sub.watch_key \in DOMAIN blocks[Executed][store]
        /\ EvaluateCondition(sub.condition, blocks[Executed][store][sub.watch_key]) = "Ok"

Decided(id) == id \in Ids(kv) /\ kv.subs[id].status # "Active"

AllServed == ChainFairness => \A id \in 1..U64Max : <>[]Holds(id) => <>Decided(id)

\* A poll ends and a request is answered even if both chains have stopped: no
\* task waits for ever for a block of the remote chain, nor for its transaction
\* to land (fetchAppHash's attempts, and the minute that execute waits).
TasksComeToRest == \A t \in Tasks : ~At(t, "rest") ~> At(t, "rest")

\* types.rs makes Expired one of the states of a subscription's lifecycle: a
\* transaction refused because the subscription has expired records it.
ExpiryIsRecorded ==
    \A x \in landed : x.res = "SubscriptionExpired" => kv.subs[x.id].status = "Expired"

=============================================================================
