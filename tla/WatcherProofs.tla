--------------------------- MODULE WatcherProofs ---------------------------
(***************************************************************************)
(* What the watcher and the two chains keep, for any subscriptions, any    *)
(* number of requests, and any number of calls that fail, transactions     *)
(* that are dropped and restarts of the server.                            *)
(*                                                                         *)
(* The invariant is in three parts. RemoteInv is about the chain that is   *)
(* watched, HubInv about the storage and the transactions of the hub,      *)
(* TasksInv about what the tasks of the server have in hand. What a task   *)
(* has been answered stays true because blocks are only added to and a     *)
(* subscription changes nothing but its status, once.                      *)
(***************************************************************************)
EXTENDS Watcher, OperatorProofs, FiniteSetTheorems

-----------------------------------------------------------------------------
(***************************************************************************)
(* The remote chain. `V' are the values attestations may be stored as.     *)
(***************************************************************************)
StateOK(state, V) ==
    /\ DOMAIN state = {"wasm", "bank"}
    /\ \A id \in DOMAIN state.wasm : id \in AttestationIds \ {Empty} /\ state.wasm[id] \in V

RemoteInv(V) ==
    /\ IsSeq(blocks)
    /\ Len(blocks) \in 1..MaxRemoteHeight
    /\ headers \in {Len(blocks), Len(blocks) + 1}
    /\ \A h \in 1..Len(blocks) : StateOK(blocks[h], V)
    /\ \A id \in DOMAIN attestations :
          id \in AttestationIds \ {Empty} /\ AttestationValue(attestations[id]) \in V

\* Blocks are only added.
Grows(bs, cs) ==
    /\ Len(bs) \in Nat /\ Len(cs) \in Nat /\ Len(bs) <= Len(cs)
    /\ \A h \in 1..Len(bs) : cs[h] = bs[h]

\* What a node has answered at a height: the value of a key, with its proof.
FoundAt(bs, h, key) ==
    [key |-> key, value |-> bs[h].wasm[key], height |-> h,
     proofOps |-> ProofOps(bs[h], "wasm", key)]

Answered(bs, found) ==
    \E h \in 1..Len(bs) : \E key \in DOMAIN bs[h].wasm : found = FoundAt(bs, h, key)

\* A message with the proof of a value, and the application hash it is under.
Genuine(bs, msg) ==
    \E h \in 1..Len(bs) : \E key \in DOMAIN bs[h].wasm :
        msg = SubmitProofMsg(FoundAt(bs, h, key), AppHash(bs[h]))

(***************************************************************************)
(* The hub. A subscription keeps all it was made with, and its status once *)
(* that is no longer Active.                                               *)
(***************************************************************************)
Fields ==
    {"id", "creator", "client_id", "key_path", "watch_key", "condition",
     "callback_contract", "status", "created_at", "expires_at"}

Filed(k) ==
    /\ k = [next_id |-> k.next_id, subs |-> k.subs, events |-> k.events]
    /\ k.next_id \in Nat \ {0}
    /\ IsSeq(k.events)
    /\ \A id \in Ids(k) : id \in 1..(k.next_id - 1) /\ DOMAIN k.subs[id] = Fields

SameTerms(old, new) ==
    /\ new.key_path = old.key_path
    /\ new.watch_key = old.watch_key
    /\ new.condition = old.condition
    /\ new.callback_contract = old.callback_contract
    /\ new.expires_at = old.expires_at

Later(k, j) ==
    \A id \in Ids(k) :
        /\ id \in Ids(j)
        /\ SameTerms(k.subs[id], j.subs[id])
        /\ k.subs[id].status # "Active" => j.subs[id].status = k.subs[id].status

\* A message that the contract would accept from whoever is first.
Fits(k, id, msg) == id \in Ids(k) /\ ProofResult(k.subs[id], msg) = "Ok"

\* A value that was under the key of a subscription in some block, and met it.
WasTrue(bs, sub) ==
    \E h \in 1..Len(bs) :
        /\ sub.watch_key \in DOMAIN bs[h][sub.key_path[1]]
        /\ EvaluateCondition(sub.condition, bs[h][sub.key_path[1]][sub.watch_key]) = "Ok"

StorageOK(bs, k) ==
    /\ Filed(k)
    /\ \A id \in Ids(k) : k.subs[id].status = "Triggered" => WasTrue(bs, k.subs[id])

\* The transactions that wait have the next sequence numbers, in order.
MempoolOK(bs, k, next, pool) ==
    /\ IsSeq(pool)
    /\ \A i \in 1..Len(pool) :
          /\ pool[i].seq = next + i - 1
          /\ Genuine(bs, pool[i].msg) /\ Fits(k, pool[i].id, pool[i].msg)

\* Those that landed have spent theirs, and what they were accepted for is decided.
LandedOK(k, next, txs) ==
    /\ \A x \in txs : x.seq \in Nat /\ x.seq < next
    /\ \A x, y \in txs : x.seq = y.seq => x = y
    /\ \A x \in txs : x.res = "Ok" => x.id \in Ids(k) /\ k.subs[x.id].status # "Active"
    /\ \A x, y \in txs : x.res = "Ok" /\ y.res = "Ok" /\ x.id = y.id => x = y

HubInv ==
    /\ sequence \in Nat
    /\ StorageOK(blocks, kv)
    /\ MempoolOK(blocks, kv, sequence, mempool)
    /\ LandedOK(kv, sequence, landed)

(***************************************************************************)
(* The effects of callbacks, as the events of proof-callback show them.    *)
(***************************************************************************)
IsDelivery(event, id) == event.caller = Self /\ event.subscription_id = id

\* One event for each subscription that is Triggered, and none for the others.
EventsOK(k) ==
    /\ \A i \in 1..Len(k.events) : k.events[i].caller = Self =>
          LET id == k.events[i].subscription_id
          IN  id \in Ids(k) /\ k.subs[id].status = "Triggered"
    /\ \A i, j \in 1..Len(k.events) : \A id \in Ids(k) :
          IsDelivery(k.events[i], id) /\ IsDelivery(k.events[j], id) => i = j
    /\ \A id \in Ids(k) : k.subs[id].status = "Triggered" =>
          \E i \in 1..Len(k.events) : IsDelivery(k.events[i], id)

\* Nothing is stored as Expired (see ExpiryIsRecorded).
StatusesOK(k) ==
    \A id \in Ids(k) : /\ k.subs[id].status \in {"Active", "Triggered", "Failed"}
                       /\ k.subs[id].expires_at \in Nat \cup {None}

EffectsInv == height \in Nat /\ StatusesOK(kv) /\ EventsOK(kv)

(***************************************************************************)
(* The tasks of the server.                                                *)
(***************************************************************************)
TaskFields == {"pc", "todo", "id", "key", "found", "attempts", "msg", "seq"}

TaskOK(bs, k, task) ==
    /\ DOMAIN task = TaskFields
    /\ task.pc \in Pcs
    /\ task.attempts \in 0..(MaxAttempts - 1)
    /\ task.pc = "hash" => Answered(bs, task.found)
    /\ task.pc \in {"simulate", "sign", "broadcast", "await"} => Genuine(bs, task.msg)
    /\ task.pc \in {"sign", "broadcast"} => Fits(k, task.id, task.msg)

TasksOK(bs, k, ts) ==
    /\ ts = [t \in Tasks |-> ts[t]]
    /\ \A t \in Tasks : TaskOK(bs, k, ts[t])

TasksInv == TasksOK(blocks, kv, tasks)

WatcherInv(V) == RemoteInv(V) /\ HubInv /\ TasksInv

-----------------------------------------------------------------------------
(***************************************************************************)
(* Proofs that were put together from a node's answers.                    *)
(***************************************************************************)

\* SubmitProofMsg's fields.
LEMMA MessageOf ==
    ASSUME NEW bs, NEW h, NEW key, NEW app_hash
    PROVE  LET m == SubmitProofMsg(FoundAt(bs, h, key), app_hash)
           IN  /\ m.app_hash = app_hash /\ m.key = key /\ m.value = bs[h].wasm[key]
               /\ m.proof = buildMerkleProof(ProofOps(bs[h], "wasm", key))
    BY DEF SubmitProofMsg, FoundAt

\* The contract accepts them, for the store wasm.
LEMMA GenuineVerifies ==
    ASSUME NEW V, NothingEmpty(V), NEW bs, \A h \in 1..Len(bs) : StateOK(bs[h], V),
           NEW msg, Genuine(bs, msg)
    PROVE  verify_chained_membership(msg.app_hash, msg.proof, << "wasm" >>,
                                     msg.key, msg.value) = "Ok"
<1>0. PICK h \in 1..Len(bs) : \E key \in DOMAIN bs[h].wasm :
            msg = SubmitProofMsg(FoundAt(bs, h, key), AppHash(bs[h]))
    BY DEF Genuine
<1>1. PICK key \in DOMAIN bs[h].wasm : msg = SubmitProofMsg(FoundAt(bs, h, key), AppHash(bs[h]))
    BY <1>0
<1> DEFINE c == bs[h]
<1>2. "wasm" \in DOMAIN c /\ StateOK(c, V)
    BY DEF StateOK
<1>3. StoreRoot(c.wasm) \in
          [spec : {"iavl"}, leaves : SUBSET [key : AttestationIds, value : V]]
    BY <1>2 DEF StateOK, StoreRoot, Leaf
<1>4. Empty \notin {"wasm", key, c["wasm"][key], StoreRoot(c["wasm"])}
    BY <1>2, <1>3 DEF NothingEmpty, StateOK
<1> HIDE DEF c
<1>5. verify_chained_membership(AppHash(c), buildMerkleProof(ProofOps(c, "wasm", key)),
                                << "wasm" >>, key, c["wasm"][key]) = "Ok"
    <2>1. key \in DOMAIN c["wasm"]
        BY DEF c
    <2> QED BY <1>2, <1>4, <2>1, ChainedCompleteness
<1> QED BY <1>1, <1>5, MessageOf DEF c

\* They are accepted for no other store.
LEMMA GenuineIsOfWasm ==
    ASSUME NEW bs, NEW msg, Genuine(bs, msg), NEW key_path, NEW key, NEW value,
           verify_chained_membership(msg.app_hash, msg.proof, key_path, key, value) = "Ok"
    PROVE  key_path[1] = "wasm"
<1>0. PICK h \in 1..Len(bs) : \E k \in DOMAIN bs[h].wasm :
            msg = SubmitProofMsg(FoundAt(bs, h, k), AppHash(bs[h]))
    BY DEF Genuine
<1>1. PICK k \in DOMAIN bs[h].wasm : msg = SubmitProofMsg(FoundAt(bs, h, k), AppHash(bs[h]))
    BY <1>0
<1> DEFINE high == ProofIn(AppHash(bs[h]), Leaf("wasm", StoreRoot(bs[h]["wasm"])))
<1>2. msg.proof.proofs[2] = high
    <2>1. msg.proof = buildMerkleProof(ProofOps(bs[h], "wasm", k))
        BY <1>1, MessageOf
    <2>2. buildMerkleProof(ProofOps(bs[h], "wasm", k)).proofs[2] = high
        BY DEF buildMerkleProof, ProofOps
    <2> QED BY <2>1, <2>2
<1>3. high.type = "exist" /\ high.entries[1].key = "wasm"
    BY DEF ProofIn, Leaf
<1> HIDE DEF high
<1>4. verify_membership(msg.proof.proofs[2], "tendermint", msg.app_hash, key_path[1],
                        calculate_existence_root(msg.proof.proofs[1].entries[1]))
    BY DEF verify_chained_membership, decode_merkle_proof
<1> QED BY <1>2, <1>3, <1>4 DEF verify_membership, OffersFor

-----------------------------------------------------------------------------
(***************************************************************************)
(* The handlers of the hub's contracts.                                    *)
(***************************************************************************)

LEMMA LaterNothing ==
    ASSUME NEW k
    PROVE  Later(k, k)
BY DEF Later, SameTerms

LEMMA LaterFits ==
    ASSUME NEW k, NEW j, Later(k, j), NEW id, NEW msg, Fits(k, id, msg)
    PROVE  Fits(j, id, msg)
BY DEF Fits, Later, SameTerms, ProofResult

\* Another status, and nothing else, for one subscription.
LEMMA WithStatusStep ==
    ASSUME NEW k, Filed(k), NEW id \in Ids(k), NEW s
    PROVE  LET j == WithStatus(k, id, s)
           IN  /\ Filed(j) /\ Ids(j) = Ids(k)
               /\ j.next_id = k.next_id /\ j.events = k.events
               /\ SameTerms(k.subs[id], j.subs[id]) /\ j.subs[id].status = s
               /\ \A o \in Ids(k) : o # id => j.subs[o] = k.subs[o]
<1> DEFINE j == WithStatus(k, id, s)
           sub == [k.subs[id] EXCEPT !.status = s]
           subs == Save(k.subs, id, sub)
<1>1. DOMAIN k.subs[id] = Fields
    BY DEF Filed
<1>2. DOMAIN sub = Fields /\ SameTerms(k.subs[id], sub) /\ sub.status = s
    BY <1>1 DEF SameTerms, Fields
<1>3. j = [next_id |-> k.next_id, subs |-> subs, events |-> k.events]
    BY DEF WithStatus, Filed
<1> HIDE DEF sub
<1>4. /\ DOMAIN subs = Ids(k) /\ subs[id] = sub
      /\ \A o \in Ids(k) : o # id => subs[o] = k.subs[o]
    BY DEF Save, Ids
<1> HIDE DEF subs
<1>5. /\ j.next_id = k.next_id /\ j.events = k.events
      /\ j.subs = subs /\ Ids(j) = Ids(k)
    BY <1>3, <1>4 DEF Ids
<1> HIDE DEF j
<1>6. \A o \in Ids(j) : o \in 1..(j.next_id - 1) /\ DOMAIN j.subs[o] = Fields
    BY <1>2, <1>4, <1>5 DEF Filed
<1>7. Filed(j)
    BY <1>3, <1>5, <1>6 DEF Filed
<1> QED BY <1>2, <1>4, <1>5, <1>7 DEF j

\* execute_subscribe: the next identifier, which no subscription has yet.
LEMMA SubscribeStep ==
    ASSUME NEW k, Filed(k), NEW sender, NEW m, NEW now
    PROVE  LET j == execute_subscribe(k, sender, m, now).kv
           IN  /\ Filed(j)
               /\ Ids(j) = Ids(k) \cup {k.next_id} /\ k.next_id \notin Ids(k)
               /\ j.events = k.events
               /\ j.subs[k.next_id] = Subscription(k.next_id, sender, m, now)
               /\ \A o \in Ids(k) : j.subs[o] = k.subs[o]
<1> DEFINE j == execute_subscribe(k, sender, m, now).kv
           new == Subscription(k.next_id, sender, m, now)
           subs == Save(k.subs, k.next_id, new)
<1>1. j = [next_id |-> k.next_id + 1, subs |-> subs, events |-> k.events]
    BY DEF execute_subscribe, Filed
<1>2. DOMAIN new = Fields
    BY DEF Subscription, Fields
<1> HIDE DEF new
<1>3. k.next_id \in Nat \ {0} /\ k.next_id \notin Ids(k)
    BY DEF Filed
<1>4. /\ DOMAIN subs = Ids(k) \cup {k.next_id} /\ subs[k.next_id] = new
      /\ \A o \in Ids(k) : subs[o] = k.subs[o]
    BY <1>3 DEF Save, Ids
<1> HIDE DEF subs
<1>5. /\ j.next_id = k.next_id + 1 /\ j.events = k.events
      /\ j.subs = subs /\ Ids(j) = Ids(k) \cup {k.next_id}
    BY <1>1, <1>4 DEF Ids
<1> HIDE DEF j
<1>6. \A o \in Ids(j) : o \in 1..(j.next_id - 1) /\ DOMAIN j.subs[o] = Fields
    <2>1. \A o \in Ids(k) : o \in 1..(k.next_id - 1) /\ DOMAIN k.subs[o] = Fields
        BY DEF Filed
    <2>2. k.next_id \in Nat \ {0}
        BY DEF Filed
    <2>3. 1..(j.next_id - 1) = 1..k.next_id
        BY <1>3, <1>5
    <2>4. \A o \in Ids(k) : o \in 1..k.next_id
        BY <1>3, <2>1
    <2>5. k.next_id \in 1..k.next_id
        BY <2>2
    <2> QED BY <1>2, <1>4, <1>5, <2>1, <2>3, <2>4, <2>5
<1>7. Filed(j)
    BY <1>1, <1>3, <1>5, <1>6 DEF Filed
<1> QED BY <1>3, <1>4, <1>5, <1>7 DEF j, new

\* A call of proof-callback adds an event ...
Event(caller, id, text, now) ==
    [caller |-> caller, block_height |-> now, subscription_id |-> id, proven_value |-> text]

LEMMA EventIsAdded ==
    ASSUME NEW k, Filed(k), NEW caller, NEW id, NEW text, NEW now
    PROVE  execute_interchain_event(k, caller, id, text, now) =
                [next_id |-> k.next_id, subs |-> k.subs,
                 events |-> Append(k.events, Event(caller, id, text, now))]
<1>1. k = [next_id |-> k.next_id, subs |-> k.subs, events |-> k.events]
    BY DEF Filed
<1> DEFINE es == Append(k.events, Event(caller, id, text, now))
<1>2. execute_interchain_event(k, caller, id, text, now) = [k EXCEPT !.events = es]
    BY DEF execute_interchain_event, Event
<1> HIDE DEF es
<1>3. [k EXCEPT !.events = es] = [next_id |-> k.next_id, subs |-> k.subs, events |-> es]
    BY <1>1
<1> QED BY <1>2, <1>3 DEF es

\* ... and touches no subscription.
LEMMA EventStep ==
    ASSUME NEW k, Filed(k), NEW caller, NEW id, NEW text, NEW now
    PROVE  LET j == execute_interchain_event(k, caller, id, text, now)
           IN  Filed(j) /\ Ids(j) = Ids(k) /\ j.subs = k.subs
<1> DEFINE es == Append(k.events, Event(caller, id, text, now))
           j == execute_interchain_event(k, caller, id, text, now)
<1>1. j = [next_id |-> k.next_id, subs |-> k.subs, events |-> es]
    BY EventIsAdded
<1>2. IsSeq(es)
    BY AppendSeq DEF Filed
<1> HIDE DEF es, j
<1>3. j.next_id = k.next_id /\ j.subs = k.subs /\ j.events = es /\ Ids(j) = Ids(k)
    BY <1>1 DEF Ids
<1>4. Filed(j)
    BY <1>1, <1>2, <1>3 DEF Filed
<1> QED BY <1>3, <1>4 DEF j

\* A transaction that is refused in its block leaves the storage alone.
LEMMA RefusedProof ==
    ASSUME NEW k, NEW id, NEW p, NEW now
    PROVE  LET r == SubmitProof(k, id, p, now)
           IN  /\ r.res = SubmitResult(k, id, p, now)
               /\ r.res # "Ok" => r.kv = k
BY DEF SubmitProof, execute_submit_proof

\* One that is accepted fits an Active subscription, marks it, and runs its
\* callback: proof-callback, or no contract at all.
LEMMA Acceptance ==
    ASSUME NEW k, NEW id, NEW p, NEW now, SubmitProof(k, id, p, now).res = "Ok"
    PROVE  /\ id \in Ids(k) /\ Fits(k, id, p) /\ k.subs[id].status = "Active"
           /\ SubmitProof(k, id, p, now).kv =
                IF k.subs[id].callback_contract = ProofCallback
                THEN execute_interchain_event(WithStatus(k, id, "Triggered"), Self, id,
                                              from_utf8_lossy(p.value), now)
                ELSE reply(WithStatus(k, id, "Triggered"), id)
<1>1. SubmitResult(k, id, p, now) = "Ok"
    BY RefusedProof
<1>2. Fits(k, id, p) /\ k.subs[id].status = "Active"
    BY <1>1 DEF SubmitResult, Fits
<1>3. execute_submit_proof(k, id, p, now) =
            [res |-> "Ok", kv |-> WithStatus(k, id, "Triggered")]
    BY <1>1 DEF execute_submit_proof
<1> QED BY <1>2, <1>3 DEF SubmitProof, Fits

\* Then the subscription is Triggered, with one more event, or Failed, without.
Delivery(id, p, now) == Event(Self, id, from_utf8_lossy(p.value), now)

LEMMA AcceptedEffect ==
    ASSUME NEW k, Filed(k), NEW id, NEW p, NEW now, SubmitProof(k, id, p, now).res = "Ok"
    PROVE  LET j == SubmitProof(k, id, p, now).kv
           IN  IF k.subs[id].callback_contract = ProofCallback
               THEN /\ j.subs[id].status = "Triggered"
                    /\ j.events = Append(k.events, Delivery(id, p, now))
               ELSE j.subs[id].status = "Failed" /\ j.events = k.events
<1> DEFINE marked == WithStatus(k, id, "Triggered")
<1>1. Filed(marked) /\ id \in Ids(marked) /\ marked.events = k.events
    BY Acceptance, WithStatusStep
<1>2. marked.subs[id].status = "Triggered"
    BY Acceptance, WithStatusStep
<1>3. SubmitProof(k, id, p, now).kv =
            IF k.subs[id].callback_contract = ProofCallback
            THEN execute_interchain_event(marked, Self, id, from_utf8_lossy(p.value), now)
            ELSE reply(marked, id)
    BY Acceptance
<1> HIDE DEF marked
<1>4. CASE k.subs[id].callback_contract = ProofCallback
    <2> DEFINE j == execute_interchain_event(marked, Self, id, from_utf8_lossy(p.value), now)
    <2>1. j.subs = marked.subs
        BY <1>1, EventStep
    <2>2. j.events = Append(marked.events, Delivery(id, p, now))
        BY <1>1, EventIsAdded DEF Delivery
    <2> QED BY <1>1, <1>2, <1>3, <1>4, <2>1, <2>2
<1>5. CASE k.subs[id].callback_contract # ProofCallback
    BY <1>1, <1>3, <1>5, WithStatusStep DEF reply
<1> QED BY <1>4, <1>5

\* Nothing else is changed.
LEMMA AcceptedProof ==
    ASSUME NEW k, Filed(k), NEW id, NEW p, NEW now, SubmitProof(k, id, p, now).res = "Ok"
    PROVE  LET j == SubmitProof(k, id, p, now).kv
           IN  /\ Filed(j) /\ Ids(j) = Ids(k)
               /\ SameTerms(k.subs[id], j.subs[id])
               /\ \A o \in Ids(k) : o # id => j.subs[o] = k.subs[o]
<1> DEFINE j == SubmitProof(k, id, p, now).kv
           marked == WithStatus(k, id, "Triggered")
<1>1. id \in Ids(k)
    BY Acceptance
<1>2. /\ Filed(marked) /\ Ids(marked) = Ids(k)
      /\ SameTerms(k.subs[id], marked.subs[id])
      /\ \A o \in Ids(k) : o # id => marked.subs[o] = k.subs[o]
    BY <1>1, WithStatusStep
<1>3. j = IF k.subs[id].callback_contract = ProofCallback
          THEN execute_interchain_event(marked, Self, id, from_utf8_lossy(p.value), now)
          ELSE reply(marked, id)
    BY Acceptance
<1> HIDE DEF marked, j
<1>4. CASE k.subs[id].callback_contract = ProofCallback
    <2>1. j = execute_interchain_event(marked, Self, id, from_utf8_lossy(p.value), now)
        BY <1>3, <1>4
    <2>2. Filed(j) /\ Ids(j) = Ids(marked) /\ j.subs = marked.subs
        BY <1>2, <2>1, EventStep
    <2> QED BY <1>2, <2>2 DEF j
<1>5. CASE k.subs[id].callback_contract # ProofCallback
    <2>1. /\ Filed(j) /\ Ids(j) = Ids(k) /\ SameTerms(marked.subs[id], j.subs[id])
          /\ \A o \in Ids(k) : o # id => j.subs[o] = marked.subs[o]
        BY <1>1, <1>2, <1>3, <1>5, WithStatusStep DEF reply
    <2>2. SameTerms(k.subs[id], j.subs[id])
        BY <1>2, <2>1 DEF SameTerms
    <2> QED BY <1>2, <2>1, <2>2 DEF j
<1> QED BY <1>4, <1>5

LEMMA AcceptedIsLater ==
    ASSUME NEW k, Filed(k), NEW id, NEW p, NEW now, SubmitProof(k, id, p, now).res = "Ok"
    PROVE  Later(k, SubmitProof(k, id, p, now).kv)
<1> DEFINE j == SubmitProof(k, id, p, now).kv
<1>1. /\ Ids(j) = Ids(k) /\ SameTerms(k.subs[id], j.subs[id])
      /\ \A o \in Ids(k) : o # id => j.subs[o] = k.subs[o]
    BY AcceptedProof
<1>2. k.subs[id].status = "Active"
    BY Acceptance
<1> HIDE DEF j
<1>3. Later(k, j)
    BY <1>1, <1>2 DEF Later, SameTerms
<1> QED BY <1>3 DEF j

-----------------------------------------------------------------------------
(***************************************************************************)
(* Subscriptions and the events of their callbacks.                        *)
(***************************************************************************)

\* What a proof that is accepted does when the callback is proof-callback.
LEMMA AcceptedDelivery ==
    ASSUME NEW k, Filed(k), NEW id, NEW p, NEW now,
           SubmitProof(k, id, p, now).res = "Ok",
           k.subs[id].callback_contract = ProofCallback
    PROVE  LET j == SubmitProof(k, id, p, now).kv
               n == Len(k.events)
           IN  /\ id \in Ids(k) /\ k.subs[id].status = "Active"
               /\ j.subs[id].status = "Triggered"
               /\ n \in Nat /\ Len(j.events) = n + 1
               /\ IsDelivery(j.events[n + 1], id)
               /\ j.events[n + 1].proven_value = from_utf8_lossy(p.value)
               /\ \A i \in 1..n : j.events[i] = k.events[i]
<1> DEFINE j == SubmitProof(k, id, p, now).kv
           n == Len(k.events)
           e == Delivery(id, p, now)
<1>1. id \in Ids(k) /\ k.subs[id].status = "Active"
    BY Acceptance
<1>3. j.subs[id].status = "Triggered" /\ j.events = Append(k.events, e)
    BY AcceptedEffect
<1>4. IsDelivery(e, id) /\ e.proven_value = from_utf8_lossy(p.value)
    BY DEF IsDelivery, Delivery, Event
<1>5. IsSeq(k.events) /\ n \in Nat
    BY SeqLength DEF Filed
<1> HIDE DEF j, e
<1>6. /\ Len(j.events) = n + 1 /\ j.events[n + 1] = e
      /\ \A i \in 1..n : j.events[i] = k.events[i]
    BY <1>3, <1>5, AppendSeq
<1> QED BY <1>1, <1>3, <1>4, <1>5, <1>6 DEF j

EventsGrow(k, j) ==
    \A i \in 1..Len(k.events) : i \in 1..Len(j.events) /\ j.events[i] = k.events[i]

LEMMA SubmittedEvents ==
    ASSUME NEW k, Filed(k), EventsOK(k), NEW id, NEW p, NEW now
    PROVE  LET j == SubmitProof(k, id, p, now).kv
           IN  EventsOK(j) /\ EventsGrow(k, j)
<1> DEFINE r == SubmitProof(k, id, p, now)
           j == r.kv
           n == Len(k.events)
<1>1. CASE r.res # "Ok"
    BY <1>1, RefusedProof DEF EventsGrow
<1>2. CASE r.res = "Ok" /\ k.subs[id].callback_contract = ProofCallback
    <2>1. /\ Ids(j) = Ids(k) /\ SameTerms(k.subs[id], j.subs[id])
          /\ \A o \in Ids(k) : o # id => j.subs[o] = k.subs[o]
        BY <1>2, AcceptedProof
    <2>2. /\ id \in Ids(k) /\ k.subs[id].status = "Active"
          /\ j.subs[id].status = "Triggered"
          /\ n \in Nat /\ Len(j.events) = n + 1
          /\ IsDelivery(j.events[n + 1], id)
          /\ \A i \in 1..n : j.events[i] = k.events[i]
        BY <1>2, AcceptedDelivery
    <2> HIDE DEF j
    <2>4. 1..Len(j.events) = 1..n \cup {n + 1}
        BY <2>2
    <2>5. ASSUME NEW i \in 1..n, k.events[i].caller = Self
          PROVE  k.events[i].subscription_id \in Ids(k) \ {id}
        BY <2>2, <2>5 DEF EventsOK
    <2>6. EventsOK(j)
        <3>1. ASSUME NEW i \in 1..Len(j.events), j.events[i].caller = Self
              PROVE  LET o == j.events[i].subscription_id
                     IN  o \in Ids(j) /\ j.subs[o].status = "Triggered"
            <4>1. CASE i \in 1..n
                BY <2>1, <2>2, <2>5, <3>1, <4>1 DEF EventsOK
            <4>2. CASE i = n + 1
                BY <2>1, <2>2, <4>2 DEF IsDelivery
            <4> QED BY <2>4, <4>1, <4>2
        <3>2. ASSUME NEW a \in 1..Len(j.events), NEW b \in 1..Len(j.events), NEW o \in Ids(j),
                     IsDelivery(j.events[a], o), IsDelivery(j.events[b], o)
              PROVE  a = b
            <4>1. CASE a \in 1..n /\ b \in 1..n
                BY <2>1, <2>2, <3>2, <4>1 DEF EventsOK
            <4>2. CASE a = n + 1 \/ b = n + 1
                <5>1. o = id
                    BY <2>2, <3>2, <4>2 DEF IsDelivery
                <5> QED BY <2>2, <2>4, <2>5, <3>2, <5>1 DEF IsDelivery
            <4> QED BY <2>4, <4>1, <4>2
        <3>3. ASSUME NEW o \in Ids(j), j.subs[o].status = "Triggered"
              PROVE  \E i \in 1..Len(j.events) : IsDelivery(j.events[i], o)
            <4>1. CASE o = id
                BY <2>2, <2>4, <4>1
            <4>2. CASE o # id
                BY <2>1, <2>2, <2>4, <3>3, <4>2 DEF EventsOK
            <4> QED BY <4>1, <4>2
        <3> QED BY <3>1, <3>2, <3>3 DEF EventsOK
    <2>7. EventsGrow(k, j)
        BY <2>2, <2>4 DEF EventsGrow
    <2> QED BY <2>6, <2>7 DEF j
<1>3. CASE r.res = "Ok" /\ k.subs[id].callback_contract # ProofCallback
    <2>1. /\ Ids(j) = Ids(k) /\ \A o \in Ids(k) : o # id => j.subs[o] = k.subs[o]
          /\ id \in Ids(k) /\ k.subs[id].status = "Active"
          /\ j.subs[id].status = "Failed" /\ j.events = k.events
        BY <1>3, AcceptedProof, Acceptance, AcceptedEffect
    <2> HIDE DEF j
    <2>2. EventsOK(j) /\ EventsGrow(k, j)
        BY <2>1 DEF EventsOK, EventsGrow
    <2> QED BY <2>2 DEF j
<1> QED BY <1>1, <1>2, <1>3

LEMMA SubscribedEvents ==
    ASSUME NEW k, Filed(k), EventsOK(k), NEW sender, NEW m, NEW now
    PROVE  LET j == execute_subscribe(k, sender, m, now).kv
           IN  EventsOK(j) /\ EventsGrow(k, j)
<1> DEFINE j == execute_subscribe(k, sender, m, now).kv
           new == Subscription(k.next_id, sender, m, now)
<1>1. /\ Ids(j) = Ids(k) \cup {k.next_id} /\ k.next_id \notin Ids(k)
      /\ j.events = k.events /\ j.subs[k.next_id] = new
      /\ \A o \in Ids(k) : j.subs[o] = k.subs[o]
    BY SubscribeStep
<1>2. new.status = "Active"
    BY DEF Subscription
<1> HIDE DEF j, new
<1>4. \A i \in 1..Len(k.events) : k.events[i].caller = Self =>
            k.events[i].subscription_id # k.next_id
    BY <1>1 DEF EventsOK
<1>5. EventsOK(j)
    <2>1. \A i \in 1..Len(j.events) : j.events[i].caller = Self =>
            LET o == j.events[i].subscription_id
            IN  o \in Ids(j) /\ j.subs[o].status = "Triggered"
        BY <1>1 DEF EventsOK
    <2>2. \A a, b \in 1..Len(j.events) : \A o \in Ids(j) :
            IsDelivery(j.events[a], o) /\ IsDelivery(j.events[b], o) => a = b
        BY <1>1, <1>4 DEF EventsOK, IsDelivery
    <2>3. \A o \in Ids(j) : j.subs[o].status = "Triggered" =>
            \E i \in 1..Len(j.events) : IsDelivery(j.events[i], o)
        BY <1>1, <1>2 DEF EventsOK
    <2> QED BY <2>1, <2>2, <2>3 DEF EventsOK
<1>6. EventsGrow(k, j)
    BY <1>1 DEF EventsGrow
<1> QED BY <1>5, <1>6 DEF j

-----------------------------------------------------------------------------
(***************************************************************************)
(* What stays true when blocks are added and subscriptions decided.        *)
(***************************************************************************)

LEMMA GrowsNothing ==
    ASSUME NEW bs, Len(bs) \in Nat
    PROVE  Grows(bs, bs)
BY DEF Grows

LEMMA GenuineLater ==
    ASSUME NEW bs, NEW cs, Grows(bs, cs)
    PROVE  /\ \A found : Answered(bs, found) => Answered(cs, found)
           /\ \A msg : Genuine(bs, msg) => Genuine(cs, msg)
           /\ \A sub : WasTrue(bs, sub) => WasTrue(cs, sub)
<1>1. \A h \in 1..Len(bs) : h \in 1..Len(cs) /\ cs[h] = bs[h]
    BY DEF Grows
<1>2. \A h \in 1..Len(bs) : \A key : FoundAt(cs, h, key) = FoundAt(bs, h, key)
    BY <1>1 DEF FoundAt
<1>3. ASSUME NEW found, Answered(bs, found) PROVE Answered(cs, found)
    BY <1>1, <1>2, <1>3 DEF Answered
<1>4. ASSUME NEW msg, Genuine(bs, msg) PROVE Genuine(cs, msg)
    BY <1>1, <1>2, <1>4 DEF Genuine
<1>5. ASSUME NEW sub, WasTrue(bs, sub) PROVE WasTrue(cs, sub)
    BY <1>1, <1>5 DEF WasTrue
<1> QED BY <1>3, <1>4, <1>5

LEMMA StorageLater ==
    ASSUME NEW bs, NEW cs, Grows(bs, cs), NEW k, StorageOK(bs, k)
    PROVE  StorageOK(cs, k)
BY GenuineLater DEF StorageOK

LEMMA MempoolLater ==
    ASSUME NEW bs, NEW cs, Grows(bs, cs), NEW k, NEW j, Later(k, j),
           NEW next, NEW pool, MempoolOK(bs, k, next, pool)
    PROVE  MempoolOK(cs, j, next, pool)
BY GenuineLater, LaterFits DEF MempoolOK

LEMMA LandedLater ==
    ASSUME NEW k, NEW j, Later(k, j), NEW next, NEW txs, LandedOK(k, next, txs)
    PROVE  LandedOK(j, next, txs)
BY DEF LandedOK, Later

LEMMA TasksLater ==
    ASSUME NEW bs, NEW cs, Grows(bs, cs), NEW k, NEW j, Later(k, j),
           NEW ts, TasksOK(bs, k, ts)
    PROVE  TasksOK(cs, j, ts)
<1>1. ASSUME NEW task, TaskOK(bs, k, task) PROVE TaskOK(cs, j, task)
    BY <1>1, GenuineLater, LaterFits DEF TaskOK
<1> QED BY <1>1 DEF TasksOK

\* A proof under an application hash of the chain, whoever submits it, makes a
\* subscription Triggered only for a value the chain had.
LEMMA SubmittedStorage ==
    ASSUME NEW bs, NEW k, StorageOK(bs, k), NEW id, NEW p, NEW now,
           NEW h \in 1..Len(bs), p.app_hash = AppHash(bs[h])
    PROVE  LET j == SubmitProof(k, id, p, now).kv
           IN  StorageOK(bs, j) /\ Later(k, j)
<1> DEFINE r == SubmitProof(k, id, p, now)
           sub == k.subs[id]
<1>1. CASE r.res # "Ok"
    BY <1>1, RefusedProof, LaterNothing
<1>2. CASE r.res = "Ok"
    <2>1. /\ Filed(r.kv) /\ Ids(r.kv) = Ids(k) /\ SameTerms(sub, r.kv.subs[id])
          /\ \A o \in Ids(k) : o # id => r.kv.subs[o] = k.subs[o]
        BY <1>2, AcceptedProof DEF StorageOK
    <2>2. Fits(k, id, p)
        BY <1>2, Acceptance
    <2>3. Later(k, r.kv)
        BY <1>2, AcceptedIsLater DEF StorageOK
    <2> HIDE DEF r
    <2>4. WasTrue(bs, sub)
        <3>1. /\ verify_chained_membership(AppHash(bs[h]), p.proof, sub.key_path,
                                           p.key, p.value) = "Ok"
              /\ p.key = sub.watch_key /\ EvaluateCondition(sub.condition, p.value) = "Ok"
            BY <2>2 DEF Fits, ProofResult
        <3>2. /\ p.key \in DOMAIN bs[h][sub.key_path[1]]
              /\ bs[h][sub.key_path[1]][p.key] = p.value
            BY <3>1, ChainedSoundness
        <3> QED BY <3>1, <3>2 DEF WasTrue
    <2>5. WasTrue(bs, r.kv.subs[id])
        BY <2>1, <2>4 DEF WasTrue, SameTerms
    <2>6. StorageOK(bs, r.kv)
        BY <2>1, <2>5 DEF StorageOK
    <2> QED BY <2>3, <2>6 DEF r
<1> QED BY <1>1, <1>2

LEMMA SubscribedStorage ==
    ASSUME NEW bs, NEW k, StorageOK(bs, k), NEW sender, NEW m, NEW now
    PROVE  LET j == execute_subscribe(k, sender, m, now).kv
           IN  StorageOK(bs, j) /\ Later(k, j)
<1> DEFINE j == execute_subscribe(k, sender, m, now).kv
           new == Subscription(k.next_id, sender, m, now)
<1>1. /\ Filed(j) /\ Ids(j) = Ids(k) \cup {k.next_id} /\ j.subs[k.next_id] = new
      /\ \A o \in Ids(k) : j.subs[o] = k.subs[o]
    BY SubscribeStep DEF StorageOK
<1>2. new.status = "Active"
    BY DEF Subscription
<1> HIDE DEF j, new
<1>3. StorageOK(bs, j)
    BY <1>1, <1>2 DEF StorageOK
<1>4. Later(k, j)
    BY <1>1 DEF Later, SameTerms
<1> QED BY <1>3, <1>4 DEF j

-----------------------------------------------------------------------------
(***************************************************************************)
(* The steps of the remote chain.                                          *)
(***************************************************************************)

\* A state after which another attestation is stored.
LEMMA AttestKeeps ==
    ASSUME NEW V, RemoteInv(V), NEW sender, NEW id \in AttestationIds, NEW status,
           AttestationValue([status |-> status, attester |-> sender,
                             height |-> Executed + 1]) \in V,
           Attest(sender, id, status)
    PROVE  RemoteInv(V)' /\ Grows(blocks, blocks')
<1> DEFINE a == [status |-> status, attester |-> sender, height |-> Executed + 1]
<1>1. AttestationValue(a) \in V
    OBVIOUS
<1>2. attestations' = [i \in DOMAIN attestations \cup {id} |->
                            IF i = id THEN a ELSE attestations[i]]
    BY DEF Attest
<1> HIDE DEF a
<1>3. \A i \in DOMAIN attestations' :
          i \in AttestationIds \ {Empty} /\ AttestationValue(attestations'[i]) \in V
    BY <1>1, <1>2 DEF Attest, RemoteInv
<1>4. blocks' = blocks /\ headers' = headers
    BY DEF Attest
<1>5. Len(blocks) \in Nat
    BY DEF RemoteInv
<1> QED BY <1>3, <1>4, <1>5, GrowsNothing DEF RemoteInv, StateOK

\* What the attestations are stored as is what the next block has.
LEMMA MultistoreOK ==
    ASSUME NEW V, RemoteInv(V)
    PROVE  StateOK(Multistore, V)
<1> DEFINE wasm == [id \in DOMAIN attestations |-> AttestationValue(attestations[id])]
<1>1. \A id \in DOMAIN wasm : id \in AttestationIds \ {Empty} /\ wasm[id] \in V
    BY DEF RemoteInv
<1>2. Multistore.wasm = wasm /\ DOMAIN Multistore = {"wasm", "bank"}
    BY DEF Multistore
<1> QED BY <1>1, <1>2 DEF StateOK

LEMMA ExecuteBlockKeeps ==
    ASSUME NEW V, RemoteInv(V), ExecuteBlock
    PROVE  RemoteInv(V)' /\ Grows(blocks, blocks')
<1> DEFINE m == Multistore
           n == Len(blocks)
<1>1. /\ blocks' = Append(blocks, m) /\ n < MaxRemoteHeight /\ headers = n + 1
      /\ headers' = headers /\ attestations' = attestations
    BY DEF ExecuteBlock, Executed
<1>2. StateOK(m, V)
    BY MultistoreOK
<1>3. n \in Nat \ {0} /\ IsSeq(blocks) /\ MaxRemoteHeight \in Nat
    BY RemoteBoundAssumption DEF RemoteInv
<1> HIDE DEF m
<1>4. /\ IsSeq(blocks') /\ Len(blocks') = n + 1 /\ blocks'[n + 1] = m
      /\ \A h \in 1..n : blocks'[h] = blocks[h]
    BY <1>1, <1>3, AppendSeq
<1>5. \A h \in 1..Len(blocks') : StateOK(blocks'[h], V)
    <2>1. \A h \in 1..n : StateOK(blocks[h], V)
        BY DEF RemoteInv
    <2>2. \A h \in 1..(n + 1) : h \in 1..n \/ h = n + 1
        BY <1>3
    <2> QED BY <1>2, <1>4, <2>1, <2>2
<1>6. Grows(blocks, blocks')
    BY <1>3, <1>4 DEF Grows
<1>7. Len(blocks') \in 1..MaxRemoteHeight /\ headers' \in {Len(blocks'), Len(blocks') + 1}
    BY <1>1, <1>3, <1>4
<1>8. RemoteInv(V)'
    BY <1>1, <1>4, <1>5, <1>7 DEF RemoteInv, StateOK
<1> QED BY <1>6, <1>8

LEMMA StoreBlockKeeps ==
    ASSUME NEW V, RemoteInv(V), StoreBlock
    PROVE  RemoteInv(V)' /\ Grows(blocks, blocks')
<1>1. Len(blocks) \in Nat
    BY DEF RemoteInv
<1>2. /\ blocks' = blocks /\ attestations' = attestations
      /\ headers = Len(blocks) /\ headers' = Len(blocks) + 1
    BY <1>1 DEF StoreBlock, Executed
<1> QED BY <1>1, <1>2, GrowsNothing DEF RemoteInv, StateOK

LEMMA TransferKeeps ==
    ASSUME NEW V, RemoteInv(V), NEW b, Transfer(b)
    PROVE  RemoteInv(V)' /\ Grows(blocks, blocks')
<1>1. Len(blocks) \in Nat
    BY DEF RemoteInv
<1>2. blocks' = blocks /\ attestations' = attestations /\ headers' = headers
    BY DEF Transfer
<1> QED BY <1>1, <1>2, GrowsNothing DEF RemoteInv, StateOK

LEMMA RemoteKeeps ==
    ASSUME NEW V, RemoteInv(V), StoredValues(Attesters, AttestationTexts) \subseteq V,
           RemoteNext
    PROVE  RemoteInv(V)' /\ Grows(blocks, blocks')
<1>1. ASSUME NEW s \in Attesters, NEW id \in AttestationIds, NEW text \in AttestationTexts,
             Attest(s, id, text)
      PROVE  RemoteInv(V)' /\ Grows(blocks, blocks')
    <2> DEFINE a == [status |-> text, attester |-> s, height |-> Executed + 1]
    <2>1. Executed + 1 \in 1..(MaxRemoteHeight + 1)
        BY RemoteBoundAssumption DEF RemoteInv, Executed
    <2>2. a \in [status : AttestationTexts, attester : Attesters,
                 height : 1..(MaxRemoteHeight + 1)]
        BY <2>1
    <2>3. AttestationValue(a) \in V
        BY <2>2 DEF StoredValues
    <2> QED BY <1>1, <2>3, AttestKeeps
<1> QED BY <1>1, TransferKeeps, StoreBlockKeeps, ExecuteBlockKeeps DEF RemoteNext

-----------------------------------------------------------------------------
(***************************************************************************)
(* What each kind of step keeps: one of the remote chain, one that changes *)
(* the storage of the hub, and one of a task.                              *)
(***************************************************************************)

LEMMA RemoteMoves ==
    ASSUME NEW V, WatcherInv(V), RemoteInv(V)', Grows(blocks, blocks'),
           UNCHANGED << kv, sequence, mempool, landed, tasks >>
    PROVE  WatcherInv(V)'
<1>1. StorageOK(blocks', kv)
    BY StorageLater DEF WatcherInv, HubInv
<1>2. MempoolOK(blocks', kv, sequence, mempool)
    BY MempoolLater, LaterNothing DEF WatcherInv, HubInv
<1>3. TasksOK(blocks', kv, tasks)
    BY TasksLater, LaterNothing DEF WatcherInv, TasksInv
<1>4. HubInv'
    BY <1>1, <1>2 DEF WatcherInv, HubInv
<1> QED BY <1>3, <1>4 DEF WatcherInv, TasksInv

LEMMA StorageMoves ==
    ASSUME NEW V, WatcherInv(V), StorageOK(blocks, kv'), Later(kv, kv'),
           UNCHANGED << remote_vars, sequence, mempool, landed, tasks >>
    PROVE  WatcherInv(V)'
<1>1. Grows(blocks, blocks) /\ RemoteInv(V)'
    BY GrowsNothing DEF WatcherInv, RemoteInv, remote_vars, StateOK
<1>2. MempoolOK(blocks, kv', sequence, mempool)
    BY <1>1, MempoolLater DEF WatcherInv, HubInv
<1>3. LandedOK(kv', sequence, landed)
    BY LandedLater DEF WatcherInv, HubInv
<1>4. TasksOK(blocks, kv', tasks)
    BY <1>1, TasksLater DEF WatcherInv, TasksInv
<1>5. HubInv'
    BY <1>2, <1>3 DEF WatcherInv, HubInv, remote_vars
<1>6. TasksInv'
    BY <1>4 DEF TasksInv, remote_vars
<1> QED BY <1>1, <1>5, <1>6 DEF WatcherInv

LEMMA TaskMoves ==
    ASSUME NEW V, WatcherInv(V), NEW t \in Tasks, NEW task, TaskOK(blocks, kv, task),
           Becomes(t, task), UNCHANGED << remote_vars, kv, sequence, mempool, landed >>
    PROVE  WatcherInv(V)'
<1>1. TasksOK(blocks, kv, tasks')
    BY DEF WatcherInv, TasksInv, TasksOK, Becomes
<1>2. RemoteInv(V)'
    BY DEF WatcherInv, RemoteInv, remote_vars, StateOK
<1>3. HubInv'
    BY DEF WatcherInv, HubInv, remote_vars
<1>4. TasksInv'
    BY <1>1 DEF TasksInv, remote_vars
<1> QED BY <1>2, <1>3, <1>4 DEF WatcherInv

-----------------------------------------------------------------------------
(***************************************************************************)
(* What a task has in hand after each of its calls.                        *)
(***************************************************************************)

\* A task that has left a subscription has nothing in hand.
LEMMA TurnOK ==
    ASSUME NEW bs, NEW k, NEW todo
    PROVE  TaskOK(bs, k, Turn(todo))
<1>1. 0 \in 0..(MaxAttempts - 1)
    BY WatcherAssumption
<1>2. TaskOK(bs, k, Rest)
    BY <1>1 DEF TaskOK, Rest, TaskFields, Pcs
<1>3. ASSUME NEW id, NEW key, NEW todo2
      PROVE  TaskOK(bs, k, [Rest EXCEPT !.pc = "state", !.todo = todo2, !.id = id, !.key = key])
    BY <1>1 DEF TaskOK, Rest, TaskFields, Pcs
<1> QED BY <1>2, <1>3 DEF Turn

\* The field `pc' of a task is set, and perhaps another.
LEMMA PcStep ==
    ASSUME NEW task, DOMAIN task = TaskFields, NEW pc
    PROVE  LET new == [task EXCEPT !.pc = pc]
           IN  /\ DOMAIN new = TaskFields /\ new.pc = pc /\ new.attempts = task.attempts
               /\ new.found = task.found /\ new.msg = task.msg /\ new.id = task.id
BY DEF TaskFields

\* abci_query's answer has a value of the last block executed.
LEMMA FoundIsAnswered ==
    ASSUME NEW V, RemoteInv(V), NEW key, fetchStateWithProof(key) # None
    PROVE  Answered(blocks, fetchStateWithProof(key))
<1>1. Executed \in 1..Len(blocks)
    BY RemoteBoundAssumption DEF RemoteInv, Executed
<1>2. key \in DOMAIN blocks[Executed].wasm
    BY DEF fetchStateWithProof
<1>3. fetchStateWithProof(key) = FoundAt(blocks, Executed, key)
    BY <1>2 DEF fetchStateWithProof, FoundAt
<1> QED BY <1>1, <1>2, <1>3 DEF Answered

\* The header of the block after it has the application hash it was taken under.
LEMMA AnswerIsGenuine ==
    ASSUME NEW V, RemoteInv(V), NEW found, Answered(blocks, found)
    PROVE  Genuine(blocks, SubmitProofMsg(found, HeaderAppHash(AppHashHeader(found.height))))
<1>1. PICK h \in 1..Len(blocks) :
            \E key \in DOMAIN blocks[h].wasm : found = FoundAt(blocks, h, key)
    BY DEF Answered
<1>2. PICK key \in DOMAIN blocks[h].wasm : found = FoundAt(blocks, h, key)
    BY <1>1
<1>3. found.height = h
    BY <1>2 DEF FoundAt
<1>4. h \in Nat /\ (h + 1) - 1 = h
    BY RemoteBoundAssumption DEF RemoteInv
<1>5. HeaderAppHash(AppHashHeader(found.height)) = AppHash(blocks[h])
    BY <1>3, <1>4 DEF HeaderAppHash, AppHashHeader
<1> QED BY <1>2, <1>5 DEF Genuine

LEMMA FetchStateKeeps ==
    ASSUME NEW V, WatcherInv(V), NEW t \in Tasks, FetchState(t)
    PROVE  WatcherInv(V)'
<1> DEFINE found == fetchStateWithProof(tasks[t].key)
           new == [tasks[t] EXCEPT !.pc = "hash", !.found = found]
<1>1. TaskOK(blocks, kv, tasks[t])
    BY DEF WatcherInv, TasksInv, TasksOK
<1>2. ASSUME found # None PROVE TaskOK(blocks, kv, new)
    <2>1. Answered(blocks, found)
        BY <1>2, FoundIsAnswered DEF WatcherInv
    <2> HIDE DEF found
    <2> QED BY <1>1, <2>1 DEF TaskOK, TaskFields, Pcs
<1>3. /\ \/ found # None /\ Becomes(t, new)
         \/ Becomes(t, Leave(t))
      /\ UNCHANGED << remote_vars, hub_vars >>
    BY DEF FetchState, Returns
<1> HIDE DEF new
<1> QED BY <1>2, <1>3, TurnOK, TaskMoves DEF Leave, hub_vars

LEMMA FetchAppHashKeeps ==
    ASSUME NEW V, WatcherInv(V), NEW t \in Tasks, FetchAppHash(t)
    PROVE  WatcherInv(V)'
<1> DEFINE found == tasks[t].found
           msg == SubmitProofMsg(found, HeaderAppHash(AppHashHeader(found.height)))
           new == [tasks[t] EXCEPT !.pc = "simulate", !.msg = msg]
           again == [tasks[t] EXCEPT !.attempts = @ + 1]
<1>1. TaskOK(blocks, kv, tasks[t]) /\ tasks[t].pc = "hash"
    BY DEF WatcherInv, TasksInv, TasksOK, FetchAppHash, At
<1>2. TaskOK(blocks, kv, new)
    <2>1. Genuine(blocks, msg)
        BY <1>1, AnswerIsGenuine DEF WatcherInv, TaskOK
    <2> HIDE DEF msg
    <2> QED BY <1>1, <2>1 DEF TaskOK, TaskFields, Pcs
<1>3. ASSUME tasks[t].attempts + 1 < MaxAttempts PROVE TaskOK(blocks, kv, again)
    <2>1. tasks[t].attempts + 1 \in 0..(MaxAttempts - 1)
        BY <1>1, <1>3, WatcherAssumption DEF TaskOK
    <2> QED BY <1>1, <2>1 DEF TaskOK, TaskFields, Pcs
<1>4. /\ \/ Becomes(t, new)
         \/ tasks[t].attempts + 1 < MaxAttempts /\ Becomes(t, again)
         \/ Becomes(t, Leave(t))
      /\ UNCHANGED << remote_vars, hub_vars >>
    BY DEF FetchAppHash, Returns
<1> HIDE DEF new, again
<1> QED BY <1>2, <1>3, <1>4, TurnOK, TaskMoves DEF Leave, hub_vars

\* A message that passed the simulation fits its subscription from then on.
LEMMA SimulateKeeps ==
    ASSUME NEW V, WatcherInv(V), NEW t \in Tasks, Simulate(t)
    PROVE  WatcherInv(V)'
<1> DEFINE new == [tasks[t] EXCEPT !.pc = "sign"]
           accepted == SubmitProof(kv, tasks[t].id, tasks[t].msg, height).res = "Ok"
<1>1. TaskOK(blocks, kv, tasks[t]) /\ tasks[t].pc = "simulate"
    BY DEF WatcherInv, TasksInv, TasksOK, Simulate, At
<1>2. ASSUME accepted PROVE TaskOK(blocks, kv, new)
    <2>1. Fits(kv, tasks[t].id, tasks[t].msg)
        BY <1>2, Acceptance
    <2> QED BY <1>1, <2>1, PcStep DEF TaskOK, Pcs
<1>3. /\ \/ accepted /\ Becomes(t, new)
         \/ Becomes(t, Leave(t))
      /\ UNCHANGED << remote_vars, hub_vars >>
    BY DEF Simulate, Returns
<1> HIDE DEF new, accepted
<1> QED BY <1>2, <1>3, TurnOK, TaskMoves DEF Leave, hub_vars

LEMMA SignKeeps ==
    ASSUME NEW V, WatcherInv(V), NEW t \in Tasks, Sign(t)
    PROVE  WatcherInv(V)'
<1> DEFINE new == [tasks[t] EXCEPT !.pc = "broadcast", !.seq = sequence]
<1>1. TaskOK(blocks, kv, tasks[t]) /\ tasks[t].pc = "sign"
    BY DEF WatcherInv, TasksInv, TasksOK, Sign, At
<1>2. TaskOK(blocks, kv, new)
    BY <1>1 DEF TaskOK, TaskFields, Pcs
<1>3. Becomes(t, new) /\ UNCHANGED << remote_vars, hub_vars >>
    BY DEF Sign, Returns
<1> HIDE DEF new
<1> QED BY <1>2, <1>3, TaskMoves DEF hub_vars

\* CheckTx lets in the transaction with the sequence number after those that wait.
LEMMA BroadcastKeeps ==
    ASSUME NEW V, WatcherInv(V), NEW t \in Tasks, Broadcast(t)
    PROVE  WatcherInv(V)'
<1> DEFINE new == [tasks[t] EXCEPT !.pc = "await"]
           tx == Transaction(t)
<1>1. TaskOK(blocks, kv, tasks[t]) /\ tasks[t].pc = "broadcast"
    BY DEF WatcherInv, TasksInv, TasksOK, Broadcast, At
<1>2. TaskOK(blocks, kv, new)
    BY <1>1, PcStep DEF TaskOK, Pcs
<1> HIDE DEF new
<1>3. CASE ~CheckTx(tasks[t].seq)
    <2>1. Becomes(t, Leave(t)) /\ UNCHANGED << remote_vars, kv, sequence, mempool, landed >>
        BY <1>3 DEF Broadcast
    <2> QED BY <2>1, TurnOK, TaskMoves DEF Leave
<1>4. CASE CheckTx(tasks[t].seq)
    <2>1. /\ mempool' = Append(mempool, tx) /\ Becomes(t, new)
          /\ UNCHANGED << remote_vars, kv, sequence, landed >>
        BY <1>4 DEF Broadcast, new
    <2>2. IsSeq(mempool) /\ Len(mempool) \in Nat /\ sequence \in Nat
        BY SeqLength DEF WatcherInv, HubInv, MempoolOK
    <2>3. /\ tx.seq = sequence + Len(mempool) /\ Genuine(blocks, tx.msg)
          /\ Fits(kv, tx.id, tx.msg)
        BY <1>1, <1>4 DEF TaskOK, Transaction, CheckTx
    <2> HIDE DEF tx
    <2>4. /\ IsSeq(mempool') /\ Len(mempool') = Len(mempool) + 1
          /\ mempool'[Len(mempool) + 1] = tx
          /\ \A i \in 1..Len(mempool) : mempool'[i] = mempool[i]
        BY <2>1, <2>2, AppendSeq
    <2>5. ASSUME NEW i \in 1..Len(mempool')
          PROVE  /\ mempool'[i].seq = sequence + i - 1
                 /\ Genuine(blocks, mempool'[i].msg)
                 /\ Fits(kv, mempool'[i].id, mempool'[i].msg)
        <3>1. CASE i \in 1..Len(mempool)
            BY <2>4, <3>1 DEF WatcherInv, HubInv, MempoolOK
        <3>2. CASE i = Len(mempool) + 1
            <4>1. sequence + Len(mempool) = sequence + i - 1
                BY <2>2, <3>2
            <4> QED BY <2>3, <2>4, <3>2, <4>1
        <3> QED BY <2>2, <2>4, <3>1, <3>2
    <2>6. MempoolOK(blocks, kv, sequence, mempool')
        BY <2>4, <2>5 DEF MempoolOK
    <2>7. HubInv'
        BY <2>1, <2>6 DEF WatcherInv, HubInv, remote_vars
    <2>8. RemoteInv(V)'
        BY <2>1 DEF WatcherInv, RemoteInv, remote_vars, StateOK
    <2>9. TasksInv'
        BY <1>2, <2>1 DEF WatcherInv, TasksInv, TasksOK, Becomes, remote_vars
    <2> QED BY <2>7, <2>8, <2>9 DEF WatcherInv
<1> QED BY <1>3, <1>4

-----------------------------------------------------------------------------
(***************************************************************************)
(* The transactions of the hub.                                            *)
(***************************************************************************)

LEMMA SubscribeKeeps ==
    ASSUME NEW V, WatcherInv(V), NEW m, Subscribe(m)
    PROVE  WatcherInv(V)'
<1>1. StorageOK(blocks, kv') /\ Later(kv, kv')
    BY SubscribedStorage DEF WatcherInv, HubInv, Subscribe
<1> QED BY <1>1, StorageMoves DEF Subscribe, server_vars

LEMMA SubmitAsOtherKeeps ==
    ASSUME NEW V, WatcherInv(V), NEW id, SubmitAsOther(id)
    PROVE  WatcherInv(V)'
<1> DEFINE sub == kv.subs[id]
           store == sub.key_path[1]
           state == blocks[Executed]
           p == [app_hash |-> HeaderAppHash(AppHashHeader(Executed)), key |-> sub.watch_key,
                 proof |-> buildMerkleProof(ProofOps(state, store, sub.watch_key)),
                 value |-> state[store][sub.watch_key]]
<1>1. /\ kv' = SubmitProof(kv, id, p, height).kv
      /\ UNCHANGED << remote_vars, sequence, mempool, landed, tasks >>
    BY DEF SubmitAsOther, server_vars
<1>2. Executed \in 1..Len(blocks) /\ (Executed + 1) - 1 = Executed
    BY RemoteBoundAssumption DEF WatcherInv, RemoteInv, Executed
<1>3. p.app_hash = AppHash(blocks[Executed])
    BY <1>2 DEF HeaderAppHash, AppHashHeader
<1> HIDE DEF p
<1>4. StorageOK(blocks, kv') /\ Later(kv, kv')
    BY <1>1, <1>2, <1>3, SubmittedStorage DEF WatcherInv, HubInv
<1> QED BY <1>1, <1>4, StorageMoves

\* A transaction that takes effect is the first to do so for its subscription:
\* had there been another, the subscription would not be Active.
LEMMA IncludeKeeps ==
    ASSUME NEW V, WatcherInv(V), Include
    PROVE  WatcherInv(V)'
<1> DEFINE tx == mempool[1]
           r == SubmitProof(kv, tx.id, tx.msg, height)
           x == [task |-> tx.task, seq |-> tx.seq, id |-> tx.id, res |-> r.res]
<1>1. IsSeq(mempool) /\ mempool # << >> /\ sequence \in Nat
    BY DEF WatcherInv, HubInv, MempoolOK, Include
<1>2. /\ Len(mempool) \in Nat \ {0} /\ Head(mempool) = tx
      /\ IsSeq(Tail(mempool)) /\ Len(Tail(mempool)) = Len(mempool) - 1
      /\ \A i \in 1..(Len(mempool) - 1) : Tail(mempool)[i] = mempool[i + 1]
    BY <1>1, TailSeq
<1>3. /\ kv' = r.kv /\ landed' = landed \cup {x} /\ mempool' = Tail(mempool)
      /\ sequence' = sequence + 1 /\ UNCHANGED << remote_vars, tasks >>
    BY <1>2 DEF Include, server_vars
<1>4. /\ \A i \in 1..Len(mempool) : mempool[i].seq = sequence + i - 1
      /\ \A i \in 1..Len(mempool) :
            Genuine(blocks, mempool[i].msg) /\ Fits(kv, mempool[i].id, mempool[i].msg)
    BY DEF WatcherInv, HubInv, MempoolOK
<1>5. tx.seq = sequence /\ Genuine(blocks, tx.msg)
    <2>1. 1 \in 1..Len(mempool) /\ sequence + 1 - 1 = sequence
        BY <1>1, <1>2
    <2> QED BY <1>4, <2>1
<1>6. StorageOK(blocks, kv') /\ Later(kv, kv')
    <2>1. PICK h \in 1..Len(blocks) : \E key \in DOMAIN blocks[h].wasm :
                tx.msg = SubmitProofMsg(FoundAt(blocks, h, key), AppHash(blocks[h]))
        BY <1>5 DEF Genuine
    <2>2. tx.msg.app_hash = AppHash(blocks[h])
        BY <2>1, MessageOf
    <2> QED BY <1>3, <2>2, SubmittedStorage DEF WatcherInv, HubInv
<1>7. /\ x.seq = sequence /\ x.id = tx.id
      /\ x.res = "Ok" => /\ tx.id \in Ids(kv) /\ tx.id \in Ids(kv')
                         /\ kv.subs[tx.id].status = "Active"
                         /\ kv'.subs[tx.id].status # "Active"
    <2>1. ASSUME r.res = "Ok"
          PROVE  /\ tx.id \in Ids(kv) /\ tx.id \in Ids(kv')
                 /\ kv.subs[tx.id].status = "Active" /\ kv'.subs[tx.id].status # "Active"
        <3>1. tx.id \in Ids(kv) /\ kv.subs[tx.id].status = "Active"
            BY <2>1, Acceptance
        <3>2. r.kv.subs[tx.id].status \in {"Triggered", "Failed"}
            BY <2>1, AcceptedEffect DEF WatcherInv, HubInv, StorageOK
        <3> QED BY <1>3, <1>6, <3>1, <3>2 DEF Later
    <2> QED BY <1>5, <2>1
<1> HIDE DEF r, x
<1>8. LandedOK(kv', sequence', landed')
    <2>1. LandedOK(kv', sequence, landed) /\ LandedOK(kv, sequence, landed)
        BY <1>6, LandedLater DEF WatcherInv, HubInv
    <2>2. \A y \in landed : y.seq \in Nat /\ y.seq < sequence /\ y.seq # x.seq
        BY <1>1, <1>7, <2>1 DEF LandedOK
    <2>3. \A y \in landed : y.res = "Ok" /\ x.res = "Ok" => y.id # x.id
        BY <1>7, <2>1 DEF LandedOK
    <2>4. \A y \in landed' : y.seq \in Nat /\ y.seq < sequence'
        BY <1>1, <1>3, <1>7, <2>2
    <2>5. \A y \in landed' : y.res = "Ok" => y.id \in Ids(kv') /\ kv'.subs[y.id].status # "Active"
        BY <1>3, <1>7, <2>1 DEF LandedOK
    <2>6. \A y, z \in landed' : y.seq = z.seq => y = z
        BY <1>3, <2>1, <2>2 DEF LandedOK
    <2>7. \A y, z \in landed' : y.res = "Ok" /\ z.res = "Ok" /\ y.id = z.id => y = z
        BY <1>3, <2>1, <2>3 DEF LandedOK
    <2> QED BY <2>4, <2>5, <2>6, <2>7 DEF LandedOK
<1>9. MempoolOK(blocks, kv', sequence', mempool')
    <2>1. ASSUME NEW i \in 1..Len(mempool')
          PROVE  /\ mempool'[i].seq = sequence' + i - 1
                 /\ Genuine(blocks, mempool'[i].msg)
                 /\ Fits(kv', mempool'[i].id, mempool'[i].msg)
        <3>1. i \in 1..(Len(mempool) - 1) /\ i + 1 \in 1..Len(mempool)
            BY <1>2, <1>3
        <3>2. mempool'[i] = mempool[i + 1]
            BY <1>2, <1>3, <3>1
        <3>3. sequence' + i - 1 = sequence + (i + 1) - 1
            BY <1>1, <1>3, <3>1
        <3> QED BY <1>4, <1>6, <3>1, <3>2, <3>3, LaterFits
    <2> QED BY <1>2, <1>3, <2>1 DEF MempoolOK
<1>10. HubInv'
    <2>1. sequence' \in Nat /\ blocks' = blocks
        BY <1>1, <1>3 DEF remote_vars
    <2> QED BY <1>6, <1>8, <1>9, <2>1 DEF HubInv
<1>11. RemoteInv(V)'
    BY <1>3 DEF WatcherInv, RemoteInv, remote_vars, StateOK
<1>12. TasksInv'
    <2>1. TasksOK(blocks, kv', tasks)
        BY <1>6, TasksLater, GrowsNothing DEF WatcherInv, RemoteInv, TasksInv
    <2> QED BY <1>3, <2>1 DEF TasksInv, remote_vars
<1> QED BY <1>10, <1>11, <1>12 DEF WatcherInv

-----------------------------------------------------------------------------
(***************************************************************************)
(* The other steps of the server and of the hub's node.                    *)
(***************************************************************************)

\* A task gives up, is answered, or starts.
LEMMA LeaveKeeps ==
    ASSUME NEW V, WatcherInv(V), NEW t \in Tasks, Becomes(t, Leave(t)),
           UNCHANGED << remote_vars, kv, sequence, mempool, landed >>
    PROVE  WatcherInv(V)'
BY TurnOK, TaskMoves DEF Leave

LEMMA StartOK ==
    ASSUME NEW bs, NEW k
    PROVE  /\ TaskOK(bs, k, Rest)
           /\ TaskOK(bs, k, [Rest EXCEPT !.pc = "list"])
           /\ \A id, key : TaskOK(bs, k, [Rest EXCEPT !.pc = "state", !.id = id, !.key = key])
<1>1. 0 \in 0..(MaxAttempts - 1)
    BY WatcherAssumption
<1> QED BY <1>1 DEF TaskOK, Rest, TaskFields, Pcs

LEMMA StepKeeps ==
    ASSUME NEW V, WatcherInv(V), NEW t \in Tasks, Step(t)
    PROVE  WatcherInv(V)'
<1>1. CASE FindResult(t)
    BY <1>1, LeaveKeeps DEF FindResult, Returns, hub_vars
<1>2. CASE TimeOut(t)
    BY <1>2, LeaveKeeps DEF TimeOut, Returns, hub_vars
<1> QED BY <1>1, <1>2, FetchStateKeeps, FetchAppHashKeeps, SimulateKeeps, SignKeeps,
           BroadcastKeeps DEF Step

LEMMA TickKeeps ==
    ASSUME NEW V, WatcherInv(V), Tick
    PROVE  WatcherInv(V)'
<1> DEFINE new == [Rest EXCEPT !.pc = "list"]
<1>1. TaskOK(blocks, kv, new) /\ "loop" \in Tasks
    BY StartOK DEF Tasks
<1>2. Becomes("loop", new) /\ UNCHANGED << remote_vars, hub_vars >>
    BY DEF Tick, Returns
<1> HIDE DEF new
<1> QED BY <1>1, <1>2, TaskMoves DEF hub_vars

LEMMA ListSubscriptionsKeeps ==
    ASSUME NEW V, WatcherInv(V), ListSubscriptions
    PROVE  WatcherInv(V)'
<1>1. Becomes("loop", Turn(subscriptions')) /\ UNCHANGED << remote_vars, hub_vars >>
    BY DEF ListSubscriptions
<1>2. "loop" \in Tasks
    BY DEF Tasks
<1> QED BY <1>1, <1>2, TurnOK, TaskMoves DEF hub_vars

LEMMA StartRequestKeeps ==
    ASSUME NEW V, WatcherInv(V), NEW t \in Requests, NEW id, NEW key, StartRequest(t, id, key)
    PROVE  WatcherInv(V)'
<1> DEFINE new == [Rest EXCEPT !.pc = "state", !.id = id, !.key = key]
<1>1. TaskOK(blocks, kv, new) /\ t \in Tasks
    BY StartOK DEF Tasks
<1>2. Becomes(t, new) /\ UNCHANGED << remote_vars, hub_vars >>
    BY DEF StartRequest, Returns
<1> HIDE DEF new
<1> QED BY <1>1, <1>2, TaskMoves DEF hub_vars

LEMMA CallFailsKeeps ==
    ASSUME NEW V, WatcherInv(V), NEW t \in Tasks, CallFails(t)
    PROVE  WatcherInv(V)'
BY LeaveKeeps DEF CallFails, hub_vars

\* The next sequence number is that of the account on chain again.
LEMMA FlushKeeps ==
    ASSUME NEW V, WatcherInv(V), Flush
    PROVE  WatcherInv(V)'
<1>1. mempool' = << >> /\ UNCHANGED << remote_vars, kv, sequence, landed, tasks >>
    BY DEF Flush, server_vars
<1>2. << >> \in Seq({(<< >>)[i] : i \in DOMAIN << >>}) /\ 1..Len(<< >>) = {}
    OBVIOUS
<1>3. MempoolOK(blocks, kv, sequence, << >>)
    BY <1>2 DEF MempoolOK, IsSeq
<1>4. RemoteInv(V)'
    BY <1>1 DEF WatcherInv, RemoteInv, remote_vars, StateOK
<1>5. HubInv'
    BY <1>1, <1>3 DEF WatcherInv, HubInv, remote_vars
<1>6. TasksInv'
    BY <1>1 DEF WatcherInv, TasksInv, remote_vars
<1> QED BY <1>4, <1>5, <1>6 DEF WatcherInv

LEMMA RestartKeeps ==
    ASSUME NEW V, WatcherInv(V), Restart
    PROVE  WatcherInv(V)'
<1>1. tasks' = [t \in Tasks |-> Rest] /\ UNCHANGED << remote_vars, kv, sequence, mempool, landed >>
    BY DEF Restart, hub_vars
<1>2. TasksOK(blocks, kv, tasks')
    BY <1>1, StartOK DEF TasksOK
<1>3. RemoteInv(V)'
    BY <1>1 DEF WatcherInv, RemoteInv, remote_vars, StateOK
<1>4. HubInv'
    BY <1>1 DEF WatcherInv, HubInv, remote_vars
<1>5. TasksInv'
    BY <1>1, <1>2 DEF TasksInv, remote_vars
<1> QED BY <1>3, <1>4, <1>5 DEF WatcherInv

LEMMA NothingKeeps ==
    ASSUME NEW V, WatcherInv(V), UNCHANGED << remote_vars, kv, sequence, mempool, landed, tasks >>
    PROVE  WatcherInv(V)'
<1>1. RemoteInv(V)'
    BY DEF WatcherInv, RemoteInv, remote_vars, StateOK
<1>2. HubInv'
    BY DEF WatcherInv, HubInv, remote_vars
<1>3. TasksInv'
    BY DEF WatcherInv, TasksInv, remote_vars
<1> QED BY <1>1, <1>2, <1>3 DEF WatcherInv

LEMMA InitialInv ==
    ASSUME NEW V, Init
    PROVE  WatcherInv(V)
<1> DEFINE m == Multistore
<1>1. /\ blocks = << m >> /\ headers = 1 /\ attestations = << >>
      /\ kv = InitialStorage /\ sequence = 0 /\ mempool = << >> /\ landed = {}
      /\ tasks = [t \in Tasks |-> Rest]
    BY DEF Init, RemoteInit
<1>2. /\ << >> \in Seq({(<< >>)[i] : i \in DOMAIN << >>}) /\ 1..Len(<< >>) = {}
      /\ DOMAIN << >> = {}
    OBVIOUS
<1>3. StateOK(m, V)
    <2> DEFINE wasm == [id \in DOMAIN attestations |-> AttestationValue(attestations[id])]
    <2>1. DOMAIN wasm = {} /\ m.wasm = wasm /\ DOMAIN m = {"wasm", "bank"}
        BY <1>1, <1>2 DEF Multistore
    <2> QED BY <2>1 DEF StateOK
<1> HIDE DEF m
<1>4. IsSeq(<< m >>) /\ Len(<< m >>) = 1 /\ (<< m >>)[1] = m
    BY DEF IsSeq
<1>5. RemoteInv(V)
    <2>1. 1 \in 1..MaxRemoteHeight
        BY RemoteBoundAssumption
    <2> QED BY <1>1, <1>2, <1>3, <1>4, <2>1 DEF RemoteInv
<1>6. StorageOK(blocks, kv)
    BY <1>1, <1>2 DEF StorageOK, Filed, InitialStorage, Ids, IsSeq
<1>7. MempoolOK(blocks, kv, sequence, mempool)
    BY <1>1, <1>2 DEF MempoolOK, IsSeq
<1>8. HubInv
    BY <1>1, <1>6, <1>7 DEF HubInv, LandedOK
<1>9. TasksInv
    BY <1>1, StartOK DEF TasksInv, TasksOK
<1> QED BY <1>5, <1>8, <1>9 DEF WatcherInv

-----------------------------------------------------------------------------
(***************************************************************************)
(* The theorems.                                                           *)
(***************************************************************************)
AttestedValues == StoredValues(Attesters, AttestationTexts)

LEMMA RemoteStepKeeps ==
    ASSUME NEW V, AttestedValues \subseteq V, WatcherInv(V), RemoteStep
    PROVE  WatcherInv(V)'
<1>1. RemoteInv(V)' /\ Grows(blocks, blocks')
    BY RemoteKeeps DEF WatcherInv, RemoteStep, AttestedValues
<1> QED BY <1>1, RemoteMoves DEF RemoteStep, hub_vars, server_vars

LEMMA NextKeeps ==
    ASSUME NEW V, AttestedValues \subseteq V, WatcherInv(V), [Next]_vars
    PROVE  WatcherInv(V)'
<1>1. CASE UNCHANGED vars
    BY <1>1, NothingKeeps DEF vars, hub_vars, server_vars
<1>2. CASE HubBlock
    BY <1>2, NothingKeeps DEF HubBlock, server_vars
<1> QED BY <1>1, <1>2, RemoteStepKeeps, SubscribeKeeps, SubmitAsOtherKeeps, IncludeKeeps,
           TickKeeps, ListSubscriptionsKeeps, StartRequestKeeps, StepKeeps, CallFailsKeeps,
           FlushKeeps, RestartKeeps DEF Next

\* The invariant behind the theorems below.
THEOREM WatcherInvariant == Spec => []WatcherInv(AttestedValues)
<1> DEFINE V == AttestedValues
<1> HIDE DEF V
<1>1. Init => WatcherInv(V)
    BY InitialInv
<1>2. WatcherInv(V) /\ [Next]_vars => WatcherInv(V)'
    BY NextKeeps DEF V
<1> QED BY <1>1, <1>2, PTL DEF Spec, V

\* Whatever fails, times out or restarts, sequence numbers, headers and attempts
\* stay in range.
THEOREM TypeCorrect == Spec => []TypeOK
<1>1. ASSUME NEW V, WatcherInv(V) PROVE TypeOK
    BY <1>1 DEF WatcherInv, RemoteInv, HubInv, TasksInv, TasksOK, TaskOK, TypeOK, Executed
<1>2. WatcherInv(AttestedValues) => TypeOK
    BY <1>1
<1> QED BY <1>2, WatcherInvariant, PTL

\* fetchAppHash: a message put together over any number of blocks proves its
\* value under the application hash it carries.
THEOREM ProofsInHandVerify == Spec => []MessagesVerify
<1>1. ASSUME NEW V, NothingEmpty(V), WatcherInv(V) PROVE MessagesVerify
    <2>1. \A h \in 1..Len(blocks) : StateOK(blocks[h], V)
        BY <1>1 DEF WatcherInv, RemoteInv
    <2>2. ASSUME NEW t \in Tasks, tasks[t].pc \in {"simulate", "sign", "broadcast", "await"}
          PROVE  Genuine(blocks, tasks[t].msg)
        BY <1>1, <2>2 DEF WatcherInv, TasksInv, TasksOK, TaskOK
    <2> QED BY <1>1, <2>1, <2>2, GenuineVerifies DEF MessagesVerify
<1>2. WatcherInv(AttestedValues) => MessagesVerify
    BY <1>1, StoredAssumption DEF AttestedValues
<1> QED BY <1>2, WatcherInvariant, PTL

\* A subscription is Triggered only for a value its chain had, whoever submits.
THEOREM OnlyWhatWasTrue == Spec => []TriggeredWasTrue
<1>1. ASSUME NEW V, WatcherInv(V) PROVE TriggeredWasTrue
    <2>1. DOMAIN blocks = 1..Len(blocks)
        BY <1>1, SeqLength DEF WatcherInv, RemoteInv
    <2> QED BY <1>1, <2>1 DEF WatcherInv, HubInv, StorageOK, WasTrue, TriggeredWasTrue
<1>2. WatcherInv(AttestedValues) => TriggeredWasTrue
    BY <1>1
<1> QED BY <1>2, WatcherInvariant, PTL

\* What the watcher sends is for a subscription on the store it looks at, and
\* for its key and its condition.
THEOREM OnlyWhatFits == Spec => []SentFitsSubscription
<1>1. ASSUME NEW V, WatcherInv(V) PROVE SentFitsSubscription
    <2>1. DOMAIN mempool = 1..Len(mempool)
        BY <1>1, SeqLength DEF WatcherInv, HubInv, MempoolOK
    <2>2. ASSUME NEW i \in 1..Len(mempool)
          PROVE  Genuine(blocks, mempool[i].msg) /\ Fits(kv, mempool[i].id, mempool[i].msg)
        BY <1>1 DEF WatcherInv, HubInv, MempoolOK
    <2>3. ASSUME NEW sub, NEW msg, Genuine(blocks, msg), ProofResult(sub, msg) = "Ok"
          PROVE  /\ sub.key_path[1] = "wasm" /\ msg.key = sub.watch_key
                 /\ EvaluateCondition(sub.condition, msg.value) = "Ok"
        <3>1. /\ msg.key = sub.watch_key /\ EvaluateCondition(sub.condition, msg.value) = "Ok"
              /\ verify_chained_membership(msg.app_hash, msg.proof, sub.key_path,
                                           msg.key, msg.value) = "Ok"
            BY <2>3 DEF ProofResult
        <3> QED BY <2>3, <3>1, GenuineIsOfWasm
    <2> QED BY <2>1, <2>2, <2>3 DEF Fits, SentFitsSubscription
<1>2. WatcherInv(AttestedValues) => SentFitsSubscription
    BY <1>1
<1> QED BY <1>2, WatcherInvariant, PTL

\* However often a proof is sent, for each subscription one transaction of the
\* watcher takes effect at most.
THEOREM AtMostOneEffect == Spec => []OneEffectPerSubscription
<1>1. ASSUME NEW V, WatcherInv(V) PROVE OneEffectPerSubscription
    BY <1>1 DEF WatcherInv, HubInv, LandedOK, OneEffectPerSubscription
<1>2. WatcherInv(AttestedValues) => OneEffectPerSubscription
    BY <1>1
<1> QED BY <1>2, WatcherInvariant, PTL

-----------------------------------------------------------------------------
(***************************************************************************)
(* The storage of the hub implements OneShotSubscriptions, whatever the    *)
(* specification it is part of, as long as its steps are blocks,           *)
(* subscriptions and submitted proofs.                                     *)
(***************************************************************************)
Subscribes ==
    \E sender, m : /\ m.expires_after_blocks \in Nat \cup {None}
                   /\ kv' = execute_subscribe(kv, sender, m, height).kv

Submits == \E id, p : kv' = SubmitProof(kv, id, p, height).kv

HubStep ==
    \/ kv' = kv /\ height' \in {height, height + 1}
    \/ height' = height /\ (Subscribes \/ Submits)

\* What is no longer Active was not before, or its last block is still to end.
DecidedInTime(k, j, now) ==
    \A id \in Ids(j) : j.subs[id].status # "Active" =>
        \/ id \in Ids(k) /\ k.subs[id].status # "Active"
        \/ ~Expired(j.subs[id], now)

LEMMA SubscribedInTime ==
    ASSUME NEW k, Filed(k), StatusesOK(k), NEW sender, NEW m, NEW now \in Nat,
           m.expires_after_blocks \in Nat \cup {None}
    PROVE  LET j == execute_subscribe(k, sender, m, now).kv
           IN  Filed(j) /\ StatusesOK(j) /\ Later(k, j) /\ DecidedInTime(k, j, now)
<1> DEFINE j == execute_subscribe(k, sender, m, now).kv
           new == Subscription(k.next_id, sender, m, now)
<1>1. /\ Filed(j) /\ Ids(j) = Ids(k) \cup {k.next_id}
      /\ j.subs[k.next_id] = new
      /\ \A o \in Ids(k) : j.subs[o] = k.subs[o]
    BY SubscribeStep
<1>2. new.status = "Active" /\ new.expires_at = ExpiryOf(m, now)
    BY DEF Subscription
<1>3. ExpiryOf(m, now) \in Nat \cup {None}
    BY DEF ExpiryOf
<1> HIDE DEF j, new
<1>4. StatusesOK(j)
    BY <1>1, <1>2, <1>3 DEF StatusesOK
<1>5. Later(k, j)
    BY <1>1 DEF Later, SameTerms
<1>6. DecidedInTime(k, j, now)
    BY <1>1, <1>2 DEF DecidedInTime
<1> QED BY <1>1, <1>4, <1>5, <1>6 DEF j

LEMMA SubmittedInTime ==
    ASSUME NEW k, Filed(k), StatusesOK(k), NEW id, NEW p, NEW now \in Nat
    PROVE  LET j == SubmitProof(k, id, p, now).kv
           IN  Filed(j) /\ StatusesOK(j) /\ Later(k, j) /\ DecidedInTime(k, j, now)
<1> DEFINE r == SubmitProof(k, id, p, now)
           j == r.kv
<1>1. CASE r.res # "Ok"
    <2>1. j = k
        BY <1>1, RefusedProof
    <2> QED BY <2>1, LaterNothing DEF DecidedInTime
<1>2. CASE r.res = "Ok"
    <2>1. /\ Filed(j) /\ Ids(j) = Ids(k) /\ SameTerms(k.subs[id], j.subs[id])
          /\ \A o \in Ids(k) : o # id => j.subs[o] = k.subs[o]
        BY <1>2, AcceptedProof
    <2>2. j.subs[id].status \in {"Triggered", "Failed"} /\ id \in Ids(k)
        BY <1>2, AcceptedEffect, Acceptance
    <2>3. Later(k, j)
        BY <1>2, AcceptedIsLater
    <2>4. ~Expired(k.subs[id], now)
        BY <1>2, RefusedProof DEF SubmitResult
    <2> HIDE DEF r
    <2>5. j.subs[id].expires_at = k.subs[id].expires_at
        BY <2>1 DEF SameTerms
    <2>6. StatusesOK(j)
        BY <2>1, <2>2, <2>5 DEF StatusesOK
    <2>7. DecidedInTime(k, j, now)
        <3>1. ~Expired(j.subs[id], now)
            BY <2>4, <2>5 DEF Expired
        <3> QED BY <2>1, <3>1 DEF DecidedInTime
    <2> QED BY <2>1, <2>3, <2>6, <2>7 DEF r
<1> QED BY <1>1, <1>2

\* Every step of the hub keeps what there is to know of effects, and decides in
\* time.
HubKept == /\ EffectsInv' /\ Filed(kv')
           /\ Later(kv, kv') /\ DecidedInTime(kv, kv', height)

LEMMA HubStepKeeps ==
    ASSUME Filed(kv), EffectsInv, HubStep
    PROVE  HubKept
<1>1. height \in Nat /\ StatusesOK(kv) /\ EventsOK(kv)
    BY DEF EffectsInv
<1>2. CASE kv' = kv /\ height' \in {height, height + 1}
    <2>1. height' \in Nat
        BY <1>1, <1>2
    <2>2. StatusesOK(kv') /\ EventsOK(kv') /\ Filed(kv')
        BY <1>1, <1>2
    <2>3. Later(kv, kv') /\ DecidedInTime(kv, kv', height)
        BY <1>2, LaterNothing DEF DecidedInTime
    <2>4. EffectsInv'
        BY <2>1, <2>2 DEF EffectsInv, StatusesOK, EventsOK, IsDelivery, Ids
    <2> QED BY <2>2, <2>3, <2>4 DEF HubKept
<1>3. CASE height' = height /\ (Subscribes \/ Submits)
    <2>1. /\ Filed(kv') /\ StatusesOK(kv') /\ EventsOK(kv')
          /\ Later(kv, kv') /\ DecidedInTime(kv, kv', height)
        <3>1. CASE Subscribes
            <4>1. PICK sender, m : /\ m.expires_after_blocks \in Nat \cup {None}
                                   /\ kv' = execute_subscribe(kv, sender, m, height).kv
                BY <3>1 DEF Subscribes
            <4> QED BY <1>1, <4>1, SubscribedInTime, SubscribedEvents
        <3>2. CASE Submits
            <4>1. PICK id, p : kv' = SubmitProof(kv, id, p, height).kv
                BY <3>2 DEF Submits
            <4> QED BY <1>1, <4>1, SubmittedInTime, SubmittedEvents
        <3> QED BY <1>3, <3>1, <3>2
    <2>2. EffectsInv'
        BY <1>1, <1>3, <2>1 DEF EffectsInv, StatusesOK, EventsOK, IsDelivery, Ids
    <2> QED BY <2>1, <2>2 DEF HubKept
<1> QED BY <1>2, <1>3 DEF HubStep

\* How many times a callback took effect can be read off the status.
LEMMA EffectsByStatus ==
    ASSUME NEW k, Filed(k), EventsOK(k), NEW id \in Ids(k)
    PROVE  /\ k.subs[id].status = "Triggered" => Cardinality(DeliveredFor(k, id)) = 1
           /\ k.subs[id].status # "Triggered" => Cardinality(DeliveredFor(k, id)) = 0
<1>1. DOMAIN k.events = 1..Len(k.events)
    BY SeqLength DEF Filed
<1>2. DeliveredFor(k, id) = {i \in 1..Len(k.events) : IsDelivery(k.events[i], id)}
    BY <1>1 DEF DeliveredFor, Delivered, IsDelivery
<1>3. ASSUME k.subs[id].status = "Triggered"
      PROVE  Cardinality(DeliveredFor(k, id)) = 1
    <2>1. PICK i \in 1..Len(k.events) : IsDelivery(k.events[i], id)
        BY <1>3 DEF EventsOK
    <2>2. DeliveredFor(k, id) = {i}
        BY <1>2, <2>1 DEF EventsOK
    <2> QED BY <2>2, FS_Singleton
<1>4. ASSUME k.subs[id].status # "Triggered"
      PROVE  Cardinality(DeliveredFor(k, id)) = 0
    <2>1. DeliveredFor(k, id) = {}
        BY <1>2, <1>4 DEF EventsOK, IsDelivery
    <2> QED BY <2>1, FS_EmptySet
<1> QED BY <1>3, <1>4

\* Such a step is a transaction of the abstract specification, a block or a
\* stutter.
LEMMA HubStepSimulates ==
    ASSUME Filed(kv), EffectsInv, HubStep
    PROVE  [Promise!Next]_(Promise!vars)
<1>1. CASE kv' = kv /\ height' \in {height, height + 1}
    BY <1>1 DEF Promise!Next, Promise!Block, Promise!vars
<1>2. CASE height' = height /\ (Subscribes \/ Submits)
    <2> DEFINE old == kv
               new == kv'
               deadline(k) == [id \in Ids(k) |-> k.subs[id].expires_at]
               life(k) == [id \in Ids(k) |-> k.subs[id].status]
    <2>1. /\ Filed(new) /\ EffectsInv' /\ Later(old, new)
          /\ DecidedInTime(old, new, height)
        BY HubStepKeeps DEF HubKept
    <2>2. StatusesOK(old) /\ EventsOK(old) /\ height \in Nat
        BY DEF EffectsInv
    <2>3. StatusesOK(new) /\ EventsOK(new)
        BY <2>1 DEF EffectsInv, StatusesOK, EventsOK, IsDelivery, Ids
    <2>4. \A id \in Ids(old) : /\ id \in Ids(new)
                               /\ new.subs[id].expires_at = old.subs[id].expires_at
                               /\ old.subs[id].status # "Active" =>
                                    new.subs[id].status = old.subs[id].status
        BY <2>1 DEF Later, SameTerms
    <2>5. /\ \A id \in Ids(old) :
                /\ old.subs[id].status = "Triggered" => Cardinality(DeliveredFor(old, id)) = 1
                /\ old.subs[id].status # "Triggered" => Cardinality(DeliveredFor(old, id)) = 0
          /\ \A id \in Ids(new) :
                /\ new.subs[id].status = "Triggered" => Cardinality(DeliveredFor(new, id)) = 1
                /\ new.subs[id].status # "Triggered" => Cardinality(DeliveredFor(new, id)) = 0
        BY <2>1, <2>2, <2>3, EffectsByStatus
    <2>6. ASSUME NEW id \in Ids(new), id \notin Ids(old) \/ old.subs[id].status = "Active"
          PROVE  Promise!Waiting(id) \/ Promise!Fired(id) \/ Promise!GivenUp(id)
        <3>1. CASE new.subs[id].status = "Active"
            BY <2>5, <3>1 DEF Promise!Waiting
        <3>2. CASE new.subs[id].status \in {"Triggered", "Failed"}
            <4>1. ~Expired(new.subs[id], height)
                BY <2>1, <2>6, <3>2 DEF DecidedInTime
            <4>2. new.subs[id].expires_at \in Nat \cup {None}
                BY <2>3 DEF StatusesOK
            <4>3. Promise!InTime(id)
                BY <2>2, <4>1, <4>2 DEF Promise!InTime, Expired
            <4> QED BY <2>5, <3>2, <4>3 DEF Promise!Fired, Promise!GivenUp
        <3> QED BY <2>3, <3>1, <3>2 DEF StatusesOK
    <2>7. ASSUME NEW id \in Ids(old), old.subs[id].status # "Active"
          PROVE  Promise!Unchanged(id)
        <3>1. id \in Ids(new) /\ new.subs[id].status = old.subs[id].status
            BY <2>4, <2>7
        <3>2. Cardinality(DeliveredFor(new, id)) = Cardinality(DeliveredFor(old, id))
            BY <2>5, <3>1
        <3> QED BY <3>1, <3>2 DEF Promise!Unchanged
    <2>8. /\ Ids(old) \subseteq Ids(new)
          /\ \A id \in Ids(old) : deadline(new)[id] = deadline(old)[id]
        BY <2>4
    <2>9. \A id \in Ids(new) :
            IF id \in Ids(old) /\ life(old)[id] # "Active"
            THEN Promise!Unchanged(id)
            ELSE \/ Promise!Waiting(id) \/ Promise!Fired(id)
                 \/ Promise!GivenUp(id) \/ Promise!Lapsed(id)
        BY <2>6, <2>7
    <2>10. Promise!Transaction
        BY <1>2, <2>8, <2>9 DEF Promise!Transaction
    <2> QED BY <2>10 DEF Promise!Next
<1> QED BY <1>1, <1>2 DEF HubStep

LEMMA HubInitially ==
    ASSUME kv = InitialStorage, height = 1
    PROVE  EffectsInv /\ Promise!Init
<1>1. DOMAIN << >> = {} /\ Len(<< >>) = 0 /\ 1..0 = {}
    OBVIOUS
<1>2. Ids(kv) = {} /\ kv.events = << >>
    BY <1>1 DEF InitialStorage, Ids
<1>3. EffectsInv
    BY <1>1, <1>2 DEF EffectsInv, StatusesOK, EventsOK
<1>4. \A f : DOMAIN f = {} /\ f = [x \in {} |-> f[x]] => f = << >>
    OBVIOUS
<1>5. Promise!Init
    BY <1>2, <1>4 DEF Promise!Init
<1> QED BY <1>3, <1>5

\* The steps of the watcher and of the two chains are such steps of the hub.
LEMMA StepsOfHub ==
    ASSUME Filed(kv), [Next]_vars
    PROVE  HubStep
<1>1. ASSUME NEW m \in SubscribeMsgs, Subscribe(m) PROVE HubStep
    <2>1. /\ height' = height /\ kv' = execute_subscribe(kv, User, m, height).kv
          /\ m.expires_after_blocks \in Nat \cup {None}
        BY <1>1, WatcherAssumption DEF Subscribe
    <2> QED BY <2>1 DEF HubStep, Subscribes
<1>2. ASSUME NEW id, SubmitAsOther(id) PROVE HubStep
    BY <1>2 DEF SubmitAsOther, HubStep, Submits
<1>3. CASE Include
    <2>1. /\ height' = height
          /\ kv' = SubmitProof(kv, Head(mempool).id, Head(mempool).msg, height).kv
        BY <1>3 DEF Include
    <2> QED BY <2>1 DEF HubStep, Submits
<1>4. CASE HubBlock
    BY <1>4 DEF HubBlock, HubStep
<1>5. ASSUME NEW t \in Tasks, Step(t) \/ CallFails(t) PROVE kv' = kv /\ height' = height
    BY <1>5 DEF Step, FetchState, FetchAppHash, Simulate, Sign, Broadcast, FindResult,
           TimeOut, CallFails, Returns, hub_vars
<1>6. ASSUME NEW t, NEW id, NEW key, StartRequest(t, id, key)
      PROVE  kv' = kv /\ height' = height
    BY <1>6 DEF StartRequest, Returns, hub_vars
<1>7. ASSUME RemoteStep \/ Tick \/ ListSubscriptions \/ Flush \/ Restart \/ UNCHANGED vars
      PROVE  kv' = kv /\ height' = height
    BY <1>7 DEF RemoteStep, Tick, ListSubscriptions, Flush, Restart, Returns, vars, hub_vars
<1> QED BY <1>1, <1>2, <1>3, <1>4, <1>5, <1>6, <1>7 DEF Next, HubStep

\* The invariant behind the refinement: the events of proof-callback are those
\* of the subscriptions that are Triggered, one for each.
THEOREM EffectsInvariant == Spec => []EffectsInv
<1>1. Init => EffectsInv
    BY HubInitially DEF Init
<1>2. WatcherInv(AttestedValues) => Filed(kv)
    BY DEF WatcherInv, HubInv, StorageOK
<1>3. Filed(kv) /\ EffectsInv /\ [Next]_vars => EffectsInv'
    BY StepsOfHub, HubStepKeeps DEF HubKept
<1> QED BY <1>1, <1>2, <1>3, WatcherInvariant, PTL DEF Spec

\* However the watcher polls, retries and restarts and whoever else submits, the
\* storage of the hub keeps what OneShotSubscriptions promises.
THEOREM HubImplementation == Spec => HubKeepsPromise
<1>1. Init => Promise!Init
    BY HubInitially DEF Init
<1>2. WatcherInv(AttestedValues) => Filed(kv)
    BY DEF WatcherInv, HubInv, StorageOK
<1>3. Filed(kv) /\ EffectsInv /\ [Next]_vars => [Promise!Next]_(Promise!vars)
    BY StepsOfHub, HubStepSimulates
<1> QED BY <1>1, <1>2, <1>3, WatcherInvariant, EffectsInvariant, PTL
        DEF Spec, Promise!Spec, HubKeepsPromise

=============================================================================
