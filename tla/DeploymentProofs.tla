-------------------------- MODULE DeploymentProofs --------------------------
(***************************************************************************)
(* What the installation keeps as a whole, for any number of requests from *)
(* the dashboard beside the loop of the watcher and the end-to-end script. *)
(*                                                                         *)
(* The invariant adds to that of the watcher: a subscription is Triggered  *)
(* when its callback has had one event, and Active before; what the script *)
(* has in hand proves what it attested; and the dashboard waits for one    *)
(* thing for each button that is off.                                      *)
(***************************************************************************)
EXTENDS Deployment, WatcherProofs

-----------------------------------------------------------------------------
FlowValues == StoredValues(Attesters \cup {Owner}, AttestationTexts \cup {"approved"})

(***************************************************************************)
(* The callbacks.                                                          *)
(***************************************************************************)

\* All subscriptions are the script's, and no callback fails.
CallbacksOK(k) ==
    \A id \in Ids(k) : /\ k.subs[id].callback_contract = ProofCallback
                       /\ k.subs[id].status \in {"Active", "Triggered"}

DeliveryInv == CallbacksOK(kv) /\ EventsOK(kv)

(***************************************************************************)
(* The script.                                                             *)
(***************************************************************************)
FlowFields == {"pc", "id", "block", "found", "attempts", "msg", "pending", "events"}

\* The subscription is the one FlowSubscribeMsg asked for.
IsMine(k, id) ==
    /\ id \in Ids(k)
    /\ k.subs[id].key_path = << "wasm" >>
    /\ k.subs[id].watch_key = AttestationFlag
    /\ k.subs[id].callback_contract = ProofCallback
    /\ k.subs[id].expires_at = None

Proves(bs, msg, found) ==
    /\ Genuine(bs, msg)
    /\ msg.key = AttestationFlag
    /\ msg.value = found.value

\* The script's own transaction had the effect.
IsOwn(k, txs, f) ==
    /\ k.subs[f.id].status = "Triggered"
    /\ \A x \in txs : x.id = f.id => x.res # "Ok"
    /\ \E i \in 1..Len(k.events) : /\ IsDelivery(k.events[i], f.id)
                                   /\ k.events[i].proven_value = from_utf8_lossy(f.msg.value)

FlowOK(bs, k, txs, f) ==
    /\ DOMAIN f = FlowFields
    /\ f.pc \in {"wait", "state", "hash", "simulate", "await", "query", "complete", "refused"}
            => IsMine(k, f.id)
    /\ f.pc = "hash" => Answered(bs, f.found) /\ f.found.key = AttestationFlag
    /\ f.pc \in {"simulate", "await", "refused"} \/ f.pending => Proves(bs, f.msg, f.found)
    /\ f.pending => f.pc \in {"await", "failed"}
    /\ f.pc = "query" => IsOwn(k, txs, f)
    /\ f.pc = "complete" =>
          /\ k.subs[f.id].status = "Triggered"
          /\ \A x \in txs : x.id = f.id => x.res # "Ok"
          /\ \E i \in DOMAIN f.events :
                /\ {j \in DOMAIN f.events : IsDelivery(f.events[j], f.id)} = {i}
                /\ f.events[i].proven_value = from_utf8_lossy(f.msg.value)
    /\ f.pc = "refused" =>
          (EvaluateCondition(k.subs[f.id].condition, f.found.value) = "Ok"
              => k.subs[f.id].status = "Triggered")

FlowInv == FlowOK(blocks, kv, landed, flow)

(***************************************************************************)
(* The dashboard.                                                          *)
(***************************************************************************)
Awaited(as, id) == {t \in Requests : as[t] = id}

\* What a button that is off waits for, one thing at a time.
ButtonOK(off, as, ps, id) ==
    /\ id \in off <=> Awaited(as, id) # {} \/ ps[id].under_way
    /\ ~(Awaited(as, id) # {} /\ ps[id].under_way)
    /\ \A s, t \in Awaited(as, id) : s = t

PollsOK(ps) ==
    /\ ps = [p \in Askers |-> ps[p]]
    /\ \A p \in Askers : DOMAIN ps[p] = {"under_way", "brings"} /\ ps[p].under_way \in BOOLEAN

\* A request that is awaited is for the button it was asked for.
RequestOK(as, ts, t) ==
    /\ ts[t].todo = << >>
    /\ as[t] # None => ts[t].pc # "rest" /\ ts[t].id = as[t]

PageOK(off, as, ps, ts) ==
    /\ off \subseteq Identifiers
    /\ as \in [Requests -> Askers]
    /\ PollsOK(ps)
    /\ \A t \in Requests : RequestOK(as, ts, t)
    /\ \A id \in Identifiers : ButtonOK(off, as, ps, id)

ResultsOK(results, txs) == \A id \in results : \E x \in txs : x.id = id /\ x.res = "Ok"

PageInv == PageOK(submitting, asked, polls, tasks) /\ ResultsOK(proofResults, landed)

DeploymentInv == WatcherInv(FlowValues) /\ DeliveryInv /\ FlowInv /\ PageInv

-----------------------------------------------------------------------------
(***************************************************************************)
(* The subscriptions of the script, whose callbacks all succeed.           *)
(***************************************************************************)
LEMMA SubmittedDelivery ==
    ASSUME NEW k, Filed(k), CallbacksOK(k), EventsOK(k), NEW id, NEW p, NEW now
    PROVE  LET j == SubmitProof(k, id, p, now).kv
           IN  CallbacksOK(j) /\ EventsOK(j) /\ EventsGrow(k, j)
<1> DEFINE r == SubmitProof(k, id, p, now)
           j == r.kv
<1>1. EventsOK(j) /\ EventsGrow(k, j)
    BY SubmittedEvents
<1>2. CASE r.res # "Ok"
    BY <1>1, <1>2, RefusedProof
<1>3. CASE r.res = "Ok"
    <2>1. /\ Ids(j) = Ids(k) /\ SameTerms(k.subs[id], j.subs[id])
          /\ \A o \in Ids(k) : o # id => j.subs[o] = k.subs[o]
        BY <1>3, AcceptedProof
    <2>2. k.subs[id].callback_contract = ProofCallback /\ j.subs[id].status = "Triggered"
        BY <1>3, Acceptance, AcceptedDelivery DEF CallbacksOK
    <2> HIDE DEF j
    <2>3. CallbacksOK(j)
        BY <2>1, <2>2 DEF CallbacksOK, SameTerms
    <2> QED BY <1>1, <2>3 DEF j
<1> QED BY <1>2, <1>3

LEMMA SubscribedDelivery ==
    ASSUME NEW k, Filed(k), CallbacksOK(k), EventsOK(k), NEW sender, NEW m, NEW now,
           m.callback_contract = ProofCallback
    PROVE  LET j == execute_subscribe(k, sender, m, now).kv
           IN  CallbacksOK(j) /\ EventsOK(j) /\ EventsGrow(k, j)
<1> DEFINE j == execute_subscribe(k, sender, m, now).kv
           new == Subscription(k.next_id, sender, m, now)
<1>1. /\ Ids(j) = Ids(k) \cup {k.next_id} /\ j.subs[k.next_id] = new
      /\ \A o \in Ids(k) : j.subs[o] = k.subs[o]
    BY SubscribeStep
<1>2. new.status = "Active" /\ new.callback_contract = ProofCallback
    BY DEF Subscription
<1>3. EventsOK(j) /\ EventsGrow(k, j)
    BY SubscribedEvents
<1> HIDE DEF j, new
<1>4. CallbacksOK(j)
    BY <1>1, <1>2 DEF CallbacksOK
<1> QED BY <1>3, <1>4 DEF j

-----------------------------------------------------------------------------
(***************************************************************************)
(* What the script has in hand stays true.                                 *)
(***************************************************************************)
LEMMA FlowLater ==
    ASSUME NEW bs, NEW cs, Grows(bs, cs), NEW k, NEW j, Later(k, j), EventsGrow(k, j),
           NEW txs, NEW tys,
           \A x \in tys : x \in txs \/ (x.res = "Ok" => k.subs[x.id].status # "Triggered"),
           NEW f, FlowOK(bs, k, txs, f)
    PROVE  FlowOK(cs, j, tys, f)
<1>1. ASSUME IsMine(k, f.id) PROVE IsMine(j, f.id)
    BY <1>1 DEF IsMine, Later, SameTerms
<1>2. ASSUME IsMine(k, f.id), k.subs[f.id].status = "Triggered"
      PROVE  j.subs[f.id].status = "Triggered"
    BY <1>2 DEF IsMine, Later
<1>3. ASSUME k.subs[f.id].status = "Triggered", \A x \in txs : x.id = f.id => x.res # "Ok"
      PROVE  \A x \in tys : x.id = f.id => x.res # "Ok"
    BY <1>3
<1>4. ASSUME IsMine(k, f.id), IsOwn(k, txs, f) PROVE IsOwn(j, tys, f)
    BY <1>2, <1>3, <1>4 DEF IsOwn, EventsGrow
<1>5. ASSUME IsMine(k, f.id) PROVE j.subs[f.id].condition = k.subs[f.id].condition
    BY <1>5 DEF IsMine, Later, SameTerms
<1>6. /\ \A found : Answered(bs, found) => Answered(cs, found)
      /\ \A msg, found : Proves(bs, msg, found) => Proves(cs, msg, found)
    BY GenuineLater DEF Proves
<1>7. f.pc \in {"wait", "state", "hash", "simulate", "await", "query", "complete", "refused"}
          => IsMine(k, f.id)
    BY DEF FlowOK
<1>8. f.pc = "complete" =>
        /\ j.subs[f.id].status = "Triggered"
        /\ \A x \in tys : x.id = f.id => x.res # "Ok"
    BY <1>2, <1>3, <1>7 DEF FlowOK
<1>9. f.pc = "query" => IsOwn(j, tys, f)
    BY <1>4, <1>7 DEF FlowOK
<1>10. f.pc = "refused" =>
        (EvaluateCondition(j.subs[f.id].condition, f.found.value) = "Ok"
            => j.subs[f.id].status = "Triggered")
    BY <1>2, <1>5, <1>7 DEF FlowOK
<1> QED BY <1>1, <1>6, <1>7, <1>8, <1>9, <1>10 DEF FlowOK

-----------------------------------------------------------------------------
(***************************************************************************)
(* What each kind of step keeps.                                           *)
(***************************************************************************)

\* The remote chain and a task change neither the callbacks nor the script.
LEMMA FlowStays ==
    ASSUME DeploymentInv, Grows(blocks, blocks'), UNCHANGED << kv, landed, flow >>
    PROVE  DeliveryInv' /\ FlowInv'
<1>1. Later(kv, kv) /\ EventsGrow(kv, kv)
    BY LaterNothing DEF EventsGrow
<1>2. FlowOK(blocks', kv, landed, flow)
    BY <1>1, FlowLater DEF DeploymentInv, FlowInv
<1> QED BY <1>2 DEF DeploymentInv, DeliveryInv, FlowInv

LEMMA SameBlocks ==
    ASSUME DeploymentInv, UNCHANGED remote_vars
    PROVE  Grows(blocks, blocks')
BY GrowsNothing DEF DeploymentInv, WatcherInv, RemoteInv, remote_vars

\* The page sees nothing of what happens elsewhere.
LEMMA PageStays ==
    ASSUME DeploymentInv, UNCHANGED page_vars, landed \subseteq landed',
           \A t \in Requests : tasks'[t] = tasks[t]
    PROVE  PageInv'
<1>1. \A t \in Requests : RequestOK(asked, tasks', t)
    BY DEF DeploymentInv, PageInv, PageOK, RequestOK
<1>2. ResultsOK(proofResults, landed')
    BY DEF DeploymentInv, PageInv, ResultsOK
<1> QED BY <1>1, <1>2 DEF DeploymentInv, PageInv, PageOK, page_vars

\* A task changes itself only.
LEMMA OtherTasks ==
    ASSUME DeploymentInv, NEW t \in Tasks, NEW task, Becomes(t, task)
    PROVE  /\ tasks'[t] = task
           /\ \A s \in Tasks : s # t => tasks'[s] = tasks[s]
<1>1. tasks = [s \in Tasks |-> tasks[s]]
    BY DEF DeploymentInv, WatcherInv, TasksInv, TasksOK
<1> QED BY <1>1 DEF Becomes

LEMMA StepIsOfTask ==
    ASSUME DeploymentInv, NEW t \in Tasks, Step(t) \/ CallFails(t)
    PROVE  /\ UNCHANGED << remote_vars, kv, landed >>
           /\ \A s \in Tasks : s # t => tasks'[s] = tasks[s]
<1>1. UNCHANGED << remote_vars, kv, landed >> /\ \E task : Becomes(t, task)
    BY DEF Step, CallFails, FetchState, FetchAppHash, Simulate, Sign, Broadcast, FindResult,
           TimeOut, Returns, hub_vars
<1> QED BY <1>1, OtherTasks

\* The loop of the watcher is none of the requests.
LEMMA LoopStays ==
    ASSUME DeploymentInv, UNCHANGED << remote_vars, kv, landed, flow, page_vars >>,
           \A s \in Tasks : s # "loop" => tasks'[s] = tasks[s]
    PROVE  DeliveryInv' /\ FlowInv' /\ PageInv'
<1>1. \A t \in Requests : tasks'[t] = tasks[t]
    BY WatcherAssumption DEF Tasks
<1> QED BY <1>1, SameBlocks, FlowStays, PageStays

\* A transaction for a subscription of the hub, which nobody is shown.
LEMMA StorageStays ==
    ASSUME DeploymentInv, CallbacksOK(kv'), EventsOK(kv'), EventsGrow(kv, kv'), Later(kv, kv'),
           UNCHANGED << remote_vars, flow, page_vars, tasks >>, landed \subseteq landed',
           \A x \in landed' : x \in landed \/ (x.res = "Ok" => kv.subs[x.id].status # "Triggered")
    PROVE  DeliveryInv' /\ FlowInv' /\ PageInv'
<1>1. FlowOK(blocks', kv', landed', flow)
    BY SameBlocks, FlowLater DEF DeploymentInv, FlowInv
<1>2. DeliveryInv' /\ FlowInv'
    BY <1>1 DEF DeliveryInv, FlowInv
<1> QED BY <1>2, PageStays

-----------------------------------------------------------------------------
(***************************************************************************)
(* The chains and the loop of the watcher.                                 *)
(***************************************************************************)
LEMMA FiledNow ==
    ASSUME DeploymentInv
    PROVE  Filed(kv) /\ CallbacksOK(kv) /\ EventsOK(kv)
BY DEF DeploymentInv, WatcherInv, HubInv, StorageOK, DeliveryInv

LEMMA SubmitMoves ==
    ASSUME DeploymentInv, NEW id, NEW p, kv' = SubmitProof(kv, id, p, height).kv
    PROVE  CallbacksOK(kv') /\ EventsOK(kv') /\ EventsGrow(kv, kv') /\ Later(kv, kv')
<1>1. CallbacksOK(kv') /\ EventsOK(kv') /\ EventsGrow(kv, kv')
    BY FiledNow, SubmittedDelivery
<1>2. CASE SubmitProof(kv, id, p, height).res = "Ok"
    BY <1>1, <1>2, FiledNow, AcceptedIsLater
<1>3. CASE SubmitProof(kv, id, p, height).res # "Ok"
    BY <1>1, <1>3, RefusedProof, LaterNothing
<1> QED BY <1>2, <1>3

\* Whoever the watcher's transaction overtakes or is overtaken by.
LEMMA IncludeStays ==
    ASSUME DeploymentInv, Include, UNCHANGED << flow, page_vars >>
    PROVE  DeliveryInv' /\ FlowInv' /\ PageInv'
<1> DEFINE tx == Head(mempool)
           r == SubmitProof(kv, tx.id, tx.msg, height)
           x == [task |-> tx.task, seq |-> tx.seq, id |-> tx.id, res |-> r.res]
<1>1. /\ kv' = r.kv /\ landed' = landed \cup {x}
      /\ UNCHANGED << remote_vars, tasks >>
    BY DEF Include, server_vars
<1>2. CallbacksOK(kv') /\ EventsOK(kv') /\ EventsGrow(kv, kv') /\ Later(kv, kv')
    BY <1>1, SubmitMoves
<1>3. x.res = "Ok" => kv.subs[x.id].status # "Triggered"
    <2>1. r.res = "Ok" => kv.subs[tx.id].status = "Active"
        BY Acceptance
    <2> QED BY <2>1
<1> HIDE DEF r, x
<1>4. /\ landed \subseteq landed'
      /\ \A y \in landed' : y \in landed \/ (y.res = "Ok" => kv.subs[y.id].status # "Triggered")
    BY <1>1, <1>3
<1> QED BY <1>1, <1>2, <1>4, StorageStays

LEMMA BackgroundKeeps ==
    ASSUME DeploymentInv, AttestedValues \subseteq FlowValues, Background
    PROVE  DeploymentInv'
<1> DEFINE V == FlowValues
<1> HIDE DEF V
<1>0. WatcherInv(V) /\ AttestedValues \subseteq V
    BY DEF DeploymentInv, V
<1>1. WatcherInv(V)'
    <2>1. CASE HubBlock
        BY <1>0, <2>1, NothingKeeps DEF HubBlock, server_vars
    <2>2. "loop" \in Tasks
        BY DEF Tasks
    <2> QED BY <1>0, <2>1, <2>2, RemoteStepKeeps, IncludeKeeps, TickKeeps,
               ListSubscriptionsKeeps, StepKeeps, CallFailsKeeps, FlushKeeps DEF Background
<1>2. UNCHANGED << flow, page_vars >>
    BY DEF Background, flow_vars
<1>3. CASE RemoteStep
    <2>1. RemoteInv(V)' /\ Grows(blocks, blocks')
        BY <1>0, <1>3, RemoteKeeps DEF WatcherInv, RemoteStep, AttestedValues
    <2>2. UNCHANGED << kv, landed, tasks >>
        BY <1>3 DEF RemoteStep, hub_vars, server_vars
    <2> QED BY <1>1, <1>2, <2>1, <2>2, FlowStays, PageStays DEF DeploymentInv, V
<1>4. CASE Include
    BY <1>1, <1>2, <1>4, IncludeStays DEF DeploymentInv, V
<1>5. CASE Tick \/ ListSubscriptions \/ Step("loop") \/ CallFails("loop")
    <2>1. "loop" \in Tasks
        BY DEF Tasks
    <2>2. CASE Step("loop") \/ CallFails("loop")
        BY <1>1, <1>2, <2>1, <2>2, StepIsOfTask, LoopStays DEF DeploymentInv, V
    <2>3. CASE Tick \/ ListSubscriptions
        <3>1. UNCHANGED << remote_vars, kv, landed >> /\ \E task : Becomes("loop", task)
            BY <2>3 DEF Tick, ListSubscriptions, Returns, hub_vars
        <3> QED BY <1>1, <1>2, <2>1, <3>1, OtherTasks, LoopStays DEF DeploymentInv, V
    <2> QED BY <1>5, <2>2, <2>3
<1>6. CASE HubBlock \/ Flush
    <2>1. UNCHANGED << remote_vars, kv, landed, tasks >>
        BY <1>6 DEF HubBlock, Flush, server_vars
    <2> QED BY <1>1, <1>2, <2>1, LoopStays DEF DeploymentInv, V
<1> QED BY <1>3, <1>4, <1>5, <1>6 DEF Background

-----------------------------------------------------------------------------
(***************************************************************************)
(* The steps of the script.                                                *)
(***************************************************************************)

\* A call of the script returns: what it makes of the answer is true.
LEMMA FlowGoesKeeps ==
    ASSUME DeploymentInv, UNCHANGED << remote_vars, hub_vars, server_vars, page_vars >>,
           FlowOK(blocks, kv, landed, flow')
    PROVE  DeploymentInv'
<1> DEFINE V == FlowValues
<1> HIDE DEF V
<1>1. WatcherInv(V)'
    BY NothingKeeps DEF DeploymentInv, hub_vars, server_vars, V
<1>2. DeliveryInv' /\ FlowInv'
    BY DEF DeploymentInv, DeliveryInv, FlowInv, remote_vars, hub_vars
<1>3. PageInv'
    BY PageStays DEF hub_vars, server_vars
<1> QED BY <1>1, <1>2, <1>3 DEF DeploymentInv, V

\* With nothing in hand, or given up, there is nothing to keep.
LEMMA FlowWithout ==
    ASSUME NEW bs, NEW k, NEW txs, NEW f, DOMAIN f = FlowFields,
           \/ f.pc = "failed"
           \/ f.pc \in {"attest", "attested", "subscribe"} /\ ~f.pending,
           f.pending => Proves(bs, f.msg, f.found)
    PROVE  FlowOK(bs, k, txs, f)
BY DEF FlowOK

LEMMA WriteAttestationKeeps ==
    ASSUME DeploymentInv, WriteAttestation, UNCHANGED page_vars
    PROVE  DeploymentInv'
<1> DEFINE V == FlowValues
           a == [status |-> "approved", attester |-> Owner, height |-> Executed + 1]
<1>1. AttestationFlag \in AttestationIds
    BY FlowAssumption
<1>2. AttestationValue(a) \in V
    <2>1. Executed + 1 \in 1..(MaxRemoteHeight + 1)
        BY RemoteBoundAssumption DEF DeploymentInv, WatcherInv, RemoteInv, Executed
    <2>2. a \in [status : AttestationTexts \cup {"approved"}, attester : Attesters \cup {Owner},
                 height : 1..(MaxRemoteHeight + 1)]
        BY <2>1
    <2> QED BY <2>2 DEF FlowValues, StoredValues
<1> HIDE DEF V
<1>3. RemoteInv(V)' /\ Grows(blocks, blocks')
    BY <1>1, <1>2, AttestKeeps DEF DeploymentInv, WatcherInv, WriteAttestation, V
<1>4. UNCHANGED << hub_vars, tasks >>
    BY DEF WriteAttestation, server_vars
<1>5. WatcherInv(V)'
    BY <1>3, <1>4, RemoteMoves DEF DeploymentInv, hub_vars, V
<1>6. /\ DOMAIN flow = FlowFields /\ flow.pc = "attest"
      /\ flow' = [flow EXCEPT !.pc = "attested", !.block = Executed + 1]
    BY DEF WriteAttestation, FlowAt, DeploymentInv, FlowInv, FlowOK
<1>7. ~flow.pending
    BY <1>6 DEF DeploymentInv, FlowInv, FlowOK
<1>8. DOMAIN flow' = FlowFields /\ flow'.pc = "attested" /\ flow'.pending = flow.pending
    BY <1>6 DEF FlowFields
<1>9. FlowOK(blocks', kv', landed', flow')
    BY <1>7, <1>8, FlowWithout
<1>10. DeliveryInv' /\ FlowInv'
    BY <1>4, <1>9 DEF DeploymentInv, DeliveryInv, FlowInv, hub_vars
<1>11. PageInv'
    BY <1>4, PageStays DEF hub_vars
<1> QED BY <1>5, <1>10, <1>11 DEF DeploymentInv, V

\* The field `pc' of the script is set, and perhaps another.
LEMMA FlowPc ==
    ASSUME NEW f, DOMAIN f = FlowFields, NEW pc
    PROVE  LET g == [f EXCEPT !.pc = pc]
           IN  /\ DOMAIN g = FlowFields /\ g.pc = pc /\ g.id = f.id /\ g.found = f.found
               /\ g.msg = f.msg /\ g.pending = f.pending /\ g.events = f.events
BY DEF FlowFields

LEMMA AttestationFoundKeeps ==
    ASSUME DeploymentInv, AttestationFound, UNCHANGED page_vars
    PROVE  DeploymentInv'
<1>1. DOMAIN flow = FlowFields /\ flow.pc = "attested"
    BY DEF AttestationFound, FlowAt, DeploymentInv, FlowInv, FlowOK
<1>2. ~flow.pending
    BY <1>1 DEF DeploymentInv, FlowInv, FlowOK
<1>3. /\ flow' = [flow EXCEPT !.pc = "subscribe"]
      /\ UNCHANGED << remote_vars, hub_vars, server_vars >>
    BY DEF AttestationFound, FlowGoes
<1>4. DOMAIN flow' = FlowFields /\ flow'.pc = "subscribe" /\ flow'.pending = flow.pending
    BY <1>1, <1>3, FlowPc
<1>5. FlowOK(blocks, kv, landed, flow')
    BY <1>2, <1>4, FlowWithout
<1> QED BY <1>3, <1>5, FlowGoesKeeps

LEMMA FlowFailsKeeps ==
    ASSUME DeploymentInv, FlowFails, UNCHANGED page_vars
    PROVE  DeploymentInv'
<1>1. DOMAIN flow = FlowFields /\ (flow.pending => Proves(blocks, flow.msg, flow.found))
    BY DEF DeploymentInv, FlowInv, FlowOK
<1>2. /\ flow' = [flow EXCEPT !.pc = "failed"]
      /\ UNCHANGED << remote_vars, hub_vars, server_vars >>
    BY DEF FlowFails
<1>3. /\ DOMAIN flow' = FlowFields /\ flow'.pc = "failed" /\ flow'.pending = flow.pending
      /\ flow'.msg = flow.msg /\ flow'.found = flow.found
    BY <1>1, <1>2, FlowPc
<1>4. FlowOK(blocks, kv, landed, flow')
    BY <1>1, <1>3, FlowWithout
<1> QED BY <1>2, <1>4, FlowGoesKeeps

LEMMA WaitedKeeps ==
    ASSUME DeploymentInv, Waited, UNCHANGED page_vars
    PROVE  DeploymentInv'
<1>1. DOMAIN flow = FlowFields /\ flow.pc = "wait"
    BY DEF Waited, FlowAt, DeploymentInv, FlowInv, FlowOK
<1>2. ~flow.pending /\ IsMine(kv, flow.id)
    BY <1>1 DEF DeploymentInv, FlowInv, FlowOK
<1>3. flow' = [flow EXCEPT !.pc = "state"] /\ UNCHANGED << remote_vars, hub_vars, server_vars >>
    BY DEF Waited, FlowGoes
<1>4. /\ DOMAIN flow' = FlowFields /\ flow'.pc = "state" /\ flow'.pending = flow.pending
      /\ flow'.id = flow.id
    BY <1>1, <1>3, FlowPc
<1>5. FlowOK(blocks, kv, landed, flow')
    BY <1>2, <1>4 DEF FlowOK
<1> QED BY <1>3, <1>5, FlowGoesKeeps

LEMMA FlowFetchStateKeeps ==
    ASSUME DeploymentInv, FlowFetchState, UNCHANGED page_vars
    PROVE  DeploymentInv'
<1> DEFINE found == fetchStateWithProof(AttestationFlag)
           some == [flow EXCEPT !.pc = "hash", !.found = found]
           none == [flow EXCEPT !.pc = "failed"]
<1>1. DOMAIN flow = FlowFields /\ flow.pc = "state"
    BY DEF FlowFetchState, FlowAt, DeploymentInv, FlowInv, FlowOK
<1>2. ~flow.pending /\ IsMine(kv, flow.id)
    BY <1>1 DEF DeploymentInv, FlowInv, FlowOK
<1>3. ASSUME found # None PROVE FlowOK(blocks, kv, landed, some)
    <2>1. Answered(blocks, found)
        BY <1>3, FoundIsAnswered DEF DeploymentInv, WatcherInv
    <2>2. found.key = AttestationFlag
        BY <1>3 DEF fetchStateWithProof
    <2> HIDE DEF found
    <2>3. /\ DOMAIN some = FlowFields /\ some.pc = "hash" /\ some.pending = flow.pending
          /\ some.id = flow.id /\ some.found = found
        BY <1>1 DEF FlowFields
    <2> HIDE DEF some
    <2> QED BY <1>2, <2>1, <2>2, <2>3 DEF FlowOK
<1>4. FlowOK(blocks, kv, landed, none)
    <2>1. DOMAIN none = FlowFields /\ none.pc = "failed" /\ none.pending = flow.pending
        BY <1>1, FlowPc
    <2> HIDE DEF none
    <2> QED BY <1>2, <2>1, FlowWithout
<1>5. /\ (found # None /\ flow' = some) \/ flow' = none
      /\ UNCHANGED << remote_vars, hub_vars, server_vars >>
    BY DEF FlowFetchState, FlowGoes
<1> HIDE DEF found, some, none
<1> QED BY <1>3, <1>4, <1>5, FlowGoesKeeps

LEMMA FlowFetchAppHashKeeps ==
    ASSUME DeploymentInv, FlowFetchAppHash, UNCHANGED page_vars
    PROVE  DeploymentInv'
<1> DEFINE found == flow.found
           msg == SubmitProofMsg(found, HeaderAppHash(AppHashHeader(found.height)))
           done == [flow EXCEPT !.pc = "simulate", !.msg = msg]
           again == [flow EXCEPT !.attempts = @ + 1]
           none == [flow EXCEPT !.pc = "failed"]
<1>1. DOMAIN flow = FlowFields /\ flow.pc = "hash"
    BY DEF FlowFetchAppHash, FlowAt, DeploymentInv, FlowInv, FlowOK
<1>2. /\ ~flow.pending /\ IsMine(kv, flow.id)
      /\ Answered(blocks, found) /\ found.key = AttestationFlag
    BY <1>1 DEF DeploymentInv, FlowInv, FlowOK
<1>3. FlowOK(blocks, kv, landed, done)
    <2>1. Genuine(blocks, msg)
        BY <1>2, AnswerIsGenuine DEF DeploymentInv, WatcherInv
    <2>2. msg.key = AttestationFlag /\ msg.value = found.value
        BY <1>2 DEF SubmitProofMsg
    <2> HIDE DEF msg
    <2>3. /\ DOMAIN done = FlowFields /\ done.pc = "simulate" /\ done.pending = flow.pending
          /\ done.id = flow.id /\ done.found = found /\ done.msg = msg
        BY <1>1 DEF FlowFields
    <2> HIDE DEF done
    <2> QED BY <1>2, <2>1, <2>2, <2>3 DEF FlowOK, Proves
<1>4. FlowOK(blocks, kv, landed, again)
    <2>1. /\ DOMAIN again = FlowFields /\ again.pc = "hash" /\ again.pending = flow.pending
          /\ again.id = flow.id /\ again.found = found
        BY <1>1 DEF FlowFields
    <2> HIDE DEF again
    <2> QED BY <1>2, <2>1 DEF FlowOK
<1>5. FlowOK(blocks, kv, landed, none)
    <2>1. DOMAIN none = FlowFields /\ none.pc = "failed" /\ none.pending = flow.pending
        BY <1>1, FlowPc
    <2> HIDE DEF none
    <2> QED BY <1>2, <2>1, FlowWithout
<1>6. /\ flow' = done \/ flow' = again \/ flow' = none
      /\ UNCHANGED << remote_vars, hub_vars, server_vars >>
    BY DEF FlowFetchAppHash, FlowGoes
<1> HIDE DEF done, again, none
<1> QED BY <1>3, <1>4, <1>5, <1>6, FlowGoesKeeps

\* The proof of a value that meets the condition is refused only to who comes late.
LEMMA RefusedIsLate ==
    ASSUME NEW V, NothingEmpty(V), NEW bs, \A h \in 1..Len(bs) : StateOK(bs[h], V),
           NEW k, CallbacksOK(k), NEW id, IsMine(k, id),
           NEW msg, NEW found, Proves(bs, msg, found),
           NEW now, SubmitProof(k, id, msg, now).res # "Ok"
    PROVE  EvaluateCondition(k.subs[id].condition, found.value) = "Ok"
                => k.subs[id].status = "Triggered"
<1> DEFINE sub == k.subs[id]
<1>1. verify_chained_membership(msg.app_hash, msg.proof, << "wasm" >>, msg.key, msg.value) = "Ok"
    BY GenuineVerifies DEF Proves
<1>2. ProofResult(sub, msg) = EvaluateCondition(sub.condition, found.value)
    BY <1>1 DEF ProofResult, IsMine, Proves
<1>3. SubmitResult(k, id, msg, now) # "Ok"
    BY RefusedProof
<1>4. id \in Ids(k) /\ ~Expired(sub, now) /\ sub.status \in {"Active", "Triggered"}
    BY DEF IsMine, Expired, CallbacksOK
<1>5. sub.status = "Active" => SubmitResult(k, id, msg, now) = ProofResult(sub, msg)
    BY <1>4 DEF SubmitResult
<1> QED BY <1>2, <1>3, <1>4, <1>5

LEMMA FlowSimulateKeeps ==
    ASSUME NothingEmpty(FlowValues), DeploymentInv, FlowSimulate, UNCHANGED page_vars
    PROVE  DeploymentInv'
<1> DEFINE accepted == SubmitProof(kv, flow.id, flow.msg, height).res = "Ok"
           sent == [flow EXCEPT !.pc = "await", !.pending = TRUE]
           refused == [flow EXCEPT !.pc = "refused"]
<1>1. DOMAIN flow = FlowFields /\ flow.pc = "simulate"
    BY DEF FlowSimulate, FlowAt, DeploymentInv, FlowInv, FlowOK
<1>2. ~flow.pending /\ IsMine(kv, flow.id) /\ Proves(blocks, flow.msg, flow.found)
    BY <1>1 DEF DeploymentInv, FlowInv, FlowOK
<1>3. FlowOK(blocks, kv, landed, sent)
    <2>1. /\ DOMAIN sent = FlowFields /\ sent.pc = "await"
          /\ sent.id = flow.id /\ sent.found = flow.found /\ sent.msg = flow.msg
        BY <1>1 DEF FlowFields
    <2> HIDE DEF sent
    <2> QED BY <1>2, <2>1 DEF FlowOK
<1>4. ASSUME ~accepted PROVE FlowOK(blocks, kv, landed, refused)
    <2>1. EvaluateCondition(kv.subs[flow.id].condition, flow.found.value) = "Ok"
                => kv.subs[flow.id].status = "Triggered"
        <3>1. \A h \in 1..Len(blocks) : StateOK(blocks[h], FlowValues)
            BY DEF DeploymentInv, WatcherInv, RemoteInv
        <3>2. CallbacksOK(kv)
            BY FiledNow
        <3> QED BY <1>2, <1>4, <3>1, <3>2, RefusedIsLate
    <2>2. /\ DOMAIN refused = FlowFields /\ refused.pc = "refused"
          /\ refused.pending = flow.pending
          /\ refused.id = flow.id /\ refused.found = flow.found /\ refused.msg = flow.msg
        BY <1>1, FlowPc
    <2> HIDE DEF refused
    <2> QED BY <1>2, <2>1, <2>2 DEF FlowOK
<1>5. /\ flow' = sent \/ (~accepted /\ flow' = refused)
      /\ UNCHANGED << remote_vars, hub_vars, server_vars >>
    BY DEF FlowSimulate, FlowGoes
<1> HIDE DEF sent, refused, accepted
<1> QED BY <1>3, <1>4, <1>5, FlowGoesKeeps

\* The events are read while the callback has one for the subscription.
LEMMA QueryCallbackEventsKeeps ==
    ASSUME DeploymentInv, QueryCallbackEvents, UNCHANGED page_vars
    PROVE  DeploymentInv'
<1> DEFINE es == kv.events
           done == [flow EXCEPT !.pc = "complete", !.events = es]
<1>1. DOMAIN flow = FlowFields /\ flow.pc = "query"
    BY DEF QueryCallbackEvents, FlowAt, DeploymentInv, FlowInv, FlowOK
<1>2. ~flow.pending /\ IsMine(kv, flow.id) /\ IsOwn(kv, landed, flow)
    BY <1>1 DEF DeploymentInv, FlowInv, FlowOK
<1>3. DOMAIN es = 1..Len(es)
    BY FiledNow, SeqLength DEF Filed
<1>4. PICK i \in DOMAIN es : /\ IsDelivery(es[i], flow.id)
                             /\ es[i].proven_value = from_utf8_lossy(flow.msg.value)
    BY <1>2, <1>3 DEF IsOwn
<1>5. {j \in DOMAIN es : IsDelivery(es[j], flow.id)} = {i}
    <2>1. \A j \in DOMAIN es : IsDelivery(es[j], flow.id) => j = i
        BY <1>2, <1>3, <1>4, FiledNow DEF EventsOK, IsMine
    <2> QED BY <1>4, <2>1
<1> HIDE DEF es
<1>6. /\ DOMAIN done = FlowFields /\ done.pc = "complete" /\ done.pending = flow.pending
      /\ done.id = flow.id /\ done.msg = flow.msg /\ done.events = es
    BY <1>1 DEF FlowFields
<1>7. flow' = done /\ UNCHANGED << remote_vars, hub_vars, server_vars >>
    BY DEF QueryCallbackEvents, FlowGoes, es
<1> HIDE DEF done
<1>8. FlowOK(blocks, kv, landed, done)
    BY <1>2, <1>4, <1>5, <1>6 DEF FlowOK, IsOwn
<1> QED BY <1>7, <1>8, FlowGoesKeeps

\* A transaction of the script that changes the storage of the hub.
LEMMA FlowStorage ==
    ASSUME DeploymentInv, StorageOK(blocks, kv'), Later(kv, kv'),
           CallbacksOK(kv'), EventsOK(kv'), FlowOK(blocks, kv', landed, flow'),
           UNCHANGED << remote_vars, sequence, mempool, landed, tasks, page_vars >>
    PROVE  DeploymentInv'
<1> DEFINE V == FlowValues
<1> HIDE DEF V
<1>1. WatcherInv(V)'
    BY StorageMoves DEF DeploymentInv, V
<1>2. DeliveryInv' /\ FlowInv'
    BY DEF DeliveryInv, FlowInv, remote_vars
<1>3. PageInv'
    BY PageStays
<1> QED BY <1>1, <1>2, <1>3 DEF DeploymentInv, V

LEMMA CreateSubscriptionKeeps ==
    ASSUME DeploymentInv, CreateSubscription, UNCHANGED page_vars
    PROVE  DeploymentInv'
<1> DEFINE m == FlowSubscribeMsg
           j == execute_subscribe(kv, Owner, m, height).kv
           new == Subscription(kv.next_id, Owner, m, height)
<1>1. /\ DOMAIN flow = FlowFields /\ flow.pc = "subscribe"
      /\ kv' = j /\ flow' = [flow EXCEPT !.pc = "wait", !.id = kv.next_id]
      /\ UNCHANGED << remote_vars, sequence, mempool, landed, tasks >>
    BY DEF CreateSubscription, FlowAt, DeploymentInv, FlowInv, FlowOK, server_vars
<1>2. ~flow.pending
    BY <1>1 DEF DeploymentInv, FlowInv, FlowOK
<1>3. Filed(kv) /\ CallbacksOK(kv) /\ EventsOK(kv) /\ StorageOK(blocks, kv)
    BY FiledNow DEF DeploymentInv, WatcherInv, HubInv
<1>4. StorageOK(blocks, kv') /\ Later(kv, kv')
    BY <1>1, <1>3, SubscribedStorage
<1>5. CallbacksOK(kv') /\ EventsOK(kv')
    BY <1>1, <1>3, SubscribedDelivery DEF FlowSubscribeMsg
<1>6. kv.next_id \in Ids(kv') /\ kv'.subs[kv.next_id] = new
    BY <1>1, <1>3, SubscribeStep
<1>7. /\ new.key_path = << "wasm" >> /\ new.watch_key = AttestationFlag
      /\ new.callback_contract = ProofCallback /\ new.expires_at = None
    BY DEF Subscription, FlowSubscribeMsg, ExpiryOf
<1> HIDE DEF j, new
<1>8. IsMine(kv', kv.next_id)
    BY <1>6, <1>7 DEF IsMine
<1>9. /\ DOMAIN flow' = FlowFields /\ flow'.pc = "wait" /\ flow'.id = kv.next_id
      /\ flow'.pending = flow.pending
    BY <1>1 DEF FlowFields
<1>10. FlowOK(blocks, kv', landed, flow')
    BY <1>2, <1>8, <1>9 DEF FlowOK
<1> QED BY <1>1, <1>4, <1>5, <1>10, FlowStorage

\* The script's transaction takes effect, or has been overtaken; it may land
\* when the script has given up waiting.
LEMMA IncludeFlowKeeps ==
    ASSUME NothingEmpty(FlowValues), DeploymentInv, IncludeFlow, UNCHANGED page_vars
    PROVE  DeploymentInv'
<1> DEFINE id == flow.id
           msg == flow.msg
           r == SubmitProof(kv, id, msg, height)
<1>1. /\ DOMAIN flow = FlowFields /\ flow.pending /\ kv' = r.kv
      /\ flow' = [flow EXCEPT !.pending = FALSE, !.pc = AfterInclusion(r.res)]
      /\ UNCHANGED << remote_vars, sequence, mempool, landed, tasks >>
    BY DEF IncludeFlow, DeploymentInv, FlowInv, FlowOK, server_vars
<1>2. /\ Proves(blocks, msg, flow.found) /\ flow.pc \in {"await", "failed"}
      /\ flow.pc = "await" => IsMine(kv, id)
    BY <1>1 DEF DeploymentInv, FlowInv, FlowOK
<1>3. Filed(kv) /\ CallbacksOK(kv) /\ EventsOK(kv) /\ StorageOK(blocks, kv)
    BY FiledNow DEF DeploymentInv, WatcherInv, HubInv
<1>4. StorageOK(blocks, kv') /\ Later(kv, kv')
    <2>1. PICK h \in 1..Len(blocks) : \E key \in DOMAIN blocks[h].wasm :
                msg = SubmitProofMsg(FoundAt(blocks, h, key), AppHash(blocks[h]))
        BY <1>2 DEF Proves, Genuine
    <2>2. msg.app_hash = AppHash(blocks[h])
        BY <2>1, MessageOf
    <2> QED BY <1>1, <1>3, <2>2, SubmittedStorage
<1>5. CallbacksOK(kv') /\ EventsOK(kv')
    BY <1>1, SubmitMoves
<1>6. /\ DOMAIN flow' = FlowFields /\ flow'.pc = AfterInclusion(r.res) /\ ~flow'.pending
      /\ flow'.id = id /\ flow'.msg = msg /\ flow'.found = flow.found
    BY <1>1 DEF FlowFields
<1>7. CASE flow.pc = "failed"
    <2>1. flow'.pc = "failed"
        BY <1>6, <1>7 DEF AfterInclusion, FlowAt
    <2> QED BY <1>1, <1>4, <1>5, <1>6, <2>1, FlowWithout, FlowStorage
<1>8. CASE flow.pc = "await" /\ r.res = "Ok"
    <2>1. flow'.pc = "query"
        BY <1>6, <1>8 DEF AfterInclusion, FlowAt
    <2>2. /\ kv.subs[id].status = "Active" /\ kv'.subs[id].status = "Triggered"
          /\ \E i \in 1..Len(kv'.events) : /\ IsDelivery(kv'.events[i], id)
                                           /\ kv'.events[i].proven_value = from_utf8_lossy(msg.value)
        <3> DEFINE n == Len(kv.events)
        <3>1. /\ kv.subs[id].status = "Active" /\ kv'.subs[id].status = "Triggered"
              /\ n \in Nat /\ Len(kv'.events) = n + 1
              /\ IsDelivery(kv'.events[n + 1], id)
              /\ kv'.events[n + 1].proven_value = from_utf8_lossy(msg.value)
            <4>1. kv.subs[id].callback_contract = ProofCallback
                BY <1>3, <1>8, Acceptance DEF CallbacksOK
            <4> QED BY <1>1, <1>3, <1>8, <4>1, AcceptedDelivery
        <3>2. n + 1 \in 1..Len(kv'.events)
            BY <3>1
        <3> QED BY <3>1, <3>2
    <2>3. \A x \in landed : x.id = id => x.res # "Ok"
        BY <2>2 DEF DeploymentInv, WatcherInv, HubInv, LandedOK
    <2>4. IsMine(kv', id)
        BY <1>2, <1>4, <1>8 DEF IsMine, Later, SameTerms
    <2>5. FlowOK(blocks, kv', landed, flow')
        BY <1>6, <2>1, <2>2, <2>3, <2>4 DEF FlowOK, IsOwn
    <2> QED BY <1>1, <1>4, <1>5, <2>5, FlowStorage
<1>9. CASE flow.pc = "await" /\ r.res # "Ok"
    <2>1. flow'.pc = "refused"
        BY <1>6, <1>9 DEF AfterInclusion, FlowAt
    <2>2. kv' = kv
        BY <1>1, <1>9, RefusedProof
    <2>3. EvaluateCondition(kv.subs[id].condition, flow.found.value) = "Ok"
                => kv.subs[id].status = "Triggered"
        <3>1. \A h \in 1..Len(blocks) : StateOK(blocks[h], FlowValues)
            BY DEF DeploymentInv, WatcherInv, RemoteInv
        <3> QED BY <1>2, <1>3, <1>9, <3>1, RefusedIsLate
    <2>4. FlowOK(blocks, kv', landed, flow')
        BY <1>2, <1>6, <1>9, <2>1, <2>2, <2>3 DEF FlowOK
    <2> QED BY <1>1, <1>4, <1>5, <2>4, FlowStorage
<1> QED BY <1>2, <1>7, <1>8, <1>9

LEMMA FlowKeeps ==
    ASSUME NothingEmpty(FlowValues), DeploymentInv, FlowNext, UNCHANGED page_vars
    PROVE  DeploymentInv'
BY WriteAttestationKeeps, AttestationFoundKeeps, CreateSubscriptionKeeps, WaitedKeeps,
   FlowFetchStateKeeps, FlowFetchAppHashKeeps, FlowSimulateKeeps, IncludeFlowKeeps,
   QueryCallbackEventsKeeps, FlowFailsKeeps DEF FlowNext

-----------------------------------------------------------------------------
(***************************************************************************)
(* What the buttons of the dashboard wait for.                             *)
(***************************************************************************)
LEMMA NoneIsNoIdentifier == None \notin Identifiers
BY NoneAssumption DEF Identifiers

\* The timer asks for the status.
LEMMA TimerAsks ==
    ASSUME NEW off, NEW as, NEW ps, NEW ts, PageOK(off, as, ps, ts), NEW brings
    PROVE  PageOK(off, as, [ps EXCEPT ![None] = [under_way |-> TRUE, brings |-> brings]], ts)
<1> DEFINE qs == [ps EXCEPT ![None] = [under_way |-> TRUE, brings |-> brings]]
           poll == [under_way |-> TRUE, brings |-> brings]
<1>1. DOMAIN poll = {"under_way", "brings"} /\ poll.under_way \in BOOLEAN
    OBVIOUS
<1>2. /\ qs = [p \in Askers |-> qs[p]] /\ qs[None] = poll
      /\ \A p \in Askers : p # None => qs[p] = ps[p]
    BY DEF PageOK, PollsOK, Askers
<1> HIDE DEF qs, poll
<1>3. PollsOK(qs)
    BY <1>1, <1>2 DEF PageOK, PollsOK
<1>4. \A id \in Identifiers : qs[id] = ps[id]
    BY <1>2, NoneIsNoIdentifier DEF Askers
<1>5. PageOK(off, as, qs, ts)
    BY <1>3, <1>4 DEF PageOK, ButtonOK
<1> QED BY <1>5 DEF qs, poll

\* A status call ends, and the button it was for is on.
LEMMA StatusEnds ==
    ASSUME NEW off, NEW as, NEW ps, NEW ts, PageOK(off, as, ps, ts),
           NEW p \in Askers, ps[p].under_way
    PROVE  PageOK(off \ {p}, as, [ps EXCEPT ![p] = NotAsking], ts)
<1> DEFINE qs == [ps EXCEPT ![p] = NotAsking]
<1>1. DOMAIN NotAsking = {"under_way", "brings"} /\ NotAsking.under_way = FALSE
    BY DEF NotAsking
<1>2. /\ qs = [q \in Askers |-> qs[q]] /\ qs[p] = NotAsking
      /\ \A q \in Askers : q # p => qs[q] = ps[q]
    BY DEF PageOK, PollsOK
<1> HIDE DEF qs
<1>3. PollsOK(qs)
    BY <1>1, <1>2 DEF PageOK, PollsOK
<1>4. ASSUME NEW id \in Identifiers PROVE ButtonOK(off \ {p}, as, qs, id)
    <2>1. ButtonOK(off, as, ps, id)
        BY DEF PageOK
    <2>2. CASE id = p
        BY <1>1, <1>2, <2>1, <2>2 DEF ButtonOK
    <2>3. CASE id # p
        <3>1. qs[id] = ps[id]
            BY <1>2, <2>3 DEF Askers
        <3> QED BY <2>1, <2>3, <3>1 DEF ButtonOK
    <2> QED BY <2>2, <2>3
<1>5. PageOK(off \ {p}, as, qs, ts)
    BY <1>3, <1>4 DEF PageOK
<1> QED BY <1>5 DEF qs

\* A button is clicked, and its request begins.
LEMMA RequestBegins ==
    ASSUME NEW off, NEW as, NEW ps, NEW ts, PageOK(off, as, ps, ts),
           NEW id \in Identifiers, id \notin off, NEW t \in Requests, ts[t].pc = "rest",
           NEW us, us[t].todo = << >>, us[t].pc # "rest", us[t].id = id,
           \A s \in Requests : s # t => us[s] = ts[s]
    PROVE  PageOK(off \cup {id}, [as EXCEPT ![t] = id], ps, us)
<1> DEFINE bs == [as EXCEPT ![t] = id]
<1>1. as[t] = None
    BY DEF PageOK, RequestOK
<1>2. /\ bs \in [Requests -> Askers] /\ bs[t] = id
      /\ \A s \in Requests : s # t => bs[s] = as[s]
    BY DEF PageOK, Askers
<1> HIDE DEF bs
<1>3. \A s \in Requests : RequestOK(bs, us, s)
    BY <1>2 DEF PageOK, RequestOK
<1>4. ASSUME NEW o \in Identifiers PROVE ButtonOK(off \cup {id}, bs, ps, o)
    <2>1. ButtonOK(off, as, ps, o)
        BY DEF PageOK
    <2>2. CASE o = id
        <3>1. Awaited(as, id) = {} /\ ~ps[id].under_way
            BY <2>1, <2>2 DEF ButtonOK
        <3>2. Awaited(bs, id) = {t}
            BY <1>2, <3>1 DEF Awaited
        <3> QED BY <2>2, <3>1, <3>2 DEF ButtonOK
    <2>3. CASE o # id
        <3>1. Awaited(bs, o) = Awaited(as, o)
            BY <1>1, <1>2, <2>3, NoneIsNoIdentifier DEF Awaited
        <3> QED BY <2>1, <2>3, <3>1 DEF ButtonOK
    <2> QED BY <2>2, <2>3
<1>5. off \cup {id} \subseteq Identifiers /\ PollsOK(ps)
    BY DEF PageOK
<1>6. PageOK(off \cup {id}, bs, ps, us)
    BY <1>2, <1>3, <1>4, <1>5 DEF PageOK
<1> QED BY <1>6 DEF bs

\* A request is answered with an error, and its button is on.
LEMMA RequestEnds ==
    ASSUME NEW off, NEW as, NEW ps, NEW ts, PageOK(off, as, ps, ts),
           NEW t \in Requests, NEW us, us[t].todo = << >>,
           \A s \in Requests : s # t => us[s] = ts[s]
    PROVE  PageOK(off \ {as[t]}, [as EXCEPT ![t] = None], ps, us)
<1> DEFINE bs == [as EXCEPT ![t] = None]
<1>1. /\ bs \in [Requests -> Askers] /\ bs[t] = None
      /\ \A s \in Requests : s # t => bs[s] = as[s]
    BY DEF PageOK, Askers
<1> HIDE DEF bs
<1>2. \A s \in Requests : RequestOK(bs, us, s)
    BY <1>1 DEF PageOK, RequestOK
<1>3. ASSUME NEW o \in Identifiers PROVE ButtonOK(off \ {as[t]}, bs, ps, o)
    <2>1. ButtonOK(off, as, ps, o)
        BY DEF PageOK
    <2>2. CASE o = as[t]
        <3>1. Awaited(as, o) = {t} /\ ~ps[o].under_way
            BY <2>1, <2>2 DEF ButtonOK, Awaited
        <3>2. Awaited(bs, o) = {}
            BY <1>1, <3>1, NoneIsNoIdentifier DEF Awaited
        <3> QED BY <2>2, <3>1, <3>2 DEF ButtonOK
    <2>3. CASE o # as[t]
        <3>1. Awaited(bs, o) = Awaited(as, o)
            BY <1>1, <2>3, NoneIsNoIdentifier DEF Awaited
        <3> QED BY <2>1, <2>3, <3>1 DEF ButtonOK
    <2> QED BY <2>2, <2>3
<1>4. off \ {as[t]} \subseteq Identifiers /\ PollsOK(ps)
    BY DEF PageOK
<1>5. PageOK(off \ {as[t]}, bs, ps, us)
    BY <1>1, <1>2, <1>3, <1>4 DEF PageOK
<1> QED BY <1>5 DEF bs

\* A request is answered with a transaction: its button now waits for the status.
LEMMA RequestSucceeds ==
    ASSUME NEW off, NEW as, NEW ps, NEW ts, PageOK(off, as, ps, ts),
           NEW t \in Requests, as[t] # None, NEW us, us[t].todo = << >>,
           \A s \in Requests : s # t => us[s] = ts[s], NEW brings
    PROVE  PageOK(off, [as EXCEPT ![t] = None],
                  [ps EXCEPT ![as[t]] = [under_way |-> TRUE, brings |-> brings]], us)
<1> DEFINE b == as[t]
           bs == [as EXCEPT ![t] = None]
           poll == [under_way |-> TRUE, brings |-> brings]
           qs == [ps EXCEPT ![b] = poll]
<1>1. /\ bs \in [Requests -> Askers] /\ bs[t] = None
      /\ \A s \in Requests : s # t => bs[s] = as[s]
    BY DEF PageOK, Askers
<1>2. b \in Identifiers
    BY DEF PageOK, Askers
<1>3. DOMAIN poll = {"under_way", "brings"} /\ poll.under_way = TRUE
    OBVIOUS
<1> HIDE DEF poll
<1>4. /\ qs = [p \in Askers |-> qs[p]] /\ qs[b] = poll
      /\ \A p \in Askers : p # b => qs[p] = ps[p]
    BY <1>2 DEF PageOK, PollsOK, Askers
<1> HIDE DEF bs, qs
<1>5. \A s \in Requests : RequestOK(bs, us, s)
    BY <1>1 DEF PageOK, RequestOK
<1>6. PollsOK(qs)
    BY <1>3, <1>4 DEF PageOK, PollsOK
<1>7. ASSUME NEW o \in Identifiers PROVE ButtonOK(off, bs, qs, o)
    <2>1. ButtonOK(off, as, ps, o)
        BY DEF PageOK
    <2>2. CASE o = b
        <3>1. Awaited(as, o) = {t} /\ o \in off
            BY <2>1, <2>2 DEF ButtonOK, Awaited
        <3>2. Awaited(bs, o) = {}
            BY <1>1, <3>1, NoneIsNoIdentifier DEF Awaited
        <3> QED BY <1>3, <1>4, <2>2, <3>1, <3>2 DEF ButtonOK
    <2>3. CASE o # b
        <3>1. Awaited(bs, o) = Awaited(as, o)
            BY <1>1, <2>3, NoneIsNoIdentifier DEF Awaited
        <3>2. qs[o] = ps[o]
            BY <1>4, <2>3 DEF Askers
        <3> QED BY <2>1, <3>1, <3>2 DEF ButtonOK
    <2> QED BY <2>2, <2>3
<1>8. PageOK(off, bs, qs, us)
    BY <1>1, <1>5, <1>6, <1>7 DEF PageOK
<1> QED BY <1>8 DEF bs, qs, poll

\* A request goes on.
LEMMA RequestGoesOn ==
    ASSUME NEW off, NEW as, NEW ps, NEW ts, PageOK(off, as, ps, ts),
           NEW t \in Requests, NEW us, us[t].todo = << >>, us[t].pc # "rest",
           us[t].id = ts[t].id, \A s \in Requests : s # t => us[s] = ts[s]
    PROVE  PageOK(off, as, ps, us)
<1>1. \A s \in Requests : RequestOK(as, us, s)
    BY DEF PageOK, RequestOK
<1> QED BY <1>1 DEF PageOK

\* The page is new: no button is off.
LEMMA PageOpens ==
    ASSUME NEW ts, \A t \in Requests : ts[t].todo = << >>
    PROVE  PageOK({}, [t \in Requests |-> None], [p \in Askers |-> NotAsking], ts)
<1> DEFINE as == [t \in Requests |-> None]
           ps == [p \in Askers |-> NotAsking]
<1>1. as \in [Requests -> Askers] /\ \A t \in Requests : as[t] = None
    BY DEF Askers
<1>2. DOMAIN NotAsking = {"under_way", "brings"} /\ NotAsking.under_way = FALSE
    BY DEF NotAsking
<1>3. ps = [p \in Askers |-> ps[p]] /\ \A p \in Askers : ps[p] = NotAsking
    OBVIOUS
<1> HIDE DEF as, ps
<1>4. \A t \in Requests : RequestOK(as, ts, t)
    BY <1>1 DEF RequestOK
<1>5. PollsOK(ps)
    BY <1>2, <1>3 DEF PollsOK
<1>6. ASSUME NEW o \in Identifiers PROVE ButtonOK({}, as, ps, o)
    <2>1. Awaited(as, o) = {}
        BY <1>1, NoneIsNoIdentifier DEF Awaited
    <2>2. ~ps[o].under_way
        BY <1>2, <1>3 DEF Askers
    <2> QED BY <2>1, <2>2 DEF ButtonOK
<1>7. PageOK({}, as, ps, ts)
    BY <1>1, <1>4, <1>5, <1>6 DEF PageOK
<1> QED BY <1>7 DEF as, ps

\* The server restarts: every request ends with an error, and of the status
\* calls those the server had not answered.
LEMMA AllRequestsEnd ==
    ASSUME NEW off, NEW as, NEW ps, NEW ts, PageOK(off, as, ps, ts),
           NEW qs, qs = [p \in Askers |-> qs[p]],
           \A p \in Askers : qs[p] = ps[p] \/ qs[p] = NotAsking,
           NEW still, \A id : id \in still <=> id \in off /\ qs[id].under_way,
           NEW bs, bs \in [Requests -> {None}],
           NEW us, \A t \in Requests : us[t].todo = << >>
    PROVE  PageOK(still, bs, qs, us)
<1>1. bs \in [Requests -> Askers] /\ \A t \in Requests : bs[t] = None
    BY DEF Askers
<1>2. DOMAIN NotAsking = {"under_way", "brings"} /\ NotAsking.under_way = FALSE
    BY DEF NotAsking
<1>3. \A t \in Requests : RequestOK(bs, us, t)
    BY <1>1 DEF RequestOK
<1>4. PollsOK(qs)
    BY <1>2 DEF PageOK, PollsOK
<1>5. ASSUME NEW o \in Identifiers PROVE ButtonOK(still, bs, qs, o)
    <2>1. ButtonOK(off, as, ps, o)
        BY DEF PageOK
    <2>2. Awaited(bs, o) = {}
        BY <1>1, NoneIsNoIdentifier DEF Awaited
    <2>3. qs[o].under_way => ps[o].under_way
        BY <1>2 DEF Askers
    <2> QED BY <2>1, <2>2, <2>3 DEF ButtonOK
<1>6. still \subseteq Identifiers
    BY DEF PageOK
<1> QED BY <1>1, <1>3, <1>4, <1>5, <1>6 DEF PageOK

-----------------------------------------------------------------------------
(***************************************************************************)
(* The steps of the dashboard and its requests.                            *)
(***************************************************************************)
LEMMA PageMoves ==
    ASSUME DeploymentInv, WatcherInv(FlowValues)', UNCHANGED << remote_vars, kv, landed, flow >>,
           PageOK(submitting', asked', polls', tasks'), ResultsOK(proofResults', landed)
    PROVE  DeploymentInv'
<1>1. DeliveryInv' /\ FlowInv'
    BY SameBlocks, FlowStays
<1>2. PageInv'
    BY DEF PageInv
<1> QED BY <1>1, <1>2 DEF DeploymentInv

LEMMA PageNow ==
    ASSUME DeploymentInv
    PROVE  /\ PageOK(submitting, asked, polls, tasks) /\ ResultsOK(proofResults, landed)
           /\ WatcherInv(FlowValues)
           /\ \A t \in Requests : /\ RequestOK(asked, tasks, t) /\ t \in Tasks
                                  /\ DOMAIN tasks[t] = TaskFields
BY DEF DeploymentInv, PageInv, PageOK, WatcherInv, TasksInv, TasksOK, TaskOK, Tasks

\* A request has no list to go on with.
LEMMA RequestLeaves ==
    ASSUME DeploymentInv, NEW t \in Requests
    PROVE  Leave(t) = Rest /\ Rest.todo = << >>
<1>1. tasks[t].todo = << >>
    BY PageNow DEF RequestOK
<1> QED BY <1>1 DEF Leave, Turn, Rest

\* What one of its calls makes of a request.
GoesOn(t, task) == task.todo = << >> /\ task.pc # "rest" /\ task.id = tasks[t].id

LEMMA RequestTask ==
    ASSUME DeploymentInv, NEW t \in Requests, Step(t) \/ CallFails(t)
    PROVE  /\ WatcherInv(FlowValues)' /\ UNCHANGED << remote_vars, kv, landed >>
           /\ \A s \in Requests : s # t => tasks'[s] = tasks[s]
           /\ tasks'[t] = Rest \/ GoesOn(t, tasks'[t])
           /\ FindResult(t) \/ TimeOut(t) \/ CallFails(t) => tasks'[t] = Rest
<1> DEFINE V == FlowValues
           task == tasks[t]
<1> HIDE DEF V
<1>1. WatcherInv(V) /\ t \in Tasks /\ DOMAIN task = TaskFields /\ RequestOK(asked, tasks, t)
    BY PageNow DEF V
<1>2. WatcherInv(V)'
    BY <1>1, StepKeeps, CallFailsKeeps
<1>3. /\ UNCHANGED << remote_vars, kv, landed >>
      /\ \A s \in Requests : s # t => tasks'[s] = tasks[s]
    BY <1>1, StepIsOfTask DEF Tasks
<1>4. ASSUME Becomes(t, Leave(t)) PROVE tasks'[t] = Rest
    BY <1>1, <1>4, OtherTasks, RequestLeaves
<1>5. ASSUME NEW pc, pc # "rest"
      PROVE  /\ GoesOn(t, [task EXCEPT !.pc = pc])
             /\ \A found : GoesOn(t, [task EXCEPT !.pc = pc, !.found = found])
             /\ \A msg : GoesOn(t, [task EXCEPT !.pc = pc, !.msg = msg])
             /\ \A seq : GoesOn(t, [task EXCEPT !.pc = pc, !.seq = seq])
    BY <1>1, <1>5 DEF GoesOn, RequestOK, TaskFields
<1>6. FindResult(t) \/ TimeOut(t) \/ CallFails(t) => tasks'[t] = Rest
    BY <1>4 DEF FindResult, TimeOut, CallFails, Returns
<1>7. CASE FetchState(t)
    <2> DEFINE new == [task EXCEPT !.pc = "hash", !.found = fetchStateWithProof(task.key)]
    <2>1. Becomes(t, new) \/ Becomes(t, Leave(t))
        BY <1>7 DEF FetchState, Returns
    <2>2. GoesOn(t, new)
        BY <1>5
    <2> HIDE DEF new
    <2> QED BY <1>1, <1>2, <1>3, <1>4, <1>6, <2>1, <2>2, OtherTasks DEF V
<1>8. CASE FetchAppHash(t)
    <2> DEFINE found == task.found
               msg == SubmitProofMsg(found, HeaderAppHash(AppHashHeader(found.height)))
               new == [task EXCEPT !.pc = "simulate", !.msg = msg]
               again == [task EXCEPT !.attempts = @ + 1]
    <2>1. Becomes(t, new) \/ Becomes(t, again) \/ Becomes(t, Leave(t))
        BY <1>8 DEF FetchAppHash, Returns
    <2>2. GoesOn(t, new)
        BY <1>5
    <2>3. task.pc = "hash"
        BY <1>8 DEF FetchAppHash, At
    <2>4. GoesOn(t, again)
        BY <1>1, <2>3 DEF GoesOn, RequestOK, TaskFields
    <2> HIDE DEF new, again
    <2> QED BY <1>1, <1>2, <1>3, <1>4, <1>6, <2>1, <2>2, <2>4, OtherTasks DEF V
<1>9. CASE Simulate(t)
    <2> DEFINE new == [task EXCEPT !.pc = "sign"]
    <2>1. Becomes(t, new) \/ Becomes(t, Leave(t))
        BY <1>9 DEF Simulate, Returns
    <2>2. GoesOn(t, new)
        BY <1>5
    <2> HIDE DEF new
    <2> QED BY <1>1, <1>2, <1>3, <1>4, <1>6, <2>1, <2>2, OtherTasks DEF V
<1>10. CASE Sign(t)
    <2> DEFINE new == [task EXCEPT !.pc = "broadcast", !.seq = sequence]
    <2>1. Becomes(t, new)
        BY <1>10 DEF Sign, Returns
    <2>2. GoesOn(t, new)
        BY <1>5
    <2> HIDE DEF new
    <2> QED BY <1>1, <1>2, <1>3, <1>4, <1>6, <2>1, <2>2, OtherTasks DEF V
<1>11. CASE Broadcast(t)
    <2> DEFINE new == [task EXCEPT !.pc = "await"]
    <2>1. Becomes(t, new) \/ Becomes(t, Leave(t))
        BY <1>11 DEF Broadcast
    <2>2. GoesOn(t, new)
        BY <1>5
    <2> HIDE DEF new
    <2> QED BY <1>1, <1>2, <1>3, <1>4, <1>6, <2>1, <2>2, OtherTasks DEF V
<1> QED BY <1>2, <1>3, <1>6, <1>7, <1>8, <1>9, <1>10, <1>11 DEF Step, V

\* A request ends with an error: no transaction is shown for it.
LEMMA RejectedKeeps ==
    ASSUME DeploymentInv, NEW t \in Requests, Step(t) \/ CallFails(t), tasks'[t] = Rest,
           Rejected(t), UNCHANGED flow
    PROVE  DeploymentInv'
<1>1. /\ WatcherInv(FlowValues)' /\ UNCHANGED << remote_vars, kv, landed >>
      /\ \A s \in Requests : s # t => tasks'[s] = tasks[s]
    BY RequestTask
<1>2. tasks'[t].todo = << >>
    BY RequestLeaves
<1>3. /\ asked' = [asked EXCEPT ![t] = None] /\ submitting' = submitting \ {asked[t]}
      /\ polls' = polls /\ proofResults' = proofResults
    BY DEF Rejected, Release
<1>4. PageOK(submitting, asked, polls, tasks) /\ ResultsOK(proofResults, landed)
    BY PageNow
<1>5. PageOK(submitting', asked', polls', tasks')
    BY ONLY <1>1, <1>2, <1>3, <1>4, t \in Requests, RequestEnds
<1>6. ResultsOK(proofResults', landed)
    BY <1>3, <1>4
<1> QED BY <1>1, <1>5, <1>6, PageMoves

\* A request ends with a transaction that took effect for its button.
LEMMA AcceptedKeeps ==
    ASSUME DeploymentInv, NEW t \in Requests, FindResult(t), Succeeded(t), Accepted(t),
           UNCHANGED flow
    PROVE  DeploymentInv'
<1>1. /\ WatcherInv(FlowValues)' /\ UNCHANGED << remote_vars, kv, landed >>
      /\ \A s \in Requests : s # t => tasks'[s] = tasks[s]
      /\ tasks'[t] = Rest
    BY RequestTask DEF Step
<1>2. tasks'[t].todo = << >>
    BY <1>1, RequestLeaves
<1>3. PageOK(submitting, asked, polls, tasks) /\ ResultsOK(proofResults, landed)
    BY PageNow
<1>4. asked' = [asked EXCEPT ![t] = None] /\ submitting' = submitting
    BY DEF Accepted
<1>5. CASE asked[t] = None
    <2>1. polls' = polls /\ proofResults' = proofResults
        BY <1>5 DEF Accepted
    <2>2. PageOK(submitting \ {asked[t]}, asked', polls, tasks')
        BY ONLY <1>1, <1>2, <1>3, <1>4, t \in Requests, RequestEnds
    <2>3. submitting \ {asked[t]} = submitting
        BY <1>3, <1>5, NoneIsNoIdentifier DEF PageOK
    <2> QED BY <1>1, <1>3, <1>4, <2>1, <2>2, <2>3, PageMoves
<1>6. CASE asked[t] # None
    <2> DEFINE brings == getWatcherState
    <2>1. /\ proofResults' = proofResults \cup {asked[t]}
          /\ polls' = [polls EXCEPT ![asked[t]] = [under_way |-> TRUE, brings |-> brings]]
        BY <1>6 DEF Accepted, Ask
    <2> HIDE DEF brings
    <2>2. PageOK(submitting', asked', polls', tasks')
        BY ONLY <1>1, <1>2, <1>3, <1>4, <1>6, <2>1, t \in Requests, RequestSucceeds
    <2>3. \E x \in landed : x.id = asked[t] /\ x.res = "Ok"
        BY <1>6, PageNow DEF Succeeded, RequestOK
    <2>4. ResultsOK(proofResults', landed)
        BY <1>3, <2>1, <2>3 DEF ResultsOK
    <2> QED BY <1>1, <2>2, <2>4, PageMoves
<1> QED BY <1>5, <1>6

LEMMA RequestStepKeeps ==
    ASSUME DeploymentInv, NEW t \in Requests, RequestStep(t), UNCHANGED flow
    PROVE  DeploymentInv'
<1>1. CASE FindResult(t) /\ Succeeded(t) /\ Accepted(t)
    BY <1>1, AcceptedKeeps
<1>2. CASE (FindResult(t) \/ TimeOut(t)) /\ Rejected(t)
    BY <1>2, RequestTask, RejectedKeeps DEF Step
<1>3. CASE /\ FetchState(t) \/ FetchAppHash(t) \/ Simulate(t) \/ Sign(t) \/ Broadcast(t)
           /\ tasks'[t] = Rest /\ Rejected(t)
    BY <1>3, RejectedKeeps DEF Step
<1>4. CASE /\ FetchState(t) \/ FetchAppHash(t) \/ Simulate(t) \/ Sign(t) \/ Broadcast(t)
           /\ tasks'[t] # Rest /\ UNCHANGED page_vars
    <2>1. /\ WatcherInv(FlowValues)' /\ UNCHANGED << remote_vars, kv, landed >>
          /\ \A s \in Requests : s # t => tasks'[s] = tasks[s]
          /\ GoesOn(t, tasks'[t])
        BY <1>4, RequestTask DEF Step
    <2>2. PageOK(submitting, asked, polls, tasks) /\ ResultsOK(proofResults, landed)
        BY PageNow
    <2>3. PageOK(submitting, asked, polls, tasks')
        BY <2>1, <2>2, RequestGoesOn DEF GoesOn
    <2> QED BY <1>4, <2>1, <2>2, <2>3, PageMoves DEF page_vars
<1> QED BY <1>1, <1>2, <1>3, <1>4 DEF RequestStep

LEMMA RequestFailsKeeps ==
    ASSUME DeploymentInv, NEW t \in Requests, RequestFails(t), UNCHANGED flow
    PROVE  DeploymentInv'
BY RequestTask, RejectedKeeps DEF RequestFails

LEMMA ClickSubmitKeeps ==
    ASSUME DeploymentInv, NEW t \in Requests, NEW id \in Identifiers, NEW key,
           ClickSubmit(t, id, key), UNCHANGED flow
    PROVE  DeploymentInv'
<1> DEFINE new == [Rest EXCEPT !.pc = "state", !.id = id, !.key = key]
<1>1. /\ Becomes(t, new) /\ tasks[t].pc = "rest" /\ id \notin submitting
      /\ UNCHANGED << remote_vars, kv, landed, polls >>
      /\ submitting' = submitting \cup {id} /\ asked' = [asked EXCEPT ![t] = id]
      /\ proofResults' = proofResults \ {id}
    BY DEF ClickSubmit, StartRequest, Returns, At, hub_vars
<1>2. new.todo = << >> /\ new.pc # "rest" /\ new.id = id
    BY DEF Rest
<1> HIDE DEF new
<1>3. t \in Tasks /\ PageOK(submitting, asked, polls, tasks) /\ ResultsOK(proofResults, landed)
    BY PageNow
<1>4. /\ tasks'[t].todo = << >> /\ tasks'[t].pc # "rest" /\ tasks'[t].id = id
      /\ \A s \in Requests : s # t => tasks'[s] = tasks[s]
    BY <1>1, <1>2, <1>3, OtherTasks DEF Tasks
<1>5. PageOK(submitting', asked', polls', tasks')
    BY ONLY <1>1, <1>3, <1>4, t \in Requests, id \in Identifiers, RequestBegins
<1>6. ResultsOK(proofResults', landed)
    BY <1>1, <1>3 DEF ResultsOK
<1>7. WatcherInv(FlowValues)'
    BY PageNow, StartRequestKeeps DEF ClickSubmit
<1> QED BY <1>1, <1>5, <1>6, <1>7, PageMoves

\* The status is asked for, or answered: nothing but the page changes.
LEMMA PageOnlyMoves ==
    ASSUME DeploymentInv, UNCHANGED << remote_vars, hub_vars, tasks, flow >>,
           PageOK(submitting', asked', polls', tasks), proofResults' \subseteq proofResults
    PROVE  DeploymentInv'
<1>1. WatcherInv(FlowValues)'
    BY PageNow, NothingKeeps DEF hub_vars
<1>2. ResultsOK(proofResults', landed)
    BY PageNow DEF ResultsOK
<1> QED BY <1>1, <1>2, PageMoves DEF hub_vars

LEMMA FetchStatusKeeps ==
    ASSUME DeploymentInv, FetchStatus, UNCHANGED flow
    PROVE  DeploymentInv'
<1> DEFINE brings == getWatcherState
<1>1. /\ polls' = [polls EXCEPT ![None] = [under_way |-> TRUE, brings |-> brings]]
      /\ UNCHANGED << remote_vars, hub_vars, tasks, submitting, asked, proofResults >>
    BY DEF FetchStatus, Ask, Unchanged, server_vars
<1> HIDE DEF brings
<1>2. PageOK(submitting, asked, polls', tasks)
    BY <1>1, PageNow, TimerAsks
<1> QED BY <1>1, <1>2, PageOnlyMoves

LEMMA StatusEndsKeeps ==
    ASSUME DeploymentInv, NEW p \in Askers, StatusArrives(p) \/ StatusFails(p), UNCHANGED flow
    PROVE  DeploymentInv'
<1>1. /\ polls[p].under_way /\ submitting' = submitting \ {p}
      /\ polls' = [polls EXCEPT ![p] = NotAsking]
      /\ UNCHANGED << remote_vars, hub_vars, tasks, asked, proofResults >>
    BY DEF StatusArrives, StatusFails, Release, Unchanged, server_vars
<1>2. PageOK(submitting', asked', polls', tasks)
    BY <1>1, PageNow, StatusEnds
<1> QED BY <1>1, <1>2, PageOnlyMoves

LEMMA ReopenKeeps ==
    ASSUME DeploymentInv, Reopen, UNCHANGED flow
    PROVE  DeploymentInv'
<1>1. /\ submitting' = {} /\ asked' = [t \in Requests |-> None]
      /\ polls' = [p \in Askers |-> NotAsking] /\ proofResults' = {}
      /\ UNCHANGED << remote_vars, hub_vars, tasks >>
    BY DEF Reopen, server_vars
<1>2. PageOK(submitting', asked', polls', tasks)
    BY <1>1, PageNow, PageOpens DEF RequestOK
<1> QED BY <1>1, <1>2, PageOnlyMoves

LEMMA ServerRestartsKeeps ==
    ASSUME DeploymentInv, ServerRestarts, UNCHANGED flow
    PROVE  DeploymentInv'
<1>1. PICK lost :
        /\ polls' = [p \in Askers |-> IF p \in lost THEN NotAsking ELSE polls[p]]
        /\ submitting' = {id \in submitting : polls[id].under_way /\ id \notin lost}
    BY DEF ServerRestarts
<1>2. /\ asked' = [t \in Requests |-> None] /\ proofResults' = proofResults
      /\ tasks' = [t \in Tasks |-> Rest] /\ UNCHANGED << remote_vars, kv, landed >>
    BY DEF ServerRestarts, Restart, hub_vars
<1>3. \A t \in Requests : tasks'[t].todo = << >>
    <2>1. Rest.todo = << >>
        BY DEF Rest
    <2> QED BY <1>2, <2>1 DEF Tasks
<1>4. PageOK(submitting', asked', polls', tasks')
    <2>1. PageOK(submitting, asked, polls, tasks)
        BY PageNow
    <2>2. /\ asked' \in [Requests -> {None}] /\ polls' = [p \in Askers |-> polls'[p]]
          /\ \A p \in Askers : polls'[p] = IF p \in lost THEN NotAsking ELSE polls[p]
        BY <1>1, <1>2
    <2>3. \A id : id \in submitting' <=> id \in submitting /\ polls'[id].under_way
        <3>1. \A id \in submitting : id \in Askers
            BY <2>1 DEF PageOK, Askers
        <3>2. ~NotAsking.under_way
            BY DEF NotAsking
        <3> QED BY <1>1, <2>2, <3>1, <3>2
    <2>4. \A p \in Askers : polls'[p] = polls[p] \/ polls'[p] = NotAsking
        BY <2>2
    <2> QED BY ONLY <1>3, <2>1, <2>2, <2>3, <2>4, AllRequestsEnd
<1>5. WatcherInv(FlowValues)'
    BY PageNow, RestartKeeps DEF ServerRestarts
<1>6. ResultsOK(proofResults', landed)
    BY <1>2, PageNow
<1> QED BY <1>2, <1>4, <1>5, <1>6, PageMoves

LEMMA PageKeeps ==
    ASSUME DeploymentInv, PageNext, UNCHANGED flow
    PROVE  DeploymentInv'
BY FetchStatusKeeps, StatusEndsKeeps, ClickSubmitKeeps, RequestStepKeeps, RequestFailsKeeps,
   ServerRestartsKeeps, ReopenKeeps DEF PageNext

-----------------------------------------------------------------------------
(***************************************************************************)
(* The theorems.                                                           *)
(***************************************************************************)
LEMMA FlowValuesOK == NothingEmpty(FlowValues) /\ AttestedValues \subseteq FlowValues
BY FlowAssumption DEF FlowValues, AttestedValues, StoredValues

LEMMA DeploymentInitially ==
    ASSUME DeploymentInit
    PROVE  DeploymentInv
<1>1. WatcherInv(FlowValues)
    BY InitialInv DEF DeploymentInit
<1>2. kv = InitialStorage /\ flow = NotStarted /\ landed = {} /\ tasks = [t \in Tasks |-> Rest]
    BY DEF DeploymentInit, Init, FlowInit
<1>3. DeliveryInv
    <2>1. kv.subs = << >> /\ kv.events = << >> /\ DOMAIN << >> = {} /\ 1..Len(<< >>) = {}
        BY <1>2 DEF InitialStorage
    <2> QED BY <2>1 DEF DeliveryInv, CallbacksOK, EventsOK, Ids
<1>4. FlowInv
    <2>1. DOMAIN NotStarted = FlowFields /\ NotStarted.pc = "attest" /\ ~NotStarted.pending
        BY DEF NotStarted, FlowFields
    <2> QED BY <1>2, <2>1, FlowWithout DEF FlowInv
<1>5. PageInv
    <2>1. /\ submitting = {} /\ asked = [t \in Requests |-> None]
          /\ polls = [p \in Askers |-> NotAsking] /\ proofResults = {}
        BY DEF DeploymentInit, PageInit
    <2>2. \A t \in Requests : tasks[t].todo = << >>
        <3>1. Rest.todo = << >>
            BY DEF Rest
        <3> QED BY <1>2, <3>1 DEF Tasks
    <2> QED BY <2>1, <2>2, PageOpens DEF PageInv, ResultsOK
<1> QED BY <1>1, <1>3, <1>4, <1>5 DEF DeploymentInv

LEMMA DeploymentKeeps ==
    ASSUME DeploymentInv, [DeploymentNext]_deployment_vars
    PROVE  DeploymentInv'
<1>1. CASE UNCHANGED deployment_vars
    BY <1>1, PageNow, PageOnlyMoves
        DEF deployment_vars, vars, flow_vars, page_vars, server_vars
<1>2. CASE FlowNext /\ UNCHANGED page_vars
    BY <1>2, FlowValuesOK, FlowKeeps
<1>3. CASE PageNext /\ UNCHANGED flow_vars
    BY <1>3, PageKeeps DEF flow_vars
<1> QED BY <1>1, <1>2, <1>3, FlowValuesOK, BackgroundKeeps DEF DeploymentNext

\* The invariant behind the four theorems below.
THEOREM DeploymentInvariant == DeploymentSpec => []DeploymentInv
<1>1. DeploymentInit => DeploymentInv
    BY DeploymentInitially
<1>2. DeploymentInv /\ [DeploymentNext]_deployment_vars => DeploymentInv'
    BY DeploymentKeeps
<1> QED BY <1>1, <1>2, PTL DEF DeploymentSpec

\* A script that ends with "Test Flow Complete!" has had the effect itself, and
\* what it reads of the callback is that effect, once, with the value it proved.
THEOREM CompleteIsRecorded == DeploymentSpec => []CompleteMeansRecorded
<1>1. DeploymentInv => CompleteMeansRecorded
    <2> SUFFICES ASSUME DeploymentInv, flow.pc = "complete" PROVE CompleteMeansRecorded
        BY DEF CompleteMeansRecorded, FlowAt
    <2> QED BY DEF DeploymentInv, FlowInv, FlowOK, IsDelivery, CompleteMeansRecorded
<1> QED BY <1>1, DeploymentInvariant, PTL

\* A script whose proof is refused, though the value meets its condition, comes
\* after someone else's, and the callback has had one event.
THEOREM RefusedIsServed == DeploymentSpec => []RefusedMeansServed
<1>1. DeploymentInv => RefusedMeansServed
    <2> SUFFICES ASSUME DeploymentInv, flow.pc = "refused",
                        EvaluateCondition(kv.subs[flow.id].condition, flow.found.value) = "Ok"
                 PROVE  /\ kv.subs[flow.id].status = "Triggered"
                        /\ Cardinality(DeliveredFor(kv, flow.id)) = 1
        BY DEF RefusedMeansServed, FlowAt
    <2>1. flow.id \in Ids(kv) /\ kv.subs[flow.id].status = "Triggered"
        BY DEF DeploymentInv, FlowInv, FlowOK, IsMine
    <2>2. DOMAIN kv.events = 1..Len(kv.events)
        BY FiledNow, SeqLength DEF Filed
    <2>3. PICK i \in 1..Len(kv.events) : IsDelivery(kv.events[i], flow.id)
        BY <2>1, FiledNow DEF EventsOK
    <2>4. \A j \in 1..Len(kv.events) : IsDelivery(kv.events[j], flow.id) => j = i
        BY <2>1, <2>3, FiledNow DEF EventsOK
    <2>5. DeliveredFor(kv, flow.id) = {i}
        BY <2>2, <2>3, <2>4 DEF DeliveredFor, Delivered, IsDelivery
    <2> QED BY <2>1, <2>5, FS_Singleton
<1> QED BY <1>1, DeploymentInvariant, PTL

\* A transaction the dashboard shows for a subscription is the one that took
\* effect for it, whatever the list, the loop and the script did meanwhile.
THEOREM ShownIsReal == DeploymentSpec => []OutcomeIsReal
<1>1. DeploymentInv => OutcomeIsReal
    <2> SUFFICES ASSUME DeploymentInv, NEW id \in proofResults
                 PROVE  /\ kv.subs[id].status = "Triggered"
                        /\ Cardinality({x \in landed : x.id = id /\ x.res = "Ok"}) = 1
        BY DEF OutcomeIsReal
    <2>1. PICK x \in landed : x.id = id /\ x.res = "Ok"
        BY PageNow DEF ResultsOK
    <2>2. LandedOK(kv, sequence, landed)
        BY DEF DeploymentInv, WatcherInv, HubInv
    <2>3. id \in Ids(kv) /\ kv.subs[id].status # "Active"
        BY <2>1, <2>2 DEF LandedOK
    <2>4. kv.subs[id].status = "Triggered"
        BY <2>3, FiledNow DEF CallbacksOK
    <2>5. {y \in landed : y.id = id /\ y.res = "Ok"} = {x}
        BY <2>1, <2>2 DEF LandedOK
    <2> QED BY <2>4, <2>5, FS_Singleton
<1> QED BY <1>1, DeploymentInvariant, PTL

\* Each button that is off waits for one thing, and one that is on for nothing.
THEOREM OneCallEach == DeploymentSpec => []OneCallPerButton
<1>1. DeploymentInv => OneCallPerButton
    <2> SUFFICES ASSUME DeploymentInv, NEW id \in Identifiers
                 PROVE  Cardinality(Awaited(asked, id))
                            + (IF polls[id].under_way THEN 1 ELSE 0) =
                                IF id \in submitting THEN 1 ELSE 0
        BY DEF OneCallPerButton, Awaited
    <2> DEFINE requests == Awaited(asked, id)
    <2>1. ButtonOK(submitting, asked, polls, id)
        BY PageNow DEF PageOK
    <2>2. CASE requests = {}
        <3>1. Cardinality(requests) = 0
            BY <2>2, FS_EmptySet
        <3> QED BY <2>1, <2>2, <3>1 DEF ButtonOK
    <2>3. CASE requests # {}
        <3>1. PICK t : requests = {t}
            BY <2>1, <2>3 DEF ButtonOK
        <3>2. Cardinality(requests) = 1
            BY <3>1, FS_Singleton
        <3> QED BY <2>1, <2>3, <3>2 DEF ButtonOK
    <2> QED BY <2>2, <2>3
<1> QED BY <1>1, DeploymentInvariant, PTL

-----------------------------------------------------------------------------
(***************************************************************************)
(* The storage of the hub in the installation.                             *)
(***************************************************************************)

\* The script subscribes and submits as anyone may; the page never touches the
\* hub but through the server.
LEMMA StepsOfInstallation ==
    ASSUME Filed(kv), [DeploymentNext]_deployment_vars
    PROVE  HubStep
<1>1. CASE Background
    <2>1. RemoteStep \/ HubBlock \/ Include \/ Tick \/ ListSubscriptions
            \/ Step("loop") \/ CallFails("loop") \/ Flush
        BY <1>1 DEF Background
    <2>2. "loop" \in Tasks
        BY DEF Tasks
    <2> QED BY <2>1, <2>2, StepsOfHub DEF Next
<1>2. ASSUME FlowNext PROVE HubStep
    <2>1. CASE CreateSubscription
        <3> DEFINE m == FlowSubscribeMsg
        <3>1. height' = height /\ kv' = execute_subscribe(kv, Owner, m, height).kv
            BY <2>1 DEF CreateSubscription
        <3>2. m.expires_after_blocks \in Nat \cup {None}
            BY DEF FlowSubscribeMsg
        <3> HIDE DEF m
        <3> QED BY <3>1, <3>2 DEF HubStep, Subscribes
    <2>2. CASE IncludeFlow
        BY <2>2 DEF IncludeFlow, HubStep, Submits
    <2>3. ASSUME \/ WriteAttestation \/ AttestationFound \/ Waited \/ FlowFetchState
                 \/ FlowFetchAppHash \/ FlowSimulate \/ QueryCallbackEvents \/ FlowFails
          PROVE  kv' = kv /\ height' = height
        BY <2>3 DEF WriteAttestation, AttestationFound, Waited, FlowFetchState,
               FlowFetchAppHash, FlowSimulate, QueryCallbackEvents, FlowFails, FlowGoes, hub_vars
    <2> QED BY <1>2, <2>1, <2>2, <2>3 DEF FlowNext, HubStep
<1>3. ASSUME PageNext PROVE kv' = kv /\ height' = height
    <2>1. ASSUME NEW t, \/ FindResult(t) \/ TimeOut(t) \/ FetchState(t) \/ FetchAppHash(t)
                        \/ Simulate(t) \/ Sign(t) \/ Broadcast(t) \/ CallFails(t)
          PROVE  kv' = kv /\ height' = height
        BY <2>1 DEF FetchState, FetchAppHash, Simulate, Sign, Broadcast, FindResult,
               TimeOut, CallFails, Returns, hub_vars
    <2>2. ASSUME NEW t, RequestStep(t) \/ RequestFails(t) PROVE kv' = kv /\ height' = height
        BY <2>1, <2>2 DEF RequestStep, RequestFails
    <2>3. ASSUME NEW t, NEW id, NEW key, ClickSubmit(t, id, key)
          PROVE  kv' = kv /\ height' = height
        BY <2>3 DEF ClickSubmit, StartRequest, Returns, hub_vars
    <2>4. ASSUME NEW p, StatusArrives(p) \/ StatusFails(p)
          PROVE  kv' = kv /\ height' = height
        BY <2>4 DEF StatusArrives, StatusFails, Unchanged, hub_vars
    <2>5. ASSUME FetchStatus \/ ServerRestarts \/ Reopen
          PROVE  kv' = kv /\ height' = height
        BY <2>5 DEF FetchStatus, ServerRestarts, Reopen, Restart, Unchanged, hub_vars
    <2> QED BY <1>3, <2>2, <2>3, <2>4, <2>5 DEF PageNext
<1>4. ASSUME UNCHANGED deployment_vars PROVE kv' = kv /\ height' = height
    BY <1>4 DEF deployment_vars, vars, hub_vars
<1> QED BY <1>1, <1>2, <1>3, <1>4 DEF DeploymentNext, HubStep

\* The whole installation, with everyone after the same subscription, is one more
\* way to use the contract: its storage keeps what OneShotSubscriptions promises.
THEOREM InstallationImplementation == DeploymentSpec => HubKeepsPromise
<1>1. DeploymentInit => EffectsInv /\ Promise!Init
    BY HubInitially DEF DeploymentInit, Init
<1>2. DeploymentInv => Filed(kv)
    BY FiledNow
<1>3. Filed(kv) /\ EffectsInv /\ [DeploymentNext]_deployment_vars => EffectsInv'
    BY StepsOfInstallation, HubStepKeeps DEF HubKept
<1>4. Filed(kv) /\ EffectsInv /\ [DeploymentNext]_deployment_vars
            => [Promise!Next]_(Promise!vars)
    BY StepsOfInstallation, HubStepSimulates
<1> QED BY <1>1, <1>2, <1>3, <1>4, DeploymentInvariant, PTL
        DEF DeploymentSpec, Promise!Spec, HubKeepsPromise

=============================================================================
