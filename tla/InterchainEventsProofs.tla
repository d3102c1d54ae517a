----------------------- MODULE InterchainEventsProofs -----------------------
(***************************************************************************)
(* Proofs that InterchainEvents has the properties its runs check, for     *)
(* every set of messages, every value of the bounds and every width of the *)
(* integers, and that it implements OneShotSubscriptions.                  *)
(*                                                                         *)
(* IInv is inductive: InitIInv and the lemmas below, one for each action,  *)
(* collected in StepKeeps. Every property is a consequence of it.          *)
(*                                                                         *)
(* First come the lemmas about what each handler does to a consistent      *)
(* storage: about pure operators, and about any storage, stack of          *)
(* callbacks and block.                                                    *)
(***************************************************************************)
EXTENDS InterchainEventsInv, SequenceTheorems, FiniteSetTheorems, TLAPS

-----------------------------------------------------------------------------
(***************************************************************************)
(* Well-formedness: the shape of a storage.                                *)
(***************************************************************************)

\* Before anything is stored there is nothing in it.
LEMMA InitialWellFormed ==
    /\ WellFormed(InitialStorage)
    /\ Ids(InitialStorage) = {}
    /\ Delivered(InitialStorage) = {}
BY U64Assumption, EmptySeq DEF WellFormed, InitialStorage, Ids, Delivered

\* Changing the status of a subscription changes nothing else.
LEMMA WithStatusStep ==
    ASSUME NEW k, WellFormed(k), NEW id \in Ids(k), NEW s \in Statuses
    PROVE  LET j == WithStatus(k, id, s)
           IN  /\ WellFormed(j)
               /\ Ids(j) = Ids(k)
               /\ j.next_id = k.next_id
               /\ j.events = k.events
               /\ j.subs[id] = [k.subs[id] EXCEPT !.status = s]
               /\ \A o \in Ids(k) \ {id} : j.subs[o] = k.subs[o]
<1> DEFINE j == WithStatus(k, id, s)
           sub == [k.subs[id] EXCEPT !.status = s]
           subs == Save(k.subs, id, sub)
<1>1. j = [next_id |-> k.next_id, subs |-> subs, events |-> k.events]
    BY DEF WithStatus, WellFormed
<1>2. DOMAIN k.subs = 1..(k.next_id - 1)
    BY DEF WellFormed
<1>3. k.subs[id] \in SubscriptionSet
    BY <1>2 DEF WellFormed, Ids
<1>4. sub \in SubscriptionSet
    BY <1>3 DEF SubscriptionSet
<1>5. DOMAIN subs = DOMAIN k.subs
    BY DEF Save, Ids
<1>6. subs[id] = sub /\ \A o \in Ids(k) \ {id} : subs[o] = k.subs[o]
    BY DEF Save, Ids
<1>7. subs \in [1..(k.next_id - 1) -> SubscriptionSet]
    BY <1>2, <1>4 DEF WellFormed, Save, Ids
<1> HIDE DEF subs, sub
<1>8. WellFormed(j)
    BY <1>1, <1>7 DEF WellFormed
<1> QED BY <1>1, <1>5, <1>6, <1>8 DEF sub, Ids

\* A new subscription takes the next identifier and leaves the others alone.
LEMMA SubscribeStep ==
    ASSUME NEW k, WellFormed(k), NEW sender \in {User, OtherCallback},
           NEW m \in SubscribeMsgs, NEW now \in 0..U64Max,
           SubscribeResult(k, m, now) = "Ok"
    PROVE  LET j == execute_subscribe(k, sender, m, now).kv
               new == Subscription(k.next_id, sender, m, now)
           IN  /\ WellFormed(j)
               /\ Ids(j) = Ids(k) \cup {k.next_id}
               /\ k.next_id \notin Ids(k)
               /\ j.events = k.events
               /\ j.subs[k.next_id] = new
               /\ new.status = "Active" /\ new.id = k.next_id /\ new.created_at = now
               /\ \A o \in Ids(k) : j.subs[o] = k.subs[o]
<1> DEFINE j == execute_subscribe(k, sender, m, now).kv
           new == Subscription(k.next_id, sender, m, now)
           subs == Save(k.subs, k.next_id, new)
<1>1. j = [next_id |-> k.next_id + 1, subs |-> subs, events |-> k.events]
    BY DEF execute_subscribe, WellFormed
<1>2. k.next_id \in 1..U64Max /\ DOMAIN k.subs = 1..(k.next_id - 1)
    BY DEF WellFormed
<1>3. /\ ~Overflows(k.next_id + 1)
      /\ ~(m.expires_after_blocks # None /\ Overflows(ExpiryOf(m, now)))
    BY DEF SubscribeResult
<1>4. k.next_id + 1 \in 1..U64Max
    BY <1>2, <1>3, U64Assumption DEF Overflows
<1>5. ExpiryOf(m, now) \in (0..U64Max) \cup {None}
    BY <1>3, SubscribeMsgsAssumption, U64Assumption DEF ExpiryOf, Overflows
<1>6. new \in SubscriptionSet
    BY <1>2, <1>5 DEF Subscription, SubscriptionSet, Field, Statuses
<1>7. DOMAIN subs = 1..k.next_id
    BY <1>2, U64Assumption DEF Save
<1>8. /\ subs[k.next_id] = new
      /\ \A o \in Ids(k) : subs[o] = k.subs[o]
      /\ k.next_id \notin Ids(k)
    BY <1>2, U64Assumption DEF Save, Ids
<1>9. subs \in [1..(k.next_id + 1 - 1) -> SubscriptionSet]
    <2>1. \A o \in Ids(k) : k.subs[o] \in SubscriptionSet
        BY <1>2 DEF WellFormed, Ids
    <2>2. \A o \in 1..k.next_id : o = k.next_id \/ o \in Ids(k)
        BY <1>2, U64Assumption DEF Ids
    <2>3. \A o \in 1..k.next_id : subs[o] \in SubscriptionSet
        BY <2>1, <2>2, <1>6, <1>8
    <2>4. subs = [o \in 1..k.next_id |-> subs[o]]
        BY <1>7 DEF Save
    <2>5. k.next_id + 1 - 1 = k.next_id
        BY <1>2, U64Assumption
    <2> HIDE DEF subs
    <2> QED BY <2>3, <2>4, <2>5
<1>10. new.status = "Active" /\ new.id = k.next_id /\ new.created_at = now
    BY DEF Subscription
<1> HIDE DEF subs, new
<1>11. WellFormed(j)
    BY <1>1, <1>4, <1>9 DEF WellFormed
<1>12. Ids(j) = Ids(k) \cup {k.next_id}
    BY <1>1, <1>2, <1>7, U64Assumption DEF Ids
<1> QED BY <1>1, <1>8, <1>10, <1>11, <1>12 DEF new

\* A call of proof-callback puts one event after the others.
LEMMA EventStep ==
    ASSUME NEW k, WellFormed(k), NEW caller \in {Self, User, OtherCallback},
           NEW id \in 1..U64Max, NEW text \in Texts, NEW now \in 0..U64Max
    PROVE  LET j == execute_interchain_event(k, caller, id, text, now)
               last == Len(k.events) + 1
           IN  /\ WellFormed(j)
               /\ j.subs = k.subs
               /\ DOMAIN j.events = DOMAIN k.events \cup {last}
               /\ last \notin DOMAIN k.events
               /\ j.events[last] = [caller |-> caller, block_height |-> now,
                                    subscription_id |-> id, proven_value |-> text]
               /\ \A i \in DOMAIN k.events : j.events[i] = k.events[i]
<1> DEFINE e == [caller |-> caller, block_height |-> now,
                 subscription_id |-> id, proven_value |-> text]
           j == execute_interchain_event(k, caller, id, text, now)
<1>1. e \in EventSet
    BY DEF EventSet
<1>2. j = [next_id |-> k.next_id, subs |-> k.subs, events |-> Append(k.events, e)]
    <2>1. k = [next_id |-> k.next_id, subs |-> k.subs, events |-> k.events]
        BY DEF WellFormed
    <2>2. j = [k EXCEPT !.events = Append(k.events, e)]
        BY DEF execute_interchain_event
    <2> QED BY <2>1, <2>2
<1>3. k.events \in Seq(EventSet)
    BY DEF WellFormed
<1> HIDE DEF e
<1>4. /\ Append(k.events, e) \in Seq(EventSet)
      /\ Len(Append(k.events, e)) = Len(k.events) + 1
      /\ Append(k.events, e)[Len(k.events) + 1] = e
      /\ \A i \in 1..Len(k.events) : Append(k.events, e)[i] = k.events[i]
    BY <1>1, <1>3, AppendProperties
<1>5. /\ DOMAIN k.events = 1..Len(k.events)
      /\ Len(k.events) \in Nat
      /\ DOMAIN Append(k.events, e) = 1..(Len(k.events) + 1)
    BY <1>3, <1>4, LenProperties
<1>6. WellFormed(j)
    BY <1>2, <1>4 DEF WellFormed
<1> QED BY <1>2, <1>4, <1>5, <1>6 DEF e

-----------------------------------------------------------------------------
(***************************************************************************)
(* Sequences of frames.                                                    *)
(***************************************************************************)

\* A callback that starts is put on top of the others.
LEMMA PushFrame ==
    ASSUME NEW s, IsSeq(s), NEW f
    PROVE  LET t == Append(s, f)
           IN  /\ IsSeq(t)
               /\ Len(s) \in Nat /\ DOMAIN s = 1..Len(s)
               /\ Len(t) = Len(s) + 1
               /\ t[Len(s) + 1] = f
               /\ \A i \in 1..Len(s) : t[i] = s[i]
<1> DEFINE S == {s[i] : i \in DOMAIN s}
           t == Append(s, f)
<1>1. s \in Seq(S \cup {f})
    BY SeqMonotonic DEF IsSeq
<1>2. /\ t \in Seq(S \cup {f})
      /\ Len(t) = Len(s) + 1
      /\ t[Len(s) + 1] = f
      /\ \A i \in 1..Len(s) : t[i] = s[i]
    BY <1>1, AppendProperties
<1>3. Len(s) \in Nat /\ DOMAIN s = 1..Len(s)
    BY <1>1, LenProperties
<1>4. Len(t) \in Nat /\ t \in [1..Len(t) -> S \cup {f}] /\ DOMAIN t = 1..Len(t)
    BY <1>2, LenProperties
<1> HIDE DEF S, t
<1>5. t \in [1..Len(t) -> {t[i] : i \in DOMAIN t}]
    BY <1>4
<1>6. IsSeq(t)
    BY <1>4, <1>5 DEF IsSeq
<1> QED BY <1>2, <1>3, <1>6 DEF t

\* A callback that ends is taken off the top.
LEMMA PopFrame ==
    ASSUME NEW s, IsSeq(s), s # << >>
    PROVE  LET t == SubSeq(s, 1, Len(s) - 1)
           IN  /\ IsSeq(t)
               /\ Len(s) \in Nat \ {0} /\ DOMAIN s = 1..Len(s)
               /\ Len(t) = Len(s) - 1
               /\ \A i \in 1..Len(t) : t[i] = s[i]
<1> DEFINE S == {s[i] : i \in DOMAIN s}
           t == SubSeq(s, 1, Len(s) - 1)
<1>1. s \in Seq(S)
    BY DEF IsSeq
<1>2. Len(s) \in Nat \ {0} /\ DOMAIN s = 1..Len(s) /\ Len(s) - 1 \in Int
    BY <1>1, LenProperties, EmptySeq
<1>3. \A i \in 1..(Len(s) - 1) : s[i] \in S
    BY <1>2
<1> HIDE DEF S
<1>4. /\ t \in Seq(S)
      /\ Len(t) = IF 1 <= Len(s) - 1 THEN Len(s) - 1 - 1 + 1 ELSE 0
      /\ \A i \in 1..(Len(s) - 1 - 1 + 1) : t[i] = s[1 + i - 1]
    BY <1>2, <1>3, SubSeqProperties
<1>5. Len(t) = Len(s) - 1
    BY <1>2, <1>4
<1>6. \A i \in 1..Len(t) : t[i] = s[i]
    BY <1>2, <1>4, <1>5
<1>7. Len(t) \in Nat /\ t \in [1..Len(t) -> S] /\ DOMAIN t = 1..Len(t)
    BY <1>4, LenProperties
<1> HIDE DEF t
<1>8. t \in [1..Len(t) -> {t[i] : i \in DOMAIN t}]
    BY <1>7
<1>9. IsSeq(t)
    BY <1>7, <1>8 DEF IsSeq
<1> QED BY <1>2, <1>5, <1>6, <1>9 DEF t

-----------------------------------------------------------------------------
(***************************************************************************)
(* Consistency, handler by handler.                                        *)
(***************************************************************************)

\* Whether a proof meets a subscription does not depend on its status.
LEMMA MetStatus ==
    ASSUME NEW sub \in SubscriptionSet, NEW s, NEW now, NEW text
    PROVE  Met([sub EXCEPT !.status = s], now, text) <=> Met(sub, now, text)
<1> DEFINE new == [sub EXCEPT !.status = s]
<1>1. /\ new.expires_at = sub.expires_at /\ new.created_at = sub.created_at
      /\ new.watch_key = sub.watch_key /\ new.key_path = sub.key_path
      /\ new.condition = sub.condition
    BY DEF SubscriptionSet
<1> HIDE DEF new
<1>2. \A p : ProofResult(new, p) = ProofResult(sub, p)
    BY <1>1 DEF ProofResult
<1> QED BY <1>1, <1>2 DEF Met, new

\* Consistency speaks only of the first n frames of a stack.
LEMMA ConsistentFrames ==
    ASSUME NEW k, NEW st, NEW t, NEW n \in Nat, NEW now,
           Consistent(k, st, n, now), \A i \in 1..n : t[i] = st[i]
    PROVE  Consistent(k, t, n, now)
BY DEF Consistent

\* An empty storage is consistent with no callback under way.
LEMMA InitialConsistent ==
    ASSUME NEW st, NEW now
    PROVE  Consistent(InitialStorage, st, 0, now)
BY InitialWellFormed DEF Consistent

\* Outside a transaction a block may pass.
LEMMA ConsistentLater ==
    ASSUME NEW k, NEW st, NEW now \in Nat, Consistent(k, st, 0, now)
    PROVE  Consistent(k, st, 0, now + 1)
<1>1. \A id \in Ids(k) : k.subs[id].created_at \in Nat
    BY U64Assumption DEF Consistent, WellFormed, Ids, SubscriptionSet
<1>2. \A id \in Ids(k) : EntryOK(k, id, now + 1)
    BY <1>1 DEF Consistent, EntryOK
<1> QED BY <1>2 DEF Consistent

\* The events of a storage alone say what was delivered.
LEMMA SameEvents ==
    ASSUME NEW k, NEW j, j.events = k.events
    PROVE  /\ Delivered(j) = Delivered(k)
           /\ \A id : DeliveredFor(j, id) = DeliveredFor(k, id)
BY DEF Delivered, DeliveredFor

\* Subscribing: the new subscription is Active, so nothing is asked of it.
LEMMA ConsistentSubscribe ==
    ASSUME NEW k, NEW st, NEW n \in Nat, NEW now \in 0..U64Max,
           Consistent(k, st, n, now),
           NEW sender \in {User, OtherCallback}, NEW m \in SubscribeMsgs,
           SubscribeResult(k, m, now) = "Ok"
    PROVE  Consistent(execute_subscribe(k, sender, m, now).kv, st, n, now)
<1> DEFINE j == execute_subscribe(k, sender, m, now).kv
           new == Subscription(k.next_id, sender, m, now)
<1>1. /\ WellFormed(j)
      /\ Ids(j) = Ids(k) \cup {k.next_id}
      /\ k.next_id \notin Ids(k)
      /\ j.events = k.events
      /\ j.subs[k.next_id] = new
      /\ new.status = "Active" /\ new.id = k.next_id /\ new.created_at = now
      /\ \A o \in Ids(k) : j.subs[o] = k.subs[o]
    BY SubscribeStep DEF Consistent
<1> HIDE DEF j, new
<1>2. Delivered(j) = Delivered(k) /\ \A o : DeliveredFor(j, o) = DeliveredFor(k, o)
    BY <1>1, SameEvents
<1>3. \A o \in Ids(j) : EntryOK(j, o, now)
    <2>1. \A o \in Ids(k) : EntryOK(j, o, now)
        BY <1>1 DEF Consistent, EntryOK
    <2>2. EntryOK(j, k.next_id, now)
        BY <1>1, U64Assumption DEF EntryOK
    <2> QED BY <1>1, <2>1, <2>2
<1>4. \A i \in 1..n : Pending(j, st[i], now)
    BY <1>1, <1>2 DEF Consistent, Pending
<1>5. \A o \in Ids(j) : j.subs[o].status = "Triggered" =>
            \/ \E i \in 1..n : st[i].id = o
            \/ DeliveredFor(j, o) # {}
    BY <1>1, <1>2 DEF Consistent
<1>6. \A a \in Delivered(j) : EventOK(j, a)
    BY <1>1, <1>2 DEF Consistent, EventOK
<1>7. \A a, b \in Delivered(j) :
            j.events[a].subscription_id = j.events[b].subscription_id => a = b
    BY <1>1, <1>2 DEF Consistent
<1> QED BY <1>1, <1>3, <1>4, <1>5, <1>6, <1>7 DEF Consistent, j

\* Accepting a proof: the subscription is marked, and its callback is the one
\* frame more. None of the callbacks under way was of that subscription.
LEMMA ConsistentAccept ==
    ASSUME NEW k, NEW st, NEW now \in 0..U64Max, IsSeq(st),
           Consistent(k, st, Len(st), now), NEW id, NEW p \in ProofMsgs,
           SubmitResult(k, id, p, now) = "Ok", NEW j, NEW frame,
           j = WithStatus(k, id, "Triggered"),
           frame.id = id, frame.callback = k.subs[id].callback_contract,
           frame.proven_value = from_utf8_lossy(p.value)
    PROVE  /\ Consistent(j, Append(st, frame), Len(st) + 1, now)
           /\ \A i \in 1..Len(st) : st[i].id # id
<1> DEFINE n == Len(st)
           t == Append(st, frame)
<1>1. /\ n \in Nat /\ t[n + 1] = frame
      /\ \A i \in 1..n : t[i] = st[i]
    BY PushFrame
<1>2. /\ id \in Ids(k) /\ k.subs[id].status = "Active"
      /\ ~Expired(k.subs[id], now) /\ ProofResult(k.subs[id], p) = "Ok"
    BY DEF SubmitResult
<1>3. /\ WellFormed(j) /\ Ids(j) = Ids(k) /\ j.events = k.events
      /\ j.subs[id] = [k.subs[id] EXCEPT !.status = "Triggered"]
      /\ \A o \in Ids(k) \ {id} : j.subs[o] = k.subs[o]
    <2>1. WellFormed(k) /\ "Triggered" \in Statuses
        BY DEF Consistent, Statuses
    <2> QED BY <1>2, <2>1, WithStatusStep
<1>4. \A o \in Ids(k) : k.subs[o] \in SubscriptionSet
    BY DEF Consistent, WellFormed, Ids
<1>5. /\ j.subs[id].status = "Triggered" /\ j.subs[id].id = k.subs[id].id
      /\ j.subs[id].created_at = k.subs[id].created_at
      /\ j.subs[id].callback_contract = k.subs[id].callback_contract
    BY <1>2, <1>3, <1>4 DEF SubscriptionSet
<1>6. Delivered(j) = Delivered(k) /\ \A o : DeliveredFor(j, o) = DeliveredFor(k, o)
    BY <1>3, SameEvents
<1>7. \A i \in 1..n : st[i].id # id
    BY <1>2 DEF Consistent, Pending
<1>8. \A o \in Ids(j) : EntryOK(j, o, now)
    BY <1>2, <1>3, <1>5 DEF Consistent, EntryOK
<1>9. \A i \in 1..n : Pending(j, t[i], now)
    <2> SUFFICES ASSUME NEW i \in 1..n PROVE Pending(j, st[i], now)
        BY <1>1
    <2>1. Pending(k, st[i], now)
        BY DEF Consistent
    <2>2. st[i].id \in Ids(k) \ {id}
        BY <1>7, <2>1 DEF Pending
    <2> QED BY <1>3, <1>6, <2>1, <2>2 DEF Pending
<1>10. DeliveredFor(j, id) = {}
    BY <1>2, <1>6 DEF Consistent, EventOK, DeliveredFor
<1>11. Met(j.subs[id], now, from_utf8_lossy(p.value))
    <2>1. k.subs[id].expires_at \in Nat \cup {None}
        BY <1>2, <1>4, U64Assumption DEF SubscriptionSet
    <2>2. Met(k.subs[id], now, from_utf8_lossy(p.value))
        BY <1>2, <2>1 DEF Consistent, EntryOK, Met, Expired
    <2>3. Met([k.subs[id] EXCEPT !.status = "Triggered"], now, from_utf8_lossy(p.value))
        BY <1>2, <1>4, <2>2, MetStatus
    <2> QED BY <1>3, <2>3
<1>12. Pending(j, t[n + 1], now)
    BY <1>1, <1>2, <1>3, <1>5, <1>10, <1>11 DEF Pending
<1>13. \A o \in Ids(j) : j.subs[o].status = "Triggered" =>
            \/ \E i \in 1..(n + 1) : t[i].id = o
            \/ DeliveredFor(j, o) # {}
    <2> SUFFICES ASSUME NEW o \in Ids(j), j.subs[o].status = "Triggered",
                        DeliveredFor(j, o) = {}
                 PROVE  \E i \in 1..(n + 1) : t[i].id = o
        OBVIOUS
    <2>1. CASE o = id
        BY <1>1, <2>1
    <2>2. CASE o # id
        <3>1. PICK i \in 1..n : st[i].id = o
            BY <1>3, <1>6, <2>2 DEF Consistent
        <3>2. i \in 1..(n + 1) /\ t[i].id = o
            BY <1>1, <3>1
        <3> QED BY <3>2
    <2> QED BY <2>1, <2>2
<1>14. \A a \in Delivered(j) : EventOK(j, a)
    <2> SUFFICES ASSUME NEW a \in Delivered(j) PROVE EventOK(j, a)
        OBVIOUS
    <2>1. EventOK(k, a)
        BY <1>6 DEF Consistent
    <2>2. k.events[a].subscription_id # id
        BY <1>2, <2>1 DEF EventOK
    <2> QED BY <1>3, <2>1, <2>2 DEF EventOK
<1>15. \A a, b \in Delivered(j) :
            j.events[a].subscription_id = j.events[b].subscription_id => a = b
    BY <1>3, <1>6 DEF Consistent
<1>16. \A i \in 1..(n + 1) : Pending(j, t[i], now)
    BY <1>1, <1>9, <1>12
<1> QED BY <1>3, <1>7, <1>8, <1>13, <1>14, <1>15, <1>16 DEF Consistent

\* A call of proof-callback by someone else delivers nothing.
LEMMA ConsistentForge ==
    ASSUME NEW k, NEW st, NEW n \in Nat, NEW now \in 0..U64Max,
           Consistent(k, st, n, now), NEW caller \in {User, OtherCallback},
           NEW id \in 1..U64Max, NEW text \in Texts
    PROVE  Consistent(execute_interchain_event(k, caller, id, text, now), st, n, now)
<1> DEFINE j == execute_interchain_event(k, caller, id, text, now)
           last == Len(k.events) + 1
<1>1. /\ WellFormed(j) /\ j.subs = k.subs
      /\ DOMAIN j.events = DOMAIN k.events \cup {last}
      /\ last \notin DOMAIN k.events
      /\ j.events[last].caller = caller
      /\ \A i \in DOMAIN k.events : j.events[i] = k.events[i]
    <2>1. WellFormed(k) /\ caller \in {Self, User, OtherCallback}
        BY DEF Consistent
    <2>2. /\ WellFormed(j) /\ j.subs = k.subs
          /\ DOMAIN j.events = DOMAIN k.events \cup {last}
          /\ last \notin DOMAIN k.events
          /\ j.events[last] = [caller |-> caller, block_height |-> now,
                               subscription_id |-> id, proven_value |-> text]
          /\ \A i \in DOMAIN k.events : j.events[i] = k.events[i]
        BY <2>1, EventStep
    <2> QED BY <2>2
<1> HIDE DEF j, last
<1>2. caller # Self
    BY AddressAssumption
<1>3. Delivered(j) = Delivered(k)
    BY <1>1, <1>2 DEF Delivered
<1>4. \A o : DeliveredFor(j, o) = DeliveredFor(k, o)
    BY <1>1, <1>3 DEF DeliveredFor, Delivered
<1>5. Ids(j) = Ids(k)
    BY <1>1 DEF Ids
<1>6. \A a \in Delivered(k) : j.events[a] = k.events[a]
    BY <1>1 DEF Delivered
<1>7. \A o \in Ids(j) : EntryOK(j, o, now)
    BY <1>1, <1>5 DEF Consistent, EntryOK
<1>8. \A i \in 1..n : Pending(j, st[i], now)
    BY <1>1, <1>4, <1>5 DEF Consistent, Pending
<1>9. \A a \in Delivered(j) : EventOK(j, a)
    BY <1>1, <1>3, <1>5, <1>6 DEF Consistent, EventOK
<1>10. /\ \A o \in Ids(j) : j.subs[o].status = "Triggered" =>
            \/ \E i \in 1..n : st[i].id = o
            \/ DeliveredFor(j, o) # {}
       /\ \A a, b \in Delivered(j) :
            j.events[a].subscription_id = j.events[b].subscription_id => a = b
    BY <1>1, <1>3, <1>4, <1>5, <1>6 DEF Consistent
<1> QED BY <1>1, <1>7, <1>8, <1>9, <1>10 DEF Consistent, j

\* The innermost callback succeeds: its subscription was pending and now is the
\* one the last event is for.
LEMMA ConsistentDeliver ==
    ASSUME NEW k, NEW st, NEW now \in 0..U64Max, IsSeq(st), st # << >>,
           Consistent(k, st, Len(st), now),
           \A a, b \in 1..Len(st) : st[a].id = st[b].id => a = b,
           st[Len(st)].proven_value \in Texts
    PROVE  Consistent(execute_interchain_event(k, Self, st[Len(st)].id,
                                               st[Len(st)].proven_value, now),
                      SubSeq(st, 1, Len(st) - 1), Len(st) - 1, now)
<1> DEFINE n == Len(st)
           t == SubSeq(st, 1, n - 1)
           top == st[n]
           j == execute_interchain_event(k, Self, top.id, top.proven_value, now)
           last == Len(k.events) + 1
<1>1. n \in Nat \ {0} /\ n - 1 \in Nat /\ \A i \in 1..(n - 1) : t[i] = st[i]
    BY PopFrame
<1>2. Pending(k, top, now)
    BY <1>1 DEF Consistent
<1>3. top.id \in 1..U64Max
    BY <1>2, U64Assumption DEF Pending, Consistent, WellFormed, Ids
<1>4. /\ WellFormed(j) /\ j.subs = k.subs
      /\ DOMAIN j.events = DOMAIN k.events \cup {last}
      /\ last \notin DOMAIN k.events
      /\ j.events[last] = [caller |-> Self, block_height |-> now,
                           subscription_id |-> top.id, proven_value |-> top.proven_value]
      /\ \A i \in DOMAIN k.events : j.events[i] = k.events[i]
    <2>1. WellFormed(k) /\ Self \in {Self, User, OtherCallback}
        BY DEF Consistent
    <2> QED BY <1>3, <2>1, EventStep
<1> HIDE DEF j, last, top, t
<1>5. /\ j.events[last].caller = Self /\ j.events[last].block_height = now
      /\ j.events[last].subscription_id = top.id
      /\ j.events[last].proven_value = top.proven_value
    BY <1>4
<1>6. Ids(j) = Ids(k)
    BY <1>4 DEF Ids
<1>7. Delivered(j) = Delivered(k) \cup {last} /\ last \notin Delivered(k)
    BY <1>4, <1>5 DEF Delivered
<1>8. \A a \in Delivered(k) : j.events[a] = k.events[a]
    BY <1>4 DEF Delivered
<1>9. /\ last \in DeliveredFor(j, top.id)
      /\ \A o : o # top.id => DeliveredFor(j, o) = DeliveredFor(k, o)
    BY <1>5, <1>7, <1>8 DEF DeliveredFor
<1>10. \A a \in Delivered(k) : k.events[a].subscription_id # top.id
    BY <1>2 DEF Pending, DeliveredFor
<1>11. \A o \in Ids(j) : EntryOK(j, o, now)
    BY <1>4, <1>6 DEF Consistent, EntryOK
<1>12. \A i \in 1..(n - 1) : Pending(j, t[i], now)
    <2> SUFFICES ASSUME NEW i \in 1..(n - 1) PROVE Pending(j, st[i], now)
        BY <1>1
    <2>1. i \in 1..n /\ i # n
        BY <1>1
    <2>2. Pending(k, st[i], now) /\ st[i].id # top.id
        BY <1>1, <2>1 DEF Consistent, top
    <2> QED BY <1>4, <1>6, <1>9, <2>2 DEF Pending
<1>13. \A o \in Ids(j) : j.subs[o].status = "Triggered" =>
            \/ \E i \in 1..(n - 1) : t[i].id = o
            \/ DeliveredFor(j, o) # {}
    <2> SUFFICES ASSUME NEW o \in Ids(k), k.subs[o].status = "Triggered",
                        o # top.id, DeliveredFor(k, o) = {}
                 PROVE  \E i \in 1..(n - 1) : t[i].id = o
        BY <1>4, <1>6, <1>9
    <2>1. PICK i \in 1..n : st[i].id = o
        BY DEF Consistent
    <2>2. i \in 1..(n - 1)
        BY <1>1, <2>1 DEF top
    <2> QED BY <1>1, <2>1, <2>2
<1>14. \A a \in Delivered(j) : EventOK(j, a)
    <2>1. \A a \in Delivered(k) : EventOK(j, a)
        BY <1>4, <1>6, <1>8 DEF Consistent, EventOK
    <2>2. EventOK(j, last)
        BY <1>2, <1>4, <1>5, <1>6 DEF EventOK, Pending
    <2> QED BY <1>7, <2>1, <2>2
<1>15. \A a, b \in Delivered(j) :
            j.events[a].subscription_id = j.events[b].subscription_id => a = b
    BY <1>5, <1>7, <1>8, <1>10 DEF Consistent
<1> QED BY <1>4, <1>11, <1>12, <1>13, <1>14, <1>15 DEF Consistent, j, t, top

\* The innermost callback fails: in the storage rolled back to, its subscription
\* becomes Failed and nothing is pending for it.
LEMMA ConsistentReply ==
    ASSUME NEW k, NEW st, NEW now \in 0..U64Max, IsSeq(st), st # << >>,
           Consistent(k, st, Len(st), now),
           \A a, b \in 1..Len(st) : st[a].id = st[b].id => a = b
    PROVE  Consistent(reply(k, st[Len(st)].id),
                      SubSeq(st, 1, Len(st) - 1), Len(st) - 1, now)
<1> DEFINE n == Len(st)
           t == SubSeq(st, 1, n - 1)
           id == st[n].id
           j == reply(k, id)
<1>1. n \in Nat \ {0} /\ n - 1 \in Nat /\ \A i \in 1..(n - 1) : t[i] = st[i]
    BY PopFrame
<1>2. Pending(k, st[n], now)
    BY <1>1 DEF Consistent
<1>3. id \in Ids(k)
    BY <1>2 DEF Pending
<1>4. /\ WellFormed(j) /\ Ids(j) = Ids(k) /\ j.events = k.events
      /\ j.subs[id] = [k.subs[id] EXCEPT !.status = "Failed"]
      /\ \A o \in Ids(k) \ {id} : j.subs[o] = k.subs[o]
    <2>1. WellFormed(k) /\ "Failed" \in Statuses
        BY DEF Consistent, Statuses
    <2>2. j = WithStatus(k, id, "Failed")
        BY DEF reply
    <2> HIDE DEF id, j
    <2> QED BY <1>3, <2>1, <2>2, WithStatusStep
<1>5. k.subs[id] \in SubscriptionSet
    BY <1>3 DEF Consistent, WellFormed, Ids
<1> HIDE DEF j, t
<1>6. /\ j.subs[id].status = "Failed" /\ j.subs[id].id = k.subs[id].id
      /\ j.subs[id].created_at = k.subs[id].created_at
    BY <1>4, <1>5 DEF SubscriptionSet
<1>7. Delivered(j) = Delivered(k) /\ \A o : DeliveredFor(j, o) = DeliveredFor(k, o)
    BY <1>4, SameEvents
<1>8. DeliveredFor(k, id) = {}
    BY <1>2 DEF Pending
<1>9. \A o \in Ids(j) : EntryOK(j, o, now)
    BY <1>3, <1>4, <1>6 DEF Consistent, EntryOK
<1>10. \A i \in 1..(n - 1) : Pending(j, t[i], now)
    <2> SUFFICES ASSUME NEW i \in 1..(n - 1) PROVE Pending(j, st[i], now)
        BY <1>1
    <2>1. i \in 1..n /\ i # n
        BY <1>1
    <2>2. Pending(k, st[i], now) /\ st[i].id # id
        BY <1>1, <2>1 DEF Consistent
    <2>3. st[i].id \in Ids(k) \ {id}
        BY <2>2 DEF Pending
    <2> QED BY <1>4, <1>7, <2>2, <2>3 DEF Pending
<1>11. \A o \in Ids(j) : j.subs[o].status = "Triggered" =>
            \/ \E i \in 1..(n - 1) : t[i].id = o
            \/ DeliveredFor(j, o) # {}
    <2> SUFFICES ASSUME NEW o \in Ids(k), j.subs[o].status = "Triggered",
                        DeliveredFor(k, o) = {}
                 PROVE  \E i \in 1..(n - 1) : t[i].id = o
        BY <1>4, <1>7
    <2>1. o # id /\ k.subs[o].status = "Triggered"
        BY <1>4, <1>6
    <2>2. PICK i \in 1..n : st[i].id = o
        BY <2>1 DEF Consistent
    <2>3. i \in 1..(n - 1)
        BY <1>1, <2>1, <2>2
    <2> QED BY <1>1, <2>2, <2>3
<1>12. \A a \in Delivered(j) : EventOK(j, a)
    <2> SUFFICES ASSUME NEW a \in Delivered(k) PROVE EventOK(j, a)
        BY <1>7
    <2>1. EventOK(k, a)
        BY DEF Consistent
    <2>2. k.events[a].subscription_id # id
        BY <1>8 DEF DeliveredFor
    <2>3. k.events[a].subscription_id \in Ids(k) \ {id}
        BY <2>1, <2>2 DEF EventOK
    <2> QED BY <1>4, <2>1, <2>3 DEF EventOK
<1>13. \A a, b \in Delivered(j) :
            j.events[a].subscription_id = j.events[b].subscription_id => a = b
    BY <1>4, <1>7 DEF Consistent
<1> QED BY <1>4, <1>9, <1>10, <1>11, <1>12, <1>13 DEF Consistent, j, t

-----------------------------------------------------------------------------
(***************************************************************************)
(* What a transaction does to the subscriptions that were there before.    *)
(***************************************************************************)

\* A transaction that has done nothing.
LEMMA EvolvedNothing ==
    ASSUME NEW k, WellFormed(k), NEW now
    PROVE  Evolved(k, k, now)
<1>1. \A id \in Ids(k) : k.subs[id] \in SubscriptionSet
    BY DEF WellFormed, Ids
<1>2. \A id \in Ids(k) : SameOrDecided(k.subs[id], k.subs[id])
    <2> SUFFICES ASSUME NEW id \in Ids(k), k.subs[id].status = "Active"
                 PROVE  \E s \in Statuses : k.subs[id] = [k.subs[id] EXCEPT !.status = s]
        BY DEF SameOrDecided
    <2>1. k.subs[id] = [k.subs[id] EXCEPT !.status = "Active"]
        BY <1>1 DEF SubscriptionSet
    <2> QED BY <2>1 DEF Statuses
<1> QED BY <1>2 DEF Evolved

\* Only the subscriptions matter.
LEMMA EvolvedSameSubs ==
    ASSUME NEW old, NEW k, NEW j, NEW now, Evolved(old, k, now), j.subs = k.subs
    PROVE  Evolved(old, j, now)
BY DEF Evolved, Ids

\* Subscribing adds one that is Active.
LEMMA EvolvedSubscribe ==
    ASSUME NEW old, NEW k, WellFormed(k), NEW now \in 0..U64Max, Evolved(old, k, now),
           NEW sender \in {User, OtherCallback}, NEW m \in SubscribeMsgs,
           SubscribeResult(k, m, now) = "Ok"
    PROVE  Evolved(old, execute_subscribe(k, sender, m, now).kv, now)
<1> DEFINE j == execute_subscribe(k, sender, m, now).kv
<1>1. /\ Ids(j) = Ids(k) \cup {k.next_id}
      /\ k.next_id \notin Ids(k)
      /\ j.subs[k.next_id].status = "Active"
      /\ \A o \in Ids(k) : j.subs[o] = k.subs[o]
    BY SubscribeStep
<1> HIDE DEF j
<1> QED BY <1>1 DEF Evolved, j

\* A decision changes the status of one that was Active when the transaction
\* began, or was not there yet, and is in time.
LEMMA EvolvedWithStatus ==
    ASSUME NEW old, NEW k, WellFormed(k), WellFormed(old), NEW now, Evolved(old, k, now),
           NEW id \in Ids(k), NEW s \in Statuses,
           id \in Ids(old) => old.subs[id].status = "Active",
           ~Expired(k.subs[id], now)
    PROVE  Evolved(old, WithStatus(k, id, s), now)
<1> DEFINE j == WithStatus(k, id, s)
<1>1. /\ Ids(j) = Ids(k)
      /\ j.subs[id] = [k.subs[id] EXCEPT !.status = s]
      /\ \A o \in Ids(k) \ {id} : j.subs[o] = k.subs[o]
    BY WithStatusStep
<1>2. k.subs[id] \in SubscriptionSet
    BY DEF WellFormed, Ids
<1> HIDE DEF j
<1>3. ~Expired(j.subs[id], now)
    <2>1. /\ j.subs[id].expires_at = k.subs[id].expires_at
        BY <1>1, <1>2 DEF SubscriptionSet
    <2> QED BY <2>1 DEF Expired
<1>4. ASSUME id \in Ids(old)
      PROVE  SameOrDecided(old.subs[id], j.subs[id])
    <2>1. old.subs[id].status = "Active" /\ old.subs[id] \in SubscriptionSet
        BY <1>4 DEF WellFormed, Ids
    <2>2. PICK r \in Statuses : k.subs[id] = [old.subs[id] EXCEPT !.status = r]
        BY <1>4, <2>1 DEF Evolved, SameOrDecided
    <2>3. j.subs[id] = [old.subs[id] EXCEPT !.status = s]
        BY <1>1, <2>1, <2>2 DEF SubscriptionSet
    <2> QED BY <2>1, <2>3 DEF SameOrDecided
<1>5. \A o \in Ids(old) : o \in Ids(j) /\ SameOrDecided(old.subs[o], j.subs[o])
    BY <1>1, <1>4 DEF Evolved
<1>6. \A o \in Ids(j) : j.subs[o].status # "Active" =>
            \/ o \in Ids(old) /\ old.subs[o].status # "Active"
            \/ ~Expired(j.subs[o], now)
    BY <1>1, <1>3 DEF Evolved
<1> QED BY <1>5, <1>6 DEF Evolved, j

-----------------------------------------------------------------------------
(***************************************************************************)
(* The inductive invariant.                                                *)
(***************************************************************************)

\* It holds before the first transaction.
LEMMA InitIInv == Init => IInv
<1> SUFFICES ASSUME Init PROVE IInv
    OBVIOUS
<1> USE DEF Init
<1>1. height \in 1..MaxHeight /\ 0 <= MaxDepth
    BY BoundsAssumption
<1>2. Len(stack) = 0 /\ IsSeq(stack)
    BY EmptySeq DEF IsSeq
<1>3. \A st, now : Consistent(InitialStorage, st, 0, now)
    BY InitialConsistent
<1>4. Evolved(committed, kv, height)
    BY InitialWellFormed, EvolvedNothing
<1>5. 1..Len(stack) = {}
    BY <1>2
<1> QED BY <1>1, <1>2, <1>3, <1>4, <1>5 DEF IInv

\* Facts about the block, the running message and its sender.
LEMMA Context ==
    ASSUME IInv
    PROVE  /\ height \in 0..U64Max /\ height \in Nat
           /\ Len(stack) \in Nat /\ DOMAIN stack = 1..Len(stack)
           /\ Idle <=> Len(stack) = 0
           /\ WellFormed(kv) /\ WellFormed(committed)
           /\ MaySend => Sender \in {User, OtherCallback}
           /\ \A i \in 1..Len(stack) : WellFormed(stack[i].saved)
<1>1. height \in 0..U64Max /\ height \in Nat
    BY BoundsAssumption, U64Assumption DEF IInv
<1>2. /\ Len(stack) \in Nat /\ DOMAIN stack = 1..Len(stack)
      /\ Idle <=> Len(stack) = 0
    <2>1. stack \in Seq({stack[i] : i \in DOMAIN stack})
        BY DEF IInv, IsSeq
    <2> QED BY <2>1, LenProperties, EmptySeq DEF Idle
<1>3. WellFormed(kv) /\ WellFormed(committed)
    BY DEF IInv, Consistent
<1>4. \A i \in 1..Len(stack) : WellFormed(stack[i].saved)
    BY DEF IInv, Consistent
<1>5. MaySend => Sender \in {User, OtherCallback}
    BY DEF MaySend, Sender
<1> QED BY <1>1, <1>2, <1>3, <1>4, <1>5

\* A message that starts and ends no callback: it is enough that the storage it
\* leaves is consistent and has evolved from what is committed.
LEMMA MessageKeepsIInv ==
    ASSUME IInv, Consistent(kv', stack, Len(stack), height),
           Evolved(committed, kv', height), CommitIf(Idle),
           UNCHANGED << height, stack >>
    PROVE  IInv'
<1>1. CASE ~Idle
    BY <1>1 DEF IInv, CommitIf, Idle
<1>2. CASE Idle
    <2>1. Len(stack) = 0 /\ 1..Len(stack) = {} /\ committed' = kv'
        BY <1>2, Context DEF CommitIf
    <2>2. Evolved(kv', kv', height)
        BY EvolvedNothing DEF Consistent
    <2> QED BY <2>1, <2>2 DEF IInv
<1> QED BY <1>1, <1>2

\* The same of the end of a callback, with the frame below on top again.
LEMMA EndingKeepsIInv ==
    ASSUME IInv, ~Idle, EndCallback,
           Consistent(kv', SubSeq(stack, 1, Len(stack) - 1), Len(stack) - 1, height),
           Evolved(committed, kv', height)
    PROVE  IInv'
<1> DEFINE n == Len(stack)
<1>1. /\ IsSeq(stack') /\ n \in Nat \ {0} /\ Len(stack') = n - 1
      /\ \A i \in 1..(n - 1) : stack'[i] = stack[i]
      /\ height' = height
    BY PopFrame DEF IInv, Idle, EndCallback
<1>2. 1..(n - 1) \subseteq 1..n
    BY <1>1
<1>3. \A i \in 1..(n - 1) : Consistent(stack'[i].saved, stack', i, height)
    <2> SUFFICES ASSUME NEW i \in 1..(n - 1)
                 PROVE  Consistent(stack[i].saved, stack', i, height)
        BY <1>1
    <2>1. Consistent(stack[i].saved, stack, i, height)
        BY <1>2 DEF IInv
    <2>2. i \in Nat /\ \A j \in 1..i : stack'[j] = stack[j]
        BY <1>1
    <2> QED BY <2>1, <2>2, ConsistentFrames
<1>4. /\ n - 1 <= MaxDepth
      /\ \A i \in 1..(n - 1) : stack'[i].proven_value \in Texts
      /\ \A i, j \in 1..(n - 1) : stack'[i].id = stack'[j].id => i = j
    BY <1>1, <1>2, BoundsAssumption DEF IInv
<1>5. Consistent(kv', stack', n - 1, height)
    BY DEF EndCallback
<1>6. CASE n = 1
    <2>1. committed' = kv' /\ 1..(n - 1) = {}
        BY <1>6 DEF EndCallback, CommitIf
    <2>2. Evolved(kv', kv', height)
        BY <1>5, EvolvedNothing DEF Consistent
    <2>3. Consistent(committed', stack', 0, height)
        BY <1>5, <1>6, <2>1
    <2> QED BY <1>1, <1>3, <1>4, <1>5, <2>1, <2>2, <2>3, BoundsAssumption DEF IInv
<1>7. CASE n # 1
    <2>1. committed' = committed /\ stack' # << >>
        <3>1. Len(stack') # 0 /\ committed' = committed
            BY <1>1, <1>7 DEF EndCallback, CommitIf
        <3> QED BY <3>1
    <2>2. Consistent(committed, stack', 0, height)
        BY ConsistentFrames DEF IInv
    <2>3. \A i \in 1..(n - 1) :
            /\ Evolved(committed, stack'[i].saved, height)
            /\ stack'[i].id \in Ids(committed)
                => committed.subs[stack'[i].id].status = "Active"
        BY <1>1, <1>2 DEF IInv
    <2> QED BY <1>1, <1>3, <1>4, <1>5, <2>1, <2>2, <2>3 DEF IInv, Idle
<1> QED BY <1>6, <1>7

-----------------------------------------------------------------------------
(***************************************************************************)
(* One lemma for each action.                                              *)
(***************************************************************************)

\* What each step of a transaction keeps: the invariant, and the decisions of
\* the committed storage.
Keeps == IInv' /\ Evolved(committed, kv', height')

\* Subscribe: a refused message changes nothing, the runtime drops its storage.
LEMMA SubscribeKeeps ==
    ASSUME IInv, NEW m \in SubscribeMsgs, Subscribe(m)
    PROVE  Keeps
<1> DEFINE sender == Sender
<1>1. /\ sender \in {User, OtherCallback} /\ CommitIf(Idle) /\ height' = height
      /\ UNCHANGED << height, stack >>
      /\ kv' = StorageAfter(kv, execute_subscribe(kv, sender, m, height))
    BY Context DEF Subscribe
<1> HIDE DEF sender
<1>2. /\ Consistent(kv, stack, Len(stack), height) /\ Evolved(committed, kv, height)
    BY DEF IInv
<1>3. Consistent(kv', stack, Len(stack), height) /\ Evolved(committed, kv', height)
    <2>1. CASE SubscribeResult(kv, m, height) = "Ok"
        <3>1. kv' = execute_subscribe(kv, sender, m, height).kv
            BY <1>1, <2>1 DEF StorageAfter, execute_subscribe
        <3>2. Consistent(kv', stack, Len(stack), height)
            BY <1>1, <1>2, <2>1, <3>1, Context, ConsistentSubscribe
        <3>3. Evolved(committed, kv', height)
            BY <1>1, <1>2, <2>1, <3>1, Context, EvolvedSubscribe
        <3> QED BY <3>2, <3>3
    <2>2. CASE SubscribeResult(kv, m, height) # "Ok"
        <3>1. kv' = kv
            BY <1>1, <2>2 DEF StorageAfter, execute_subscribe
        <3> QED BY <1>2, <3>1
    <2> QED BY <2>1, <2>2
<1> QED BY <1>1, <1>3, MessageKeepsIInv DEF Keeps

\* AcceptProof: the subscription is marked before its callback starts, so the
\* frames stay different, and the frame keeps a storage that is consistent.
LEMMA AcceptProofKeeps ==
    ASSUME IInv, NEW id \in 1..U64Max, NEW p \in ProofMsgs, AcceptProof(id, p)
    PROVE  Keeps
<1> DEFINE n == Len(stack)
           frame == [id |-> id, callback |-> kv.subs[id].callback_contract,
                     proven_value |-> from_utf8_lossy(p.value), saved |-> kv']
<1>1. /\ Len(stack) < MaxDepth /\ SubmitResult(kv, id, p, height) = "Ok"
      /\ stack' = Append(stack, frame)
      /\ height' = height /\ committed' = committed
    BY DEF AcceptProof
<1>2. /\ id \in Ids(kv) /\ kv.subs[id].status = "Active" /\ ~Expired(kv.subs[id], height)
    BY <1>1 DEF SubmitResult
<1>3. kv' = WithStatus(kv, id, "Triggered")
    BY <1>1 DEF AcceptProof, execute_submit_proof
<1>4. /\ frame.id = id /\ frame.callback = kv.subs[id].callback_contract
      /\ frame.proven_value = from_utf8_lossy(p.value) /\ frame.saved = kv'
    OBVIOUS
<1> HIDE DEF frame
<1>5. /\ IsSeq(stack') /\ n \in Nat /\ Len(stack') = n + 1 /\ stack'[n + 1] = frame
      /\ \A i \in 1..n : stack'[i] = stack[i]
    BY <1>1, PushFrame DEF IInv
<1>6. \A i \in 1..(n + 1) : i \in 1..n \/ i = n + 1
    BY <1>5
<1>7. Consistent(kv', stack', n + 1, height) /\ \A i \in 1..n : stack[i].id # id
    <2>1. Consistent(kv, stack, n, height) /\ IsSeq(stack)
        BY DEF IInv
    <2> QED BY <1>1, <1>3, <1>4, <2>1, Context, ConsistentAccept
<1>8. id \in Ids(committed) => committed.subs[id].status = "Active"
    <2> SUFFICES ASSUME id \in Ids(committed), committed.subs[id].status # "Active"
                 PROVE  FALSE
        OBVIOUS
    <2>1. kv.subs[id] = committed.subs[id]
        BY DEF IInv, Evolved, SameOrDecided
    <2> QED BY <1>2, <2>1
<1>9. Evolved(committed, kv', height)
    <2>1. Evolved(committed, kv, height) /\ "Triggered" \in Statuses
        BY DEF IInv, Statuses
    <2> QED BY <1>2, <1>3, <1>8, <2>1, Context, EvolvedWithStatus
<1>10. \A i \in 1..(n + 1) : Consistent(stack'[i].saved, stack', i, height)
    <2> SUFFICES ASSUME NEW i \in 1..n
                 PROVE  Consistent(stack[i].saved, stack', i, height)
        BY <1>4, <1>5, <1>6, <1>7
    <2>1. Consistent(stack[i].saved, stack, i, height)
        BY DEF IInv
    <2>2. i \in Nat /\ \A j \in 1..i : stack'[j] = stack[j]
        BY <1>5
    <2> QED BY <2>1, <2>2, ConsistentFrames
<1>11. Consistent(committed, stack', 0, height)
    <2>1. Consistent(committed, stack, 0, height) /\ 0 \in Nat /\ 1..0 = {}
        BY DEF IInv
    <2> QED BY <2>1, ConsistentFrames
<1>12. \A i \in 1..(n + 1) :
        /\ Evolved(committed, stack'[i].saved, height)
        /\ stack'[i].id \in Ids(committed) => committed.subs[stack'[i].id].status = "Active"
        /\ stack'[i].proven_value \in Texts
    BY <1>4, <1>5, <1>6, <1>8, <1>9 DEF IInv, Texts
<1>13. \A i, j \in 1..(n + 1) : stack'[i].id = stack'[j].id => i = j
    BY <1>4, <1>5, <1>6, <1>7 DEF IInv
<1>14. n + 1 <= MaxDepth /\ stack' # << >>
    <2>1. Len(stack') # 0
        BY <1>5
    <2> QED BY <1>1, <1>5, <2>1, BoundsAssumption
<1>15. IInv'
    BY <1>1, <1>5, <1>7, <1>9, <1>10, <1>11, <1>12, <1>13, <1>14 DEF IInv, Idle
<1> QED BY <1>1, <1>9, <1>15 DEF Keeps

\* RefuseProof: whatever the handler wrote, the runtime drops.
LEMMA RefuseProofKeeps ==
    ASSUME IInv, NEW id \in 1..U64Max, NEW p \in ProofMsgs, RefuseProof(id, p)
    PROVE  Keeps
<1>1. kv' = kv /\ CommitIf(Idle) /\ UNCHANGED << height, stack >>
    BY DEF RefuseProof, StorageAfter, execute_submit_proof
<1>2. Consistent(kv', stack, Len(stack), height) /\ Evolved(committed, kv', height)
    BY <1>1 DEF IInv
<1> QED BY <1>1, <1>2, MessageKeepsIInv DEF Keeps

\* CallbackSucceeds: the event of the frame that goes is recorded.
LEMMA CallbackSucceedsKeeps ==
    ASSUME IInv, CallbackSucceeds
    PROVE  Keeps
<1>1. /\ ~Idle /\ stack # << >> /\ EndCallback /\ height' = height
      /\ kv' = execute_interchain_event(kv, Self, stack[Len(stack)].id,
                                        stack[Len(stack)].proven_value, height)
    BY DEF CallbackSucceeds, EndCallback, Top, Idle
<1>2. /\ IsSeq(stack) /\ Consistent(kv, stack, Len(stack), height)
      /\ \A a, b \in 1..Len(stack) : stack[a].id = stack[b].id => a = b
      /\ Evolved(committed, kv, height)
    BY DEF IInv
<1>3. stack[Len(stack)].proven_value \in Texts
    <2>1. Len(stack) \in 1..Len(stack)
        BY <1>1, Context
    <2> QED BY <2>1 DEF IInv
<1>4. Consistent(kv', SubSeq(stack, 1, Len(stack) - 1), Len(stack) - 1, height)
    BY <1>1, <1>2, <1>3, Context, ConsistentDeliver
<1>5. Evolved(committed, kv', height)
    <2>1. kv'.subs = kv.subs
        <3>1. kv = [next_id |-> kv.next_id, subs |-> kv.subs, events |-> kv.events]
            BY Context DEF WellFormed
        <3> QED BY <1>1, <3>1 DEF execute_interchain_event
    <2> QED BY <1>2, <2>1, EvolvedSameSubs
<1> QED BY <1>1, <1>4, <1>5, EndingKeepsIInv DEF Keeps

\* CallbackFails: the storage rolled back to had the subscription Triggered, in
\* time and decided by this transaction; now it is Failed.
LEMMA CallbackFailsKeeps ==
    ASSUME IInv, CallbackFails
    PROVE  Keeps
<1> DEFINE n == Len(stack)
           k == stack[n].saved
           id == stack[n].id
<1>1. /\ ~Idle /\ stack # << >> /\ EndCallback /\ height' = height
      /\ kv' = reply(k, id)
    BY DEF CallbackFails, EndCallback, Top, Idle
<1>2. n \in 1..n /\ n \in Nat
    BY <1>1, Context
<1>3. /\ IsSeq(stack) /\ Consistent(k, stack, n, height)
      /\ \A a, b \in 1..n : stack[a].id = stack[b].id => a = b
      /\ Evolved(committed, k, height)
      /\ id \in Ids(committed) => committed.subs[id].status = "Active"
    BY <1>2 DEF IInv
<1>4. Consistent(kv', SubSeq(stack, 1, n - 1), n - 1, height)
    BY <1>1, <1>3, Context, ConsistentReply
<1>5. Pending(k, stack[n], height)
    BY <1>2, <1>3 DEF Consistent
<1>6. Evolved(committed, kv', height)
    <2>1. id \in Ids(k) /\ k.subs[id].status = "Triggered"
        BY <1>5 DEF Pending
    <2>2. ~Expired(k.subs[id], height)
        BY <1>3, <2>1 DEF Evolved
    <2>3. WellFormed(k) /\ WellFormed(committed) /\ "Failed" \in Statuses
        BY <1>3, Context DEF Consistent, Statuses
    <2>4. kv' = WithStatus(k, id, "Failed")
        BY <1>1 DEF reply
    <2> HIDE DEF k, id
    <2> QED BY <1>3, <2>1, <2>2, <2>3, <2>4, EvolvedWithStatus
<1> QED BY <1>1, <1>4, <1>6, EndingKeepsIInv DEF Keeps

\* OutOfGas: everything is as it was committed.
LEMMA OutOfGasKeeps ==
    ASSUME IInv, OutOfGas
    PROVE  Keeps
<1>1. /\ kv' = committed /\ stack' = << >> /\ height' = height /\ committed' = committed
    BY DEF OutOfGas
<1>2. Len(stack') = 0 /\ IsSeq(stack') /\ 1..0 = {} /\ 0 \in Nat /\ 0 <= MaxDepth
    BY <1>1, EmptySeq, BoundsAssumption DEF IsSeq
<1>3. Consistent(committed, stack', 0, height)
    <2>1. Consistent(committed, stack, 0, height)
        BY DEF IInv
    <2> QED BY <1>2, <2>1, ConsistentFrames
<1>4. Evolved(committed, committed, height)
    BY Context, EvolvedNothing
<1>5. IInv'
    BY <1>1, <1>2, <1>3, <1>4 DEF IInv
<1> QED BY <1>1, <1>4, <1>5 DEF Keeps

\* Forge: the caller of proof-callback is not interchain-events.
LEMMA ForgeKeeps ==
    ASSUME IInv, NEW id \in 1..U64Max, NEW p \in ProofMsgs,
           Forge(id, from_utf8_lossy(p.value))
    PROVE  Keeps
<1> DEFINE sender == Sender
           text == from_utf8_lossy(p.value)
<1>1. /\ sender \in {User, OtherCallback} /\ CommitIf(Idle) /\ height' = height
      /\ UNCHANGED << height, stack >>
      /\ kv' = execute_interchain_event(kv, sender, id, text, height)
    BY Context DEF Forge
<1>2. text \in Texts
    BY DEF Texts
<1> HIDE DEF sender, text
<1>3. /\ Consistent(kv, stack, Len(stack), height) /\ Evolved(committed, kv, height)
    BY DEF IInv
<1>4. Consistent(kv', stack, Len(stack), height)
    BY <1>1, <1>2, <1>3, Context, ConsistentForge
<1>5. Evolved(committed, kv', height)
    <2>1. kv'.subs = kv.subs
        <3>1. kv = [next_id |-> kv.next_id, subs |-> kv.subs, events |-> kv.events]
            BY Context DEF WellFormed
        <3> QED BY <1>1, <3>1 DEF execute_interchain_event
    <2> QED BY <1>3, <2>1, EvolvedSameSubs
<1> QED BY <1>1, <1>4, <1>5, MessageKeepsIInv DEF Keeps

\* NextBlock: no transaction is under way.
LEMMA NextBlockKeeps ==
    ASSUME IInv, NextBlock
    PROVE  Keeps
<1>1. /\ Idle /\ height < MaxHeight /\ height' = height + 1 /\ kv' = kv
      /\ committed' = committed /\ stack' = stack
    BY DEF NextBlock
<1>2. Len(stack) = 0 /\ 1..0 = {}
    BY <1>1, Context
<1>3. Consistent(kv, stack, 0, height + 1) /\ Consistent(committed, stack, 0, height + 1)
    BY <1>2, Context, ConsistentLater DEF IInv
<1>4. kv = committed /\ Evolved(committed, committed, height + 1)
    BY <1>1, Context, EvolvedNothing DEF IInv
<1>5. height + 1 \in 1..MaxHeight
    BY <1>1, Context, BoundsAssumption
<1>6. IInv'
    BY <1>1, <1>2, <1>3, <1>4, <1>5 DEF IInv
<1> QED BY <1>1, <1>4, <1>6 DEF Keeps

\* Every step of the specification keeps the invariant.
LEMMA StepKeeps == IInv /\ [Next]_vars => Keeps
<1> SUFFICES ASSUME IInv, [Next]_vars PROVE Keeps
    OBVIOUS
<1>1. ASSUME NEW m \in SubscribeMsgs, Subscribe(m) PROVE Keeps
    BY <1>1, SubscribeKeeps
<1>2. ASSUME NEW id \in 1..U64Max, NEW p \in ProofMsgs, AcceptProof(id, p) PROVE Keeps
    BY <1>2, AcceptProofKeeps
<1>3. ASSUME NEW id \in 1..U64Max, NEW p \in ProofMsgs, RefuseProof(id, p) PROVE Keeps
    BY <1>3, RefuseProofKeeps
<1>4. CASE CallbackSucceeds
    BY <1>4, CallbackSucceedsKeeps
<1>5. CASE CallbackFails
    BY <1>5, CallbackFailsKeeps
<1>6. CASE OutOfGas
    BY <1>6, OutOfGasKeeps
<1>7. ASSUME NEW id \in 1..U64Max, NEW p \in ProofMsgs, Forge(id, from_utf8_lossy(p.value))
      PROVE  Keeps
    BY <1>7, ForgeKeeps
<1>8. CASE NextBlock
    BY <1>8, NextBlockKeeps
<1>9. CASE UNCHANGED vars
    BY <1>9 DEF vars, IInv, Keeps, Idle
<1> QED BY <1>1, <1>2, <1>3, <1>4, <1>5, <1>6, <1>7, <1>8, <1>9 DEF Next

\* The storage in each state is consistent with the callbacks under way in it,
\* and so is every storage the runtime may roll back to.
THEOREM Invariance == Spec => []IInv
<1>1. IInv /\ [Next]_vars => IInv'
    BY StepKeeps DEF Keeps
<1> QED BY <1>1, InitIInv, PTL DEF Spec

-----------------------------------------------------------------------------
(***************************************************************************)
(* The properties.                                                         *)
(***************************************************************************)

\* A well-formed storage has the types TypeOK asks for.
LEMMA WellFormedStorage ==
    ASSUME NEW k, WellFormed(k)
    PROVE  Storage(k)
<1>1. \A id \in Ids(k) : id \in 1..U64Max /\ SubscriptionRecord(k.subs[id])
    <2>1. \A id \in Ids(k) : id \in 1..U64Max /\ k.subs[id] \in SubscriptionSet
        BY U64Assumption DEF WellFormed, Ids
    <2> QED BY <2>1 DEF SubscriptionSet, SubscriptionRecord
<1>2. \A i \in DOMAIN k.events : k.events[i].block_height \in 0..U64Max
    <2>1. \A i \in DOMAIN k.events : k.events[i] \in EventSet
        BY ElementOfSeq, LenProperties DEF WellFormed
    <2> QED BY <2>1 DEF EventSet
<1> QED BY <1>1, <1>2 DEF Storage, WellFormed

\* No integer the contracts store outgrows its width, for any width, in any
\* storage a transaction can see or come back to.
THEOREM TypeCorrectness == Spec => []TypeOK
<1>1. IInv => TypeOK
    BY Context, WellFormedStorage DEF IInv, TypeOK
<1> QED BY <1>1, Invariance, PTL

\* No identifier is skipped or used twice, however transactions are nested,
\* rolled back or out of gas.
THEOREM Density == Spec => []IdsAreDense
<1>1. IInv => IdsAreDense
    BY Context DEF IInv, Consistent, WellFormed, EntryOK, IdsAreDense, Ids
<1> QED BY <1>1, Invariance, PTL

\* One-shot delivery: between transactions a subscription is Triggered exactly
\* when its callback took effect, and then it did so once.
THEOREM OneShot == Spec => []TriggeredIffDelivered
<1>1. ASSUME IInv PROVE TriggeredIffDelivered
    <2> DEFINE k == committed
    <2>1. Consistent(k, stack, 0, height) /\ 1..0 = {}
        BY <1>1 DEF IInv
    <2>2. ASSUME NEW id \in Ids(k), k.subs[id].status = "Triggered"
          PROVE  \E n \in Delivered(k) : DeliveredFor(k, id) = {n}
        <3>1. PICK n \in Delivered(k) : k.events[n].subscription_id = id
            BY <2>1, <2>2 DEF Consistent, DeliveredFor
        <3>2. DeliveredFor(k, id) = {n}
            BY <2>1, <3>1 DEF Consistent, DeliveredFor
        <3> QED BY <3>2
    <2>3. ASSUME NEW id \in Ids(k), k.subs[id].status # "Triggered"
          PROVE  DeliveredFor(k, id) = {}
        BY <2>1, <2>3 DEF Consistent, EventOK, DeliveredFor
    <2>4. \A n \in Delivered(k) : k.events[n].subscription_id \in Ids(k)
        BY <2>1 DEF Consistent, EventOK
    <2> QED BY <2>2, <2>3, <2>4 DEF TriggeredIffDelivered
<1> QED BY <1>1, Invariance, PTL

\* Whatever was delivered was proven to meet the subscription's own condition,
\* no later than the last block it asked for.
THEOREM InTime == Spec => []DeliveredInTimeAndMet
<1>1. IInv => DeliveredInTimeAndMet
    BY DEF IInv, Consistent, EventOK, DeliveredInTimeAndMet
<1> QED BY <1>1, Invariance, PTL

\* No callback of a subscription starts while one of the same subscription runs,
\* at any depth of nesting.
THEOREM NoReentrancy == Spec => []NoReentrantCallback
<1>1. IInv => NoReentrantCallback
    BY Context DEF IInv, NoReentrantCallback
<1> QED BY <1>1, Invariance, PTL

\* The reply to a failed callback always finds the subscription it is about,
\* still Triggered, in the storage that was rolled back to.
THEOREM ReplyIsSafe == Spec => []ReplyFindsTriggered
<1>1. ASSUME IInv PROVE ReplyFindsTriggered
    <2> SUFFICES ASSUME NEW i \in 1..Len(stack)
                 PROVE  Pending(stack[i].saved, stack[i], height)
        BY <1>1, Context DEF ReplyFindsTriggered, Pending
    <2>1. Consistent(stack[i].saved, stack, i, height) /\ i \in 1..i
        BY <1>1, Context DEF IInv
    <2> QED BY <2>1 DEF Consistent
<1> QED BY <1>1, Invariance, PTL

\* A step either leaves committed storage alone or commits the running one.
LEMMA StepEvolves ==
    ASSUME IInv, [Next]_vars
    PROVE  /\ Evolved(committed, committed', height')
           /\ committed' = committed \/ committed' = kv'
<1>1. committed' = committed \/ committed' = kv'
    BY DEF Next, vars, Subscribe, AcceptProof, RefuseProof, CallbackSucceeds,
           CallbackFails, OutOfGas, Forge, NextBlock, EndCallback, CommitIf
<1>2. Evolved(committed, kv', height')
    BY StepKeeps DEF Keeps
<1>3. Evolved(committed, committed, height')
    BY Context, EvolvedNothing
<1> QED BY <1>1, <1>2, <1>3

\* A decision is final: a subscription that is not Active never changes again,
\* and one that is changes in its status only.
THEOREM Finality == Spec => TerminalIsFinal
<1>1. IInv /\ [Next]_vars =>
        \A id \in Ids(committed) :
            /\ id \in Ids(committed')
            /\ IF committed.subs[id].status = "Active"
               THEN \E s \in Statuses :
                        committed'.subs[id] = [committed.subs[id] EXCEPT !.status = s]
               ELSE committed'.subs[id] = committed.subs[id]
    BY StepEvolves DEF Evolved, SameOrDecided
<1> QED BY <1>1, Invariance, PTL DEF Spec, TerminalIsFinal

-----------------------------------------------------------------------------
(***************************************************************************)
(* The contract implements OneShotSubscriptions.                           *)
(***************************************************************************)

\* How many times a callback took effect can be read off the status.
LEMMA EffectsByStatus ==
    ASSUME NEW k, NEW st, NEW now, Consistent(k, st, 0, now), NEW id \in Ids(k)
    PROVE  Cardinality(DeliveredFor(k, id)) =
                IF k.subs[id].status = "Triggered" THEN 1 ELSE 0
<1>1. CASE k.subs[id].status = "Triggered"
    <2>1. PICK n \in Delivered(k) : k.events[n].subscription_id = id
        BY <1>1 DEF Consistent, DeliveredFor
    <2>2. DeliveredFor(k, id) = {n}
        BY <2>1 DEF Consistent, DeliveredFor
    <2>3. Cardinality({n}) = 1
        BY FS_Singleton
    <2> QED BY <1>1, <2>2, <2>3
<1>2. CASE k.subs[id].status # "Triggered"
    <2>1. DeliveredFor(k, id) = {}
        BY <1>2 DEF Consistent, EventOK, DeliveredFor
    <2>2. Cardinality({}) = 0
        BY FS_EmptySet
    <2> QED BY <1>2, <2>1, <2>2
<1> QED BY <1>1, <1>2

\* Committing what a transaction did is a step of the abstract specification.
LEMMA CommitIsTransaction ==
    ASSUME IInv, IInv', Evolved(committed, committed', height), height' = height
    PROVE  Promise!Transaction
<1> DEFINE old == committed
           new == committed'
<1>1. Consistent(old, stack, 0, height) /\ Consistent(new, stack', 0, height)
    BY DEF IInv
<1>2. \A id \in Ids(new) :
        /\ new.subs[id].status \in Statuses /\ new.subs[id].status # "Expired"
        /\ new.subs[id].expires_at \in Nat \cup {None}
    <2>1. \A id \in Ids(new) : new.subs[id] \in SubscriptionSet
        BY <1>1 DEF Consistent, WellFormed, Ids
    <2>2. \A id \in Ids(new) : new.subs[id].status # "Expired"
        BY <1>1 DEF Consistent, EntryOK
    <2> QED BY <2>1, <2>2, U64Assumption DEF SubscriptionSet
<1>3. \A id \in Ids(old) : old.subs[id] \in SubscriptionSet
    BY <1>1 DEF Consistent, WellFormed, Ids
<1>4. \A id \in Ids(old) :
        /\ id \in Ids(new)
        /\ new.subs[id].expires_at = old.subs[id].expires_at
        /\ old.subs[id].status # "Active" => new.subs[id] = old.subs[id]
    BY <1>3 DEF Evolved, SameOrDecided, SubscriptionSet
<1>5. /\ \A id \in Ids(old) : Cardinality(DeliveredFor(old, id)) =
                IF old.subs[id].status = "Triggered" THEN 1 ELSE 0
      /\ \A id \in Ids(new) : Cardinality(DeliveredFor(new, id)) =
                IF new.subs[id].status = "Triggered" THEN 1 ELSE 0
    BY <1>1, EffectsByStatus
<1> DEFINE deadline(k) == [id \in Ids(k) |-> k.subs[id].expires_at]
           life(k) == [id \in Ids(k) |-> k.subs[id].status]
           effects(k) == [id \in Ids(k) |-> Cardinality(DeliveredFor(k, id))]
<1>6. ASSUME NEW id \in Ids(new), id \notin Ids(old) \/ old.subs[id].status = "Active"
      PROVE  \/ Promise!Waiting(id) \/ Promise!Fired(id)
             \/ Promise!GivenUp(id) \/ Promise!Lapsed(id)
    <2>1. CASE new.subs[id].status = "Active"
        BY <1>5, <2>1 DEF Promise!Waiting
    <2>2. CASE new.subs[id].status \in {"Triggered", "Failed"}
        <3>1. ~Expired(new.subs[id], height)
            BY <1>6, <2>2 DEF Evolved
        <3>2. height \in Nat
            BY Context
        <3>3. Promise!InTime(id)
            BY <1>2, <3>1, <3>2 DEF Promise!InTime, Expired
        <3> QED BY <1>5, <2>2, <3>3 DEF Promise!Fired, Promise!GivenUp
    <2> QED BY <1>2, <2>1, <2>2 DEF Statuses
<1>7. ASSUME NEW id \in Ids(old), old.subs[id].status # "Active"
      PROVE  Promise!Unchanged(id)
    BY <1>4, <1>5, <1>7 DEF Promise!Unchanged
<1>8. /\ Ids(old) \subseteq Ids(new)
      /\ \A id \in Ids(old) : deadline(new)[id] = deadline(old)[id]
    BY <1>4
<1>9. \A id \in Ids(new) :
        IF id \in Ids(old) /\ life(old)[id] # "Active"
        THEN Promise!Unchanged(id)
        ELSE \/ Promise!Waiting(id) \/ Promise!Fired(id)
             \/ Promise!GivenUp(id) \/ Promise!Lapsed(id)
    BY <1>6, <1>7
<1> QED BY <1>8, <1>9 DEF Promise!Transaction

\* Every step maps to a step of the abstract specification or to a stutter.
LEMMA StepSimulates == IInv /\ IInv' /\ [Next]_vars => [Promise!Next]_(Promise!vars)
<1> SUFFICES ASSUME IInv, IInv', [Next]_vars PROVE [Promise!Next]_(Promise!vars)
    OBVIOUS
<1>1. CASE NextBlock
    <2>1. height' = height + 1 /\ committed' = committed
        BY <1>1 DEF NextBlock
    <2> QED BY <2>1 DEF Promise!Next, Promise!Block
<1>2. CASE ~NextBlock
    <2>1. height' = height
        BY <1>2 DEF Next, vars, Subscribe, AcceptProof, RefuseProof, CallbackSucceeds,
               CallbackFails, OutOfGas, Forge, EndCallback
    <2>2. Evolved(committed, committed', height)
        BY <2>1, StepEvolves
    <2> QED BY <2>1, <2>2, CommitIsTransaction DEF Promise!Next
<1> QED BY <1>1, <1>2

\* Seen from outside a transaction, the contract does what OneShotSubscriptions
\* promises to those who subscribe.
THEOREM Implementation == Spec => KeepsPromise
<1>1. Init => Promise!Init
    <2> SUFFICES ASSUME Init PROVE Promise!Init
        OBVIOUS
    <2>1. height = 1 /\ Ids(committed) = {}
        BY InitialWellFormed DEF Init
    <2>2. \A f : DOMAIN f = {} /\ f = [x \in {} |-> f[x]] => f = << >>
        OBVIOUS
    <2> QED BY <2>1, <2>2 DEF Promise!Init
<1> QED BY <1>1, Invariance, StepSimulates, PTL DEF Spec, Promise!Spec, KeepsPromise

=============================================================================
