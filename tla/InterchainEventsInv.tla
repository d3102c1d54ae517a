------------------------ MODULE InterchainEventsInv ------------------------
(***************************************************************************)
(* The inductive invariant of InterchainEvents. The properties speak of    *)
(* committed storage, between transactions; a step in the middle of one    *)
(* keeps them only because the running storage, and each storage a         *)
(* callback may be rolled back to, is consistent with the callbacks that   *)
(* are under way in it.                                                    *)
(***************************************************************************)
EXTENDS InterchainEvents

Field(f) == {m[f] : m \in SubscribeMsgs}

SubscriptionSet ==
    [id : 1..U64Max, creator : {User, OtherCallback}, client_id : Field("client_id"),
     key_path : Field("key_path"), watch_key : Field("watch_key"),
     condition : Field("condition"), callback_contract : Field("callback_contract"),
     status : Statuses, created_at : 0..U64Max, expires_at : (0..U64Max) \cup {None}]

Texts == {from_utf8_lossy(p.value) : p \in ProofMsgs}

EventSet ==
    [caller : {Self, User, OtherCallback}, block_height : 0..U64Max,
     subscription_id : 1..U64Max, proven_value : Texts]

\* A storage is three items, and the identifiers in it are dense.
WellFormed(k) ==
    /\ k = [next_id |-> k.next_id, subs |-> k.subs, events |-> k.events]
    /\ k.next_id \in 1..U64Max
    /\ k.subs \in [1..(k.next_id - 1) -> SubscriptionSet]
    /\ k.events \in Seq(EventSet)

\* The subscription of a callback under way has been marked, and not delivered.
Pending(k, frame, now) ==
    /\ frame.id \in Ids(k)
    /\ k.subs[frame.id].status = "Triggered"
    /\ k.subs[frame.id].callback_contract = frame.callback
    /\ Met(k.subs[frame.id], now, frame.proven_value)
    /\ DeliveredFor(k, frame.id) = {}

EntryOK(k, id, now) ==
    /\ k.subs[id].id = id
    /\ k.subs[id].status # "Expired"
    /\ k.subs[id].created_at <= now

EventOK(k, n) ==
    LET e == k.events[n]
    IN  /\ e.subscription_id \in Ids(k)
        /\ k.subs[e.subscription_id].status = "Triggered"
        /\ Met(k.subs[e.subscription_id], e.block_height, e.proven_value)

\* A storage in which the callbacks of the first n frames of st are under way.
Consistent(k, st, n, now) ==
    /\ WellFormed(k)
    /\ \A id \in Ids(k) : EntryOK(k, id, now)
    /\ \A i \in 1..n : Pending(k, st[i], now)
    /\ \A id \in Ids(k) :
        k.subs[id].status = "Triggered" =>
            \/ \E i \in 1..n : st[i].id = id
            \/ DeliveredFor(k, id) # {}
    /\ \A a \in Delivered(k) : EventOK(k, a)
    /\ \A a, b \in Delivered(k) :
        k.events[a].subscription_id = k.events[b].subscription_id => a = b

\* What a transaction may have done so far to what was committed before it.
SameOrDecided(old, new) ==
    IF old.status = "Active"
    THEN \E s \in Statuses : new = [old EXCEPT !.status = s]
    ELSE new = old

Evolved(old, new, now) ==
    /\ \A id \in Ids(old) : id \in Ids(new) /\ SameOrDecided(old.subs[id], new.subs[id])
    /\ \A id \in Ids(new) :
        new.subs[id].status # "Active" =>
            \/ id \in Ids(old) /\ old.subs[id].status # "Active"
            \/ ~Expired(new.subs[id], now)

IsSeq(s) == s \in Seq({s[i] : i \in DOMAIN s})

IInv ==
    /\ height \in 1..MaxHeight
    /\ IsSeq(stack)
    /\ Len(stack) <= MaxDepth
    /\ \A i \in 1..Len(stack) : stack[i].proven_value \in Texts
    /\ Consistent(kv, stack, Len(stack), height)
    /\ \A i \in 1..Len(stack) : Consistent(stack[i].saved, stack, i, height)
    /\ Consistent(committed, stack, 0, height)
    /\ Evolved(committed, kv, height)
    /\ \A i \in 1..Len(stack) :
        /\ Evolved(committed, stack[i].saved, height)
        /\ stack[i].id \in Ids(committed) => committed.subs[stack[i].id].status = "Active"
    /\ \A i, j \in 1..Len(stack) : stack[i].id = stack[j].id => i = j
    /\ Idle => kv = committed

=============================================================================
