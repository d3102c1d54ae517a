------------------------ MODULE OneShotSubscriptions ------------------------
(***************************************************************************)
(* What interchain-events promises to those who subscribe, without its     *)
(* storage, its messages and its callbacks in progress.                    *)
(*                                                                         *)
(* A subscription is decided at most once, no later than its deadline. If  *)
(* it is decided as Triggered its callback has taken effect once, and if   *)
(* as Failed the callback has left no effect. A transaction may make any   *)
(* number of subscriptions and decide any number of them, those it has     *)
(* just made included, because callbacks can subscribe and submit proofs.  *)
(***************************************************************************)
EXTENDS Integers

CONSTANT None      \* the deadline of a subscription that never expires

VARIABLES
    now,           \* the block height
    deadline,      \* the last block each subscription can be decided at
    life,          \* "Active", "Triggered", "Failed" or "Expired", of each subscription
    effects        \* how many times its callback took effect

vars == << now, deadline, life, effects >>

InTime(id) == deadline'[id] = None \/ now <= deadline'[id]

\* What a transaction may leave a subscription as.
Waiting(id) == life'[id] = "Active" /\ effects'[id] = 0
Fired(id) == life'[id] = "Triggered" /\ effects'[id] = 1 /\ InTime(id)
GivenUp(id) == life'[id] = "Failed" /\ effects'[id] = 0 /\ InTime(id)
Lapsed(id) == life'[id] = "Expired" /\ effects'[id] = 0 /\ ~InTime(id)
Unchanged(id) == life'[id] = life[id] /\ effects'[id] = effects[id]

Init ==
    /\ now = 1
    /\ deadline = << >>
    /\ life = << >>
    /\ effects = << >>

Transaction ==
    /\ now' = now
    /\ DOMAIN life \subseteq DOMAIN life'
    /\ DOMAIN deadline' = DOMAIN life'
    /\ DOMAIN effects' = DOMAIN life'
    /\ \A id \in DOMAIN life : deadline'[id] = deadline[id]
    /\ \A id \in DOMAIN life' :
        IF id \in DOMAIN life /\ life[id] # "Active"
        THEN Unchanged(id)
        ELSE Waiting(id) \/ Fired(id) \/ GivenUp(id) \/ Lapsed(id)

Block == now' = now + 1 /\ UNCHANGED << deadline, life, effects >>

Next == Transaction \/ Block

Spec == Init /\ [][Next]_vars

=============================================================================
