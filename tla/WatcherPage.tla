---------------------------- MODULE WatcherPage ----------------------------
(***************************************************************************)
(* The dashboard of the watcher (pages/watcher.vue) in a browser, and the  *)
(* two endpoints it calls: status, which answers with the server's cached  *)
(* list, and submit-proof, whose requests are tasks of Watcher.            *)
(*                                                                         *)
(* The page asks for the status every five seconds, and once more at the   *)
(* end of a request that succeeded; it takes the answers in the order they *)
(* come. A button is off from the click until then. Leaving the page       *)
(* cancels nothing, and coming back starts with nothing. (One call of the  *)
(* timer at a time.)                                                       *)
(***************************************************************************)
EXTENDS Watcher

VARIABLES
    shown,        \* status: the identifiers of the subscriptions listed
    polls,        \* status calls of the timer and of each button: what they bring
    submitting,   \* the subscriptions whose button is off
    proofResults, \* those a transaction is shown for
    asked         \* for each request under way, the button it is for, or None

page_vars == << shown, polls, submitting, proofResults, asked >>

Identifiers == 1..U64Max

\* Who asks for the status: a button, or the timer, which is none.
Askers == Identifiers \cup {None}

NotAsking == [under_way |-> FALSE, brings |-> {}]

-----------------------------------------------------------------------------
\* getWatcherState: the list of the last poll of the chain.
getWatcherState == {subscriptions[i].id : i \in DOMAIN subscriptions}

\* fetchStatus, for the timer or for the button of a request that succeeded.
Ask(p) ==
    /\ ~polls[p].under_way
    /\ polls' = [polls EXCEPT ![p] = [under_way |-> TRUE, brings |-> getWatcherState]]

Unchanged == UNCHANGED << remote_vars, hub_vars, server_vars, faults >>

\* setInterval fires, or the page has just been opened.
FetchStatus ==
    /\ Ask(None)
    /\ Unchanged /\ UNCHANGED << shown, submitting, proofResults, asked >>

\* The `finally' of submitProof, once its own status call is over.
Release(button) == submitting' = submitting \ {button}

StatusArrives(p) ==
    /\ polls[p].under_way
    /\ shown' = polls[p].brings
    /\ Release(p)
    /\ polls' = [polls EXCEPT ![p] = NotAsking]
    /\ Unchanged /\ UNCHANGED << proofResults, asked >>

\* fetchStatus catches the error and logs it.
StatusFails(p) ==
    /\ polls[p].under_way
    /\ Faulty
    /\ Release(p)
    /\ polls' = [polls EXCEPT ![p] = NotAsking]
    /\ UNCHANGED << remote_vars, hub_vars, server_vars, shown, proofResults, asked >>

\* The button stays on while its request is under way.
ClickSubmit_NotDisabled(t, id, key) ==
    /\ id \in shown
    /\ StartRequest(t, id, key)
    /\ submitting' = submitting \cup {id}
    /\ proofResults' = proofResults \ {id}
    /\ asked' = [asked EXCEPT ![t] = id]
    /\ UNCHANGED << shown, polls >>

\* submitProof, for a subscription that is listed, with a key typed beside it.
ClickSubmit(t, id, key) ==
    /\ id \in shown
    /\ id \notin submitting
    /\ StartRequest(t, id, key)
    /\ submitting' = submitting \cup {id}
    /\ proofResults' = proofResults \ {id}
    /\ asked' = [asked EXCEPT ![t] = id]
    /\ UNCHANGED << shown, polls >>

\* The endpoint answers with an error, or the server is gone.
Rejected(t) ==
    /\ asked' = [asked EXCEPT ![t] = None]
    /\ Release(asked[t])
    /\ UNCHANGED << shown, polls, proofResults >>

\* It answers with a transaction: the page shows it and asks for the status.
Accepted(t) ==
    /\ asked' = [asked EXCEPT ![t] = None]
    /\ IF asked[t] = None THEN UNCHANGED << proofResults, polls >>
       ELSE /\ proofResults' = proofResults \cup {asked[t]}
            /\ Ask(asked[t])
    /\ UNCHANGED << shown, submitting >>

\* The transaction was found in a block; its code is not looked at.
Succeeded_InBlock(t) ==
    \E x \in landed : x.task = t /\ x.seq = tasks[t].seq /\ x.id = tasks[t].id

\* execute throws when the transaction failed in its block.
Succeeded(t) ==
    \E x \in landed : x.task = t /\ x.seq = tasks[t].seq /\ x.id = tasks[t].id /\ x.res = "Ok"

\* A step of a request, with the answer when it is the last: the transaction
\* once it has succeeded in a block, an error whatever else ends it.
RequestStep(t) ==
    \/ FindResult(t) /\ Succeeded(t) /\ Accepted(t)
    \/ FindResult(t) /\ ~Succeeded(t) /\ Rejected(t)
    \/ TimeOut(t) /\ Rejected(t)
    \/ /\ FetchState(t) \/ FetchAppHash(t) \/ Simulate(t) \/ Sign(t) \/ Broadcast(t)
       /\ IF tasks'[t] = Rest THEN Rejected(t) ELSE UNCHANGED page_vars

RequestFails(t) == CallFails(t) /\ Rejected(t)

\* The requests under way die with the server, and the status calls it has not
\* answered yet.
ServerRestarts ==
    /\ Restart
    /\ asked' = [t \in Requests |-> None]
    /\ \E lost \in SUBSET {p \in Askers : polls[p].under_way} :
        /\ polls' = [p \in Askers |-> IF p \in lost THEN NotAsking ELSE polls[p]]
        /\ submitting' = {id \in submitting : polls[id].under_way /\ id \notin lost}
    /\ UNCHANGED << shown, proofResults >>

\* The user leaves and comes back: the refs are new, what was asked before is
\* answered to the old ones. (Bounded with what goes wrong.)
Reopen ==
    /\ Faulty
    /\ shown' = {}
    /\ submitting' = {}
    /\ proofResults' = {}
    /\ polls' = [p \in Askers |-> NotAsking]
    /\ asked' = [t \in Requests |-> None]
    /\ UNCHANGED << remote_vars, hub_vars, server_vars >>

-----------------------------------------------------------------------------
PageInit ==
    /\ shown = {}
    /\ polls = [p \in Askers |-> NotAsking]
    /\ submitting = {}
    /\ proofResults = {}
    /\ asked = [t \in Requests |-> None]

PageNext ==
    \/ FetchStatus
    \/ \E p \in Askers : StatusArrives(p) \/ StatusFails(p)
    \/ \E t \in Requests, id \in Identifiers, key \in RequestKeys : ClickSubmit(t, id, key)
    \/ \E t \in Requests : RequestStep(t) \/ RequestFails(t)
    \/ ServerRestarts
    \/ Reopen

-----------------------------------------------------------------------------
(***************************************************************************)
(* Properties                                                              *)
(***************************************************************************)

\* A transaction shown for a subscription is one that took effect for it: the
\* callback has had its event, and no other did. It is shown for the button that
\* was clicked, though the list may have changed and other requests, the loop and
\* the script were after the same subscription meanwhile.
OutcomeIsReal ==
    \A id \in proofResults :
        /\ kv.subs[id].status = "Triggered"
        /\ Cardinality({x \in landed : x.id = id /\ x.res = "Ok"}) = 1

\* While a button is off there is one thing it waits for: its request, or after
\* that its status call; and nothing comes back to a button that is on.
OneCallPerButton ==
    \A id \in Identifiers :
        LET requests == {t \in Requests : asked[t] = id}
        IN  Cardinality(requests) + (IF polls[id].under_way THEN 1 ELSE 0) =
                IF id \in submitting THEN 1 ELSE 0

\* A button that was clicked can be clicked again in the end, even if the server
\* restarts or both chains stop.
ButtonsComeBack == \A id \in Identifiers : id \in submitting ~> id \notin submitting

=============================================================================
