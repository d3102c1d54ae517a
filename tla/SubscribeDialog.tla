-------------------------- MODULE SubscribeDialog --------------------------
(***************************************************************************)
(* The dialog that makes a subscription (SubscribeModal.vue), the wallet   *)
(* it signs with (useKeplr.ts), and the contract that gets the message.    *)
(*                                                                         *)
(* handleSubmit awaits the wallet's connection, and then the transaction.  *)
(* Meanwhile the form may be edited, the dialog closed and another one     *)
(* opened: closing cancels nothing, since the function goes on with the    *)
(* refs of the dialog it belongs to. Only `submitting' turns the button    *)
(* off, and it is set after the wallet is connected. Errors are only shown *)
(* and left out.                                                           *)
(***************************************************************************)
EXTENDS Subscriptions, SequencesExt

CONSTANTS
    User,          \* the account of the wallet
    Entries,       \* what a dialog may be opened for: [store, key or None]
    Forms,         \* what may be entered
    Presets,       \* what a dialog may open with
    Height,        \* the block of the hub
    Calls,         \* bound: calls of handleSubmit under way
    MaxDialogs     \* bound: dialogs opened

ASSUME DialogAssumption == Height \in Nat /\ MaxDialogs \in Nat /\ None \notin Calls

VARIABLES
    connected,     \* the wallet's, shared by all dialogs
    dialogs,       \* all dialogs opened so far, only the last may be open
    calls,         \* the calls of handleSubmit
    mempool,       \* the transactions of User that wait for a block, one at most
    kv,            \* the storage of interchain-events
    made           \* for each subscription, the dialog, and the form at two moments:
                   \* `clicked', and `read' when the wallet was connected

vars == << connected, dialogs, calls, mempool, kv, made >>

-----------------------------------------------------------------------------
(***************************************************************************)
(* A text entered as the operand of a condition is [bytes, base64]: the    *)
(* value its characters are, and the one they decode to as base64, or None *)
(* when they are not base64. buildCondition puts the text as it is where   *)
(* the contract's Binary expects base64.                                   *)
(***************************************************************************)
TakesBinary(c) == c.type \in {"Equals", "GreaterThan", "LessThan"}

Read(c, as) ==
    CASE c.type = "Equals" -> Equals(c.expected[as])
      [] c.type = "GreaterThan" -> GreaterThan(c.threshold[as], c.encoding)
      [] c.type = "LessThan" -> LessThan(c.threshold[as], c.encoding)
      [] OTHER -> c

Operand(c) == IF c.type = "Equals" THEN c.expected ELSE c.threshold

\* The contract's decoding of the message.
Parses(c) == TakesBinary(c) => Operand(c).base64 # None

\* The number field gives a number, and 0 counts as empty.
Lifetime(expires) == IF expires \in {None, 0} THEN None ELSE expires

\* The message handleSubmit puts together.
SubscribeMsg(dialog) ==
    [client_id |-> dialog.form.client_id, key_path |-> << dialog.entry.store >>,
     watch_key |-> dialog.entry.key, condition |-> dialog.form.condition,
     callback_contract |-> dialog.form.callback_contract,
     expires_after_blocks |-> Lifetime(dialog.form.expires)]

Complete(dialog) ==
    /\ dialog.form.client_id # Empty
    /\ dialog.entry.key # None
    /\ dialog.form.callback_contract # Empty

-----------------------------------------------------------------------------
Idle == [pc |-> "idle"]

UnderWay(d) == {c \in Calls : calls[c] # Idle /\ calls[c].dialog = d}

Connecting(d) == {c \in UnderWay(d) : calls[c].pc = "connect"}

\* The dialog on show.
Latest == Len(dialogs)
Showing == dialogs # << >> /\ dialogs[Latest].open

\* TreeNode's openSubscribe...: a new instance, with a condition picked for it.
Open(entry, form) ==
    /\ ~Showing
    /\ Latest < MaxDialogs
    /\ dialogs' = Append(dialogs,
          [open |-> TRUE, entry |-> entry, form |-> form, submitting |-> FALSE,
           result |-> None, careless |-> FALSE])
    /\ UNCHANGED << connected, calls, mempool, kv, made >>

Edit(form) ==
    /\ Showing
    /\ form # dialogs[Latest].form
    /\ dialogs' = [dialogs EXCEPT ![Latest].form = form,
                                  ![Latest].careless = @ \/ Connecting(Latest) # {}]
    /\ UNCHANGED << connected, calls, mempool, kv, made >>

Close ==
    /\ Showing
    /\ dialogs' = [dialogs EXCEPT ![Latest].open = FALSE]
    /\ UNCHANGED << connected, calls, mempool, kv, made >>

\* The message would be made of the dialog on show.
Of_Latest(call) == dialogs[Latest]

\* The refs a call of handleSubmit reads.
Of(call) == dialogs[call.dialog]

\* The button is left on.
Submitting_NotSet(dialog) == dialog.submitting

\* submitting.value = true
Submitting(dialog) == TRUE

(***************************************************************************)
(* handleSubmit once the wallet is connected, up to executeSubscribe:      *)
(* `given' are the dialogs as the call has left them so far.               *)
(***************************************************************************)
Continue(c, call, given) ==
    LET d == call.dialog
    IN  IF Complete(Of(call))
        THEN /\ dialogs' = [given EXCEPT ![d].submitting = Submitting(given[d])]
             /\ calls' = [calls EXCEPT ![c] =
                  [pc |-> "sign", dialog |-> d, clicked |-> call.clicked,
                   read |-> given[d].form, msg |-> SubscribeMsg(Of(call))]]
        ELSE /\ dialogs' = given
             /\ calls' = [calls EXCEPT ![c] = Idle]

\* A click on the button, which is there until a subscription has been made.
HandleSubmit(c) ==
    LET call == [pc |-> "connect", dialog |-> Latest, clicked |-> dialogs[Latest].form]
        given == [dialogs EXCEPT ![Latest].careless = @ \/ Connecting(Latest) # {}]
    IN  /\ Showing
        /\ ~dialogs[Latest].submitting
        /\ dialogs[Latest].result = None
        /\ calls[c] = Idle
        /\ IF connected THEN Continue(c, call, given)
           ELSE /\ dialogs' = given
                /\ calls' = [calls EXCEPT ![c] = call]
        /\ UNCHANGED << connected, mempool, kv, made >>

\* connect: the extension is there, and the user lets the page in.
Connect(c) ==
    /\ calls[c].pc = "connect"
    /\ connected' = TRUE
    /\ Continue(c, calls[c], dialogs)
    /\ UNCHANGED << mempool, kv, made >>

\* It fails, and handleSubmit gives up unless another call has connected.
FailConnect(c) ==
    /\ calls[c].pc = "connect"
    /\ IF connected THEN Continue(c, calls[c], dialogs)
       ELSE calls' = [calls EXCEPT ![c] = Idle] /\ UNCHANGED dialogs
    /\ UNCHANGED << connected, mempool, kv, made >>

\* The transaction as the contract decodes it.
Response(msg) ==
    execute_subscribe(kv, User, [msg EXCEPT !.condition = Read(@, "base64")], Height)

\* executeSubscribe up to the broadcast: the simulation succeeds, the user signs,
\* and nothing of the same account waits under the same sequence number.
Broadcast(c) ==
    /\ calls[c].pc = "sign"
    /\ mempool = {}
    /\ Parses(calls[c].msg.condition)
    /\ Response(calls[c].msg).res = "Ok"
    /\ mempool' = {[call |-> c, dialog |-> calls[c].dialog, clicked |-> calls[c].clicked,
                    read |-> calls[c].read, msg |-> calls[c].msg]}
    /\ calls' = [calls EXCEPT ![c] = [pc |-> "await", dialog |-> @.dialog]]
    /\ UNCHANGED << connected, dialogs, kv, made >>

\* The answer would be shown by the dialog on show.
ShownBy_Latest(call) == Latest

\* The dialog whose refs the end of handleSubmit writes.
ShownBy(call) == call.dialog

Fail(c) ==
    /\ calls' = [calls EXCEPT ![c] = Idle]
    /\ dialogs' = [dialogs EXCEPT ![calls[c].dialog].submitting = FALSE,
                                  ![calls[c].dialog].careless =
                                        @ \/ calls[c].pc \in {"await", "landed"}]

\* The simulation, the user or the node refuses.
Refuse(c) ==
    /\ calls[c].pc = "sign"
    /\ Fail(c)
    /\ UNCHANGED << connected, mempool, kv, made >>

\* The hub takes the transaction into a block.
Include ==
    /\ \E tx \in mempool :
        /\ kv' = Response(tx.msg).kv
        /\ made' = [id \in DOMAIN made \cup {kv.next_id} |->
                      IF id = kv.next_id
                      THEN [dialog |-> tx.dialog, clicked |-> tx.clicked, read |-> tx.read]
                      ELSE made[id]]
        /\ calls' = [c \in Calls |->
                      IF c = tx.call
                      THEN [pc |-> "landed", dialog |-> tx.dialog, id |-> kv.next_id]
                      ELSE calls[c]]
    /\ mempool' = {}
    /\ UNCHANGED << connected, dialogs >>

Answer(c) ==
    /\ calls[c].pc = "landed"
    /\ dialogs' = [dialogs EXCEPT ![ShownBy(calls[c])].submitting = FALSE,
                                  ![ShownBy(calls[c])].result = calls[c].id]
    /\ calls' = [calls EXCEPT ![c] = Idle]
    /\ UNCHANGED << connected, mempool, kv, made >>

\* executeSubscribe fails after the broadcast, the transaction landed or not.
LoseAnswer(c) ==
    /\ calls[c].pc \in {"await", "landed"}
    /\ Fail(c)
    /\ mempool' = IF calls[c].pc = "await" THEN {[tx EXCEPT !.call = None] : tx \in mempool}
                  ELSE mempool
    /\ UNCHANGED << connected, kv, made >>

-----------------------------------------------------------------------------
Init ==
    /\ connected = FALSE
    /\ dialogs = << >>
    /\ calls = [c \in Calls |-> Idle]
    /\ mempool = {}
    /\ kv = InitialStorage
    /\ made = << >>

Next ==
    \/ \E entry \in Entries, form \in Presets : Open(entry, form)
    \/ \E form \in Forms : Edit(form)
    \/ Close
    \/ Include
    \/ \E c \in Calls :
        \/ HandleSubmit(c) \/ Connect(c) \/ FailConnect(c)
        \/ Broadcast(c) \/ Refuse(c) \/ Answer(c) \/ LoseAnswer(c)

Spec == Init /\ [][Next]_vars

-----------------------------------------------------------------------------
(***************************************************************************)
(* Properties. A dialog is `careless' once its user has clicked again, or  *)
(* edited the form, while the wallet was being connected and the button    *)
(* still on, or its answer has been lost: a second subscription, or        *)
(* another one than was meant, can then be made.                           *)
(***************************************************************************)
MadeBy(d) == {id \in DOMAIN made : made[id].dialog = d}

Careful == {d \in DOMAIN dialogs : ~dialogs[d].careless}

\* However often the user tries, closes the dialog under way and opens another,
\* a dialog makes one subscription at most (`submitting', and the button that
\* goes when there is a result).
OncePerDialog == \A d \in Careful : Cardinality(MadeBy(d)) <= 1

\* A dialog shows the success of its own transaction and of no other's, and one
\* that is done and shows none has made no subscription.
SuccessIsOwn ==
    /\ \A d \in DOMAIN dialogs :
          dialogs[d].result # None => dialogs[d].result \in MadeBy(d)
    /\ \A d \in Careful :
          MadeBy(d) # {} => dialogs[d].result # None \/ UnderWay(d) # {}

\* What is stored on the hub is the entry of the dialog and what its form said at
\* one moment, when the wallet was connected and handleSubmit read it: a condition
\* on existence or JSON, and the lifetime, none or 0 standing for a subscription
\* that never expires. Whatever is typed after that, in this dialog or another,
\* clicked again or lost, changes nothing. In a careful dialog that is the form
\* that was clicked.
StoredAsRead ==
    \A id \in DOMAIN made :
        LET read == made[id].read
            dialog == dialogs[made[id].dialog]
            sub == kv.subs[id]
        IN  /\ sub.creator = User
            /\ sub.key_path = << dialog.entry.store >>
            /\ sub.watch_key = dialog.entry.key
            /\ ~TakesBinary(read.condition) => sub.condition = read.condition
            /\ read.expires \in {None, 0} => sub.expires_at = None
            /\ read.expires \notin {None, 0} => sub.expires_at = Height + read.expires
            /\ ~dialog.careless => read = made[id].clicked

\* The value a subscription waits for is the text entered, which the dialog
\* fills in with the current value (SubscribeModal.vue: "Pre-filled with current
\* value", TEST_SCENARIO.md: {"equals": {"expected": "<base64>"}}).
ConditionAsEntered ==
    \A id \in DOMAIN made :
        made[id].dialog \in Careful =>
            kv.subs[id].condition = Read(made[id].clicked.condition, "bytes")

=============================================================================
