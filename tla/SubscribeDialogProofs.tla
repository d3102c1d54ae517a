----------------------- MODULE SubscribeDialogProofs -----------------------
(***************************************************************************)
(* What the dialog keeps, for any number of dialogs and of calls of        *)
(* handleSubmit, and any entries and forms.                                *)
(*                                                                         *)
(* Any dialog has made what its form said when a call of it read the form, *)
(* and any call of it is to make that. A careful dialog has one call under *)
(* way at most, and that call the form as it was at the click; whatever    *)
(* the dialog has made is either shown by it, or about to be by that call. *)
(***************************************************************************)
EXTENDS SubscribeDialog, OperatorProofs, FiniteSetTheorems

-----------------------------------------------------------------------------
Going(cs, d) == {c \in Calls : cs[c] # Idle /\ cs[c].dialog = d}

Made(mk, d) == {id \in DOMAIN mk : mk[id].dialog = d}

\* The message a form stands for, and what is stored of it.
Meant(entry, form) == SubscribeMsg([entry |-> entry, form |-> form])

StoredOf(id, entry, form) ==
    Subscription(id, User,
        [Meant(entry, form) EXCEPT !.condition = Read(@, "base64")], Height)

DialogFields == {"open", "entry", "form", "submitting", "result", "careless"}

Shape(ds, cs) ==
    /\ IsSeq(ds)
    /\ \A d \in 1..Len(ds) : DOMAIN ds[d] = DialogFields
    /\ cs = [c \in Calls |-> cs[c]]
    /\ \A c \in Calls : cs[c] # Idle => /\ cs[c].pc \in {"connect", "sign", "await", "landed"}
                                        /\ cs[c].dialog \in 1..Len(ds)

\* The transaction that waits, and the call that waits for it.
Waits(ds, cs, tx) ==
    /\ DOMAIN tx = {"call", "dialog", "clicked", "read", "msg"}
    /\ tx.dialog \in 1..Len(ds)
    /\ tx.call = None => ds[tx.dialog].careless
    /\ tx.call # None => /\ tx.call \in Calls
                         /\ cs[tx.call] # Idle /\ cs[tx.call].pc = "await"
                         /\ cs[tx.call].dialog = tx.dialog
    /\ tx.msg = Meant(ds[tx.dialog].entry, tx.read)
    /\ ~ds[tx.dialog].careless => tx.read = tx.clicked

PoolOK(ds, cs, pool) ==
    /\ \A tx \in pool : Waits(ds, cs, tx) /\ pool = {tx}
    /\ \A c \in Calls : cs[c].pc = "await" => \E tx \in pool : tx.call = c

\* What has been made, and by which dialog.
StorageOK(ds, k, mk) ==
    /\ k = [next_id |-> k.next_id, subs |-> k.subs, events |-> k.events]
    /\ k.next_id \in Nat \ {0}
    /\ DOMAIN mk = Ids(k)
    /\ \A id \in DOMAIN mk : id \in 1..(k.next_id - 1) /\ mk[id].dialog \in 1..Len(ds)

LandedOK(cs, mk) ==
    \A c \in Calls : cs[c].pc = "landed" => cs[c].id \in Made(mk, cs[c].dialog)

\* A dialog and the calls of it.
ShownOK(dialog, mk, d) == dialog.result # None => dialog.result \in Made(mk, d)

CallsOK(dialog, cs, d) ==
    ~dialog.careless =>
        /\ \A b, c \in Going(cs, d) : b = c
        /\ \A c \in Going(cs, d) :
            /\ dialog.result = None
            /\ cs[c].pc = "connect" => cs[c].clicked = dialog.form
            /\ cs[c].pc # "connect" => dialog.submitting

MadeOK(dialog, cs, mk, d) ==
    ~dialog.careless =>
        \A id \in Made(mk, d) :
            \/ dialog.result = id
            \/ \E c \in Going(cs, d) : cs[c].pc = "landed" /\ cs[c].id = id

DialogOK(dialog, cs, mk, d) ==
    ShownOK(dialog, mk, d) /\ CallsOK(dialog, cs, d) /\ MadeOK(dialog, cs, mk, d)

\* The form a call has read, and what is stored of it.
Reads(call, dialog) ==
    call.pc = "sign" =>
        /\ call.msg = Meant(dialog.entry, call.read)
        /\ ~dialog.careless => call.read = call.clicked

ReadOK(dialog, cs, k, mk, d) ==
    /\ \A c \in Going(cs, d) : Reads(cs[c], dialog)
    /\ \A id \in Made(mk, d) :
          /\ k.subs[id] = StoredOf(id, dialog.entry, mk[id].read)
          /\ ~dialog.careless => mk[id].read = mk[id].clicked

DialogInv ==
    /\ Shape(dialogs, calls)
    /\ PoolOK(dialogs, calls, mempool)
    /\ StorageOK(dialogs, kv, made)
    /\ LandedOK(calls, made)
    /\ \A d \in 1..Len(dialogs) : DialogOK(dialogs[d], calls, made, d)
    /\ \A d \in 1..Len(dialogs) : ReadOK(dialogs[d], calls, kv, made, d)

-----------------------------------------------------------------------------
(***************************************************************************)
(* Steps of one dialog.                                                    *)
(***************************************************************************)

\* One dialog is given other fields.
LEMMA Touched ==
    ASSUME NEW ds, IsSeq(ds), NEW e \in 1..Len(ds), NEW dialog
    PROVE  LET es == [ds EXCEPT ![e] = dialog]
           IN  /\ IsSeq(es) /\ Len(es) = Len(ds) /\ es[e] = dialog
               /\ \A d \in 1..Len(ds) : d # e => es[d] = ds[d]
<1> DEFINE es == [ds EXCEPT ![e] = dialog]
           S == {es[i] : i \in DOMAIN es}
<1>1. Len(ds) \in Nat /\ DOMAIN ds = 1..Len(ds)
    BY SeqLength
<1>2. es = [i \in 1..Len(ds) |-> es[i]] /\ es[e] = dialog
    BY <1>1
<1>3. \A d \in 1..Len(ds) : d # e => es[d] = ds[d]
    BY <1>1
<1> HIDE DEF es
<1>4. es \in [1..Len(ds) -> S]
    BY <1>2
<1>5. es \in Seq(S) /\ Len(es) = Len(ds)
    <2>1. es \in Seq(S)
        BY <1>1, <1>4, SeqDef
    <2>2. DOMAIN es = 1..Len(es) /\ Len(es) \in Nat
        BY <2>1, LenProperties
    <2> QED BY <1>1, <1>2, <2>1, <2>2
<1> QED BY <1>2, <1>3, <1>5 DEF IsSeq, es, S

LEMMA TouchedDialogs ==
    ASSUME DialogInv, NEW e \in 1..Len(dialogs), NEW dialog,
           dialogs' = [dialogs EXCEPT ![e] = dialog]
    PROVE  /\ IsSeq(dialogs') /\ Len(dialogs') = Len(dialogs) /\ dialogs'[e] = dialog
           /\ \A d \in 1..Len(dialogs) : d # e => dialogs'[d] = dialogs[d]
<1>1. IsSeq(dialogs)
    BY DEF DialogInv, Shape
<1> DEFINE es == [dialogs EXCEPT ![e] = dialog]
<1>2. /\ IsSeq(es) /\ Len(es) = Len(dialogs) /\ es[e] = dialog
      /\ \A d \in 1..Len(dialogs) : d # e => es[d] = dialogs[d]
    BY ONLY <1>1, Touched, e \in 1..Len(dialogs)
<1>3. dialogs' = es
    OBVIOUS
<1> HIDE DEF es
<1> QED BY ONLY <1>2, <1>3

\* A step of a dialog and of calls of its own, before anything has been sent or
\* after it has been answered, keeps the invariant if it does for that dialog.
LEMMA OneDialog ==
    ASSUME DialogInv, NEW e \in 1..Len(dialogs), NEW dialog,
           dialogs' = [dialogs EXCEPT ![e] = dialog],
           DOMAIN dialog = DialogFields,
           dialog.entry = dialogs[e].entry, dialogs[e].careless => dialog.careless,
           calls' = [c \in Calls |-> calls'[c]],
           \A c \in Calls :
              \/ calls'[c] = calls[c]
              \/ /\ calls[c] = Idle \/ (calls[c].dialog = e /\ calls[c].pc # "await")
                 /\ \/ calls'[c] = Idle
                    \/ /\ calls'[c].pc \in {"connect", "sign"} /\ calls'[c].dialog = e
                       /\ Reads(calls'[c], dialog),
           DialogOK(dialog, calls', made, e),
           UNCHANGED << mempool, kv, made >>
    PROVE  DialogInv'
<1>1. /\ IsSeq(dialogs') /\ Len(dialogs') = Len(dialogs) /\ dialogs'[e] = dialog
      /\ \A d \in 1..Len(dialogs) : d # e => dialogs'[d] = dialogs[d]
    BY TouchedDialogs
<1> DEFINE Moves(c) ==
        /\ calls[c] = Idle \/ (calls[c].dialog = e /\ calls[c].pc # "await")
        /\ \/ calls'[c] = Idle
           \/ /\ calls'[c].pc \in {"connect", "sign"} /\ calls'[c].dialog = e
              /\ Reads(calls'[c], dialog)
<1>2. \A c \in Calls : calls'[c] = calls[c] \/ Moves(c)
    OBVIOUS
<1>3. Idle.pc = "idle"
    BY DEF Idle
<1>4. Shape(dialogs', calls')
    <2>1. \A d \in 1..Len(dialogs') : DOMAIN dialogs'[d] = DialogFields
        BY <1>1 DEF DialogInv, Shape
    <2>2. ASSUME NEW c \in Calls, calls'[c] # Idle
          PROVE  /\ calls'[c].pc \in {"connect", "sign", "await", "landed"}
                 /\ calls'[c].dialog \in 1..Len(dialogs')
        BY <1>1, <1>2, <2>2 DEF DialogInv, Shape
    <2> QED BY <1>1, <2>1, <2>2 DEF Shape
<1>5. PoolOK(dialogs', calls', mempool)
    <2>1. \A c \in Calls : calls[c] # Idle /\ calls[c].pc = "await" => calls'[c] = calls[c]
        BY <1>2
    <2>2. \A c \in Calls : calls'[c].pc = "await" => calls'[c] = calls[c]
        BY <1>2, <1>3
    <2>3. \A d \in 1..Len(dialogs) :
            /\ dialogs'[d].entry = dialogs[d].entry
            /\ dialogs[d].careless => dialogs'[d].careless
        BY <1>1
    <2>4. ASSUME NEW tx, Waits(dialogs, calls, tx) PROVE Waits(dialogs', calls', tx)
        BY <1>1, <2>1, <2>3, <2>4 DEF Waits
    <2> QED BY <2>2, <2>4 DEF DialogInv, PoolOK
<1>6. StorageOK(dialogs', kv, made)
    BY <1>1 DEF DialogInv, StorageOK
<1>7. LandedOK(calls', made)
    BY <1>2, <1>3 DEF DialogInv, LandedOK
<1>8. ASSUME NEW d \in 1..Len(dialogs'), d # e
      PROVE  DialogOK(dialogs'[d], calls', made, d)
    <2>1. d \in 1..Len(dialogs) /\ dialogs'[d] = dialogs[d]
        BY <1>1, <1>8
    <2>2. DialogOK(dialogs[d], calls, made, d)
        BY <2>1 DEF DialogInv
    <2>3. Going(calls', d) = Going(calls, d)
        BY <1>2, <1>8 DEF Going
    <2>4. \A c \in Going(calls, d) : calls'[c] = calls[c]
        BY <1>2, <1>8 DEF Going
    <2>5. CallsOK(dialogs[d], calls', d)
        BY <2>2, <2>3, <2>4 DEF DialogOK, CallsOK
    <2>6. MadeOK(dialogs[d], calls', made, d)
        BY <2>2, <2>3, <2>4 DEF DialogOK, MadeOK
    <2> QED BY <2>1, <2>2, <2>5, <2>6 DEF DialogOK
<1>9. \A d \in 1..Len(dialogs') : DialogOK(dialogs'[d], calls', made, d)
    BY <1>1, <1>8
<1>10. ASSUME NEW d \in 1..Len(dialogs') PROVE ReadOK(dialogs'[d], calls', kv, made, d)
    <2>1. d \in 1..Len(dialogs) /\ ReadOK(dialogs[d], calls, kv, made, d)
        BY <1>1, <1>10 DEF DialogInv
    <2>2. /\ dialogs'[d].entry = dialogs[d].entry
          /\ ~dialogs'[d].careless => ~dialogs[d].careless
        BY <1>1, <2>1
    <2>3. ASSUME NEW c \in Going(calls', d) PROVE Reads(calls'[c], dialogs'[d])
        <3>1. CASE calls'[c] = calls[c]
            <4>1. Reads(calls[c], dialogs[d])
                BY <2>1, <2>3, <3>1 DEF ReadOK, Going
            <4> QED BY <2>2, <3>1, <4>1 DEF Reads
        <3>2. CASE calls'[c] # calls[c]
            <4>1. d = e /\ Reads(calls'[c], dialog)
                BY <1>2, <2>3, <3>2 DEF Going
            <4> QED BY <1>1, <4>1
        <3> QED BY <3>1, <3>2
    <2> QED BY <2>1, <2>2, <2>3 DEF ReadOK
<1> QED BY <1>4, <1>5, <1>6, <1>7, <1>9, <1>10 DEF DialogInv

LEMMA LatestThere ==
    ASSUME DialogInv, Showing
    PROVE  Latest \in 1..Len(dialogs)
<1>1. IsSeq(dialogs) /\ dialogs # << >>
    BY DEF DialogInv, Shape, Showing
<1>2. Len(dialogs) \in Nat \ {0}
    BY <1>1, TailSeq
<1> QED BY <1>2 DEF Latest

\* What is known of a dialog and of a call.
LEMMA DialogOf ==
    ASSUME DialogInv, NEW e \in 1..Len(dialogs)
    PROVE  /\ DOMAIN dialogs = 1..Len(dialogs)
           /\ DOMAIN dialogs[e] = DialogFields
           /\ DialogOK(dialogs[e], calls, made, e)
<1>1. DOMAIN dialogs = 1..Len(dialogs)
    BY SeqLength DEF DialogInv, Shape
<1> QED BY <1>1 DEF DialogInv, Shape

LEMMA CallOf ==
    ASSUME DialogInv, NEW c \in Calls, calls[c].pc # "idle"
    PROVE  /\ calls[c] # Idle /\ calls[c].dialog \in 1..Len(dialogs)
           /\ c \in Going(calls, calls[c].dialog)
<1>1. calls[c] # Idle
    BY DEF Idle
<1> QED BY <1>1 DEF DialogInv, Shape, Going

\* A form that is edited while the wallet is asked is no longer the one clicked.
LEMMA EditKeeps ==
    ASSUME DialogInv, NEW form, Edit(form)
    PROVE  DialogInv'
<1> DEFINE e == Latest
           old == dialogs[e]
           new == [old EXCEPT !.form = form, !.careless = @ \/ Connecting(e) # {}]
<1>1. e \in 1..Len(dialogs)
    BY LatestThere DEF Edit
<1>2. DOMAIN dialogs = 1..Len(dialogs) /\ DOMAIN old = DialogFields
      /\ DialogOK(old, calls, made, e)
    BY <1>1, DialogOf
<1>3. /\ DOMAIN new = DialogFields /\ new.entry = old.entry /\ new.form = form
      /\ new.result = old.result /\ new.submitting = old.submitting
      /\ new.careless = (old.careless \/ Connecting(e) # {})
    BY <1>2 DEF DialogFields
<1>4. dialogs' = [dialogs EXCEPT ![e] = new]
    BY <1>1, <1>2 DEF Edit
<1>5. calls' = calls /\ UNCHANGED << mempool, kv, made >> /\ calls = [c \in Calls |-> calls[c]]
    BY DEF Edit, DialogInv, Shape
<1> HIDE DEF new
<1>6. DialogOK(new, calls, made, e)
    <2>1. ShownOK(new, made, e)
        BY <1>2, <1>3 DEF DialogOK, ShownOK
    <2>2. MadeOK(new, calls, made, e)
        BY <1>2, <1>3 DEF DialogOK, MadeOK
    <2>3. ASSUME ~new.careless, NEW c \in Going(calls, e) PROVE calls[c].pc # "connect"
        BY <1>3, <2>3 DEF Connecting, UnderWay, Going
    <2>4. CallsOK(new, calls, e)
        BY <1>2, <1>3, <2>3 DEF DialogOK, CallsOK
    <2> QED BY <2>1, <2>2, <2>4 DEF DialogOK
<1> HIDE DEF e
<1> QED BY <1>1, <1>3, <1>4, <1>5, <1>6, OneDialog

LEMMA CloseKeeps ==
    ASSUME DialogInv, Close
    PROVE  DialogInv'
<1> DEFINE e == Latest
           old == dialogs[e]
           new == [old EXCEPT !.open = FALSE]
<1>1. e \in 1..Len(dialogs)
    BY LatestThere DEF Close
<1>2. DOMAIN dialogs = 1..Len(dialogs) /\ DOMAIN old = DialogFields
      /\ DialogOK(old, calls, made, e)
    BY <1>1, DialogOf
<1>3. /\ DOMAIN new = DialogFields /\ new.entry = old.entry /\ new.form = old.form
      /\ new.result = old.result /\ new.submitting = old.submitting
      /\ new.careless = old.careless
    BY <1>2 DEF DialogFields
<1>4. dialogs' = [dialogs EXCEPT ![e] = new]
    BY <1>1, <1>2 DEF Close
<1>5. calls' = calls /\ UNCHANGED << mempool, kv, made >> /\ calls = [c \in Calls |-> calls[c]]
    BY DEF Close, DialogInv, Shape
<1> HIDE DEF new
<1>6. DialogOK(new, calls, made, e)
    BY <1>2, <1>3 DEF DialogOK, ShownOK, MadeOK, CallsOK
<1> HIDE DEF e
<1> QED BY <1>1, <1>3, <1>4, <1>5, <1>6, OneDialog

\* The message is put together from the form of the call's own dialog, which is as
\* it was at the click if the dialog is careful.
LEMMA ContinueKeeps ==
    ASSUME DialogInv, NEW c \in Calls, NEW call, NEW e \in 1..Len(dialogs), call.dialog = e,
           NEW g, DOMAIN g = DialogFields, g.entry = dialogs[e].entry, g.form = dialogs[e].form,
           g.result = dialogs[e].result, dialogs[e].careless => g.careless,
           \/ calls[c] = Idle
           \/ calls[c].pc = "connect" /\ calls[c].dialog = e,
           ~g.careless => /\ Going(calls, e) \subseteq {c} /\ g.result = None
                          /\ call.clicked = g.form,
           Continue(c, call, [dialogs EXCEPT ![e] = g]),
           UNCHANGED << mempool, kv, made >>
    PROVE  DialogInv'
<1> DEFINE given == [dialogs EXCEPT ![e] = g]
           new == [g EXCEPT !.submitting = TRUE]
           msg == SubscribeMsg(dialogs[e])
           sent == [pc |-> "sign", dialog |-> e, clicked |-> call.clicked,
                    read |-> given[e].form, msg |-> msg]
<1>1. /\ DOMAIN dialogs = 1..Len(dialogs) /\ calls = [b \in Calls |-> calls[b]]
      /\ DialogOK(dialogs[e], calls, made, e)
    BY DialogOf DEF DialogInv, Shape
<1>2. \/ /\ dialogs' = [given EXCEPT ![e].submitting = TRUE]
         /\ calls' = [calls EXCEPT ![c] = sent]
      \/ dialogs' = given /\ calls' = [calls EXCEPT ![c] = Idle]
    BY DEF Continue, Submitting, Of
<1>3. Idle.pc = "idle"
    BY DEF Idle
<1>4. CASE /\ dialogs' = [given EXCEPT ![e].submitting = TRUE]
           /\ calls' = [calls EXCEPT ![c] = sent]
    <2>1. dialogs' = [dialogs EXCEPT ![e] = new]
        BY <1>1, <1>4
    <2>2. /\ DOMAIN new = DialogFields /\ new.entry = g.entry /\ new.form = g.form
          /\ new.result = g.result /\ new.submitting = TRUE /\ new.careless = g.careless
        BY DEF DialogFields
    <2>3. /\ sent.pc = "sign" /\ sent.dialog = e /\ sent.clicked = call.clicked
          /\ sent.msg = msg /\ sent.read = g.form
        BY <1>1
    <2>4. msg = Meant(new.entry, g.form)
        BY <2>2 DEF Meant, SubscribeMsg, Lifetime
    <2> HIDE DEF new, sent, msg
    <2>5. Reads(sent, new)
        BY <2>2, <2>3, <2>4 DEF Reads
    <2>6. /\ calls' = [b \in Calls |-> calls'[b]] /\ calls'[c] = sent
          /\ \A b \in Calls : b # c => calls'[b] = calls[b]
        BY <1>1, <1>4
    <2>7. ASSUME ~new.careless PROVE Going(calls', e) \subseteq {c}
        BY <2>2, <2>6, <2>7 DEF Going
    <2>8. CallsOK(new, calls', e)
        BY <2>2, <2>3, <2>4, <2>6, <2>7 DEF CallsOK
    <2>9. MadeOK(new, calls', made, e)
        <3>1. ASSUME ~new.careless, NEW id \in Made(made, e) PROVE new.result = id
            BY <1>1, <1>3, <2>2, <3>1 DEF DialogOK, MadeOK
        <3> QED BY <3>1 DEF MadeOK
    <2>10. DialogOK(new, calls', made, e)
        BY <1>1, <2>2, <2>8, <2>9 DEF DialogOK, ShownOK
    <2>11. \A b \in Calls :
              \/ calls'[b] = calls[b]
              \/ /\ calls[b] = Idle \/ (calls[b].dialog = e /\ calls[b].pc # "await")
                 /\ \/ calls'[b] = Idle
                    \/ /\ calls'[b].pc \in {"connect", "sign"} /\ calls'[b].dialog = e
                       /\ Reads(calls'[b], new)
        BY <2>3, <2>6, <2>5
    <2>12. /\ DOMAIN new = DialogFields /\ new.entry = dialogs[e].entry
           /\ dialogs[e].careless => new.careless
        BY <2>2
    <2> QED BY <2>1, <2>6, <2>10, <2>11, <2>12, OneDialog
<1>5. CASE dialogs' = given /\ calls' = [calls EXCEPT ![c] = Idle]
    <2>1. /\ calls' = [b \in Calls |-> calls'[b]] /\ calls'[c] = Idle
          /\ \A b \in Calls : b # c => calls'[b] = calls[b]
        BY <1>1, <1>5
    <2>2. ASSUME ~g.careless PROVE Going(calls', e) = {}
        BY <2>1, <2>2 DEF Going
    <2>3. CallsOK(g, calls', e)
        BY <2>2 DEF CallsOK
    <2>4. MadeOK(g, calls', made, e)
        <3>1. ASSUME ~g.careless, NEW id \in Made(made, e) PROVE g.result = id
            BY <1>1, <1>3, <3>1 DEF DialogOK, MadeOK
        <3> QED BY <3>1 DEF MadeOK
    <2>5. DialogOK(g, calls', made, e)
        BY <1>1, <2>3, <2>4 DEF DialogOK, ShownOK
    <2>6. \A b \in Calls :
              \/ calls'[b] = calls[b]
              \/ /\ calls[b] = Idle \/ (calls[b].dialog = e /\ calls[b].pc # "await")
                 /\ \/ calls'[b] = Idle
                    \/ /\ calls'[b].pc \in {"connect", "sign"} /\ calls'[b].dialog = e
                       /\ Reads(calls'[b], g)
        BY <2>1
    <2> QED BY <1>5, <2>1, <2>5, <2>6, OneDialog
<1> QED BY <1>2, <1>4, <1>5

\* The button is off while a message is signed, sent or answered: a second call
\* can only begin while the wallet is asked, and the dialog is careless then.
LEMMA HandleSubmitKeeps ==
    ASSUME DialogInv, NEW c \in Calls, HandleSubmit(c)
    PROVE  DialogInv'
<1> DEFINE e == Latest
           old == dialogs[e]
           g == [old EXCEPT !.careless = @ \/ Connecting(e) # {}]
           call == [pc |-> "connect", dialog |-> e, clicked |-> old.form]
           given == [dialogs EXCEPT ![Latest].careless = @ \/ Connecting(Latest) # {}]
<1>1. e \in 1..Len(dialogs)
    BY LatestThere DEF HandleSubmit
<1>2. DOMAIN dialogs = 1..Len(dialogs) /\ DOMAIN old = DialogFields
      /\ DialogOK(old, calls, made, e) /\ calls = [b \in Calls |-> calls[b]]
    BY <1>1, DialogOf DEF DialogInv, Shape
<1>3. /\ DOMAIN g = DialogFields /\ g.entry = old.entry /\ g.form = old.form
      /\ g.result = old.result /\ g.submitting = old.submitting
      /\ g.careless = (old.careless \/ Connecting(e) # {})
    BY <1>2 DEF DialogFields
<1>4. given = [dialogs EXCEPT ![e] = g]
    BY <1>1, <1>2
<1>5. /\ call.pc = "connect" /\ call.dialog = e /\ call.clicked = g.form
    BY <1>3
<1>6. /\ calls[c] = Idle /\ ~old.submitting /\ old.result = None
      /\ UNCHANGED << mempool, kv, made >>
      /\ IF connected THEN Continue(c, call, given)
         ELSE dialogs' = given /\ calls' = [calls EXCEPT ![c] = call]
    BY DEF HandleSubmit
<1> HIDE DEF g, call, given
<1>7. ASSUME ~g.careless PROVE Going(calls, e) = {}
    <2>1. ASSUME NEW b \in Going(calls, e) PROVE calls[b].pc = "connect"
        BY <1>2, <1>3, <1>6, <1>7, <2>1 DEF DialogOK, CallsOK
    <2> QED BY <1>3, <1>7, <2>1 DEF Connecting, UnderWay, Going
<1>8. CASE connected
    <2>1. Continue(c, call, [dialogs EXCEPT ![e] = g])
        BY <1>4, <1>6, <1>8
    <2>2. ~g.careless => /\ Going(calls, e) \subseteq {c} /\ g.result = None
                         /\ call.clicked = g.form
        BY <1>3, <1>5, <1>6, <1>7
    <2> HIDE DEF e
    <2> QED BY <1>1, <1>3, <1>5, <1>6, <2>1, <2>2, ContinueKeeps
<1>9. CASE ~connected
    <2>1. dialogs' = [dialogs EXCEPT ![e] = g] /\ calls' = [calls EXCEPT ![c] = call]
        BY <1>4, <1>6, <1>9
    <2>2. /\ calls' = [b \in Calls |-> calls'[b]] /\ calls'[c] = call
          /\ \A b \in Calls : b # c => calls'[b] = calls[b]
        BY <1>2, <2>1
    <2>3. ASSUME ~g.careless PROVE Going(calls', e) \subseteq {c}
        BY <1>7, <2>2, <2>3 DEF Going
    <2>4. CallsOK(g, calls', e)
        BY <1>3, <1>5, <1>6, <2>2, <2>3 DEF CallsOK
    <2>5. MadeOK(g, calls', made, e)
        <3>1. ASSUME ~g.careless, NEW id \in Made(made, e) PROVE g.result = id
            BY <1>2, <1>3, <1>7, <3>1 DEF DialogOK, MadeOK
        <3> QED BY <3>1 DEF MadeOK
    <2>6. DialogOK(g, calls', made, e)
        BY <1>2, <1>3, <2>4, <2>5 DEF DialogOK, ShownOK
    <2>7. \A b \in Calls :
              \/ calls'[b] = calls[b]
              \/ /\ calls[b] = Idle \/ (calls[b].dialog = e /\ calls[b].pc # "await")
                 /\ \/ calls'[b] = Idle
                    \/ /\ calls'[b].pc \in {"connect", "sign"} /\ calls'[b].dialog = e
                       /\ Reads(calls'[b], g)
        BY <1>5, <1>6, <2>2 DEF Reads
    <2>8. old.careless => g.careless
        BY <1>3
    <2> HIDE DEF e
    <2> QED BY <1>1, <1>3, <1>6, <2>1, <2>2, <2>6, <2>7, <2>8, OneDialog
<1> QED BY <1>8, <1>9

\* A call that is one of a careful dialog is its only one.
LEMMA OnlyCall ==
    ASSUME DialogInv, NEW c \in Calls, calls[c].pc # "idle",
           ~dialogs[calls[c].dialog].careless
    PROVE  LET d == calls[c].dialog
           IN  /\ Going(calls, d) = {c} /\ dialogs[d].result = None
               /\ calls[c].pc = "connect" => calls[c].clicked = dialogs[d].form
<1> DEFINE d == calls[c].dialog
<1>1. d \in 1..Len(dialogs) /\ c \in Going(calls, d)
    BY CallOf
<1>2. CallsOK(dialogs[d], calls, d)
    BY <1>1 DEF DialogInv, DialogOK
<1> QED BY <1>1, <1>2 DEF CallsOK

LEMMA ConnectedKeeps ==
    ASSUME DialogInv, NEW c \in Calls, calls[c].pc = "connect",
           Continue(c, calls[c], dialogs), UNCHANGED << mempool, kv, made >>
    PROVE  DialogInv'
<1> DEFINE e == calls[c].dialog
           g == dialogs[e]
<1>1. e \in 1..Len(dialogs)
    BY CallOf
<1>2. DOMAIN dialogs = 1..Len(dialogs) /\ DOMAIN g = DialogFields
    BY <1>1, DialogOf
<1>3. [dialogs EXCEPT ![e] = g] = dialogs
    <2>1. IsSeq(dialogs)
        BY DEF DialogInv, Shape
    <2>2. dialogs = [i \in DOMAIN dialogs |-> dialogs[i]]
        BY <2>1 DEF IsSeq
    <2> QED BY <2>2
<1>4. ~g.careless => /\ Going(calls, e) \subseteq {c} /\ g.result = None
                     /\ calls[c].clicked = g.form
    BY OnlyCall
<1>5. Continue(c, calls[c], [dialogs EXCEPT ![e] = g])
    BY <1>3
<1> QED BY <1>1, <1>2, <1>4, <1>5, ContinueKeeps

LEMMA GivenUpKeeps ==
    ASSUME DialogInv, NEW c \in Calls, calls[c].pc = "connect",
           calls' = [calls EXCEPT ![c] = Idle], UNCHANGED dialogs,
           UNCHANGED << mempool, kv, made >>
    PROVE  DialogInv'
<1> DEFINE e == calls[c].dialog
           g == dialogs[e]
<1>1. e \in 1..Len(dialogs)
    BY CallOf
<1>2. /\ DOMAIN g = DialogFields /\ DialogOK(g, calls, made, e)
      /\ calls = [b \in Calls |-> calls[b]]
    BY <1>1, DialogOf DEF DialogInv, Shape
<1>3. dialogs' = [dialogs EXCEPT ![e] = g]
    <2>1. IsSeq(dialogs)
        BY DEF DialogInv, Shape
    <2>2. dialogs = [i \in DOMAIN dialogs |-> dialogs[i]]
        BY <2>1 DEF IsSeq
    <2> QED BY <2>2
<1>4. /\ calls' = [b \in Calls |-> calls'[b]] /\ calls'[c] = Idle
      /\ \A b \in Calls : b # c => calls'[b] = calls[b]
    BY <1>2
<1>5. ASSUME ~g.careless PROVE Going(calls, e) = {c} /\ Going(calls', e) = {}
    <2>1. Going(calls, e) = {c}
        BY <1>5, OnlyCall
    <2> QED BY <1>4, <2>1 DEF Going
<1>6. CallsOK(g, calls', e)
    BY <1>5 DEF CallsOK
<1>7. MadeOK(g, calls', made, e)
    <2>1. ASSUME ~g.careless, NEW id \in Made(made, e) PROVE g.result = id
        BY <1>2, <1>5, <2>1 DEF DialogOK, MadeOK
    <2> QED BY <2>1 DEF MadeOK
<1>8. DialogOK(g, calls', made, e)
    BY <1>2, <1>6, <1>7 DEF DialogOK
<1>9. \A b \in Calls :
          \/ calls'[b] = calls[b]
          \/ /\ calls[b] = Idle \/ (calls[b].dialog = e /\ calls[b].pc # "await")
             /\ \/ calls'[b] = Idle
                \/ /\ calls'[b].pc \in {"connect", "sign"} /\ calls'[b].dialog = e
                   /\ Reads(calls'[b], g)
    BY <1>4
<1> HIDE DEF e
<1> QED BY <1>1, <1>2, <1>3, <1>4, <1>8, <1>9, OneDialog

-----------------------------------------------------------------------------
(***************************************************************************)
(* The ends of a call.                                                     *)
(***************************************************************************)

\* A call of `e' ends, and its dialog becomes `new'.
LEMMA EndKeeps ==
    ASSUME DialogInv, NEW c \in Calls, calls[c].pc \in {"sign", "landed"},
           NEW new, DOMAIN new = DialogFields,
           new.entry = dialogs[calls[c].dialog].entry,
           dialogs[calls[c].dialog].careless => new.careless,
           dialogs' = [dialogs EXCEPT ![calls[c].dialog] = new],
           calls' = [calls EXCEPT ![c] = Idle],
           ShownOK(new, made, calls[c].dialog),
           calls[c].pc = "landed" /\ ~new.careless => new.result = calls[c].id,
           ~new.careless => ~dialogs[calls[c].dialog].careless,
           UNCHANGED << mempool, kv, made >>
    PROVE  DialogInv'
<1> DEFINE e == calls[c].dialog
           old == dialogs[e]
<1>1. e \in 1..Len(dialogs)
    BY CallOf
<1>2. DialogOK(old, calls, made, e) /\ calls = [b \in Calls |-> calls[b]]
    BY <1>1, DialogOf DEF DialogInv, Shape
<1>3. /\ calls' = [b \in Calls |-> calls'[b]] /\ calls'[c] = Idle
      /\ \A b \in Calls : b # c => calls'[b] = calls[b]
    BY <1>2
<1>4. ASSUME ~new.careless
      PROVE  Going(calls, e) = {c} /\ Going(calls', e) = {} /\ old.result = None
    <2>1. Going(calls, e) = {c} /\ old.result = None
        BY <1>4, OnlyCall
    <2> QED BY <1>3, <2>1 DEF Going
<1>5. CallsOK(new, calls', e)
    BY <1>4 DEF CallsOK
<1>6. MadeOK(new, calls', made, e)
    <2>1. ASSUME ~new.careless, NEW id \in Made(made, e)
          PROVE  new.result = id
        <3>1. id # None
            BY NoneAssumption DEF Made, DialogInv, StorageOK
        <3>2. calls[c].pc = "landed" /\ calls[c].id = id
            BY <1>2, <1>4, <2>1, <3>1 DEF DialogOK, MadeOK
        <3> QED BY <1>2, <2>1, <3>2 DEF DialogOK, MadeOK
    <2> QED BY <2>1 DEF MadeOK
<1>7. DialogOK(new, calls', made, e)
    BY <1>5, <1>6 DEF DialogOK
<1>8. \A b \in Calls :
          \/ calls'[b] = calls[b]
          \/ /\ calls[b] = Idle \/ (calls[b].dialog = e /\ calls[b].pc # "await")
             /\ \/ calls'[b] = Idle
                \/ /\ calls'[b].pc \in {"connect", "sign"} /\ calls'[b].dialog = e
                   /\ Reads(calls'[b], new)
    BY <1>3
<1> HIDE DEF e
<1> QED BY <1>1, <1>3, <1>7, <1>8, OneDialog DEF e

LEMMA RefuseKeeps ==
    ASSUME DialogInv, NEW c \in Calls, Refuse(c)
    PROVE  DialogInv'
<1> DEFINE e == calls[c].dialog
           old == dialogs[e]
           new == [old EXCEPT !.submitting = FALSE,
                              !.careless = @ \/ calls[c].pc \in {"await", "landed"}]
<1>1. calls[c].pc = "sign" /\ e \in 1..Len(dialogs)
    BY CallOf DEF Refuse
<1>2. /\ DOMAIN dialogs = 1..Len(dialogs) /\ DOMAIN old = DialogFields
      /\ DialogOK(old, calls, made, e)
    BY <1>1, DialogOf
<1>3. /\ DOMAIN new = DialogFields /\ new.entry = old.entry /\ new.result = old.result
      /\ new.careless = (old.careless \/ calls[c].pc \in {"await", "landed"})
    BY <1>2 DEF DialogFields
<1>4. dialogs' = [dialogs EXCEPT ![e] = new] /\ calls' = [calls EXCEPT ![c] = Idle]
    BY <1>1, <1>2 DEF Refuse, Fail
<1> HIDE DEF new
<1>5. UNCHANGED << mempool, kv, made >>
    BY DEF Refuse
<1>6. ShownOK(new, made, e)
    BY <1>2, <1>3 DEF DialogOK, ShownOK
<1>7. new.careless <=> old.careless
    BY <1>1, <1>3
<1> QED BY <1>1, <1>3, <1>4, <1>5, <1>6, <1>7, EndKeeps

\* The dialog shows what its own call has made.
LEMMA AnswerKeeps ==
    ASSUME DialogInv, NEW c \in Calls, Answer(c)
    PROVE  DialogInv'
<1> DEFINE e == calls[c].dialog
           old == dialogs[e]
           new == [old EXCEPT !.submitting = FALSE, !.result = calls[c].id]
<1>1. calls[c].pc = "landed" /\ e \in 1..Len(dialogs)
    BY CallOf DEF Answer
<1>2. DOMAIN dialogs = 1..Len(dialogs) /\ DOMAIN old = DialogFields
    BY <1>1, DialogOf
<1>3. /\ DOMAIN new = DialogFields /\ new.entry = old.entry /\ new.result = calls[c].id
      /\ new.careless = old.careless
    BY <1>2 DEF DialogFields
<1>4. dialogs' = [dialogs EXCEPT ![e] = new] /\ calls' = [calls EXCEPT ![c] = Idle]
    BY <1>1, <1>2 DEF Answer, ShownBy
<1> HIDE DEF new
<1>5. UNCHANGED << mempool, kv, made >>
    BY DEF Answer
<1>6. ShownOK(new, made, e)
    BY <1>1, <1>3 DEF DialogInv, LandedOK, ShownOK
<1> QED BY <1>1, <1>3, <1>4, <1>5, <1>6, EndKeeps

\* A lost answer: the transaction that waits belongs to no call any more.
LEMMA LoseAnswerKeeps ==
    ASSUME DialogInv, NEW c \in Calls, LoseAnswer(c)
    PROVE  DialogInv'
<1> DEFINE e == calls[c].dialog
           old == dialogs[e]
           new == [old EXCEPT !.submitting = FALSE,
                              !.careless = @ \/ calls[c].pc \in {"await", "landed"}]
<1>1. calls[c].pc \in {"await", "landed"} /\ e \in 1..Len(dialogs)
    BY CallOf DEF LoseAnswer
<1>2. /\ DOMAIN dialogs = 1..Len(dialogs) /\ DOMAIN old = DialogFields
      /\ DialogOK(old, calls, made, e)
    BY <1>1, DialogOf
<1>3. /\ DOMAIN new = DialogFields /\ new.entry = old.entry /\ new.result = old.result
      /\ new.careless
    BY <1>1, <1>2 DEF DialogFields
<1>4. dialogs' = [dialogs EXCEPT ![e] = new] /\ calls' = [calls EXCEPT ![c] = Idle]
    BY <1>1, <1>2 DEF LoseAnswer, Fail
<1>5. UNCHANGED << kv, made >>
    BY DEF LoseAnswer
<1>6. DialogOK(new, calls', made, e)
    BY <1>2, <1>3 DEF DialogOK, ShownOK, CallsOK, MadeOK
<1> HIDE DEF new
<1>7. CASE calls[c].pc = "landed"
    <2>1. UNCHANGED mempool
        BY <1>7 DEF LoseAnswer
    <2>2. ShownOK(new, made, e)
        BY <1>6 DEF DialogOK
    <2> QED BY <1>3, <1>4, <1>5, <1>7, <2>1, <2>2, EndKeeps
<1>8. CASE calls[c].pc = "await"
    <2>1. PICK tx \in mempool : tx.call = c
        BY <1>8 DEF DialogInv, PoolOK
    <2>2. Waits(dialogs, calls, tx) /\ mempool = {tx}
        BY DEF DialogInv, PoolOK
    <2> DEFINE lost == [tx EXCEPT !.call = None]
    <2>3. mempool' = {lost}
        BY <1>8, <2>2 DEF LoseAnswer
    <2>4. /\ DOMAIN lost = {"call", "dialog", "clicked", "read", "msg"} /\ lost.call = None
          /\ lost.dialog = e /\ tx.dialog = e /\ lost.read = tx.read /\ lost.msg = tx.msg
        BY <2>1, <2>2, DialogAssumption DEF Waits
    <2> HIDE DEF lost
    <2>5. /\ IsSeq(dialogs') /\ Len(dialogs') = Len(dialogs) /\ dialogs'[e] = new
          /\ \A d \in 1..Len(dialogs) : d # e => dialogs'[d] = dialogs[d]
        BY <1>1, <1>4, TouchedDialogs
    <2>6. calls = [b \in Calls |-> calls[b]]
        BY DEF DialogInv, Shape
    <2>7. /\ calls' = [b \in Calls |-> calls'[b]] /\ calls'[c] = Idle
          /\ \A b \in Calls : b # c => calls'[b] = calls[b]
        BY <1>4, <2>6
    <2> HIDE DEF e
    <2>8. Shape(dialogs', calls')
        BY <1>3, <2>5, <2>7 DEF DialogInv, Shape
    <2>9. Waits(dialogs', calls', lost)
        BY <1>1, <1>3, <2>1, <2>2, <2>4, <2>5 DEF Waits
    <2>10. ASSUME NEW b \in Calls, calls'[b].pc = "await" PROVE FALSE
        <3>1. b # c
            BY <2>7, <2>10 DEF Idle
        <3>2. calls[b].pc = "await"
            BY <2>7, <2>10, <3>1
        <3> QED BY <2>1, <2>2, <3>1, <3>2 DEF DialogInv, PoolOK
    <2>11. PoolOK(dialogs', calls', mempool')
        BY <2>3, <2>9, <2>10 DEF PoolOK
    <2>12. StorageOK(dialogs', kv, made)
        BY <2>5 DEF DialogInv, StorageOK
    <2>13. LandedOK(calls', made)
        BY <2>7 DEF DialogInv, LandedOK, Idle
    <2>14. ASSUME NEW d \in 1..Len(dialogs'), d # e
           PROVE  DialogOK(dialogs'[d], calls', made, d)
        <3>1. dialogs'[d] = dialogs[d] /\ DialogOK(dialogs[d], calls, made, d)
            BY <2>5, <2>14 DEF DialogInv
        <3>2. Going(calls', d) = Going(calls, d) /\ c \notin Going(calls, d)
            BY <2>7, <2>14 DEF Going, e
        <3>3. \A b \in Going(calls, d) : calls'[b] = calls[b]
            BY <2>7, <3>2 DEF Going
        <3>4. CallsOK(dialogs[d], calls', d)
            BY <3>1, <3>2, <3>3 DEF DialogOK, CallsOK
        <3>5. MadeOK(dialogs[d], calls', made, d)
            BY <3>1, <3>2, <3>3 DEF DialogOK, MadeOK
        <3> QED BY <3>1, <3>4, <3>5 DEF DialogOK
    <2>15. \A d \in 1..Len(dialogs') : DialogOK(dialogs'[d], calls', made, d)
        BY <1>6, <2>5, <2>14
    <2>16. ASSUME NEW d \in 1..Len(dialogs') PROVE ReadOK(dialogs'[d], calls', kv, made, d)
        <3>1. d \in 1..Len(dialogs) /\ ReadOK(dialogs[d], calls, kv, made, d)
            BY <2>5, <2>16 DEF DialogInv
        <3>2. /\ dialogs'[d].entry = dialogs[d].entry
              /\ ~dialogs'[d].careless => ~dialogs[d].careless
            BY <1>3, <2>5, <3>1
        <3>3. ASSUME NEW b \in Going(calls', d)
              PROVE  b \in Going(calls, d) /\ calls'[b] = calls[b]
            BY <2>7, <3>3 DEF Going
        <3>4. \A b \in Going(calls', d) : Reads(calls'[b], dialogs'[d])
            BY <3>1, <3>2, <3>3 DEF ReadOK, Reads
        <3> QED BY <3>1, <3>2, <3>4 DEF ReadOK
    <2> QED BY <1>5, <2>8, <2>11, <2>12, <2>13, <2>15, <2>16 DEF DialogInv
<1> QED BY <1>1, <1>7, <1>8

-----------------------------------------------------------------------------
(***************************************************************************)
(* The transaction of a call.                                              *)
(***************************************************************************)

LEMMA BroadcastKeeps ==
    ASSUME DialogInv, NEW c \in Calls, Broadcast(c)
    PROVE  DialogInv'
<1> DEFINE e == calls[c].dialog
           tx == [call |-> c, dialog |-> e, clicked |-> calls[c].clicked,
                  read |-> calls[c].read, msg |-> calls[c].msg]
           waiting == [pc |-> "await", dialog |-> e]
<1>1. calls[c].pc = "sign" /\ mempool = {} /\ e \in 1..Len(dialogs) /\ c \in Going(calls, e)
    BY CallOf DEF Broadcast
<1>2. calls = [b \in Calls |-> calls[b]]
    BY DEF DialogInv, Shape
<1>3. /\ mempool' = {tx} /\ UNCHANGED << dialogs, kv, made >>
      /\ calls' = [calls EXCEPT ![c] = waiting]
    BY <1>2 DEF Broadcast
<1>4. /\ DOMAIN tx = {"call", "dialog", "clicked", "read", "msg"}
      /\ tx.call = c /\ tx.dialog = e
      /\ tx.clicked = calls[c].clicked /\ tx.read = calls[c].read /\ tx.msg = calls[c].msg
      /\ waiting.pc = "await" /\ waiting.dialog = e /\ waiting # Idle
    BY DEF Idle
<1> HIDE DEF tx, waiting
<1>5. /\ calls' = [b \in Calls |-> calls'[b]] /\ calls'[c] = waiting
      /\ \A b \in Calls : b # c => calls'[b] = calls[b]
    BY <1>2, <1>3
<1>6. Shape(dialogs, calls')
    BY <1>1, <1>4, <1>5 DEF DialogInv, Shape
<1>7. PoolOK(dialogs, calls', mempool')
    <2>1. /\ tx.msg = Meant(dialogs[e].entry, tx.read)
          /\ ~dialogs[e].careless => tx.read = tx.clicked
        BY <1>1, <1>4 DEF DialogInv, ReadOK, Reads
    <2>2. Waits(dialogs, calls', tx)
        BY <1>1, <1>4, <1>5, <2>1, DialogAssumption DEF Waits
    <2>3. \A b \in Calls : b # c => calls[b].pc # "await"
        BY <1>1 DEF DialogInv, PoolOK
    <2> QED BY <1>3, <1>4, <1>5, <2>2, <2>3 DEF PoolOK
<1>8. LandedOK(calls', made)
    BY <1>4, <1>5 DEF DialogInv, LandedOK
<1>9. ASSUME NEW d \in 1..Len(dialogs) PROVE DialogOK(dialogs[d], calls', made, d)
    <2>1. DialogOK(dialogs[d], calls, made, d)
        BY DEF DialogInv
    <2>2. Going(calls', d) = Going(calls, d)
        BY <1>1, <1>4, <1>5 DEF Going
    <2>3. \A b \in Going(calls, d) : b # c => calls'[b] = calls[b]
        BY <1>5 DEF Going
    <2>4. CallsOK(dialogs[d], calls', d)
        BY <1>1, <1>4, <1>5, <2>1, <2>2, <2>3 DEF DialogOK, CallsOK
    <2>5. MadeOK(dialogs[d], calls', made, d)
        BY <1>1, <2>1, <2>2, <2>3 DEF DialogOK, MadeOK
    <2> QED BY <2>1, <2>4, <2>5 DEF DialogOK
<1>10. StorageOK(dialogs, kv, made)
    BY DEF DialogInv
<1>11. ASSUME NEW d \in 1..Len(dialogs) PROVE ReadOK(dialogs[d], calls', kv, made, d)
    <2>1. ReadOK(dialogs[d], calls, kv, made, d)
        BY DEF DialogInv
    <2>2. \A b \in Going(calls', d) : Reads(calls'[b], dialogs[d])
        BY <1>1, <1>4, <1>5, <2>1 DEF ReadOK, Reads, Going
    <2> QED BY <2>1, <2>2 DEF ReadOK
<1> QED BY <1>3, <1>6, <1>7, <1>8, <1>9, <1>10, <1>11 DEF DialogInv

\* execute_subscribe stores what was meant, under an identifier not used before.
LEMMA ResponseStep ==
    ASSUME NEW k, k = [next_id |-> k.next_id, subs |-> k.subs, events |-> k.events],
           k.next_id \notin Ids(k), NEW m
    PROVE  LET j == execute_subscribe(k, User, m, Height).kv
           IN  /\ j = [next_id |-> j.next_id, subs |-> j.subs, events |-> j.events]
               /\ j.next_id = k.next_id + 1
               /\ Ids(j) = Ids(k) \cup {k.next_id}
               /\ j.subs[k.next_id] = Subscription(k.next_id, User, m, Height)
               /\ \A id \in Ids(k) : j.subs[id] = k.subs[id]
<1> DEFINE j == execute_subscribe(k, User, m, Height).kv
           new == Subscription(k.next_id, User, m, Height)
           subs == Save(k.subs, k.next_id, new)
<1> HIDE DEF new
<1>1. /\ DOMAIN subs = Ids(k) \cup {k.next_id} /\ subs[k.next_id] = new
      /\ \A id \in Ids(k) : subs[id] = k.subs[id]
    BY DEF Save, Ids
<1>2. j = [next_id |-> k.next_id + 1, subs |-> subs, events |-> k.events]
    BY DEF execute_subscribe, new
<1> HIDE DEF subs
<1>3. j.next_id = k.next_id + 1 /\ j.subs = subs /\ j.events = k.events
    BY <1>2
<1> HIDE DEF j
<1> QED BY <1>1, <1>2, <1>3 DEF Ids, j, new

LEMMA IncludeKeeps ==
    ASSUME DialogInv, Include
    PROVE  DialogInv'
<1>1. PICK tx \in mempool :
        /\ kv' = Response(tx.msg).kv
        /\ made' = [id \in DOMAIN made \cup {kv.next_id} |->
                        IF id = kv.next_id
                        THEN [dialog |-> tx.dialog, clicked |-> tx.clicked, read |-> tx.read]
                        ELSE made[id]]
        /\ calls' = [c \in Calls |->
                        IF c = tx.call
                        THEN [pc |-> "landed", dialog |-> tx.dialog, id |-> kv.next_id]
                        ELSE calls[c]]
    BY DEF Include
<1> DEFINE n == kv.next_id
           e == tx.dialog
           entered == [dialog |-> e, clicked |-> tx.clicked, read |-> tx.read]
           done == [pc |-> "landed", dialog |-> e, id |-> n]
           m == [tx.msg EXCEPT !.condition = Read(@, "base64")]
<1>2. mempool' = {} /\ UNCHANGED dialogs
    BY DEF Include
<1>3. Waits(dialogs, calls, tx) /\ mempool = {tx} /\ e \in 1..Len(dialogs)
    BY DEF DialogInv, PoolOK, Waits
<1>4. n \in Nat \ {0} /\ n \notin DOMAIN made /\ DOMAIN made = Ids(kv)
    BY DEF DialogInv, StorageOK
<1>5. /\ kv' = [next_id |-> kv'.next_id, subs |-> kv'.subs, events |-> kv'.events]
      /\ kv'.next_id = n + 1
      /\ Ids(kv') = Ids(kv) \cup {n}
      /\ kv'.subs[n] = Subscription(n, User, m, Height)
      /\ \A id \in Ids(kv) : kv'.subs[id] = kv.subs[id]
    <2>1. kv = [next_id |-> kv.next_id, subs |-> kv.subs, events |-> kv.events]
        BY DEF DialogInv, StorageOK
    <2>2. kv' = execute_subscribe(kv, User, m, Height).kv
        BY <1>1 DEF Response
    <2> HIDE DEF m
    <2> QED BY <1>4, <2>1, <2>2, ResponseStep
<1>6. /\ entered.dialog = e /\ entered.clicked = tx.clicked /\ entered.read = tx.read
      /\ done # Idle
      /\ done.pc = "landed" /\ done.dialog = e /\ done.id = n
    BY DEF Idle
<1> HIDE DEF entered, done
<1>7. /\ DOMAIN made' = DOMAIN made \cup {n} /\ made'[n] = entered
      /\ \A id \in DOMAIN made : made'[id] = made[id]
    BY <1>1, <1>4 DEF entered
<1>8. /\ calls' = [c \in Calls |-> calls'[c]]
      /\ \A c \in Calls : calls'[c] = IF c = tx.call THEN done ELSE calls[c]
    BY <1>1 DEF done
<1>9. /\ Made(made', e) = Made(made, e) \cup {n}
      /\ \A d : d # e => Made(made', d) = Made(made, d)
    BY <1>4, <1>6, <1>7 DEF Made
<1> HIDE DEF m
<1>10. Shape(dialogs, calls')
    BY <1>3, <1>6, <1>8 DEF DialogInv, Shape
<1>11. PoolOK(dialogs, calls', mempool')
    <2>1. \A c \in Calls : calls[c].pc = "await" => c = tx.call
        BY <1>3 DEF DialogInv, PoolOK
    <2> QED BY <1>2, <1>6, <1>8, <2>1 DEF PoolOK
<1>12. StorageOK(dialogs, kv', made')
    <2>1. ASSUME NEW id \in DOMAIN made'
          PROVE  id \in 1..n /\ made'[id].dialog \in 1..Len(dialogs)
        <3>1. CASE id = n
            BY <1>3, <1>4, <1>6, <1>7, <3>1
        <3>2. CASE id \in DOMAIN made
            <4>1. id \in 1..(n - 1) /\ made[id].dialog \in 1..Len(dialogs)
                BY <3>2 DEF DialogInv, StorageOK
            <4> QED BY <1>4, <1>7, <3>2, <4>1
        <3> QED BY <1>7, <3>1, <3>2
    <2>2. 1..n = 1..(kv'.next_id - 1) /\ kv'.next_id \in Nat \ {0}
        BY <1>4, <1>5
    <2> QED BY <1>4, <1>5, <1>7, <2>1, <2>2 DEF StorageOK
<1>13. LandedOK(calls', made')
    <2>1. \A d : Made(made, d) \subseteq Made(made', d)
        BY <1>7 DEF Made
    <2> QED BY <1>6, <1>8, <1>9, <2>1 DEF DialogInv, LandedOK
<1>14. ASSUME NEW d \in 1..Len(dialogs) PROVE DialogOK(dialogs[d], calls', made', d)
    <2>1. DialogOK(dialogs[d], calls, made, d)
        BY DEF DialogInv
    <2>2. ShownOK(dialogs[d], made', d)
        BY <1>9, <2>1 DEF DialogOK, ShownOK
    <2>3. Going(calls', d) = Going(calls, d)
        <3>1. \A c \in Calls : c = tx.call => /\ calls[c] # Idle /\ calls[c].dialog = e
                                             /\ calls'[c] # Idle /\ calls'[c].dialog = e
            BY <1>3, <1>6, <1>8, DialogAssumption DEF Waits
        <3> QED BY <1>8, <3>1 DEF Going
    <2>4. \A c \in Going(calls, d) : c # tx.call => calls'[c] = calls[c]
        BY <1>8 DEF Going
    <2>5. ASSUME ~dialogs[d].careless, tx.call \in Going(calls, d)
          PROVE  d = e /\ calls[tx.call].pc = "await" /\ dialogs[d].submitting
        <3>1. d = e /\ calls[tx.call].pc = "await"
            BY <1>3, <2>5, DialogAssumption DEF Waits, Going
        <3> QED BY <2>1, <2>5, <3>1 DEF DialogOK, CallsOK
    <2>6. CallsOK(dialogs[d], calls', d)
        BY <1>6, <1>8, <2>1, <2>3, <2>4, <2>5 DEF DialogOK, CallsOK, Going
    <2>7. ASSUME ~dialogs[d].careless, NEW id \in Made(made', d)
          PROVE  \/ dialogs[d].result = id
                 \/ \E c \in Going(calls', d) : calls'[c].pc = "landed" /\ calls'[c].id = id
        <3>1. CASE id \in Made(made, d)
            <4>1. \/ dialogs[d].result = id
                  \/ \E c \in Going(calls, d) : calls[c].pc = "landed" /\ calls[c].id = id
                BY <2>1, <2>7, <3>1 DEF DialogOK, MadeOK
            <4> QED BY <2>3, <2>4, <2>5, <2>7, <4>1
        <3>2. CASE id = n /\ d = e
            <4>1. tx.call \in Calls /\ tx.call \in Going(calls, d)
                BY <1>3, <2>7, <3>2 DEF Waits, Going
            <4>2. calls'[tx.call].pc = "landed" /\ calls'[tx.call].id = id
                BY <1>6, <1>8, <3>2, <4>1
            <4> QED BY <2>3, <4>1, <4>2
        <3> QED BY <1>9, <3>1, <3>2
    <2>8. MadeOK(dialogs[d], calls', made', d)
        BY <2>7 DEF MadeOK
    <2> QED BY <2>2, <2>6, <2>8 DEF DialogOK
<1>15. ASSUME NEW d \in 1..Len(dialogs) PROVE ReadOK(dialogs[d], calls', kv', made', d)
    <2>1. ReadOK(dialogs[d], calls, kv, made, d)
        BY DEF DialogInv
    <2>2. \A c \in Going(calls', d) : Reads(calls'[c], dialogs[d])
        BY <1>6, <1>8, <2>1 DEF ReadOK, Reads, Going
    <2>3. ASSUME NEW id \in Made(made', d)
          PROVE  /\ kv'.subs[id] = StoredOf(id, dialogs[d].entry, made'[id].read)
                 /\ ~dialogs[d].careless => made'[id].read = made'[id].clicked
        <3>1. CASE id \in Made(made, d)
            <4>1. id \in DOMAIN made
                BY <3>1 DEF Made
            <4>2. kv'.subs[id] = kv.subs[id] /\ made'[id] = made[id]
                BY <1>4, <1>5, <1>7, <4>1
            <4> QED BY <2>1, <3>1, <4>2 DEF ReadOK
        <3>2. CASE id = n /\ d = e
            <4>1. /\ tx.msg = Meant(dialogs[d].entry, tx.read)
                  /\ ~dialogs[d].careless => tx.read = tx.clicked
                BY <1>3, <3>2 DEF Waits
            <4>2. kv'.subs[id] = StoredOf(id, dialogs[d].entry, tx.read)
                BY <1>5, <3>2, <4>1 DEF StoredOf, m
            <4>3. made'[id].read = tx.read /\ made'[id].clicked = tx.clicked
                BY <1>6, <1>7, <3>2
            <4> QED BY <4>1, <4>2, <4>3
        <3> QED BY <1>9, <2>3, <3>1, <3>2
    <2> QED BY <2>2, <2>3 DEF ReadOK
<1> QED BY <1>2, <1>10, <1>11, <1>12, <1>13, <1>14, <1>15 DEF DialogInv

-----------------------------------------------------------------------------
(***************************************************************************)
(* A new dialog, and the theorems.                                         *)
(***************************************************************************)

LEMMA OpenKeeps ==
    ASSUME DialogInv, NEW entry, NEW form, Open(entry, form)
    PROVE  DialogInv'
<1> DEFINE new == [open |-> TRUE, entry |-> entry, form |-> form, submitting |-> FALSE,
                   result |-> None, careless |-> FALSE]
           n == Len(dialogs)
<1>1. dialogs' = Append(dialogs, new) /\ UNCHANGED << calls, mempool, kv, made >>
    BY DEF Open
<1>2. IsSeq(dialogs) /\ n \in Nat
    BY SeqLength DEF DialogInv, Shape
<1>3. DOMAIN new = DialogFields /\ new.result = None
    BY DEF DialogFields
<1> HIDE DEF new
<1>4. /\ IsSeq(dialogs') /\ Len(dialogs') = n + 1 /\ dialogs'[n + 1] = new
      /\ \A d \in 1..n : dialogs'[d] = dialogs[d]
    BY <1>1, <1>2, AppendSeq
<1>5. 1..Len(dialogs') = 1..n \cup {n + 1} /\ n + 1 \notin 1..n
    BY <1>2, <1>4
<1>6. Shape(dialogs', calls)
    BY <1>3, <1>4, <1>5 DEF DialogInv, Shape
<1>7. PoolOK(dialogs', calls, mempool)
    <2>1. ASSUME NEW tx, Waits(dialogs, calls, tx) PROVE Waits(dialogs', calls, tx)
        BY <1>4, <1>5, <2>1 DEF Waits
    <2> QED BY <2>1 DEF DialogInv, PoolOK
<1>8. StorageOK(dialogs', kv, made)
    BY <1>5 DEF DialogInv, StorageOK
<1>9. Going(calls, n + 1) = {} /\ Made(made, n + 1) = {}
    BY <1>5 DEF DialogInv, Shape, StorageOK, Going, Made
<1>10. DialogOK(new, calls, made, n + 1)
    BY <1>3, <1>9 DEF DialogOK, ShownOK, CallsOK, MadeOK
<1>11. \A d \in 1..Len(dialogs') : DialogOK(dialogs'[d], calls, made, d)
    BY <1>4, <1>5, <1>10 DEF DialogInv
<1>12. ReadOK(new, calls, kv, made, n + 1)
    BY <1>9 DEF ReadOK
<1>13. \A d \in 1..Len(dialogs') : ReadOK(dialogs'[d], calls, kv, made, d)
    BY <1>4, <1>5, <1>12 DEF DialogInv
<1> QED BY <1>1, <1>6, <1>7, <1>8, <1>11, <1>13 DEF DialogInv

LEMMA InitialInv ==
    ASSUME Init
    PROVE  DialogInv
<1>1. /\ << >> \in Seq({(<< >>)[i] : i \in DOMAIN << >>}) /\ Len(<< >>) = 0
      /\ DOMAIN << >> = {} /\ 1..0 = {}
    OBVIOUS
<1>2. Shape(dialogs, calls)
    BY <1>1 DEF Init, Shape, IsSeq, Idle
<1>3. PoolOK(dialogs, calls, mempool)
    BY DEF Init, PoolOK, Idle
<1>4. StorageOK(dialogs, kv, made)
    BY <1>1 DEF Init, StorageOK, InitialStorage, Ids
<1>5. LandedOK(calls, made)
    BY DEF Init, LandedOK, Idle
<1> QED BY <1>1, <1>2, <1>3, <1>4, <1>5 DEF Init, DialogInv

\* The invariant behind the three theorems below.
THEOREM DialogInvariant == Spec => []DialogInv
<1>1. Init => DialogInv
    BY InitialInv
<1>2. DialogInv /\ [Next]_vars => DialogInv'
    <2> SUFFICES ASSUME DialogInv, [Next]_vars PROVE DialogInv'
        OBVIOUS
    <2>1. CASE UNCHANGED vars
        BY <2>1 DEF vars, DialogInv
    <2>2. ASSUME NEW c \in Calls, Connect(c) PROVE DialogInv'
        BY <2>2, ConnectedKeeps DEF Connect
    <2>3. ASSUME NEW c \in Calls, FailConnect(c) PROVE DialogInv'
        BY <2>3, ConnectedKeeps, GivenUpKeeps DEF FailConnect
    <2> QED BY <2>1, <2>2, <2>3, OpenKeeps, EditKeeps, CloseKeeps, IncludeKeeps,
               HandleSubmitKeeps, BroadcastKeeps, RefuseKeeps, AnswerKeeps, LoseAnswerKeeps
            DEF Next
<1> QED BY <1>1, <1>2, PTL DEF Spec

\* What a careful dialog has made is one subscription, the one it shows or will.
LEMMA OneMade ==
    ASSUME DialogInv, NEW d \in 1..Len(dialogs), ~dialogs[d].careless,
           NEW i \in Made(made, d), NEW j \in Made(made, d)
    PROVE  i = j
<1>1. CallsOK(dialogs[d], calls, d) /\ MadeOK(dialogs[d], calls, made, d)
    BY DEF DialogInv, DialogOK
<1>2. i # None /\ j # None
    BY NoneAssumption DEF DialogInv, StorageOK, Made
<1> QED BY <1>1, <1>2 DEF CallsOK, MadeOK

\* `submitting' and the button: however often the user tries, closes the dialog
\* and opens another, a careful dialog makes one subscription at most.
THEOREM AtMostOnePerDialog == Spec => []OncePerDialog
<1>1. ASSUME DialogInv PROVE OncePerDialog
    <2>1. ASSUME NEW d \in Careful PROVE Cardinality(MadeBy(d)) <= 1
        <3>1. d \in 1..Len(dialogs) /\ ~dialogs[d].careless /\ MadeBy(d) = Made(made, d)
            BY <1>1, SeqLength DEF Careful, MadeBy, Made, DialogInv, Shape
        <3>2. CASE Made(made, d) = {}
            BY <3>1, <3>2, FS_EmptySet
        <3>3. CASE Made(made, d) # {}
            <4>1. PICK i \in Made(made, d) : TRUE
                BY <3>3
            <4>2. Made(made, d) = {i}
                BY <1>1, <3>1, <4>1, OneMade
            <4>3. Cardinality({i}) = 1
                BY FS_Singleton
            <4> QED BY <3>1, <4>2, <4>3
        <3> QED BY <3>2, <3>3
    <2> QED BY <2>1 DEF OncePerDialog
<1> QED BY <1>1, DialogInvariant, PTL

\* A dialog shows what its own transaction has made, and a careful one that is
\* done shows whatever it has made.
THEOREM SuccessShownIsOwn == Spec => []SuccessIsOwn
<1>1. ASSUME DialogInv PROVE SuccessIsOwn
    <2>1. DOMAIN dialogs = 1..Len(dialogs)
        BY <1>1, SeqLength DEF DialogInv, Shape
    <2>2. \A d : MadeBy(d) = Made(made, d) /\ UnderWay(d) = Going(calls, d)
        BY DEF MadeBy, Made, UnderWay, Going
    <2>3. ASSUME NEW d \in 1..Len(dialogs), dialogs[d].result # None
          PROVE  dialogs[d].result \in MadeBy(d)
        BY <1>1, <2>2, <2>3 DEF DialogInv, DialogOK, ShownOK
    <2>4. ASSUME NEW d \in Careful, NEW id \in MadeBy(d)
          PROVE  dialogs[d].result # None \/ UnderWay(d) # {}
        <3>1. id # None
            BY <1>1, <2>4, NoneAssumption DEF DialogInv, StorageOK, MadeBy
        <3> QED BY <1>1, <2>1, <2>2, <2>4, <3>1 DEF Careful, DialogInv, DialogOK, MadeOK
    <2> QED BY <2>1, <2>3, <2>4 DEF SuccessIsOwn
<1> QED BY <1>1, DialogInvariant, PTL

\* executeSubscribe: what is stored is the entry of the dialog and what its form
\* said when the wallet was connected, in every dialog, careful or not; and that is
\* the form that was clicked in a careful one.
THEOREM StoredIsRead == Spec => []StoredAsRead
<1>1. ASSUME DialogInv PROVE StoredAsRead
    <2> SUFFICES ASSUME NEW id \in DOMAIN made
                 PROVE  LET read == made[id].read
                            dialog == dialogs[made[id].dialog]
                            sub == kv.subs[id]
                        IN  /\ sub.creator = User
                            /\ sub.key_path = << dialog.entry.store >>
                            /\ sub.watch_key = dialog.entry.key
                            /\ ~TakesBinary(read.condition) => sub.condition = read.condition
                            /\ read.expires \in {None, 0} => sub.expires_at = None
                            /\ read.expires \notin {None, 0} =>
                                    sub.expires_at = Height + read.expires
                            /\ ~dialog.careless => read = made[id].clicked
        BY DEF StoredAsRead
    <2> DEFINE read == made[id].read
               dialog == dialogs[made[id].dialog]
               meant == Meant(dialog.entry, read)
               m == [meant EXCEPT !.condition = Read(@, "base64")]
    <2>1. made[id].dialog \in 1..Len(dialogs) /\ id \in Made(made, made[id].dialog)
        BY <1>1 DEF DialogInv, StorageOK, Made
    <2>2. /\ kv.subs[id] = Subscription(id, User, m, Height)
          /\ ~dialog.careless => read = made[id].clicked
        BY <1>1, <2>1 DEF DialogInv, ReadOK, StoredOf
    <2>3. /\ m.key_path = << dialog.entry.store >> /\ m.watch_key = dialog.entry.key
          /\ m.condition = Read(read.condition, "base64")
          /\ m.expires_after_blocks = Lifetime(read.expires)
        BY DEF Meant, SubscribeMsg
    <2> HIDE DEF m
    <2>4. /\ kv.subs[id].creator = User /\ kv.subs[id].key_path = m.key_path
          /\ kv.subs[id].watch_key = m.watch_key /\ kv.subs[id].condition = m.condition
          /\ kv.subs[id].expires_at = ExpiryOf(m, Height)
        BY <2>2 DEF Subscription
    <2>5. ~TakesBinary(read.condition) => m.condition = read.condition
        BY <2>3 DEF TakesBinary, Read
    <2>6. /\ read.expires \in {None, 0} => ExpiryOf(m, Height) = None
          /\ read.expires \notin {None, 0} => ExpiryOf(m, Height) = Height + read.expires
        BY <2>3 DEF Lifetime, ExpiryOf
    <2> QED BY <2>2, <2>3, <2>4, <2>5, <2>6
<1> QED BY <1>1, DialogInvariant, PTL

=============================================================================
