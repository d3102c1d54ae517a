# Interchain events: specification, model checking and proofs

Interchain events lets a contract on one chain (the *hub*) subscribe to a key
in the state of another chain (the *remote chain*). When the value of that key
meets a condition, somebody (usually the *watcher*, a server) submits an ICS-23
proof of the value, and the interchain-events contract calls the subscriber's
callback contract, once.

This directory holds TLA+ modules for that system, TLC configurations that
check them on small instances, and TLAPS proofs for every instance.
Paths below are relative to the root of the repository.

## 1. The system

| component | source | state | operations |
|---|---|---|---|
| interchain-events contract | `contracts/interchain-events` | `NEXT_ID`, `SUBSCRIPTIONS` (`CONFIG`, never read) | `instantiate`, `subscribe`, `submit_proof`, `reply`; queries |
| condition evaluation | `contract.rs` 25-62, 229-286 | none | `compare_values`, `parse_u128`, the match on `SubscriptionCondition` |
| proof verification | `verification.rs`, `proto.rs` | none | `verify_chained_membership`, `decode_merkle_proof` |
| proof-callback contract | `contracts/proof-callback` | `EVENTS` | `interchain_event`, which anyone may call |
| attestation-registry contract | `contracts/attestation-registry` | `ATTESTATIONS` | `attest`, which anyone may call and which overwrites |
| watcher | `frontend/server/utils/watcher.ts` | `state.subscriptions` (a cache), the poll timer, what each awaiting function holds in its locals | poll, check the condition, fetch proof and header, sign, broadcast, wait |
| endpoints of the server | `frontend/server/api/watcher` | share the watcher's | `submit-proof`: `submitProofForSubscription`, beside the poll; `status`: the list of the last poll |
| test-flow scripts | `scripts` | none, but for what `main` holds in its locals | attest, subscribe, wait, build the proof, submit it, read the callback's events |
| state explorer | `useStateExplorer.ts`, `TreeNode.vue` | a tree of nodes, loaded lazily; the text in each search bar | expand, next page, search, open a subscription dialog |
| subscribe dialog, wallet | `SubscribeModal.vue`, `useKeplr.ts` | form, `submitting`, result; `connected`, shared by all dialogs | open, edit, submit, close |
| watcher page | `watcher.vue` | polled status; for each subscription a button, a result and a key | ask for the status, submit a proof |

How they interact:

- *interchain-events → callback contract*: a submessage with `reply_on_error`,
  inside the transaction of the submitted proof. The callback contract is
  chosen by the subscriber and may call interchain-events back. The runtime
  rolls back what a failed submessage did, and nothing else.
- *watcher → hub*: a query for the list of subscriptions; transactions,
  simulated first, signed with a sequence number read from the chain, broadcast
  into a mempool and awaited for at most a minute.
- *watcher → remote chain*: `abci_query` with a proof, then the header of the
  *next* block, which carries the application hash of the state proven.
- *endpoint and polling loop* share the cached list and the account.
- *watcher page → endpoints*: the status every five seconds and after each
  submission; a submission per click.
- *test-flow → both chains*, with an account of its own: what it subscribes to
  the watcher serves too, so the two race for one trigger.
- *explorer → remote chain*: REST queries for pages and searches.
- *explorer → dialog → hub*: an entry of the tree opens the dialog, which signs a
  `subscribe` message with the user's wallet.

What is hard, and what correctness means for each part:

- **The contract** is re-entered from its own callbacks, at any depth; a
  failure rolls back part of what happened, a lack of gas all of it.
  *Each subscription is decided at most once; it is Triggered exactly when its
  callback took effect; what was delivered met the condition in time; a
  rolled-back message leaves no trace, the counter of identifiers included.*
- **Verification** computes the root of the lower level from the submitted
  proof itself. *What is accepted is in the state the application hash stands
  for; what an honest node answers is accepted.*
- **Conditions** are checked twice, in JavaScript and in Rust. *The two agree.*
- **The watcher** interleaves a loop and requests over one account and one
  cache, against two chains that move meanwhile; calls fail, transactions land
  after the wait for them is over, the server restarts. *The messages it puts
  together verify; a trigger was true; a subscription takes effect once; every
  subscription whose condition comes to stay is served; requests are answered.*
- **The front end** awaits pages, searches and the wallet while the user goes
  on clicking. *No spinner is left behind, whatever fails or comes late; a page
  is shown once and the result shown is of the last search; an entry is watched
  under its own key; a dialog makes one subscription, of what was entered.*
- **The installation as a whole**: loop, page and script are after the same
  subscription. *Whoever is told of success is the one whose transaction took
  effect; whoever is refused was overtaken; every button comes back.*

The hazards, each at its source line and with the properties that cover it, are
listed in `PROJECT.json`.

## 2. The modules

| module | models | builds on |
|---|---|---|
| `Conditions` | conditions and their evaluation | |
| `Verification` | two-level membership proofs, and what an honest node answers | |
| `Membership` | a submission verified against a state of a chain | `Verification` |
| `Subscriptions` | storage and handlers of interchain-events and proof-callback, as operators | `Conditions`, `Verification` |
| `InterchainEvents` | the contracts under the runtime's dispatch of messages | `Subscriptions` |
| `OneShotSubscriptions` | abstract: what the contract promises | |
| `InterchainEventsInv` | the inductive invariant | `InterchainEvents` |
| `CheckCondition` | the watcher's check of a condition | `Conditions` |
| `BothChecks` | the watcher's check and the contract's, side by side | `CheckCondition` |
| `Queries` | the list query | `Subscriptions` |
| `RemoteChain` | attestation-registry, blocks, and what a node answers | `Conditions`, `Verification` |
| `Watcher` | polling loop, endpoint, mempool, both chains together | `Queries`, `RemoteChain`, `CheckCondition`; `OneShotSubscriptions` as its promise |
| `TestFlow` | the full run of the end-to-end script | `Watcher` |
| `WatcherPage` | the dashboard in a browser and the two endpoints it calls | `Watcher` |
| `Deployment` | chains, server, dashboard and script together | `TestFlow`, `WatcherPage` |
| `WasmKeys` | keys of contract storage, taken apart for display and put together again | |
| `StateExplorer` | a folder of the state explorer and the component that shows it | `WasmKeys` |
| `WatchButtons` | the storage of a contract in a folder, and the buttons that open a dialog | `StateExplorer` |
| `SubscribeDialog` | subscribe dialogs, the wallet, the user's transactions, the contract behind them | `Subscriptions` |
| `OperatorProofs` | lemmas on sequences, and theorems about `Verification` | `CheckCondition`, `Verification` |
| `InterchainEventsProofs`, `MembershipProofs`, `BothChecksProofs`, `WatcherProofs`, `DeploymentProofs`, `StateExplorerProofs`, `SubscribeDialogProofs` | theorems about the module they are named for (`StateExplorerProofs`: about `WatchButtons` and all below it) | |
| `MC*` | instances for TLC | |

A definition has the name of the function or type it translates where there is
one. A definition with a suffix (`Expired_FromCreation`) is the same code with
a plausible mistake in it, used to confirm that a property would notice.

### Values (`Conditions`)

A value on chain is a byte string. It is described by what those who decode it
can tell: its place among byte strings, whether it is UTF-8, its text, the
numeral in it (a sign, digits, and a fraction, an exponent, `Infinity` or other
text after them) with the white space and quotes around it, and what Rust and
JavaScript find and print along the paths of its JSON document.
`compare_values`, `parse_u128` and `EvaluateCondition` (step 4 of
`execute_submit_proof`) work on these: digits alone, after a plus sign at most,
are a number, and a minus sign, a fraction or an exponent is an error. So does
`checkCondition` of the watcher, with `parseFloat`, `atob` and `String()` in
the place of `u128`, bytes and `to_string`: there -5, .5, 7.5, 1e1 and
Infinity are numbers, and 7uatom is 7. A fraction is .5 and an exponent e1, for
all; numbers are counted in halves and rounded to the nearest double, ties to
even. `U128Max` and `F53Max` (2^53 in a double) are small constants, so that the
ends of both ranges are within reach. White space other than ASCII's, and a byte
order mark in a value (which `TextDecoder` drops), are not described.

### Proofs (`Verification`, `Membership`)

Hashes are symbolic: the root of a tree *is* its kind with the set of its
leaves, so equal roots are equal trees (collision freedom). An existence proof
is a leaf and the rest of the tree it claims to sit in, and anyone can make one
for a tree of his own. ics23 is external, modelled by what the contract relies
on: the empty keys and values it refuses, batch proofs, specs that differ.
`Membership` submits every pair of such proofs in any order, encoding and
number against the application hash of a state.

### The contracts and the runtime (`Subscriptions`, `InterchainEvents`)

The handlers are operators from a storage to a response. `InterchainEvents`
has one action per thing that can happen:

| action | code |
|---|---|
| `Subscribe` | `execute_subscribe`, accepted or refused |
| `AcceptProof` | `execute_submit_proof` up to the submessage it returns: the subscription is saved as Triggered and its callback starts |
| `RefuseProof` | every error of `execute_submit_proof`, the one that saves `Expired` before it fails included |
| `CallbackSucceeds` | proof-callback records the event; another contract returns |
| `CallbackFails` | the runtime rolls back and calls `reply`, which saves `Failed` |
| `OutOfGas` | the whole transaction is dropped, `reply` never called |
| `Forge` | proof-callback called by someone else |
| `NextBlock` | |

`stack` holds the callbacks under way, each with the storage it would be rolled
back to; `kv` is the storage as the running message sees it and `committed`
what a query reads. `OtherCallback` is a callback contract this repository does
not contain: while it runs, it may send any of the messages above, and then
succeed or fail.

`OneShotSubscriptions` states the promise without any of that: subscriptions
appear, and each is decided at most once, in time, with one effect or none.
`InterchainEvents` implements it under the mapping in `Promise`, in which only
committed storage shows.

### The watcher (`Watcher`, `RemoteChain`)

An asynchronous function is a task whose `pc` names the call it awaits, and the
code between two awaits is part of the step that ends the first:

| `pc` | awaits | step |
|---|---|---|
| `rest` | the timer; for the endpoint, a request | `Tick`, `StartRequest` |
| `list` | `list_subscriptions` | `ListSubscriptions` |
| `state` | `fetchStateWithProof`, after which the condition is checked | `FetchState` |
| `hash` | `fetchAppHash`, one attempt at a time | `FetchAppHash` |
| `simulate` | the simulation `execute(…, "auto")` begins with | `Simulate` |
| `sign` | the account's sequence number | `Sign` |
| `broadcast` | `broadcastTx` | `Broadcast` |
| `await` | the transaction in a block, or a minute | `FindResult`, `TimeOut` |

The loop works through the list it fetched, while the endpoint looks its
subscription up in the cache of the last poll. `CallFails`, `Flush` and
`Restart` are what goes wrong, at most `MaxFaults` times. A transaction on the
hub is one step here (`SubmitProof`); what can happen inside it is the subject
of `InterchainEvents`. `RemoteChain` first stores a block with its header and
then executes it, so the header of a block may be there before its state is,
and after the last block there is no header for the state just proven.

### The script, the dashboard and everything together (`TestFlow`, `WatcherPage`, `Deployment`)

The script is one more sequential process, whose `flow.pc` names the await it
is at: `attest`, `attested`, `subscribe`, `wait`, `state`, `hash`, `simulate`,
`await`, `query`, and then `complete`, `refused` (its proof was refused, in the
simulation or in the block) or `failed`. A transaction that was sent stays
pending when the script is given up (`IncludeFlow`). Its subscription is the
one the watcher finds in its list.

A request of the dashboard is a request task of `Watcher`. `asked` says which
button it was for, `polls` holds the status call of the timer and of each
button with the list it will bring, and `submitting`, `proofResults` and
`shown` are the page's refs.

| action | code |
|---|---|
| `FetchStatus`, `StatusArrives`, `StatusFails` | `fetchStatus`; the answer of a button's own call turns the button on |
| `ClickSubmit` | `submitProof` up to its request |
| `RequestStep`, `RequestFails` | a step of the endpoint; when it is the last, the answer: `Accepted` shows the transaction and asks for the status, `Rejected` turns the button on |
| `ServerRestarts` | the requests and any of the status calls fail |
| `Reopen` | the page is left and opened again: new refs, and answers to the old ones go nowhere |

`Deployment` composes the two with the actions of `Watcher`.

### The state explorer (`StateExplorer`)

One folder: its node (`children`, `hasChildren`, `expanded`, `loading`,
`nextPageKey`, and the `loading` of the placeholder "Load more..."), and the
`searching` and `searchResult` of its component. Folders share nothing but the
text of the last error. Each call to the REST server holds a slot of `calls`
until it is answered, in any order, or fails.

| action | code |
|---|---|
| `Collapse`, `Expand` | `toggleNode`, the second up to its call for the first page |
| `ClickLoadMore` | `loadMore` up to its call |
| `Search` | `onSearch` and `searchKey` up to the call of a searcher |
| `AnswerFetch`, `FailFetch` | the rest of `toggleNode` and `loadMore`: `fetchChildren`, or the error, and `finally` |
| `AnswerSearch`, `FailSearch` | the rest of `onSearch`; a searcher takes an error for "not found" |
| `Unmount` | a folder above is closed: the component goes, the node stays |
| `SetModules` | another chain, or the page opened again: a new tree |
| `AnswerLost` | an answer to what is gone |

The fetchers of the modules are one operator, a list of pages. `hasty` records that the user clicked while a
spinner of the same kind was on show: the code does not keep one from asking for
the same page twice, or from starting a second search with Enter, and then a
page appears twice, or an older result under a newer key.
`PagesInOrder` and `ResultIsOfLastSearch` are claimed for a user who waits, the
other two for any.

### Keys and buttons (`WasmKeys`, `WatchButtons`)

A key in the storage of a contract is the sequence of its bytes. An entry of a
`Map` is a length in two bytes, a namespace and a map key
(`parseWasmKeyParts`); anything else is shown whole. What can be printed is
shown as it is, the rest as `0x` and digits. `wasmStoreKeyForNsEntry` puts a
key together from *texts*: for an entry those it is shown as, for the search bar
the text typed. The prefix of the contract is the same for all and left out.

`NamespaceLeaves` and `TopLevelLeaves` are what `searchWasm` makes of a storage.
`WatchButtons` adds the search bar and the dialog to a folder; while a dialog
lies over the page the user cannot use it, but answers go on arriving.

| action | code |
|---|---|
| `openSubscribe` | the eye beside an entry |
| `openSubscribeForChild` | the eye beside a key a search has found inside a contract |
| `openSubscribeForSearch` | the eye beside the search bar: a key only if the folder is a namespace |
| `openSubscribeWithCondition` | the buttons under a result: a value and a text, but no key |
| `TypeKey`, `UsePage`, `LeavePage`, `CloseModal` | |

An entry whose map key cannot be printed is watched under a wrong key: its
digits are encoded as if they were the map key (`searchWasm` keeps the bytes in
`rawKeyHex` and does not use them). So is one whose namespace or map key begins
with a byte order mark, which `TextDecoder` drops (`Marked`, `Decoded`).
`EntryWatchedAtItsKey` is claimed for the others (`AsItIs`), and still holds when
such an entry is in the same folder.

### The subscribe dialog (`SubscribeDialog`)

`dialogs` are the dialogs opened so far, of which the last may be open; each
call of `handleSubmit` belongs to one and goes on with its refs after it is
closed.

| `pc` | awaits | step |
|---|---|---|
| `connect` | the wallet | `Connect`, `FailConnect` |
| `sign` | the simulation, the signature, the broadcast | `Broadcast`, `Refuse` |
| `await` | the transaction in a block | `Include` (the hub), `LoseAnswer` |
| `landed` | the answer | `Answer`, `LoseAnswer` |

The button is off only from `sign` on. A user who clicks again while the wallet
connects makes two subscriptions, and one who edits the form then subscribes to
what he edited; one whose answer is lost and who tries again may make two.
`careless` marks those dialogs, and `OncePerDialog` is claimed for the others;
that a second click or a retry makes a second subscription is what the code does.
`StoredAsRead` is about all dialogs: `read` is the form as `handleSubmit` read it
once the wallet was connected, and that is stored, whatever is typed afterwards;
in a dialog that is not careless it is the form of the click (`clicked`). A text entered as an operand is described by the value
its characters are and the one they decode to as base64; what the contract
stores is computed by `execute_subscribe` of `Subscriptions`.

## 3. What is checked

| run | instance | shows |
|---|---|---|
| `contract` | 2 subscriptions of 7 kinds, 6 proofs, calls by others, two callbacks deep | `IInv`, `TypeOK`, `IdsAreDense`, `NoReentrantCallback`, `ReplyFindsTriggered`, `TerminalIsFinal`; Triggered exactly when delivered (`TriggeredIffDelivered`); what was delivered met the condition in time (`DeliveredInTimeAndMet`); the contract implements `OneShotSubscriptions` (`KeepsPromise`) |
| `membership` | two states, two stores, all pairs of proofs over two keys and values | `OnlyCommittedValues`, `HonestProofsAccepted` |
| `conditions` | 22 values, every condition over them | `ChecksAgree`: on plain values and conditions (ASCII; digits alone in the range of both, or no number at all) the watcher and the contract answer alike; `ThresholdSplitsValues`: a threshold never puts a value on both sides, and numbers compare as numbers |
| `missed_conditions` | the same | *violated*, finding 2 |
| `watcher` | loop and one request, one fault, three remote blocks, another submitter | `TypeOK`, `MessagesVerify`, `SentFitsSubscription`, `TriggeredWasTrue`, `OneEffectPerSubscription` |
| `all_served` | the loop, two subscriptions, lasting or of one block only and with no contract behind them, one fault, another submitter | `AllServed` and `TasksComeToRest` (liveness); the storage of the hub implements `OneShotSubscriptions` (`HubKeepsPromise`) |
| `page_limit` | two subscriptions, pages of one | *violated*, finding 3 |
| `expiry` | a subscription that lasts for one block | *violated*, finding 4 |
| `dialog` | two dialogs, two calls at a time, a leaf and a folder, four forms | `OncePerDialog`, `SuccessIsOwn`, `StoredAsRead` |
| `entered_condition` | the same | *violated*, finding 1 |
| `deployment` | the script, the loop and one request after the script's subscription, a timer and two buttons, one fault | `CompleteMeansRecorded`, `RefusedMeansServed`, `OutcomeIsReal`, `OneCallPerButton`; `ButtonsComeBack` (liveness) |
| `explorer` | five kinds of folders, among them a contract with printable and binary keys, three calls at a time, one fault | `MarkIsLast`, `SpinnersStop`, `PagesInOrder`, `ResultIsOfLastSearch`, `EntryWatchedAtItsKey` |

### Bounds and why they are enough

- `U64Max` is 2 to 4. It bounds the identifiers (the last one is refused: the
  counter would overflow) and the expiry, so the edge of u64 is reached.
  Interference between subscriptions is pairwise; that a third adds nothing is
  covered by the proofs, which are for any number.
- `MaxDepth = 2` is a callback inside a callback, which is where a rolled-back
  storage of one frame holds the mark of another. The proofs are for any depth.
- `MaxHeight` of 3 gives the block of creation, the last block in time and
  the first one too late, for lifetimes 0 and 1.
- `U128Max = 15`, `F53Max = 8` with numerals 3 to 17 on both sides of both; 9
  is halfway between two doubles. One sample each of a plus and a minus sign, a
  fraction with and without digits, an exponent, Infinity, trailing text and white
  space inside quotes: what either side does with them does not depend on more.
- `PageLimit` is above the number of subscriptions in `all_served` and below it
  in `page_limit`.
- `MaxAttempts = 2` is an attempt that is followed by another and a last one
  (the code makes ten); `MaxRemoteHeight` lets a value be written, proven,
  overwritten and proven again.
- `MaxFaults = 1`: a failed call, a flushed mempool, a restart or, in
  `deployment`, a page left and opened again, at any moment.
- In `deployment` the remote chain has two blocks and the script's attestation
  is the only value: what values may change to meanwhile is the subject of
  `watcher`, and what is at stake here is who is served. `U64Max = 2` leaves
  room for one subscription and a button that has none.
- Keys in `explorer` are one to three bytes: a namespace, an Item whose name could
  be taken for a length, a map key that cannot
  be printed beside two that can. Two longer ones have a byte order mark before the
  namespace or the map key.
- `Calls` has three slots in `explorer`: two overlapping calls of one kind, and
  one more to overtake them. Slots are interchangeable (symmetry). Folders have
  up to three pages, so a page has one before and one after it.
- `Calls` has two slots in `dialog`: a second click while the first is under
  way, or the call of a closed dialog beside that of the next one. The hub has
  room for two subscriptions, one too many for one dialog.
- Deadlock is not checked where the bounds make every instance stop in the end.

### Fairness

`ServerFairness` is weak fairness of the timer, of the list query and of each
task's next step. Node timers fire, and every awaited call returns or throws: the
HTTP clients time out, and `execute` gives up after a minute. `CallFails` is
not fair: a call *may* fail.

`ChainFairness` says that the remote chain stores further blocks and that the
hub takes in what waits in the mempool. It is a premise of `AllServed` and not
part of the specification, so `TasksComeToRest` is checked with chains that may
stop. `ClientFairness`, of `deployment`, is that the steps of a request and the answers
to status calls come (`fetch` answers or throws). It says nothing of the chains
or the script, and `ButtonsComeBack` holds without them. No fairness is assumed
of users: nobody has to subscribe, attest or ask,
and no one else has to submit. `AllServed` speaks of subscriptions without an
expiry on the store `wasm` whose condition holds from some block on.

### Findings

1. *Text in the place of base64.* The dialog sends the expected value and the
   threshold as they were typed (`buildCondition`), in fields the contract
   decodes as base64. `7` or a JSON document is refused; `approved`, which
   happens to be base64, becomes a condition on six other bytes.
2. *Conditions the watcher misses.* `checkCondition` ignores the encoding of a
   threshold and compares decoded text with `atob(expected)`. On bytes, on
   strings and on text that is not ASCII, it passes over values the contract
   would accept. `ChecksAgree` says where the two do agree.
3. *Only the first page.* The watcher lists the first hundred subscriptions and
   then keeps the active ones. Decided subscriptions are never removed, so once
   the page is full nothing new is served.
4. *Expired is never stored.* An expired subscription is saved as Expired in a
   call that then returns an error, and the runtime drops the save.

Some hazards are real and no property covers them, since the code does go wrong
there and the repository promises nothing that could be quoted; they are listed
with that note. A callback that spends all the gas each time leaves its
subscription Active for ever. A second click while the wallet connects, and
another try after a lost answer, make a second subscription. A second click on
"Load more..." appends a page twice, and of two searches under way the older
answer may be shown last. The properties beside them are claimed, and listed, for
what is left: `OncePerDialog` for dialogs that are not careless, `PagesInOrder` and
`ResultIsOfLastSearch` for a user who waits.

Beside these, listed as hazards: the watcher always asks the store `wasm`,
whatever `key_path` a subscription has (`SentFitsSubscription` shows that no
proof of `wasm` is then sent for it); the callback receives
`String::from_utf8_lossy` of the proven bytes, so different values may arrive as
the same text; a lifetime of 0 entered in the dialog means none, where the
contract would take it for the block of creation; and the explorer's key for a
binary entry, above.

## 4. What is proved

For every value of the constants, from the assumptions named in the modules
(the sizes of the bounds, distinct addresses, lifetimes that are numbers).

**The contract** (`InterchainEventsProofs`). Most properties of a run speak
of committed storage, between transactions, and none is inductive: a step in
the middle of a transaction commits or rolls back a storage they say nothing
about. The inductive invariant `IInv` says of *each* storage there is - the
committed one, the running one and that of every frame - that it is consistent
with the callbacks under way *in it* (`Consistent(k, st, n, now)`): a Triggered
subscription either has its callback among the first `n` frames and no event
yet, or has exactly one event, which met its condition. The storage of frame
`i` is consistent with the first `i` frames, its own included: that is why
`reply` can count on finding the subscription Triggered. `Evolved` relates each
storage to the committed one, which is what `TerminalIsFinal` and the
refinement need when a transaction ends.

The first part of the module has a lemma for each way a storage changes
(subscribe, a new status, an event) and for each change of the stack (push,
pop), the second one lemma per action, and from `Invariance` come

- `TypeCorrectness`, `Density`, `OneShot`, `InTime`, `NoReentrancy`,
  `ReplyIsSafe`: the invariants of the runs, for any depth of nesting and any
  messages;
- `Finality`: `TerminalIsFinal`, a property of steps;
- `Implementation`: `Spec => KeepsPromise`, the refinement. A step that ends a
  transaction maps to `Transaction`, `NextBlock` to `Block`, any other step to a
  stutter.

**Verification** (`OperatorProofs`, `MembershipProofs`). `ChainedSoundness`:
whatever the proof, `verify_chained_membership` accepts under the application
hash of a state only what that state holds, in the store `key_path` names.
`ChainedCompleteness`: what an honest node answers is accepted. Both rest on
collision freedom, which the symbolic roots build in. `Soundness` and
`Completeness` are the same as invariants of `Membership`.

**Conditions** (`BothChecksProofs`). `ChecksAgreeOnPlain` and `ThresholdsSplit`
say what the run `conditions` says of its samples, of all values and
conditions, and for any `U128Max` and `F53Max`. `SampleAssumption` is what a
description of a value must be: bytes have an order, the digits of a
numeral are a natural number or there are none, texts decoded from UTF-8 differ when the bytes do; and
a condition is one of the four of `types.rs`. There is no induction in it: the
proofs go through the kinds of conditions and of encodings. `Plain` is needed as
it stands: without it the two checks do differ, both ways. The watcher misses
what the contract would accept (finding 2), and it submits what the contract
refuses: it takes -5, .5 or 1e1 for a number below 7 or above it, and
`parse_u128` takes none of them for a number. So a plain value has
digits alone (`OnlyDigits`) that fit both widths, or nothing `parseFloat` takes for
a number.

**The watcher** (`WatcherProofs`). `WatcherInvariant` has three parts.
`RemoteInv`: blocks hold attestations, and there is a header for each of them,
or one more. `HubInv`: what is Triggered was true in some block; the
transactions in the mempool have the next sequence numbers in order, with proofs
that are genuine; no two that landed have the same number, and one accepted
means a subscription that is decided. `TasksInv`: what a task has in hand - an
answer, a message - is genuine, and from the simulation on it fits its
subscription. All of this must outlast the awaits: blocks are only added
(`Grows`), and a subscription changes nothing but its status, and that once
(`Later`), so what was genuine stays so (`GenuineLater`) and what fitted still
does (`LaterFits`). The last is why a second transaction for a subscription is
refused rather than executed twice. From it come `TypeCorrect`,
`ProofsInHandVerify`, `OnlyWhatWasTrue`, `OnlyWhatFits` and `AtMostOneEffect`,
for any number of subscriptions, requests, attempts and faults.
`HubImplementation` is a refinement: the storage of the hub keeps what
`OneShotSubscriptions` promises, as committed storage does in
`InterchainEvents`. So the transactions that `Watcher` executes in one step
promise what those with callbacks in progress do. `EffectsInv` is the invariant it needs:
each event of proof-callback is of a subscription that is Triggered, and each
of those has one. It is proved of any specification whose steps are blocks,
subscriptions and submitted proofs (`HubStep`), and `WatcherAssumption` adds that
lifetimes are numbers.
`StoredAssumption`: a stored attestation is not the empty string, which ICS-23
cannot prove to be there; it is a JSON document.

**The installation as a whole** (`DeploymentProofs`). `DeploymentInv` adds three
parts to the watcher's. `DeliveryInv`: a subscription is Triggered exactly when
it has one event, and else Active. `FlowInv`: at each `pc` of the script, what it
has in hand proves what it attested, and from `query` on the one event of its
subscription carries the value it proved, with no other transaction accepted for
it.
`PageInv`: a button that is off waits for one thing, a request or a status call,
and a result on show is of a transaction that was accepted. From it come
`CompleteIsRecorded`, `RefusedIsServed`, `ShownIsReal` and `OneCallEach`. The
lemmas about the watcher's steps are used as they are: `Deployment` adds actions
and takes none away. `FlowAssumption` is `StoredAssumption` for the values the
script attests as well. `InstallationImplementation` says of the installation what
`HubImplementation` says of the watcher, from the same `HubStep`.

**The subscribe dialog** (`SubscribeDialogProofs`). Who tries to break
`OncePerDialog` looks for a call that outlives its dialog's wait. `DialogInv`
therefore ties three things: a careful dialog has one call at most; each call past the
wallet, and what came of it, has the form it read (`Reads`); and what the dialog has made is shown, or
is in the hands of that call with the answer on its way. `AtMostOnePerDialog`,
`SuccessShownIsOwn` and `StoredIsRead` follow, for any number of dialogs and
calls; the last for careless dialogs too. A chain takes one transaction with a given sequence number, so the
user's mempool holds one at most.

**The explorer** (`StateExplorerProofs`). For any folders, with any number of
pages, any number of calls under way and of faults: `SpinnersStopAlways`,
`MarkIsLastAlways`, `PagesComeInOrder`, `LastSearchIsShown` and
`WatchedAtItsKey`. None is inductive.

- A spinner is kept with the shape of the calls, of which `marks` says whose the
  placeholder's is.
- A result is of the last search because a user who waits has one search under
  way at most, for that key, with its spinner on (`OneSearch`): he starts none
  beside it, and nothing else becomes the result.
- Children are what is listed and then the placeholder, if there is a next page
  (`Pages`). A user who waits has one page under way at most, the first of a
  folder that shows nothing or the next one (`OnePage`), and that is why it is
  put in its place. One page more is one step of `FlattenSeq`, which the community
  modules define by recursion: `FlattenNext` is that step for any number of
  pages, and is got at by induction, as the absence of a least counterexample.
  `ExplorerAssumption` says that a folder
  has a page, is made with all its children or none, and lists nothing that is
  itself the placeholder.
- The dialog's entry is one that is listed in its folder, or was typed for its
  namespace (`ListedOrTyped`), and the folder stays while the dialog is open.
  `KeyComesBack` then gives the key, for bytes of any length: a sequence is its
  first two elements, the `n` after them and the rest, and the two bytes are the
  length they came from. `WatchAssumption`: a folder of a contract shows what
  `searchWasm` lists.

`Entries`, the filter that takes the placeholder off, is written with the
positions that are kept and not with `SelectSeq`, whose recursive definition the
provers cannot expand.

**Only model-checked**: `AllServed`, `TasksComeToRest` and `ButtonsComeBack`,
which are liveness and out of the prover's reach. Every invariant and action
property of the passing runs is stated by a theorem.

## 5. What is not modelled

- *Who vouches for the application hash.* The contract takes it from the
  submitter, as its comment says of this proof of concept; it is compared with
  nothing on the hub. `TriggeredWasTrue` is therefore about honest submitters
  (the watcher, and others who fetch the hash as the scripts do), while
  `DeliveredInTimeAndMet` holds of any.
- Fields that are only passed on: `callback_msg`, the height of a proof, the
  admin. Queries that only read. `active_watches_by_client`, `extract_app_hash`,
  `encode_consensus_state_request` and `stopWatcher`, which nothing calls.
- The watcher's list of the last hundred events and its counters, for display.
- Gas, other than that it can run out; fees; the hash functions.
- Of the state explorer, the keys of entries of other modules than `wasm`: they
  are labels for display, never the bytes of a store; how much of a long search
  result is shown; and the branch of `openSubscribeExists` on `_pendingStoreKey`,
  which is set for namespaces only, and for those `openSubscribeForSearch`
  returns before it calls it.
- Of the script, `--query-only`, which only reads, and what is printed.
  `--submit-proof` is what it does from its third step on.
- Of the dashboard, the log and the formatting; more than one call of its timer
  at a time.
- `useChains.ts`, `index.vue` and `app.vue`: a constant list of chains, a choice
  among them (`SetModules`), layout. `grpc-query-proxy`, a test contract without
  state.

## 6. Plan

Done, in this order: `Conditions`, `Verification`, `Subscriptions`,
`InterchainEvents` with its promise and proofs, `CheckCondition`,
`RemoteChain`, `Queries`, `Watcher`, `Membership` with its proofs,
`StateExplorer`, `SubscribeDialog`, `WasmKeys`, `WatchButtons` with the proofs of
the explorer, `TestFlow`, `WatcherPage`, `Deployment`, `BothChecks`; then the
proofs of `BothChecks`, `Watcher`, `Deployment` and `SubscribeDialog`, and the
rest of those of the explorer; last, that the storage of the hub keeps the
promise of `InterchainEvents`.

Next: `query_list_subscriptions` returns the next page in order, and pages asked
for one after another list each subscription once.
