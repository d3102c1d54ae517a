---------------------------- MODULE WatchButtons ----------------------------
(***************************************************************************)
(* The buttons of a folder of the state explorer that open the dialog of a *)
(* subscription (TreeNode.vue): beside an entry, beside a found key, beside *)
(* the text typed into the search bar, and one for each condition on the   *)
(* value that a search has found. The dialog lies over the page, but what  *)
(* the page waits for goes on arriving under it.                           *)
(*                                                                         *)
(* The key and the value of a dialog are given when it opens; what happens *)
(* in it afterwards is the subject of SubscribeDialog, where a key that is *)
(* None makes handleSubmit give up. A folder says, besides what            *)
(* StateExplorer needs: its namespace of a contract, or << >>; the leaves  *)
(* shown for its keys; those a search finds inside; and the storage        *)
(* of the contract it shows.                                               *)
(***************************************************************************)
EXTENDS StateExplorer

(***************************************************************************)
(* What a search for a contract makes of its storage `state' (searchWasm): *)
(* a folder for each namespace with its entries in it, and a leaf for      *)
(* whatever is not an entry of a Map.                                      *)
(***************************************************************************)
Leaf(namespace, key, value, storeKey) ==
    [namespace |-> namespace, key |-> key, value |-> value, storeKey |-> storeKey]

NamespaceLeaves(state, namespace) ==
    {Leaf(namespace, parseWasmKeyParts(raw).mapKey, state[raw],
          wasmStoreKeyForNsEntry(namespace, parseWasmKeyParts(raw).mapKey)) :
        raw \in {r \in DOMAIN state :
                    IsMapEntry(r) /\ parseWasmKeyParts(r).namespace = namespace}}

TopLevelLeaves(state) ==
    {Leaf(<< >>, Shown(raw), state[raw], raw) : raw \in {r \in DOMAIN state : ~IsMapEntry(r)}}

NamespaceFolder(state, namespace) ==
    LET leaves == NamespaceLeaves(state, namespace)
        keys == SetToSeq({l.key : l \in leaves})
    IN  [pages |-> << keys >>, filled |-> keys, searcher |-> FALSE, known |-> {},
         namespace |-> namespace, leaves |-> leaves, inside |-> {}, state |-> state]

ContractFolder(contract, state) ==
    [pages |-> << << >> >>, filled |-> << >>, searcher |-> TRUE, known |-> {contract},
     namespace |-> << >>, leaves |-> {}, inside |-> TopLevelLeaves(state), state |-> state]

\* A folder of a contract shows its storage, as searchWasm lists it.
ASSUME WatchAssumption ==
    \A f \in Folders :
        \/ DOMAIN f.state = {}
        \/ /\ DOMAIN f.state \subseteq Seq(0..255)
           /\ f.leaves \subseteq NamespaceLeaves(f.state, f.namespace)
           /\ f.inside \subseteq TopLevelLeaves(f.state)

VARIABLES
    searchInput,    \* the text in the search bar, or None
    modal           \* the dialog on show, or None

watch_vars == << vars, searchInput, modal >>

-----------------------------------------------------------------------------
\* `modalNode ?? node', preValue or the node's value, and preCondition.
ShowModal(leaf, condition) ==
    /\ modal = None
    /\ modal' = [leaf |-> leaf, condition |-> condition]
    /\ UNCHANGED << vars, searchInput >>

\* Beside an entry: the current value is the entry's.
openSubscribe(leaf) ==
    /\ node.expanded
    /\ leaf.key \in Range(node.children)
    /\ leaf.value # None
    /\ ShowModal(leaf, None)

\* Beside a leaf that a search has found.
openSubscribeForChild(leaf) ==
    /\ node.expanded
    /\ search.result # None /\ search.result.found
    /\ search.result.key \notin Range(node.children)
    /\ ShowModal(leaf, None)

\* Beside the search bar. Only in a namespace is there a key for the text.
openSubscribeForSearch ==
    /\ node.expanded
    /\ searchInput # None
    /\ ShowModal(
        Leaf(folder.namespace, searchInput, None,
             IF folder.namespace = << >> THEN None
             ELSE wasmStoreKeyForNsEntry(folder.namespace, searchInput)),
        "Exists")

\* The value that was found last.
FoundValue ==
    LET named == {l \in folder.leaves : l.key = search.result.key}
    IN  IF named = {} THEN None ELSE (CHOOSE l \in named : TRUE).value

\* The dialog gets the key of the text in the search bar.
PickedNode_OfInput ==
    Leaf(folder.namespace, searchInput, FoundValue,
         IF folder.namespace = << >> \/ searchInput = None THEN None
         ELSE wasmStoreKeyForNsEntry(folder.namespace, searchInput))

\* The dialog is for the folder, which has no key, and shows the text in the
\* search bar beside the value, though that may be of an older search.
PickedNode == Leaf(folder.namespace, searchInput, FoundValue, None)

\* For a contract that was found, what is inside is shown instead.
openSubscribeWithCondition(condition) ==
    /\ node.expanded
    /\ search.result # None /\ search.result.found
    /\ folder.inside = {} /\ (folder.namespace = << >> => folder.state = << >>)
    /\ ShowModal(PickedNode, condition)

CloseModal ==
    /\ modal # None
    /\ modal' = None
    /\ UNCHANGED << vars, searchInput >>

-----------------------------------------------------------------------------
TypeKey(key) ==
    /\ modal = None
    /\ node.expanded
    /\ key # searchInput
    /\ searchInput' = key
    /\ UNCHANGED << vars, modal >>

\* The page can be used while no dialog lies over it.
UsePage ==
    /\ modal = None
    /\ Collapse \/ \E c \in Calls :
            \/ Expand(c)
            \/ ClickLoadMore(c)
            \/ searchInput # None /\ Search(c, searchInput)
    /\ UNCHANGED << searchInput, modal >>

LeavePage ==
    /\ modal = None
    /\ Unmount \/ SetModules
    /\ searchInput' = None
    /\ UNCHANGED modal

WatchInit ==
    /\ Init
    /\ searchInput = None
    /\ modal = None

WatchNext ==
    \/ UsePage
    \/ LeavePage
    \/ Answers /\ UNCHANGED << searchInput, modal >>
    \/ \E key \in Keys : TypeKey(key)
    \/ \E leaf \in folder.leaves : openSubscribe(leaf)
    \/ \E leaf \in folder.inside : openSubscribeForChild(leaf)
    \/ openSubscribeForSearch
    \/ \E condition \in {"Equals", "JsonPathEquals"} : openSubscribeWithCondition(condition)
    \/ CloseModal

WatchSpec == WatchInit /\ [][WatchNext]_watch_vars

-----------------------------------------------------------------------------
\* The namespace and the key an entry is shown with, and whether both, or its whole
\* key, are shown as they are.
ShownAs(raw) ==
    IF IsMapEntry(raw)
    THEN << parseWasmKeyParts(raw).namespace, parseWasmKeyParts(raw).mapKey >>
    ELSE << << >>, Shown(raw) >>

AsItIs(raw) ==
    IF IsMapEntry(raw) THEN Printable(NamespaceOf(raw)) /\ Printable(MapKeyOf(raw))
    ELSE Printable(raw)

\* A dialog that can be submitted, for something a contract holds, is for the very
\* key it holds it under, and the current value it shows, if any, is what it held
\* there: through taking the key apart for display, searching and typing
\* meanwhile, and putting it together again. The key is claimed for entries
\* shown as they are; one that is shown as digits, or without a byte order mark,
\* is put together wrongly.
EntryWatchedAtItsKey ==
    modal # None /\ modal.leaf.storeKey # None =>
        LET entries == {raw \in DOMAIN folder.state :
                            ShownAs(raw) = << modal.leaf.namespace, modal.leaf.key >>}
        IN  /\ (\E raw \in entries : AsItIs(raw)) => modal.leaf.storeKey \in entries
            /\ entries # {} =>
                  modal.leaf.value \in {None} \cup {folder.state[raw] : raw \in entries}

=============================================================================
