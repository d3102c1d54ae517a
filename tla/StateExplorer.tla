--------------------------- MODULE StateExplorer ---------------------------
(***************************************************************************)
(* A folder of the state explorer: the node kept in the tree               *)
(* (useStateExplorer.ts) and the component that shows it (TreeNode.vue),   *)
(* which loads its children page by page and searches for keys under it    *)
(* while the user goes on clicking. Folders share nothing but the message  *)
(* of the last error, which is for display.                                *)
(*                                                                         *)
(* A call to the REST server of the chain is a slot of `calls' until it    *)
(* is answered. Calls are answered in any order, and nothing keeps a user  *)
(* from starting the next one before.                                      *)
(***************************************************************************)
EXTENDS WasmKeys, SequencesExt

CONSTANTS
    LoadMore,      \* the placeholder makeLoadMore puts after the children
    Folders,       \* what a folder may be: its pages, what it is made with, and what
                   \* a search finds
    Keys,          \* the keys a user may search for
    Calls,         \* bound: the calls that may be under way at a time
    MaxFaults      \* bound: calls that fail

\* What there is on the pages of a folder.
Listed(f) == UNION {Range(f.pages[i]) : i \in DOMAIN f.pages}

(***************************************************************************)
(* A folder has a page, if an empty one, and is made with all its children *)
(* or with none.                                                           *)
(***************************************************************************)
ASSUME ExplorerAssumption ==
    /\ None \notin Int
    /\ MaxFaults \in Nat
    /\ \A f \in Folders :
          /\ f.pages \in Seq(Seq(Listed(f))) /\ f.pages # << >>
          /\ LoadMore \notin Listed(f)
          /\ f.filled \in {<< >>, FlattenSeq(f.pages)}

VARIABLES
    folder,     \* the folder looked at: [pages, searcher, known]
    node,       \* the StateNode
    search,     \* the component's searching, searchResult, and the last key asked for
    calls,      \* the calls under way
    hasty,      \* the user did not wait for a spinner
    faults

vars == << folder, node, search, calls, hasty, faults >>

-----------------------------------------------------------------------------
(***************************************************************************)
(* makeFolder, with the children a folder is made with, and a component    *)
(* that has just been mounted. `markLoading'                               *)
(* is the `loading' of the placeholder that is in children.                *)
(***************************************************************************)
makeFolder(f) ==
    [children |-> f.filled, hasChildren |-> TRUE, expanded |-> FALSE,
     loading |-> FALSE, markLoading |-> FALSE, nextPageKey |-> None]

Mounted == [searching |-> FALSE, result |-> None, asked |-> None]

NoCall == [kind |-> "none"]

Outstanding(kinds) == {c \in Calls : calls[c].kind \in kinds}

\* The call c of a user, in a free slot.
Start(c, call) ==
    /\ c \in Outstanding({"none"})
    /\ calls' = [calls EXCEPT ![c] = call]

(***************************************************************************)
(* The fetchers of the modules: the first page, or the one a page key      *)
(* names, and the key of the next one. Fixed subfolders and parameters are *)
(* one page; a folder that can only be searched has an empty one.          *)
(***************************************************************************)
PageAfter(pageKey) == IF pageKey = None THEN 1 ELSE pageKey

Page(pageKey) == folder.pages[PageAfter(pageKey)]

NextKey(pageKey) ==
    IF PageAfter(pageKey) < Len(folder.pages) THEN PageAfter(pageKey) + 1 ELSE None

\* The children without the placeholder, in their order.
Entries(children) ==
    LET kept == {i \in DOMAIN children : children[i] # LoadMore}
        place(i) == Cardinality({j \in kept : j <= i})
    IN  [n \in 1..Cardinality(kept) |-> children[CHOOSE i \in kept : place(i) = n]]

\* The placeholder is left among the children.
fetchChildren_KeepMark(n, pageKey) ==
    LET kept == IF pageKey = None THEN Page(pageKey) ELSE n.children \o Page(pageKey)
        next == NextKey(pageKey)
        children == IF next = None THEN kept ELSE Append(kept, LoadMore)
    IN  [n EXCEPT !.nextPageKey = next, !.children = children, !.markLoading = FALSE,
                  !.hasChildren = n.hasChildren /\ children # << >>]

\* Every page replaces the children.
fetchChildren_Replace(n, pageKey) ==
    LET next == NextKey(pageKey)
        children == IF next = None THEN Page(pageKey) ELSE Append(Page(pageKey), LoadMore)
    IN  [n EXCEPT !.nextPageKey = next, !.children = children, !.markLoading = FALSE,
                  !.hasChildren = n.hasChildren /\ children # << >>]

\* fetchChildren, once the fetcher has answered. The placeholder is a new one.
fetchChildren(n, pageKey) ==
    LET kept == IF pageKey = None THEN Page(pageKey)
                ELSE Entries(n.children) \o Page(pageKey)
        next == NextKey(pageKey)
        children == IF next = None THEN kept ELSE Append(kept, LoadMore)
    IN  [n EXCEPT !.nextPageKey = next, !.children = children, !.markLoading = FALSE,
                  !.hasChildren = n.hasChildren /\ children # << >>]

-----------------------------------------------------------------------------
(***************************************************************************)
(* What the user does.                                                     *)
(***************************************************************************)

\* toggleNode: a folder without children is fetched each time it is opened.
Collapse ==
    /\ node.hasChildren
    /\ node.expanded
    /\ node' = [node EXCEPT !.expanded = FALSE]
    /\ hasty' = (hasty \/ node.loading)
    /\ UNCHANGED << folder, search, calls, faults >>

Expand(c) ==
    /\ node.hasChildren
    /\ ~node.expanded
    /\ IF node.children = << >>
       THEN /\ Start(c, [kind |-> "first", pageKey |-> None])
            /\ node' = [node EXCEPT !.expanded = TRUE, !.loading = TRUE]
       ELSE /\ UNCHANGED calls
            /\ node' = [node EXCEPT !.expanded = TRUE]
    /\ hasty' = (hasty \/ node.loading)
    /\ UNCHANGED << folder, search, faults >>

\* loadMore, from a click on the placeholder. `marks' says that the call will
\* clear the spinner of the placeholder that is there now.
ClickLoadMore(c) ==
    /\ node.expanded
    /\ node.nextPageKey # None
    /\ Start(c, [kind |-> "more", pageKey |-> node.nextPageKey, marks |-> TRUE])
    /\ node' = [node EXCEPT !.markLoading = TRUE]
    /\ hasty' = (hasty \/ node.loading \/ node.markLoading)
    /\ UNCHANGED << folder, search, faults >>

Found(key, found) == [key |-> key, found |-> found]

\* The result of the search before is left on show.
Asking_KeepResult(key) == [search EXCEPT !.searching = TRUE, !.asked = key]

\* onSearch, up to the call it makes.
Asking(key) == [searching |-> TRUE, result |-> None, asked |-> key]

\* searchKey looks among the children that are loaded, and then asks the
\* module's searcher if it has one.
Search(c, key) ==
    /\ node.expanded
    /\ folder.searcher \/ node.hasChildren
    /\ IF key \in Range(node.children)
       THEN search' = [Asking(key) EXCEPT !.searching = FALSE, !.result = Found(key, TRUE)]
       ELSE IF folder.searcher
       THEN search' = Asking(key)
       ELSE search' = [Asking(key) EXCEPT !.searching = FALSE, !.result = Found(key, FALSE)]
    /\ IF folder.searcher /\ key \notin Range(node.children)
       THEN Start(c, [kind |-> "search", key |-> key])
       ELSE UNCHANGED calls
    /\ hasty' = (hasty \/ search.searching)
    /\ UNCHANGED << folder, node, faults >>

\* Another folder above it is closed: the component goes, the node stays. What
\* the component still waits for has nowhere to go.
Unmount ==
    /\ search' = Mounted
    /\ calls' = [c \in Calls |-> IF calls[c].kind = "search" THEN [kind |-> "lost"] ELSE calls[c]]
    /\ UNCHANGED << folder, node, hasty, faults >>

\* setModules: the page is opened again, or a chain chosen, and the tree is new.
SetModules ==
    /\ folder' \in Folders
    /\ node' = makeFolder(folder')
    /\ search' = Mounted
    /\ calls' = [c \in Calls |-> IF calls[c].kind = "none" THEN NoCall ELSE [kind |-> "lost"]]
    /\ hasty' = FALSE
    /\ UNCHANGED faults

-----------------------------------------------------------------------------
(***************************************************************************)
(* What the server answers. Both handlers clear their spinner whether the  *)
(* call succeeded or failed; that of a placeholder which has been replaced *)
(* meanwhile is no longer on show.                                         *)
(***************************************************************************)
WithoutMarks(f) ==
    [c \in Calls |-> IF f[c].kind = "more" THEN [f[c] EXCEPT !.marks = FALSE] ELSE f[c]]

AnswerFetch(c) ==
    /\ c \in Outstanding({"first", "more"})
    /\ LET fetched == fetchChildren(node, calls[c].pageKey)
       IN  node' = IF calls[c].kind = "first" THEN [fetched EXCEPT !.loading = FALSE]
                   ELSE fetched
    /\ calls' = WithoutMarks([calls EXCEPT ![c] = NoCall])
    /\ UNCHANGED << folder, search, hasty, faults >>

\* The spinner of a call that failed goes on.
Cleared_NotOnError(call) == node

Cleared(call) ==
    IF call.kind = "first" THEN [node EXCEPT !.loading = FALSE]
    ELSE [node EXCEPT !.markLoading = node.markLoading /\ ~call.marks]

FailFetch(c) ==
    /\ faults < MaxFaults /\ faults' = faults + 1
    /\ c \in Outstanding({"first", "more"})
    /\ node' = Cleared(calls[c])
    /\ calls' = [calls EXCEPT ![c] = NoCall]
    /\ UNCHANGED << folder, search, hasty >>

AnswerSearch(c) ==
    /\ c \in Outstanding({"search"})
    /\ search' = [search EXCEPT !.searching = FALSE,
                                !.result = Found(calls[c].key, calls[c].key \in folder.known)]
    /\ calls' = [calls EXCEPT ![c] = NoCall]
    /\ UNCHANGED << folder, node, hasty, faults >>

\* The searchers take an error for a key that is not there.
FailSearch(c) ==
    /\ faults < MaxFaults /\ faults' = faults + 1
    /\ c \in Outstanding({"search"})
    /\ search' = [search EXCEPT !.searching = FALSE, !.result = Found(calls[c].key, FALSE)]
    /\ calls' = [calls EXCEPT ![c] = NoCall]
    /\ UNCHANGED << folder, node, hasty >>

\* The answer to a node or a component that is gone.
AnswerLost(c) ==
    /\ c \in Outstanding({"lost"})
    /\ calls' = [calls EXCEPT ![c] = NoCall]
    /\ UNCHANGED << folder, node, search, hasty, faults >>

-----------------------------------------------------------------------------
Init ==
    /\ folder \in Folders
    /\ node = makeFolder(folder)
    /\ search = Mounted
    /\ calls = [c \in Calls |-> NoCall]
    /\ hasty = FALSE
    /\ faults = 0

Answers ==
    \E c \in Calls :
        \/ AnswerFetch(c) \/ FailFetch(c)
        \/ AnswerSearch(c) \/ FailSearch(c) \/ AnswerLost(c)

-----------------------------------------------------------------------------
(***************************************************************************)
(* Properties                                                              *)
(***************************************************************************)

\* In whatever order pages arrive, "Load more..." is offered exactly when there
\* is a next page to ask for, once, and below all entries (fetchChildren filters
\* the placeholder out and appends a new one).
MarkIsLast ==
    LET marks == {i \in DOMAIN node.children : node.children[i] = LoadMore}
    IN  marks = IF node.nextPageKey = None THEN {} ELSE {Len(node.children)}

\* No spinner outlives the calls it stands for, though they may overlap, fail,
\* and be answered to a placeholder, a component or a tree that has been
\* replaced (the `finally' of toggleNode, loadMore and onSearch).
SpinnersStop ==
    /\ node.loading => Outstanding({"first"}) # {}
    /\ node.markLoading => \E c \in Outstanding({"more"}) : calls[c].marks
    /\ search.searching => Outstanding({"search"}) # {}

\* What there is on the first n pages.
UpTo(pages, n) == FlattenSeq(SubSeq(pages, 1, n))

\* For a user who waits for the spinners, failed calls or not, the children are
\* the pages fetched so far, in order, none twice and none left out, and all of
\* them once no next page is offered.
PagesInOrder ==
    ~hasty =>
        IF node.nextPageKey # None
        THEN Entries(node.children) = UpTo(folder.pages, node.nextPageKey - 1)
        ELSE node.children \in {<< >>, UpTo(folder.pages, Len(folder.pages))}

\* For the same user, a result on show is of the key last asked for.
ResultIsOfLastSearch == ~hasty /\ search.result # None => search.result.key = search.asked

=============================================================================
