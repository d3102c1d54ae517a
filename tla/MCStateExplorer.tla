-------------------------- MODULE MCStateExplorer --------------------------
(***************************************************************************)
(* Small instances of WatchButtons: a folder of three pages, one that is   *)
(* a single page, one that has pages and can be searched, and a contract   *)
(* with entries in a namespace "s", one of them under a binary key, two    *)
(* with a byte order mark, an Item "co" and one whose key cannot be        *)
(* printed.                                                                *)
(***************************************************************************)
EXTENDS WatchButtons, TLC

CONSTANTS v1, v2, v3      \* values

a == << 97 >>
b == << 98 >>
c == << 99 >>
d == << 100 >>
k == << 107 >>
s == << 115 >>

Plain(pages, searcher, known) ==
    [pages |-> pages, filled |-> << >>, searcher |-> searcher, known |-> known,
     namespace |-> << >>, leaves |-> {Leaf(<< >>, a, v1, None)}, inside |-> {}, state |-> << >>]

Paged == Plain(<< << a, b >>, << c >>, << d >> >>, FALSE, {})
Params == Plain(<< << a >> >>, FALSE, {})
Searched == Plain(<< << a >>, << b >> >>, TRUE, {a, c})

Mark == << 239, 187, 191 >>

MapEntry(key) == << 0, 1 >> \o s \o key

Contract ==
    MapEntry(k) :> v1 @@ MapEntry(a) :> v2 @@ MapEntry(<< 1 >>) :> v3
        @@ MapEntry(Mark \o a) :> v3 @@ << 0, 4 >> \o Mark \o s \o c :> v2
        @@ << 99, 111 >> :> v2 @@ << 0, 7 >> :> v1

MCFolders ==
    {Paged, Params, Searched, ContractFolder(a, Contract), NamespaceFolder(Contract, s)}

MCKeys == {a, c, k}

Symmetric == Permutations(Calls)

=============================================================================
