------------------------ MODULE StateExplorerProofs ------------------------
(***************************************************************************)
(* What the state explorer keeps whatever its folders hold, however many   *)
(* calls are under way and however many of them fail: its spinners stop,   *)
(* "Load more..." is last, a user who waits is shown the pages in order    *)
(* and the search he made last, and a subscription to an entry is for the  *)
(* entry's own key.                                                        *)
(***************************************************************************)
EXTENDS
    WatchButtons, SequenceTheorems, FiniteSetTheorems, NaturalsInduction,
    WellFoundedInduction, TLAPS

-----------------------------------------------------------------------------
(***************************************************************************)
(* Keys. The key of an entry of a Map, taken apart by parseWasmKeyParts    *)
(* and put together by wasmStoreKeyForNsEntry, comes back as it was if its *)
(* map key can be printed. The provers are led to it by what               *)
(* SequenceTheorems says of adjacent subsequences.                         *)
(***************************************************************************)

\* The two bytes of the length come back.
LEMMA LengthBytes ==
    ASSUME NEW h \in 0..255, NEW l \in 0..255
    PROVE  /\ h * 256 + l \in Nat
           /\ (h * 256 + l) \div 256 = h /\ (h * 256 + l) % 256 = l
    BY SMT

\* What an entry is made of.
LEMMA EntryParts ==
    ASSUME NEW raw \in Seq(0..255), IsMapEntry(raw)
    PROVE  /\ Len(raw) \in Nat
           /\ raw[1] \in 0..255 /\ raw[2] \in 0..255
           /\ NamespaceLength(raw) = raw[1] * 256 + raw[2]
           /\ NamespaceLength(raw) \in Nat
           /\ 0 < NamespaceLength(raw) /\ NamespaceLength(raw) < Len(raw) - 2
<1>1. Len(raw) \in Nat /\ 2 <= Len(raw) /\ 0 < NamespaceLength(raw) /\ NamespaceLength(raw) < Len(raw) - 2
    BY LenProperties DEF IsMapEntry
<1>2. 1 \in 1..Len(raw) /\ 2 \in 1..Len(raw)
    BY <1>1
<1>3. raw[1] \in 0..255 /\ raw[2] \in 0..255
    BY <1>2, ElementOfSeq
<1>4. NamespaceLength(raw) = raw[1] * 256 + raw[2]
    BY DEF NamespaceLength
<1>5. raw[1] * 256 + raw[2] \in Nat
    BY <1>3, LengthBytes
<1> QED BY <1>1, <1>3, <1>4, <1>5

\* A sequence is its first two elements, the n after them, and the rest.
LEMMA ThreeParts ==
    ASSUME NEW S, NEW s \in Seq(S), NEW n \in Nat, n < Len(s) - 2
    PROVE  << s[1], s[2] >> \o SubSeq(s, 3, 2 + n) \o SubSeq(s, 3 + n, Len(s)) = s
<1>1. Len(s) \in Nat /\ n + 2 < Len(s)
    BY LenProperties
<1>2. SubSeq(s, 1, 2 + n) \o SubSeq(s, 2 + n + 1, Len(s)) = SubSeq(s, 1, Len(s))
    <2> DEFINE k == 2 + n
    <2>1. 1 \in 1..(Len(s) + 1) /\ k \in (1 - 1)..Len(s) /\ Len(s) \in k..Len(s)
        BY <1>1
    <2> HIDE DEF k
    <2>2. SubSeq(s, 1, k) \o SubSeq(s, k + 1, Len(s)) = SubSeq(s, 1, Len(s))
        BY <2>1, ConcatAdjacentSubSeq
    <2> QED BY <2>2 DEF k
<1>3. SubSeq(s, 1, 2) \o SubSeq(s, 3, 2 + n) = SubSeq(s, 1, 2 + n)
    <2>1. 1 \in 1..(Len(s) + 1) /\ 2 \in (1 - 1)..Len(s) /\ 2 + n \in 2..Len(s) /\ 2 + 1 = 3
        BY <1>1
    <2> QED BY <2>1, ConcatAdjacentSubSeq
<1>4. SubSeq(s, 1, 2) = << s[1], s[2] >>
    <2>1. \A i \in 1..2 : s[i] \in S
        BY <1>1, ElementOfSeq
    <2>2. /\ SubSeq(s, 1, 2) \in Seq(S) /\ Len(SubSeq(s, 1, 2)) = 2
          /\ \A i \in 1..2 : SubSeq(s, 1, 2)[i] = s[i]
        BY <2>1, SubSeqProperties
    <2>3. /\ << s[1], s[2] >> \in Seq(S) /\ Len(<< s[1], s[2] >>) = 2
          /\ \A i \in 1..2 : << s[1], s[2] >>[i] = s[i]
        BY <2>1
    <2> QED BY <2>2, <2>3, SeqEqual
<1>5. SubSeq(s, 1, Len(s)) = s
    BY SubSeqFull
<1>6. 2 + n + 1 = 3 + n
    OBVIOUS
<1> QED BY <1>2, <1>3, <1>4, <1>5, <1>6

\* The n elements after the first two are n.
LEMMA MiddlePart ==
    ASSUME NEW S, NEW s \in Seq(S), NEW n \in Nat, n < Len(s) - 2
    PROVE  Len(SubSeq(s, 3, 2 + n)) = n
<1>1. Len(s) \in Nat /\ n + 2 < Len(s)
    BY LenProperties
<1>2. \A i \in 3..(2 + n) : i \in 1..Len(s)
    BY <1>1
<1>3. \A i \in 3..(2 + n) : s[i] \in S
    BY <1>2, ElementOfSeq
<1>4. Len(SubSeq(s, 3, 2 + n)) = IF 3 <= 2 + n THEN (2 + n) - 3 + 1 ELSE 0
    <2> DEFINE k == 2 + n
    <2>1. k \in Int
        OBVIOUS
    <2> HIDE DEF k
    <2>2. \A i \in 3..k : s[i] \in S
        BY <1>3 DEF k
    <2>3. Len(SubSeq(s, 3, k)) = IF 3 <= k THEN k - 3 + 1 ELSE 0
        BY <2>1, <2>2, SubSeqProperties
    <2> QED BY <2>3 DEF k
<1> QED BY <1>4

\* What can be printed begins with no byte order mark.
LEMMA DecodedAsItIs ==
    ASSUME NEW bytes, Printable(bytes)
    PROVE  Decoded(bytes) = bytes
<1>1. ~Marked(bytes)
    <2> SUFFICES ASSUME Marked(bytes) PROVE FALSE
        OBVIOUS
    <2>1. 1 \in DOMAIN bytes /\ bytes[1] = 239
        BY DEF Marked
    <2>2. bytes[1] \in 32..126
        BY <2>1 DEF Printable
    <2> QED BY <2>1, <2>2
<1> QED BY <1>1 DEF Decoded

\* parseWasmKeyParts and wasmStoreKeyForNsEntry: the key of every entry whose
\* namespace and map key can be printed is put together again as it was.
THEOREM KeyComesBack ==
    ASSUME NEW raw \in Seq(0..255), IsMapEntry(raw), AsItIs(raw)
    PROVE  wasmStoreKeyForNsEntry(parseWasmKeyParts(raw).namespace,
                                  parseWasmKeyParts(raw).mapKey) = raw
<1>1. /\ parseWasmKeyParts(raw).namespace = NamespaceOf(raw)
      /\ parseWasmKeyParts(raw).mapKey = MapKeyOf(raw)
    <2>1. Printable(NamespaceOf(raw)) /\ Printable(MapKeyOf(raw))
        BY DEF AsItIs
    <2>2. Decoded(NamespaceOf(raw)) = NamespaceOf(raw) /\ Decoded(MapKeyOf(raw)) = MapKeyOf(raw)
        BY <2>1, DecodedAsItIs
    <2> QED BY <2>1, <2>2 DEF parseWasmKeyParts, Shown
<1>2. Len(NamespaceOf(raw)) = NamespaceLength(raw)
    BY EntryParts, MiddlePart DEF NamespaceOf
<1>3. NamespaceLength(raw) \div 256 = raw[1] /\ NamespaceLength(raw) % 256 = raw[2]
    <2> DEFINE h == raw[1]
               l == raw[2]
    <2>1. h \in 0..255 /\ l \in 0..255 /\ NamespaceLength(raw) = h * 256 + l
        BY EntryParts
    <2> HIDE DEF h, l
    <2>2. (h * 256 + l) \div 256 = h /\ (h * 256 + l) % 256 = l
        BY <2>1, LengthBytes
    <2>3. NamespaceLength(raw) \div 256 = h /\ NamespaceLength(raw) % 256 = l
        BY <2>1, <2>2, Zenon
    <2> QED BY <2>3 DEF h, l
<1>4. << raw[1], raw[2] >> \o NamespaceOf(raw) \o MapKeyOf(raw) = raw
    BY EntryParts, ThreeParts DEF NamespaceOf, MapKeyOf
<1> QED BY <1>1, <1>2, <1>3, <1>4 DEF wasmStoreKeyForNsEntry

-----------------------------------------------------------------------------
(***************************************************************************)
(* Pages. What FlattenSeq computes by recursion is got at by induction     *)
(* over the number of pages, and that from the well-founded order of the   *)
(* naturals.                                                               *)
(***************************************************************************)

\* Every set of naturals has a least element.
LEMMA Least ==
    ASSUME NEW T, T \subseteq Nat, T # {}
    PROVE  \E x \in T : \A y \in T : x <= y
<1> DEFINE R == {ss \in Nat \X Nat : ss[1] < ss[2]}
<1>1. IsWellFoundedOn(R, Nat)
    BY NatLessThanWellFounded DEF OpToRel
<1>2. \E x \in T : \A y \in T : << y, x >> \notin R
    <2> HIDE DEF R
    <2> QED BY <1>1, WFMin
<1>3. \A x, y \in Nat : << y, x >> \notin R => x <= y
    OBVIOUS
<1> HIDE DEF R
<1> QED BY <1>2, <1>3

\* Induction, for a set instead of a predicate.
LEMMA Induct ==
    ASSUME NEW T, 0 \in T, \A n \in Nat : n \in T => n + 1 \in T
    PROVE  Nat \subseteq T
<1> SUFFICES ASSUME Nat \ T # {} PROVE FALSE
    OBVIOUS
<1>1. PICK x \in Nat \ T : \A y \in Nat \ T : x <= y
    BY Least
<1>2. x # 0 /\ x - 1 \in Nat /\ x - 1 \in T
    BY <1>1
<1> QED BY <1>1, <1>2

\* g[i] is the concatenation of the first i sequences, as FlattenSeq defines it.
Flattens(g, seqs, n) ==
    g = [i \in 1..n |-> IF i = 1 THEN seqs[i] ELSE g[i - 1] \o seqs[i]]

LEMMA FlattensAt ==
    ASSUME NEW g, NEW seqs, NEW n, Flattens(g, seqs, n), NEW i \in 1..n
    PROVE  g[i] = IF i = 1 THEN seqs[i] ELSE g[i - 1] \o seqs[i]
<1> DEFINE Step(j) == IF j = 1 THEN seqs[j] ELSE g[j - 1] \o seqs[j]
<1>1. g = [j \in 1..n |-> Step(j)]
    BY DEF Flattens
<1> HIDE DEF Step
<1>2. g[i] = Step(i)
    BY ONLY <1>1, i \in 1..n, Zenon
<1> QED BY <1>2 DEF Step

\* A definition by recursion over the naturals defines a function.
LEMMA FlattensExists ==
    ASSUME NEW seqs, NEW n \in Nat
    PROVE  \E g : Flattens(g, seqs, n)
<1> DEFINE T == {m \in Nat : \E g : Flattens(g, seqs, m)}
<1>1. 0 \in T
    <2>1. Flattens([i \in 1..0 |-> seqs[i]], seqs, 0)
        BY DEF Flattens
    <2> QED BY <2>1
<1>2. ASSUME NEW m \in Nat, m \in T PROVE m + 1 \in T
    <2>1. PICK g : Flattens(g, seqs, m)
        BY <1>2
    <2> DEFINE h == [i \in 1..(m + 1) |->
                        IF i = 1 THEN seqs[i] ELSE g[i - 1] \o seqs[i]]
    <2>2. \A i \in 1..m : h[i] = g[i]
        BY <2>1, FlattensAt
    <2>3. \A i \in 1..(m + 1) : h[i] = IF i = 1 THEN seqs[i] ELSE h[i - 1] \o seqs[i]
        <3> SUFFICES ASSUME NEW i \in 1..(m + 1), i # 1 PROVE h[i] = h[i - 1] \o seqs[i]
            OBVIOUS
        <3>1. i - 1 \in 1..m
            OBVIOUS
        <3>2. h[i] = g[i - 1] \o seqs[i]
            OBVIOUS
        <3> HIDE DEF h
        <3> QED BY <2>2, <3>1, <3>2
    <2>4. h = [i \in 1..(m + 1) |-> h[i]]
        OBVIOUS
    <2> HIDE DEF h
    <2>5. Flattens(h, seqs, m + 1)
        BY <2>3, <2>4 DEF Flattens
    <2> QED BY <2>5
<1> HIDE DEF T
<1>3. Nat \subseteq T
    BY <1>1, <1>2, Induct
<1> QED BY <1>3 DEF T

\* It depends on nothing but the sequences up to where it is applied.
LEMMA FlattensUnique ==
    ASSUME NEW seqs, NEW sets, NEW n \in Nat, NEW m \in Nat, n <= m,
           \A i \in 1..n : seqs[i] = sets[i],
           NEW g, Flattens(g, seqs, n), NEW h, Flattens(h, sets, m)
    PROVE  \A i \in 1..n : g[i] = h[i]
<1> DEFINE T == {k \in Nat : k \in 1..n => g[k] = h[k]}
<1>1. 0 \in T
    OBVIOUS
<1>2. ASSUME NEW k \in Nat, k \in T PROVE k + 1 \in T
    <2> SUFFICES ASSUME k + 1 \in 1..n PROVE g[k + 1] = h[k + 1]
        OBVIOUS
    <2>1. /\ g[k + 1] = IF k + 1 = 1 THEN seqs[k + 1] ELSE g[k + 1 - 1] \o seqs[k + 1]
          /\ h[k + 1] = IF k + 1 = 1 THEN sets[k + 1] ELSE h[k + 1 - 1] \o sets[k + 1]
        BY k + 1 \in 1..m, FlattensAt
    <2>2. CASE k = 0
        BY <2>1, <2>2
    <2>3. CASE k # 0
        <3>1. g[k] = h[k] /\ k + 1 - 1 = k
            BY <1>2, <2>3
        <3> QED BY <2>1, <2>3, <3>1
    <2> QED BY <2>2, <2>3
<1> HIDE DEF T
<1>3. Nat \subseteq T
    BY <1>1, <1>2, Induct
<1> QED BY <1>3 DEF T

\* FlattenSeq of the community modules.
LEMMA FlattenSeqIs ==
    ASSUME NEW S, NEW seqs \in Seq(S), Len(seqs) # 0
    PROVE  \E g : Flattens(g, seqs, Len(seqs)) /\ FlattenSeq(seqs) = g[Len(seqs)]
<1> DEFINE n == Len(seqs)
           f == CHOOSE g : Flattens(g, seqs, n)
<1>1. n \in Nat
    OBVIOUS
<1>2. Flattens(f, seqs, n)
    BY <1>1, FlattensExists
<1>3. FlattenSeq(seqs) = f[n]
    BY DEF FlattenSeq, Flattens
<1> QED BY <1>2, <1>3

LEMMA FirstPages ==
    ASSUME NEW S, NEW pages \in Seq(S), NEW n \in 0..Len(pages)
    PROVE  /\ SubSeq(pages, 1, n) \in Seq(S) /\ Len(SubSeq(pages, 1, n)) = n
           /\ \A i \in 1..n : SubSeq(pages, 1, n)[i] = pages[i]
<1>1. \A i \in 1..n : pages[i] \in S
    BY LenProperties
<1>2. /\ SubSeq(pages, 1, n) \in Seq(S)
      /\ Len(SubSeq(pages, 1, n)) = IF 1 <= n THEN n - 1 + 1 ELSE 0
      /\ \A i \in 1..(n - 1 + 1) : SubSeq(pages, 1, n)[i] = pages[1 + i - 1]
    BY <1>1, SubSeqProperties
<1>3. (IF 1 <= n THEN n - 1 + 1 ELSE 0) = n /\ n - 1 + 1 = n /\ \A i \in 1..n : 1 + i - 1 = i
    OBVIOUS
<1> QED BY ONLY <1>2, <1>3

\* The first page, and one more.
LEMMA FlattenFirst ==
    ASSUME NEW S, NEW pages \in Seq(S), Len(pages) # 0
    PROVE  UpTo(pages, 1) = pages[1]
<1>1. 1 \in 0..Len(pages)
    BY LenProperties
<1> DEFINE one == SubSeq(pages, 1, 1)
<1>2. one \in Seq(S) /\ Len(one) = 1 /\ one[1] = pages[1]
    BY <1>1, FirstPages
<1> HIDE DEF one
<1>3. PICK g : Flattens(g, one, Len(one)) /\ FlattenSeq(one) = g[Len(one)]
    BY ONLY <1>2, Len(one) # 0, FlattenSeqIs
<1>4. g[1] = one[1]
    BY <1>2, <1>3, 1 \in 1..Len(one), FlattensAt
<1> QED BY <1>2, <1>3, <1>4 DEF UpTo, one

LEMMA FlattenNext ==
    ASSUME NEW S, NEW pages \in Seq(S), NEW n \in 1..(Len(pages) - 1)
    PROVE  UpTo(pages, n + 1) = UpTo(pages, n) \o pages[n + 1]
<1> DEFINE m == n + 1
           s == SubSeq(pages, 1, n)
           t == SubSeq(pages, 1, m)
<1>1. /\ n \in 0..Len(pages) /\ m \in 0..Len(pages) /\ n \in Nat /\ m \in Nat
      /\ n <= m /\ n # 0 /\ m # 0 /\ m # 1 /\ m \in 1..m /\ m - 1 = n /\ n \in 1..n
    BY LenProperties
<1> HIDE DEF m
<1>2. /\ s \in Seq(S) /\ Len(s) = n /\ \A i \in 1..n : s[i] = pages[i]
    BY ONLY <1>1, FirstPages, pages \in Seq(S)
<1>3. /\ t \in Seq(S) /\ Len(t) = m /\ \A i \in 1..m : t[i] = pages[i]
    BY ONLY <1>1, FirstPages, pages \in Seq(S)
<1> HIDE DEF s, t
<1>4. PICK g : Flattens(g, s, Len(s)) /\ FlattenSeq(s) = g[Len(s)]
    BY ONLY <1>1, <1>2, FlattenSeqIs
<1>5. PICK h : Flattens(h, t, Len(t)) /\ FlattenSeq(t) = h[Len(t)]
    BY ONLY <1>1, <1>3, FlattenSeqIs
<1>6. Flattens(g, s, n) /\ Flattens(h, t, m)
    BY ONLY <1>2, <1>3, <1>4, <1>5
<1>7. \A i \in 1..n : s[i] = t[i]
    BY <1>1, <1>2, <1>3
<1>8. \A i \in 1..n : g[i] = h[i]
    BY ONLY <1>1, <1>6, <1>7, FlattensUnique
<1>9. h[m] = IF m = 1 THEN t[m] ELSE h[m - 1] \o t[m]
    <2>1. Flattens(h, t, m) /\ m \in 1..m
        BY <1>1, <1>6
    <2>2. \A i \in 1..m : h[i] = IF i = 1 THEN t[i] ELSE h[i - 1] \o t[i]
        BY <2>1, FlattensAt
    <2> QED BY ONLY <2>1, <2>2
<1>10. h[m] = g[n] \o pages[m]
    BY ONLY <1>1, <1>3, <1>8, <1>9
<1>11. FlattenSeq(t) = FlattenSeq(s) \o pages[m]
    BY ONLY <1>2, <1>3, <1>4, <1>5, <1>10
<1> QED BY <1>11 DEF UpTo, s, t, m

LEMMA FlattenIsSeq ==
    ASSUME NEW S, NEW pages \in Seq(Seq(S)), Len(pages) # 0
    PROVE  FlattenSeq(pages) \in Seq(S)
<1> DEFINE T == {n \in Nat : n \in 1..Len(pages) => UpTo(pages, n) \in Seq(S)}
<1>1. Len(pages) \in Nat \ {0} /\ \A n \in 1..Len(pages) : pages[n] \in Seq(S)
    BY LenProperties
<1>2. 0 \in T
    OBVIOUS
<1>3. ASSUME NEW n \in Nat, n \in T PROVE n + 1 \in T
    <2> SUFFICES ASSUME n + 1 \in 1..Len(pages) PROVE UpTo(pages, n + 1) \in Seq(S)
        OBVIOUS
    <2>1. CASE n = 0
        BY <1>1, <2>1, FlattenFirst
    <2>2. CASE n # 0
        <3>1. n \in 1..(Len(pages) - 1)
            BY <1>1, <2>2
        <3>2. UpTo(pages, n) \in Seq(S) /\ pages[n + 1] \in Seq(S)
            BY <1>1, <1>3, <3>1
        <3>3. UpTo(pages, n + 1) = UpTo(pages, n) \o pages[n + 1]
            BY <3>1, FlattenNext
        <3> QED BY <3>2, <3>3, ConcatProperties
    <2> QED BY <2>1, <2>2
<1> HIDE DEF T
<1>4. Nat \subseteq T
    BY <1>2, <1>3, Induct
<1>5. Len(pages) \in T /\ Len(pages) \in 1..Len(pages)
    BY <1>1, <1>4
<1>6. UpTo(pages, Len(pages)) = FlattenSeq(pages)
    BY SubSeqFull DEF UpTo
<1> QED BY <1>5, <1>6 DEF T

\* Where nothing but what comes last is a placeholder, the filter leaves the rest.
LEMMA EntriesOfPrefix ==
    ASSUME NEW children, NEW m \in Nat,
           {i \in DOMAIN children : children[i] # LoadMore} = 1..m
    PROVE  Entries(children) = [n \in 1..m |-> children[n]]
<1>1. \A i \in 1..m : Cardinality({j \in 1..m : j <= i}) = i
    <2> TAKE i \in 1..m
    <2>1. {j \in 1..m : j <= i} = 1..i
        OBVIOUS
    <2>2. Cardinality(1..i) = i
        BY FS_Interval
    <2> QED BY <2>1, <2>2
<1>2. Cardinality(1..m) = m
    BY FS_Interval
<1>3. \A n \in 1..m : (CHOOSE i \in 1..m : Cardinality({j \in 1..m : j <= i}) = n) = n
    BY <1>1
<1> DEFINE kept == {i \in DOMAIN children : children[i] # LoadMore}
<1>4. Entries(children) =
        [n \in 1..Cardinality(kept) |->
            children[CHOOSE i \in kept : Cardinality({j \in kept : j <= i}) = n]]
    BY DEF Entries
<1>5. kept = 1..m
    OBVIOUS
<1> HIDE DEF kept
<1>6. Entries(children) =
        [n \in 1..m |-> children[CHOOSE i \in 1..m : Cardinality({j \in 1..m : j <= i}) = n]]
    BY <1>2, <1>4, <1>5
<1> QED BY <1>3, <1>6

-----------------------------------------------------------------------------
(***************************************************************************)
(* The records of the state, but for what the children of a node are,      *)
(* which has a section of its own below.                                   *)
(***************************************************************************)
Call ==
    [kind : {"none", "lost"}]
        \cup [kind : {"first"}, pageKey : {None}]
        \cup [kind : {"more"}, pageKey : Int, marks : BOOLEAN]
        \cup [kind : {"search"}, key : Keys]

Shape ==
    /\ DOMAIN node = {"children", "hasChildren", "expanded", "loading", "markLoading",
                      "nextPageKey"}
    /\ node.nextPageKey \in {None} \cup Int
    /\ DOMAIN search = {"searching", "result", "asked"}
    /\ calls \in [Calls -> Call]

\* A user who waits has one search under way at most, the one he sees the spinner
\* of, and nothing but its answer becomes the result.
OneSearch ==
    ~hasty =>
        /\ \A c, d \in Outstanding({"search"}) : c = d
        /\ \A c \in Outstanding({"search"}) :
              search.searching /\ calls[c].key = search.asked
        /\ search.result # None => search.result.key = search.asked

PageInv == Shape /\ SpinnersStop /\ OneSearch

-----------------------------------------------------------------------------
\* fetchChildren takes the spinner off the placeholder and leaves that of the folder.
LEMMA FetchedNode ==
    ASSUME Shape, NEW pageKey \in {None} \cup Int
    PROVE  LET fetched == fetchChildren(node, pageKey)
           IN  /\ DOMAIN fetched = DOMAIN node
               /\ fetched.nextPageKey \in {None} \cup Int
               /\ fetched.loading = node.loading
               /\ ~fetched.markLoading
<1>1. NextKey(pageKey) \in {None} \cup Int
    BY DEF NextKey, PageAfter
<1> QED BY <1>1 DEF fetchChildren, Shape

\* A folder that has just been made.
LEMMA FreshNode ==
    ASSUME NEW f
    PROVE  LET made == makeFolder(f)
           IN  /\ DOMAIN made = {"children", "hasChildren", "expanded", "loading",
                                 "markLoading", "nextPageKey"}
               /\ made.nextPageKey = None
               /\ ~made.loading /\ ~made.markLoading
    BY DEF makeFolder

\* A search that ends, with what was found.
LEMMA EndedSearch ==
    ASSUME NEW s, DOMAIN s = {"searching", "result", "asked"}, NEW found
    PROVE  LET ended == [s EXCEPT !.searching = FALSE, !.result = found]
           IN  /\ DOMAIN ended = {"searching", "result", "asked"}
               /\ ~ended.searching /\ ended.result = found /\ ended.asked = s.asked
    OBVIOUS

LEMMA FoundKey == \A key, found : Found(key, found).key = key
    BY DEF Found

\* What is neither the start nor the end of a search.
LEMMA SearchesGoOn ==
    ASSUME OneSearch, search' = search, ~hasty' => ~hasty,
           \A c \in Calls : calls'[c].kind = "search" => calls'[c] = calls[c]
    PROVE  OneSearch'
    BY DEF OneSearch, Outstanding

LEMMA PageInit == Init => PageInv
<1> SUFFICES ASSUME Init PROVE PageInv
    OBVIOUS
<1>1. calls \in [Calls -> Call] /\ \A c \in Calls : calls[c].kind = "none"
    BY DEF Init, NoCall, Call
<1>2. Shape
    BY <1>1, FreshNode DEF Init, Shape, Mounted
<1>3. SpinnersStop
    BY FreshNode DEF Init, SpinnersStop, Mounted
<1>4. OneSearch
    BY <1>1 DEF Init, OneSearch, Outstanding, Mounted
<1> QED BY <1>2, <1>3, <1>4 DEF PageInv

(***************************************************************************)
(* Each action keeps the invariant of the page.                            *)
(***************************************************************************)
LEMMA KeptByCollapse == PageInv /\ Collapse => PageInv'
    BY DEF PageInv, Shape, SpinnersStop, OneSearch, Outstanding, Collapse

LEMMA KeptByExpand ==
    ASSUME PageInv, NEW c \in Calls, Expand(c)
    PROVE  PageInv'
<1> USE DEF PageInv, Expand, Outstanding
<1>1. CASE node.children = << >>
    <2>1. /\ calls[c].kind = "none"
          /\ calls' = [calls EXCEPT ![c] = [kind |-> "first", pageKey |-> None]]
          /\ node' = [node EXCEPT !.expanded = TRUE, !.loading = TRUE]
        BY <1>1 DEF Start
    <2>2. calls' \in [Calls -> Call]
        BY <2>1 DEF Shape, Call
    <2>3. calls'[c].kind = "first" /\ \A d \in Calls \ {c} : calls'[d] = calls[d]
        BY <2>1 DEF Shape
    <2>4. /\ DOMAIN node' = DOMAIN node /\ node'.nextPageKey = node.nextPageKey
          /\ node'.markLoading = node.markLoading
        BY <2>1 DEF Shape
    <2>5. Shape'
        BY <2>2, <2>4 DEF Shape
    <2>6. SpinnersStop'
        <3>1. c \in Outstanding({"first"})'
            BY <2>3
        <3>2. \A d \in Outstanding({"more", "search"}) : d # c /\ calls'[d] = calls[d]
            BY <2>1, <2>3
        <3>3. node'.markLoading => \E d \in Outstanding({"more"})' : calls'[d].marks
            BY <3>2, <2>4 DEF SpinnersStop
        <3>4. search'.searching => Outstanding({"search"})' # {}
            BY <3>2 DEF SpinnersStop
        <3> QED BY <3>1, <3>3, <3>4 DEF SpinnersStop
    <2>7. OneSearch'
        <3>1. \A d \in Calls : calls'[d].kind = "search" => calls'[d] = calls[d]
            BY <2>3
        <3> QED BY <3>1, SearchesGoOn
    <2> QED BY <2>5, <2>6, <2>7
<1>2. CASE node.children # << >>
    <2>1. /\ UNCHANGED << calls, search >>
          /\ node' = [node EXCEPT !.expanded = TRUE]
        BY <1>2
    <2>2. Shape'
        BY <2>1 DEF Shape
    <2>3. SpinnersStop'
        BY <2>1 DEF SpinnersStop, Shape
    <2>4. OneSearch'
        BY <2>1 DEF OneSearch
    <2> QED BY <2>2, <2>3, <2>4
<1> QED BY <1>1, <1>2

LEMMA KeptByClickLoadMore ==
    ASSUME PageInv, NEW c \in Calls, ClickLoadMore(c)
    PROVE  PageInv'
<1> USE DEF PageInv, ClickLoadMore, Outstanding
<1>1. /\ calls[c].kind = "none" /\ node.nextPageKey \in Int
      /\ calls' = [calls EXCEPT ![c] = [kind |-> "more", pageKey |-> node.nextPageKey,
                                        marks |-> TRUE]]
      /\ node' = [node EXCEPT !.markLoading = TRUE]
    BY DEF Start, Shape
<1>2. calls' \in [Calls -> Call]
    BY <1>1 DEF Shape, Call
<1>3. /\ calls'[c].kind = "more" /\ calls'[c].marks
      /\ \A d \in Calls \ {c} : calls'[d] = calls[d]
    BY <1>1 DEF Shape
<1>4. /\ DOMAIN node' = DOMAIN node /\ node'.nextPageKey = node.nextPageKey
      /\ node'.loading = node.loading
    BY <1>1 DEF Shape
<1>5. Shape'
    BY <1>2, <1>4 DEF Shape
<1>6. SpinnersStop'
    <2>1. \E d \in Outstanding({"more"})' : calls'[d].marks
        BY <1>3
    <2>2. \A d \in Outstanding({"first", "search"}) : d # c /\ calls'[d] = calls[d]
        BY <1>1, <1>3
    <2>3. node'.loading => Outstanding({"first"})' # {}
        BY <2>2, <1>4 DEF SpinnersStop
    <2>4. search'.searching => Outstanding({"search"})' # {}
        BY <2>2 DEF SpinnersStop
    <2> QED BY <2>1, <2>3, <2>4 DEF SpinnersStop
<1>7. OneSearch'
    <2>1. \A d \in Calls : calls'[d].kind = "search" => calls'[d] = calls[d]
        BY <1>3
    <2> QED BY <2>1, SearchesGoOn
<1> QED BY <1>5, <1>6, <1>7

\* While the last search is under way its spinner is on show, so that a user who
\* waits starts none beside it.
LEMMA KeptBySearch ==
    ASSUME PageInv, NEW c \in Calls, NEW key \in Keys, Search(c, key)
    PROVE  PageInv'
<1> USE DEF PageInv, Search, Outstanding
<1>1. /\ DOMAIN search' = {"searching", "result", "asked"} /\ search'.asked = key
      /\ search'.result # None => search'.result.key = key
    <2>1. /\ DOMAIN Asking(key) = {"searching", "result", "asked"}
          /\ Asking(key).asked = key /\ Asking(key).result = None
        BY DEF Asking
    <2>2. CASE key \in Range(node.children)
        <3> DEFINE found == Found(key, TRUE)
        <3>1. search' = [Asking(key) EXCEPT !.searching = FALSE, !.result = found]
            BY <2>2
        <3>2. found.key = key
            BY FoundKey
        <3> HIDE DEF found
        <3>3. LET ended == [Asking(key) EXCEPT !.searching = FALSE, !.result = found]
              IN  /\ DOMAIN ended = {"searching", "result", "asked"}
                  /\ ended.result = found /\ ended.asked = Asking(key).asked
            BY <2>1, EndedSearch
        <3> QED BY <2>1, <3>1, <3>2, <3>3
    <2>3. CASE key \notin Range(node.children) /\ folder.searcher
        BY <2>1, <2>3
    <2>4. CASE key \notin Range(node.children) /\ ~folder.searcher
        <3> DEFINE found == Found(key, FALSE)
        <3>1. search' = [Asking(key) EXCEPT !.searching = FALSE, !.result = found]
            BY <2>4
        <3>2. found.key = key
            BY FoundKey
        <3> HIDE DEF found
        <3>3. LET ended == [Asking(key) EXCEPT !.searching = FALSE, !.result = found]
              IN  /\ DOMAIN ended = {"searching", "result", "asked"}
                  /\ ended.result = found /\ ended.asked = Asking(key).asked
            BY <2>1, EndedSearch
        <3> QED BY <2>1, <3>1, <3>2, <3>3
    <2> QED BY <2>2, <2>3, <2>4
<1>2. ~hasty' => ~hasty /\ ~search.searching
    OBVIOUS
<1>3. CASE folder.searcher /\ key \notin Range(node.children)
    <2>1. /\ calls[c].kind = "none" /\ search' = Asking(key)
          /\ calls' = [calls EXCEPT ![c] = [kind |-> "search", key |-> key]]
        BY <1>3 DEF Start
    <2>2. calls' \in [Calls -> Call]
        BY <2>1 DEF Shape, Call
    <2>3. /\ calls'[c].kind = "search" /\ calls'[c].key = key /\ search'.searching
          /\ \A d \in Calls \ {c} : calls'[d] = calls[d]
        BY <2>1 DEF Shape, Asking
    <2>4. Shape'
        BY <1>1, <2>2 DEF Shape
    <2>5. SpinnersStop'
        BY <2>1, <2>3 DEF SpinnersStop
    <2>6. OneSearch'
        BY <1>1, <1>2, <2>3 DEF OneSearch
    <2> QED BY <2>4, <2>5, <2>6
<1>4. CASE ~(folder.searcher /\ key \notin Range(node.children))
    <2>1. UNCHANGED << calls, node >> /\ ~search'.searching
        BY <1>4 DEF Asking
    <2>2. Shape'
        BY <1>1, <2>1 DEF Shape
    <2>3. SpinnersStop'
        BY <2>1 DEF SpinnersStop
    <2>4. OneSearch'
        BY <1>1, <1>2, <2>1 DEF OneSearch
    <2> QED BY <2>2, <2>3, <2>4
<1> QED BY <1>3, <1>4

LEMMA KeptByUnmount == PageInv /\ Unmount => PageInv'
<1> SUFFICES ASSUME PageInv, Unmount PROVE PageInv'
    OBVIOUS
<1> USE DEF PageInv, Unmount, Outstanding
<1>1. calls' \in [Calls -> Call]
    BY DEF Shape, Call
<1>2. \A c \in Calls :
         /\ calls'[c].kind # "search"
         /\ calls[c].kind # "search" => calls'[c] = calls[c]
    OBVIOUS
<1>3. Shape'
    BY <1>1 DEF Shape, Mounted
<1>4. SpinnersStop'
    BY <1>2 DEF SpinnersStop, Mounted
<1>5. OneSearch'
    BY <1>2 DEF OneSearch, Mounted
<1> QED BY <1>3, <1>4, <1>5

LEMMA KeptBySetModules == PageInv /\ SetModules => PageInv'
<1> SUFFICES ASSUME PageInv, SetModules PROVE PageInv'
    OBVIOUS
<1> USE DEF PageInv, SetModules, Outstanding
<1>1. calls' \in [Calls -> Call] /\ \A c \in Calls : calls'[c].kind # "search"
    BY DEF NoCall, Call
<1>2. Shape'
    BY <1>1, FreshNode DEF Shape, Mounted
<1>3. SpinnersStop'
    BY FreshNode DEF SpinnersStop, Mounted
<1>4. OneSearch'
    BY <1>1 DEF OneSearch, Mounted
<1> QED BY <1>2, <1>3, <1>4

\* The spinner of the placeholder is off in any case. The calls that would have
\* cleared it clear nothing any more.
LEMMA KeptByAnswerFetch ==
    ASSUME PageInv, NEW c \in Calls, AnswerFetch(c)
    PROVE  PageInv'
<1> USE DEF PageInv, AnswerFetch, Outstanding
<1> DEFINE freed == [calls EXCEPT ![c] = NoCall]
           fetched == fetchChildren(node, calls[c].pageKey)
<1>1. calls[c].kind \in {"first", "more"} /\ calls[c].pageKey \in {None} \cup Int
    BY DEF Shape, Call
<1>2. freed \in [Calls -> Call]
    BY DEF Shape, Call, NoCall
<1>3. /\ calls' \in [Calls -> Call]
      /\ \A d \in Calls : calls'[d].kind = freed[d].kind
      /\ \A d \in Calls : freed[d].kind = "search" => calls'[d] = freed[d]
    BY <1>2 DEF WithoutMarks, Call
<1>4. /\ freed[c].kind = "none"
      /\ \A d \in Calls \ {c} : freed[d] = calls[d]
    BY DEF Shape, NoCall
<1>5. /\ DOMAIN fetched = DOMAIN node /\ fetched.nextPageKey \in {None} \cup Int
      /\ fetched.loading = node.loading /\ ~fetched.markLoading
    BY <1>1, FetchedNode
<1>6. /\ DOMAIN node' = DOMAIN node /\ node'.nextPageKey \in {None} \cup Int
      /\ ~node'.markLoading
      /\ node'.loading => node.loading /\ calls[c].kind = "more"
    BY <1>1, <1>5 DEF Shape
<1> HIDE DEF freed
<1>7. Shape'
    BY <1>3, <1>6 DEF Shape
<1>8. SpinnersStop'
    <2>1. \A d \in Outstanding({"first", "search"}) :
             calls[c].kind = calls[d].kind \/ calls'[d].kind = calls[d].kind
        BY <1>3, <1>4
    <2>2. node'.loading => Outstanding({"first"})' # {}
        BY <2>1, <1>6 DEF SpinnersStop
    <2>3. search'.searching => Outstanding({"search"})' # {}
        BY <2>1, <1>1 DEF SpinnersStop
    <2> QED BY <2>2, <2>3, <1>6 DEF SpinnersStop
<1>9. OneSearch'
    <2>1. \A d \in Calls : calls'[d].kind = "search" => calls'[d] = calls[d]
        BY <1>3, <1>4
    <2> QED BY <2>1, SearchesGoOn
<1> QED BY <1>7, <1>8, <1>9

LEMMA KeptByFailFetch ==
    ASSUME PageInv, NEW c \in Calls, FailFetch(c)
    PROVE  PageInv'
<1> USE DEF PageInv, FailFetch, Outstanding
<1>1. calls[c].kind \in {"first", "more"}
    OBVIOUS
<1>2. /\ calls' \in [Calls -> Call] /\ calls'[c].kind = "none"
      /\ \A d \in Calls \ {c} : calls'[d] = calls[d]
    BY DEF Shape, Call, NoCall
<1>3. /\ DOMAIN node' = DOMAIN node /\ node'.nextPageKey = node.nextPageKey
      /\ node'.loading => node.loading /\ calls[c].kind = "more"
      /\ node'.markLoading =>
            node.markLoading /\ (calls[c].kind = "first" \/ ~calls[c].marks)
    BY <1>1 DEF Cleared, Shape
<1>4. Shape'
    BY <1>2, <1>3 DEF Shape
<1>5. SpinnersStop'
    BY <1>1, <1>2, <1>3 DEF SpinnersStop
<1>6. OneSearch'
    BY <1>1, <1>2 DEF OneSearch
<1> QED BY <1>4, <1>5, <1>6

\* The answer to the search of a user who waits is to his last one, and leaves none.
LEMMA KeptByAnswerSearch ==
    ASSUME PageInv, NEW c \in Calls, AnswerSearch(c) \/ FailSearch(c)
    PROVE  PageInv'
<1> USE DEF PageInv, AnswerSearch, FailSearch, Outstanding
<1>1. calls[c].kind = "search"
    OBVIOUS
<1>2. /\ calls' \in [Calls -> Call] /\ calls'[c].kind = "none"
      /\ \A d \in Calls \ {c} : calls'[d] = calls[d]
    BY DEF Shape, Call, NoCall
<1>3. /\ DOMAIN search' = DOMAIN search /\ ~search'.searching
      /\ search'.asked = search.asked /\ search'.result.key = calls[c].key
    <2>1. CASE AnswerSearch(c)
        BY <2>1, EndedSearch, FoundKey DEF Shape
    <2>2. CASE FailSearch(c)
        BY <2>2, EndedSearch, FoundKey DEF Shape
    <2> QED BY <2>1, <2>2
<1>4. Shape'
    BY <1>2, <1>3 DEF Shape
<1>5. SpinnersStop'
    BY <1>1, <1>2, <1>3 DEF SpinnersStop
<1>6. OneSearch'
    BY <1>1, <1>2, <1>3 DEF OneSearch
<1> QED BY <1>4, <1>5, <1>6

LEMMA KeptByAnswerLost ==
    ASSUME PageInv, NEW c \in Calls, AnswerLost(c)
    PROVE  PageInv'
<1> USE DEF PageInv, AnswerLost, Outstanding
<1>1. /\ calls[c].kind = "lost" /\ calls' \in [Calls -> Call] /\ calls'[c].kind = "none"
      /\ \A d \in Calls \ {c} : calls'[d] = calls[d]
    BY DEF Shape, Call, NoCall
<1>2. Shape'
    BY <1>1 DEF Shape
<1>3. SpinnersStop'
    BY <1>1 DEF SpinnersStop
<1>4. OneSearch'
    BY <1>1 DEF OneSearch
<1> QED BY <1>2, <1>3, <1>4

LEMMA KeptByRest == PageInv /\ UNCHANGED vars => PageInv'
    BY DEF PageInv, Shape, SpinnersStop, OneSearch, Outstanding, vars

-----------------------------------------------------------------------------
(***************************************************************************)
(* The children. What is listed comes first and the placeholder last, with *)
(* the number of a page there is. A user who waits has one page under way  *)
(* at most: the first one of a folder that shows nothing, or the next one. *)
(***************************************************************************)
PageNumbers == 2..Len(folder.pages)

Fetches == Outstanding({"first", "more"})

Offered(shown, next) == IF next = None THEN shown ELSE Append(shown, LoadMore)

Pages ==
    /\ folder \in Folders
    /\ node.nextPageKey \in {None} \cup PageNumbers
    /\ \A c \in Outstanding({"more"}) : calls[c].pageKey \in PageNumbers
    /\ \E shown \in Seq(Listed(folder)) : node.children = Offered(shown, node.nextPageKey)

OnePage ==
    ~hasty =>
        /\ \A c, d \in Fetches : c = d
        /\ \A c \in Outstanding({"first"}) : node.loading /\ node.children = << >>
        /\ \A c \in Outstanding({"more"}) :
              node.markLoading /\ calls[c].pageKey = node.nextPageKey

ChildrenInv == Pages /\ OnePage /\ PagesInOrder

LEMMA FolderPages ==
    ASSUME NEW f \in Folders
    PROVE  /\ f.pages \in Seq(Seq(Listed(f))) /\ Len(f.pages) \in Nat \ {0}
           /\ LoadMore \notin Listed(f)
           /\ \A n \in 1..Len(f.pages) : f.pages[n] \in Seq(Listed(f))
<1>1. /\ f.pages \in Seq(Seq(Listed(f))) /\ f.pages # << >> /\ LoadMore \notin Listed(f)
    BY ExplorerAssumption
<1>2. Len(f.pages) \in Nat \ {0} /\ \A n \in 1..Len(f.pages) : f.pages[n] \in Seq(Listed(f))
    BY <1>1, LenProperties, EmptySeq
<1> QED BY <1>1, <1>2

\* The filter takes off the placeholder, and nothing else.
LEMMA OfferedEntries ==
    ASSUME NEW S, LoadMore \notin S, NEW shown \in Seq(S), NEW next
    PROVE  Entries(Offered(shown, next)) = shown
<1> DEFINE children == Offered(shown, next)
           m == Len(shown)
<1>1. /\ m \in Nat /\ \A i \in 1..m : shown[i] # LoadMore
      /\ DOMAIN shown = 1..m /\ shown = [i \in 1..m |-> shown[i]]
    BY LenProperties
<1>2. CASE next = None
    <2>1. children = shown
        BY <1>2 DEF Offered
    <2>2. {i \in DOMAIN children : children[i] # LoadMore} = 1..m
        BY <1>1, <2>1
    <2> HIDE DEF children, m
    <2>3. Entries(children) = [i \in 1..m |-> children[i]]
        BY <1>1, <2>2, EntriesOfPrefix
    <2> QED BY <1>1, <2>1, <2>3 DEF children
<1>3. CASE next # None
    <2>1. children = Append(shown, LoadMore)
        BY <1>3 DEF Offered
    <2>2. /\ DOMAIN children = 1..(m + 1) /\ children[m + 1] = LoadMore
          /\ \A i \in 1..m : children[i] = shown[i]
        <3>1. shown \in Seq(S \cup {LoadMore}) /\ LoadMore \in S \cup {LoadMore}
            BY SeqMonotonic
        <3>2. /\ Append(shown, LoadMore) \in Seq(S \cup {LoadMore})
              /\ Len(Append(shown, LoadMore)) = m + 1
              /\ Append(shown, LoadMore)[m + 1] = LoadMore
              /\ \A i \in 1..m : Append(shown, LoadMore)[i] = shown[i]
            BY <3>1, AppendProperties
        <3> QED BY <2>1, <3>2, LenProperties
    <2>3. {i \in DOMAIN children : children[i] # LoadMore} = 1..m
        BY <1>1, <2>2
    <2> HIDE DEF children, m
    <2>4. Entries(children) = [i \in 1..m |-> children[i]]
        BY <1>1, <2>3, EntriesOfPrefix
    <2> QED BY <1>1, <2>2, <2>4 DEF children
<1> QED BY <1>2, <1>3

\* The placeholder is where it belongs.
LEMMA OfferedMarks ==
    ASSUME NEW S, LoadMore \notin S, NEW shown \in Seq(S), NEW next
    PROVE  LET children == Offered(shown, next)
               marks == {i \in DOMAIN children : children[i] = LoadMore}
           IN  /\ marks = IF next = None THEN {} ELSE {Len(children)}
               /\ children = << >> => next = None
<1>1. /\ Len(shown) \in Nat /\ DOMAIN shown = 1..Len(shown)
      /\ \A i \in 1..Len(shown) : shown[i] # LoadMore
    BY LenProperties
<1>2. CASE next = None
    BY <1>1, <1>2 DEF Offered
<1>3. CASE next # None
    <2> DEFINE children == Append(shown, LoadMore)
               m == Len(shown)
    <2>1. shown \in Seq(S \cup {LoadMore}) /\ LoadMore \in S \cup {LoadMore}
        BY SeqMonotonic
    <2>2. /\ children \in Seq(S \cup {LoadMore}) /\ children # << >>
          /\ Len(children) = m + 1 /\ children[m + 1] = LoadMore
          /\ \A i \in 1..m : children[i] = shown[i]
        BY <2>1, AppendProperties
    <2>3. DOMAIN children = 1..(m + 1)
        BY <2>2, LenProperties
    <2> HIDE DEF children
    <2>4. {i \in DOMAIN children : children[i] = LoadMore} = {Len(children)}
        BY <1>1, <2>2, <2>3
    <2> QED BY <1>3, <2>2, <2>4 DEF Offered, children
<1> QED BY <1>2, <1>3

\* fetchChildren: what is shown once a page has come, with the number of the next.
LEMMA FetchedChildren ==
    ASSUME Shape, Pages, NEW pageKey \in {None} \cup PageNumbers
    PROVE  LET fetched == fetchChildren(node, pageKey)
               shown == IF pageKey = None THEN folder.pages[1]
                        ELSE Entries(node.children) \o folder.pages[pageKey]
           IN  /\ shown \in Seq(Listed(folder))
               /\ fetched.nextPageKey = NextKey(pageKey)
               /\ NextKey(pageKey) \in {None} \cup PageNumbers
               /\ fetched.children = Offered(shown, NextKey(pageKey))
               /\ fetched.loading = node.loading
<1> DEFINE S == Listed(folder)
           pages == folder.pages
           shown == IF pageKey = None THEN pages[1] ELSE Entries(node.children) \o pages[pageKey]
           next == NextKey(pageKey)
<1>1. /\ Len(pages) \in Nat \ {0} /\ LoadMore \notin S
      /\ \A n \in 1..Len(pages) : pages[n] \in Seq(S)
    BY FolderPages DEF Pages
<1>2. next \in {None} \cup PageNumbers
    BY <1>1 DEF NextKey, PageAfter, PageNumbers
<1>3. shown \in Seq(S)
    <2>1. CASE pageKey = None
        BY <1>1, <2>1
    <2>2. CASE pageKey # None
        <3>1. pages[pageKey] \in Seq(S)
            BY <1>1, <2>2 DEF PageNumbers
        <3>2. PICK listed \in Seq(S) : node.children = Offered(listed, node.nextPageKey)
            BY DEF Pages
        <3>3. Entries(node.children) \in Seq(S)
            BY <1>1, <3>2, OfferedEntries
        <3> HIDE DEF S
        <3> QED BY <2>2, <3>1, <3>3, ConcatProperties
    <2> QED BY <2>1, <2>2
<1>4. shown = IF pageKey = None THEN Page(pageKey) ELSE Entries(node.children) \o Page(pageKey)
    BY DEF Page, PageAfter
<1>5. fetchChildren(node, pageKey) =
        [node EXCEPT !.nextPageKey = next, !.children = Offered(shown, next),
                     !.markLoading = FALSE,
                     !.hasChildren = node.hasChildren /\ Offered(shown, next) # << >>]
    BY <1>4 DEF fetchChildren, Offered
<1> HIDE DEF shown, next
<1>6. /\ fetchChildren(node, pageKey).nextPageKey = next
      /\ fetchChildren(node, pageKey).children = Offered(shown, next)
      /\ fetchChildren(node, pageKey).loading = node.loading
    BY <1>5 DEF Shape
<1> QED BY <1>2, <1>3, <1>6 DEF shown, next

\* What a user who waits is shown then: one page more.
LEMMA ShownInOrder ==
    ASSUME Pages, NEW pageKey \in {None} \cup PageNumbers,
           pageKey # None => Entries(node.children) = UpTo(folder.pages, pageKey - 1)
    PROVE  /\ pageKey = None => folder.pages[1] = UpTo(folder.pages, PageAfter(pageKey))
           /\ pageKey # None => Entries(node.children) \o folder.pages[pageKey] =
                                   UpTo(folder.pages, PageAfter(pageKey))
<1> DEFINE pages == folder.pages
<1>1. pages \in Seq(Seq(Listed(folder))) /\ Len(pages) \in Nat \ {0}
    BY FolderPages DEF Pages
<1>2. CASE pageKey = None
    BY <1>1, <1>2, FlattenFirst DEF PageAfter
<1>3. CASE pageKey # None
    <2> DEFINE n == pageKey - 1
    <2>1. n \in 1..(Len(pages) - 1) /\ n + 1 = pageKey
        BY <1>1, <1>3 DEF PageNumbers
    <2>2. Entries(node.children) = UpTo(pages, n)
        BY <1>3
    <2> HIDE DEF n, pages
    <2>3. UpTo(pages, n + 1) = UpTo(pages, n) \o pages[n + 1]
        BY <1>1, <2>1, FlattenNext
    <2>4. pages[n + 1] = pages[pageKey] /\ PageAfter(pageKey) = n + 1
        BY <1>3, <2>1 DEF PageAfter
    <2> QED BY <1>3, <2>2, <2>3, <2>4 DEF pages
<1> QED BY <1>2, <1>3

LEMMA FilledChildren ==
    ASSUME NEW f \in Folders
    PROVE  /\ makeFolder(f).nextPageKey = None
           /\ makeFolder(f).children \in {<< >>, UpTo(f.pages, Len(f.pages))}
           /\ makeFolder(f).children \in Seq(Listed(f))
<1> DEFINE S == Listed(f)
<1>1. /\ makeFolder(f).nextPageKey = None /\ makeFolder(f).children = f.filled
    BY DEF makeFolder
<1>2. /\ f.pages \in Seq(Seq(S)) /\ Len(f.pages) \in Nat \ {0}
      /\ f.filled \in {<< >>, FlattenSeq(f.pages)}
    BY FolderPages, ExplorerAssumption
<1>3. UpTo(f.pages, Len(f.pages)) = FlattenSeq(f.pages)
    BY <1>2, SubSeqFull DEF UpTo
<1>4. FlattenSeq(f.pages) \in Seq(S)
    BY <1>2, <1>3, FlattenIsSeq
<1> QED BY <1>1, <1>2, <1>3, <1>4, EmptySeq

LEMMA ChildrenInit == Init => ChildrenInv
<1> SUFFICES ASSUME Init PROVE ChildrenInv
    OBVIOUS
<1>1. folder \in Folders /\ node = makeFolder(folder) /\ Fetches = {}
    BY DEF Init, Fetches, Outstanding, NoCall
<1>2. /\ node.nextPageKey = None /\ node.children \in Seq(Listed(folder))
      /\ node.children \in {<< >>, UpTo(folder.pages, Len(folder.pages))}
    BY <1>1, FilledChildren
<1>3. Pages
    BY <1>1, <1>2 DEF Pages, Offered, Fetches, Outstanding
<1>4. OnePage
    BY <1>1 DEF OnePage, Fetches, Outstanding
<1> QED BY <1>2, <1>3, <1>4 DEF ChildrenInv, PagesInOrder


\* Whatever does not touch what is shown, and starts no fetch, unless the user is hasty.
LEMMA ChildrenStay ==
    ASSUME ChildrenInv, folder' = folder, ~hasty' => ~hasty,
           node'.children = node.children, node'.nextPageKey = node.nextPageKey,
           node'.loading = node.loading, node'.markLoading = node.markLoading,
           \A c \in Calls : calls'[c].kind \in {"first", "more"} => calls'[c] = calls[c]
    PROVE  ChildrenInv'
<1>1. \A kinds \in SUBSET {"first", "more"} : \A c \in Outstanding(kinds)' :
          c \in Outstanding(kinds) /\ calls'[c] = calls[c]
    BY DEF Outstanding
<1>2. /\ \A c \in Fetches' : c \in Fetches
      /\ \A c \in Outstanding({"first"})' : c \in Outstanding({"first"})
      /\ \A c \in Outstanding({"more"})' : c \in Outstanding({"more"}) /\ calls'[c] = calls[c]
    BY <1>1 DEF Fetches
<1>3. Pages'
    BY <1>2 DEF ChildrenInv, Pages, PageNumbers
<1>4. OnePage'
    BY <1>2 DEF ChildrenInv, OnePage
<1>5. PagesInOrder'
    BY DEF ChildrenInv, PagesInOrder
<1> QED BY <1>3, <1>4, <1>5 DEF ChildrenInv

LEMMA ChildrenAtCollapse == Shape /\ ChildrenInv /\ Collapse => ChildrenInv'
<1> SUFFICES ASSUME Shape, ChildrenInv, Collapse PROVE ChildrenInv'
    OBVIOUS
<1>1. /\ folder' = folder /\ calls' = calls /\ (~hasty' => ~hasty)
      /\ node' = [node EXCEPT !.expanded = FALSE]
    BY DEF Collapse
<1>2. /\ node'.children = node.children /\ node'.nextPageKey = node.nextPageKey
      /\ node'.loading = node.loading /\ node'.markLoading = node.markLoading
    BY <1>1 DEF Shape
<1>3. \A d \in Calls : calls'[d].kind \in {"first", "more"} => calls'[d] = calls[d]
    BY <1>1
<1> QED BY <1>1, <1>2, <1>3, ChildrenStay

\* A user who waits opens no folder while its first page is under way, and none
\* that shows nothing has a next one.
LEMMA ChildrenAtExpand ==
    ASSUME Shape, ChildrenInv, NEW c \in Calls, Expand(c)
    PROVE  ChildrenInv'
<1>1. CASE node.children = << >>
    <2>1. /\ calls[c].kind = "none" /\ folder' = folder
          /\ calls' = [calls EXCEPT ![c] = [kind |-> "first", pageKey |-> None]]
          /\ node' = [node EXCEPT !.expanded = TRUE, !.loading = TRUE]
          /\ ~hasty' => ~hasty /\ ~node.loading
        BY <1>1 DEF Expand, Start, Outstanding
    <2>2. /\ calls'[c].kind = "first" /\ \A d \in Calls \ {c} : calls'[d] = calls[d]
          /\ node'.children = node.children /\ node'.nextPageKey = node.nextPageKey
          /\ node'.loading
        BY <2>1 DEF Shape
    <2>3. node.nextPageKey = None
        BY <1>1, FolderPages, OfferedMarks DEF ChildrenInv, Pages
    <2>4. \A d \in Outstanding({"more"})' : d \in Outstanding({"more"}) /\ calls'[d] = calls[d]
        BY <2>2 DEF Outstanding
    <2>5. ~hasty => Outstanding({"more"}) = {}
        BY <2>3, ExplorerAssumption DEF ChildrenInv, OnePage, Pages, PageNumbers
    <2>6. ~hasty' => \A d \in Calls : calls[d].kind \notin {"first", "more"}
        BY <2>1, <2>5 DEF ChildrenInv, OnePage, Outstanding
    <2>7. ~hasty' => Fetches' \subseteq {c} /\ Outstanding({"more"})' = {}
        BY <2>2, <2>6 DEF Fetches, Outstanding
    <2>8. Pages'
        BY <2>1, <2>2, <2>4 DEF ChildrenInv, Pages, PageNumbers
    <2>9. OnePage'
        BY <1>1, <2>2, <2>7 DEF OnePage
    <2>10. PagesInOrder'
        BY <2>1, <2>2 DEF ChildrenInv, PagesInOrder
    <2> QED BY <2>8, <2>9, <2>10 DEF ChildrenInv
<1>2. CASE node.children # << >>
    <2>1. /\ folder' = folder /\ calls' = calls /\ (~hasty' => ~hasty)
          /\ node' = [node EXCEPT !.expanded = TRUE]
        BY <1>2 DEF Expand
    <2>2. /\ node'.children = node.children /\ node'.nextPageKey = node.nextPageKey
          /\ node'.loading = node.loading /\ node'.markLoading = node.markLoading
        BY <2>1 DEF Shape
    <2>3. \A d \in Calls : calls'[d].kind \in {"first", "more"} => calls'[d] = calls[d]
        BY <2>1
    <2> QED BY <2>1, <2>2, <2>3, ChildrenStay
<1> QED BY <1>1, <1>2

LEMMA ChildrenAtClickLoadMore ==
    ASSUME Shape, ChildrenInv, NEW c \in Calls, ClickLoadMore(c)
    PROVE  ChildrenInv'
<1>1. /\ calls[c].kind = "none" /\ folder' = folder /\ node.nextPageKey # None
      /\ calls' = [calls EXCEPT ![c] = [kind |-> "more", pageKey |-> node.nextPageKey,
                                        marks |-> TRUE]]
      /\ node' = [node EXCEPT !.markLoading = TRUE]
      /\ ~hasty' => ~hasty /\ ~node.loading /\ ~node.markLoading
    BY DEF ClickLoadMore, Start, Outstanding
<1>2. /\ calls'[c].kind = "more" /\ calls'[c].pageKey = node.nextPageKey
      /\ \A d \in Calls \ {c} : calls'[d] = calls[d]
      /\ node'.children = node.children /\ node'.nextPageKey = node.nextPageKey
      /\ node'.markLoading
    BY <1>1 DEF Shape
<1>3. ~hasty' => \A d \in Calls : calls[d].kind \notin {"first", "more"}
    BY <1>1 DEF ChildrenInv, OnePage, Outstanding
<1>4. ~hasty' => Fetches' \subseteq {c} /\ Outstanding({"first"})' = {}
    BY <1>2, <1>3 DEF Fetches, Outstanding
<1>5. Pages'
    <2>1. \A d \in Outstanding({"more"})' :
              d = c \/ (d \in Outstanding({"more"}) /\ calls'[d] = calls[d])
        BY <1>2 DEF Outstanding
    <2> QED BY <1>1, <1>2, <2>1 DEF ChildrenInv, Pages, PageNumbers
<1>6. OnePage'
    <2>1. ~hasty' => Outstanding({"more"})' \subseteq {c}
        BY <1>4 DEF Fetches, Outstanding
    <2> QED BY <1>2, <1>4, <2>1 DEF OnePage
<1>7. PagesInOrder'
    BY <1>1, <1>2 DEF ChildrenInv, PagesInOrder
<1> QED BY <1>5, <1>6, <1>7 DEF ChildrenInv

\* Pages come in any order: each is put below what is listed, and the placeholder
\* below it. The one a user who waits has asked for is the next in order.
LEMMA ChildrenAtAnswerFetch ==
    ASSUME Shape, ChildrenInv, NEW c \in Calls, AnswerFetch(c)
    PROVE  ChildrenInv'
<1> DEFINE pageKey == calls[c].pageKey
           pages == folder.pages
           next == NextKey(pageKey)
           shown == IF pageKey = None THEN pages[1] ELSE Entries(node.children) \o pages[pageKey]
<1>1. /\ c \in Fetches /\ folder' = folder /\ hasty' = hasty
      /\ pageKey \in {None} \cup PageNumbers
      /\ calls[c].kind = "first" => pageKey = None
      /\ calls[c].kind = "more" => pageKey \in PageNumbers
    BY DEF AnswerFetch, Fetches, Outstanding, Shape, Call, ChildrenInv, Pages
<1>2. \A d \in Calls : calls'[d].kind \in {"first", "more"} =>
          d # c /\ calls'[d].kind = calls[d].kind /\ calls'[d].pageKey = calls[d].pageKey
    <2> DEFINE freed == [calls EXCEPT ![c] = NoCall]
    <2>1. freed \in [Calls -> Call]
        BY DEF Shape, Call, NoCall
    <2>2. freed[c].kind = "none" /\ \A d \in Calls \ {c} : freed[d] = calls[d]
        BY DEF Shape, NoCall
    <2> HIDE DEF freed
    <2>3. \A d \in Calls : /\ WithoutMarks(freed)[d].kind = freed[d].kind
                           /\ WithoutMarks(freed)[d].kind \in {"first", "more"} =>
                                 WithoutMarks(freed)[d].pageKey = freed[d].pageKey
        BY <2>1 DEF WithoutMarks, Call
    <2>4. calls' = WithoutMarks(freed)
        BY DEF AnswerFetch, freed
    <2> QED BY <2>2, <2>3, <2>4
<1>3. /\ shown \in Seq(Listed(folder)) /\ next \in {None} \cup PageNumbers
      /\ node'.nextPageKey = next /\ node'.children = Offered(shown, next)
    <2> DEFINE fetched == fetchChildren(node, pageKey)
    <2>1. /\ shown \in Seq(Listed(folder)) /\ next \in {None} \cup PageNumbers
          /\ fetched.nextPageKey = next /\ fetched.children = Offered(shown, next)
        BY <1>1, FetchedChildren DEF ChildrenInv
    <2>2. node' = IF calls[c].kind = "first" THEN [fetched EXCEPT !.loading = FALSE] ELSE fetched
        BY DEF AnswerFetch
    <2> HIDE DEF fetched, shown, next
    <2> QED BY <2>1, <2>2
<1>4. Pages'
    <2>1. \A d \in Outstanding({"more"})' :
              d \in Outstanding({"more"}) /\ calls'[d].pageKey = calls[d].pageKey
        BY <1>2 DEF Outstanding
    <2> HIDE DEF shown, next
    <2> QED BY <1>1, <1>3, <2>1 DEF ChildrenInv, Pages, PageNumbers
<1>5. ~hasty => Fetches' = {}
    <2>1. \A d \in Fetches' : d \in Fetches /\ d # c
        BY <1>2 DEF Fetches, Outstanding
    <2> QED BY <1>1, <2>1 DEF ChildrenInv, OnePage
<1>6. OnePage'
    BY <1>1, <1>5 DEF OnePage, Fetches, Outstanding
<1>7. PagesInOrder'
    <2> SUFFICES ASSUME ~hasty
                 PROVE  IF next # None
                        THEN Entries(Offered(shown, next)) = UpTo(pages, next - 1)
                        ELSE Offered(shown, next) = UpTo(pages, Len(pages))
        BY <1>1, <1>3 DEF PagesInOrder
    <2>1. calls[c].kind = "more" => pageKey = node.nextPageKey
        BY <1>1 DEF ChildrenInv, OnePage, Fetches, Outstanding
    <2>2. calls[c].kind \in {"first", "more"}
        BY <1>1 DEF Fetches, Outstanding
    <2>3. shown = UpTo(pages, PageAfter(pageKey))
        <3> HIDE DEF pageKey
        <3>1. pageKey = None \/ pageKey = node.nextPageKey
            BY <1>1, <2>1, <2>2
        <3>2. Pages /\ pageKey \in {None} \cup PageNumbers
            BY <1>1 DEF ChildrenInv
        <3>4. pageKey # None => Entries(node.children) = UpTo(folder.pages, pageKey - 1)
            BY <3>1 DEF ChildrenInv, PagesInOrder
        <3>3. /\ pageKey = None => folder.pages[1] = UpTo(folder.pages, PageAfter(pageKey))
              /\ pageKey # None => Entries(node.children) \o folder.pages[pageKey] =
                                      UpTo(folder.pages, PageAfter(pageKey))
            BY ONLY <3>2, <3>4, ShownInOrder
        <3> QED BY ONLY <3>3 DEF shown, pages
    <2>4. /\ Len(pages) \in Nat \ {0} /\ LoadMore \notin Listed(folder)
        BY FolderPages DEF ChildrenInv, Pages
    <2>5. PageAfter(pageKey) \in 1..Len(pages)
        BY <1>1, <2>4 DEF PageAfter, PageNumbers
    <2> HIDE DEF shown
    <2>6. CASE next # None
        <3>1. next - 1 = PageAfter(pageKey)
            BY <2>4, <2>5, <2>6 DEF NextKey
        <3>2. Entries(Offered(shown, next)) = shown
            BY <1>3, <2>4, OfferedEntries
        <3> QED BY <2>3, <2>6, <3>1, <3>2
    <2>7. CASE next = None
        <3>1. PageAfter(pageKey) = Len(pages)
            BY <2>4, <2>5, <2>7, ExplorerAssumption DEF NextKey
        <3> QED BY <2>3, <2>7, <3>1 DEF Offered
    <2> QED BY <2>6, <2>7
<1> QED BY <1>4, <1>6, <1>7 DEF ChildrenInv

\* A page that does not come leaves the children as they were.
LEMMA ChildrenAtFailFetch ==
    ASSUME Shape, ChildrenInv, NEW c \in Calls, FailFetch(c)
    PROVE  ChildrenInv'
<1>1. /\ c \in Fetches /\ folder' = folder /\ hasty' = hasty
      /\ node'.children = node.children /\ node'.nextPageKey = node.nextPageKey
    BY DEF FailFetch, Cleared, Fetches, Shape
<1>2. calls'[c].kind = "none" /\ \A d \in Calls \ {c} : calls'[d] = calls[d]
    BY DEF FailFetch, Shape, NoCall
<1>3. Pages'
    <2>1. \A d \in Outstanding({"more"})' : d \in Outstanding({"more"}) /\ calls'[d] = calls[d]
        BY <1>2 DEF Outstanding
    <2> QED BY <1>1, <2>1 DEF ChildrenInv, Pages, PageNumbers
<1>4. OnePage'
    <2>1. \A d \in Fetches' : d \in Fetches /\ d # c
        BY <1>2 DEF Fetches, Outstanding
    <2>2. ~hasty => Fetches' = {}
        BY <1>1, <2>1 DEF ChildrenInv, OnePage
    <2> QED BY <1>1, <2>2 DEF OnePage, Fetches, Outstanding
<1>5. PagesInOrder'
    BY <1>1 DEF ChildrenInv, PagesInOrder
<1> QED BY <1>3, <1>4, <1>5 DEF ChildrenInv

\* Searches, and the answers to them, leave the children alone.
LEMMA ChildrenAtSearch ==
    ASSUME Shape, ChildrenInv, NEW c \in Calls, NEW key \in Keys, Search(c, key)
    PROVE  ChildrenInv'
<1>1. folder' = folder /\ node' = node /\ (~hasty' => ~hasty)
    BY DEF Search
<1>2. \A d \in Calls : calls'[d].kind \in {"first", "more"} => calls'[d] = calls[d]
    BY DEF Search, Start, Shape
<1> QED BY <1>1, <1>2, ChildrenStay

LEMMA ChildrenAtUnmount == ChildrenInv /\ Unmount => ChildrenInv'
<1> SUFFICES ASSUME ChildrenInv, Unmount PROVE ChildrenInv'
    OBVIOUS
<1>1. folder' = folder /\ node' = node /\ (~hasty' => ~hasty)
    BY DEF Unmount
<1>2. \A d \in Calls : calls'[d].kind \in {"first", "more"} => calls'[d] = calls[d]
    BY DEF Unmount
<1> QED BY <1>1, <1>2, ChildrenStay

LEMMA ChildrenAtAnswer ==
    ASSUME Shape, ChildrenInv, NEW c \in Calls,
           AnswerSearch(c) \/ FailSearch(c) \/ AnswerLost(c)
    PROVE  ChildrenInv'
<1>1. folder' = folder /\ node' = node /\ hasty' = hasty
    BY DEF AnswerSearch, FailSearch, AnswerLost
<1>2. \A d \in Calls : calls'[d].kind \in {"first", "more"} => calls'[d] = calls[d]
    BY DEF AnswerSearch, FailSearch, AnswerLost, NoCall, Shape
<1> QED BY <1>1, <1>2, ChildrenStay

LEMMA ChildrenAtSetModules == SetModules => ChildrenInv'
<1> SUFFICES ASSUME SetModules PROVE ChildrenInv'
    OBVIOUS
<1>1. folder' \in Folders /\ node' = makeFolder(folder') /\ Fetches' = {}
    BY DEF SetModules, Fetches, Outstanding, NoCall
<1>2. /\ node'.nextPageKey = None /\ node'.children \in Seq(Listed(folder'))
      /\ node'.children \in {<< >>, UpTo(folder'.pages, Len(folder'.pages))}
    BY <1>1, FilledChildren
<1>3. Pages'
    BY <1>1, <1>2 DEF Pages, Offered, Fetches, Outstanding
<1>4. OnePage'
    BY <1>1 DEF OnePage, Fetches, Outstanding
<1> QED BY <1>2, <1>3, <1>4 DEF ChildrenInv, PagesInOrder

LEMMA ChildrenAtStutter == ChildrenInv /\ UNCHANGED vars => ChildrenInv'
<1> SUFFICES ASSUME ChildrenInv, UNCHANGED vars PROVE ChildrenInv'
    OBVIOUS
<1>1. folder' = folder /\ node' = node /\ calls' = calls /\ (~hasty' => ~hasty)
    BY DEF vars
<1> QED BY <1>1, ChildrenStay

-----------------------------------------------------------------------------
(***************************************************************************)
(* The dialog lies over the folder it was opened from. Its entry is one    *)
(* that is listed, or what was typed for the namespace.                    *)
(***************************************************************************)
TypedLeaf(leaf) ==
    /\ folder.namespace # << >>
    /\ leaf.namespace = folder.namespace
    /\ leaf.storeKey = wasmStoreKeyForNsEntry(folder.namespace, leaf.key)
    /\ leaf.value = None

ListedOrTyped ==
    modal # None /\ modal.leaf.storeKey # None =>
        modal.leaf \in folder.leaves \cup folder.inside \/ TypedLeaf(modal.leaf)

WatchInv ==
    /\ PageInv
    /\ ChildrenInv
    /\ folder \in Folders
    /\ searchInput \in {None} \cup Keys
    /\ ListedOrTyped

LEMMA PageKept == WatchInv /\ [WatchNext]_watch_vars => PageInv'
<1> SUFFICES ASSUME WatchInv, [WatchNext]_watch_vars PROVE PageInv'
    OBVIOUS
<1> PageInv /\ searchInput \in {None} \cup Keys
    BY DEF WatchInv
<1>1. CASE UsePage
    <2>1. CASE Collapse
        BY <2>1, KeptByCollapse
    <2>2. ASSUME NEW c \in Calls, Expand(c) PROVE PageInv'
        BY <2>2, KeptByExpand
    <2>3. ASSUME NEW c \in Calls, ClickLoadMore(c) PROVE PageInv'
        BY <2>3, KeptByClickLoadMore
    <2>4. ASSUME NEW c \in Calls, searchInput # None, Search(c, searchInput) PROVE PageInv'
        BY <2>4, KeptBySearch
    <2> QED BY <1>1, <2>1, <2>2, <2>3, <2>4 DEF UsePage
<1>2. CASE LeavePage
    BY <1>2, KeptByUnmount, KeptBySetModules DEF LeavePage
<1>3. CASE Answers
    BY <1>3, KeptByAnswerFetch, KeptByFailFetch, KeptByAnswerSearch, KeptByAnswerLost
    DEF Answers
<1>4. CASE UNCHANGED vars
    BY <1>4, KeptByRest
<1> QED
    BY <1>1, <1>2, <1>3, <1>4
    DEF WatchNext, TypeKey, openSubscribe, openSubscribeForChild, openSubscribeForSearch,
        openSubscribeWithCondition, ShowModal, CloseModal, watch_vars

LEMMA ChildrenKept == WatchInv /\ [WatchNext]_watch_vars => ChildrenInv'
<1> SUFFICES ASSUME WatchInv, [WatchNext]_watch_vars PROVE ChildrenInv'
    OBVIOUS
<1> Shape /\ ChildrenInv /\ searchInput \in {None} \cup Keys
    BY DEF WatchInv, PageInv
<1>1. CASE UsePage
    <2>1. CASE Collapse
        BY <2>1, ChildrenAtCollapse
    <2>2. ASSUME NEW c \in Calls, Expand(c) PROVE ChildrenInv'
        BY <2>2, ChildrenAtExpand
    <2>3. ASSUME NEW c \in Calls, ClickLoadMore(c) PROVE ChildrenInv'
        BY <2>3, ChildrenAtClickLoadMore
    <2>4. ASSUME NEW c \in Calls, searchInput # None, Search(c, searchInput) PROVE ChildrenInv'
        BY <2>4, ChildrenAtSearch
    <2> QED BY <1>1, <2>1, <2>2, <2>3, <2>4 DEF UsePage
<1>2. CASE LeavePage
    BY <1>2, ChildrenAtUnmount, ChildrenAtSetModules DEF LeavePage
<1>3. CASE Answers
    BY <1>3, ChildrenAtAnswerFetch, ChildrenAtFailFetch, ChildrenAtAnswer DEF Answers
<1>4. CASE UNCHANGED vars
    BY <1>4, ChildrenAtStutter
<1> QED
    BY <1>1, <1>2, <1>3, <1>4
    DEF WatchNext, TypeKey, openSubscribe, openSubscribeForChild, openSubscribeForSearch,
        openSubscribeWithCondition, ShowModal, CloseModal, watch_vars

LEMMA DialogKept == WatchInv /\ [WatchNext]_watch_vars => ListedOrTyped'
<1> SUFFICES ASSUME WatchInv, [WatchNext]_watch_vars PROVE ListedOrTyped'
    OBVIOUS
<1> USE DEF ListedOrTyped
<1>1. CASE modal' = None
    BY <1>1
<1>2. CASE UNCHANGED << folder, modal >>
    BY <1>2 DEF WatchInv, TypedLeaf
<1>3. ASSUME NEW leaf \in folder.leaves, openSubscribe(leaf) PROVE ListedOrTyped'
    BY <1>3 DEF openSubscribe, ShowModal, vars
<1>4. ASSUME NEW leaf \in folder.inside, openSubscribeForChild(leaf) PROVE ListedOrTyped'
    BY <1>4 DEF openSubscribeForChild, ShowModal, vars
<1>5. CASE openSubscribeForSearch
    <2> DEFINE key == IF folder.namespace = << >> THEN None
                      ELSE wasmStoreKeyForNsEntry(folder.namespace, searchInput)
    <2>1. /\ modal' = [leaf |-> Leaf(folder.namespace, searchInput, None, key),
                       condition |-> "Exists"]
          /\ folder' = folder
        BY <1>5 DEF openSubscribeForSearch, ShowModal, vars
    <2>2. /\ modal'.leaf.namespace = folder.namespace /\ modal'.leaf.value = None
          /\ modal'.leaf.key = searchInput /\ modal'.leaf.storeKey = key
        BY <2>1 DEF Leaf
    <2> QED BY <2>1, <2>2 DEF TypedLeaf
<1>6. ASSUME NEW condition, openSubscribeWithCondition(condition) PROVE ListedOrTyped'
    BY <1>6 DEF openSubscribeWithCondition, ShowModal, PickedNode, Leaf
<1>7. CASE UsePage
    <2>1. UNCHANGED << folder, modal >>
        BY <1>7 DEF UsePage, Collapse, Expand, ClickLoadMore, Search
    <2> QED BY <1>2, <2>1
<1>8. CASE LeavePage
    BY <1>8, <1>1 DEF LeavePage
<1>9. CASE Answers /\ UNCHANGED << searchInput, modal >>
    <2>1. UNCHANGED folder
        BY <1>9 DEF Answers, AnswerFetch, FailFetch, AnswerSearch, FailSearch, AnswerLost
    <2> QED BY <1>2, <1>9, <2>1
<1>10. CASE (\E key \in Keys : TypeKey(key)) \/ CloseModal \/ UNCHANGED watch_vars
    BY <1>10, <1>1, <1>2 DEF TypeKey, CloseModal, watch_vars, vars
<1> QED
    BY <1>3, <1>4, <1>5, <1>6, <1>7, <1>8, <1>9, <1>10 DEF WatchNext

LEMMA WatchInvariant == WatchSpec => []WatchInv
<1>1. WatchInit => WatchInv
    BY PageInit, ChildrenInit DEF WatchInit, WatchInv, ListedOrTyped, Init
<1>2. WatchInv /\ [WatchNext]_watch_vars => WatchInv'
    <2> SUFFICES ASSUME WatchInv, [WatchNext]_watch_vars PROVE WatchInv'
        OBVIOUS
    <2>1. PageInv' /\ ChildrenInv' /\ ListedOrTyped'
        BY PageKept, ChildrenKept, DialogKept
    <2>2. folder' \in Folders
        BY DEF WatchInv, WatchNext, UsePage, LeavePage, Answers, TypeKey, openSubscribe,
               openSubscribeForChild, openSubscribeForSearch, openSubscribeWithCondition,
               ShowModal, CloseModal, watch_vars, vars, Collapse, Expand, ClickLoadMore,
               Search, Unmount, SetModules, AnswerFetch, FailFetch, AnswerSearch,
               FailSearch, AnswerLost
    <2>3. searchInput' \in {None} \cup Keys
        BY DEF WatchInv, WatchNext, UsePage, LeavePage, TypeKey, openSubscribe,
               openSubscribeForChild, openSubscribeForSearch, openSubscribeWithCondition,
               ShowModal, CloseModal, watch_vars, vars
    <2> QED BY <2>1, <2>2, <2>3 DEF WatchInv
<1> QED BY <1>1, <1>2, PTL DEF WatchSpec

-----------------------------------------------------------------------------
\* toggleNode, loadMore and onSearch: no spinner goes on when no call it stands for
\* is under way, however the calls of a folder overlap and fail.
THEOREM SpinnersStopAlways == WatchSpec => []SpinnersStop
<1>1. WatchInv => SpinnersStop
    BY DEF WatchInv, PageInv
<1> QED BY <1>1, WatchInvariant, PTL

\* fetchChildren: "Load more..." is there exactly when there is a next page, once, and
\* below all entries, in whatever order the pages of a folder have come.
THEOREM MarkIsLastAlways == WatchSpec => []MarkIsLast
<1>1. WatchInv => MarkIsLast
    <2> SUFFICES ASSUME Pages PROVE MarkIsLast
        BY DEF WatchInv, ChildrenInv
    <2>1. PICK shown \in Seq(Listed(folder)) : node.children = Offered(shown, node.nextPageKey)
        BY DEF Pages
    <2>2. LoadMore \notin Listed(folder)
        BY FolderPages DEF Pages
    <2> QED BY <2>1, <2>2, OfferedMarks DEF MarkIsLast
<1> QED BY <1>1, WatchInvariant, PTL

\* fetchChildren and loadMore: a user who waits for the spinners is shown the pages
\* fetched so far, in order, each once, and all of them when no next one is offered.
THEOREM PagesComeInOrder == WatchSpec => []PagesInOrder
<1>1. WatchInv => PagesInOrder
    BY DEF WatchInv, ChildrenInv
<1> QED BY <1>1, WatchInvariant, PTL

\* onSearch: to a user who waits for the spinner, the result on show is that of the
\* key he asked for last.
THEOREM LastSearchIsShown == WatchSpec => []ResultIsOfLastSearch
<1>1. WatchInv => ResultIsOfLastSearch
    BY DEF WatchInv, PageInv, OneSearch, ResultIsOfLastSearch
<1> QED BY <1>1, WatchInvariant, PTL

\* openSubscribe and its siblings: what a contract holds is watched at its own key.
\* An entry shown with the namespace of a folder is one of that Map, because a
\* namespace is not empty; then its key comes back by KeyComesBack.
THEOREM WatchedAtItsKey == WatchSpec => []EntryWatchedAtItsKey
<1>1. WatchInv => EntryWatchedAtItsKey
    <2> SUFFICES ASSUME WatchInv, modal # None, modal.leaf.storeKey # None
                 PROVE  LET entries == {raw \in DOMAIN folder.state :
                                ShownAs(raw) = << modal.leaf.namespace, modal.leaf.key >>}
                        IN  /\ (\E raw \in entries : AsItIs(raw)) =>
                                  modal.leaf.storeKey \in entries
                            /\ entries # {} =>
                                  modal.leaf.value \in
                                      {None} \cup {folder.state[raw] : raw \in entries}
        BY DEF EntryWatchedAtItsKey
    <2> DEFINE leaf == modal.leaf
               state == folder.state
               entries == {raw \in DOMAIN state : ShownAs(raw) = << leaf.namespace, leaf.key >>}
    <2>1. CASE DOMAIN state = {}
        BY <2>1
    <2>2. CASE /\ DOMAIN state \subseteq Seq(0..255)
               /\ folder.leaves \subseteq NamespaceLeaves(state, folder.namespace)
               /\ folder.inside \subseteq TopLevelLeaves(state)
        <3>1. ASSUME NEW raw \in entries, AsItIs(raw), leaf.namespace # << >>
              PROVE  raw = wasmStoreKeyForNsEntry(leaf.namespace, leaf.key)
            <4>1. /\ IsMapEntry(raw) /\ parseWasmKeyParts(raw).namespace = leaf.namespace
                  /\ parseWasmKeyParts(raw).mapKey = leaf.key
                BY <3>1 DEF ShownAs
            <4>2. raw \in Seq(0..255)
                BY <2>2
            <4> QED BY <3>1, <4>1, <4>2, KeyComesBack
        <3>2. CASE leaf \in folder.leaves
            <4>1. PICK raw \in DOMAIN state :
                    /\ IsMapEntry(raw) /\ parseWasmKeyParts(raw).namespace = folder.namespace
                    /\ leaf = Leaf(folder.namespace, parseWasmKeyParts(raw).mapKey, state[raw],
                                   wasmStoreKeyForNsEntry(folder.namespace,
                                                          parseWasmKeyParts(raw).mapKey))
                BY <2>2, <3>2 DEF NamespaceLeaves
            <4>2. /\ leaf.namespace = parseWasmKeyParts(raw).namespace
                  /\ leaf.key = parseWasmKeyParts(raw).mapKey
                  /\ leaf.value = state[raw]
                  /\ leaf.storeKey = wasmStoreKeyForNsEntry(leaf.namespace, leaf.key)
                BY <4>1 DEF Leaf
            <4>3. raw \in entries
                BY <4>1, <4>2 DEF ShownAs
            <4>4. leaf.namespace # << >>
                BY <4>1, <4>2 DEF IsMapEntry, Printable, parseWasmKeyParts
            <4> QED BY <3>1, <4>2, <4>3, <4>4
        <3>3. CASE leaf \in folder.inside
            <4>1. PICK raw \in DOMAIN state :
                    ~IsMapEntry(raw) /\ leaf = Leaf(<< >>, Shown(raw), state[raw], raw)
                BY <2>2, <3>3 DEF TopLevelLeaves
            <4>2. /\ leaf.namespace = << >> /\ leaf.key = Shown(raw)
                  /\ leaf.value = state[raw] /\ leaf.storeKey = raw
                BY <4>1 DEF Leaf
            <4>3. raw \in entries
                BY <4>1, <4>2 DEF ShownAs
            <4> QED BY <4>2, <4>3
        <3>4. CASE TypedLeaf(leaf)
            BY <3>1, <3>4 DEF TypedLeaf
        <3> QED BY <3>2, <3>3, <3>4 DEF WatchInv, ListedOrTyped
    <2> QED BY <2>1, <2>2, WatchAssumption DEF WatchInv
<1> QED BY <1>1, WatchInvariant, PTL

=============================================================================
