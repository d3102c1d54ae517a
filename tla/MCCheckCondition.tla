-------------------------- MODULE MCCheckCondition --------------------------
(***************************************************************************)
(* BothChecks on samples. Values are named for the bytes they stand for,   *)
(* in scale: the contract's integers are 4 bits wide (U128Max = 15) and a  *)
(* double holds the integers up to 8 (F53Max = 8), in three bits.          *)
(***************************************************************************)
EXTENDS BothChecks, TLC

-----------------------------------------------------------------------------
Found(text) == [rust |-> text, js |-> text]

Document(place, json) == [Ascii(place, None) EXCEPT !.json = json]

Seven == Ascii(30, 7)
QuotedSeven == Ascii(3, 7)         \* "7", between quotes
PlusSeven == [Ascii(4, 7) EXCEPT !.sign = "plus"]
Three == Ascii(20, 3)
Eight == Ascii(35, 8)
Twelve == Ascii(10, 12)            \* the text 12 is before the text 3
Word == Ascii(40, None)            \* approved
Approved == Document(51, ("status" :> Found("approved")))
Pending == Document(52, ("status" :> Found("pending")))

\* What the watcher reads otherwise than the contract.
Coins == [Ascii(32, 7) EXCEPT !.tail = "rest"]             \* 7uatom
Padded == [Ascii(2, 7) EXCEPT !.pad = "inside"]            \* " 7" in quotes
Negative == [Ascii(5, 5) EXCEPT !.sign = "minus"]          \* -5
Half == [Ascii(6, None) EXCEPT !.tail = "half"]            \* .5
Fraction == [Ascii(31, 7) EXCEPT !.tail = "half"]          \* 7.5
Exponent == [Ascii(12, 1) EXCEPT !.tail = "tenfold"]       \* 1e1
Infinite == [Ascii(38, None) EXCEPT !.tail = "Infinity"]   \* Infinity
Wide == Ascii(11, 17)                                      \* past u128
Nine == Ascii(37, 9)                                       \* rounds to 8
Accent == [Ascii(60, None) EXCEPT !.latin1 = 61]
Invalid == [Ascii(70, None) EXCEPT !.utf8 = FALSE, !.text = 99, !.latin1 = 60]
Listed == Document(39, ("0" :> [rust |-> None, js |-> "approved"]))
Whole == Document(50, ("score" :> [rust |-> "7.0", js |-> "7"]))

AllValues ==
    {Seven, QuotedSeven, PlusSeven, Three, Eight, Twelve, Word, Approved, Pending,
     Coins, Padded, Negative, Half, Fraction, Exponent, Infinite, Wide, Nine,
     Accent, Invalid, Listed, Whole}

AllConds ==
    {Exists} \cup {Equals(v) : v \in AllValues}
    \cup {GreaterThan(v, enc) : v \in AllValues, enc \in Encodings}
    \cup {LessThan(v, enc) : v \in AllValues, enc \in Encodings}
    \cup {JsonPathEquals("status", "approved"), JsonPathEquals("missing", "approved"),
          JsonPathEquals("0", "approved"), JsonPathEquals("score", "7.0")}

=============================================================================
