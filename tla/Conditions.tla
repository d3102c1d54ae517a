----------------------------- MODULE Conditions -----------------------------
(***************************************************************************)
(* How interchain-events decides whether a proven value meets the          *)
(* condition of a subscription (contract.rs, step 4 of                     *)
(* execute_submit_proof), as pure operators.                               *)
(*                                                                         *)
(* A value is a byte string, described only by what those who decode it    *)
(* can see of it:                                                          *)
(*   bytes   its place in the lexicographic order of byte strings; two     *)
(*           values are the same bytes exactly when these are equal        *)
(*   utf8    the bytes are valid UTF-8                                     *)
(*   text    the text they decode to, U+FFFD standing for what is not      *)
(*           UTF-8: valid values have the same text only if they are the   *)
(*           same bytes, invalid ones may share one                        *)
(*   latin1  the text with one character for each byte                     *)
(*   json    what is found along the paths of the document: [rust, js],    *)
(*           the texts that serde_json and JavaScript print, None for one  *)
(*           who finds nothing there; or None when the bytes are not JSON  *)
(* and of the numeral that comes after white space and quotes              *)
(*   sign    "none", "plus" or "minus"                                     *)
(*   digits  the digits that follow, as a number, or None                  *)
(*   tail    what follows those, or stands in their place: "none"; "half", *)
(*           a fraction, .5 for all; "tenfold", an exponent, e1 for all;   *)
(*           "Infinity", the word; or anything else, the "rest"            *)
(*   pad     what surrounds or splits it: "none"; white space "outside"    *)
(*           the quotes; white space "inside" them, or quotes within       *)
(* White space is ASCII's. A byte order mark, which TextDecoder drops, is  *)
(* not described.                                                          *)
(***************************************************************************)
EXTENDS Integers

CONSTANTS
    None,      \* Option::None
    U128Max    \* the largest u128

ASSUME NoneAssumption == None \notin Int
ASSUME U128Assumption == U128Max \in Nat

Encodings == {"Bytes", "String", "Numeric"}

Signs == {"none", "plus", "minus"}
Tails == {"none", "half", "tenfold", "Infinity", "rest"}
Pads == {"none", "outside", "inside"}

\* A value of ASCII characters, which are digits or no numeral at all.
Ascii(place, digits) ==
    [bytes |-> place, utf8 |-> TRUE, text |-> place, latin1 |-> place, json |-> None,
     sign |-> "none", digits |-> digits, tail |-> "none", pad |-> "none"]

(***************************************************************************)
(* types.rs: SubscriptionCondition.                                        *)
(***************************************************************************)
Exists == [type |-> "Exists"]
Equals(expected) == [type |-> "Equals", expected |-> expected]
GreaterThan(threshold, encoding) ==
    [type |-> "GreaterThan", threshold |-> threshold, encoding |-> encoding]
LessThan(threshold, encoding) ==
    [type |-> "LessThan", threshold |-> threshold, encoding |-> encoding]
JsonPathEquals(path, expected) ==
    [type |-> "JsonPathEquals", path |-> path, expected |-> expected]

(***************************************************************************)
(* parse_u128 trims white space and then quotes, so what is inside the     *)
(* quotes is left for the parser, which takes digits, after a plus sign if *)
(* there is one, and nothing else, and rejects a numeral wider than u128.  *)
(* None stands for Err(ValueDecodeError).                                  *)
(***************************************************************************)
OnlyDigits(v) == v.utf8 /\ v.pad # "inside" /\ v.sign # "minus" /\ v.tail = "none"

parse_u128(v) ==
    IF OnlyDigits(v) /\ v.digits \in 0..U128Max THEN v.digits ELSE None

cmp(a, b) ==
    IF a < b THEN "Less" ELSE IF a > b THEN "Greater" ELSE "Equal"

\* Numbers compared in the order of their text.
compare_values_TextOrder(actual, threshold, encoding) ==
    IF encoding = "Bytes" \/ (actual.utf8 /\ threshold.utf8)
    THEN cmp(actual.bytes, threshold.bytes)
    ELSE "ValueDecodeError"

(***************************************************************************)
(* compare_values. The order of Rust's str is the order of its bytes, so   *)
(* String differs from Bytes only in refusing what is not UTF-8.           *)
(***************************************************************************)
compare_values(actual, threshold, encoding) ==
    CASE encoding = "Bytes" -> cmp(actual.bytes, threshold.bytes)
      [] encoding = "String" ->
            IF actual.utf8 /\ threshold.utf8
            THEN cmp(actual.bytes, threshold.bytes)
            ELSE "ValueDecodeError"
      [] encoding = "Numeric" ->
            LET a == parse_u128(actual)
                b == parse_u128(threshold)
            IN  IF a # None /\ b # None THEN cmp(a, b) ELSE "ValueDecodeError"

(***************************************************************************)
(* A condition on the order of the value: the wanted outcome, the decoding *)
(* error that `?' propagates, or ThresholdNotMet.                          *)
(***************************************************************************)
MeetsThreshold(value, threshold, encoding, wanted) ==
    LET outcome == compare_values(value, threshold, encoding)
    IN  CASE outcome = wanted -> "Ok"
          [] outcome = "ValueDecodeError" -> outcome
          [] OTHER -> "ThresholdNotMet"

(***************************************************************************)
(* The JSON condition walks the path and compares the text of what it ends *)
(* at. Not JSON, or no such path, is a decoding error; `get' with a name   *)
(* finds the fields of an object but not the elements of an array.         *)
(***************************************************************************)
HasField(value, path) ==
    value.json # None /\ path \in DOMAIN value.json /\ value.json[path].rust # None

MeetsJsonPath(value, path, expected) ==
    IF ~HasField(value, path) THEN "ValueDecodeError"
    ELSE IF value.json[path].rust # expected THEN "ValueMismatch"
    ELSE "Ok"

(***************************************************************************)
(* Step 4 of execute_submit_proof: "Ok", or the error the match returns.   *)
(***************************************************************************)
EvaluateCondition(c, value) ==
    CASE c.type = "Exists" -> "Ok"
      [] c.type = "Equals" ->
            IF value.bytes = c.expected.bytes THEN "Ok" ELSE "ValueMismatch"
      [] c.type = "GreaterThan" ->
            MeetsThreshold(value, c.threshold, c.encoding, "Greater")
      [] c.type = "LessThan" ->
            MeetsThreshold(value, c.threshold, c.encoding, "Less")
      [] c.type = "JsonPathEquals" -> MeetsJsonPath(value, c.path, c.expected)

=============================================================================
