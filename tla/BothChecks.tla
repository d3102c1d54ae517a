----------------------------- MODULE BothChecks -----------------------------
(***************************************************************************)
(* The two checks of a condition, the contract's and the watcher's, side   *)
(* by side: for each subscription, and each value its key is given, what   *)
(* either of them answers.                                                 *)
(***************************************************************************)
EXTENDS CheckCondition

(***************************************************************************)
(* A sample: one condition and one value at a time, out of those given.    *)
(***************************************************************************)
CONSTANTS
    Conds,     \* conditions a subscription may have
    Values     \* values the remote chain may hold, or a condition name

(***************************************************************************)
(* Values are described as Conditions says: bytes are ordered, a numeral   *)
(* is a number, and texts decoded from UTF-8 are the same for the same     *)
(* bytes only. Conditions are those of types.rs.                           *)
(***************************************************************************)
Described(v) ==
    /\ v.bytes \in Int
    /\ v.utf8 \in BOOLEAN
    /\ v.sign \in Signs /\ v.digits \in Nat \cup {None}
    /\ v.tail \in Tails /\ v.pad \in Pads

AreConditions(conds) ==
    \A c \in conds :
        \/ c = Exists
        \/ c.type = "JsonPathEquals" /\ c = JsonPathEquals(c.path, c.expected)
        \/ \E v \in Values : c = Equals(v)
        \/ \E v \in Values, enc \in Encodings : c \in {GreaterThan(v, enc), LessThan(v, enc)}

ASSUME SampleAssumption ==
    /\ \A v \in Values : Described(v)
    /\ \A v, w \in Values : v.utf8 /\ w.utf8 => (v.text = w.text <=> v.bytes = w.bytes)
    /\ AreConditions(Conds)

VARIABLES
    sub_condition,   \* the condition of the subscription looked at
    held             \* the value its key has on the remote chain

vars == << sub_condition, held >>

Init == sub_condition \in Conds /\ held \in Values

\* The chain writes another value, or the watcher turns to another subscription.
ValueChanges == held' \in Values /\ UNCHANGED sub_condition
NextSubscription == sub_condition' \in Conds /\ UNCHANGED held

Next == ValueChanges \/ NextSubscription

Spec == Init /\ [][Next]_vars

Accepted == EvaluateCondition(sub_condition, held) = "Ok"

\* A watcher that follows this check misses nothing: whatever value the contract
\* would accept, the watcher submits (README: "When the condition is met, a
\* watcher submits a Merkle proof").
NothingMissed == Accepted => checkCondition(sub_condition, held)

\* A numeral both sides take for the same number: digits alone, within both
\* widths. Or what neither takes for one: no digits, no fraction, not Infinity.
PlainNumeral(v) ==
    \/ OnlyDigits(v) /\ v.digits # None /\ v.digits <= U128Max /\ v.digits <= F53Max
    \/ v.digits = None /\ v.tail \notin {"half", "Infinity"}

\* What both sides read alike: ASCII text, a plain numeral or none, and JSON in
\* which both find and print the same.
Plain(v) ==
    /\ v.utf8 /\ v.text = v.latin1
    /\ PlainNumeral(v)
    /\ v.json # None => \A path \in DOMAIN v.json : v.json[path].rust = v.json[path].js

PlainCondition(c) ==
    /\ c.type = "Equals" => Plain(c.expected)
    /\ c.type \in {"GreaterThan", "LessThan"} => c.encoding = "Numeric" /\ Plain(c.threshold)

\* Wherever value and condition are plain, the watcher neither misses a value the
\* contract would accept nor spends a transaction on one it would refuse
\* (checkCondition against the match of execute_submit_proof).
ChecksAgree ==
    Plain(held) /\ PlainCondition(sub_condition) =>
        (checkCondition(sub_condition, held) <=> Accepted)

\* The number the contract may take a value for, however wide.
Numeral(v) == IF OnlyDigits(v) THEN v.digits ELSE None

\* A threshold the contract compares in some encoding splits the values that
\* decode in three: above it, below it, and equal to it in that encoding. No
\* value is on both sides, and a value the threshold cannot be compared with
\* is on neither (compare_values and the two arms that use it).
ThresholdSplitsValues ==
    sub_condition.type \in {"GreaterThan", "LessThan"} =>
        LET t == sub_condition.threshold
            enc == sub_condition.encoding
            above == EvaluateCondition(GreaterThan(t, enc), held)
            below == EvaluateCondition(LessThan(t, enc), held)
        IN  /\ ~(above = "Ok" /\ below = "Ok")
            /\ above = "ValueDecodeError" <=> below = "ValueDecodeError"
            /\ (above = "ThresholdNotMet" /\ below = "ThresholdNotMet") =>
                  IF enc = "Numeric" THEN Numeral(held) = Numeral(t)
                  ELSE held.bytes = t.bytes
            /\ (enc = "Numeric" /\ above = "Ok") =>
                  Numeral(held) # None /\ Numeral(t) # None /\ Numeral(held) > Numeral(t)

=============================================================================
