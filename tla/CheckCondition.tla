--------------------------- MODULE CheckCondition ---------------------------
(***************************************************************************)
(* The condition as the watcher checks it, in JavaScript, before it spends *)
(* a transaction on a proof (watcher.ts, checkCondition), over the values  *)
(* of Conditions. Its answer is about the same question as the contract's  *)
(* EvaluateCondition, and comes by another road: text where the contract   *)
(* compares bytes, floating point where it compares u128.                  *)
(***************************************************************************)
EXTENDS Conditions

CONSTANT
    F53Max     \* the largest integer up to which a double holds all integers

ASSUME F53Assumption == F53Max \in Nat

(***************************************************************************)
(* Numbers are counted in halves. The double next to a number of up to     *)
(* eight times F53Max halves: a double has as many bits as F53Max, and of  *)
(* two that are as near it is the even one.                                *)
(***************************************************************************)
Nearest(halves, step) ==
    LET q == halves \div step
        r == halves % step
    IN  step * (IF 2 * r > step \/ (2 * r = step /\ q % 2 = 1) THEN q + 1 ELSE q)

Double(halves) ==
    IF halves <= F53Max THEN halves
    ELSE IF halves <= 2 * F53Max THEN Nearest(halves, 2)
    ELSE IF halves <= 4 * F53Max THEN Nearest(halves, 4)
    ELSE Nearest(halves, 8)

(***************************************************************************)
(* parseFloat of the text without its quotes: after white space, a sign,   *)
(* and digits with a fraction or an exponent, or a fraction alone, or      *)
(* Infinity; what follows is ignored. Infinity, with its sign, is beyond   *)
(* all numbers.                                                            *)
(***************************************************************************)
Number(n) == [beyond |-> 0, halves |-> n]
Infinity(sign) == [beyond |-> sign, halves |-> 0]
NaN == [beyond |-> None, halves |-> 0]

Signed(v, n) == IF v.sign = "minus" THEN -n ELSE n

Magnitude(v) ==
    LET whole == IF v.digits = None THEN 0 ELSE v.digits
    IN  CASE v.tail = "half" -> 2 * whole + 1
          [] v.tail = "tenfold" -> 20 * whole
          [] OTHER -> 2 * whole

parseFloat(v) ==
    CASE v.digits # None \/ v.tail = "half" ->
            Number(Signed(v, Double(Magnitude(v))))
      [] v.digits = None /\ v.tail = "Infinity" -> Infinity(Signed(v, 1))
      [] OTHER -> NaN

\* Ordered with NaN: no comparison with it is true.
Above(a, b) ==
    /\ a # NaN /\ b # NaN
    /\ \/ a.beyond > b.beyond
       \/ a.beyond = b.beyond /\ a.halves > b.halves

(***************************************************************************)
(* The walk along a JSON path goes through arrays too, and `in' finds what *)
(* every object inherits; String() prints what the path ends at.           *)
(***************************************************************************)
JsonPathHolds(value, path, expected) ==
    /\ value.json # None
    /\ path \in DOMAIN value.json
    /\ value.json[path].js # None
    /\ value.json[path].js = expected

\* A threshold that counts as reached.
checkCondition_NotStrict(c, value) ==
    CASE c.type = "Exists" -> TRUE
      [] c.type = "JsonPathEquals" -> JsonPathHolds(value, c.path, c.expected)
      [] c.type = "Equals" -> value.text = c.expected.latin1
      [] c.type = "GreaterThan" -> ~Above(parseFloat(c.threshold), parseFloat(value))
      [] c.type = "LessThan" -> Above(parseFloat(c.threshold), parseFloat(value))

(***************************************************************************)
(* checkCondition. The encoding of a threshold is not looked at; equality  *)
(* compares the decoded value with atob(expected), one character a byte.   *)
(***************************************************************************)
checkCondition(c, value) ==
    CASE c.type = "Exists" -> TRUE
      [] c.type = "JsonPathEquals" -> JsonPathHolds(value, c.path, c.expected)
      [] c.type = "Equals" -> value.text = c.expected.latin1
      [] c.type = "GreaterThan" -> Above(parseFloat(value), parseFloat(c.threshold))
      [] c.type = "LessThan" -> Above(parseFloat(c.threshold), parseFloat(value))

=============================================================================
