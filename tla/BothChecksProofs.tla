-------------------------- MODULE BothChecksProofs --------------------------
(***************************************************************************)
(* What the two checks of a condition have to do with each other, for all  *)
(* values and conditions, and any width of u128 and of a double.           *)
(***************************************************************************)
EXTENDS BothChecks, TLAPS

-----------------------------------------------------------------------------
\* What is sampled is a condition and a value.
Sampled == sub_condition \in Conds /\ held \in Values

LEMMA SampledInvariant == Spec => []Sampled
<1>1. Init => Sampled
    BY DEF Init, Sampled
<1>2. Sampled /\ [Next]_vars => Sampled'
    BY DEF Sampled, Next, ValueChanges, NextSubscription, vars
<1> QED BY <1>1, <1>2, PTL DEF Spec

\* A double holds the halves of a whole number within its width.
LEMMA DoubleExact ==
    ASSUME NEW n \in Nat, n <= F53Max
    PROVE  Double(2 * n) = 2 * n
<1>1. F53Max \in Nat /\ 2 * n \in Nat /\ 2 * n <= 2 * F53Max
    BY F53Assumption
<1>2. (2 * n) \div 2 = n /\ (2 * n) % 2 = 0
    OBVIOUS
<1>3. Nearest(2 * n, 2) = 2 * n
    BY <1>2 DEF Nearest
<1>4. CASE 2 * n <= F53Max
    BY <1>4 DEF Double
<1>5. CASE 2 * n > F53Max
    BY <1>1, <1>3, <1>5 DEF Double
<1> QED BY <1>1, <1>4, <1>5

\* A plain numeral is the number both sides take it for.
LEMMA PlainNumber ==
    ASSUME NEW v \in Values, Plain(v)
    PROVE  \/ parse_u128(v) = None /\ parseFloat(v) = NaN
           \/ parse_u128(v) \in Nat /\ parseFloat(v) = Number(2 * parse_u128(v))
<1>1. v.digits \in Nat \cup {None} /\ v.sign \in Signs
    BY SampleAssumption DEF Described
<1>2. CASE v.digits = None /\ v.tail \notin {"half", "Infinity"}
    <2>1. parse_u128(v) = None
        BY <1>2, NoneAssumption, U128Assumption DEF parse_u128
    <2>2. parseFloat(v) = NaN
        BY <1>2 DEF parseFloat
    <2> QED BY <2>1, <2>2
<1>3. CASE /\ OnlyDigits(v) /\ v.digits # None
           /\ v.digits <= U128Max /\ v.digits <= F53Max
    <2>1. v.digits \in Nat /\ parse_u128(v) = v.digits
        BY <1>1, <1>3, U128Assumption DEF parse_u128
    <2>2. v.tail = "none" /\ v.sign # "minus"
        BY <1>3 DEF OnlyDigits
    <2>3. Magnitude(v) = 2 * v.digits
        BY <1>3, <2>2 DEF Magnitude
    <2>4. Signed(v, Double(Magnitude(v))) = 2 * v.digits
        BY <1>3, <2>1, <2>2, <2>3, DoubleExact DEF Signed
    <2>5. parseFloat(v) = Number(2 * v.digits)
        BY <1>3, <2>4 DEF parseFloat
    <2> QED BY <2>1, <2>5
<1> QED BY <1>2, <1>3 DEF Plain, PlainNumeral

\* compare_values of numerals, where both sides take them for the same numbers.
LEMMA PlainOrder ==
    ASSUME NEW v \in Values, NEW t \in Values, Plain(v), Plain(t)
    PROVE  /\ compare_values(v, t, "Numeric") = "Greater" <=> Above(parseFloat(v), parseFloat(t))
           /\ compare_values(v, t, "Numeric") = "Less" <=> Above(parseFloat(t), parseFloat(v))
<1> DEFINE a == parse_u128(v)
           b == parse_u128(t)
<1>1. /\ (a = None /\ parseFloat(v) = NaN) \/ (a \in Nat /\ parseFloat(v) = Number(2 * a))
      /\ (b = None /\ parseFloat(t) = NaN) \/ (b \in Nat /\ parseFloat(t) = Number(2 * b))
    BY PlainNumber
<1>2. compare_values(v, t, "Numeric") =
          IF a # None /\ b # None THEN cmp(a, b) ELSE "ValueDecodeError"
    BY DEF compare_values
<1>3. \A m, n \in Nat : Above(Number(2 * m), Number(2 * n)) <=> m > n
    <2> TAKE m, n \in Nat
    <2>1. Number(2 * m) # NaN /\ Number(2 * n) # NaN
        BY NoneAssumption DEF Number, NaN
    <2> QED BY <2>1 DEF Above, Number
<1> HIDE DEF a, b
<1>4. CASE a = None \/ b = None
    <2>1. parseFloat(v) = NaN \/ parseFloat(t) = NaN
        BY <1>1, <1>4, NoneAssumption
    <2> QED BY <1>2, <1>4, <2>1 DEF Above
<1>5. CASE a \in Nat /\ b \in Nat
    <2>1. parseFloat(v) = Number(2 * a) /\ parseFloat(t) = Number(2 * b)
        BY <1>1, <1>5, NoneAssumption
    <2>2. compare_values(v, t, "Numeric") = cmp(a, b)
        BY <1>2, <1>5, NoneAssumption
    <2> QED BY <1>3, <1>5, <2>1, <2>2 DEF cmp
<1> QED BY <1>1, <1>4, <1>5

\* The four kinds of conditions, with what belongs to each.
LEMMA Kinds ==
    ASSUME NEW c \in Conds
    PROVE  \/ c.type = "Exists"
           \/ c.type = "JsonPathEquals"
           \/ c.type = "Equals" /\ c.expected \in Values
           \/ c.type \in {"GreaterThan", "LessThan"}
                /\ c.threshold \in Values /\ c.encoding \in Encodings
BY SampleAssumption DEF AreConditions, Exists, Equals, GreaterThan, LessThan

\* checkCondition and the match of execute_submit_proof give the same answer about
\* plain values and conditions, whatever the widths of u128 and of a double.
THEOREM ChecksAgreeOnPlain == Spec => []ChecksAgree
<1>1. Sampled => ChecksAgree
    <2> SUFFICES ASSUME NEW c \in Conds, NEW v \in Values, Plain(v), PlainCondition(c)
                 PROVE  checkCondition(c, v) <=> EvaluateCondition(c, v) = "Ok"
        BY DEF Sampled, ChecksAgree, Accepted
    <2>1. CASE c.type = "Exists"
        BY <2>1 DEF checkCondition, EvaluateCondition
    <2>2. CASE c.type = "JsonPathEquals"
        <3>1. EvaluateCondition(c, v) = MeetsJsonPath(v, c.path, c.expected)
            BY <2>2 DEF EvaluateCondition
        <3>2. checkCondition(c, v) <=> JsonPathHolds(v, c.path, c.expected)
            BY <2>2 DEF checkCondition
        <3>3. v.json # None /\ c.path \in DOMAIN v.json =>
                  v.json[c.path].rust = v.json[c.path].js
            BY DEF Plain
        <3> QED BY <3>1, <3>2, <3>3 DEF MeetsJsonPath, JsonPathHolds, HasField
    <2>3. CASE c.type = "Equals" /\ c.expected \in Values
        <3>1. Plain(c.expected)
            BY <2>3 DEF PlainCondition
        <3>2. v.text = c.expected.latin1 <=> v.bytes = c.expected.bytes
            BY <2>3, <3>1, SampleAssumption DEF Plain
        <3> QED BY <2>3, <3>2 DEF checkCondition, EvaluateCondition
    <2>4. CASE /\ c.type \in {"GreaterThan", "LessThan"}
               /\ c.threshold \in Values /\ c.encoding \in Encodings
        <3>1. c.encoding = "Numeric" /\ Plain(c.threshold)
            BY <2>4 DEF PlainCondition
        <3>2. \A wanted \in {"Greater", "Less"} :
                MeetsThreshold(v, c.threshold, "Numeric", wanted) = "Ok"
                    <=> compare_values(v, c.threshold, "Numeric") = wanted
            BY DEF MeetsThreshold
        <3>3. CASE c.type = "GreaterThan"
            BY <2>4, <3>1, <3>2, <3>3, PlainOrder DEF checkCondition, EvaluateCondition
        <3>4. CASE c.type = "LessThan"
            BY <2>4, <3>1, <3>2, <3>4, PlainOrder DEF checkCondition, EvaluateCondition
        <3> QED BY <2>4, <3>3, <3>4
    <2> QED BY <2>1, <2>2, <2>3, <2>4, Kinds
<1> QED BY <1>1, SampledInvariant, PTL

\* compare_values of two values is one of four outcomes, and the two values are
\* equal in the encoding when it is Equal.
LEMMA Outcome ==
    ASSUME NEW v \in Values, NEW t \in Values, NEW enc \in Encodings
    PROVE  /\ compare_values(v, t, enc) \in {"Less", "Equal", "Greater", "ValueDecodeError"}
           /\ compare_values(v, t, enc) = "Equal" =>
                 IF enc = "Numeric" THEN Numeral(v) = Numeral(t) ELSE v.bytes = t.bytes
           /\ enc = "Numeric" /\ compare_values(v, t, enc) = "Greater" =>
                 Numeral(v) # None /\ Numeral(t) # None /\ Numeral(v) > Numeral(t)
<1>1. Described(v) /\ Described(t)
    BY SampleAssumption
<1>2. \A a, b \in Int : /\ cmp(a, b) \in {"Less", "Equal", "Greater"}
                        /\ cmp(a, b) = "Equal" => a = b
                        /\ cmp(a, b) = "Greater" => a > b
    BY DEF cmp
<1>3. CASE enc \in {"Bytes", "String"}
    BY <1>1, <1>2, <1>3 DEF compare_values, Described
<1>4. CASE enc = "Numeric"
    <2>1. \A w \in {v, t} : parse_u128(w) # None =>
              parse_u128(w) \in Int /\ parse_u128(w) = Numeral(w)
        BY U128Assumption DEF parse_u128, Numeral
    <2>2. compare_values(v, t, "Numeric") =
              IF parse_u128(v) # None /\ parse_u128(t) # None
              THEN cmp(parse_u128(v), parse_u128(t)) ELSE "ValueDecodeError"
        BY DEF compare_values
    <2>3. CASE parse_u128(v) # None /\ parse_u128(t) # None
        BY <1>2, <1>4, <2>1, <2>2, <2>3
    <2>4. CASE ~(parse_u128(v) # None /\ parse_u128(t) # None)
        BY <1>4, <2>2, <2>4
    <2> QED BY <2>3, <2>4
<1> QED BY <1>3, <1>4 DEF Encodings

\* GreaterThan and LessThan with one threshold take a value each its own side, and
\* what neither takes is the threshold, or cannot be compared with it.
THEOREM ThresholdsSplit == Spec => []ThresholdSplitsValues
<1>1. Sampled => ThresholdSplitsValues
    <2> SUFFICES ASSUME Sampled, sub_condition.type \in {"GreaterThan", "LessThan"}
                 PROVE  ThresholdSplitsValues
        BY DEF ThresholdSplitsValues
    <2> DEFINE t == sub_condition.threshold
               enc == sub_condition.encoding
               outcome == compare_values(held, t, enc)
    <2>1. held \in Values /\ t \in Values /\ enc \in Encodings
        BY Kinds DEF Sampled
    <2>2. /\ EvaluateCondition(GreaterThan(t, enc), held) = MeetsThreshold(held, t, enc, "Greater")
          /\ EvaluateCondition(LessThan(t, enc), held) = MeetsThreshold(held, t, enc, "Less")
        BY DEF EvaluateCondition, GreaterThan, LessThan
    <2>3. \A wanted \in {"Greater", "Less"} :
            MeetsThreshold(held, t, enc, wanted) =
                IF outcome = wanted THEN "Ok"
                ELSE IF outcome = "ValueDecodeError" THEN outcome ELSE "ThresholdNotMet"
        BY DEF MeetsThreshold
    <2>4. /\ outcome \in {"Less", "Equal", "Greater", "ValueDecodeError"}
          /\ outcome = "Equal" =>
                IF enc = "Numeric" THEN Numeral(held) = Numeral(t) ELSE held.bytes = t.bytes
          /\ enc = "Numeric" /\ outcome = "Greater" =>
                Numeral(held) # None /\ Numeral(t) # None /\ Numeral(held) > Numeral(t)
        BY <2>1, Outcome
    <2> HIDE DEF outcome
    <2>5. CASE outcome = "Less"
        BY <2>2, <2>3, <2>4, <2>5 DEF ThresholdSplitsValues
    <2>6. CASE outcome = "Greater"
        BY <2>2, <2>3, <2>4, <2>6 DEF ThresholdSplitsValues
    <2>7. CASE outcome \in {"Equal", "ValueDecodeError"}
        BY <2>2, <2>3, <2>4, <2>7 DEF ThresholdSplitsValues
    <2> QED BY <2>4, <2>5, <2>6, <2>7
<1> QED BY <1>1, SampledInvariant, PTL

=============================================================================
