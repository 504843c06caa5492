------------------------------ MODULE Numbers ------------------------------
(***************************************************************************)
(* The numbers of a document (pjsonlib/src/pjson.cpp, _compareNumbers,     *)
(* operator==, tryGet; pjson_schema_value.cpp): signed and unsigned        *)
(* integers and doubles, compared, converted and divided without rounding. *)
(*                                                                         *)
(* The widths are parameters.  An integer has its value, a finite double   *)
(* its multiple of 1/Scale; the infinities are a multiple beyond all of    *)
(* them.  A double has Precision significant bits, fewer than an integer   *)
(* has, which is where comparing the two by conversion goes wrong.         *)
(***************************************************************************)
EXTENDS Integers, Sequences

CONSTANTS IntBits, Precision, Scale

ASSUME NumbersAssumption ==
    IntBits \in Nat /\ Precision \in 1..(IntBits - 1) /\ Scale \in Nat \ {0}

IntMax == 2^(IntBits - 1) - 1
UIntMax == 2^IntBits - 1
Infinite == Scale * 2^(IntBits + 2)

Int_(v) == [t |-> "int", v |-> v]
UInt_(v) == [t |-> "uint", v |-> v]
Double_(v) == [t |-> "double", v |-> v]
NaN == [t |-> "nan", v |-> 0]

isInteger(n) == n.t \in {"int", "uint"}
isDouble(n) == n.t \in {"double", "nan"}
isNumber(n) == isInteger(n) \/ isDouble(n)
isfinite(n) == n.t = "double" /\ n.v \in (1 - Infinite)..(Infinite - 1)

Abs(v) == IF v < 0 THEN -v ELSE v
Sign(l, r) == IF l < r THEN -1 ELSE IF l > r THEN 1 ELSE 0

\* The conversion of an integer to a double: the nearest multiple of 1/Scale
\* with Precision significant bits, ties to even.
ToDouble(v) ==
    LET q == Abs(v) * Scale
        e == CHOOSE e \in 0..(2 * IntBits + Scale) :
                q < 2^(Precision + e) /\ (e > 0 => q >= 2^(Precision + e - 1))
        down == q \div 2^e
        rest == q % 2^e
        up == IF 2 * rest > 2^e \/ (2 * rest = 2^e /\ down % 2 = 1) THEN 1 ELSE 0
    IN  Double_((IF v < 0 THEN -1 ELSE 1) * (down + up) * 2^e)

\* The conversion of a double to an integer: towards zero.
Truncated(n) == IF n.v < 0 THEN -(Abs(n.v) \div Scale) ELSE n.v \div Scale

-----------------------------------------------------------------------------
(* Comparison.  2 is "unordered".                                           *)

\* Mutant: the integer is compared as the double nearest to it.
IntegerVsDouble_Rounded(i, d) == Sign(ToDouble(i.v).v, d.v)

\* Integer against double: out of the integer's range, by the truncated
\* double, or by what the truncation dropped.
IntegerVsDouble(i, d) ==
    LET least == IF i.t = "uint" THEN 0 ELSE -(IntMax + 1)
        most == IF i.t = "uint" THEN UIntMax ELSE IntMax
        truncated == Truncated(d)
    IN  IF d.v >= Scale * (most + 1) THEN -1
        ELSE IF d.v < Scale * least THEN 1
        ELSE IF i.v # truncated THEN Sign(i.v, truncated)
        ELSE -Sign(d.v, ToDouble(truncated).v)

SignedVsUnsigned(s, u) == IF s.v < 0 THEN -1 ELSE Sign(s.v, u.v)

compareNumbers(l, r) ==
    CASE isInteger(l) /\ isInteger(r) ->
            IF l.t = r.t THEN Sign(l.v, r.v)
            ELSE IF l.t = "uint" THEN -SignedVsUnsigned(r, l) ELSE SignedVsUnsigned(l, r)
      [] ~(isInteger(l) /\ isInteger(r)) /\ NaN \in {l, r} -> 2
      [] OTHER ->
            IF isDouble(l) /\ isDouble(r) THEN Sign(l.v, r.v)
            ELSE IF isInteger(l) THEN IntegerVsDouble(l, r) ELSE -IntegerVsDouble(r, l)

\* tryCompareNumber: whether there is an order, and which.
tryCompareNumber(l, r) ==
    IF isNumber(l) /\ isNumber(r) /\ compareNumbers(l, r) # 2
    THEN <<TRUE, compareNumbers(l, r)>> ELSE <<FALSE, 0>>

\* operator==: a work list of pairs; the last one in is looked at first.  An
\* array is a sequence of values, an object a function of its names.
Differ(l, r) ==
    IF isNumber(l) /\ isNumber(r) THEN compareNumbers(l, r) # 0
    ELSE \/ l.t # r.t
         \/ l.t = "array" /\ Len(l.v) # Len(r.v)
         \/ l.t = "object" /\ DOMAIN l.v # DOMAIN r.v
         \/ l.t \notin {"array", "object"} /\ l.v # r.v

RECURSIVE Listed(_, _, _)
Listed(names, l, r) ==
    IF names = {} THEN <<>>
    ELSE LET k == CHOOSE k \in names : TRUE
         IN  <<<<l.v[k], r.v[k]>>>> \o Listed(names \ {k}, l, r)

RECURSIVE Equal(_)
Equal(work) ==
    work = <<>> \/
    LET l == work[Len(work)][1]
        r == work[Len(work)][2]
        rest == SubSeq(work, 1, Len(work) - 1)
    IN  /\ ~Differ(l, r)
        /\ Equal(rest \o IF l.t \in {"array", "object"} THEN Listed(DOMAIN l.v, l, r) ELSE <<>>)

equals(l, r) == Equal(<<<<l, r>>>>)

-----------------------------------------------------------------------------
(* Conversion.  A result is <<found, value>>.                               *)

None_ == <<FALSE, 0>>

tryGetInt(n) == IF n.t = "int" \/ (n.t = "uint" /\ n.v <= IntMax) THEN <<TRUE, n.v>> ELSE None_
tryGetUInt(n) == IF n.t = "uint" \/ (n.t = "int" /\ n.v >= 0) THEN <<TRUE, n.v>> ELSE None_
tryGetDouble(n) ==
    IF isInteger(n) THEN <<TRUE, ToDouble(n.v)>>
    ELSE IF isDouble(n) THEN <<TRUE, n>> ELSE None_

\* A number of C++ as operator+= stores it, by the kind of its type.
Kinds == {"signed", "unsigned", "floating"}
FromNative(kind, v) ==
    IF kind = "signed" THEN Int_(v) ELSE IF kind = "unsigned" THEN UInt_(v) ELSE Double_(v)

\* A vector of them, assigned and appended.
ArrayFrom(kind, vector) == [k \in DOMAIN vector |-> FromNative(kind, vector[k])]
AppendedAll(array, kind, vector) == array \o ArrayFrom(kind, vector)

\* typeMatches for "integer".
integerMatches(n) == isInteger(n) \/ (isfinite(n) /\ n.v % Scale = 0)

\* schemaSize: a limit of a schema as a size_t, or above every size_t.
Above == UIntMax + 1
schemaSize(n) ==
    CASE n.t = "uint" -> <<TRUE, n.v>>
      [] n.t = "int" -> IF n.v < 0 THEN None_ ELSE <<TRUE, n.v>>
      [] OTHER ->
            IF ~isfinite(n) \/ n.v < 0 \/ n.v % Scale # 0 THEN None_
            ELSE IF n.v >= Scale * (UIntMax + 1) THEN <<TRUE, Above>>
            ELSE <<TRUE, n.v \div Scale>>

-----------------------------------------------------------------------------
(* multipleOf.                                                              *)

\* c * 10^e without trailing zeros in c.  A double is the decimal its text has,
\* which for the doubles here is its value, as hundredths.
RECURSIVE Stripped(_, _)
Stripped(c, e) == IF c = 0 THEN <<0, 0>> ELSE IF c % 10 # 0 THEN <<c, e>> ELSE Stripped(c \div 10, e + 1)

decimalFromNumber(n) ==
    IF isInteger(n) THEN Stripped(Abs(n.v), 0) ELSE Stripped(Abs(n.v) * (100 \div Scale), -2)

\* c without up to k factors f.
RECURSIVE Without(_, _, _)
Without(c, f, k) == IF k = 0 \/ c % f # 0 THEN c ELSE Without(c \div f, f, k - 1)

MultipleOfDecimal(value, divisor) ==
    LET shift == value[2] - divisor[2]
        quotient == value[1] \div divisor[1]
    IN  IF divisor[1] = 0 \/ value[1] = 0 THEN TRUE
        ELSE IF shift >= 0
        THEN value[1] % Without(Without(divisor[1], 2, shift), 5, shift) = 0
        ELSE value[1] % divisor[1] = 0 /\ quotient % 10^(-shift) = 0

isExactMultiple(value, divisor) ==
    IF divisor # NaN /\ tryGetDouble(divisor)[2].v <= 0 THEN TRUE
    ELSE IF value.t = "int" /\ divisor.t = "int" THEN Abs(value.v) % Abs(divisor.v) = 0
    ELSE IF ~isInteger(divisor) /\ ~isfinite(divisor) THEN TRUE
    ELSE IF ~isInteger(value) /\ ~isfinite(value) THEN FALSE
    ELSE MultipleOfDecimal(decimalFromNumber(value), decimalFromNumber(divisor))

-----------------------------------------------------------------------------
(* What the operations promise, on exact values.                            *)

Exact(n) == IF isInteger(n) THEN n.v * Scale ELSE n.v

RECURSIVE SameValue(_, _)
SameValue(l, r) ==
    CASE isNumber(l) /\ isNumber(r) -> NaN \notin {l, r} /\ Exact(l) = Exact(r)
      [] l.t = r.t /\ l.t \in {"array", "object"} ->
            DOMAIN l.v = DOMAIN r.v /\ \A k \in DOMAIN l.v : SameValue(l.v[k], r.v[k])
      [] OTHER -> l.t = r.t /\ l.v = r.v

ComparedExactly(l, r) ==
    tryCompareNumber(l, r) =
        IF NaN \in {l, r} THEN <<FALSE, 0>> ELSE <<TRUE, Sign(Exact(l), Exact(r))>>

DividedExactly(l, r) ==
    LET finite(n) == isInteger(n) \/ isfinite(n)
    IN  finite(l) /\ finite(r) /\ Exact(r) > 0 =>
            isExactMultiple(l, r) = (Abs(Exact(l)) % Exact(r) = 0)

ReadExactly(n) ==
    LET whole == isInteger(n) \/ (isfinite(n) /\ Exact(n) % Scale = 0)
    IN  /\ integerMatches(n) = whole
        /\ schemaSize(n)[1] = (whole /\ Exact(n) >= 0)
        /\ schemaSize(n)[1] =>
              schemaSize(n)[2] = IF Exact(n) > Scale * UIntMax THEN Above ELSE Exact(n) \div Scale
        /\ tryGetInt(n)[1] = (isInteger(n) /\ n.v <= IntMax)
        /\ tryGetUInt(n)[1] = (isInteger(n) /\ n.v >= 0)

\* A vector of C++ numbers, appended to one of another kind, is there under its
\* own values: none is rounded, and none changes its sign.
KeepsNatives(kind, other, vector) ==
    LET array == AppendedAll(ArrayFrom(kind, vector), other, vector)
        n == Len(vector)
        Reads(k, v) == IF k = "signed" THEN tryGetInt(v)
                       ELSE IF k = "unsigned" THEN tryGetUInt(v) ELSE tryGetDouble(v)
        Native(k, j) == <<TRUE, IF k = "floating" THEN Double_(vector[j]) ELSE vector[j]>>
    IN  \A j \in 1..n : /\ Reads(kind, array[j]) = Native(kind, j)
                       /\ Reads(other, array[n + j]) = Native(other, j)
=============================================================================
