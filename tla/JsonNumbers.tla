---------------------------- MODULE JsonNumbers ----------------------------
(***************************************************************************)
(* The texts of numbers: how both parsers of                               *)
(* pjsonlib/src/pjson_parser.cpp scan and convert them, and how            *)
(* pjson_serialize.cpp writes them.                                        *)
(*                                                                         *)
(* The stream extraction that reads a double is external: it rounds to the *)
(* nearest, and the standard libraries differ in what they report at the   *)
(* ends of the range, so that every outcome is tried.  The conversion the  *)
(* other way (Ryu) is external too: it hands over the digits and the       *)
(* decimal exponent.                                                       *)
(***************************************************************************)
EXTENDS Numbers, SchemaText

CONSTANTS
    KExponentCap,   \* where the explicit exponent saturates
    Digits10        \* the digits a double is sure to hold, 15 in the code

ASSUME JsonNumbersAssumption == KExponentCap \in Nat \ (0..9) /\ Digits10 \in Nat

At(s, i) == IF i <= Len(s) THEN s[i] ELSE "end"
IsDigit(c) == c \in DigitChars

\* The first position at or after i that holds no digit.
DigitsEnd(s, i) ==
    CHOOSE j \in i..(Len(s) + 1) : ~IsDigit(At(s, j)) /\ \A k \in i..(j - 1) : IsDigit(s[k])

\* scanJsonNumber: from the start of s; next is behind the token.
scanJsonNumber(s) ==
    LET first == IF At(s, 1) = "-" THEN 2 ELSE 1
        point == IF At(s, first) = "0" THEN first + 1 ELSE DigitsEnd(s, first)
        mark == IF At(s, point) = "." THEN DigitsEnd(s, point + 1) ELSE point
        exponent == IF At(s, mark) \notin {"e", "E"} THEN mark
                    ELSE IF At(s, mark + 1) \in {"+", "-"} THEN mark + 2 ELSE mark + 1
        next == IF exponent = mark THEN mark ELSE DigitsEnd(s, exponent)
    IN  [ok |-> /\ IsDigit(At(s, first))
                /\ At(s, point) = "." => IsDigit(At(s, point + 1))
                /\ exponent # mark => IsDigit(At(s, exponent)),
         next |-> next, isFloat |-> next # point]

-----------------------------------------------------------------------------
(* The parts of a token.                                                   *)

Negative(text) == At(text, 1) = "-"
MarkOf(text) == LET m == FindFirst(text, {"e", "E"}, 1) IN IF m = 0 THEN Len(text) + 1 ELSE m
Significand(text) == SubSeq(text, IF Negative(text) THEN 2 ELSE 1, MarkOf(text) - 1)
PointOf(s) == LET p == FindFirst(s, {"."}, 1) IN IF p = 0 THEN Len(s) + 1 ELSE p
DigitsOf(s) == SelectSeq(s, IsDigit)
FirstNonzero(digits) == FindFirst(digits, DigitChars \ {"0"}, 1)

\* The digits of the explicit exponent and whether it is negative.
ExponentText(text) == SubSeq(text, MarkOf(text) + 1, Len(text))
ExponentNegative(text) == At(ExponentText(text), 1) = "-"
ExponentDigits(text) == DigitsOf(ExponentText(text))

RECURSIVE SaturatedExponent(_, _)
SaturatedExponent(digits, n) ==
    IF digits = <<>> THEN n
    ELSE LET digit == Digit[digits[1]]
         IN  IF n > (KExponentCap - digit) \div 10 THEN KExponentCap
             ELSE SaturatedExponent(Tail(digits), 10 * n + digit)

\* The decimal exponent of the first digit that counts, before the explicit one.
BaseExponent(text) ==
    PointOf(Significand(text)) - 1 - FirstNonzero(DigitsOf(Significand(text)))

effectiveExponent(text) ==
    LET written == SaturatedExponent(ExponentDigits(text), 0)
        explicit == IF ExponentNegative(text) THEN -written ELSE written
        base == BaseExponent(text)
    IN  IF explicit > KExponentCap - base THEN KExponentCap
        ELSE IF explicit < -KExponentCap - base THEN -KExponentCap
        ELSE explicit + base

-----------------------------------------------------------------------------
(* Values.                                                                 *)

RECURSIVE ValueOf(_)
ValueOf(digits) ==
    IF digits = <<>> THEN 0 ELSE 10 * ValueOf(Front(digits)) + Digit[Last(digits)]

\* The decimal exponent of the first digit that counts, exactly.
Order(text) ==
    BaseExponent(text) + (IF ExponentNegative(text) THEN -1 ELSE 1) * ValueOf(ExponentDigits(text))
IsZero(text) == FirstNonzero(DigitsOf(Significand(text))) = 0

\* n/d as a number of units of 1/Scale with Precision bits, ties to even.
Nearest(n, d) ==
    LET e == CHOOSE e \in 0..20 :
                n < 2^(Precision + e) * d /\ (e > 0 => n >= 2^(Precision + e - 1) * d)
        down == n \div (d * 2^e)
        rest == n % (d * 2^e)
        up == IF 2 * rest > d * 2^e \/ (2 * rest = d * 2^e /\ down % 2 = 1) THEN 1 ELSE 0
    IN  (down + up) * 2^e

\* The magnitude of the double nearest to a token; Infinite and beyond is out
\* of range.
Magnitude(text) ==
    LET digits == DigitsOf(Significand(text))
        significant == From(digits, FirstNonzero(digits))
        shift == Order(text) - (Len(significant) - 1)
        c == ValueOf(significant)
    IN  IF IsZero(text) THEN 0
        ELSE IF Order(text) > 4 THEN Infinite
        ELSE IF Order(text) < -4 THEN 0
        ELSE IF shift >= 0 THEN Nearest(c * 10^shift * Scale, 1) ELSE Nearest(c * Scale, 10^(-shift))

Largest == Infinite - Infinite \div 2^Precision

\* The outcomes of the extraction: [clean, finite, value].  What is too large
\* saturates or becomes an infinity; what is too small may be flagged or not.
Extractions(text) ==
    LET q == Magnitude(text)
        Out(clean, v) == [clean |-> clean, finite |-> v < Infinite, value |-> v]
    IN  IF q >= Infinite THEN {Out(FALSE, Largest), Out(FALSE, Infinite)}
        ELSE IF q < Scale /\ ~IsZero(text) THEN {Out(TRUE, q), Out(FALSE, q)}
        ELSE {Out(TRUE, q)}

\* parseDouble: [ok, value, underflow].
parseDouble(text, read) ==
    LET signed == IF Negative(text) THEN -read.value ELSE read.value
        Result(ok) == [ok |-> ok, value |-> Double_(signed),
                       underflow |-> ok /\ ~IsZero(text) /\ read.value = 0]
    IN  IF ~read.clean /\ ~read.finite THEN Result(FALSE)
        ELSE IF IsZero(text) \/ read.clean THEN Result(TRUE)
        ELSE Result(effectiveExponent(text) < 0)

\* convertNumberToken: a number, or Rejected.
Rejected == [t |-> "rejected", v |-> 0]
convertNumberToken(text, isFloat, allowLossy, read) ==
    LET magnitude == ValueOf(DigitsOf(text))
        signed == IF Negative(text) THEN -magnitude ELSE magnitude
        double == parseDouble(text, read)
        asDouble == IF ~double.ok \/ ~read.finite \/ (double.underflow /\ ~allowLossy) THEN Rejected
                    ELSE double.value
    IN  IF isFloat THEN asDouble
        ELSE IF signed \in (-IntMax - 1)..IntMax THEN Int_(signed)
        ELSE IF ~Negative(text) /\ magnitude <= UIntMax THEN UInt_(magnitude)
        ELSE IF ~allowLossy THEN Rejected ELSE asDouble

-----------------------------------------------------------------------------
(* Writing.                                                                *)

Character == <<"0", "1", "2", "3", "4", "5", "6", "7", "8", "9">>
RECURSIVE DecimalText(_)
DecimalText(v) ==
    IF v < 10 THEN <<Character[v + 1]>>
    ELSE Append(DecimalText(v \div 10), Character[(v % 10) + 1])
Signed(negative, text) == IF negative THEN <<"-">> \o text ELSE text
Zeros(n) == [k \in 1..n |-> "0"]

\* What Ryu makes of a double.
Scientific(digits, exponent) ==
    UpTo(digits, 1) \o (IF Len(digits) > 1 THEN <<".">> \o Tail(digits) ELSE <<>>)
    \o <<"e">> \o Signed(exponent < 0, DecimalText(Abs(exponent)))

Positional(digits, exponent) ==
    LET position == 1 + exponent
    IN  IF position <= 0 THEN <<"0", ".">> \o Zeros(-position) \o digits
        ELSE IF position >= Len(digits) THEN digits \o Zeros(position - Len(digits))
        ELSE UpTo(digits, position) \o <<".">> \o From(digits, position + 1)

formatDouble(negative, digits, exponent) ==
    LET text == IF exponent >= -4 /\ exponent < Digits10 THEN Positional(digits, exponent)
                ELSE Scientific(digits, exponent)
    IN  Signed(negative, text) \o (IF FindFirst(text, {".", "e"}, 1) = 0 THEN <<".", "0">> ELSE <<>>)

\* The digits of a double without zeros at the end: a multiple of 1/100 here.
RECURSIVE Shortest(_)
Shortest(digits) == IF Len(digits) > 1 /\ Last(digits) = "0" THEN Shortest(Front(digits)) ELSE digits

\* The text _openOrEmit writes for a finite number.
NumberText(n) ==
    IF isInteger(n) THEN Signed(n.v < 0, DecimalText(Abs(n.v)))
    ELSE LET hundredths == DecimalText(Abs(n.v) * (100 \div Scale))
         IN  formatDouble(n.v < 0, Shortest(hundredths), IF n.v = 0 THEN 0 ELSE Len(hundredths) - 3)

-----------------------------------------------------------------------------
(* What the operations promise.                                            *)

IsInt(t) == Len(t) > 0 /\ (\A k \in DOMAIN t : IsDigit(t[k])) /\ (t[1] = "0" => Len(t) = 1)
IsDigits(t) == Len(t) > 0 /\ \A k \in DOMAIN t : IsDigit(t[k])
IsFraction(t) == t = <<>> \/ (t[1] = "." /\ IsDigits(Tail(t)))
IsExponent(t) ==
    \/ t = <<>>
    \/ /\ t[1] \in {"e", "E"}
       /\ IsDigits(Tail(t)) \/ (Len(t) > 1 /\ t[2] \in {"+", "-"} /\ IsDigits(From(t, 3)))

\* The grammar of RFC 8259.
IsJsonNumber(t) ==
    LET unsigned == IF Negative(t) THEN Tail(t) ELSE t
    IN  \E i, j \in 0..Len(unsigned) :
            i <= j /\ IsInt(UpTo(unsigned, i)) /\ IsFraction(SubSeq(unsigned, i + 1, j))
            /\ IsExponent(From(unsigned, j + 1))

\* The longest number is taken, and a text is refused only where none of its
\* numbers could end.
ScannedExactly(s) ==
    LET scan == scanJsonNumber(s)
        numbers == {n \in 1..Len(s) : IsJsonNumber(UpTo(s, n))}
    IN  /\ scan.ok =>
              /\ scan.next - 1 \in numbers
              /\ \A n \in numbers : n < scan.next
              /\ scan.isFloat = (FindFirst(UpTo(s, scan.next - 1), {".", "e", "E"}, 1) # 0)
        /\ ~scan.ok => \A n \in numbers : At(s, n + 1) \in DigitChars \union {".", "e", "E"}

\* A token becomes the integer it spells, or the double nearest to it, or is
\* rejected for being out of range or, unless that is allowed, for losing what
\* it says, however the standard library reports the ends of the range.
ConvertedExactly(text) ==
    LET isFloat == scanJsonNumber(text).isFloat
        value == (IF Negative(text) THEN -1 ELSE 1) * ValueOf(DigitsOf(text))
        magnitude == Magnitude(text)
        double == Double_(IF Negative(text) THEN -magnitude ELSE magnitude)
    IN  \A allowLossy \in BOOLEAN, read \in Extractions(text) :
            convertNumberToken(text, isFloat, allowLossy, read) =
                IF ~isFloat /\ value \in (-IntMax - 1)..UIntMax
                THEN IF value <= IntMax THEN Int_(value) ELSE UInt_(value)
                ELSE IF ~allowLossy /\ (~isFloat \/ (magnitude = 0 /\ ~IsZero(text))) THEN Rejected
                ELSE IF magnitude >= Infinite THEN Rejected
                ELSE double

\* A stored number is written as a JSON number that is read back as the same
\* value in the same representation.
ReadBack(n) ==
    LET text == NumberText(n)
        scan == scanJsonNumber(text)
        back == {convertNumberToken(text, scan.isFloat, FALSE, read) : read \in Extractions(text)}
    IN  /\ scan.ok /\ scan.next = Len(text) + 1
        /\ back = {IF n.t = "uint" /\ n.v <= IntMax THEN Int_(n.v) ELSE n}

\* The text of a double has its digits and its exponent, wherever its point is.
FormattedExactly(negative, digits, exponent) ==
    LET text == formatDouble(negative, digits, exponent)
        scan == scanJsonNumber(text)
        written == DigitsOf(Significand(text))
    IN  /\ scan.ok /\ scan.next = Len(text) + 1 /\ scan.isFloat
        /\ Negative(text) = negative
        /\ Order(text) = exponent
        /\ Shortest(From(written, FirstNonzero(written))) = digits
=============================================================================
