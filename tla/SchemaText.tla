----------------------------- MODULE SchemaText -----------------------------
(***************************************************************************)
(* The texts a schema gives a meaning to (pjsonlib/src/pjson_schema_uri.cpp *)
(* and pjson_schema_format.cpp): references, which are resolved against a  *)
(* base URI and whose fragments are decoded, the strings a format admits,  *)
(* and the patterns that are let through to the regex engine               *)
(* (pjson_schema_value.cpp, pjson_schema_regex.cpp).  A text is a sequence *)
(* of one-character strings.                                               *)
(***************************************************************************)
EXTENDS Integers, FiniteSets, SequencesExt

Digit == [c \in {"0", "1", "2", "3", "4", "5", "6", "7", "8", "9"} |->
    CASE c = "0" -> 0 [] c = "1" -> 1 [] c = "2" -> 2 [] c = "3" -> 3 [] c = "4" -> 4
      [] c = "5" -> 5 [] c = "6" -> 6 [] c = "7" -> 7 [] c = "8" -> 8 [] c = "9" -> 9]
DigitChars == DOMAIN Digit
Hex == [c \in DigitChars \union {"a", "b", "c", "d", "e", "f", "A", "B", "C", "D", "E", "F"} |->
    CASE c \in DigitChars -> Digit[c]
      [] c \in {"a", "A"} -> 10 [] c \in {"b", "B"} -> 11 [] c \in {"c", "C"} -> 12
      [] c \in {"d", "D"} -> 13 [] c \in {"e", "E"} -> 14 [] c \in {"f", "F"} -> 15]
HexChars == DOMAIN Hex
\* The letters the texts are made of.
Letters == {"a", "b", "c", "d", "e", "f", "h", "p", "x", "A", "F", "P", "T", "Z", "t", "z"}

\* The first position of a character of C at or after from, and the last one;
\* 0 is npos.
FindFirst(s, C, from) ==
    LET at == {i \in from..Len(s) : s[i] \in C}
    IN  IF at = {} THEN 0 ELSE CHOOSE i \in at : \A j \in at : i <= j
FindLast(s, c) ==
    LET at == {i \in DOMAIN s : s[i] = c}
    IN  IF at = {} THEN 0 ELSE CHOOSE i \in at : \A j \in at : i >= j

UpTo(s, n) == SubSeq(s, 1, IF n < Len(s) THEN n ELSE Len(s))
From(s, n) == SubSeq(s, n, Len(s))

\* The pieces of s between separators c, always at least one.
Split(s, c) ==
    FoldLeft(LAMBDA pieces, ch :
                 IF ch = c THEN Append(pieces, <<>>)
                 ELSE [pieces EXCEPT ![Len(pieces)] = Append(@, ch)],
             <<<<>>>>, s)

-----------------------------------------------------------------------------
(* References.                                                              *)

Dots == <<".", ".">>

normalizePath(path) ==
    LET kept == FoldLeft(LAMBDA segments, segment :
                             IF segment \in {<<>>, <<".">>} THEN segments
                             ELSE IF segment # Dots THEN Append(segments, segment)
                             ELSE IF segments = <<>> THEN <<>> ELSE Front(segments),
                         <<>>, Split(path, "/"))
        Joined(text, segment) ==
            text \o (IF text # <<>> /\ Last(text) # "/" THEN <<"/">> ELSE <<>>) \o segment
        absolute == path # <<>> /\ path[1] = "/"
        result == FoldLeft(Joined, IF absolute THEN <<"/">> ELSE <<>>, kept)
    IN  IF path # <<>> /\ Last(path) = "/" /\ (result = <<>> \/ Last(result) # "/")
        THEN Append(result, "/") ELSE result

\* splitPathSuffix.
PathOf(s) == LET m == FindFirst(s, {"?", "#"}, 1) IN IF m = 0 THEN s ELSE UpTo(s, m - 1)
SuffixOf(s) == LET m == FindFirst(s, {"?", "#"}, 1) IN IF m = 0 THEN <<>> ELSE From(s, m)

uriHasScheme(uri) ==
    LET colon == FindFirst(uri, {":"}, 1)
    IN  /\ colon > 1 /\ uri[1] \in Letters
        /\ \A i \in 2..(colon - 1) : uri[i] \in Letters \union DigitChars \union {"+", "-", "."}

validAnchorName(name) ==
    /\ name # <<>> /\ name[1] \in Letters \union {"_"}
    /\ \A i \in 2..Len(name) :
           name[i] \in Letters \union DigitChars \union {"_", "-", ".", ":"}

\* splitReference and stripFragment.
DocumentOf(uri) == LET hash == FindFirst(uri, {"#"}, 1) IN IF hash = 0 THEN uri ELSE UpTo(uri, hash - 1)
FragmentOf(uri) == LET hash == FindFirst(uri, {"#"}, 1) IN IF hash = 0 THEN <<>> ELSE From(uri, hash + 1)

\* A reference with a path or a query, under a prefix (the scheme, with the
\* authority if there is one) and the path of the base.
Merged(prefix, path, reference) ==
    LET base == PathOf(path)
        own == PathOf(reference)
        directory == UpTo(base, FindLast(base, "/"))
    IN  prefix \o
        IF reference[1] = "?" THEN base \o reference
        ELSE IF own # <<>> /\ own[1] = "/" THEN normalizePath(own) \o SuffixOf(reference)
        ELSE normalizePath(directory \o own) \o SuffixOf(reference)

resolveUri(baseWithFragment, reference) ==
    LET base == DocumentOf(baseWithFragment)
        colon == FindFirst(base, {":"}, 1)
        scheme == UpTo(base, colon)
        remainder == From(base, colon + 1)
        end == FindFirst(remainder, {"/"}, 3)
        authority == IF end = 0 THEN remainder ELSE UpTo(remainder, end - 1)
        slashes(s) == UpTo(s, 2) = <<"/", "/">>
    IN  IF reference = <<>> THEN base
        ELSE IF uriHasScheme(reference) THEN reference
        ELSE IF reference[1] = "#" THEN base \o reference
        ELSE IF colon = 0 \/ ~slashes(remainder) THEN Merged(scheme, remainder, reference)
        ELSE IF slashes(reference) THEN scheme \o reference
        ELSE Merged(scheme \o authority, IF end = 0 THEN <<"/">> ELSE From(remainder, end),
                    reference)

\* percentDecodeFragment: the decoded bytes, or failure.  A decoded byte is a
\* number, any other byte the character it is.
RECURSIVE percentDecodeFragment(_)
percentDecodeFragment(s) ==
    LET rest(n) == percentDecodeFragment(From(s, n))
        after(byte, decoded) == [decoded EXCEPT !.bytes = <<byte>> \o @]
    IN  IF s = <<>> THEN [ok |-> TRUE, bytes |-> <<>>]
        ELSE IF s[1] # "%" THEN after(s[1], rest(2))
        ELSE IF Len(s) < 3 \/ s[2] \notin HexChars \/ s[3] \notin HexChars
        THEN [ok |-> FALSE, bytes |-> <<>>]
        ELSE after(16 * Hex[s[2]] + Hex[s[3]], rest(4))

-----------------------------------------------------------------------------
(* Formats.  Positions count from 1 here, from 0 in the code.               *)

AllIn(s, C) == \A i \in DOMAIN s : s[i] \in C

\* parseFixedDigits: n digits at position i, or -1.
FixedDigits(s, i, n) ==
    IF i + n - 1 > Len(s) \/ ~AllIn(SubSeq(s, i, i + n - 1), DigitChars) THEN -1
    ELSE FoldLeft(LAMBDA v, c : 10 * v + Digit[c], 0, SubSeq(s, i, i + n - 1))

isLeapYear(year) == year % 4 = 0 /\ (year % 100 # 0 \/ year % 400 = 0)

DaysOf(year, month) ==
    IF month = 2 /\ isLeapYear(year) THEN 29
    ELSE <<31, 28, 31, 30, 31, 30, 31, 31, 30, 31, 30, 31>>[month]

validDate(s) ==
    /\ Len(s) = 10 /\ s[5] = "-" /\ s[8] = "-"
    /\ FixedDigits(s, 1, 4) >= 0
    /\ FixedDigits(s, 6, 2) \in 1..12
    /\ FixedDigits(s, 9, 2) \in 1..DaysOf(FixedDigits(s, 1, 4), FixedDigits(s, 6, 2))

\* The remainder in C++ has the sign of the dividend.
CRem(n, d) == IF n < 0 THEN -((-n) % d) ELSE n % d

\* Mutant: the minute of the day is not brought back into the day.
UtcMinute_Negative(minutes) == CRem(minutes, 1440)

UtcMinute(minutes) ==
    IF CRem(minutes, 1440) < 0 THEN CRem(minutes, 1440) + 1440 ELSE CRem(minutes, 1440)

\* Where the zone begins: behind the digits of a fraction, 0 when it has none.
FractionEnd(s) ==
    LET others == {i \in 10..Len(s) : s[i] \notin DigitChars}
        end == IF others = {} THEN Len(s) + 1 ELSE CHOOSE i \in others : \A j \in others : i <= j
    IN  IF s[9] # "." THEN 9 ELSE IF end = 10 THEN 0 ELSE end

\* The offset in minutes a zone text stands for, or None.
NoZone == -10000
ZoneMinutes(zone) ==
    LET hour == FixedDigits(zone, 2, 2)
        minute == FixedDigits(zone, 5, 2)
    IN  IF zone \in {<<"Z">>, <<"z">>} THEN 0
        ELSE IF /\ Len(zone) = 6 /\ zone[1] \in {"+", "-"} /\ zone[4] = ":"
                /\ hour \in 0..23 /\ minute \in 0..59
        THEN (IF zone[1] = "-" THEN -1 ELSE 1) * (60 * hour + minute)
        ELSE NoZone

validTime(s) ==
    LET hour == FixedDigits(s, 1, 2)
        minute == FixedDigits(s, 4, 2)
        second == FixedDigits(s, 7, 2)
        zone == ZoneMinutes(From(s, FractionEnd(s)))
    IN  /\ Len(s) >= 9 /\ s[3] = ":" /\ s[6] = ":"
        /\ hour \in 0..23 /\ minute \in 0..59 /\ second \in 0..60
        /\ FractionEnd(s) # 0 /\ zone # NoZone
        /\ second = 60 => UtcMinute(60 * hour + minute - zone) = 23 * 60 + 59

validDateTime(s) ==
    Len(s) > 11 /\ s[11] \in {"T", "t"} /\ validDate(UpTo(s, 10)) /\ validTime(From(s, 12))

Octet(s) ==
    /\ s # <<>> /\ AllIn(s, DigitChars) /\ Len(s) <= 3
    /\ Len(s) > 1 => s[1] # "0"
    /\ FixedDigits(s, 1, Len(s)) <= 255

validIPv4(s) ==
    LET parts == Split(s, ".") IN Len(parts) = 4 /\ \A i \in 1..4 : Octet(parts[i])

\* parseIPv6Side: how many 16-bit units a side has, or -1.
IPv6Units(side, mayContainIPv4) ==
    LET tokens == Split(side, ":")
        n == Len(tokens)
        dotted(i) == "." \in ToSet(tokens[i])
        fits(i) == IF dotted(i) THEN mayContainIPv4 /\ i = n /\ validIPv4(tokens[i])
                   ELSE Len(tokens[i]) \in 1..4 /\ AllIn(tokens[i], HexChars)
    IN  IF side = <<>> THEN 0
        ELSE IF \A i \in 1..n : fits(i) THEN n + IF dotted(n) THEN 1 ELSE 0
        ELSE -1

\* The first "::" at or after a position, or 0.
Compression(s, from) ==
    LET at == {i \in from..(Len(s) - 1) : s[i] = ":" /\ s[i + 1] = ":"}
    IN  IF at = {} THEN 0 ELSE CHOOSE i \in at : \A j \in at : i <= j

\* Mutant: the compression may stand for no unit at all.
validIPv6_EmptyGap(s) ==
    LET gap == Compression(s, 1)
        left == IPv6Units(UpTo(s, gap - 1), FALSE)
        right == IPv6Units(From(s, gap + 2), TRUE)
    IN  /\ s # <<>>
        /\ IF gap = 0 THEN IPv6Units(s, TRUE) = 8
           ELSE Compression(s, gap + 2) = 0 /\ left >= 0 /\ right >= 0 /\ left + right <= 8

validIPv6(s) ==
    LET gap == Compression(s, 1)
        left == IPv6Units(UpTo(s, gap - 1), FALSE)
        right == IPv6Units(From(s, gap + 2), TRUE)
    IN  /\ s # <<>>
        /\ IF gap = 0 THEN IPv6Units(s, TRUE) = 8
           ELSE Compression(s, gap + 2) = 0 /\ left >= 0 /\ right >= 0 /\ left + right < 8

UuidDashes == {9, 14, 19, 24}
validUuid(s) ==
    /\ Len(s) = 36
    /\ \A i \in 1..36 : IF i \in UuidDashes THEN s[i] = "-" ELSE s[i] \in HexChars

\* knownFormatValid, but for "regex", which asks the regex engine: a format it
\* does not know admits every string.
knownFormatValid(format, s) ==
    CASE format = "date" -> validDate(s)
      [] format = "time" -> validTime(s)
      [] format = "date-time" -> validDateTime(s)
      [] format = "ipv4" -> validIPv4(s)
      [] format = "ipv6" -> validIPv6(s)
      [] format = "uuid" -> validUuid(s)
      [] OTHER -> TRUE

-----------------------------------------------------------------------------
(* Patterns.                                                                *)

Quantifiers == {"*", "+", "?", "{"}
MaxGroups == 16
MaxRepetition == 1000

\* The position behind the brace that ends the name of a property class whose
\* "p" is at position i, or 0 when there is no name.
AfterName(s, i) ==
    LET close == FindFirst(s, {"}"}, i + 2) IN IF close \in {0, i + 2} THEN 0 ELSE close + 1

\* Mutant: the character behind a backslash is read again.
AfterEscape_ReadsAgain(s, i) == IF i < Len(s) /\ s[i + 1] \in DigitChars \ {"0"} THEN 0 ELSE i + 1

\* Where the filter goes on behind a backslash at i; 0 refuses the pattern, for
\* a back reference or a property class without a name.
AfterEscape(s, i) ==
    IF i = Len(s) THEN i + 1
    ELSE IF s[i + 1] \in DigitChars \ {"0"} THEN 0
    ELSE IF s[i + 1] \in {"p", "P"} /\ i + 2 <= Len(s) /\ s[i + 2] = "{" THEN AfterName(s, i + 1)
    ELSE i + 2

\* The counts of a repetition behind the brace at i are in range.
CountAt(s, i) ==
    LET others == {j \in i..Len(s) : s[j] \notin DigitChars}
        stop == IF others = {} THEN Len(s) + 1 ELSE CHOOSE j \in others : \A k \in others : j <= k
    IN  FoldLeft(LAMBDA v, c : IF v > MaxRepetition THEN v ELSE 10 * v + Digit[c], 0, SubSeq(s, i, stop - 1))
CountsInRange(s, i) ==
    LET comma == FindFirst(s, {s[j] : j \in DOMAIN s} \ DigitChars, i + 1)
    IN  /\ CountAt(s, i + 1) <= MaxRepetition
        /\ comma # 0 /\ s[comma] = "," => CountAt(s, comma + 1) <= MaxRepetition

\* isSafeRegex from position i on.  open holds, for every group that is open,
\* whether it has a quantifier.
RECURSIVE SafeFrom(_, _, _, _, _, _)
SafeFrom(s, i, inClass, groups, quantifiers, open) ==
    LET c == s[i]
        outer == Front(open)
        quantified == i < Len(s) /\ s[i + 1] \in Quantifiers
        Marked(stack, q) == IF stack = <<>> THEN stack ELSE [stack EXCEPT ![Len(stack)] = @ \/ q]
        On(cls) == SafeFrom(s, i + 1, cls, groups, quantifiers, open)
    IN  CASE i > Len(s) -> TRUE
          [] i <= Len(s) /\ c = "\\" ->
                AfterEscape(s, i) # 0
                /\ SafeFrom(s, AfterEscape(s, i), inClass, groups, quantifiers, open)
          [] i <= Len(s) /\ c = "[" -> On(TRUE)
          [] i <= Len(s) /\ c # "\\" /\ c # "[" /\ inClass -> On(c # "]")
          [] OTHER ->
                CASE c = "(" ->
                        groups < MaxGroups
                        /\ SafeFrom(s, i + 1, FALSE, groups + 1, quantifiers, Append(open, FALSE))
                  [] c = "|" -> FALSE
                  [] c \in Quantifiers ->
                        /\ quantifiers = 0 /\ (c = "{" => CountsInRange(s, i))
                        /\ SafeFrom(s, i + 1, FALSE, groups, 1, Marked(open, TRUE))
                  [] c = ")" /\ open # <<>> ->
                        /\ ~(quantified /\ Last(open))
                        /\ SafeFrom(s, i + 1, FALSE, groups, quantifiers,
                                    Marked(outer, quantified \/ Last(open)))
                  [] OTHER -> On(FALSE)

isSafeRegex(s) == SafeFrom(s, 1, FALSE, 0, 0, <<>>)

\* validEcmaSyntaxSubset: where it goes on behind a backslash at i, or 0.
EcmaEscapes == {"b", "B", "f", "n", "r", "t", "v", "x", "d", "D", "s", "S", "w", "W", "u", "k"}
AfterEcmaEscape(s, i) ==
    IF i = Len(s) THEN 0
    ELSE IF s[i + 1] = "c"
    THEN IF i + 2 <= Len(s) /\ s[i + 2] \in Letters THEN i + 3 ELSE 0
    ELSE IF s[i + 1] \in {"p", "P"}
    THEN IF i + 2 <= Len(s) /\ s[i + 2] = "{" THEN AfterName(s, i + 1) ELSE 0
    ELSE IF s[i + 1] \in Letters \ EcmaEscapes THEN 0 ELSE i + 2

RECURSIVE EcmaFrom(_, _, _, _)
EcmaFrom(s, i, inClass, groups) ==
    LET c == s[i]
        foreign == i + 2 <= Len(s) /\ s[i + 1] = "?" /\ s[i + 2] \in {"P", "#", "i", "m", "s", "-"}
    IN  IF i > Len(s) THEN ~inClass /\ groups = 0
        ELSE IF c = "\\" THEN AfterEcmaEscape(s, i) # 0
                               /\ EcmaFrom(s, AfterEcmaEscape(s, i), inClass, groups)
        ELSE IF inClass THEN EcmaFrom(s, i + 1, c # "]", groups)
        ELSE CASE c = "[" -> EcmaFrom(s, i + 1, TRUE, groups)
               [] c = "(" -> ~foreign /\ EcmaFrom(s, i + 1, FALSE, groups + 1)
               [] c = ")" -> groups > 0 /\ EcmaFrom(s, i + 1, FALSE, groups - 1)
               [] OTHER -> EcmaFrom(s, i + 1, FALSE, groups)

hasUnsupportedGlobalModifiers(s) ==
    \E i \in 1..(Len(s) - 3) :
        s[i] = "(" /\ s[i + 1] = "?" /\ s[i + 2] \in {"i", "m", "s", "-"}

\* The patterns that reach the regex engine.
validEcmaSyntaxSubset(s) == EcmaFrom(s, 1, FALSE, 0) /\ ~hasUnsupportedGlobalModifiers(s)

-----------------------------------------------------------------------------
(* What the operations promise.                                             *)

\* A path whose segments are names and dots: no empty segment inside, no dot at
\* the end.  On other paths the code and RFC 3986 part: it drops empty segments
\* and the slash behind a final dot.
PlainPath(path) ==
    LET pieces == Split(path, "/")
    IN  /\ \A i \in 2..(Len(pieces) - 1) : pieces[i] # <<>>
        /\ Last(pieces) \notin {<<".">>, Dots}

\* The segments RFC 3986 leaves of an absolute path: a name survives when no
\* later stretch of the path holds more ".." than names.
DotsRemoved(path) ==
    LET pieces == Split(path, "/")
        count(from, to, S) == Len(SelectSeq(SubSeq(pieces, from, to), LAMBDA p : p \in S))
        names == ToSet(pieces) \ {<<>>, <<".">>, Dots}
        survives(i) == /\ pieces[i] \in names
                       /\ \A j \in i..Len(pieces) :
                              count(i + 1, j, {Dots}) <= count(i + 1, j, names)
        kept == {i \in DOMAIN pieces : survives(i)}
    IN  FoldLeft(LAMBDA text, i :
                     IF i \in kept THEN text \o <<"/">> \o pieces[i]
                     ELSE IF i = Len(pieces) /\ pieces[i] = <<>> THEN Append(text, "/") ELSE text,
                 <<>>, [i \in DOMAIN pieces |-> i])

\* RFC 3986, 5.2, for a base of a scheme, an authority and an absolute path.
Rfc3986(prefix, path, reference) ==
    LET own == PathOf(reference)
        merged == IF own[1] = "/" THEN own ELSE UpTo(PathOf(path), FindLast(PathOf(path), "/")) \o own
    IN  IF own = <<>> THEN [plain |-> TRUE, uri |-> prefix \o PathOf(path) \o reference]
        ELSE [plain |-> PlainPath(merged),
              uri |-> prefix \o DotsRemoved(merged) \o SuffixOf(reference)]

ResolvesLikeRfc3986(prefix, path, reference) ==
    LET own == DocumentOf(reference)
        rfc == Rfc3986(prefix, path, reference)
    IN  /\ own # <<>> /\ ~uriHasScheme(reference) /\ UpTo(own, 2) # <<"/", "/">> /\ rfc.plain
        => resolveUri(prefix \o path, reference) = rfc.uri

\* Resolving a reference and resolving its document are the same but for the
\* fragment, so that the document asked for is the document indexed.
FragmentKept(base, reference) ==
    LET uri == resolveUri(base, reference)
    IN  /\ DocumentOf(uri) = resolveUri(base, DocumentOf(reference))
        /\ FragmentOf(uri) = FragmentOf(reference)
        /\ uriHasScheme(DocumentOf(base)) => uriHasScheme(uri)

DecodesExactly(s) ==
    LET signs == {i \in DOMAIN s : s[i] = "%"}
        starts == {i \in DOMAIN s : {i - 1, i - 2} \cap signs = {}}
        decoded == percentDecodeFragment(s)
        rank(i) == Cardinality({j \in starts : j <= i})
    IN  /\ decoded.ok = \A i \in signs : i + 2 <= Len(s) /\ {s[i + 1], s[i + 2]} \subseteq HexChars
        /\ decoded.ok =>
              /\ Len(decoded.bytes) = Cardinality(starts)
              /\ \A i \in starts : decoded.bytes[rank(i)] =
                     IF i \in signs THEN 16 * Hex[s[i + 1]] + Hex[s[i + 2]] ELSE s[i]

\* The number of a day of the Gregorian calendar; the last of a month is the
\* one before the first of the next.
DayNumber(year, month, day) ==
    LET y == IF month <= 2 THEN year - 1 ELSE year
        m == (month + 9) % 12
    IN  365 * y + y \div 4 - y \div 100 + y \div 400 + (153 * m + 2) \div 5 + day

IsDay(year, month, day) ==
    /\ month \in 1..12 /\ day >= 1
    /\ DayNumber(year, month, day)
         < IF month = 12 THEN DayNumber(year + 1, 1, 1) ELSE DayNumber(year, month + 1, 1)

\* A leap second is the last of a UTC day.
IsTime(hour, minute, second, offset) ==
    /\ hour <= 23 /\ minute <= 59 /\ second <= 60
    /\ second = 60 => (60 * hour + minute - offset) % 1440 = 1439

\* RFC 4291: eight units, or fewer around one gap of empty pieces.
IsIPv6(pieces) ==
    LET n == Len(pieces)
        empty == {i \in 1..n : pieces[i] = <<>>}
        dotted == {i \in 1..n : "." \in ToSet(pieces[i])}
        gap == \/ empty \in {{1, 2}, {n - 1, n}} /\ n > 2
               \/ empty = {1, 2, 3} /\ n = 3
               \/ \E i \in 2..(n - 1) : empty = {i}
        units == n - Cardinality(empty) + Cardinality(dotted)
    IN  /\ \A i \in (1..n) \ (empty \union dotted) :
               Len(pieces[i]) <= 4 /\ AllIn(pieces[i], HexChars)
        /\ dotted \subseteq {n} /\ \A i \in dotted : validIPv4(pieces[i])
        /\ (empty = {} /\ units = 8) \/ (gap /\ units <= 7)

\* The positions of a pattern that are syntax: neither escaped, nor in the name
\* of a property class, nor in a class.
Syntax(s) ==
    LET run(i) == {j \in 1..(i - 1) : \A k \in j..(i - 1) : s[k] = "\\"}
        escaped(i) == Cardinality(run(i)) % 2 = 1
        named(i) == \E j \in 3..i :
                        /\ s[j] = "{" /\ s[j - 1] \in {"p", "P"} /\ escaped(j - 1)
                        /\ \A k \in j..(i - 1) : s[k] # "}"
        live == {i \in DOMAIN s : ~escaped(i) /\ ~named(i)}
        within(i) == \E j \in live : /\ j < i /\ s[j] = "["
                                     /\ \A k \in live : j < k /\ k < i => s[k] # "]"
    IN  {i \in live : ~within(i)}

\* A pattern that the filter lets through to the engine repeats at one place at
\* most, has no alternatives, and refers to no group by its number.
SafePatternRepeatsOnce(s) ==
    isSafeRegex(s) /\ validEcmaSyntaxSubset(s) =>
        /\ Cardinality({i \in Syntax(s) : s[i] \in Quantifiers}) <= 1
        /\ \A i \in Syntax(s) : s[i] # "|"
        /\ \A i \in Syntax(s) : s[i] = "\\" /\ i < Len(s) => s[i + 1] \notin DigitChars \ {"0"}
=============================================================================
