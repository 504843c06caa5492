---------------------------- MODULE JsonStrings ----------------------------
(***************************************************************************)
(* The bytes of strings: the two readers of pjsonlib/src/pjson_parser.cpp  *)
(* (decodeStringBody for the DOM, parseStringRaw for SAX), the writer of   *)
(* pjson_serialize.cpp, the UTF-8 they agree on, and the line and column   *)
(* of a byte.                                                              *)
(*                                                                         *)
(* A string is a sequence of bytes, counted from 1 (the code counts from   *)
(* 0).  A reader starts behind the opening quote; what it returns is       *)
(* [ok, out, next].                                                        *)
(***************************************************************************)
EXTENDS Integers, FiniteSets, SequencesExt, TLC

Quote == 34
Backslash == 92
LowerU == 117
Lf == 10
Cr == 13

Refused == [ok |-> FALSE, out |-> <<>>, next |-> 0]
Read(out, next) == [ok |-> TRUE, out |-> out, next |-> next]

-----------------------------------------------------------------------------
(* UTF-8.                                                                  *)

\* How many bytes a lead byte announces (0: it is none), the bits it holds, and
\* the least code point that needs so many bytes.
Lead(b) ==
    IF b \div 32 = 6 THEN [count |-> 2, bits |-> b % 32, least |-> 128]
    ELSE IF b \div 16 = 14 THEN [count |-> 3, bits |-> b % 16, least |-> 2048]
    ELSE IF b \div 8 = 30 THEN [count |-> 4, bits |-> b % 8, least |-> 65536]
    ELSE [count |-> 0, bits |-> 0, least |-> 0]

IsTail(b) == b \div 64 = 2
WithTail(point, b) == point * 64 + (b % 64)

HighSurrogates == 55296..56319
LowSurrogates == 56320..57343
Encodable(point, least) ==
    point >= least /\ point <= 1114111 /\ point \notin HighSurrogates \union LowSurrogates

CodePoint(s, i, count) ==
    IF count = 1 THEN s[i]
    ELSE FoldLeft(WithTail, Lead(s[i]).bits, SubSeq(s, i + 1, i + count - 1))

\* Mutant: an overlong encoding is taken.
Utf8Len_Overlong(s, i) ==
    LET n == IF s[i] < 128 THEN 1 ELSE Lead(s[i]).count
    IN  IF n = 0 \/ i + n - 1 > Len(s) \/ (\E k \in 1..(n - 1) : ~IsTail(s[i + k])) THEN 0
        ELSE IF n > 1 /\ ~Encodable(CodePoint(s, i, n), 0) THEN 0
        ELSE n

\* _utf8Len: the length of the sequence that starts at i, or 0.
Utf8Len(s, i) ==
    LET n == IF s[i] < 128 THEN 1 ELSE Lead(s[i]).count
    IN  IF n = 0 \/ i + n - 1 > Len(s) \/ (\E k \in 1..(n - 1) : ~IsTail(s[i + k])) THEN 0
        ELSE IF n > 1 /\ ~Encodable(CodePoint(s, i, n), Lead(s[i]).least) THEN 0
        ELSE n

\* The validator has the same function once more.
schemaUtf8Len(s, i) == Utf8Len(s, i)

\* unicodeLength: the characters minLength and maxLength count; a byte that
\* starts no sequence counts as one.
RECURSIVE unicodeLength(_)
unicodeLength(s) ==
    IF s = <<>> THEN 0
    ELSE LET n == schemaUtf8Len(s, 1)
         IN  1 + unicodeLength(SubSeq(s, (IF n > 0 THEN n ELSE 1) + 1, Len(s)))

appendUtf8(point) ==
    LET tail(k) == 128 + ((point \div 64^k) % 64)
    IN  IF point <= 127 THEN <<point>>
        ELSE IF point <= 2047 THEN <<192 + point \div 64, tail(0)>>
        ELSE IF point <= 65535 THEN <<224 + point \div 4096, tail(1), tail(0)>>
        ELSE <<240 + point \div 262144, tail(2), tail(1), tail(0)>>

-----------------------------------------------------------------------------
(* Escapes.                                                                *)

\* What follows the backslash, and what it stands for.
EscapedByte ==
    [b \in {34, 92, 47} |-> b] @@ (98 :> 8) @@ (102 :> 12) @@ (110 :> 10) @@ (114 :> 13) @@ (116 :> 9)

HexOf(b) ==
    IF b \in 48..57 THEN b - 48
    ELSE IF b \in 97..102 THEN b - 87
    ELSE IF b \in 65..70 THEN b - 55
    ELSE -1

\* The code unit that four digits from i spell, or -1.
hex4(s, i) ==
    IF \E k \in 0..3 : HexOf(s[i + k]) < 0 THEN -1
    ELSE 4096 * HexOf(s[i]) + 256 * HexOf(s[i + 1]) + 16 * HexOf(s[i + 2]) + HexOf(s[i + 3])

Paired(high, low) == 65536 + (high - 55296) * 1024 + (low - 56320)

-----------------------------------------------------------------------------
(* The DOM parser looks ahead in a buffer.                                  *)

\* The digits of \u start at i.
DomUnicode(s, i) ==
    LET unit == IF i + 3 <= Len(s) THEN hex4(s, i) ELSE -1
        low == IF i + 9 <= Len(s) /\ s[i + 4] = Backslash /\ s[i + 5] = LowerU
               THEN hex4(s, i + 6) ELSE -1
    IN  IF unit = -1 \/ unit \in LowSurrogates THEN Refused
        ELSE IF unit \notin HighSurrogates THEN Read(appendUtf8(unit), i + 4)
        ELSE IF low \in LowSurrogates THEN Read(appendUtf8(Paired(unit, low)), i + 10)
        ELSE Refused

DomCharacter(s, i) ==
    IF s[i] = Backslash
    THEN IF i = Len(s) THEN Refused
         ELSE IF s[i + 1] = LowerU THEN DomUnicode(s, i + 2)
         ELSE IF s[i + 1] \in DOMAIN EscapedByte THEN Read(<<EscapedByte[s[i + 1]]>>, i + 2)
         ELSE Refused
    ELSE IF s[i] < 32 \/ Utf8Len(s, i) = 0 THEN Refused
    ELSE Read(SubSeq(s, i, i + Utf8Len(s, i) - 1), i + Utf8Len(s, i))

RECURSIVE decodeStringBody(_, _, _)
decodeStringBody(s, i, out) ==
    IF i > Len(s) THEN Refused
    ELSE IF s[i] = Quote THEN Read(out, i + 1)
    ELSE LET character == DomCharacter(s, i)
         IN  IF ~character.ok THEN Refused
             ELSE decodeStringBody(s, character.next, out \o character.out)

-----------------------------------------------------------------------------
(* The SAX parser takes one byte after the other; what it has taken cannot  *)
(* be looked at again.                                                      *)

Taken(s, i) == IF i <= Len(s) THEN s[i] ELSE -1

RECURSIVE readHex4(_, _, _, _)
readHex4(s, i, left, unit) ==
    IF left = 0 THEN [unit |-> unit, next |-> i]
    ELSE IF HexOf(Taken(s, i)) < 0 THEN [unit |-> -1, next |-> i]
    ELSE readHex4(s, i + 1, left - 1, 16 * unit + HexOf(Taken(s, i)))

\* The low half: its four bytes are taken before they are decoded.
LowUnit(s, i) ==
    IF \E k \in 0..3 : Taken(s, i + k) = -1 THEN -1 ELSE hex4(s, i)

SaxUnicode(s, i) ==
    LET first == readHex4(s, i, 4, 0)
        escaped == Taken(s, first.next) = Backslash /\ Taken(s, first.next + 1) = LowerU
        low == LowUnit(s, first.next + 2)
    IN  IF first.unit = -1 THEN Refused
        ELSE IF first.unit \in HighSurrogates
        THEN IF escaped /\ low \in LowSurrogates
             THEN Read(appendUtf8(Paired(first.unit, low)), first.next + 6)
             ELSE Refused
        ELSE IF first.unit \in LowSurrogates THEN Refused
        ELSE Read(appendUtf8(first.unit), first.next)

\* The bytes behind a lead byte, one at a time: <<code point, next>>, or Refused's.
RECURSIVE Tails(_, _, _, _)
Tails(s, i, need, point) ==
    IF need = 0 THEN <<point, i>>
    ELSE IF Taken(s, i) = -1 \/ ~IsTail(Taken(s, i)) THEN <<-1, 0>>
    ELSE Tails(s, i + 1, need - 1, WithTail(point, s[i]))

consumeUtf8Tail(s, i) ==
    LET lead == Lead(s[i])
        tails == Tails(s, i + 1, lead.count - 1, lead.bits)
    IN  IF lead.count = 0 \/ ~Encodable(tails[1], lead.least) THEN Refused
        ELSE Read(SubSeq(s, i, tails[2] - 1), tails[2])

SaxCharacter(s, i) ==
    IF s[i] = Backslash
    THEN IF Taken(s, i + 1) = LowerU THEN SaxUnicode(s, i + 2)
         ELSE IF Taken(s, i + 1) \in DOMAIN EscapedByte THEN Read(<<EscapedByte[s[i + 1]]>>, i + 2)
         ELSE Refused
    ELSE IF s[i] < 32 THEN Refused
    ELSE IF s[i] >= 128 THEN consumeUtf8Tail(s, i)
    ELSE Read(<<s[i]>>, i + 1)

RECURSIVE parseStringRaw(_, _, _)
parseStringRaw(s, i, out) ==
    IF Taken(s, i) = -1 THEN Refused
    ELSE IF s[i] = Quote THEN Read(out, i + 1)
    ELSE LET character == SaxCharacter(s, i)
         IN  IF ~character.ok THEN Refused
             ELSE parseStringRaw(s, character.next, out \o character.out)

-----------------------------------------------------------------------------
(* The writer.                                                             *)

HexDigits == <<48, 49, 50, 51, 52, 53, 54, 55, 56, 57, 97, 98, 99, 100, 101, 102>>
writeUnicodeEscape(unit) ==
    <<Backslash, LowerU>> \o [k \in 1..4 |-> HexDigits[((unit \div 16^(4 - k)) % 16) + 1]]

Short == [b \in {8, 9, 10, 12, 13, 34, 92} |-> CHOOSE e \in DOMAIN EscapedByte : EscapedByte[e] = b]

EscapedPoint(point) ==
    IF point <= 65535 THEN writeUnicodeEscape(point)
    ELSE writeUnicodeEscape(55296 + (point - 65536) \div 1024)
         \o writeUnicodeEscape(56320 + ((point - 65536) % 1024))

\* The text of the character of n bytes at i.
WrittenCharacter(s, i, n, escapeNonAscii) ==
    IF s[i] \in DOMAIN Short THEN <<Backslash, Short[s[i]]>>
    ELSE IF s[i] < 32 THEN writeUnicodeEscape(s[i])
    ELSE IF s[i] < 128 \/ ~escapeNonAscii THEN SubSeq(s, i, i + n - 1)
    ELSE EscapedPoint(CodePoint(s, i, n))

\* _writeEscapedTo: next is 0 when the string is refused (invalidUtf8).
RECURSIVE WriteEscapedTo(_, _, _, _)
WriteEscapedTo(s, i, escapeNonAscii, out) ==
    IF i > Len(s) THEN Read(out, i)
    ELSE LET n == Utf8Len(s, i)
         IN  IF n = 0 THEN Refused
             ELSE WriteEscapedTo(s, i + n, escapeNonAscii,
                                 out \o WrittenCharacter(s, i, n, escapeNonAscii))

-----------------------------------------------------------------------------
(* Lines and columns.                                                      *)

\* lineAndColumn: of the byte at a zero-based offset, from the buffer.
RECURSIVE Coordinates(_, _, _, _, _)
Coordinates(s, i, end, line, column) ==
    IF i > end THEN <<line, column>>
    ELSE IF s[i] = Cr
    THEN Coordinates(s, IF i + 1 <= end /\ s[i + 1] = Lf THEN i + 2 ELSE i + 1, end, line + 1, 1)
    ELSE IF s[i] = Lf THEN Coordinates(s, i + 1, end, line + 1, 1)
    ELSE Coordinates(s, i + 1, end, line, column + 1)

lineAndColumn(s, offset) ==
    Coordinates(s, 1, IF offset < Len(s) THEN offset ELSE Len(s), 1, 1)

\* The cursors of the SAX parser count as they go.
CursorStart == [line |-> 1, column |-> 1, prevWasCR |-> FALSE]
advance(cursor, b) ==
    IF b = Cr THEN [line |-> cursor.line + 1, column |-> 1, prevWasCR |-> TRUE]
    ELSE IF b = Lf
    THEN IF cursor.prevWasCR THEN [cursor EXCEPT !.prevWasCR = FALSE]
         ELSE [line |-> cursor.line + 1, column |-> 1, prevWasCR |-> FALSE]
    ELSE [cursor EXCEPT !.column = @ + 1, !.prevWasCR = FALSE]

\* BufferSaxCursor::get and StreamSaxCursor::get, up to a position.
CursorAt(s, position) == FoldLeft(advance, CursorStart, SubSeq(s, 1, position))

-----------------------------------------------------------------------------
(* What the standards say.                                                 *)

\* The well-formed byte sequences of the Unicode standard, table 3-7.
IsCharacter(b) ==
    \/ Len(b) = 1 /\ b[1] \in 0..127
    \/ Len(b) = 2 /\ b[1] \in 194..223 /\ b[2] \in 128..191
    \/ /\ Len(b) = 3 /\ b[3] \in 128..191
       /\ \/ b[1] = 224 /\ b[2] \in 160..191
          \/ b[1] \in (225..236) \union {238, 239} /\ b[2] \in 128..191
          \/ b[1] = 237 /\ b[2] \in 128..159
    \/ /\ Len(b) = 4 /\ b[3] \in 128..191 /\ b[4] \in 128..191
       /\ \/ b[1] = 240 /\ b[2] \in 144..191
          \/ b[1] \in 241..243 /\ b[2] \in 128..191
          \/ b[1] = 244 /\ b[2] \in 128..143

Prefix(s, n) == SubSeq(s, 1, n)

\* At most one prefix of a sequence of bytes is a character.
FirstCharacter(s) ==
    LET lengths == {n \in 1..4 : n <= Len(s) /\ IsCharacter(Prefix(s, n))}
    IN  IF lengths = {} THEN 0 ELSE CHOOSE n \in lengths : TRUE

\* A character of a string as RFC 8259 spells it; the halves of a surrogate
\* pair come together.
IsUnit(b) == Len(b) = 6 /\ b[1] = Backslash /\ b[2] = LowerU /\ hex4(b, 3) >= 0
Spells(b) ==
    \/ b[1] \notin {Quote, Backslash} /\ b[1] >= 32 /\ IsCharacter(b)
    \/ Len(b) = 2 /\ b[1] = Backslash /\ b[2] \in {34, 92, 47, 98, 102, 110, 114, 116}
    \/ IsUnit(b) /\ hex4(b, 3) \notin 55296..57343
    \/ /\ Len(b) = 12 /\ IsUnit(Prefix(b, 6)) /\ IsUnit(SubSeq(b, 7, 12))
       /\ hex4(b, 3) \in HighSurrogates /\ hex4(b, 9) \in LowSurrogates

RECURSIVE IsBody(_)
IsBody(s) ==
    \/ s = <<>>
    \/ \E n \in {1, 2, 3, 4, 6, 12} :
          n <= Len(s) /\ Spells(Prefix(s, n)) /\ IsBody(SubSeq(s, n + 1, Len(s)))

\* Both readers take exactly the strings of RFC 8259, stop behind the same
\* quote with the same bytes, and read back what the writer makes of them.
ReadExactlyJson(s) ==
    LET dom == decodeStringBody(s, 1, <<>>)
        sax == parseStringRaw(s, 1, <<>>)
        accepted == \E n \in 1..Len(s) : s[n] = Quote /\ IsBody(Prefix(s, n - 1))
    IN  /\ dom = sax
        /\ dom.ok = accepted
        /\ dom.ok => s[dom.next - 1] = Quote /\ IsBody(Prefix(s, dom.next - 2))
        /\ dom.ok => \A ascii \in BOOLEAN :
              LET text == WriteEscapedTo(dom.out, 1, ascii, <<>>)
              IN  text.ok /\ decodeStringBody(Append(text.out, Quote), 1, <<>>).out = dom.out

\* A string of code points is written, in either way, as a text that both
\* readers read back, with no control byte and, when asked for, no byte above
\* 127; its length is the number of code points.
WrittenExactly(points, escapeNonAscii) ==
    LET bytes == FoldLeft(LAMBDA s, point : s \o appendUtf8(point), <<>>, points)
        text == WriteEscapedTo(bytes, 1, escapeNonAscii, <<>>)
    IN  /\ text.ok
        /\ \A k \in DOMAIN text.out :
              text.out[k] >= 32 /\ (escapeNonAscii => text.out[k] < 128)
        /\ decodeStringBody(Append(text.out, Quote), 1, <<>>) = Read(bytes, Len(text.out) + 2)
        /\ parseStringRaw(Append(text.out, Quote), 1, <<>>) = Read(bytes, Len(text.out) + 2)
        /\ unicodeLength(bytes) = Len(points)

\* The three ways to count lines agree at every byte.
CountedExactly(s) ==
    \A offset \in 0..Len(s) :
        LET ends == {k \in 1..offset : s[k] = Cr \/ (s[k] = Lf /\ ~(k > 1 /\ s[k - 1] = Cr))}
            breaks == {k \in 1..offset : s[k] \in {Cr, Lf}} \union {0}
            last == CHOOSE k \in breaks : \A j \in breaks : j <= k
            cursor == CursorAt(s, offset)
        IN  /\ lineAndColumn(s, offset) = <<Cardinality(ends) + 1, offset - last + 1>>
            /\ <<cursor.line, cursor.column>> = lineAndColumn(s, offset)
=============================================================================
