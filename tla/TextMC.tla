------------------------------- MODULE TextMC -------------------------------
(***************************************************************************)
(* Texts, numbers and parser objects for TLC: every pointer up to          *)
(* MaxPointer characters is decoded character by character and followed in *)
(* some documents; a sample of references, fragments, formatted strings,   *)
(* JSON strings, number tokens, numbers and values is one state each; and  *)
(* parsers are made, copied, moved, assigned and destroyed.                *)
(***************************************************************************)
EXTENDS Lookup, SchemaText, JsonNumbers, JsonStrings, ObjectHash, ParserObject

CONSTANTS MaxReference, MaxFragment, MaxPattern,   \* bounds on the length of the texts
          MaxPieces, MaxPoints, MaxLines, MaxToken

VARIABLE sample    \* what is tried, or Nothing while a pointer is decoded

Nothing == [kind |-> "nothing"]

Texts(C, n) == UNION {[1..k -> C] : k \in 0..n}

-----------------------------------------------------------------------------
(* References and fragments.                                                *)

Prefixed(prefix, path) == [prefix |-> prefix, path |-> path]
Authority == <<"h", ":", "/", "/", "a">>
Bases == {Prefixed(Authority, <<"/", "a", "/", "b", "?", "a", "/", "b">>),
          Prefixed(Authority, <<"/", "b", "/">>)}
OtherBases == {<<>>, <<"h", ":">>, <<"h", ":", "a", "/", "b">>, Authority, <<"a", "/", "b", "#", "a">>}

ReferenceChars == {"a", ":", "/", ".", "#", "?"}
\* The characters that open or close what a reference is taken apart by.
Dotted == {<<"a">>, <<".">>, Dots, <<"b">>}
DottedPaths ==
    {<<"/">> \o p \o <<"/">> \o q \o <<"/">> \o r : p, q, r \in Dotted}
    \union {p \o <<"/">> \o q \o <<"/">> \o r \o t : p, q, r \in Dotted, t \in {<<>>, <<"/">>, <<"?", "/", "a">>}}

References == Texts(ReferenceChars, MaxReference) \union DottedPaths
Fragments == Texts({"%", "4", "1", "a", "g"}, MaxFragment)

-----------------------------------------------------------------------------
(* Formatted strings.                                                       *)

Two(n) == <<Character[(n \div 10) + 1], Character[(n % 10) + 1]>>
Four(n) == Two(n \div 100) \o Two(n % 100)
DateText(y, m, d) == Four(y) \o <<"-">> \o Two(m) \o <<"-">> \o Two(d)
TimeText(h, m, s, rest) == Two(h) \o <<":">> \o Two(m) \o <<":">> \o Two(s) \o rest

\* A zone as text, with its offset in minutes.
Zones ==
    {<<<<"Z">>, 0>>, <<<<"z">>, 0>>}
    \union {<<<<IF o < 0 THEN "-" ELSE "+">> \o Two(Abs(o) \div 60) \o <<":">> \o Two(Abs(o) % 60), o>> :
            o \in {-1439, -61, -1, 0, 1, 60, 719, 1439}}
BadZones == {<<>>, <<"+", "0", "0", ":", "6", "0">>, <<"+", "2", "4", ":", "0", "0">>,
             <<"+", "0", "1", "0", "0">>, <<"Z", "0">>, <<"-", "0", ":", "0", "0", "0">>}
Fractions == {<<>>, <<".", "5">>, <<".", "0", "1">>}

Joined(pieces, separator) ==
    FoldLeft(LAMBDA text, piece : text \o <<separator>> \o piece, Head(pieces), Tail(pieces))

Groups == {<<>>, <<"f">>, <<"1", ".", "2", ".", "0", ".", "9">>}
OddGroups == {<<"F", "a", "0", "1">>, <<"0", "0", "0", "0", "1">>, <<"g">>, <<"1", ".", "2">>}
GroupLists ==
    UNION {[1..n -> Groups] : n \in 1..8}
    \union {<<<<>>, <<>>>> \o [k \in 1..n |-> <<"f">>] \o <<g>> : n \in 0..7, g \in Groups \union OddGroups}
    \union {[k \in 1..9 |-> IF k \in gaps THEN <<>> ELSE <<"f">>] : gaps \in SUBSET (1..9)}
    \union {[k \in 1..n |-> IF k = m THEN g ELSE <<"f">>] : n \in {7, 8}, m \in 1..8, g \in OddGroups}

PatternChars == {"a", "(", ")", "[", "]", "*", "{", "|", "\\", "1", "p", "}"}
Patterns_ == Texts(PatternChars, MaxPattern)
             \union {<<"a", "{">> \o c \o <<",">> \o d \o <<"}">> : c, d \in {<<>>, Four(1000), Four(1001)}}
             \union {<<"\\", "p", "{", "x", "}">> \o t : t \in Texts({"*", "a", "[", "]"}, 3)}

Octets == {<<"0">>, <<"2", "5", "5">>, <<"2", "5", "6">>, <<"0", "1">>, <<>>, <<"a">>}
IsOctet(o) == o \in {<<"0">>, <<"2", "5", "5">>}

UuidText(lengths, c) ==
    Joined([k \in DOMAIN lengths |-> [j \in 1..lengths[k] |-> IF j = lengths[k] THEN c ELSE "0"]], "-")

-----------------------------------------------------------------------------
(* Numbers and values.                                                      *)

\* The multiples of 1/Scale that Precision bits hold, up to twice the largest
\* integer.
Representable(q) ==
    \E e \in 0..(IntBits + 3) : q % 2^e = 0 /\ q \div 2^e < 2^Precision
Multiples == {q \in 0..(Scale * 2 * (UIntMax + 1)) : Representable(q)}
Edges == {0, 1, 2, 3, 5, 10, IntMax - 1, IntMax, 2^Precision, 2^Precision + 1, 20}
SomeNumbers ==
    {Int_(v) : v \in Edges} \union {Int_(-v) : v \in Edges \union {IntMax + 1}}
    \union {UInt_(v) : v \in Edges \union {IntMax + 1, IntMax + 2, UIntMax - 1, UIntMax}}
    \union {Double_(q) : q \in Multiples} \union {Double_(-q) : q \in Multiples}
    \union {NaN, Double_(Infinite), Double_(-Infinite)}
Some3 == {Int_(2^Precision + 1), UInt_(2^Precision + 1), ToDouble(2^Precision + 1), NaN}
Container(t, v) == [t |-> t, v |-> v]
SomeValues ==
    {Container("string", s) : s \in {<<>>, <<"a">>, <<"b", "b">>}} \union {Null, Container("bool", TRUE)}
    \union {Container("array", s) : s \in {<<>>} \union {<<x>> : x \in Some3}}
    \union {Container("array", <<x, y>>) : x \in Some3, y \in Some3}
    \union {Container("object", [k \in K |-> x]) : K \in SUBSET {<<"a">>, <<"b", "b">>}, x \in Some3}
    \union {Container("array", <<Container("object", <<"a">> :> x)>>) : x \in Some3}

\* Documents for pointers: names that need escapes, that are empty or look like
\* an index, and arrays in arrays.
Documents ==
    LET leaf == Int_(1)
        list == Container("array", <<leaf, Container("array", <<Null>>), Container("object", <<>> :> leaf)>>)
    IN  {leaf, list,
         Container("object", <<"a">> :> list @@ <<"0">> :> Container("object", <<"~">> :> list)
                             @@ <<"/">> :> leaf @@ <<"1", "/">> :> Null @@ <<"~", "1">> :> NaN
                             @@ <<>> :> Container("object", <<>> :> list)),
         Container("array", <<list, Null>>)}

Some4 == {-(IntMax + 1), -1, 0, 1, IntMax, IntMax + 1, UIntMax}
Fitting(kind) ==
    {v \in Some4 : CASE kind = "signed" -> v <= IntMax
                     [] kind = "unsigned" -> v >= 0
                     [] OTHER -> Representable(Abs(v))}

\* Tokens at the ends of every range, and the digits of doubles.
Wholes == {DecimalText(v) : v \in {0, 1, 7, IntMax, IntMax + 1, UIntMax, UIntMax + 1, 100, 255, 960, 990, 1000}}
Parts == {<<>>} \union {<<".">> \o t : t \in {<<"0">>, <<"1">>, <<"2", "5">>, <<"0", "0", "1">>, <<"0", "0", "0", "4">>}}
Powers == {<<>>} \union {<<"e">> \o s \o DecimalText(v) : s \in {<<>>, <<"+">>, <<"-">>},
                        v \in {0, 1, 2, 3, 9, KExponentCap - 1, KExponentCap, KExponentCap + 1, 99}}
Tokens == {s \o w \o p \o e : s \in {<<>>, <<"-">>}, w \in Wholes, p \in Parts, e \in Powers}

-----------------------------------------------------------------------------
(* Bytes.                                                                   *)

LeadBytes == {0, 31, 65, 127, 128, 191, 192, 193, 194, 223, 224, 225, 236, 237, 238, 239, 240, 241,
              243, 244, 245, 247, 248, 255}
TailBytes == {65, 127, 128, 143, 144, 159, 160, 191, 192, 255}
\* The ends of every range of code points.
Points == {0, 8, 10, 31, 32, 34, 47, 92, 127, 128, 2047, 2048, 55295, 57344, 65535, 65536, 1114111}
\* What a string can be cut into in a wrong place: a quote, a backslash, u, n,
\* \u, high and low halves, another escape, two digits, a control byte, the
\* first and the second of two bytes, three of four.
Pieces == {<<34>>, <<92>>, <<117>>, <<110>>, <<92, 117>>,
           <<92, 117, 68, 56, 48, 48>>, <<92, 117, 100, 66, 102, 70>>, <<92, 117, 68, 67, 48, 48>>,
           <<92, 117, 48, 48, 101, 57>>, <<48, 48>>, <<31>>, <<195>>, <<169>>, <<240, 144, 128>>}

-----------------------------------------------------------------------------

Samples ==
    \/ \E b \in Bases, r \in References :
           sample = [kind |-> "resolve", prefix |-> b.prefix, path |-> b.path, reference |-> r]
    \/ \E b \in OtherBases, r \in References :
           sample = [kind |-> "reference", base |-> b, reference |-> r]
    \/ \E s \in Fragments : sample = [kind |-> "fragment", text |-> s]
    \/ \E y \in {0, 1900, 2000, 2023, 2024, 9999}, m \in 0..13, d \in {0, 1, 28, 29, 30, 31, 32} :
           sample = [kind |-> "date", year |-> y, month |-> m, day |-> d]
    \/ \E h \in {0, 12, 22, 23, 24}, m \in {0, 58, 59, 60}, s \in {0, 59, 60, 61} :
           \/ \E f \in Fractions, z \in Zones :
                  sample = [kind |-> "time", hour |-> h, minute |-> m, second |-> s,
                            rest |-> f \o z[1], good |-> TRUE, offset |-> z[2]]
           \/ \E f \in Fractions \union {<<".">>}, z \in BadZones \union {<<"Z">>} :
                  /\ f = <<".">> \/ z \in BadZones
                  /\ sample = [kind |-> "time", hour |-> h, minute |-> m, second |-> s,
                               rest |-> f \o z, good |-> FALSE, offset |-> 0]
    \/ \E s \in Patterns_ : sample = [kind |-> "pattern", text |-> s]
    \/ \E g \in GroupLists : sample = [kind |-> "ipv6", pieces |-> g]
    \/ \E n \in 3..5 : \E o \in [1..n -> Octets] : sample = [kind |-> "ipv4", pieces |-> o]
    \/ \E l \in {<<8, 4, 4, 4, 12>>, <<8, 4, 4, 5, 11>>, <<8, 4, 4, 4, 13>>, <<8, 4, 4, 16>>},
          c \in {"a", "F", "g", "x"} :
           sample = [kind |-> "uuid", lengths |-> l, last |-> c]
    \/ \E l, r \in SomeNumbers : sample = [kind |-> "numbers", left |-> l, right |-> r]
    \/ \E l, r \in SomeValues : sample = [kind |-> "values", left |-> l, right |-> r]
    \/ \E d \in SomeValues \union Documents : sample = [kind |-> "read", value |-> d]
    \/ \E k, o \in Kinds : \E v, w \in Fitting(k) \cap Fitting(o) :
           sample = [kind |-> "natives", first |-> k, second |-> o, vector |-> <<v, w>>]
    \/ \E s \in Texts({"-", "0", "1", ".", "e", "+"}, MaxToken) : sample = [kind |-> "scan", text |-> s]
    \/ \E s \in Tokens : sample = [kind |-> "token", text |-> s]
    \/ \E n \in {n \in SomeNumbers : isInteger(n) \/ isfinite(n)} : sample = [kind |-> "stored", number |-> n]
    \/ \E n \in BOOLEAN, d \in {1, 15, 105, 1234}, e \in -6..(Digits10 + 2) :
           sample = [kind |-> "digits", negative |-> n, digits |-> DecimalText(d), exponent |-> e]
    \/ \E b \in LeadBytes, t \in Texts(TailBytes, 3) : sample = [kind |-> "utf8", bytes |-> <<b>> \o t]
    \/ \E p \in Texts(Pieces, MaxPieces) : sample = [kind |-> "string", bytes |-> Append(FlattenSeq(p), 34)]
    \/ \E p \in Texts(Points, MaxPoints) : sample = [kind |-> "points", points |-> p]
    \/ \E v \in Published : sample = [kind |-> "name", vector |-> v]
    \/ \E t \in Texts({Cr, Lf, 65}, MaxLines) : sample = [kind |-> "lines", bytes |-> t]

\* Parsers start to live when no pointer is decoded and nothing else is tried.
ParsersOnly == [kind |-> "parsers"]

MCInit ==
    /\ ObjectInit
    /\ \/ Init /\ sample = Nothing
       \/ /\ pointer = <<>> /\ i = 0 /\ tokens = <<>> /\ decoded = <<>> /\ code = "Ok"
          /\ Samples \/ sample = ParsersOnly

MCNext ==
    \/ Next /\ UNCHANGED <<sample, objectVars>>
    \/ sample = ParsersOnly /\ ObjectNext /\ UNCHANGED <<sample, vars>>
MCSpec == MCInit /\ [][MCNext]_<<vars, sample, objectVars>>

-----------------------------------------------------------------------------
(* Properties.                                                              *)

\* A reference is resolved as RFC 3986 resolves it, a fragment is decoded byte
\* by byte or refused, and the document of a reference is the same with and
\* without its fragment: the compiler asks the resolver for the very document
\* the validator looks up later (pjson_schema_uri.cpp).
\* A format admits exactly the strings that name a day of the calendar, a time
\* with a leap second only at the end of a UTC day, an address of four octets
\* or of eight units with at most one gap, a UUID (pjson_schema_format.cpp); and
\* the safety filter lets no pattern through that repeats in two places
\* (pjson_schema_value.cpp, isSafeRegex).
TextsExact ==
    /\ sample.kind = "resolve" =>
          /\ ResolvesLikeRfc3986(sample.prefix, sample.path, sample.reference)
          /\ FragmentKept(sample.prefix \o sample.path, sample.reference)
    /\ sample.kind = "reference" => FragmentKept(sample.base, sample.reference)
    /\ sample.kind = "fragment" => DecodesExactly(sample.text)
    /\ sample.kind = "pattern" => SafePatternRepeatsOnce(sample.text)
    /\ sample.kind = "date" =>
          /\ knownFormatValid("date", DateText(sample.year, sample.month, sample.day))
                = IsDay(sample.year, sample.month, sample.day)
          /\ knownFormatValid("date-time", DateText(sample.year, sample.month, sample.day)
                                           \o <<"T">> \o TimeText(0, 0, 0, <<"Z">>))
                = IsDay(sample.year, sample.month, sample.day)
    /\ sample.kind = "time" =>
          knownFormatValid("time", TimeText(sample.hour, sample.minute, sample.second, sample.rest))
             = (sample.good /\ IsTime(sample.hour, sample.minute, sample.second, sample.offset))
    /\ sample.kind = "ipv4" =>
          knownFormatValid("ipv4", Joined(sample.pieces, "."))
             = (Len(sample.pieces) = 4 /\ \A k \in 1..4 : IsOctet(sample.pieces[k]))
    /\ sample.kind = "ipv6" =>
          knownFormatValid("ipv6", Joined(sample.pieces, ":")) = IsIPv6(sample.pieces)
    /\ sample.kind = "uuid" =>
          knownFormatValid("uuid", UuidText(sample.lengths, sample.last))
             = (sample.lengths = <<8, 4, 4, 4, 12>> /\ sample.last \in HexChars)

\* A byte sequence is a character exactly when Unicode says so; both parsers take
\* the strings of RFC 8259, and no others, for the same bytes; what the writer
\* makes of a string, with or without escapes for what is not ASCII, is read
\* back as that string; the three counts of lines and columns agree; and a
\* name is hashed by SipHash-2-4 (pjson.cpp, _utf8Len, ObjectHash;
\* pjson_parser.cpp; pjson_serialize.cpp, _writeEscapedTo).
StringsExact ==
    /\ sample.kind = "utf8" => Utf8Len(sample.bytes, 1) = FirstCharacter(sample.bytes)
    /\ sample.kind = "string" => ReadExactlyJson(sample.bytes)
    /\ sample.kind = "points" => \A ascii \in BOOLEAN : WrittenExactly(sample.points, ascii)
    /\ sample.kind = "name" => HashedAsPublished(sample.vector)
    /\ sample.kind = "lines" => CountedExactly(sample.bytes)

\* Tokens and texts correspond one to one; a pointer reaches the value its tokens
\* name or blames the first token that names none; and every other way of
\* reading a document reaches the same values (pjson_pointer.cpp, findPointer;
\* pjson.cpp, find, at, tryGet, forEachMember, forEachElement).
PointersExact ==
    /\ RoundTrip /\ RejectsExactlyMalformed /\ IndexExact
    /\ sample = Nothing /\ code = "Ok" => \A d \in Documents : FindsExactly(d)
    /\ sample.kind = "read" => ReadsAgree(sample.value)

\* A number token is the longest there is, and becomes the integer it spells or
\* the double nearest to it, or is rejected; what is stored is written as a
\* token that is read back the same (pjson_parser.cpp, scanJsonNumber,
\* convertNumberToken; pjson_serialize.cpp, _formatDouble).  Numbers are
\* compared, read as limits and divided by their exact values, whatever they are
\* stored as: equality is an equivalence, also deep inside documents, and no
\* integer is rounded on the way; the test of JSON Patch has the same verdict or
\* runs out of its budget (pjson.cpp, _compareNumbers; pjson_schema_value.cpp;
\* pjson_patch.cpp, patchEqual).
NumbersExact ==
    /\ sample.kind = "scan" => ScannedExactly(sample.text)
    /\ sample.kind = "token" => ConvertedExactly(sample.text)
    /\ sample.kind = "stored" => ReadBack(sample.number)
    /\ sample.kind = "digits" => FormattedExactly(sample.negative, sample.digits, sample.exponent)
    /\ sample.kind = "natives" => KeepsNatives(sample.first, sample.second, sample.vector)
    /\ sample.kind = "numbers" =>
          /\ ComparedExactly(sample.left, sample.right)
          /\ DividedExactly(sample.left, sample.right)
          /\ ReadExactly(sample.left)
    /\ sample.kind \in {"numbers", "values"} =>
          equals(sample.left, sample.right) = SameValue(sample.left, sample.right)
    /\ sample.kind = "values" => TestsExactly(sample.left, sample.right)
=============================================================================
