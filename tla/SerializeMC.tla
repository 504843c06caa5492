---------------------------- MODULE SerializeMC ----------------------------
(* Small values with every kind of piece, under every option.               *)
EXTENDS SerializeText

Leaf(type) == [type |-> type, size |-> 0, chars |-> <<>>, kids |-> <<>>]
Digits(n) == [Leaf("number") EXCEPT !.size = n]
String(chars) == [Leaf("string") EXCEPT !.chars = chars]
Array(values) ==
    [Leaf("array") EXCEPT !.kids = [i \in DOMAIN values |-> [key |-> <<>>, value |-> values[i]]]]
Object(members) == [Leaf("object") EXCEPT !.kids = members]
Member(key, value) == [key |-> key, value |-> value]

Deep == Array(<<Array(<<Array(<<Leaf("null")>>), Digits(1)>>), Leaf("object")>>)

Escapes == String(<<"plain", "quote", "control", "bmp", "astral">>)
Keyed ==
    Object(<<Member(<<"plain">>, Array(<<Leaf("false"), Digits(16)>>)),
             Member(<<"bmp">>, Object(<<Member(<<>>, Leaf("NaN"))>>))>>)
NonFinites == {Leaf("NaN"), Keyed, Array(<<Leaf("Infinity"), String(<<"broken">>)>>)}
Values ==
    {Leaf("null"), Leaf("array"), Digits(17), Deep, Escapes,
     Array(<<Leaf("true"), String(<<"plain", "broken">>), Leaf("Infinity")>>),
     Object(<<Member(<<"broken">>, Leaf("null"))>>)} \cup NonFinites

\* Options that do not bear on a value are left at their defaults.
Options(value) ==
    {o \in [pretty : BOOLEAN, indentWidth : {0, 2, 21}, escapeNonAscii : BOOLEAN,
            nonFinite : {"RejectNonFinite", "NonFiniteToNull", "NonFiniteToString"},
            maxOutputBytes : {0, 1, 2, 7, 11, 16, 30}] :
        /\ o.pretty \/ o.indentWidth = 2
        /\ o.escapeNonAscii => value \in {Escapes, Keyed}
        /\ o.nonFinite = "RejectNonFinite" \/ value \in NonFinites}

MCCalls ==
    UNION {[api : {"toString", "toStringError", "write", "writeError"}, value : {v},
            opts : Options(v)] : v \in Values}
=============================================================================
