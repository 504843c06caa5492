------------------------------ MODULE Pointer ------------------------------
(***************************************************************************)
(* JSON Pointer text (pjsonlib/src/pjson_pointer.cpp): decoding a pointer  *)
(* into tokens, escaping a token, and reading a token as an array index.   *)
(* Characters are one-character strings; Alphabet holds the ones with a    *)
(* role ("/", "~", digits) and at least one without.                       *)
(***************************************************************************)
EXTENDS Naturals, Sequences

CONSTANTS
    Alphabet,
    MaxPointer,   \* bound on the length of the pointers decoded
    SizeMax       \* the largest size_t

ASSUME PointerAssumption ==
    /\ {"/", "~", "0", "1"} \subseteq Alphabet
    /\ MaxPointer \in Nat /\ SizeMax \in Nat

VARIABLES
    pointer,    \* the text
    i,          \* position of the next character
    tokens,     \* tokens decoded so far
    decoded,    \* the characters of the token being decoded
    code        \* "running", "Ok", "InvalidSyntax" or "InvalidEscape"

vars == <<pointer, i, tokens, decoded, code>>

-----------------------------------------------------------------------------
(* Tokens.                                                                  *)

DigitValue == [c \in {"0", "1", "2", "3", "4", "5", "6", "7", "8", "9"} |->
    CASE c = "0" -> 0 [] c = "1" -> 1 [] c = "2" -> 2 [] c = "3" -> 3 [] c = "4" -> 4
      [] c = "5" -> 5 [] c = "6" -> 6 [] c = "7" -> 7 [] c = "8" -> 8 [] c = "9" -> 9]
Digits == DOMAIN DigitValue

escape(c) == CASE c = "~" -> <<"~", "0">> [] c = "/" -> <<"~", "1">> [] OTHER -> <<c>>

escapePointerToken(token) ==
    LET upTo[n \in 0..Len(token)] ==
            IF n = 0 THEN <<>> ELSE upTo[n - 1] \o escape(token[n])
    IN  upTo[Len(token)]

\* parsePointerIndex: the first character that is no digit, or that makes the
\* value exceed size_t, decides.
parsePointerIndex(token) ==
    LET scan[n \in 0..Len(token)] ==
            IF n = 0 THEN [status |-> "ok", value |-> 0]
            ELSE IF scan[n - 1].status # "ok" THEN scan[n - 1]
            ELSE IF token[n] \notin Digits THEN [status |-> "invalid", value |-> 0]
            ELSE IF scan[n - 1].value > (SizeMax - DigitValue[token[n]]) \div 10
            THEN [status |-> "overflow", value |-> 0]
            ELSE [status |-> "ok", value |-> scan[n - 1].value * 10 + DigitValue[token[n]]]
    IN  IF token = <<>> \/ (Len(token) > 1 /\ token[1] = "0")
        THEN [status |-> "invalid", value |-> 0]
        ELSE scan[Len(token)]

-----------------------------------------------------------------------------
(* decodePointer.                                                           *)

Fail(c) == code' = c /\ UNCHANGED <<pointer, i, tokens, decoded>>

Start ==
    /\ code = "running" /\ i = 0
    /\ \/ pointer = <<>> /\ Fail("Ok")
       \/ pointer # <<>> /\ pointer[1] # "/" /\ Fail("InvalidSyntax")
       \/ /\ pointer # <<>> /\ pointer[1] = "/"
          /\ i' = 2
          /\ UNCHANGED <<pointer, tokens, decoded, code>>

AtEnd == i > Len(pointer)
InToken == code = "running" /\ i > 0 /\ ~AtEnd /\ pointer[i] # "/"

Plain ==
    /\ InToken /\ pointer[i] # "~"
    /\ decoded' = Append(decoded, pointer[i])
    /\ i' = i + 1
    /\ UNCHANGED <<pointer, tokens, code>>

Escaped == i < Len(pointer) /\ pointer[i + 1] \in {"0", "1"}

\* Mutant: the second character of an escape is read again.
Escape_NoSkip ==
    /\ InToken /\ pointer[i] = "~"
    /\ IF Escaped
       THEN /\ decoded' = Append(decoded, IF pointer[i + 1] = "0" THEN "~" ELSE "/")
            /\ i' = i + 1
            /\ UNCHANGED <<pointer, tokens, code>>
       ELSE Fail("InvalidEscape")

Escape ==
    /\ InToken /\ pointer[i] = "~"
    /\ IF Escaped
       THEN /\ decoded' = Append(decoded, IF pointer[i + 1] = "0" THEN "~" ELSE "/")
            /\ i' = i + 2
            /\ UNCHANGED <<pointer, tokens, code>>
       ELSE Fail("InvalidEscape")

EndToken ==
    /\ code = "running" /\ i > 0 /\ ~InToken
    /\ tokens' = Append(tokens, decoded)
    /\ decoded' = <<>>
    /\ i' = i + 1
    /\ code' = IF AtEnd THEN "Ok" ELSE code
    /\ UNCHANGED pointer

Init ==
    /\ pointer \in UNION {[1..n -> Alphabet] : n \in 0..MaxPointer}
    /\ i = 0 /\ tokens = <<>> /\ decoded = <<>> /\ code = "running"

Next == Start \/ Plain \/ Escape \/ EndToken

Spec == Init /\ [][Next]_vars

-----------------------------------------------------------------------------
(* Properties.                                                              *)

Encoded(toks) ==
    LET upTo[n \in 0..Len(toks)] ==
            IF n = 0 THEN <<>> ELSE upTo[n - 1] \o <<"/">> \o escapePointerToken(toks[n])
    IN  upTo[Len(toks)]

\* Decoding loses nothing: the text decoded so far is exactly what escaping
\* the tokens writes, so distinct pointers never name the same path.
RoundTrip ==
    /\ code = "Ok" => Encoded(tokens) = pointer
    /\ code = "running" /\ i > 0 =>
        SubSeq(pointer, 1, i - 1) = Encoded(Append(tokens, decoded))

\* decodePointer rejects exactly the texts RFC 6901 does not generate.
WellFormed ==
    /\ pointer # <<>> => pointer[1] = "/"
    /\ \A n \in 1..Len(pointer) :
        pointer[n] = "~" => n < Len(pointer) /\ pointer[n + 1] \in {"0", "1"}
RejectsExactlyMalformed == code # "running" => (code = "Ok" <=> WellFormed)

\* A token is an index exactly when it is the canonical decimal of a size_t,
\* so two tokens never address the same element.
Canonical(t) ==
    /\ t # <<>> /\ \A n \in 1..Len(t) : t[n] \in Digits
    /\ Len(t) > 1 => t[1] # "0"
Decimal(t) ==
    LET upTo[n \in 0..Len(t)] == IF n = 0 THEN 0 ELSE upTo[n - 1] * 10 + DigitValue[t[n]]
    IN  upTo[Len(t)]
IndexExact ==
    \A n \in 1..Len(tokens) :
        LET t == tokens[n]
            r == parsePointerIndex(t)
        IN  IF Canonical(t) /\ Decimal(t) <= SizeMax
            THEN r = [status |-> "ok", value |-> Decimal(t)]
            ELSE r.status # "ok"
=============================================================================
