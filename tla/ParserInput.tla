---------------------------- MODULE ParserInput ----------------------------
(***************************************************************************)
(* What the two parsers of pjsonlib/src/pjson_parser.cpp share: the        *)
(* options, the text they read and the grammar of containers.              *)
(*                                                                         *)
(* A text is a sequence of lexemes, and becomes known as it is read: the   *)
(* next lexeme is chosen when a parser looks at it.  What the input turns  *)
(* out to be is chosen at the start (supply): "whole", it ends within      *)
(* maxInputBytes; "over", it is longer than that; "broken", the stream     *)
(* fails within them.  The last lexeme may be cut short by the end.        *)
(***************************************************************************)
EXTENDS Integers, Sequences, SequencesExt

CONSTANTS
    Configurations, \* the Options of a parser
    DepthHardLimit, \* the depth no option can exceed
    Lexemes,        \* [kind, val, gap, bytes, fault]: gap bytes of white space,
                    \* then what each byte is
    MaxLexemes      \* bound: lexemes of a text that is not over the limit

\* What a byte is to the code that reads it: the first of a value or a name, a
\* character or an escape in a string, the end of something, and so on.
ByteKinds == {"open", "plain", "escape", "close", "colon", "letter", "digit"}

ASSUME ParserAssumption ==
    /\ DepthHardLimit \in Nat \ {0}
    /\ \A o \in Configurations : /\ o.maxDepth \in Int
                                 /\ o.maxNodes \in Nat /\ o.maxInputBytes \in Nat
    /\ \A x \in Lexemes : x.gap \in Nat /\ x.bytes \in Seq(ByteKinds) /\ x.bytes # <<>>

VARIABLES
    options,    \* the Options of the call
    source,     \* "buffer" or "stream"
    supply,     \* "whole", "over" or "broken"
    text,       \* the lexemes known so far, with `have`, the bytes that exist
    size,       \* bytes known so far
    ended       \* nothing follows the text

input == <<options, source, supply, text, size, ended>>

InputInit ==
    /\ options \in Configurations
    /\ source \in {"buffer", "stream"}
    /\ supply \in {"whole", "over", "broken"}
    /\ supply = "over" => options.maxInputBytes # 0
    /\ supply = "broken" => source = "stream"
    /\ text = <<>> /\ size = 0 /\ ended = FALSE

\* The input has the length that its supply says.
Fits(bytes, end) ==
    IF supply = "over" THEN end => bytes > options.maxInputBytes
    ELSE options.maxInputBytes = 0 \/ bytes <= options.maxInputBytes

\* Two numbers next to each other would be one.
Adjoins(x) ==
    x.gap = 0 /\ x.kind = "number" /\ text # <<>> /\ Last(text).kind = "number"

Existing(x, have) ==
    [kind |-> x.kind, val |-> x.val, gap |-> x.gap, bytes |-> x.bytes, fault |-> x.fault,
     have |-> have]

Arrives(x, have) ==
    /\ Len(text) < MaxLexemes \/ supply = "over"
    /\ ~Adjoins(x)
    /\ size' = size + x.gap + have
    /\ ended' = (have < Len(x.bytes))
    /\ Fits(size', ended')
    /\ text' = Append(text, Existing(x, have))

Ends ==
    /\ Fits(size, TRUE)
    /\ ended' = TRUE
    /\ UNCHANGED <<size, text>>

\* The input yields what follows.
Supply ==
    /\ ~ended
    /\ \/ \E x \in Lexemes : \E have \in 1..Len(x.bytes) : Arrives(x, have)
       \/ Ends
    /\ UNCHANGED <<options, source, supply>>

Known(at) == at <= Len(text) \/ ended

-----------------------------------------------------------------------------
(* The options.                                                            *)
clampParseDepth(configured) ==
    IF configured <= 0 THEN 1
    ELSE IF configured < DepthHardLimit THEN configured ELSE DepthHardLimit

EffectiveDepth == clampParseDepth(options.maxDepth)

\* Mutant: one value too many.
NodesSpent_Late(nodes) == options.maxNodes # 0 /\ nodes > options.maxNodes

NodesSpent(nodes) == options.maxNodes # 0 /\ nodes >= options.maxNodes

\* convertNumberToken
Unrepresentable(x) ==
    \/ x.fault = "overflow"
    \/ x.fault = "inexact" /\ options.numberPolicy # "AllowLossyNumbers"

-----------------------------------------------------------------------------
(* A parser p in the middle of a text: p.pc is "value" when a value has to *)
(* follow, "frame" in the loop of the innermost open container, "colon"    *)
(* after a member name.                                                    *)
Scalars == {"string", "number", "literal"}
Openers == {"[", "{"}
Closer(kind) == IF kind = "[" THEN "]" ELSE "}"

Peek(p) == IF p.at <= Len(text) THEN text[p.at].kind ELSE "end"
Here(p) == text[p.at]
Inner(p) == p.frames[Len(p.frames)]

NeedsComma(f) == f.any /\ ~f.expect
AwaitsValue(p) ==
    \/ p.pc = "value"
    \/ p.pc = "frame" /\ Inner(p).kind = "[" /\ ~NeedsComma(Inner(p))
AwaitsName(p) == p.pc = "frame" /\ Inner(p).kind = "{" /\ ~NeedsComma(Inner(p))
MayComma(f) == NeedsComma(f)

\* Mutant: a comma may stand before the end of a container.
MayClose_Any(f) == f.kind \in Openers

MayClose(f) == ~f.expect

\* What may come next; anything else is a syntax error.
Expected(p) ==
    \/ AwaitsValue(p) /\ Peek(p) \in Scalars \cup Openers
    \/ AwaitsName(p) /\ Peek(p) = "string"
    \/ p.pc = "colon" /\ Peek(p) = ":"
    \/ p.pc = "frame" /\ Peek(p) = "," /\ MayComma(Inner(p))
    \/ p.pc = "frame" /\ Peek(p) = Closer(Inner(p).kind) /\ MayClose(Inner(p))
    \/ p.pc = "trail" /\ Peek(p) = "end"

Active(p) == p.pc \notin {"idle", "done"}

\* The outcome of several checks, in the order the code makes them.
Check(wrong, code) == IF wrong THEN code ELSE "None"
FirstOf(checks) ==
    LET failed == {i \in 1..Len(checks) : checks[i] # "None"}
    IN  IF failed = {} THEN "None" ELSE checks[Min(failed)]
=============================================================================
