----------------------------- MODULE Serialize -----------------------------
(***************************************************************************)
(* The serializer (pjsonlib/src/pjson_serialize.cpp): one call of one of   *)
(* its four entry points.  A traversal with an explicit stack of frames    *)
(* runs twice, first into a sink that only counts, then into a string or   *)
(* a stream.                                                               *)
(*                                                                         *)
(* A traversal is a sequence of pieces: bytes to write, indentation, an    *)
(* allocation, or a value that cannot be written.  A piece is one call of  *)
(* a sink; what follows a refused piece changes nothing, because every     *)
(* sink stays failed, so a traversal ends at the first one.  Whenever the  *)
(* stack outgrows FramesReserved it may have to allocate.  Objects keep    *)
(* one iteration order, that of `kids`, during a call.                     *)
(***************************************************************************)
EXTENDS Naturals, Sequences, SequencesExt

CONSTANTS
    Calls,          \* the calls to make: [api, value, opts]
    SizeMax,        \* the largest size_t
    StreamMax,      \* the largest std::streamsize
    FramesReserved, \* frames the stack holds without allocating
    Prior           \* what the caller's string or stream held before

ASSUME SerializeAssumption ==
    /\ SizeMax \in Nat /\ StreamMax \in Nat /\ FramesReserved \in Nat

VARIABLES
    call,       \* the arguments
    phase,      \* "called", "counting", "counted", "emitting" or "returned"
    frames,     \* open containers, outermost first
    written,    \* bytes the current sink has accepted
    scratch,    \* the private string of toString
    dest,       \* the caller's string or stream
    good,       \* the caller's stream has no error bit set
    outcome     \* the code, or the exception, the call ended with

vars == <<call, phase, frames, written, scratch, dest, good, outcome>>

opts == call.opts
ToStream == call.api \in {"write", "writeError"}
Structured == call.api \in {"toStringError", "writeError"}

-----------------------------------------------------------------------------
(* Pieces.                                                                 *)
Bytes(text, n) == [kind |-> "bytes", text |-> text, size |-> n]
Allocate == [kind |-> "allocate", text |-> "", size |-> 0]
Reject(code) == [kind |-> "reject", text |-> code, size |-> 0]

\* writeIndent
Indent(depth) ==
    IF opts.indentWidth # 0 /\ depth > SizeMax \div opts.indentWidth
    THEN Reject("OutputLimit")
    ELSE [kind |-> "indent", text |-> "", size |-> depth * opts.indentWidth]

NewLine(depth) == IF opts.pretty THEN <<Bytes("newline", 1), Indent(depth)>> ELSE <<>>

\* _writeEscapedTo, by the kind of character.
Escaped(ch) ==
    CASE ch = "plain"   -> <<Bytes(ch, 1)>>
      [] ch = "quote"   -> <<Bytes(ch, 2)>>
      [] ch = "control" -> <<Bytes(ch, 6)>>
      [] ch = "bmp"     -> <<Bytes(ch, IF opts.escapeNonAscii THEN 6 ELSE 3)>>
      [] ch = "astral"  -> IF opts.escapeNonAscii
                           THEN <<Bytes("high", 6), Bytes("low", 6)>>
                           ELSE <<Bytes(ch, 4)>>
      [] ch = "broken"  -> <<Reject("InvalidUtf8")>>

Body(chars) == FlattenSeq([i \in DOMAIN chars |-> Escaped(chars[i])])
Quoted(chars, closing) == <<Bytes("quote", 1)>> \o Body(chars) \o <<closing>>

\* A number too long for a small string allocates its text.
Number(size) == (IF size > 15 THEN <<Allocate>> ELSE <<>>) \o <<Bytes("number", size)>>

NonFinite(type, size) ==
    CASE opts.nonFinite = "RejectNonFinite"   -> <<Reject("NonFiniteNumber")>>
      [] opts.nonFinite = "NonFiniteToNull"   -> <<Bytes("null", 4)>>
      [] opts.nonFinite = "NonFiniteToString" -> <<Bytes(type, size)>>

IsOpen(value) == value.type \in {"array", "object"} /\ value.kids # <<>>

Frame(value, depth) == [value |-> value, next |-> 1, depth |-> depth]

Opening(type) == Bytes(IF type = "array" THEN "[" ELSE "{", 1)
Closing(type) == Bytes(IF type = "array" THEN "]" ELSE "}", 1)

\* _openOrEmit: the pieces of a value, or those that open it.
OpenOrEmit(value, below) ==
    CASE value.type = "null"     -> <<Bytes("null", 4)>>
      [] value.type = "true"     -> <<Bytes("true", 4)>>
      [] value.type = "false"    -> <<Bytes("false", 5)>>
      [] value.type = "number"   -> Number(value.size)
      [] value.type = "NaN"      -> NonFinite("NaN", 5)
      [] value.type = "Infinity" -> NonFinite("Infinity", 10)
      [] value.type = "string"   -> Quoted(value.chars, Bytes("quote", 1))
      [] IsOpen(value)           ->
            <<Opening(value.type)>> \o
            (IF Len(below) >= FramesReserved THEN <<Allocate>> ELSE <<>>)
      [] OTHER                   -> <<Bytes(value.type, 2)>>

Pushed(value, depth, below) ==
    IF IsOpen(value) THEN Append(below, Frame(value, depth)) ELSE below

-----------------------------------------------------------------------------
(* Sinks.                                                                  *)
Emitting == phase \in {"counted", "emitting"}

\* The count pass owns the budget of a stream; a string is checked twice.
Limit == IF Emitting /\ ToStream THEN 0 ELSE opts.maxOutputBytes

\* Mutant: the last byte of the limit is not counted.
Fits_OffByOne(size) ==
    /\ ~Emitting => size <= SizeMax
    /\ Limit # 0 => size <= Limit + 1

\* account, after which `size` bytes would have been written.
Fits(size) ==
    /\ ~Emitting => size <= SizeMax
    /\ Limit # 0 => size <= Limit

TotalSize(pieces) == FoldLeft(LAMBDA n, piece : n + piece.size, 0, pieces)

\* A stream takes indentation only up to StreamMax bytes.
StreamTakes(piece) == good /\ (piece.kind = "indent" => piece.size <= StreamMax)

Takes(piece, size) ==
    CASE piece.kind = "allocate" -> TRUE
      [] piece.kind = "reject"   -> FALSE
      [] OTHER -> Fits(size) /\ (Emitting /\ ToStream => StreamTakes(piece))

\* The codes the counting or the string sink refuses a piece with.
Refusals(piece, size) ==
    CASE piece.kind = "reject" -> {IF Emitting THEN "InternalError" ELSE piece.text}
      [] OTHER                 -> IF Fits(size) THEN {} ELSE {"OutputLimit"}

\* The codes a traversal may fail with at a piece.
Failures(piece, size) ==
    IF piece.kind = "allocate" THEN {"AllocationFailure"}
    ELSE IF Emitting /\ ToStream THEN {"StreamFailure"}
    ELSE Refusals(piece, size)

Texts(pieces) == SelectSeq(pieces, LAMBDA piece : piece.kind # "allocate")

\* Mutant: the first pass writes to the stream as well.
Deliver_Early(pieces) ==
    /\ written' = written + TotalSize(pieces)
    /\ dest' = IF ToStream THEN dest \o Texts(pieces) ELSE dest
    /\ scratch' = IF Emitting /\ ~ToStream THEN scratch \o Texts(pieces) ELSE scratch

\* The accepted pieces reach the stream, the private string, or nobody.
Deliver(pieces) ==
    /\ written' = written + TotalSize(pieces)
    /\ dest' = IF Emitting /\ ToStream THEN dest \o Texts(pieces) ELSE dest
    /\ scratch' = IF Emitting /\ ~ToStream THEN scratch \o Texts(pieces) ELSE scratch

\* What the caller is told: a code, an exception, or failbit.
Reported(code) ==
    IF Structured THEN code
    ELSE IF code = "AllocationFailure" THEN "bad_alloc"
    ELSE IF ToStream THEN "failbit"
    ELSE IF code = "OutputLimit" THEN "length_error"
    ELSE "invalid_argument"

Fail(code) ==
    /\ phase' = "returned"
    /\ outcome' = Reported(code)
    /\ good' = (good /\ (ToStream => Reported(code) = "bad_alloc"))
    /\ frames' = <<>>

\* One run of the traversal over some pieces; `rest` is the stack after them.
Feed(pieces, rest, running) ==
    \E n \in 0..Len(pieces) :
        LET before(i) == written + TotalSize(SubSeq(pieces, 1, i - 1))
            after(i) == before(i) + pieces[i].size
        IN  /\ \A i \in 1..n : Takes(pieces[i], after(i))
            /\ Deliver(SubSeq(pieces, 1, n))
            /\ IF n = Len(pieces)
               THEN /\ phase' = running /\ frames' = rest
                    /\ UNCHANGED <<good, outcome>>
               ELSE \E code \in Failures(pieces[n + 1], after(n + 1)) : Fail(code)
            /\ UNCHANGED call

-----------------------------------------------------------------------------
(* The traversal, _writeValueTo.                                           *)

Start(from, running) ==
    /\ phase = from
    /\ Feed(<<Allocate>> \o OpenOrEmit(call.value, <<>>), Pushed(call.value, 0, <<>>), running)

Running == phase \in {"counting", "emitting"}
Top == frames[Len(frames)]
Below == Front(frames)

\* Mutant: no comma after a container.
Comma_Forgotten(frame) ==
    IF frame.next = 1 \/ IsOpen(frame.value.kids[frame.next - 1].value)
    THEN <<>> ELSE <<Bytes("comma", 1)>>

Comma(frame) == IF frame.next = 1 THEN <<>> ELSE <<Bytes("comma", 1)>>

Key(frame, kid) ==
    IF frame.value.type = "array" THEN <<>>
    ELSE Quoted(kid.key, Bytes("colon", IF opts.pretty THEN 3 ELSE 2))

Child ==
    /\ Running /\ frames # <<>> /\ Top.next <= Len(Top.value.kids)
    /\ LET kid == Top.value.kids[Top.next]
           stack == Append(Below, [Top EXCEPT !.next = @ + 1])
           depth == Top.depth + 1
       IN  Feed(Comma(Top) \o NewLine(depth) \o Key(Top, kid) \o OpenOrEmit(kid.value, stack),
                Pushed(kid.value, depth, stack), phase)

Close ==
    /\ Running /\ frames # <<>> /\ Top.next > Len(Top.value.kids)
    /\ Feed(NewLine(Top.depth) \o <<Closing(Top.value.type)>>, Below, phase)

-----------------------------------------------------------------------------
(* The entry points.                                                       *)

Count == Start("called", "counting")
Emit == Start("counted", "emitting")

\* The count passed; a string reserves its size.
Counted ==
    /\ phase = "counting" /\ frames = <<>>
    /\ phase' = "counted" /\ written' = 0
    /\ UNCHANGED <<call, frames, scratch, dest, good, outcome>>

ReserveFails ==
    /\ phase = "counting" /\ frames = <<>> /\ ~ToStream
    /\ \E code \in {"AllocationFailure", "OutputLimit"} : Fail(code)
    /\ UNCHANGED <<call, written, scratch, dest>>

\* Mutant: the private string is appended to what the caller had.
Finish_Appends ==
    /\ phase = "emitting" /\ frames = <<>>
    /\ phase' = "returned"
    /\ outcome' = "None"
    /\ dest' = dest \o scratch
    /\ UNCHANGED <<call, frames, written, scratch, good>>

Finish ==
    /\ phase = "emitting" /\ frames = <<>>
    /\ phase' = "returned"
    /\ outcome' = "None"
    /\ dest' = IF ToStream THEN dest ELSE scratch
    /\ UNCHANGED <<call, frames, written, scratch, good>>

\* A stream may be in error when it is handed over.
Init ==
    /\ call \in Calls
    /\ phase = "called"
    /\ frames = <<>> /\ written = 0 /\ scratch = <<>> /\ dest = <<Prior>>
    /\ good \in (IF ToStream THEN BOOLEAN ELSE {TRUE})
    /\ outcome = "None"

Next == Count \/ Child \/ Close \/ Counted \/ ReserveFails \/ Emit \/ Finish

Spec == Init /\ [][Next]_vars

-----------------------------------------------------------------------------
(* Properties.                                                             *)

Returned == phase = "returned"
Unwritten == dest = <<Prior>>

\* The codes and exceptions of failures that are no accident of the machine.
Logical == {"InvalidUtf8", "NonFiniteNumber", "OutputLimit", "invalid_argument",
            "length_error", "InternalError"}

\* A logical failure emits no bytes (docs/behavioral-contract-2.0.md:180, and
\* the comment above write(std::ostream&, SerializeError&, ...)).
LogicalFailureEmitsNothing == Returned /\ outcome \in Logical => Unwritten

\* The string of toString(out, error) changes only when the call succeeds, and
\* then all at once.
StringIsTransactional ==
    ~ToStream => Unwritten \/ (Returned /\ outcome = "None" /\ dest = scratch)

\* Each frame is the child its parent's cursor has just passed, one level down:
\* pushing a frame loses no parent's progress, and depth is the nesting level.
FramesNest ==
    \A i \in DOMAIN frames :
        /\ frames[i].depth = i - 1
        /\ frames[i].value =
               IF i = 1 THEN call.value
               ELSE frames[i - 1].value.kids[frames[i - 1].next - 1].value

\* "only a physical stream failure may have emitted a prefix"
\* (pjson_serialize.cpp:654-655).
OnlyStreamFailureLeavesPrefix ==
    Returned /\ Structured /\ outcome \notin {"None", "StreamFailure"} => Unwritten
=============================================================================
