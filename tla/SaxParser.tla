----------------------------- MODULE SaxParser -----------------------------
(***************************************************************************)
(* The SAX parser (SaxParser, BufferSaxCursor, StreamSaxCursor): the same  *)
(* descent over a cursor that takes one byte at a time and refuses to go   *)
(* beyond maxInputBytes, with a callback for each event.                   *)
(***************************************************************************)
EXTENDS DomParser, FiniteSetsExt

VARIABLE
    sax         \* [pc, at, pos, frames, nodes, code, stopped, built]; pos bytes
                \* are consumed, stopped is what kept the next one from being
                \* read, built is what a handler has made of the events

-----------------------------------------------------------------------------
(* A handler that builds a document from the events: the containers that   *)
(* are open in it, each with the names it has heard and whether the last   *)
(* of them awaits its value.                                               *)
Event(type, doc) == [type |-> type, doc |-> doc]

Nothing == [open |-> <<>>, doc |-> NoDocument, whole |-> FALSE, good |-> TRUE]
Top(b) == b.open[Len(b.open)]
WithTop(b, top) == [b EXCEPT !.open = [@ EXCEPT ![Len(b.open)] = top]]

\* Whether an event makes sense.
Sensible(b, e) ==
    CASE e.type \in {"value", "start"} ->
             IF b.open = <<>> THEN ~b.whole ELSE Top(b).kind = "[" \/ Top(b).named
      [] e.type = "key" ->
             /\ b.open # <<>> /\ Top(b).kind = "{" /\ ~Top(b).named
             /\ e.doc \in Top(b).names => options.duplicateKeys = "KeepLastDuplicate"
      [] e.type = "end" -> b.open # <<>> /\ Top(b).kind = e.doc /\ ~Top(b).named

Opened(kind) ==
    [kind |-> kind, named |-> FALSE, names |-> {}, key |-> "none", doc |-> EmptyDocument(kind)]

Keyed(o, key) ==
    [kind |-> o.kind, named |-> TRUE, names |-> o.names \cup {key}, key |-> key, doc |-> o.doc]

Filled(o, doc) ==
    [kind |-> o.kind, named |-> FALSE, names |-> o.names, key |-> o.key,
     doc |-> IF o.kind = "[" THEN [o.doc EXCEPT !.elems = Append(@, doc)]
             ELSE [o.doc EXCEPT !.members = Put(@, o.key, doc)]]

Placed(b, doc) ==
    IF b.open = <<>> THEN [b EXCEPT !.doc = doc, !.whole = TRUE]
    ELSE WithTop(b, Filled(Top(b), doc))

Handled(b, e) ==
    IF ~Sensible(b, e) THEN [b EXCEPT !.good = FALSE]
    ELSE CASE e.type = "value" -> Placed(b, e.doc)
           [] e.type = "start" -> [b EXCEPT !.open = Append(@, Opened(e.doc))]
           [] e.type = "key"   -> WithTop(b, Keyed(Top(b), e.doc))
           [] e.type = "end"   -> Placed([b EXCEPT !.open = Front(@)], Top(b).doc)

-----------------------------------------------------------------------------

SaxInit ==
    sax = [pc |-> "idle", at |-> 1, pos |-> 0, frames |-> <<>>, nodes |-> 0,
           code |-> "None", stopped |-> "none", built |-> Nothing]

Stopped(s, code, why) ==
    [s EXCEPT !.pc = "done", !.at = 0, !.frames = <<>>, !.code = code, !.stopped = why]

SaxFails(code, why) == sax' = Stopped(sax, code, why)

-----------------------------------------------------------------------------
(* Reading.  getChar compares the position with maxInputBytes before it    *)
(* asks the cursor.                                                        *)
Limited(pos) == options.maxInputBytes # 0 /\ pos > options.maxInputBytes

Gap(s) == IF s.at <= Len(text) THEN Here(s).gap ELSE 0
From(s) == s.pos + Gap(s)
Exhausted == IF supply = "broken" THEN "failed" ELSE "end"

\* The number scanner looks before it takes, the others take.
WhyRefused(x, from, b) ==
    IF (x.kind = "number" /\ b > x.have) \/ ~Limited(from + b) THEN Exhausted ELSE "limit"

\* What the caller of getChar makes of a refusal at such a byte.
RefusalCode(byte, why) ==
    CASE byte \in {"open", "colon", "letter"} -> "Syntax"
      [] byte = "plain"  -> IF why = "failed" THEN "StreamError" ELSE "Syntax"
      [] byte = "escape" -> "InvalidEncoding"
      [] byte = "close"  -> "InputLimit"
      [] byte = "digit"  -> IF why = "limit" THEN "InputLimit" ELSE "NumberRange"

\* The first byte of x, which starts at `from`, that getChar refuses; 0 if none.
Refused(x, from) ==
    LET bytes == {b \in 1..Len(x.bytes) : b > x.have \/ Limited(from + b)}
    IN  IF bytes = {} THEN 0 ELSE Min(bytes)

ReadCode(x, from) ==
    LET b == Refused(x, from)
    IN  IF b = 0 THEN "None" ELSE RefusalCode(x.bytes[b], WhyRefused(x, from, b))

ReadStopped(x, from) ==
    LET b == Refused(x, from)
    IN  IF b = 0 THEN "none" ELSE WhyRefused(x, from, b)

\* The cursor behind x.
Past(s, x) == [s EXCEPT !.pos = From(s) + x.have, !.at = @ + 1]

-----------------------------------------------------------------------------
(* Events.                                                                 *)
Emitting(s) ==
    s.frames = <<>> \/ IF Inner(s).kind = "[" THEN Inner(s).emit ELSE Inner(s).emitValue

\* dispatch: a callback is made, and may refuse, throw or run out of memory.
Dispatched(s, emit, event) ==
    LET t == [s EXCEPT !.built = Handled(@, event)]
    IN  IF emit THEN {t, Stopped(t, "CallbackError", "none"),
                      Stopped(t, "AllocationFailure", "none")}
        ELSE {s}

\* A value is complete.
SaxReturned(s) ==
    IF s.frames = <<>> THEN [s EXCEPT !.pc = "trail"]
    ELSE [s EXCEPT !.pc = "frame", !.frames[Len(s.frames)].any = TRUE,
                   !.frames[Len(s.frames)].expect = FALSE]

-----------------------------------------------------------------------------
\* skipWhitespace comes before whatever is read next.
SpaceRefused == Gap(sax) # 0 /\ Limited(From(sax))
SaxReady == Active(sax) /\ Known(sax.at) /\ ~SpaceRefused

\* parseSaxTop and parseSaxStream up to parseValue.
SaxStart ==
    /\ sax.pc = "idle"
    /\ IF source = "buffer" /\ supply = "over" THEN SaxFails("InputLimit", "limit")
       ELSE sax' = [sax EXCEPT !.pc = "value"]

SaxSpace ==
    /\ Active(sax) /\ Known(sax.at) /\ SpaceRefused
    /\ SaxFails("InputLimit", "limit")

\* A string is charged before it is read, a literal after, a number between
\* its scan and its conversion.
SaxScalarCode(x) ==
    LET charge == Check(NodesSpent(sax.nodes), "NodeLimit")
        read   == ReadCode(x, From(sax))
    IN  FirstOf(CASE x.kind = "string" ->
                       <<charge, read, Check(x.fault = "encoding", "InvalidEncoding")>>
                  [] x.kind = "number" ->
                       <<read, Check(x.fault = "incomplete", "NumberRange"), charge,
                         Check(Unrepresentable(x), "NumberRange")>>
                  [] x.kind = "literal" -> <<read, charge>>)

SaxScalar ==
    /\ SaxReady /\ AwaitsValue(sax) /\ Peek(sax) \in Scalars
    /\ LET x == Here(sax)
           code == SaxScalarCode(x)
           read == [Past(sax, x) EXCEPT !.nodes = @ + 1]
       IN  IF code # "None"
           THEN SaxFails(code, IF code = "NodeLimit" THEN "none" ELSE ReadStopped(x, From(sax)))
           ELSE \E s \in Dispatched(read, Emitting(sax), Event("value", Leaf(x))) :
                    sax' = IF s.pc = "done" THEN s ELSE SaxReturned(s)

\* Mutant: a container in a suppressed value reports its members.
SaxFrame_Loud(kind, emit) ==
    [kind |-> kind, expect |-> FALSE, any |-> FALSE, emit |-> TRUE, keys |-> {},
     key |-> "none", emitValue |-> FALSE]

SaxFrame(kind, emit) ==
    [kind |-> kind, expect |-> FALSE, any |-> FALSE, emit |-> emit, keys |-> {},
     key |-> "none", emitValue |-> FALSE]

SaxOpenCode(x) ==
    FirstOf(<<Check(Len(sax.frames) + 1 > EffectiveDepth, "DepthLimit"),
              Check(NodesSpent(sax.nodes), "NodeLimit"),
              ReadCode(x, From(sax))>>)

SaxOpen ==
    /\ SaxReady /\ AwaitsValue(sax) /\ Peek(sax) \in Openers
    /\ LET x == Here(sax)
           code == SaxOpenCode(x)
           read == [Past(sax, x) EXCEPT !.nodes = @ + 1]
       IN  IF code # "None"
           THEN SaxFails(code, IF code = "Syntax" THEN "limit" ELSE "none")
           ELSE \E s \in Dispatched(read, Emitting(sax), Event("start", x.kind)) :
                    sax' = IF s.pc = "done" THEN s
                           ELSE [s EXCEPT !.pc = "frame",
                                          !.frames = Append(@, SaxFrame(x.kind, Emitting(sax)))]

\* A comma or the end of a container, where it may stand.
SaxPunctuation(s) ==
    LET x == Here(sax)
    IN  IF ReadCode(x, From(sax)) # "None"
        THEN SaxFails(ReadCode(x, From(sax)), ReadStopped(x, From(sax)))
        ELSE sax' \in s

SaxComma ==
    /\ SaxReady /\ sax.pc = "frame" /\ Peek(sax) = "," /\ MayComma(Inner(sax))
    /\ SaxPunctuation({[Past(sax, Here(sax)) EXCEPT !.frames[Len(sax.frames)].expect = TRUE]})

SaxClose ==
    /\ SaxReady /\ sax.pc = "frame" /\ Peek(sax) = Closer(Inner(sax).kind)
    /\ MayClose(Inner(sax))
    /\ SaxPunctuation(
         {IF s.pc = "done" THEN s ELSE SaxReturned([s EXCEPT !.frames = Front(@)]) :
              s \in Dispatched(Past(sax, Here(sax)), Inner(sax).emit,
                               Event("end", Inner(sax).kind))})

SaxKey ==
    /\ SaxReady /\ AwaitsName(sax) /\ Peek(sax) = "string"
    /\ LET x == Here(sax)
           code == FirstOf(<<ReadCode(x, From(sax)),
                             Check(x.fault = "encoding", "InvalidEncoding")>>)
       IN  IF code # "None" THEN SaxFails(code, ReadStopped(x, From(sax)))
           ELSE sax' = [Past(sax, x) EXCEPT !.pc = "colon",
                                            !.frames[Len(sax.frames)].key = x.val]

\* Names are compared only where the policy needs it.
Duplicate(f) == options.duplicateKeys # "KeepLastDuplicate" /\ f.key \in f.keys

\* The frame when the value of the member is next: it is reported unless the
\* object is not, or an earlier member of that name was.
Named(f) ==
    [f EXCEPT !.keys = IF options.duplicateKeys = "KeepLastDuplicate" THEN @
                       ELSE @ \cup {f.key},
              !.emitValue = f.emit /\ ~Duplicate(f)]

\* The colon, and only then the duplicate check and the callback for the name.
SaxColon ==
    /\ SaxReady /\ sax.pc = "colon" /\ Peek(sax) = ":"
    /\ LET x == Here(sax)
           f == Inner(sax)
           read == [Past(sax, x) EXCEPT !.frames[Len(sax.frames)] = Named(f), !.pc = "value"]
           code == FirstOf(<<ReadCode(x, From(sax)),
                             Check(Duplicate(f) /\ options.duplicateKeys = "RejectDuplicateKeys",
                                   "DuplicateKey")>>)
       IN  IF code # "None" THEN SaxFails(code, ReadStopped(x, From(sax)))
           ELSE sax' \in Dispatched(read, Named(f).emitValue, Event("key", f.key))

\* Whatever has no place here.  Where nothing is left, skipWhitespace has
\* already noticed a failed stream; behind the document the limit comes first.
SaxUnexpected ==
    /\ SaxReady /\ ~Expected(sax)
    /\ IF Peek(sax) = "end" /\ supply = "broken" THEN SaxFails("StreamError", "failed")
       ELSE IF Peek(sax) # "end" /\ sax.pc = "trail" /\ Limited(From(sax) + 1)
       THEN SaxFails("InputLimit", "limit")
       ELSE SaxFails("Syntax", IF sax.pc = "colon" /\ Limited(From(sax) + 1)
                               THEN "limit" ELSE "none")

SaxReturns ==
    /\ SaxReady /\ sax.pc = "trail" /\ Peek(sax) = "end"
    /\ IF supply = "broken" THEN SaxFails("StreamError", "failed")
       ELSE sax' = [sax EXCEPT !.pc = "done", !.at = 0]

\* bad_alloc, from a token, a key set or the message of an error.
SaxOutOfMemory ==
    /\ Active(sax)
    /\ sax.pc = "trail" => Known(sax.at) /\ ~Expected(sax)
    /\ SaxFails("AllocationFailure", "none")

SaxNext ==
    /\ \/ SaxStart \/ SaxSpace \/ SaxScalar \/ SaxOpen \/ SaxComma \/ SaxClose \/ SaxKey
       \/ SaxColon \/ SaxUnexpected \/ SaxReturns \/ SaxOutOfMemory
    /\ UNCHANGED input
=============================================================================
