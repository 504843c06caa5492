----------------------------- MODULE DomParser -----------------------------
(***************************************************************************)
(* The DOM parser (parseTop, parseStream and the parse functions of        *)
(* pJsonParserImpl): recursive descent, with the C++ stack as a sequence   *)
(* of frames.  A step is one value or one turn of the loop of a container. *)
(* Its input is in memory before it starts.                                *)
(***************************************************************************)
EXTENDS ParserInput

VARIABLE
    dom         \* [pc, at, frames, nodes, code, doc]

NoDocument == [type |-> "none"]
Leaf(x) == [type |-> x.kind, val |-> x.val]
EmptyDocument(kind) ==
    IF kind = "[" THEN [type |-> "array", elems |-> <<>>]
    ELSE [type |-> "object", members |-> <<>>]

DomInit ==
    dom = [pc |-> "idle", at |-> 1, frames |-> <<>>, nodes |-> 0, code |-> "None",
           doc |-> NoDocument]

\* A failed parse returns null; the guards of the C++ stack free the rest.
DomFails(code) ==
    dom' = [pc |-> "done", at |-> 0, frames |-> <<>>, nodes |-> 0, code |-> code,
            doc |-> NoDocument]

\* setParseError keeps the first failure, or there is none and d follows.
DomGoes(code, d) == IF code = "None" THEN dom' = d ELSE DomFails(code)

Put(f, key, value) == [k \in DOMAIN f \cup {key} |-> IF k = key THEN value ELSE f[k]]

\* Mutant: the last of several members with one name always wins.
Attached_Last(f, doc) ==
    [f EXCEPT !.any = TRUE, !.expect = FALSE,
              !.doc = IF f.kind = "[" THEN [@ EXCEPT !.elems = Append(@, doc)]
                      ELSE [@ EXCEPT !.members = Put(@, f.key, doc)]]

\* The frame of a container after the value doc in it.
Attached(f, doc) ==
    [f EXCEPT !.any = TRUE, !.expect = FALSE,
              !.doc = IF f.kind = "[" THEN [@ EXCEPT !.elems = Append(@, doc)]
                      ELSE IF f.duplicate /\ options.duplicateKeys = "KeepFirstDuplicate"
                      THEN @
                      ELSE [@ EXCEPT !.members = Put(@, f.key, doc)]]

\* parseValue returns doc to the container around it, or to parseTop.
Returned(d, doc) ==
    IF d.frames = <<>> THEN [d EXCEPT !.pc = "trail", !.doc = doc]
    ELSE [d EXCEPT !.pc = "frame", !.frames[Len(d.frames)] = Attached(@, doc)]

\* A lexeme cut short by the end of the input, by the first byte that is missing.
EndCode(byte) ==
    CASE byte = "escape" -> "InvalidEncoding"
      [] byte = "digit"  -> "NumberRange"
      [] OTHER           -> "Syntax"

CutCode(x) == IF x.have = Len(x.bytes) THEN "None" ELSE EndCode(x.bytes[x.have + 1])

-----------------------------------------------------------------------------
DomReady == Active(dom) /\ Known(dom.at)

\* parseStream up to parseTop, and parseTop up to parseValue.
DomStart ==
    /\ dom.pc = "idle"
    /\ DomGoes(CASE supply = "over"   -> "InputLimit"
                 [] supply = "broken" -> "StreamError"
                 [] OTHER             -> "None",
               [dom EXCEPT !.pc = "value"])

\* extractString, scanJsonNumber or parseKeyword, then newNode.
DomScalarCode(x) ==
    FirstOf(<<CutCode(x),
              Check(x.fault = "encoding", "InvalidEncoding"),
              Check(x.fault = "incomplete" \/ Unrepresentable(x), "NumberRange"),
              Check(NodesSpent(dom.nodes), "NodeLimit")>>)

\* parseString, parseNumber, parseKeyword
DomScalar ==
    /\ DomReady /\ AwaitsValue(dom) /\ Peek(dom) \in Scalars
    /\ LET x == Here(dom)
       IN  DomGoes(DomScalarCode(x),
                   Returned([dom EXCEPT !.at = @ + 1, !.nodes = @ + 1], Leaf(x)))

DomFrame(kind) ==
    [kind |-> kind, doc |-> EmptyDocument(kind), expect |-> FALSE, any |-> FALSE,
     key |-> "none", duplicate |-> FALSE]

DomOpenCode ==
    FirstOf(<<Check(Len(dom.frames) + 1 > EffectiveDepth, "DepthLimit"),
              Check(NodesSpent(dom.nodes), "NodeLimit")>>)

\* parseArray and parseObject up to their loops.
DomOpen ==
    /\ DomReady /\ AwaitsValue(dom) /\ Peek(dom) \in Openers
    /\ DomGoes(DomOpenCode,
               [dom EXCEPT !.pc = "frame", !.at = @ + 1, !.nodes = @ + 1,
                           !.frames = Append(@, DomFrame(Peek(dom)))])

DomComma ==
    /\ DomReady /\ dom.pc = "frame" /\ Peek(dom) = "," /\ MayComma(Inner(dom))
    /\ dom' = [dom EXCEPT !.at = @ + 1, !.frames[Len(dom.frames)].expect = TRUE]

DomClose ==
    /\ DomReady /\ dom.pc = "frame" /\ Peek(dom) = Closer(Inner(dom).kind)
    /\ MayClose(Inner(dom))
    /\ dom' = Returned([dom EXCEPT !.at = @ + 1, !.frames = Front(@)], Inner(dom).doc)

DomName(x) ==
    [Inner(dom) EXCEPT !.key = x.val, !.duplicate = x.val \in DOMAIN Inner(dom).doc.members]

\* A name is a duplicate as soon as it is decoded.
DomKeyCode(x) ==
    FirstOf(<<CutCode(x),
              Check(x.fault = "encoding", "InvalidEncoding"),
              Check(DomName(x).duplicate /\ options.duplicateKeys = "RejectDuplicateKeys",
                    "DuplicateKey")>>)

DomKey ==
    /\ DomReady /\ AwaitsName(dom) /\ Peek(dom) = "string"
    /\ LET x == Here(dom)
       IN  DomGoes(DomKeyCode(x),
                   [dom EXCEPT !.pc = "colon", !.at = @ + 1,
                               !.frames[Len(dom.frames)] = DomName(x)])

\* skipColon
DomColon ==
    /\ DomReady /\ dom.pc = "colon" /\ Peek(dom) = ":"
    /\ dom' = [dom EXCEPT !.pc = "value", !.at = @ + 1]

\* Whatever has no place here, the end of the text included.
DomUnexpected ==
    /\ DomReady /\ ~Expected(dom)
    /\ DomFails("Syntax")

\* Only white space follows the document.
DomReturns ==
    /\ DomReady /\ dom.pc = "trail" /\ Peek(dom) = "end"
    /\ dom' = [dom EXCEPT !.pc = "done", !.at = 0]

\* bad_alloc, from a node, a string or the storage of a container.
DomOutOfMemory ==
    /\ Active(dom) /\ dom.pc # "trail"
    /\ DomFails("AllocationFailure")

DomNext ==
    /\ \/ DomStart \/ DomScalar \/ DomOpen \/ DomComma \/ DomClose \/ DomKey \/ DomColon
       \/ DomUnexpected \/ DomReturns \/ DomOutOfMemory
    /\ UNCHANGED input
=============================================================================
