----------------------------- MODULE ParserPair -----------------------------
(***************************************************************************)
(* One text given to both parsers, first to parse or parseStream, then to  *)
(* parseSax or parseSaxStream of the same pJsonParser.                     *)
(***************************************************************************)
EXTENDS SaxParser, JsonText

vars == <<input, dom, sax>>

Init == InputInit /\ DomInit /\ SaxInit

\* The parser that runs looks beyond what is known.
Arrival ==
    /\ \/ Active(dom) /\ ~Known(dom.at)
       \/ Active(sax) /\ ~Known(sax.at)
    /\ Supply
    /\ UNCHANGED <<dom, sax>>

ParseDom == DomNext /\ UNCHANGED sax
\* A caller whose first call ran out of memory is of no interest for the second.
Compared == dom.pc = "done" /\ dom.code # "AllocationFailure"
ParseSax == Compared /\ SaxNext /\ UNCHANGED dom

Finished == dom.pc = "done" /\ (Compared => sax.pc = "done") /\ UNCHANGED vars

Next == Arrival \/ ParseDom \/ ParseSax \/ Finished

Spec == Init /\ [][Next]_vars

-----------------------------------------------------------------------------
Interrupted == {"AllocationFailure", "CallbackError"}
Codes == {"None", "Syntax", "InvalidEncoding", "DuplicateKey", "NumberRange", "DepthLimit",
          "NodeLimit", "InputLimit", "StreamError"} \cup Interrupted

Succeeded(p) == p.pc = "done" /\ p.code = "None"
Rejected(p) == p.pc = "done" /\ p.code \notin {"None"} \cup Interrupted
Settled == \A p \in {dom, sax} : Succeeded(p) \/ Rejected(p)

\* Both parsers accept exactly the JSON texts within the limits, on which they
\* spend the same budgets although they charge them at different moments; and
\* neither gives up on a text that could still become one.
AcceptsExactlyJson ==
    Settled => \A p \in {dom, sax} :
        IF supply = "whole"
        THEN IF ended THEN Succeeded(p) <=> Admissible(text)
             ELSE Rejected(p) /\ ~Completable(text)
        ELSE Rejected(p)

\* Whatever the policy suppresses and wherever the parse stops, the events make
\* sense to a handler: containers close in order, a name is followed by its value
\* and is not heard again unless the policy wants the last of its members, and a
\* parse that succeeds has delivered exactly one document.
EventsNest ==
    /\ sax.built.good
    /\ Succeeded(sax) => sax.built.whole /\ sax.built.open = <<>>

\* When both accept, the document of the DOM parser and the one a handler builds
\* are the document that the text denotes under the duplicate policy.
SameDocument ==
    Succeeded(dom) /\ Succeeded(sax) =>
        sax.built.doc = dom.doc /\ dom.doc = Meaning(text)

\* Of a whole text both report the same code, except where they charge or
\* compare at different moments: a spent node budget comes before the reading
\* of a string and the range of a number in one and after them in the other;
\* a duplicate name counts before its colon in one and after it in the other.
SameCode ==
    Rejected(dom) /\ Rejected(sax) /\ supply = "whole" =>
        \/ sax.code = dom.code
        \/ sax.code = "NodeLimit" /\ dom.code \in {"InvalidEncoding", "Syntax", "NumberRange"}
        \/ dom.code = "DuplicateKey" /\ sax.code \in {"Syntax", "InputLimit"}

\* The two engines answer alike, whichever of them a caller takes.
SameAnswer == SameDocument /\ SameCode

\* No parser goes deeper, makes more values or consumes more bytes than its
\* options say, values that are discarded or not reported included.
WithinLimits ==
    /\ \A p \in {dom, sax} :
           /\ Len(p.frames) <= EffectiveDepth
           /\ options.maxNodes # 0 => p.nodes <= options.maxNodes
    /\ options.maxInputBytes # 0 => sax.pos <= options.maxInputBytes

\* The code names what stopped the parser: the byte limit or the stream.
NamesTheCause ==
    sax.pc = "done" /\ sax.code \notin {"None"} \cup Interrupted =>
        /\ supply = "over" /\ sax.stopped = "limit" => sax.code = "InputLimit"
        /\ sax.stopped = "failed" => sax.code = "StreamError"
=============================================================================
