--------------------------- MODULE SerializeText ---------------------------
(***************************************************************************)
(* The text of a value, defined by recursion on the value, against which   *)
(* the traversal of Serialize and the verdict of its counting pass are     *)
(* checked.                                                                *)
(***************************************************************************)
EXTENDS Serialize

Scalar(value) == Texts(OpenOrEmit(value, <<>>))

RECURSIVE Text(_, _)
Text(value, depth) ==
    LET element(i) ==
            LET kid == value.kids[i]
            IN  (IF i = 1 THEN <<>> ELSE <<Bytes("comma", 1)>>)
                \o NewLine(depth + 1)
                \o (IF value.type = "object"
                    THEN Quoted(kid.key, Bytes("colon", IF opts.pretty THEN 3 ELSE 2))
                    ELSE <<>>)
                \o Text(kid.value, depth + 1)
    IN  IF ~IsOpen(value) THEN Scalar(value)
        ELSE <<Opening(value.type)>>
             \o FlattenSeq([i \in DOMAIN value.kids |-> element(i)])
             \o NewLine(depth)
             \o <<Closing(value.type)>>

Reference == Text(call.value, 0)

\* What keeps the text from being written up to and including piece i.
Obstacle(i) ==
    LET size == TotalSize(SubSeq(Reference, 1, i))
    IN  IF Reference[i].kind = "reject" THEN Reference[i].text
        ELSE IF size > SizeMax \/ (opts.maxOutputBytes # 0 /\ size > opts.maxOutputBytes)
        THEN "OutputLimit"
        ELSE "None"

\* The first obstacle, or "None".
Verdict ==
    LET obstacles == {i \in DOMAIN Reference : Obstacle(i) # "None"}
    IN  IF obstacles = {} THEN "None"
        ELSE Obstacle(CHOOSE i \in obstacles : \A j \in obstacles : i <= j)

Output == IF ToStream THEN Tail(dest) ELSE scratch

\* Whatever is emitted, at any moment, is a prefix of the text of the value, and
\* a call that succeeds has emitted all of it, within the limit.
EmitsTheText ==
    /\ IsPrefix(Output, Reference)
    /\ Returned /\ outcome = "None" =>
        /\ Output = Reference
        /\ (ToStream \/ dest = Reference)
        /\ opts.maxOutputBytes # 0 => TotalSize(Output) <= opts.maxOutputBytes

\* A call fails with the first obstacle in document order, unless memory or the
\* stream fails first; only the reservation of the result reports a limit for a
\* text that has none.
NamesFirstObstacle ==
    Returned /\ Structured /\ outcome \notin {"AllocationFailure", "StreamFailure"} =>
        \/ outcome = Verdict
        \/ ~ToStream /\ Verdict = "None" /\ outcome = "OutputLimit"

\* The counting pass decides: emission begins only on a text without obstacle,
\* so that its second traversal is never refused by a limit, a string or a
\* number, and a call that fails names the first obstacle.
CountDecides == (Emitting => Verdict = "None") /\ NamesFirstObstacle
=============================================================================
