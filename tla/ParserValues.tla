---------------------------- MODULE ParserValues ----------------------------
(***************************************************************************)
(* What pJsonParser promises (pjsonlib/include/pjson_parser.h): a parser   *)
(* is a value, its configuration; copying leaves the source as it is, a    *)
(* move leaves it with the defaults; a parse uses the configuration of the *)
(* parser it is called on.                                                 *)
(***************************************************************************)
CONSTANTS Parsers, Configurations, Defaults

VARIABLES
    shown,  \* the configuration of each parser, <<>> where there is none
    used    \* the configuration of the latest parse

Alive(p) == shown[p] # <<>>

Construct(p) ==
    /\ ~Alive(p)
    /\ \E c \in Configurations : shown' = [shown EXCEPT ![p] = <<c>>]
    /\ UNCHANGED used

Destroy(p) == shown' = [shown EXCEPT ![p] = <<>>] /\ UNCHANGED used

\* From a copy, or from an assignment if `p` is there.
Copy(p, from) ==
    Alive(from) /\ shown' = [shown EXCEPT ![p] = shown[from]] /\ UNCHANGED used

Move(p, from) ==
    /\ Alive(from) /\ p # from
    /\ shown' = [shown EXCEPT ![p] = shown[from], ![from] = <<Defaults>>]
    /\ UNCHANGED used

Parse(p) == Alive(p) /\ <<used'>> = shown[p] /\ UNCHANGED shown

Init == shown = [p \in Parsers |-> <<>>] /\ used = Defaults

Next ==
    \E p \in Parsers :
        \/ Construct(p) \/ Destroy(p) \/ Parse(p)
        \/ \E from \in Parsers : Copy(p, from) \/ Move(p, from)

Spec == Init /\ [][Next]_<<shown, used>>
=============================================================================
