------------------------------ MODULE PatchMC ------------------------------
(* Patch on three documents and every patch of up to two operations over   *)
(* eight pointers: the root, a member, an element of it, its end by index  *)
(* and by "-", a member of it, and digit tokens (an index or a name).      *)
EXTENDS Patch

CONSTANTS MemberA, Letter, MaxOps

Text == Leaf("string", Letter)
List == Pushed(Empty("array"), Text)
Numbered == Inserted(Empty("object"), 0, Null)

\* {"a": ["x", null]}, {"a": {"a": "x"}} and ["x", {"0": null}].
MCTargets ==
    {Inserted(Empty("object"), MemberA, Pushed(List, Null)),
     Inserted(Empty("object"), MemberA, Inserted(Empty("object"), MemberA, Text)),
     Pushed(List, Numbered)}

Pointers == {<<>>, <<MemberA>>, <<MemberA, 0>>, <<MemberA, 2>>, <<MemberA, Dash>>,
             <<MemberA, MemberA>>, <<0>>, <<1, 0>>}
Sources == {<<>>, <<MemberA>>, <<MemberA, 0>>, <<MemberA, MemberA>>, <<0>>}

Op(op, path, from, value, defect) ==
    [op |-> op, path |-> path, from |-> from, value |-> value, defect |-> defect]

Operations ==
    {Op("add", p, <<>>, v, "none") : p \in Pointers, v \in {Text, List}}
    \cup {Op(op, p, <<>>, Text, "none") : op \in {"replace", "test"}, p \in Pointers}
    \cup {Op("remove", p, <<>>, Null, "none") : p \in Pointers}
    \cup {Op(op, p, f, Null, "none") : op \in {"copy", "move"}, p \in Pointers, f \in Sources}
    \cup {Op(op, <<>>, <<>>, Null, d) : op \in {"add", "move"},
            d \in {"OperationNotObject", "MissingOp", "InvalidOp", "MissingPath",
                   "InvalidPath", "MissingFrom", "InvalidFrom", "MissingValue"}}

MCPatches == UNION {[1..n -> Operations] : n \in 0..MaxOps}
=============================================================================
