---------------------------- MODULE MergePatchMC ----------------------------
(* Every merge patch of two levels over two members, on documents of one.   *)
EXTENDS MergePatch

CONSTANTS MemberA, MemberB, LetterX, LetterY

Text == Leaf("string", LetterX)
List == Pushed(Pushed(Empty("array"), Text), Null)

Objects(values) ==
    {[p \in {<<>>} \cup UNION {{<<k>> \o q : q \in DOMAIN m[k]} : k \in DOMAIN m} |->
        IF p = <<>> THEN Empty("object")[<<>>] ELSE m[p[1]][Tail(p)]] :
        m \in UNION {[ks -> values] : ks \in SUBSET {MemberA, MemberB}}}

Scalars == {Null, Text, List}
MCPatches == Scalars \cup Objects(Scalars \cup Objects({Null, Text}))
MCTargets ==
    {Null, Leaf("string", LetterY)}
    \cup Objects({Leaf("string", LetterY), Inserted(Inserted(Empty("object"), MemberA, List), MemberB, Null)})
=============================================================================
