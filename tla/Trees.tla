------------------------------- MODULE Trees -------------------------------
(***************************************************************************)
(* JSON values as trees.  A tree maps each path of slots (array indices    *)
(* from 1, and member names) it has to the type and the scalar payload     *)
(* found there; its root is at <<>>.                                       *)
(***************************************************************************)
EXTENDS Naturals, Sequences, FiniteSets

CONSTANT Zero    \* the payload of values that have none

Leaf(type, x) == [p \in {<<>>} |-> [type |-> type, val |-> x]]
Empty(type) == Leaf(type, Zero)
Null == Empty("null")

Type(t) == t[<<>>].type
Slots(t) == {p[1] : p \in {q \in DOMAIN t : Len(q) = 1}}
Size(t) == Cardinality(Slots(t))

Inside(p, q) == Len(q) <= Len(p) /\ SubSeq(p, 1, Len(q)) = q
Rest(p, q) == SubSeq(p, Len(q) + 1, Len(p))

\* The subtree of t at p, and t with another subtree there.
At(t, p) == [q \in {Rest(x, p) : x \in {y \in DOMAIN t : Inside(y, p)}} |-> t[p \o q]]
With(t, p, new) ==
    LET kept == {x \in DOMAIN t : ~Inside(x, p)}
    IN  [x \in kept \cup {p \o q : q \in DOMAIN new} |->
            IF x \in kept THEN t[x] ELSE new[Rest(x, p)]]

As(t, type) == IF Type(t) = type THEN t ELSE Empty(type)
Inserted(t, k, x) == With(As(t, "object"), <<k>>, x)
Pushed(t, x) == LET arr == As(t, "array") IN With(arr, <<Size(arr) + 1>>, x)

\* Array t grown to `size` elements with copies of the leaf x.
Grown(t, size, x) ==
    LET arr == As(t, "array")
    IN  [p \in DOMAIN arr \cup {<<i>> : i \in 1..size} |->
            IF p \in DOMAIN arr THEN arr[p] ELSE x[<<>>]]

\* Later array elements move down by one when slot s goes.
Erased(t, s) ==
    LET shifted(p) == IF Type(t) = "array" /\ p # <<>> /\ p[1] >= s
                      THEN <<p[1] + 1>> \o Tail(p) ELSE p
        left == {p \in DOMAIN t : ~Inside(p, <<s>>)}
    IN  [p \in {q \in DOMAIN t : shifted(q) \in left} \cup
               {<<x[1] - 1>> \o Tail(x) :
                   x \in {q \in left : Type(t) = "array" /\ q # <<>> /\ q[1] > s}}
            |-> t[shifted(p)]]

\* Array t with x put before slot s.
Spliced(t, s, x) ==
    LET up(p) == IF p # <<>> /\ p[1] >= s THEN <<p[1] + 1>> \o Tail(p) ELSE p
        down(p) == IF p # <<>> /\ p[1] > s THEN <<p[1] - 1>> \o Tail(p) ELSE p
        added == {<<s>> \o q : q \in DOMAIN x}
    IN  [p \in {up(q) : q \in DOMAIN t} \cup added |->
            IF p \in added THEN x[Tail(p)] ELSE t[down(p)]]

NodeCount(t) == Cardinality(DOMAIN t)

-----------------------------------------------------------------------------
(* The trees that are JSON documents.                                       *)

\* The way to p, p included.
Prefixes(p) == {SubSeq(p, 1, n) : n \in 0..Len(p)}

\* Only objects and arrays have anything below them, and the elements of an
\* array follow each other.
IsDocument(t) ==
    /\ IsFiniteSet(DOMAIN t) /\ t = [p \in DOMAIN t |-> t[p]]
    /\ <<>> \in DOMAIN t /\ DOMAIN t \subseteq Seq(Nat)
    /\ \A p \in DOMAIN t :
        /\ \A q \in Prefixes(p) \ {p} :
            q \in DOMAIN t /\ t[q].type \in {"object", "array"}
        /\ t[p].type = "array" => Slots(At(t, p)) = 1..Size(At(t, p))
=============================================================================
