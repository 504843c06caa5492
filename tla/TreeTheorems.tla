--------------------------- MODULE TreeTheorems ---------------------------
(***************************************************************************)
(* What the edits of Trees preserve, for the proofs about the components   *)
(* that rewrite a document.                                                *)
(***************************************************************************)
EXTENDS Trees, FiniteSetTheorems, FunctionTheorems, SequenceTheorems,
        WellFoundedInduction, TLAPS

(* Finite trees stay finite: every helper a call rewrites its clone with    *)
(* leaves a tree with finitely many nodes, so that nodes can be counted.    *)

\* The elements a function takes on a finite set are no more than its arguments.
LEMMA FiniteImage ==
    ASSUME NEW S, IsFiniteSet(S), NEW f, DOMAIN f = S, f = [x \in S |-> f[x]]
    PROVE  /\ IsFiniteSet({f[x] : x \in S})
           /\ Cardinality({f[x] : x \in S}) <= Cardinality(S)
  <1> DEFINE T == {f[x] : x \in S}
  <1>1. f \in Surjection(S, T)
    BY DEF Surjection
  <1> QED
    BY <1>1, FS_Surjection

\* Trees!At: a subtree of a finite tree is finite.
LEMMA FiniteAt ==
    ASSUME NEW t, IsFiniteSet(DOMAIN t), NEW p
    PROVE  IsFiniteSet(DOMAIN At(t, p))
  <1> DEFINE S == {y \in DOMAIN t : Inside(y, p)}
             f == [x \in S |-> Rest(x, p)]
  <1>1. IsFiniteSet(S)
    BY FS_Subset
  <1>2. IsFiniteSet({f[x] : x \in S})
    BY <1>1, FiniteImage
  <1>3. DOMAIN At(t, p) = {f[x] : x \in S}
    BY DEF At
  <1> QED
    BY <1>2, <1>3

\* Trees!With: putting a finite tree into a finite tree gives a finite tree.
LEMMA FiniteWith ==
    ASSUME NEW t, IsFiniteSet(DOMAIN t), NEW p, NEW new, IsFiniteSet(DOMAIN new)
    PROVE  IsFiniteSet(DOMAIN With(t, p, new))
  <1> DEFINE kept == {x \in DOMAIN t : ~Inside(x, p)}
             f == [q \in DOMAIN new |-> p \o q]
  <1>1. IsFiniteSet(kept)
    BY FS_Subset
  <1>2. IsFiniteSet({f[q] : q \in DOMAIN new})
    BY FiniteImage
  <1>3. DOMAIN With(t, p, new) = kept \cup {f[q] : q \in DOMAIN new}
    BY DEF With
  <1> QED
    BY <1>1, <1>2, <1>3, FS_Union

\* Trees!Spliced: inserting an array element keeps a tree finite.
LEMMA FiniteSpliced ==
    ASSUME NEW t, IsFiniteSet(DOMAIN t), NEW s, NEW x, IsFiniteSet(DOMAIN x)
    PROVE  IsFiniteSet(DOMAIN Spliced(t, s, x))
  <1> DEFINE up(p) == IF p # <<>> /\ p[1] >= s THEN <<p[1] + 1>> \o Tail(p) ELSE p
             f == [q \in DOMAIN t |-> up(q)]
             g == [q \in DOMAIN x |-> <<s>> \o q]
  <1>1. /\ DOMAIN f = DOMAIN t /\ f = [q \in DOMAIN t |-> f[q]]
        /\ DOMAIN g = DOMAIN x /\ g = [q \in DOMAIN x |-> g[q]]
    OBVIOUS
  <1>2. DOMAIN Spliced(t, s, x) = {f[q] : q \in DOMAIN t} \cup {g[q] : q \in DOMAIN x}
    BY DEF Spliced
  <1> HIDE DEF f, g
  <1>3. IsFiniteSet({f[q] : q \in DOMAIN t}) /\ IsFiniteSet({g[q] : q \in DOMAIN x})
    BY <1>1, FiniteImage
  <1> QED
    BY <1>2, <1>3, FS_Union

\* Trees!Erased: removing an array element or member keeps a tree finite.
LEMMA FiniteErased ==
    ASSUME NEW t, IsFiniteSet(DOMAIN t), NEW s
    PROVE  IsFiniteSet(DOMAIN Erased(t, s))
  <1> DEFINE left == {p \in DOMAIN t : ~Inside(p, <<s>>)}
             above == {q \in left : Type(t) = "array" /\ q # <<>> /\ q[1] > s}
             f == [x \in above |-> <<x[1] - 1>> \o Tail(x)]
  <1>1. IsFiniteSet(above)
    BY FS_Subset
  <1>2. IsFiniteSet({f[x] : x \in above})
    BY <1>1, FiniteImage
  <1>3. PICK kept \in SUBSET DOMAIN t :
            DOMAIN Erased(t, s) = kept \cup {f[x] : x \in above}
    BY DEF Erased
  <1>4. IsFiniteSet(kept)
    BY <1>3, FS_Subset
  <1> QED
    BY <1>2, <1>3, <1>4, FS_Union

\* Trees!Leaf: a leaf has one node.
LEMMA FiniteLeaf == ASSUME NEW type, NEW x
                    PROVE  IsFiniteSet(DOMAIN Leaf(type, x))
  BY FS_Singleton DEF Leaf

\* Trees!Pushed: appending an element keeps a tree finite.
LEMMA FinitePushed ==
    ASSUME NEW t, IsFiniteSet(DOMAIN t), NEW x, IsFiniteSet(DOMAIN x)
    PROVE  IsFiniteSet(DOMAIN Pushed(t, x))
  <1>1. IsFiniteSet(DOMAIN As(t, "array"))
    BY FiniteLeaf DEF As, Empty
  <1> QED
    BY <1>1, FiniteWith DEF Pushed

\* A tree with finitely many nodes has a natural number of them.
LEMMA CountType ==
    ASSUME NEW t, IsFiniteSet(DOMAIN t)
    PROVE  NodeCount(t) \in Nat
  BY FS_CardinalityType DEF NodeCount

-----------------------------------------------------------------------------
(* Paths.  One is inside another when it extends it.                        *)

Path == Seq(Nat)

\* Trees!Inside, slot by slot.
LEMMA InsideSlots ==
    ASSUME NEW p \in Path, NEW q \in Path
    PROVE  Inside(p, q) <=> Len(q) <= Len(p) /\ \A i \in 1..Len(q) : p[i] = q[i]
  <1>1. Len(p) \in Nat /\ Len(q) \in Nat
    BY DEF Path
  <1>2. ASSUME Len(q) <= Len(p)
        PROVE  /\ SubSeq(p, 1, Len(q)) \in Seq(Nat)
               /\ Len(SubSeq(p, 1, Len(q))) = Len(q)
               /\ \A i \in 1..Len(q) : SubSeq(p, 1, Len(q))[i] = p[i]
    <2>1. \A i \in 1..Len(q) : p[i] \in Nat
      BY <1>1, <1>2, ElementOfSeq DEF Path
    <2> QED
      BY <1>1, <2>1, SubSeqProperties
  <1>3. ASSUME Len(q) <= Len(p), \A i \in 1..Len(q) : p[i] = q[i]
        PROVE  SubSeq(p, 1, Len(q)) = q
    BY <1>2, <1>3, SeqEqual DEF Path
  <1> QED
    BY <1>2, <1>3 DEF Inside

\* A path extends itself and what its extensions extend.
LEMMA InsideOrder ==
    ASSUME NEW p \in Path, NEW q \in Path, NEW r \in Path
    PROVE  /\ Inside(p, p)
           /\ Inside(p, q) /\ Inside(q, r) => Inside(p, r)
           /\ Inside(p, q) /\ Inside(q, p) => p = q
  <1>1. Len(p) \in Nat /\ Len(q) \in Nat /\ Len(r) \in Nat
    BY DEF Path
  <1>2. Inside(p, p)
    BY <1>1, InsideSlots
  <1>3. Inside(p, q) /\ Inside(q, r) => Inside(p, r)
    BY <1>1, InsideSlots
  <1>4. Inside(p, q) /\ Inside(q, p) => p = q
    BY <1>1, InsideSlots, SeqEqual DEF Path
  <1> QED
    BY <1>2, <1>3, <1>4

\* The member k of the object at c lies below c, and two members lie apart.
LEMMA InsideMember ==
    ASSUME NEW c \in Path, NEW k \in Nat
    PROVE  /\ Append(c, k) \in Path
           /\ Inside(Append(c, k), c)
           /\ ~Inside(c, Append(c, k))
           /\ \A w \in Path :
                Inside(Append(c, k), w) => w = Append(c, k) \/ Inside(c, w)
           /\ \A j \in Nat : Inside(Append(c, k), Append(c, j)) => j = k
  <1>1. /\ Append(c, k) \in Path /\ Len(c) \in Nat
        /\ Len(Append(c, k)) = Len(c) + 1
        /\ \A i \in 1..Len(c) : Append(c, k)[i] = c[i]
        /\ Append(c, k)[Len(c) + 1] = k
    BY AppendProperties DEF Path
  <1>2. Inside(Append(c, k), c) /\ ~Inside(c, Append(c, k))
    <2>1. Inside(Append(c, k), c) <=>
            Len(c) <= Len(Append(c, k)) /\ \A i \in 1..Len(c) : Append(c, k)[i] = c[i]
      BY <1>1, InsideSlots
    <2>2. Inside(c, Append(c, k)) => Len(Append(c, k)) <= Len(c)
      BY <1>1, InsideSlots
    <2> QED
      BY <1>1, <2>1, <2>2
  <1>3. ASSUME NEW w \in Path, Inside(Append(c, k), w)
        PROVE  w = Append(c, k) \/ Inside(c, w)
    <2>1. Len(w) \in Nat /\ Len(w) <= Len(c) + 1
          /\ \A i \in 1..Len(w) : Append(c, k)[i] = w[i]
      <3>1. Len(w) \in Nat
        BY DEF Path
      <3>2. Len(w) <= Len(Append(c, k)) /\ \A i \in 1..Len(w) : Append(c, k)[i] = w[i]
        BY <1>1, <1>3, InsideSlots
      <3> QED
        BY <1>1, <3>1, <3>2
    <2>2. CASE Len(w) = Len(c) + 1
      BY <1>1, <2>1, <2>2, SeqEqual DEF Path
    <2>3. CASE Len(w) <= Len(c)
      BY <1>1, <2>1, <2>3, InsideSlots
    <2> QED
      BY <1>1, <2>1, <2>2, <2>3
  <1>4. ASSUME NEW j \in Nat, Inside(Append(c, k), Append(c, j)) PROVE j = k
    <2>1. /\ Append(c, j) \in Path
          /\ Len(Append(c, j)) = Len(c) + 1
          /\ Append(c, j)[Len(c) + 1] = j
      BY AppendProperties DEF Path
    <2>2. \A i \in 1..Len(Append(c, j)) : Append(c, k)[i] = Append(c, j)[i]
      BY <1>1, <1>4, <2>1, InsideSlots
    <2>3. Len(c) + 1 \in 1..Len(Append(c, j))
      BY <1>1, <2>1
    <2> QED
      BY <1>1, <2>1, <2>2, <2>3
  <1> QED
    BY <1>1, <1>2, <1>3, <1>4

\* Trees!Rest undoes concatenation.
LEMMA RestOfConcat ==
    ASSUME NEW p \in Path, NEW q \in Path
    PROVE  /\ p \o q \in Path /\ Inside(p \o q, p) /\ Rest(p \o q, p) = q
           /\ p \o <<>> = p
  <1>1. /\ p \o q \in Path /\ Len(p \o q) = Len(p) + Len(q)
        /\ \A i \in 1..Len(p) + Len(q) :
            (p \o q)[i] = IF i <= Len(p) THEN p[i] ELSE q[i - Len(p)]
        /\ Len(p) \in Nat /\ Len(q) \in Nat
    BY ConcatProperties DEF Path
  <1>2. Inside(p \o q, p)
    <2>1. Inside(p \o q, p) <=>
            Len(p) <= Len(p \o q) /\ \A i \in 1..Len(p) : (p \o q)[i] = p[i]
      BY <1>1, InsideSlots
    <2> QED
      BY <1>1, <2>1
  <1>3. \A i \in Len(p) + 1..Len(p) + Len(q) : (p \o q)[i] \in Nat
    BY <1>1, ElementOfSeq DEF Path
  <1>4. /\ Rest(p \o q, p) \in Seq(Nat)
        /\ Len(Rest(p \o q, p)) = Len(q)
        /\ \A i \in 1..Len(q) : Rest(p \o q, p)[i] = (p \o q)[Len(p) + 1 + i - 1]
    BY <1>1, <1>3, SubSeqProperties DEF Rest
  <1>5. ASSUME NEW i \in 1..Len(q) PROVE Rest(p \o q, p)[i] = q[i]
    <2>1. /\ Len(p) + 1 + i - 1 = Len(p) + i
          /\ Len(p) + i \in 1..Len(p) + Len(q)
          /\ ~(Len(p) + i <= Len(p)) /\ Len(p) + i - Len(p) = i
      BY <1>1
    <2>2. Rest(p \o q, p)[i] = (p \o q)[Len(p) + i]
      BY <1>4, <2>1
    <2> QED
      BY <1>1, <2>1, <2>2
  <1>6. Rest(p \o q, p) = q
    BY <1>4, <1>5, SeqEqual DEF Path
  <1> QED
    BY <1>1, <1>2, <1>6, ConcatEmptySeq DEF Path

\* A path inside p is p followed by its rest.
LEMMA ConcatRest ==
    ASSUME NEW p \in Path, NEW x \in Path, Inside(x, p)
    PROVE  Rest(x, p) \in Path /\ p \o Rest(x, p) = x
  <1>1. /\ Len(p) \in Nat /\ Len(x) \in Nat /\ Len(p) <= Len(x)
        /\ \A i \in 1..Len(p) : x[i] = p[i]
    BY InsideSlots DEF Path
  <1>2. \A i \in Len(p) + 1..Len(x) : x[i] \in Nat
    BY <1>1, ElementOfSeq DEF Path
  <1>3. /\ Rest(x, p) \in Seq(Nat)
        /\ Len(Rest(x, p)) = Len(x) - Len(p)
        /\ \A i \in 1..Len(x) - Len(p) : Rest(x, p)[i] = x[Len(p) + 1 + i - 1]
    BY <1>1, <1>2, SubSeqProperties DEF Rest
  <1>4. /\ p \o Rest(x, p) \in Path /\ Len(p \o Rest(x, p)) = Len(x)
        /\ \A i \in 1..Len(x) : (p \o Rest(x, p))[i] =
                IF i <= Len(p) THEN p[i] ELSE Rest(x, p)[i - Len(p)]
    BY <1>1, <1>3, ConcatProperties DEF Path
  <1>5. ASSUME NEW i \in 1..Len(x) PROVE (p \o Rest(x, p))[i] = x[i]
    <2>1. CASE i <= Len(p)
      BY <1>1, <1>4, <2>1
    <2>2. CASE ~(i <= Len(p))
      <3>1. i - Len(p) \in 1..Len(x) - Len(p) /\ Len(p) + 1 + (i - Len(p)) - 1 = i
        BY <1>1, <2>2
      <3>2. Rest(x, p)[i - Len(p)] = x[i]
        BY <1>3, <3>1
      <3> QED
        BY <1>4, <2>2, <3>2
    <2> QED
      BY <2>1, <2>2
  <1> QED
    BY <1>3, <1>4, <1>5, SeqEqual DEF Path

\* Two places on the way to a third lie on one way.
LEMMA OnOneWay ==
    ASSUME NEW p \in Path, NEW q \in Path, NEW r \in Path, Inside(p, q), Inside(p, r)
    PROVE  Inside(q, r) \/ Inside(r, q)
  <1>1. Len(p) \in Nat /\ Len(q) \in Nat /\ Len(r) \in Nat
    BY DEF Path
  <1>2. /\ \A i \in 1..Len(q) : p[i] = q[i]
        /\ \A i \in 1..Len(r) : p[i] = r[i]
    BY InsideSlots
  <1>3. CASE Len(r) <= Len(q)
    BY <1>1, <1>2, <1>3, InsideSlots
  <1>4. CASE Len(q) <= Len(r)
    BY <1>1, <1>2, <1>4, InsideSlots
  <1> QED
    BY <1>1, <1>3, <1>4

\* Below a place begins one of its members.
LEMMA NextMember ==
    ASSUME NEW p \in Path, NEW c \in Path, Inside(p, c), p # c
    PROVE  \E k \in Nat : Inside(p, Append(c, k))
  <1>1. Len(p) \in Nat /\ Len(c) \in Nat /\ Len(c) <= Len(p) /\ \A i \in 1..Len(c) : p[i] = c[i]
    BY InsideSlots DEF Path
  <1>2. Len(c) # Len(p)
    <2>1. p = [i \in 1..Len(p) |-> p[i]] /\ c = [i \in 1..Len(c) |-> c[i]]
      BY DEF Path
    <2> QED
      BY <1>1, <2>1
  <1>3. Len(c) + 1 \in 1..Len(p)
    BY <1>1, <1>2
  <1> DEFINE k == p[Len(c) + 1]
  <1>4. k \in Nat
    BY <1>3, ElementOfSeq DEF Path
  <1> HIDE DEF k
  <1>5. /\ Append(c, k) \in Path /\ Len(Append(c, k)) = Len(c) + 1
        /\ \A i \in 1..Len(c) : Append(c, k)[i] = c[i]
        /\ Append(c, k)[Len(c) + 1] = k
    BY <1>4, AppendProperties DEF Path
  <1>6. \A i \in 1..Len(Append(c, k)) : p[i] = Append(c, k)[i]
    BY <1>1, <1>5 DEF k
  <1>7. Len(Append(c, k)) <= Len(p)
    BY <1>1, <1>3, <1>5
  <1>8. Inside(p, Append(c, k))
    BY <1>5, <1>6, <1>7, InsideSlots
  <1> QED
    BY <1>4, <1>8

-----------------------------------------------------------------------------
(* Trees.                                                                   *)

IsTree(t) == IsFiniteSet(DOMAIN t) /\ <<>> \in DOMAIN t /\ DOMAIN t \subseteq Path

\* Trees!At reads the subtree.
LEMMA AtTree ==
    ASSUME NEW t, IsTree(t), NEW p \in DOMAIN t
    PROVE  /\ IsTree(At(t, p))
           /\ \A q \in Path : q \in DOMAIN At(t, p) <=> p \o q \in DOMAIN t
           /\ \A q \in DOMAIN At(t, p) : At(t, p)[q] = t[p \o q]
  <1> DEFINE below == {y \in DOMAIN t : Inside(y, p)}
  <1>1. DOMAIN At(t, p) = {Rest(x, p) : x \in below}
        /\ \A q \in DOMAIN At(t, p) : At(t, p)[q] = t[p \o q]
    BY DEF At
  <1>2. p \in Path /\ below \subseteq Path
    BY DEF IsTree
  <1>3. DOMAIN At(t, p) \subseteq Path
    BY <1>1, <1>2, ConcatRest
  <1>4. ASSUME NEW q \in DOMAIN At(t, p) PROVE p \o q \in DOMAIN t
    <2>1. PICK x \in below : q = Rest(x, p)
      BY <1>1
    <2> QED
      BY <1>2, <2>1, ConcatRest
  <1>5. ASSUME NEW q \in Path, p \o q \in DOMAIN t PROVE q \in DOMAIN At(t, p)
    BY <1>1, <1>2, <1>5, RestOfConcat
  <1>6. <<>> \in DOMAIN At(t, p)
    <2>1. <<>> \in Path
      BY EmptySeq DEF Path
    <2> QED
      BY <1>2, <1>5, <2>1, RestOfConcat
  <1>7. IsFiniteSet(DOMAIN At(t, p))
    BY FiniteAt DEF IsTree
  <1> QED
    BY <1>1, <1>3, <1>4, <1>5, <1>6, <1>7 DEF IsTree

\* Trees!As keeps or empties a tree.
LEMMA AsTree ==
    ASSUME NEW t, IsTree(t), NEW type
    PROVE  /\ IsTree(As(t, type)) /\ Type(As(t, type)) = type
           /\ DOMAIN As(t, type) \subseteq DOMAIN t
  <1>1. <<>> \in Path
    BY EmptySeq DEF Path
  <1>2. IsTree(Empty(type)) /\ Type(Empty(type)) = type /\ DOMAIN Empty(type) = {<<>>}
    BY <1>1, FiniteLeaf DEF Empty, Leaf, IsTree, Type
  <1> QED
    BY <1>2 DEF As, IsTree

\* Trees!With changes nothing outside the place it writes to.
LEMMA WithTree ==
    ASSUME NEW t, IsTree(t), NEW p \in Path, NEW new, IsTree(new)
    PROVE  /\ IsTree(With(t, p, new))
           /\ p \in DOMAIN With(t, p, new) /\ With(t, p, new)[p] = new[<<>>]
           /\ \A x \in DOMAIN t : ~Inside(x, p) =>
                x \in DOMAIN With(t, p, new) /\ With(t, p, new)[x] = t[x]
           /\ \A q \in DOMAIN new :
                p \o q \in DOMAIN With(t, p, new) /\ With(t, p, new)[p \o q] = new[q]
  <1> DEFINE kept == {x \in DOMAIN t : ~Inside(x, p)}
             u == With(t, p, new)
  <1>1. /\ DOMAIN u = kept \cup {p \o q : q \in DOMAIN new}
        /\ \A x \in DOMAIN u : u[x] = IF x \in kept THEN t[x] ELSE new[Rest(x, p)]
    BY DEF With
  <1>2. \A q \in DOMAIN new :
            p \o q \in Path /\ Inside(p \o q, p) /\ Rest(p \o q, p) = q
    BY RestOfConcat DEF IsTree
  <1>3. p \o <<>> = p
    BY RestOfConcat, EmptySeq DEF Path
  <1>4. <<>> \in DOMAIN new /\ DOMAIN t \subseteq Path
    BY DEF IsTree
  <1>5. \A q \in DOMAIN new : p \o q \in DOMAIN u /\ u[p \o q] = new[q]
    BY <1>1, <1>2
  <1>6. <<>> \in DOMAIN u
    <2>1. CASE Inside(<<>>, p)
      <3>1. p = <<>>
        <4>1. Len(p) \in Nat /\ Len(<<>>) = 0
          BY DEF Path
        <4>2. Len(p) = 0
          BY <2>1, <4>1 DEF Inside
        <4> QED
          BY <4>2, EmptySeq DEF Path
      <3> QED
        BY <1>3, <1>4, <1>5, <3>1
    <2>2. CASE ~Inside(<<>>, p)
      BY <1>1, <2>2 DEF IsTree
    <2> QED
      BY <2>1, <2>2
  <1>7. IsFiniteSet(DOMAIN u)
    BY FiniteWith DEF IsTree
  <1>8. DOMAIN u \subseteq Path
    BY <1>1, <1>2, <1>4
  <1>9. IsTree(u)
    BY <1>6, <1>7, <1>8 DEF IsTree
  <1>10. \A x \in DOMAIN t : ~Inside(x, p) => x \in DOMAIN u /\ u[x] = t[x]
    BY <1>1
  <1>11. p \in DOMAIN u /\ u[p] = new[<<>>]
    BY <1>3, <1>4, <1>5
  <1> HIDE DEF u
  <1> QED
    BY <1>5, <1>9, <1>10, <1>11 DEF u

\* Writing a smaller value in a place makes no tree larger.
LEMMA WithSmaller ==
    ASSUME NEW t, IsTree(t), NEW p \in DOMAIN t, NEW new, IsTree(new),
           DOMAIN new \subseteq DOMAIN At(t, p)
    PROVE  DOMAIN With(t, p, new) \subseteq DOMAIN t
  <1>1. DOMAIN With(t, p, new) =
            {x \in DOMAIN t : ~Inside(x, p)} \cup {p \o q : q \in DOMAIN new}
    BY DEF With
  <1>2. \A q \in DOMAIN new : p \o q \in DOMAIN t
    BY AtTree DEF IsTree
  <1> QED
    BY <1>1, <1>2

\* A part of a tree has no more nodes than the tree.
LEMMA CountPart ==
    ASSUME NEW t, IsTree(t), NEW u, DOMAIN u \subseteq DOMAIN t
    PROVE  NodeCount(u) <= NodeCount(t)
  BY FS_Subset DEF IsTree, NodeCount

\* Writing a value adds at most its nodes.
LEMMA CountWith ==
    ASSUME NEW t, IsTree(t), NEW p, NEW new, IsTree(new)
    PROVE  NodeCount(With(t, p, new)) <= NodeCount(t) + NodeCount(new)
  <1> DEFINE kept == {x \in DOMAIN t : ~Inside(x, p)}
             f == [q \in DOMAIN new |-> p \o q]
             put == {f[q] : q \in DOMAIN new}
  <1>1. DOMAIN With(t, p, new) = kept \cup put
    BY DEF With
  <1>2. IsFiniteSet(kept) /\ Cardinality(kept) <= Cardinality(DOMAIN t)
    BY FS_Subset DEF IsTree
  <1>3. IsFiniteSet(put) /\ Cardinality(put) <= Cardinality(DOMAIN new)
    BY FiniteImage DEF IsTree
  <1> HIDE DEF kept, put
  <1>4. /\ Cardinality(kept) \in Nat /\ Cardinality(put) \in Nat
        /\ Cardinality(DOMAIN t) \in Nat /\ Cardinality(DOMAIN new) \in Nat
        /\ Cardinality(kept \cap put) \in Nat
    BY <1>2, <1>3, FS_CardinalityType, FS_Intersection DEF IsTree
  <1>5. Cardinality(kept \cup put) =
            Cardinality(kept) + Cardinality(put) - Cardinality(kept \cap put)
    BY <1>2, <1>3, FS_Union
  <1> QED
    BY <1>1, <1>2, <1>3, <1>4, <1>5 DEF NodeCount

\* The slots of an object in a tree are the names of its members.
LEMMA SlotsAreMembers ==
    ASSUME NEW t, IsTree(t), NEW c \in DOMAIN t, NEW k \in Slots(At(t, c))
    PROVE  k \in Nat /\ Append(c, k) \in DOMAIN t
  <1>1. PICK q \in DOMAIN At(t, c) : Len(q) = 1 /\ k = q[1]
    BY DEF Slots
  <1>2. q \in Path /\ c \in Path
    BY AtTree DEF IsTree
  <1>3. k \in Nat
    <2>1. 1 \in 1..Len(q)
      BY <1>1
    <2> QED
      BY <1>1, <1>2, <2>1, ElementOfSeq DEF Path
  <1>4. q = <<k>>
    BY <1>1, <1>2, <1>3, SeqEqual DEF Path
  <1>5. c \o q = Append(c, k)
    BY <1>2, <1>3, <1>4, AppendIsConcat DEF Path
  <1> QED
    BY <1>2, <1>3, <1>5, AtTree

LEMMA MembersAreSlots ==
    ASSUME NEW t, IsTree(t), NEW c \in DOMAIN t, NEW k \in Nat, Append(c, k) \in DOMAIN t
    PROVE  k \in Slots(At(t, c))
  <1>1. c \in Path /\ <<k>> \in Path /\ c \o <<k>> = Append(c, k)
    BY AppendIsConcat DEF IsTree, Path
  <1>2. <<k>> \in DOMAIN At(t, c)
    BY <1>1, AtTree
  <1>3. Len(<<k>>) = 1 /\ <<k>>[1] = k
    OBVIOUS
  <1> QED
    BY <1>2, <1>3 DEF Slots

\* Erasing member k of the object at c changes nothing but that member.
LEMMA EraseMember ==
    ASSUME NEW t, IsTree(t), NEW c \in DOMAIN t, t[c].type = "object", NEW k \in Nat
    PROVE  LET u == With(t, c, Erased(At(t, c), k))
           IN  /\ IsTree(u) /\ DOMAIN u \subseteq DOMAIN t
               /\ \A x \in DOMAIN t : ~Inside(x, Append(c, k)) =>
                    x \in DOMAIN u /\ u[x] = t[x]
  <1> DEFINE here == At(t, c)
             less == Erased(here, k)
             u == With(t, c, less)
  <1>1. c \in Path /\ <<>> \in Path /\ c \o <<>> = c
    BY EmptySeq, RestOfConcat DEF IsTree, Path
  <1>2. /\ IsTree(here)
        /\ \A q \in Path : q \in DOMAIN here <=> c \o q \in DOMAIN t
        /\ \A q \in DOMAIN here : here[q] = t[c \o q]
    BY AtTree
  <1>3. Type(here) = "object"
    BY <1>1, <1>2 DEF Type, IsTree
  <1> HIDE DEF here
  <1>4. /\ DOMAIN less = {p \in DOMAIN here : ~Inside(p, <<k>>)}
        /\ \A p \in DOMAIN less : less[p] = here[p]
    BY <1>3 DEF Erased
  <1>5. <<k>> \in Path /\ Append(c, k) \in Path /\ c \o <<k>> = Append(c, k)
    BY <1>1, AppendIsConcat, AppendProperties DEF Path
  <1>6. IsTree(less)
    <2>1. ~Inside(<<>>, <<k>>)
      BY DEF Inside
    <2>2. IsFiniteSet(DOMAIN less)
      BY <1>2, <1>4, FS_Subset DEF IsTree
    <2> QED
      BY <1>2, <1>4, <2>1, <2>2 DEF IsTree
  <1> HIDE DEF less
  <1>7. DOMAIN less \subseteq DOMAIN here
    BY <1>4
  <1>8. IsTree(u) /\ DOMAIN u \subseteq DOMAIN t
    BY <1>1, <1>6, <1>7, WithTree, WithSmaller DEF here
  <1>written. /\ \A x \in DOMAIN t : ~Inside(x, c) => x \in DOMAIN u /\ u[x] = t[x]
              /\ \A q \in DOMAIN less : c \o q \in DOMAIN u /\ u[c \o q] = less[q]
    <2>1. \A x \in DOMAIN t : ~Inside(x, c) => x \in DOMAIN u /\ u[x] = t[x]
      BY DEF With
    <2>2. \A q \in DOMAIN less : c \o q \in DOMAIN u /\ u[c \o q] = less[q]
      BY <1>1, <1>6, WithTree
    <2> QED
      BY <2>1, <2>2
  <1> HIDE DEF u
  <1>9. ASSUME NEW x \in DOMAIN t, ~Inside(x, Append(c, k))
        PROVE  x \in DOMAIN u /\ u[x] = t[x]
    <2>1. CASE ~Inside(x, c)
      BY <1>written, <2>1
    <2>2. CASE Inside(x, c)
      <3> DEFINE q == Rest(x, c)
      <3>1. x \in Path /\ q \in Path /\ c \o q = x
        BY <1>1, <2>2, ConcatRest DEF IsTree
      <3> HIDE DEF q
      <3>2. q \in DOMAIN here /\ here[q] = t[x]
        BY <1>2, <3>1
      <3>3. ~Inside(q, <<k>>)
        <4>1. SUFFICES ASSUME Inside(q, <<k>>) PROVE FALSE
          OBVIOUS
        <4>2. PICK r \in Path : q = <<k>> \o r
          BY <1>5, <3>1, <4>1, ConcatRest
        <4>3. x = Append(c, k) \o r
          <5>1. c \o (<<k>> \o r) = (c \o <<k>>) \o r
            BY <1>1, <1>5, ConcatAssociative DEF Path
          <5> QED
            BY <1>5, <3>1, <4>2, <5>1
        <4> QED
          BY <1>5, <1>9, <4>3, RestOfConcat
      <3>4. q \in DOMAIN less /\ less[q] = here[q]
        BY <1>4, <3>2, <3>3
      <3> QED
        BY <1>written, <3>1, <3>2, <3>4
    <2> QED
      BY <2>1, <2>2
  <1> QED
    BY <1>8, <1>9 DEF u, less, here

-----------------------------------------------------------------------------
(* What a tree has after a change, place by place.                          *)

\* A map is given by what it has.
IsMap(t) == t = [p \in DOMAIN t |-> t[p]]

\* u has at x what t has there, or neither has the place.
SameAt(t, u, x) == (x \in DOMAIN u <=> x \in DOMAIN t) /\ (x \in DOMAIN u => u[x] = t[x])

\* Trees!With changes what is inside the place, and nothing else.
LEMMA WithPlaces ==
    ASSUME NEW t, NEW p \in Path, NEW new, IsTree(new), NEW x \in Path,
           NEW u, u = With(t, p, new)
    PROVE  /\ IsMap(u)
           /\ ~Inside(x, p) => SameAt(t, u, x)
           /\ Inside(x, p) => /\ x \in DOMAIN u <=> Rest(x, p) \in DOMAIN new
                              /\ x \in DOMAIN u => u[x] = new[Rest(x, p)]
  <1> DEFINE kept == {y \in DOMAIN t : ~Inside(y, p)}
  <1>1. /\ u = [y \in kept \cup {p \o q : q \in DOMAIN new} |->
                    IF y \in kept THEN t[y] ELSE new[Rest(y, p)]]
    BY DEF With
  <1>2. /\ DOMAIN u = kept \cup {p \o q : q \in DOMAIN new}
        /\ \A y \in DOMAIN u : u[y] = IF y \in kept THEN t[y] ELSE new[Rest(y, p)]
    BY <1>1
  <1>3. IsMap(u)
    BY <1>1 DEF IsMap
  <1>4. \A q \in DOMAIN new : Inside(p \o q, p) /\ Rest(p \o q, p) = q
    BY RestOfConcat DEF IsTree
  <1>5. ~Inside(x, p) => SameAt(t, u, x)
    BY <1>2, <1>4 DEF SameAt
  <1>6. ASSUME Inside(x, p) PROVE /\ x \in DOMAIN u <=> Rest(x, p) \in DOMAIN new
                                  /\ x \in DOMAIN u => u[x] = new[Rest(x, p)]
    <2>1. p \o Rest(x, p) = x
      BY <1>6, ConcatRest
    <2> QED
      BY <1>2, <1>4, <1>6, <2>1
  <1> QED
    BY <1>3, <1>5, <1>6

\* A value of another tree is there as it is there.
LEMMA WithPart ==
    ASSUME NEW t, NEW s, IsTree(s), NEW p \in DOMAIN s, NEW x \in Path,
           NEW u, u = With(t, p, At(s, p))
    PROVE  /\ IsMap(u)
           /\ ~Inside(x, p) => SameAt(t, u, x)
           /\ Inside(x, p) => SameAt(s, u, x)
  <1> DEFINE here == At(s, p)
  <1>1. p \in Path
    BY DEF IsTree
  <1>2. /\ IsTree(here)
        /\ \A q \in Path : q \in DOMAIN here <=> p \o q \in DOMAIN s
        /\ \A q \in DOMAIN here : here[q] = s[p \o q]
    BY AtTree
  <1>3. u = With(t, p, here)
    OBVIOUS
  <1> HIDE DEF here
  <1>4. /\ IsMap(u)
        /\ ~Inside(x, p) => SameAt(t, u, x)
        /\ Inside(x, p) => /\ x \in DOMAIN u <=> Rest(x, p) \in DOMAIN here
                           /\ x \in DOMAIN u => u[x] = here[Rest(x, p)]
    BY <1>1, <1>2, <1>3, WithPlaces
  <1>5. ASSUME Inside(x, p) PROVE SameAt(s, u, x)
    <2>1. Rest(x, p) \in Path /\ p \o Rest(x, p) = x
      BY <1>1, <1>5, ConcatRest
    <2>2. Rest(x, p) \in DOMAIN here <=> x \in DOMAIN s
      BY <1>2, <2>1
    <2>3. Rest(x, p) \in DOMAIN here => here[Rest(x, p)] = s[x]
      BY <1>2, <2>1
    <2>4. x \in DOMAIN u <=> x \in DOMAIN s
      BY <1>4, <1>5, <2>2
    <2>5. x \in DOMAIN u => u[x] = s[x]
      BY <1>4, <1>5, <2>2, <2>3
    <2> QED
      BY <2>4, <2>5 DEF SameAt
  <1> QED
    BY <1>4, <1>5

\* An empty value has its place only.
LEMMA WithEmpty ==
    ASSUME NEW t, NEW p \in Path, NEW type, NEW x \in Path, NEW u, u = With(t, p, Empty(type))
    PROVE  /\ IsMap(u)
           /\ ~Inside(x, p) => SameAt(t, u, x)
           /\ Inside(x, p) => (x \in DOMAIN u <=> x = p)
           /\ p \in DOMAIN u /\ u[p] = Empty(type)[<<>>]
  <1> DEFINE new == Empty(type)
  <1>1. <<>> \in Path
    BY EmptySeq DEF Path
  <1>2. IsTree(new) /\ DOMAIN new = {<<>>}
    BY <1>1, FiniteLeaf DEF Empty, Leaf, IsTree
  <1>3. u = With(t, p, new)
    OBVIOUS
  <1>4. Inside(p, p) /\ Rest(p, p) = <<>> /\ (Inside(x, p) => (Rest(x, p) = <<>> <=> x = p))
    <2>1. p \o <<>> = p /\ Inside(p \o <<>>, p) /\ Rest(p \o <<>>, p) = <<>>
      BY <1>1, RestOfConcat
    <2>2. Inside(x, p) => p \o Rest(x, p) = x
      BY ConcatRest
    <2> QED
      BY <2>1, <2>2
  <1> HIDE DEF new
  <1>5. \A y \in Path :
            /\ IsMap(u)
            /\ ~Inside(y, p) => SameAt(t, u, y)
            /\ Inside(y, p) => /\ y \in DOMAIN u <=> Rest(y, p) \in DOMAIN new
                               /\ y \in DOMAIN u => u[y] = new[Rest(y, p)]
    BY <1>2, <1>3, WithPlaces
  <1>6. /\ p \in DOMAIN u <=> Rest(p, p) \in DOMAIN new
        /\ p \in DOMAIN u => u[p] = new[Rest(p, p)]
    <2>1. \A y \in Path :
            Inside(y, p) => /\ y \in DOMAIN u <=> Rest(y, p) \in DOMAIN new
                            /\ y \in DOMAIN u => u[y] = new[Rest(y, p)]
      BY <1>5
    <2> QED
      BY <1>4, <2>1
  <1>7. p \in DOMAIN u /\ u[p] = new[<<>>]
    BY <1>2, <1>4, <1>6
  <1>8. Inside(x, p) => (x \in DOMAIN u <=> x = p)
    BY <1>2, <1>4, <1>5
  <1>9. IsMap(u) /\ (~Inside(x, p) => SameAt(t, u, x))
    BY <1>5
  <1> QED
    BY <1>7, <1>8, <1>9 DEF new

\* A value that is made an object keeps what is below it if it is one.
LEMMA WithAs ==
    ASSUME NEW t, IsTree(t), NEW p \in DOMAIN t, NEW type, NEW x \in Path,
           NEW u, u = With(t, p, As(At(t, p), type))
    PROVE  /\ IsMap(u)
           /\ ~Inside(x, p) => SameAt(t, u, x)
           /\ Inside(x, p) /\ x # p =>
                /\ x \in DOMAIN u <=> x \in DOMAIN t /\ t[p].type = type
                /\ x \in DOMAIN u => u[x] = t[x]
           /\ p \in DOMAIN u
           /\ u[p] = IF t[p].type = type THEN t[p] ELSE Empty(type)[<<>>]
  <1>1. p \in Path
    BY DEF IsTree
  <1>2. Type(At(t, p)) = t[p].type
    <2>1. <<>> \in DOMAIN At(t, p) /\ p \o <<>> = p
      BY <1>1, AtTree, RestOfConcat, EmptySeq DEF IsTree, Path
    <2>2. At(t, p)[<<>>] = t[p \o <<>>]
      BY <2>1, AtTree
    <2> QED
      BY <2>1, <2>2 DEF Type
  <1>3. Inside(p, p)
    BY <1>1, InsideOrder
  <1>4. CASE t[p].type = type
    <2>1. u = With(t, p, At(t, p))
      BY <1>2, <1>4 DEF As
    <2>2. /\ IsMap(u)
          /\ ~Inside(x, p) => SameAt(t, u, x)
          /\ Inside(x, p) => SameAt(t, u, x)
      BY <2>1, WithPart
    <2>3. Inside(p, p) => SameAt(t, u, p)
      BY <1>1, <2>1, WithPart
    <2> QED
      BY <1>3, <1>4, <2>2, <2>3 DEF SameAt
  <1>5. CASE t[p].type # type
    <2>1. u = With(t, p, Empty(type))
      BY <1>2, <1>5 DEF As
    <2> QED
      BY <1>1, <1>5, <2>1, WithEmpty
  <1> QED
    BY <1>4, <1>5

\* Erasing a member takes away what is inside it, and nothing else.
LEMMA ErasedPlaces ==
    ASSUME NEW t, IsTree(t), NEW c \in DOMAIN t, t[c].type = "object", NEW k \in Nat,
           NEW u, u = With(t, c, Erased(At(t, c), k)), NEW x \in Path
    PROVE  /\ IsMap(u)
           /\ ~Inside(x, Append(c, k)) => SameAt(t, u, x)
           /\ Inside(x, Append(c, k)) => x \notin DOMAIN u
  <1> DEFINE here == At(t, c)
             less == Erased(here, k)
  <1>1. c \in Path /\ <<>> \in Path /\ c \o <<>> = c
    BY EmptySeq, RestOfConcat DEF IsTree, Path
  <1>2. /\ IsTree(here)
        /\ \A q \in Path : q \in DOMAIN here <=> c \o q \in DOMAIN t
        /\ \A q \in DOMAIN here : here[q] = t[c \o q]
    BY AtTree
  <1>3. Type(here) = "object"
    BY <1>1, <1>2 DEF Type, IsTree
  <1>eq. u = With(t, c, less)
    OBVIOUS
  <1> HIDE DEF here
  <1>4. /\ DOMAIN less = {p \in DOMAIN here : ~Inside(p, <<k>>)}
        /\ \A p \in DOMAIN less : less[p] = here[p]
    BY <1>3 DEF Erased
  <1>5. <<k>> \in Path /\ Append(c, k) \in Path /\ c \o <<k>> = Append(c, k)
    BY <1>1, AppendIsConcat, AppendProperties DEF Path
  <1>6. IsTree(less)
    <2>1. ~Inside(<<>>, <<k>>)
      BY DEF Inside
    <2>2. IsFiniteSet(DOMAIN less)
      BY <1>2, <1>4, FS_Subset DEF IsTree
    <2> QED
      BY <1>2, <1>4, <2>1, <2>2 DEF IsTree
  <1> HIDE DEF less
  <1>7. /\ IsMap(u)
        /\ ~Inside(x, c) => SameAt(t, u, x)
        /\ Inside(x, c) => /\ x \in DOMAIN u <=> Rest(x, c) \in DOMAIN less
                           /\ x \in DOMAIN u => u[x] = less[Rest(x, c)]
    BY <1>1, <1>6, <1>eq, WithPlaces
  <1>8. Inside(x, Append(c, k)) => Inside(x, c)
    BY <1>1, <1>5, InsideMember, InsideOrder
  <1>9. ASSUME Inside(x, c) PROVE Inside(x, Append(c, k)) <=> Inside(Rest(x, c), <<k>>)
    <2> DEFINE q == Rest(x, c)
    <2>1. q \in Path /\ c \o q = x
      BY <1>1, <1>9, ConcatRest
    <2> HIDE DEF q
    <2>2. ASSUME Inside(q, <<k>>) PROVE Inside(x, Append(c, k))
      <3> DEFINE r == Rest(q, <<k>>)
      <3>1. r \in Path /\ q = <<k>> \o r
        BY <1>5, <2>1, <2>2, ConcatRest
      <3> HIDE DEF r
      <3>2. x = Append(c, k) \o r
        <4>1. c \o (<<k>> \o r) = (c \o <<k>>) \o r
          BY <1>1, <1>5, ConcatAssociative DEF Path
        <4> QED
          BY <1>5, <2>1, <3>1, <4>1
      <3> QED
        BY <1>5, <3>1, <3>2, RestOfConcat
    <2>3. ASSUME Inside(x, Append(c, k)) PROVE Inside(q, <<k>>)
      <3> DEFINE r == Rest(x, Append(c, k))
      <3>1. r \in Path /\ x = Append(c, k) \o r
        BY <1>5, <2>3, ConcatRest
      <3> HIDE DEF r
      <3>2. x = c \o (<<k>> \o r) /\ <<k>> \o r \in Path
        <4>1. c \o (<<k>> \o r) = (c \o <<k>>) \o r
          BY <1>1, <1>5, ConcatAssociative DEF Path
        <4>2. <<k>> \o r \in Path
          BY <1>5, <3>1, RestOfConcat
        <4> QED
          BY <1>5, <3>1, <4>1, <4>2
      <3>3. q = <<k>> \o r
        BY <1>1, <3>2, RestOfConcat DEF q
      <3> QED
        BY <1>5, <3>1, <3>3, RestOfConcat
    <2> QED
      BY <2>2, <2>3 DEF q
  <1>10. ASSUME Inside(x, c)
         PROVE  /\ ~Inside(x, Append(c, k)) => SameAt(t, u, x)
                /\ Inside(x, Append(c, k)) => x \notin DOMAIN u
    <2> DEFINE q == Rest(x, c)
    <2>1. q \in Path /\ c \o q = x
      BY <1>1, <1>10, ConcatRest
    <2>2. /\ x \in DOMAIN u <=> q \in DOMAIN less
          /\ x \in DOMAIN u => u[x] = less[q]
      BY <1>7, <1>10
    <2>in. Inside(x, Append(c, k)) <=> Inside(q, <<k>>)
      BY <1>9, <1>10
    <2> HIDE DEF q
    <2>3. q \in DOMAIN here <=> x \in DOMAIN t
      BY <1>2, <2>1
    <2>4. q \in DOMAIN here => here[q] = t[x]
      BY <1>2, <2>1
    <2> QED
      BY <1>4, <2>2, <2>in, <2>3, <2>4 DEF SameAt
  <1> QED
    BY <1>7, <1>8, <1>10
-----------------------------------------------------------------------------
(* Documents.                                                               *)

\* The prefixes of a path are the paths it is inside of.
LEMMA PrefixesAre ==
    ASSUME NEW p \in Path, NEW q
    PROVE  q \in Prefixes(p) <=> q \in Path /\ Inside(p, q)
  <1>1. Len(p) \in Nat /\ \A i \in 1..Len(p) : p[i] \in Nat
    BY ElementOfSeq DEF Path
  <1>2. ASSUME q \in Prefixes(p) PROVE q \in Path /\ Inside(p, q)
    <2>1. PICK n \in 0..Len(p) : q = SubSeq(p, 1, n)
      BY <1>2 DEF Prefixes
    <2>2. n \in Int /\ 1 \in Int /\ \A i \in 1..n : p[i] \in Nat
      BY <1>1
    <2>3. /\ SubSeq(p, 1, n) \in Seq(Nat)
          /\ Len(SubSeq(p, 1, n)) = IF 1 <= n THEN n - 1 + 1 ELSE 0
          /\ \A i \in 1..n - 1 + 1 : SubSeq(p, 1, n)[i] = p[1 + i - 1]
      BY <2>2, SubSeqProperties
    <2>4. q \in Path /\ Len(q) = n
      BY <1>1, <2>1, <2>3 DEF Path
    <2>5. \A i \in 1..n : q[i] = p[i]
      BY <1>1, <2>1, <2>3
    <2> QED
      BY <1>1, <2>4, <2>5, InsideSlots
  <1>3. ASSUME q \in Path, Inside(p, q) PROVE q \in Prefixes(p)
    <2>1. q = SubSeq(p, 1, Len(q)) /\ Len(q) <= Len(p)
      BY <1>3 DEF Inside
    <2>2. Len(q) \in Nat
      BY <1>3 DEF Path
    <2>3. Len(q) \in 0..Len(p)
      BY <1>1, <2>1, <2>2
    <2> QED
      BY <2>1, <2>3 DEF Prefixes
  <1> QED
    BY <1>2, <1>3

\* A document, place by place.
LEMMA DocumentPlaces ==
    ASSUME NEW t, IsDocument(t)
    PROVE  /\ IsTree(t) /\ IsMap(t)
           /\ \A p \in DOMAIN t, q \in Path :
                Inside(p, q) => q \in DOMAIN t /\ (q # p => t[q].type \in {"object", "array"})
           /\ \A p \in DOMAIN t : t[p].type = "array" =>
                \E n \in Nat : /\ n = Size(At(t, p))
                               /\ \A k \in Nat : Append(p, k) \in DOMAIN t <=> k \in 1..n
  <1>1. IsTree(t) /\ IsMap(t)
    BY DEF IsDocument, IsTree, IsMap, Path
  <1>2. ASSUME NEW p \in DOMAIN t, NEW q \in Path, Inside(p, q)
        PROVE  q \in DOMAIN t /\ (q # p => t[q].type \in {"object", "array"})
    <2>1. q \in Prefixes(p)
      BY <1>1, <1>2, PrefixesAre DEF IsTree
    <2> QED
      BY <2>1 DEF IsDocument
  <1>3. ASSUME NEW p \in DOMAIN t, t[p].type = "array"
        PROVE  \E n \in Nat : /\ n = Size(At(t, p))
                              /\ \A k \in Nat : Append(p, k) \in DOMAIN t <=> k \in 1..n
    <2> DEFINE here == At(t, p)
               n == Size(here)
    <2>1. Slots(here) = 1..n
      BY <1>3 DEF IsDocument
    <2>2. IsTree(here)
      BY <1>1, AtTree
    <2>3. IsFiniteSet(Slots(here))
      <3> DEFINE S == {q \in DOMAIN here : Len(q) = 1}
                 f == [q \in S |-> q[1]]
      <3>1. IsFiniteSet(S)
        BY <2>2, FS_Subset DEF IsTree
      <3>2. DOMAIN f = S /\ f = [q \in S |-> f[q]]
        OBVIOUS
      <3>3. Slots(here) = {f[q] : q \in S}
        BY DEF Slots
      <3> HIDE DEF f, S
      <3>4. IsFiniteSet({f[q] : q \in S})
        BY <3>1, <3>2, FiniteImage
      <3> QED
        BY <3>3, <3>4
    <2>4. n \in Nat
      BY <2>3, FS_CardinalityType DEF Size
    <2>5. \A k \in Nat : k \in Slots(here) <=> Append(p, k) \in DOMAIN t
      BY <1>1, SlotsAreMembers, MembersAreSlots
    <2> QED
      BY <2>1, <2>4, <2>5
  <1> QED
    BY <1>1, <1>2, <1>3

\* What makes a tree a document.
LEMMA IsADocument ==
    ASSUME NEW t, IsTree(t), IsMap(t),
           \A p \in DOMAIN t, q \in Path :
                Inside(p, q) /\ q # p => q \in DOMAIN t /\ t[q].type \in {"object", "array"},
           \A p \in DOMAIN t : t[p].type = "array" =>
                \E n \in Nat : \A k \in Nat : Append(p, k) \in DOMAIN t <=> k \in 1..n
    PROVE  IsDocument(t)
  <1>1. ASSUME NEW p \in DOMAIN t, NEW q \in Prefixes(p) \ {p}
        PROVE  q \in DOMAIN t /\ t[q].type \in {"object", "array"}
    BY PrefixesAre DEF IsTree
  <1>2. ASSUME NEW p \in DOMAIN t, t[p].type = "array"
        PROVE  Slots(At(t, p)) = 1..Size(At(t, p))
    <2>1. PICK n \in Nat : \A k \in Nat : Append(p, k) \in DOMAIN t <=> k \in 1..n
      BY <1>2
    <2>2. \A k \in Nat : k \in Slots(At(t, p)) <=> Append(p, k) \in DOMAIN t
      BY SlotsAreMembers, MembersAreSlots
    <2>3. Slots(At(t, p)) \subseteq Nat
      BY SlotsAreMembers
    <2>4. Slots(At(t, p)) = 1..n
      <3> DEFINE ks == Slots(At(t, p))
      <3>1. ks \subseteq Nat /\ \A k \in Nat : k \in ks <=> k \in 1..n
        BY <2>1, <2>2, <2>3
      <3> HIDE DEF ks
      <3>2. \A k \in 1..n : k \in Nat
        OBVIOUS
      <3>3. ks = 1..n
        BY <3>1, <3>2
      <3> QED
        BY <3>3 DEF ks
    <2>5. Cardinality(1..n) = n
      BY FS_Interval
    <2> QED
      BY <2>4, <2>5 DEF Size
  <1> QED
    BY <1>1, <1>2 DEF IsDocument, IsTree, IsMap, Path
-----------------------------------------------------------------------------
(* Paths by their first slot, for the edits of arrays.                      *)

LEMMA ConsPath ==
    ASSUME NEW k \in Nat, NEW q \in Path
    PROVE  /\ <<k>> \o q \in Path /\ <<k>> \in Path /\ <<k>> \o q # <<>>
           /\ (<<k>> \o q)[1] = k /\ Tail(<<k>> \o q) = q
           /\ <<k>> \o <<>> = <<k>>
  <1> DEFINE p == <<k>> \o q
  <1>1. /\ <<k>> \in Path /\ Len(<<k>>) = 1 /\ <<k>>[1] = k /\ Len(q) \in Nat
    BY DEF Path
  <1>2. /\ p \in Path /\ Len(p) = 1 + Len(q)
        /\ \A i \in 1..1 + Len(q) : p[i] = IF i <= 1 THEN <<k>>[i] ELSE q[i - 1]
    BY <1>1, ConcatProperties DEF Path
  <1> HIDE DEF p
  <1>3. p # <<>> /\ p[1] = k
    <2>1. Len(<<>>) = 0
      BY EmptySeq
    <2>2. 1 \in 1..1 + Len(q) /\ Len(p) # 0
      BY <1>1, <1>2
    <2> QED
      BY <1>1, <1>2, <2>1, <2>2
  <1>4. Tail(p) = q
    <2>1. /\ Tail(p) \in Seq(Nat) /\ Len(Tail(p)) = Len(p) - 1
          /\ \A i \in 1..Len(Tail(p)) : Tail(p)[i] = p[i + 1]
      BY <1>2, <1>3, HeadTailProperties DEF Path
    <2>2. Len(Tail(p)) = Len(q)
      BY <1>1, <1>2, <2>1
    <2>3. \A i \in 1..Len(q) : p[i + 1] = q[i]
      <3>1. \A i \in 1..Len(q) : i + 1 \in 1..1 + Len(q) /\ ~(i + 1 <= 1) /\ i + 1 - 1 = i
        BY <1>1
      <3> QED
        BY <1>2, <3>1
    <2> QED
      BY <2>1, <2>2, <2>3, SeqEqual DEF Path
  <1>5. <<k>> \o <<>> = <<k>>
    BY <1>1, ConcatEmptySeq DEF Path
  <1> QED
    BY <1>1, <1>2, <1>3, <1>4, <1>5 DEF p

LEMMA PathIsCons ==
    ASSUME NEW p \in Path, p # <<>>
    PROVE  p[1] \in Nat /\ Tail(p) \in Path /\ p = <<p[1]>> \o Tail(p)
  <1>1. Len(p) \in Nat \ {0}
    BY EmptySeq DEF Path
  <1>2. p[1] \in Nat
    BY <1>1, ElementOfSeq DEF Path
  <1>3. /\ Tail(p) \in Path /\ Len(Tail(p)) = Len(p) - 1
        /\ \A i \in 1..Len(Tail(p)) : Tail(p)[i] = p[i + 1]
    BY HeadTailProperties DEF Path
  <1> DEFINE k == p[1]
             r == Tail(p)
  <1> HIDE DEF k, r
  <1>4. Len(<<k>>) = 1 /\ <<k>>[1] = k /\ <<k>> \in Path
    BY <1>2 DEF Path, k
  <1>5. /\ <<k>> \o r \in Path /\ Len(<<k>> \o r) = 1 + Len(r)
        /\ \A i \in 1..1 + Len(r) : (<<k>> \o r)[i] = IF i <= 1 THEN <<k>>[i] ELSE r[i - 1]
    BY <1>3, <1>4, ConcatProperties DEF Path, r
  <1>6. ASSUME NEW i \in 1..Len(p) PROVE p[i] = (<<k>> \o r)[i]
    <2>1. i \in 1..1 + Len(r)
      BY <1>1, <1>3 DEF r
    <2>2. CASE i = 1
      BY <1>4, <1>5, <2>1, <2>2 DEF k
    <2>3. CASE i # 1
      <3>1. ~(i <= 1) /\ i - 1 \in 1..Len(r) /\ i - 1 + 1 = i
        BY <1>1, <1>3, <2>3 DEF r
      <3> QED
        BY <1>3, <1>5, <2>1, <3>1 DEF r
    <2> QED
      BY <2>2, <2>3
  <1>7. Len(<<k>> \o r) = Len(p)
    BY <1>1, <1>3, <1>5 DEF r
  <1>8. p = <<k>> \o r
    BY <1>5, <1>6, <1>7, SeqEqual DEF Path
  <1> QED
    BY <1>2, <1>3, <1>8 DEF k, r

LEMMA PathsAssociate ==
    ASSUME NEW c \in Path, NEW p \in Path, NEW q \in Path
    PROVE  (c \o p) \o q = c \o (p \o q) /\ p \o q \in Path
  BY ConcatAssociative, ConcatProperties DEF Path

\* Extending two paths in front does not change how they lie.
LEMMA InsideShift ==
    ASSUME NEW c \in Path, NEW p \in Path, NEW q \in Path
    PROVE  /\ Inside(c \o p, c \o q) <=> Inside(p, q)
           /\ c \o p = c \o q => p = q
  <1>1. c \o p \in Path /\ Rest(c \o p, c) = p
    BY RestOfConcat
  <1>2. c \o q \in Path /\ Rest(c \o q, c) = q
    BY RestOfConcat
  <1>3. ASSUME Inside(p, q) PROVE Inside(c \o p, c \o q)
    <2> DEFINE r == Rest(p, q)
    <2>1. r \in Path /\ q \o r = p
      BY <1>3, ConcatRest
    <2> HIDE DEF r
    <2>r. r \in Path
      BY <2>1
    <2>2. (c \o q) \o r = c \o (q \o r) /\ q \o r \in Path
      BY ONLY <2>r, c \in Path, q \in Path, PathsAssociate
    <2>3. Inside((c \o q) \o r, c \o q)
      BY <1>2, <2>1, RestOfConcat
    <2> QED
      BY <2>1, <2>2, <2>3
  <1>4. ASSUME Inside(c \o p, c \o q) PROVE Inside(p, q)
    <2> DEFINE r == Rest(c \o p, c \o q)
    <2>1. r \in Path /\ (c \o q) \o r = c \o p
      BY <1>1, <1>2, <1>4, ConcatRest
    <2> HIDE DEF r
    <2>2. (c \o q) \o r = c \o (q \o r) /\ q \o r \in Path
      BY <2>1, PathsAssociate
    <2>3. Rest(c \o (q \o r), c) = q \o r
      BY <2>2, RestOfConcat
    <2>4. q \o r = p
      BY <1>1, <2>1, <2>2, <2>3
    <2>5. Inside(q \o r, q)
      BY <2>1, RestOfConcat
    <2> QED
      BY <2>4, <2>5
  <1> QED
    BY <1>1, <1>2, <1>3, <1>4

LEMMA InsideCons ==
    ASSUME NEW k \in Nat, NEW j \in Nat, NEW p \in Path, NEW q \in Path
    PROVE  /\ Inside(<<k>> \o p, <<j>> \o q) <=> k = j /\ Inside(p, q)
           /\ Inside(<<k>> \o p, <<j>>) <=> k = j
           /\ Inside(<<k>> \o p, <<>>) /\ ~Inside(<<>>, <<j>> \o q)
           /\ <<k>> \o p = <<j>> \o q <=> k = j /\ p = q
  <1>1. /\ <<k>> \o p \in Path /\ <<j>> \o q \in Path /\ <<k>> \in Path /\ <<j>> \in Path
        /\ (<<k>> \o p)[1] = k /\ (<<j>> \o q)[1] = j
        /\ Tail(<<k>> \o p) = p /\ Tail(<<j>> \o q) = q
        /\ <<j>> \o q # <<>>
    BY ConsPath
  <1>2. Len(<<j>>) = 1 /\ <<j>>[1] = j /\ Len(<<>>) = 0 /\ <<>> \in Path
    BY EmptySeq DEF Path
  <1>3. Len(<<k>> \o p) \in Nat \ {0} /\ Len(<<j>> \o q) \in Nat \ {0}
    <2>1. <<k>> \o p # <<>>
      BY ConsPath
    <2> QED
      BY <1>1, <2>1, EmptySeq DEF Path
  <1>4. Inside(<<k>> \o p, <<j>>) <=> k = j
    <2>1. Inside(<<k>> \o p, <<j>>) <=>
            Len(<<j>>) <= Len(<<k>> \o p) /\ \A i \in 1..Len(<<j>>) : (<<k>> \o p)[i] = <<j>>[i]
      BY <1>1, InsideSlots
    <2> QED
      BY <1>1, <1>2, <1>3, <2>1
  <1>5. Inside(<<k>> \o p, <<>>)
    BY <1>1, <1>2, <1>3, InsideSlots
  <1>6. ~Inside(<<>>, <<j>> \o q)
    <2> DEFINE r == <<j>> \o q
    <2>1. r \in Path /\ Len(r) \in Nat \ {0}
      BY <1>1, <1>3
    <2> HIDE DEF r
    <2>2. Inside(<<>>, r) => Len(r) <= Len(<<>>)
      BY <1>2, <2>1, InsideSlots
    <2>3. ~Inside(<<>>, r)
      BY <1>2, <2>1, <2>2
    <2> QED
      BY <2>3 DEF r
  <1>7. k = j => (Inside(<<k>> \o p, <<j>> \o q) <=> Inside(p, q))
    BY <1>1, InsideShift
  <1>8. Inside(<<k>> \o p, <<j>> \o q) => k = j
    <2>1. Inside(<<j>> \o q, <<j>>)
      BY <1>1, RestOfConcat
    <2>2. Inside(<<k>> \o p, <<j>> \o q) => Inside(<<k>> \o p, <<j>>)
      BY <1>1, <2>1, InsideOrder
    <2> QED
      BY <1>4, <2>2
  <1>9. <<k>> \o p = <<j>> \o q <=> k = j /\ p = q
    BY <1>1
  <1> QED
    BY <1>4, <1>5, <1>6, <1>7, <1>8, <1>9

LEMMA AppendShift ==
    ASSUME NEW c \in Path, NEW p \in Path, NEW k \in Nat
    PROVE  Append(c \o p, k) = c \o Append(p, k)
  <1>1. c \o p \in Path /\ <<k>> \in Path
    BY RestOfConcat DEF Path
  <1>2. Append(c \o p, k) = (c \o p) \o <<k>> /\ Append(p, k) = p \o <<k>>
    BY <1>1, AppendIsConcat DEF Path
  <1> QED
    BY <1>1, <1>2, ConcatAssociative DEF Path

\* The root's members.
LEMMA AppendToRoot == ASSUME NEW k \in Nat PROVE Append(<<>>, k) = <<k>>
  <1>1. <<>> \in Path /\ <<k>> \in Path
    BY EmptySeq DEF Path
  <1>2. Append(<<>>, k) = <<>> \o <<k>>
    BY <1>1, AppendIsConcat DEF Path
  <1> QED
    BY <1>1, <1>2, ConcatEmptySeq DEF Path

\* Paths that begin alike go on alike.
LEMMA ConsSame ==
    ASSUME NEW k \in Nat, NEW j \in Nat, NEW p \in Path, NEW q \in Path,
           <<k>> \o p = <<j>> \o q
    PROVE  k = j /\ p = q
  <1>1. (<<k>> \o p)[1] = k /\ Tail(<<k>> \o p) = p
    BY ConsPath
  <1>2. (<<j>> \o q)[1] = j /\ Tail(<<j>> \o q) = q
    BY ConsPath
  <1> QED
    BY <1>1, <1>2

\* Every path is empty or begins with a slot.
LEMMA PathCases ==
    ASSUME NEW p \in Path
    PROVE  p = <<>> \/ \E k \in Nat, q \in Path : p = <<k>> \o q
  BY PathIsCons

\* Two trees that have the same everywhere are one.
LEMMA SameMaps ==
    ASSUME NEW t, NEW u, IsMap(t), IsMap(u), DOMAIN t \subseteq Path, DOMAIN u \subseteq Path,
           \A x \in Path : SameAt(t, u, x)
    PROVE  t = u
  <1>1. DOMAIN t = DOMAIN u
    BY DEF SameAt
  <1>2. \A x \in DOMAIN u : u[x] = t[x]
    BY DEF SameAt
  <1> QED
    BY <1>1, <1>2 DEF IsMap

\* The subtree at the root is the tree.
LEMMA AtRoot == ASSUME NEW t, IsTree(t), IsMap(t) PROVE At(t, <<>>) = t
  <1> DEFINE u == At(t, <<>>)
  <1>1. <<>> \in DOMAIN t /\ DOMAIN t \subseteq Path /\ <<>> \in Path
    BY EmptySeq DEF IsTree, Path
  <1>2. \A q \in Path : <<>> \o q = q
    BY ConcatEmptySeq DEF Path
  <1>3. /\ IsTree(u)
        /\ \A q \in Path : q \in DOMAIN u <=> <<>> \o q \in DOMAIN t
        /\ \A q \in DOMAIN u : u[q] = t[<<>> \o q]
    BY <1>1, AtTree
  <1>4. IsMap(u)
    BY DEF At, IsMap
  <1> HIDE DEF u
  <1>5. \A x \in Path : SameAt(u, t, x)
    BY <1>2, <1>3 DEF SameAt
  <1> QED
    BY <1>1, <1>3, <1>4, <1>5, SameMaps DEF u, IsTree

-----------------------------------------------------------------------------
(* Array edits, slot by slot.                                               *)

\* Trees!Spliced: x is at slot s, what was there and above moved up.
LEMMA SplicedSlots ==
    ASSUME NEW t, IsTree(t), NEW s \in Nat, NEW x, IsTree(x), NEW u, u = Spliced(t, s, x)
    PROVE  /\ IsTree(u) /\ IsMap(u)
           /\ u[<<>>] = t[<<>>]
           /\ \A k \in Nat, q \in Path :
                /\ k < s => SameAt(t, u, <<k>> \o q)
                /\ k = s => /\ <<k>> \o q \in DOMAIN u <=> q \in DOMAIN x
                            /\ q \in DOMAIN x => u[<<k>> \o q] = x[q]
                /\ k > s => /\ <<k>> \o q \in DOMAIN u <=> <<k - 1>> \o q \in DOMAIN t
                            /\ <<k - 1>> \o q \in DOMAIN t =>
                                 u[<<k>> \o q] = t[<<k - 1>> \o q]
  <1> DEFINE up(p) == IF p # <<>> /\ p[1] >= s THEN <<p[1] + 1>> \o Tail(p) ELSE p
             down(p) == IF p # <<>> /\ p[1] > s THEN <<p[1] - 1>> \o Tail(p) ELSE p
             added == {<<s>> \o q : q \in DOMAIN x}
  <1>1. u = [p \in {up(q) : q \in DOMAIN t} \cup added |->
                IF p \in added THEN x[Tail(p)] ELSE t[down(p)]]
    BY DEF Spliced
  <1>2. /\ IsMap(u)
        /\ DOMAIN u = {up(q) : q \in DOMAIN t} \cup added
        /\ \A p \in DOMAIN u : u[p] = IF p \in added THEN x[Tail(p)] ELSE t[down(p)]
    BY <1>1 DEF IsMap
  <1>3. /\ <<>> \in Path /\ <<>> \in DOMAIN t /\ <<>> \in DOMAIN x
        /\ DOMAIN t \subseteq Path /\ DOMAIN x \subseteq Path
    BY EmptySeq DEF IsTree, Path
  <1>up. /\ up(<<>>) = <<>> /\ down(<<>>) = <<>>
         /\ \A k \in Nat, q \in Path :
                /\ up(<<k>> \o q) = IF k >= s THEN <<k + 1>> \o q ELSE <<k>> \o q
                /\ down(<<k>> \o q) = IF k > s THEN <<k - 1>> \o q ELSE <<k>> \o q
    BY ConsPath
  <1>added. /\ <<>> \notin added
            /\ \A k \in Nat, q \in Path : <<k>> \o q \in added <=> k = s /\ q \in DOMAIN x
            /\ added \subseteq Path
    <2>1. \A r \in Path : <<s>> \o r # <<>> /\ <<s>> \o r \in Path
      BY ConsPath
    <2>2. \A k \in Nat, q \in Path, r \in Path : <<k>> \o q = <<s>> \o r => k = s /\ q = r
      BY ConsSame
    <2>3. \A p \in added : \E r \in DOMAIN x : p = <<s>> \o r /\ r \in Path
      BY <1>3
    <2>4. <<>> \notin added /\ added \subseteq Path
      BY <2>1, <2>3
    <2>5. ASSUME NEW k \in Nat, NEW q \in Path, <<k>> \o q \in added
          PROVE  k = s /\ q \in DOMAIN x
      <3>1. PICK r \in DOMAIN x : <<k>> \o q = <<s>> \o r /\ r \in Path
        BY <2>3, <2>5
      <3> QED
        BY <2>2, <3>1
    <2> QED
      BY <2>4, <2>5
  <1>ups. \A k \in Nat, q \in Path :
            <<k>> \o q \in {up(y) : y \in DOMAIN t} <=>
                \/ k < s /\ <<k>> \o q \in DOMAIN t
                \/ k > s /\ <<k - 1>> \o q \in DOMAIN t
    <2> SUFFICES ASSUME NEW k \in Nat, NEW q \in Path
                 PROVE  <<k>> \o q \in {up(y) : y \in DOMAIN t} <=>
                            \/ k < s /\ <<k>> \o q \in DOMAIN t
                            \/ k > s /\ <<k - 1>> \o q \in DOMAIN t
      OBVIOUS
    <2>1. ASSUME NEW y \in DOMAIN t, up(y) = <<k>> \o q
          PROVE  \/ k < s /\ <<k>> \o q \in DOMAIN t
                 \/ k > s /\ <<k - 1>> \o q \in DOMAIN t
      <3>1. y # <<>>
        BY <1>up, <2>1, ConsPath
      <3>2. PICK j \in Nat, r \in Path : y = <<j>> \o r
        BY <1>3, <3>1, PathCases
      <3>3. CASE j >= s
        <4>1. <<j + 1>> \o r = <<k>> \o q
          BY <1>up, <2>1, <3>2, <3>3
        <4>2. j + 1 = k /\ r = q
          BY <4>1, ConsSame
        <4>3. k > s /\ k - 1 = j
          BY <3>3, <4>2
        <4> QED
          BY <3>2, <4>2, <4>3
      <3>4. CASE ~(j >= s)
        <4>1. <<j>> \o r = <<k>> \o q
          BY <1>up, <2>1, <3>2, <3>4
        <4>2. j = k /\ r = q
          BY <4>1, ConsSame
        <4> QED
          BY <3>2, <3>4, <4>2
      <3> QED
        BY <3>3, <3>4
    <2>2. ASSUME k < s, <<k>> \o q \in DOMAIN t
          PROVE  <<k>> \o q \in {up(y) : y \in DOMAIN t}
      <3>1. up(<<k>> \o q) = <<k>> \o q
        BY <1>up, <2>2
      <3> QED
        BY <2>2, <3>1
    <2>3. ASSUME k > s, <<k - 1>> \o q \in DOMAIN t
          PROVE  <<k>> \o q \in {up(y) : y \in DOMAIN t}
      <3>1. k - 1 \in Nat /\ k - 1 >= s /\ k - 1 + 1 = k
        BY <2>3
      <3>2. up(<<k - 1>> \o q) = <<k>> \o q
        BY <1>up, <3>1
      <3> QED
        BY <2>3, <3>2
    <2> QED
      BY <2>1, <2>2, <2>3
  <1>root. <<>> \in DOMAIN u /\ u[<<>>] = t[<<>>]
    BY <1>2, <1>3, <1>up, <1>added
  <1>paths. DOMAIN u \subseteq Path
    <2>1. ASSUME NEW y \in DOMAIN t PROVE up(y) \in Path
      <3>1. CASE y = <<>>
        BY <1>3, <1>up, <3>1
      <3>2. CASE y # <<>>
        <4>1. PICK j \in Nat, r \in Path : y = <<j>> \o r
          BY <1>3, <3>2, PathCases
        <4>2. <<j>> \o r \in Path /\ <<j + 1>> \o r \in Path
          BY ConsPath
        <4> QED
          BY <1>up, <4>1, <4>2
      <3> QED
        BY <3>1, <3>2
    <2> QED
      BY <1>2, <1>added, <2>1
  <1>finite. IsFiniteSet(DOMAIN u)
    BY FiniteSpliced DEF IsTree
  <1>4. IsTree(u)
    BY <1>root, <1>paths, <1>finite DEF IsTree
  <1>5. ASSUME NEW k \in Nat, NEW q \in Path
        PROVE  /\ <<k>> \o q \in DOMAIN u <=>
                    \/ k < s /\ <<k>> \o q \in DOMAIN t
                    \/ k = s /\ q \in DOMAIN x
                    \/ k > s /\ <<k - 1>> \o q \in DOMAIN t
               /\ <<k>> \o q \in DOMAIN u =>
                    /\ k < s => u[<<k>> \o q] = t[<<k>> \o q]
                    /\ k = s => u[<<k>> \o q] = x[q]
                    /\ k > s => u[<<k>> \o q] = t[<<k - 1>> \o q]
    <2>1. <<k>> \o q \in added <=> k = s /\ q \in DOMAIN x
      BY <1>added
    <2>2. <<k>> \o q \in {up(y) : y \in DOMAIN t} <=>
            \/ k < s /\ <<k>> \o q \in DOMAIN t
            \/ k > s /\ <<k - 1>> \o q \in DOMAIN t
      BY <1>ups
    <2>3. down(<<k>> \o q) = IF k > s THEN <<k - 1>> \o q ELSE <<k>> \o q
      BY <1>up
    <2>4. Tail(<<k>> \o q) = q
      BY ConsPath
    <2> DEFINE z == <<k>> \o q
               ups == {up(y) : y \in DOMAIN t}
    <2>5. /\ DOMAIN u = ups \cup added
          /\ z \in DOMAIN u => u[z] = IF z \in added THEN x[Tail(z)] ELSE t[down(z)]
      BY <1>2
    <2> HIDE DEF z, ups, added, up, down
    <2>6. z \in DOMAIN u <=> z \in ups \/ z \in added
      BY <2>5
    <2>7. z \in added => z \in DOMAIN u /\ u[z] = x[q]
      BY <2>4, <2>5, <2>6 DEF z
    <2>8. z \in DOMAIN u /\ z \notin added => u[z] = t[down(z)]
      BY <2>5
    <2>9. z \in DOMAIN u <=>
            \/ k < s /\ z \in DOMAIN t
            \/ k = s /\ q \in DOMAIN x
            \/ k > s /\ <<k - 1>> \o q \in DOMAIN t
      BY <2>1, <2>2, <2>6 DEF z, ups
    <2>10. z \in DOMAIN u =>
            /\ k < s => u[z] = t[z]
            /\ k = s => u[z] = x[q]
            /\ k > s => u[z] = t[<<k - 1>> \o q]
      <3>1. z \in DOMAIN u /\ k < s => u[z] = t[z]
        <4>1. k < s => k # s /\ ~(k > s)
          OBVIOUS
        <4>2. k < s => z \notin added /\ down(z) = z
          BY <2>1, <2>3, <4>1 DEF z
        <4> QED
          BY <2>8, <4>2
      <3>2. z \in DOMAIN u /\ k = s => u[z] = x[q]
        <4>1. z \in DOMAIN u /\ k = s => q \in DOMAIN x
          BY <2>9
        <4> QED
          BY <2>1, <2>7, <4>1 DEF z
      <3>3. z \in DOMAIN u /\ k > s => u[z] = t[<<k - 1>> \o q]
        <4>1. k > s => k # s
          OBVIOUS
        <4>2. k > s => z \notin added /\ down(z) = <<k - 1>> \o q
          BY <2>1, <2>3, <4>1 DEF z
        <4> QED
          BY <2>8, <4>2
      <3> QED
        BY <3>1, <3>2, <3>3
    <2> QED
      BY <2>9, <2>10 DEF z
  <1> HIDE DEF up, down, added
  <1>6. ASSUME NEW k \in Nat, NEW q \in Path
        PROVE  /\ k < s => SameAt(t, u, <<k>> \o q)
               /\ k = s => /\ <<k>> \o q \in DOMAIN u <=> q \in DOMAIN x
                           /\ q \in DOMAIN x => u[<<k>> \o q] = x[q]
               /\ k > s => /\ <<k>> \o q \in DOMAIN u <=> <<k - 1>> \o q \in DOMAIN t
                           /\ <<k - 1>> \o q \in DOMAIN t =>
                                u[<<k>> \o q] = t[<<k - 1>> \o q]
    BY <1>5 DEF SameAt
  <1> QED
    BY <1>2, <1>4, <1>root, <1>6

\* Trees!Erased on an array: what was above slot s moves down.
LEMMA ErasedSlots ==
    ASSUME NEW t, IsTree(t), Type(t) = "array", NEW s \in Nat \ {0}, NEW u, u = Erased(t, s)
    PROVE  /\ IsTree(u) /\ IsMap(u)
           /\ u[<<>>] = t[<<>>]
           /\ \A k \in Nat, q \in Path :
                /\ k < s => SameAt(t, u, <<k>> \o q)
                /\ k >= s => /\ <<k>> \o q \in DOMAIN u <=> <<k + 1>> \o q \in DOMAIN t
                             /\ <<k + 1>> \o q \in DOMAIN t =>
                                  u[<<k>> \o q] = t[<<k + 1>> \o q]
  <1> DEFINE shifted(p) == IF p # <<>> /\ p[1] >= s THEN <<p[1] + 1>> \o Tail(p) ELSE p
             left == {p \in DOMAIN t : ~Inside(p, <<s>>)}
             stay == {q \in DOMAIN t : shifted(q) \in left}
             above == {q \in left : q # <<>> /\ q[1] > s}
             moved == {<<y[1] - 1>> \o Tail(y) : y \in above}
  <1>1. u = [p \in stay \cup moved |-> t[shifted(p)]]
    BY DEF Erased
  <1>2. /\ IsMap(u)
        /\ DOMAIN u = stay \cup moved
        /\ \A p \in DOMAIN u : u[p] = t[shifted(p)]
    BY <1>1 DEF IsMap
  <1>3. <<>> \in Path /\ <<>> \in DOMAIN t /\ DOMAIN t \subseteq Path
    BY EmptySeq DEF IsTree, Path
  <1>shift. /\ shifted(<<>>) = <<>>
            /\ \A k \in Nat, q \in Path :
                shifted(<<k>> \o q) = IF k >= s THEN <<k + 1>> \o q ELSE <<k>> \o q
    BY ConsPath
  <1>left. /\ <<>> \in left
           /\ \A k \in Nat, q \in Path :
                <<k>> \o q \in left <=> k # s /\ <<k>> \o q \in DOMAIN t
    <2>1. \A k \in Nat, q \in Path : Inside(<<k>> \o q, <<s>>) <=> k = s
      BY InsideCons
    <2>2. ~Inside(<<>>, <<s>>)
      BY DEF Inside
    <2> QED
      BY <1>3, <2>1, <2>2
  <1>above. /\ \A y \in above : \E j \in Nat, r \in Path :
                    /\ y = <<j>> \o r /\ j > s /\ <<j>> \o r \in DOMAIN t
                    /\ <<y[1] - 1>> \o Tail(y) = <<j - 1>> \o r
            /\ \A j \in Nat, r \in Path :
                    j > s /\ <<j>> \o r \in DOMAIN t => <<j - 1>> \o r \in moved
    <2>1. ASSUME NEW y \in above
          PROVE  \E j \in Nat, r \in Path :
                    /\ y = <<j>> \o r /\ j > s /\ <<j>> \o r \in DOMAIN t
                    /\ <<y[1] - 1>> \o Tail(y) = <<j - 1>> \o r
      <3>1. PICK j \in Nat, r \in Path : y = <<j>> \o r
        BY <1>3, <2>1, PathCases
      <3>2. y[1] = j /\ Tail(y) = r
        BY <3>1, ConsPath
      <3> QED
        BY <2>1, <3>1, <3>2
    <2>2. ASSUME NEW j \in Nat, NEW r \in Path, j > s, <<j>> \o r \in DOMAIN t
          PROVE  <<j - 1>> \o r \in moved
      <3> DEFINE y == <<j>> \o r
      <3>1. y[1] = j /\ Tail(y) = r /\ y # <<>>
        BY ConsPath
      <3>2. y \in left
        BY <1>left, <2>2
      <3> HIDE DEF y, left
      <3>3. y \in above
        BY <2>2, <3>1, <3>2
      <3> QED
        BY <3>1, <3>3
    <2> QED
      BY <2>1, <2>2
  <1>stay. /\ <<>> \in stay
           /\ \A k \in Nat, q \in Path :
                <<k>> \o q \in stay <=>
                    /\ <<k>> \o q \in DOMAIN t
                    /\ k >= s => <<k + 1>> \o q \in DOMAIN t
    <2>1. <<>> \in stay
      BY <1>3, <1>shift, <1>left
    <2>2. ASSUME NEW k \in Nat, NEW q \in Path
          PROVE  <<k>> \o q \in stay <=>
                    /\ <<k>> \o q \in DOMAIN t
                    /\ k >= s => <<k + 1>> \o q \in DOMAIN t
      <3>1. shifted(<<k>> \o q) = IF k >= s THEN <<k + 1>> \o q ELSE <<k>> \o q
        BY <1>shift
      <3>2. k >= s => k + 1 \in Nat /\ k + 1 # s
        OBVIOUS
      <3>3. k >= s => (<<k + 1>> \o q \in left <=> <<k + 1>> \o q \in DOMAIN t)
        BY <1>left, <3>2
      <3>4. ~(k >= s) => k # s
        OBVIOUS
      <3>5. <<k>> \o q \in left <=> k # s /\ <<k>> \o q \in DOMAIN t
        BY <1>left
      <3> HIDE DEF left, shifted
      <3> QED
        BY <3>1, <3>3, <3>4, <3>5
    <2> QED
      BY <2>1, <2>2
  <1>moved. \A k \in Nat, q \in Path :
                <<k>> \o q \in moved <=> k >= s /\ <<k + 1>> \o q \in DOMAIN t
    <2> SUFFICES ASSUME NEW k \in Nat, NEW q \in Path
                 PROVE  <<k>> \o q \in moved <=> k >= s /\ <<k + 1>> \o q \in DOMAIN t
      OBVIOUS
    <2>1. ASSUME <<k>> \o q \in moved PROVE k >= s /\ <<k + 1>> \o q \in DOMAIN t
      <3>1. PICK y \in above : <<k>> \o q = <<y[1] - 1>> \o Tail(y)
        BY <2>1
      <3>2. PICK j \in Nat, r \in Path :
                /\ y = <<j>> \o r /\ j > s /\ <<j>> \o r \in DOMAIN t
                /\ <<y[1] - 1>> \o Tail(y) = <<j - 1>> \o r
        BY <1>above
      <3>3. j - 1 \in Nat
        BY <3>2
      <3> DEFINE i == j - 1
      <3>i. i \in Nat /\ <<k>> \o q = <<i>> \o r
        BY <3>1, <3>2, <3>3
      <3> HIDE DEF i
      <3>same. k = i /\ q = r
        BY ONLY <3>i, k \in Nat, q \in Path, r \in Path, ConsSame
      <3>4. k = j - 1 /\ q = r
        BY <3>same DEF i
      <3>5. k + 1 = j /\ k >= s
        BY <3>2, <3>4
      <3> QED
        BY <3>2, <3>4, <3>5
    <2>2. ASSUME k >= s, <<k + 1>> \o q \in DOMAIN t PROVE <<k>> \o q \in moved
      <3> DEFINE j == k + 1
      <3>1. j \in Nat /\ j > s /\ j - 1 = k /\ <<j>> \o q \in DOMAIN t
        BY <2>2
      <3> HIDE DEF j
      <3>2. <<j - 1>> \o q \in moved
        BY <1>above, <3>1
      <3> QED
        BY <3>1, <3>2
    <2> QED
      BY <2>1, <2>2
  <1>finite. IsFiniteSet(DOMAIN u)
    BY FiniteErased DEF IsTree
  <1>paths. DOMAIN u \subseteq Path
    <2>1. stay \subseteq Path
      BY <1>3
    <2>2. ASSUME NEW y \in above PROVE <<y[1] - 1>> \o Tail(y) \in Path
      <3>1. PICK j \in Nat, r \in Path :
                j > s /\ <<y[1] - 1>> \o Tail(y) = <<j - 1>> \o r
        BY <1>above
      <3>2. j - 1 \in Nat
        BY <3>1
      <3> QED
        BY <3>1, <3>2, ConsPath
    <2> QED
      BY <1>2, <2>1, <2>2
  <1> HIDE DEF stay, moved, above, left, shifted
  <1>root. <<>> \in DOMAIN u /\ u[<<>>] = t[<<>>]
    BY <1>2, <1>shift, <1>stay
  <1>4. IsTree(u)
    BY <1>root, <1>paths, <1>finite DEF IsTree
  <1>5. ASSUME NEW k \in Nat, NEW q \in Path
        PROVE  /\ k < s => SameAt(t, u, <<k>> \o q)
               /\ k >= s => /\ <<k>> \o q \in DOMAIN u <=> <<k + 1>> \o q \in DOMAIN t
                            /\ <<k + 1>> \o q \in DOMAIN t =>
                                 u[<<k>> \o q] = t[<<k + 1>> \o q]
    <2>1. <<k>> \o q \in DOMAIN u <=> <<k>> \o q \in stay \/ <<k>> \o q \in moved
      BY <1>2
    <2>2. <<k>> \o q \in stay <=>
                    /\ <<k>> \o q \in DOMAIN t
                    /\ k >= s => <<k + 1>> \o q \in DOMAIN t
      BY <1>stay
    <2>3. <<k>> \o q \in moved <=> k >= s /\ <<k + 1>> \o q \in DOMAIN t
      BY <1>moved
    <2>4. k < s <=> ~(k >= s)
      OBVIOUS
    <2>5. /\ k < s => shifted(<<k>> \o q) = <<k>> \o q
          /\ k >= s => shifted(<<k>> \o q) = <<k + 1>> \o q
      BY <1>shift, <2>4
    <2>6. <<k>> \o q \in DOMAIN u => u[<<k>> \o q] = t[shifted(<<k>> \o q)]
      BY <1>2
    <2>7. k < s => SameAt(t, u, <<k>> \o q)
      BY <2>1, <2>2, <2>3, <2>4, <2>5, <2>6 DEF SameAt
    <2>8. k >= s => (<<k>> \o q \in DOMAIN u <=> <<k + 1>> \o q \in DOMAIN t)
      BY <2>1, <2>2, <2>3
    <2>9. k >= s /\ <<k + 1>> \o q \in DOMAIN t => u[<<k>> \o q] = t[<<k + 1>> \o q]
      BY <2>5, <2>6, <2>8
    <2> QED
      BY <2>7, <2>8, <2>9
  <1> QED
    BY <1>2, <1>4, <1>root, <1>5

\* Trees!Erased on an object: the member goes, the others stay.
LEMMA ErasedMembers ==
    ASSUME NEW t, IsTree(t), Type(t) # "array", NEW s \in Nat, NEW u, u = Erased(t, s)
    PROVE  /\ IsTree(u) /\ IsMap(u)
           /\ u[<<>>] = t[<<>>]
           /\ \A k \in Nat, q \in Path :
                IF k = s THEN <<k>> \o q \notin DOMAIN u ELSE SameAt(t, u, <<k>> \o q)
  <1>1. /\ DOMAIN u = {p \in DOMAIN t : ~Inside(p, <<s>>)}
        /\ \A p \in DOMAIN u : u[p] = t[p]
        /\ IsMap(u)
    BY DEF Erased, IsMap
  <1>2. <<>> \in Path /\ <<>> \in DOMAIN t /\ DOMAIN t \subseteq Path
    BY EmptySeq DEF IsTree, Path
  <1>3. ~Inside(<<>>, <<s>>)
    BY DEF Inside
  <1>4. IsFiniteSet(DOMAIN u)
    BY <1>1, FS_Subset DEF IsTree
  <1>5. IsTree(u) /\ u[<<>>] = t[<<>>]
    BY <1>1, <1>2, <1>3, <1>4 DEF IsTree
  <1>6. \A k \in Nat, q \in Path : Inside(<<k>> \o q, <<s>>) <=> k = s
    BY InsideCons
  <1>7. \A k \in Nat, q \in Path :
            IF k = s THEN <<k>> \o q \notin DOMAIN u ELSE SameAt(t, u, <<k>> \o q)
    BY <1>1, <1>6 DEF SameAt
  <1> QED
    BY <1>1, <1>5, <1>7

-----------------------------------------------------------------------------
(* Edits of documents.                                                      *)

\* Every part of a document is a document.
LEMMA AtDocument ==
    ASSUME NEW t, IsDocument(t), NEW c \in DOMAIN t
    PROVE  IsDocument(At(t, c))
  <1> DEFINE u == At(t, c)
  <1>1. /\ IsTree(t)
        /\ \A p \in DOMAIN t, q \in Path :
             Inside(p, q) => q \in DOMAIN t /\ (q # p => t[q].type \in {"object", "array"})
        /\ \A p \in DOMAIN t : t[p].type = "array" =>
             \E n \in Nat : /\ n = Size(At(t, p))
                            /\ \A k \in Nat : Append(p, k) \in DOMAIN t <=> k \in 1..n
    BY DocumentPlaces
  <1>2. c \in Path
    BY <1>1 DEF IsTree
  <1>3. /\ IsTree(u)
        /\ \A q \in Path : q \in DOMAIN u <=> c \o q \in DOMAIN t
        /\ \A q \in DOMAIN u : u[q] = t[c \o q]
    BY <1>1, AtTree
  <1>4. IsMap(u)
    BY DEF At, IsMap
  <1> HIDE DEF u
  <1>5. DOMAIN u \subseteq Path
    BY <1>3 DEF IsTree
  <1>6. ASSUME NEW p \in DOMAIN u, NEW q \in Path, Inside(p, q) /\ q # p
        PROVE  q \in DOMAIN u /\ u[q].type \in {"object", "array"}
    <2>1. c \o p \in DOMAIN t /\ c \o q \in Path /\ p \in Path
      BY <1>2, <1>3, <1>5, RestOfConcat
    <2>2. Inside(c \o p, c \o q) /\ c \o q # c \o p
      BY <1>2, <1>6, <2>1, InsideShift
    <2>3. c \o q \in DOMAIN t /\ t[c \o q].type \in {"object", "array"}
      BY <1>1, <2>1, <2>2
    <2> QED
      BY <1>3, <2>3
  <1>7. ASSUME NEW p \in DOMAIN u, u[p].type = "array"
        PROVE  \E n \in Nat : \A k \in Nat : Append(p, k) \in DOMAIN u <=> k \in 1..n
    <2>1. c \o p \in DOMAIN t /\ t[c \o p].type = "array" /\ p \in Path
      BY <1>3, <1>5, <1>7
    <2>2. PICK n \in Nat : \A k \in Nat : Append(c \o p, k) \in DOMAIN t <=> k \in 1..n
      BY <1>1, <2>1
    <2>p. p \in Path
      BY <2>1
    <2>3. ASSUME NEW k \in Nat
          PROVE  Append(p, k) \in Path /\ Append(c \o p, k) = c \o Append(p, k)
      <3>1. Append(p, k) \in Path
        BY ONLY <2>p, k \in Nat, InsideMember
      <3>2. Append(c \o p, k) = c \o Append(p, k)
        BY ONLY <1>2, <2>p, k \in Nat, AppendShift
      <3> QED
        BY <3>1, <3>2
    <2>4. \A k \in Nat : Append(p, k) \in DOMAIN u <=> k \in 1..n
      BY <1>3, <2>2, <2>3
    <2> QED
      BY <2>4
  <1>8. IsDocument(u)
    BY ONLY <1>3, <1>4, <1>6, <1>7, IsADocument
  <1> QED
    BY <1>8 DEF u

\* Writing a document over a part of a document, or as a member of one of its
\* objects, gives a document.
LEMMA WithDocument ==
    ASSUME NEW t, IsDocument(t), NEW x, IsDocument(x), NEW c \in Path,
           \/ c \in DOMAIN t
           \/ \E b \in DOMAIN t, k \in Nat : c = Append(b, k) /\ t[b].type = "object",
           NEW u, u = With(t, c, x)
    PROVE  IsDocument(u)
  <1>1. /\ IsTree(t)
        /\ \A p \in DOMAIN t, q \in Path :
             Inside(p, q) => q \in DOMAIN t /\ (q # p => t[q].type \in {"object", "array"})
        /\ \A p \in DOMAIN t : t[p].type = "array" =>
             \E n \in Nat : /\ n = Size(At(t, p))
                            /\ \A k \in Nat : Append(p, k) \in DOMAIN t <=> k \in 1..n
    BY DocumentPlaces
  <1>2. /\ IsTree(x)
        /\ \A p \in DOMAIN x, q \in Path :
             Inside(p, q) => q \in DOMAIN x /\ (q # p => x[q].type \in {"object", "array"})
        /\ \A p \in DOMAIN x : x[p].type = "array" =>
             \E n \in Nat : /\ n = Size(At(x, p))
                            /\ \A k \in Nat : Append(p, k) \in DOMAIN x <=> k \in 1..n
    BY DocumentPlaces
  <1>3. DOMAIN t \subseteq Path /\ DOMAIN x \subseteq Path
    BY <1>1, <1>2 DEF IsTree
  <1>4. IsTree(u)
    BY <1>1, <1>2, WithTree
  <1>5. \A y \in Path :
            /\ IsMap(u)
            /\ ~Inside(y, c) => SameAt(t, u, y)
            /\ Inside(y, c) => /\ y \in DOMAIN u <=> Rest(y, c) \in DOMAIN x
                               /\ y \in DOMAIN u => u[y] = x[Rest(y, c)]
    BY <1>2, WithPlaces
  <1>map. IsMap(u) /\ DOMAIN u \subseteq Path
    BY <1>3, <1>4, <1>5 DEF IsTree
  <1>new. \A q \in Path : /\ c \o q \in DOMAIN u <=> q \in DOMAIN x
                          /\ q \in DOMAIN x => u[c \o q] = x[q]
    <2>1. \A q \in Path : c \o q \in Path /\ Inside(c \o q, c) /\ Rest(c \o q, c) = q
      BY RestOfConcat
    <2> QED
      BY <1>5, <2>1
  <1>part. \A y \in Path : Inside(y, c) => Rest(y, c) \in Path /\ c \o Rest(y, c) = y
    BY ConcatRest
  \* What the way to c passes is in t, and contains c.
  <1>way. \A q \in Path : Inside(c, q) /\ q # c => q \in DOMAIN t /\ t[q].type \in {"object", "array"}
    <2> SUFFICES ASSUME NEW q \in Path, Inside(c, q), q # c
                 PROVE  q \in DOMAIN t /\ t[q].type \in {"object", "array"}
      OBVIOUS
    <2>1. CASE c \in DOMAIN t
      BY <1>1, <2>1
    <2>2. CASE \E b \in DOMAIN t, k \in Nat : c = Append(b, k) /\ t[b].type = "object"
      <3>1. PICK b \in DOMAIN t, k \in Nat : c = Append(b, k) /\ t[b].type = "object"
        BY <2>2
      <3>2. Inside(b, q)
        BY <1>3, <3>1, InsideMember
      <3> QED
        BY <1>1, <3>1, <3>2
    <2> QED
      BY <2>1, <2>2
  <1>6. ASSUME NEW p \in DOMAIN u, NEW q \in Path, Inside(p, q) /\ q # p
        PROVE  q \in DOMAIN u /\ u[q].type \in {"object", "array"}
    <2>p. p \in Path
      BY <1>map
    <2>1. CASE Inside(p, c)
      <3> DEFINE r == Rest(p, c)
      <3>1. r \in Path /\ c \o r = p /\ r \in DOMAIN x
        BY <1>5, <1>part, <2>1, <2>p
      <3> HIDE DEF r
      <3>2. Inside(q, c) \/ Inside(c, q)
        BY <1>6, <2>1, <2>p, OnOneWay
      <3>3. CASE Inside(q, c)
        <4> DEFINE s == Rest(q, c)
        <4>1. s \in Path /\ c \o s = q
          BY <1>part, <3>3
        <4> HIDE DEF s
        <4>2. Inside(c \o r, c \o s)
          BY <1>6, <3>1, <4>1
        <4>3. Inside(r, s) /\ s # r
          <5>1. Inside(r, s)
            BY ONLY <4>2, <3>1, <4>1, c \in Path, InsideShift
          <5> QED
            BY <1>6, <3>1, <4>1, <5>1
        <4>4. s \in DOMAIN x /\ x[s].type \in {"object", "array"}
          BY <1>2, <3>1, <4>1, <4>3
        <4> QED
          BY <1>new, <4>1, <4>4
      <3>4. CASE Inside(c, q) /\ ~Inside(q, c)
        <4>1. q # c
          BY <3>4
        <4>2. q \in DOMAIN t /\ t[q].type \in {"object", "array"}
          BY <1>way, <3>4, <4>1
        <4> QED
          BY <1>5, <3>4, <4>2 DEF SameAt
      <3> QED
        BY <3>2, <3>3, <3>4
    <2>2. CASE ~Inside(p, c)
      <3>1. p \in DOMAIN t
        BY <1>5, <2>2, <2>p DEF SameAt
      <3>2. q \in DOMAIN t /\ t[q].type \in {"object", "array"}
        BY <1>1, <1>6, <3>1
      <3>3. ~Inside(q, c)
        BY <1>6, <2>2, <2>p, InsideOrder
      <3> QED
        BY <1>5, <3>2, <3>3 DEF SameAt
    <2> QED
      BY <2>1, <2>2
  <1>7. ASSUME NEW p \in DOMAIN u, u[p].type = "array"
        PROVE  \E n \in Nat : \A k \in Nat : Append(p, k) \in DOMAIN u <=> k \in 1..n
    <2>p. p \in Path /\ \A k \in Nat : Append(p, k) \in Path
      BY <1>map, InsideMember
    <2>1. CASE Inside(p, c)
      <3> DEFINE r == Rest(p, c)
      <3>1. r \in Path /\ c \o r = p /\ r \in DOMAIN x /\ x[r].type = "array"
        BY <1>5, <1>7, <1>part, <2>1, <2>p
      <3> HIDE DEF r
      <3>2. PICK n \in Nat : \A k \in Nat : Append(r, k) \in DOMAIN x <=> k \in 1..n
        BY <1>2, <3>1
      <3>r. r \in Path
        BY <3>1
      <3>3. ASSUME NEW k \in Nat
            PROVE  Append(p, k) = c \o Append(r, k) /\ Append(r, k) \in Path
        <4>1. Append(r, k) \in Path
          BY ONLY <3>r, k \in Nat, InsideMember
        <4>2. Append(c \o r, k) = c \o Append(r, k)
          BY ONLY <3>r, c \in Path, k \in Nat, AppendShift
        <4> QED
          BY <3>1, <4>1, <4>2
      <3>4. \A k \in Nat : Append(p, k) \in DOMAIN u <=> k \in 1..n
        BY <1>new, <3>2, <3>3
      <3> QED
        BY <3>4
    <2>2. CASE ~Inside(p, c)
      <3>1. p \in DOMAIN t /\ t[p].type = "array"
        BY <1>5, <1>7, <2>2, <2>p DEF SameAt
      <3>2. PICK n \in Nat : \A k \in Nat : Append(p, k) \in DOMAIN t <=> k \in 1..n
        BY <1>1, <3>1
      <3>3. ASSUME NEW k \in Nat PROVE Append(p, k) \in DOMAIN u <=> Append(p, k) \in DOMAIN t
        <4>1. CASE ~Inside(Append(p, k), c)
          BY <1>5, <2>p, <4>1 DEF SameAt
        <4>2. CASE Inside(Append(p, k), c)
          <5>1. c = Append(p, k)
            BY <2>2, <2>p, <4>2, InsideMember
          <5>2. c \in DOMAIN u
            <6>1. <<>> \in Path /\ <<>> \in DOMAIN x /\ c \o <<>> = c
              BY <1>2, EmptySeq, RestOfConcat DEF IsTree, Path
            <6> QED
              BY <1>new, <6>1
          <5>3. c \in DOMAIN t
            <6>1. CASE \E b \in DOMAIN t, j \in Nat : c = Append(b, j) /\ t[b].type = "object"
              <7>1. PICK b \in DOMAIN t, j \in Nat : c = Append(b, j) /\ t[b].type = "object"
                BY <6>1
              <7>b. b \in Path /\ p \in Path /\ Append(b, j) = Append(p, k)
                BY <1>3, <2>p, <5>1, <7>1
              <7>2. b = p
                BY ONLY <7>b, j \in Nat, k \in Nat, AppendInjective DEF Path
              <7> QED
                BY <3>1, <7>1, <7>2
            <6> QED
              BY <6>1
          <5> QED
            BY <5>1, <5>2, <5>3
        <4> QED
          BY <4>1, <4>2
      <3> QED
        BY <3>2, <3>3
    <2> QED
      BY <2>1, <2>2
  <1> QED
    BY ONLY <1>4, <1>map, <1>6, <1>7, IsADocument

\* d is what u has at the slot k of its root.
HasMember(u, k, d) ==
    IsDocument(d) /\ \A r \in Path : /\ <<k>> \o r \in DOMAIN u <=> r \in DOMAIN d
                                     /\ r \in DOMAIN d => u[<<k>> \o r] = d[r]

\* The members of a document are documents.
LEMMA MemberOfDocument ==
    ASSUME NEW t, IsDocument(t), NEW k \in Nat, NEW q \in Path, <<k>> \o q \in DOMAIN t
    PROVE  /\ <<k>> \in DOMAIN t /\ HasMember(t, k, At(t, <<k>>))
           /\ Type(t) \in {"object", "array"}
  <1>1. /\ IsTree(t)
        /\ \A p \in DOMAIN t, r \in Path :
             Inside(p, r) => r \in DOMAIN t /\ (r # p => t[r].type \in {"object", "array"})
    BY DocumentPlaces
  <1>2. <<k>> \in Path /\ <<>> \in Path /\ <<k>> \o q # <<>>
    BY ConsPath, EmptySeq DEF Path
  <1>3. Inside(<<k>> \o q, <<k>>) /\ Inside(<<k>> \o q, <<>>)
    BY InsideCons
  <1>4. <<k>> \in DOMAIN t /\ Type(t) \in {"object", "array"}
    BY <1>1, <1>2, <1>3 DEF Type
  <1>5. IsDocument(At(t, <<k>>))
    BY <1>4, AtDocument
  <1>6. /\ \A r \in Path : r \in DOMAIN At(t, <<k>>) <=> <<k>> \o r \in DOMAIN t
        /\ \A r \in DOMAIN At(t, <<k>>) : At(t, <<k>>)[r] = t[<<k>> \o r]
    BY <1>1, <1>4, AtTree
  <1> QED
    BY <1>4, <1>5, <1>6 DEF HasMember

\* The elements of an array.
LEMMA RootSlots ==
    ASSUME NEW t, IsDocument(t), Type(t) = "array"
    PROVE  /\ Size(t) \in Nat
           /\ \A k \in Nat : <<k>> \in DOMAIN t <=> k \in 1..Size(t)
  <1>1. /\ IsTree(t) /\ IsMap(t)
        /\ \A p \in DOMAIN t : t[p].type = "array" =>
             \E n \in Nat : /\ n = Size(At(t, p))
                            /\ \A k \in Nat : Append(p, k) \in DOMAIN t <=> k \in 1..n
    BY DocumentPlaces
  <1>2. <<>> \in DOMAIN t /\ t[<<>>].type = "array" /\ At(t, <<>>) = t
    BY <1>1, AtRoot DEF IsTree, Type
  <1>3. PICK n \in Nat : /\ n = Size(At(t, <<>>))
                         /\ \A k \in Nat : Append(<<>>, k) \in DOMAIN t <=> k \in 1..n
    BY <1>1, <1>2
  <1> QED
    BY <1>2, <1>3, AppendToRoot

\* What makes a container a document.
LEMMA DocumentOfMembers ==
    ASSUME NEW u, IsTree(u), IsMap(u), u[<<>>].type \in {"object", "array"},
           u[<<>>].type = "array" =>
                \E n \in Nat : \A k \in Nat : <<k>> \in DOMAIN u <=> k \in 1..n,
           \A k \in Nat, q \in Path : <<k>> \o q \in DOMAIN u => \E d : HasMember(u, k, d)
    PROVE  IsDocument(u)
  <1>1. DOMAIN u \subseteq Path /\ <<>> \in DOMAIN u
    BY DEF IsTree
  <1>2. ASSUME NEW p \in DOMAIN u, NEW q \in Path, Inside(p, q) /\ q # p
        PROVE  q \in DOMAIN u /\ u[q].type \in {"object", "array"}
    <2>1. CASE q = <<>>
      BY <1>1, <2>1
    <2>2. CASE q # <<>>
      <3>1. PICK j \in Nat, s \in Path : q = <<j>> \o s
        BY <2>2, PathCases
      <3>2. p # <<>>
        <4>1. ~Inside(<<>>, <<j>> \o s)
          BY InsideCons
        <4> QED
          BY <1>2, <3>1, <4>1
      <3>3. PICK k \in Nat, r \in Path : p = <<k>> \o r
        BY <1>1, <3>2, PathCases
      <3>4. k = j /\ Inside(r, s)
        <4>1. Inside(<<k>> \o r, <<j>> \o s)
          BY <1>2, <3>1, <3>3
        <4> QED
          BY ONLY <4>1, k \in Nat, j \in Nat, r \in Path, s \in Path, InsideCons
      <3>5. r # s
        BY <1>2, <3>1, <3>3, <3>4
      <3>6. PICK d : HasMember(u, k, d)
        BY <3>3
      <3>7. r \in DOMAIN d
        BY <3>3, <3>6 DEF HasMember
      <3>8. s \in DOMAIN d /\ d[s].type \in {"object", "array"}
        <4>1. \A y \in DOMAIN d, z \in Path :
                Inside(y, z) => z \in DOMAIN d /\ (z # y => d[z].type \in {"object", "array"})
          BY <3>6, DocumentPlaces DEF HasMember
        <4> QED
          BY <3>4, <3>5, <3>7, <4>1
      <3> QED
        BY <3>1, <3>4, <3>6, <3>8 DEF HasMember
    <2> QED
      BY <2>1, <2>2
  <1>3. ASSUME NEW p \in DOMAIN u, u[p].type = "array"
        PROVE  \E n \in Nat : \A k \in Nat : Append(p, k) \in DOMAIN u <=> k \in 1..n
    <2>1. CASE p = <<>>
      BY <1>3, <2>1, AppendToRoot
    <2>2. CASE p # <<>>
      <3>1. PICK k \in Nat, r \in Path : p = <<k>> \o r
        BY <1>1, <2>2, PathCases
      <3>2. PICK d : HasMember(u, k, d)
        BY <3>1
      <3>3. r \in DOMAIN d /\ d[r].type = "array"
        BY <1>3, <3>1, <3>2 DEF HasMember
      <3>4. PICK n \in Nat : \A j \in Nat : Append(r, j) \in DOMAIN d <=> j \in 1..n
        <4>1. \A y \in DOMAIN d : d[y].type = "array" =>
                \E n \in Nat : /\ n = Size(At(d, y))
                               /\ \A j \in Nat : Append(y, j) \in DOMAIN d <=> j \in 1..n
          BY <3>2, DocumentPlaces DEF HasMember
        <4> QED
          BY <3>3, <4>1
      <3>k. <<k>> \in Path
        BY ConsPath
      <3>5. ASSUME NEW j \in Nat
            PROVE  Append(r, j) \in Path /\ Append(p, j) = <<k>> \o Append(r, j)
        <4>1. Append(r, j) \in Path
          BY ONLY r \in Path, j \in Nat, InsideMember
        <4>2. Append(<<k>> \o r, j) = <<k>> \o Append(r, j)
          BY ONLY r \in Path, j \in Nat, <3>k, AppendShift
        <4> QED
          BY <3>1, <4>1, <4>2
      <3>6. \A j \in Nat : Append(p, j) \in DOMAIN u <=> j \in 1..n
        BY <3>2, <3>4, <3>5 DEF HasMember
      <3> QED
        BY <3>6
    <2> QED
      BY <2>1, <2>2
  <1> QED
    BY ONLY IsTree(u), IsMap(u), <1>2, <1>3, IsADocument

\* Inserting an element keeps a document.
LEMMA SplicedDocument ==
    ASSUME NEW t, IsDocument(t), Type(t) = "array", NEW s \in 1..Size(t) + 1,
           NEW x, IsDocument(x), NEW u, u = Spliced(t, s, x)
    PROVE  IsDocument(u) /\ Type(u) = "array"
  <1>1. IsTree(t) /\ IsTree(x)
    BY DocumentPlaces
  <1>2. Size(t) \in Nat /\ \A k \in Nat : <<k>> \in DOMAIN t <=> k \in 1..Size(t)
    BY RootSlots
  <1> DEFINE n == Size(t)
  <1>3. s \in Nat /\ n \in Nat
    BY <1>2
  <1>4. /\ IsTree(u) /\ IsMap(u)
        /\ u[<<>>] = t[<<>>]
        /\ \A k \in Nat, q \in Path :
             /\ k < s => SameAt(t, u, <<k>> \o q)
             /\ k = s => /\ <<k>> \o q \in DOMAIN u <=> q \in DOMAIN x
                         /\ q \in DOMAIN x => u[<<k>> \o q] = x[q]
             /\ k > s => /\ <<k>> \o q \in DOMAIN u <=> <<k - 1>> \o q \in DOMAIN t
                         /\ <<k - 1>> \o q \in DOMAIN t =>
                              u[<<k>> \o q] = t[<<k - 1>> \o q]
    BY <1>1, <1>3, SplicedSlots
  <1>5. ASSUME NEW k \in Nat, NEW q \in Path, <<k>> \o q \in DOMAIN u
        PROVE  \E d : HasMember(u, k, d)
    <2>1. CASE k < s
      <3>1. <<k>> \o q \in DOMAIN t
        BY <1>4, <1>5, <2>1 DEF SameAt
      <3>2. HasMember(t, k, At(t, <<k>>))
        BY <3>1, MemberOfDocument
      <3>3. HasMember(u, k, At(t, <<k>>))
        BY <1>4, <2>1, <3>2 DEF SameAt, HasMember
      <3> QED
        BY <3>3
    <2>2. CASE k = s
      <3>1. HasMember(u, k, x)
        BY <1>4, <2>2 DEF HasMember
      <3> QED
        BY <3>1
    <2>3. CASE k > s
      <3> DEFINE j == k - 1
      <3>1. j \in Nat /\ <<j>> \o q \in DOMAIN t
        BY <1>3, <1>4, <1>5, <2>3
      <3> HIDE DEF j
      <3>2. HasMember(t, j, At(t, <<j>>))
        BY <3>1, MemberOfDocument
      <3>3. \A r \in Path : /\ <<k>> \o r \in DOMAIN u <=> <<j>> \o r \in DOMAIN t
                            /\ <<j>> \o r \in DOMAIN t => u[<<k>> \o r] = t[<<j>> \o r]
        BY <1>4, <2>3 DEF j
      <3>4. HasMember(u, k, At(t, <<j>>))
        BY <3>2, <3>3 DEF HasMember
      <3> QED
        BY <3>4
    <2> QED
      BY <1>3, <2>1, <2>2, <2>3
  <1>6. \A k \in Nat : <<k>> \in DOMAIN u <=> k \in 1..n + 1
    <2> SUFFICES ASSUME NEW k \in Nat PROVE <<k>> \in DOMAIN u <=> k \in 1..n + 1
      OBVIOUS
    <2>e. PICK e \in Path : e = <<>>
      BY EmptySeq DEF Path
    <2>1. e \in DOMAIN x /\ <<k>> \o e = <<k>>
      BY <1>1, <2>e, ConsPath DEF IsTree
    <2>2. CASE k < s
      <3>0. SameAt(t, u, <<k>> \o e)
        BY <1>4, <2>2
      <3>1. <<k>> \in DOMAIN u <=> <<k>> \in DOMAIN t
        BY <2>1, <3>0 DEF SameAt
      <3> QED
        BY <1>2, <1>3, <2>2, <3>1
    <2>3. CASE k = s
      BY <1>3, <1>4, <2>1, <2>3
    <2>4. CASE k > s
      <3> DEFINE j == k - 1
      <3>1. j \in Nat /\ (<<k>> \o e \in DOMAIN u <=> <<j>> \o e \in DOMAIN t)
        BY <1>3, <1>4, <2>4
      <3>2. j \in 1..n <=> k \in 1..n + 1
        BY <1>3, <2>4
      <3> HIDE DEF j
      <3>3. <<j>> \o e = <<j>>
        BY <3>1, <2>e, ConsPath
      <3> QED
        BY <1>2, <2>1, <3>1, <3>2, <3>3
    <2> QED
      BY <1>3, <2>2, <2>3, <2>4
  <1>7. u[<<>>].type = "array" /\ n + 1 \in Nat
    BY <1>3, <1>4 DEF Type
  <1>8. IsDocument(u)
    BY <1>4, <1>5, <1>6, <1>7, DocumentOfMembers
  <1> QED
    BY <1>7, <1>8 DEF Type

\* Removing an element or a member keeps a document.
LEMMA ErasedDocument ==
    ASSUME NEW t, IsDocument(t), NEW s \in Nat, <<s>> \in DOMAIN t, NEW u, u = Erased(t, s)
    PROVE  IsDocument(u) /\ Type(u) = Type(t)
  <1>1. IsTree(t) /\ <<>> \in Path
    BY DocumentPlaces, EmptySeq DEF Path
  <1>2. Type(t) \in {"object", "array"}
    <2>1. <<s>> \o <<>> = <<s>>
      BY ConsPath, <1>1
    <2> QED
      BY <1>1, <2>1, MemberOfDocument
  <1>3. CASE Type(t) # "array"
    <2>1. /\ IsTree(u) /\ IsMap(u)
          /\ u[<<>>] = t[<<>>]
          /\ \A k \in Nat, q \in Path :
               IF k = s THEN <<k>> \o q \notin DOMAIN u ELSE SameAt(t, u, <<k>> \o q)
      BY <1>1, <1>3, ErasedMembers
    <2>2. ASSUME NEW k \in Nat, NEW q \in Path, <<k>> \o q \in DOMAIN u
          PROVE  \E d : HasMember(u, k, d)
      <3>1. k # s /\ <<k>> \o q \in DOMAIN t
        BY <2>1, <2>2 DEF SameAt
      <3>2. HasMember(t, k, At(t, <<k>>))
        BY <3>1, MemberOfDocument
      <3>3. HasMember(u, k, At(t, <<k>>))
        BY <2>1, <3>1, <3>2 DEF SameAt, HasMember
      <3> QED
        BY <3>3
    <2>3. u[<<>>].type = "object"
      BY <1>2, <1>3, <2>1 DEF Type
    <2>4. IsDocument(u)
      BY <2>1, <2>2, <2>3, DocumentOfMembers
    <2> QED
      BY <2>1, <2>4 DEF Type
  <1>4. CASE Type(t) = "array"
    <2> DEFINE n == Size(t)
    <2>1. n \in Nat /\ \A k \in Nat : <<k>> \in DOMAIN t <=> k \in 1..n
      BY <1>4, RootSlots
    <2>2. s \in Nat \ {0} /\ s \in 1..n
      BY <2>1
    <2> HIDE DEF n
    <2>3. /\ IsTree(u) /\ IsMap(u)
          /\ u[<<>>] = t[<<>>]
          /\ \A k \in Nat, q \in Path :
               /\ k < s => SameAt(t, u, <<k>> \o q)
               /\ k >= s => /\ <<k>> \o q \in DOMAIN u <=> <<k + 1>> \o q \in DOMAIN t
                            /\ <<k + 1>> \o q \in DOMAIN t =>
                                 u[<<k>> \o q] = t[<<k + 1>> \o q]
      BY <1>1, <1>4, <2>2, ErasedSlots
    <2>4. ASSUME NEW k \in Nat, NEW q \in Path, <<k>> \o q \in DOMAIN u
          PROVE  \E d : HasMember(u, k, d)
      <3>1. CASE k < s
        <4>1. <<k>> \o q \in DOMAIN t
          BY <2>3, <2>4, <3>1 DEF SameAt
        <4>2. HasMember(t, k, At(t, <<k>>))
          BY <4>1, MemberOfDocument
        <4>3. HasMember(u, k, At(t, <<k>>))
          BY <2>3, <3>1, <4>2 DEF SameAt, HasMember
        <4> QED
          BY <4>3
      <3>2. CASE k >= s
        <4> DEFINE j == k + 1
        <4>1. j \in Nat /\ <<j>> \o q \in DOMAIN t
          BY <2>3, <2>4, <3>2
        <4> HIDE DEF j
        <4>2. HasMember(t, j, At(t, <<j>>))
          BY <4>1, MemberOfDocument
        <4>3. \A r \in Path : /\ <<k>> \o r \in DOMAIN u <=> <<j>> \o r \in DOMAIN t
                              /\ <<j>> \o r \in DOMAIN t => u[<<k>> \o r] = t[<<j>> \o r]
          BY <2>3, <3>2 DEF j
        <4>4. HasMember(u, k, At(t, <<j>>))
          BY <4>2, <4>3 DEF HasMember
        <4> QED
          BY <4>4
      <3> QED
        BY <2>2, <3>1, <3>2
    <2>5. \A k \in Nat : <<k>> \in DOMAIN u <=> k \in 1..n - 1
      <3> SUFFICES ASSUME NEW k \in Nat PROVE <<k>> \in DOMAIN u <=> k \in 1..n - 1
        OBVIOUS
      <3>e. PICK e \in Path : e = <<>>
        BY <1>1
      <3>1. <<k>> \o e = <<k>>
        BY <3>e, ConsPath
      <3>2. CASE k < s
        <4>0. SameAt(t, u, <<k>> \o e)
          BY <2>3, <3>2
        <4>1. <<k>> \in DOMAIN u <=> <<k>> \in DOMAIN t
          BY <3>1, <4>0 DEF SameAt
        <4> QED
          BY <2>1, <2>2, <3>2, <4>1
      <3>3. CASE k >= s
        <4> DEFINE j == k + 1
        <4>1. j \in Nat /\ (<<k>> \o e \in DOMAIN u <=> <<j>> \o e \in DOMAIN t)
          BY <2>3, <3>3
        <4>2. j \in 1..n <=> k \in 1..n - 1
          BY <2>1, <2>2, <3>3
        <4> HIDE DEF j
        <4>3. <<j>> \o e = <<j>>
          BY <4>1, <3>e, ConsPath
        <4> QED
          BY <2>1, <3>1, <4>1, <4>2, <4>3
      <3> QED
        BY <2>2, <3>2, <3>3
    <2>6. u[<<>>].type = "array" /\ n - 1 \in Nat
      BY <1>4, <2>1, <2>2, <2>3 DEF Type
    <2>7. IsDocument(u)
      BY <2>3, <2>4, <2>5, <2>6, DocumentOfMembers
    <2> QED
      BY <2>3, <2>7 DEF Type
  <1> QED
    BY <1>3, <1>4

\* Appending an element is inserting one at the end.
LEMMA PushedIsSpliced ==
    ASSUME NEW t, IsDocument(t), Type(t) = "array", NEW x, IsTree(x)
    PROVE  Pushed(t, x) = Spliced(t, Size(t) + 1, x)
  <1> DEFINE s == Size(t) + 1
             u == Spliced(t, s, x)
             w == With(t, <<s>>, x)
  <1>1. IsTree(t) /\ IsMap(t) /\ <<>> \in Path /\ <<>> \in DOMAIN t
    BY DocumentPlaces, EmptySeq DEF Path, IsTree
  <1>2. Size(t) \in Nat /\ \A k \in Nat : <<k>> \in DOMAIN t <=> k \in 1..Size(t)
    BY RootSlots
  <1>3. s \in Nat /\ <<s>> \in Path
    BY <1>2, ConsPath, <1>1
  <1>4. Pushed(t, x) = w
    BY DEF Pushed, As
  <1> HIDE DEF u, w
  <1>5. /\ IsTree(u) /\ IsMap(u)
        /\ u[<<>>] = t[<<>>]
        /\ \A k \in Nat, q \in Path :
             /\ k < s => SameAt(t, u, <<k>> \o q)
             /\ k = s => /\ <<k>> \o q \in DOMAIN u <=> q \in DOMAIN x
                         /\ q \in DOMAIN x => u[<<k>> \o q] = x[q]
             /\ k > s => /\ <<k>> \o q \in DOMAIN u <=> <<k - 1>> \o q \in DOMAIN t
                         /\ <<k - 1>> \o q \in DOMAIN t =>
                              u[<<k>> \o q] = t[<<k - 1>> \o q]
    <2> HIDE DEF s
    <2>1. u = Spliced(t, s, x)
      BY DEF u
    <2> QED
      BY ONLY <1>1, <1>3, <2>1, IsTree(x), SplicedSlots
  <1>6. /\ IsTree(w)
        /\ \A y \in Path :
             /\ IsMap(w)
             /\ ~Inside(y, <<s>>) => SameAt(t, w, y)
             /\ Inside(y, <<s>>) => /\ y \in DOMAIN w <=> Rest(y, <<s>>) \in DOMAIN x
                                    /\ y \in DOMAIN w => w[y] = x[Rest(y, <<s>>)]
    <2> HIDE DEF s
    <2>1. w = With(t, <<s>>, x)
      BY DEF w
    <2>2. IsTree(w)
      BY ONLY <1>1, <1>3, <2>1, IsTree(x), WithTree
    <2> QED
      BY ONLY <1>3, <2>1, <2>2, IsTree(x), WithPlaces
  <1>none. \A k \in Nat, q \in Path : <<k>> \o q \in DOMAIN t => k \in 1..Size(t)
    BY <1>2, MemberOfDocument
  <1>7. ASSUME NEW k \in Nat, NEW q \in Path
        PROVE  SameAt(u, w, <<k>> \o q)
    <2> DEFINE y == <<k>> \o q
    <2>1. y \in Path /\ (Inside(y, <<s>>) <=> k = s)
      <3>1. y \in Path
        BY ConsPath
      <3>2. Inside(y, <<s>>) <=> k = s
        BY ONLY <1>3, k \in Nat, q \in Path, InsideCons
      <3> QED
        BY <3>1, <3>2
    <2> HIDE DEF y
    <2>2. CASE k < s
      <3>1. SameAt(t, u, y)
        BY <1>5, <2>2 DEF y
      <3>2. SameAt(t, w, y)
        BY <1>3, <1>6, <2>1, <2>2
      <3> QED
        BY <3>1, <3>2 DEF SameAt, y
    <2>3. CASE k = s
      <3>1. Rest(y, <<s>>) = q
        BY <1>3, <2>3, RestOfConcat DEF y
      <3>2. y \in DOMAIN w <=> q \in DOMAIN x
        BY <1>6, <2>1, <2>3, <3>1
      <3>3. y \in DOMAIN w => w[y] = x[q]
        BY <1>6, <2>1, <2>3, <3>1
      <3>4. /\ y \in DOMAIN u <=> q \in DOMAIN x
            /\ q \in DOMAIN x => u[y] = x[q]
        BY <1>5, <2>3 DEF y
      <3> QED
        BY <3>2, <3>3, <3>4 DEF SameAt, y
    <2>4. CASE k > s
      <3>1. y \notin DOMAIN t
        BY <1>2, <1>none, <2>4 DEF y
      <3>2. SameAt(t, w, y)
        BY <1>3, <1>6, <2>1, <2>4
      <3> DEFINE j == k - 1
      <3>3. j \in Nat /\ j \notin 1..Size(t) /\ (y \in DOMAIN u <=> <<j>> \o q \in DOMAIN t)
        BY <1>2, <1>3, <1>5, <2>4 DEF y
      <3> HIDE DEF j
      <3>4. <<j>> \o q \notin DOMAIN t
        BY <1>none, <3>3
      <3> QED
        BY <3>1, <3>2, <3>3, <3>4 DEF SameAt, y
    <2> QED
      BY <1>3, <2>2, <2>3, <2>4
  <1>8. SameAt(u, w, <<>>)
    <2>1. ~Inside(<<>>, <<s>>)
      BY DEF Inside
    <2>2. SameAt(t, w, <<>>)
      BY <1>1, <1>6, <2>1
    <2> QED
      BY <1>1, <1>5, <2>2 DEF SameAt, IsTree
  <1>9. \A y \in Path : SameAt(u, w, y)
    BY <1>7, <1>8, PathCases
  <1>10. u = w
    BY <1>5, <1>6, <1>9, <1>8, <1>1, SameMaps DEF IsTree
  <1> QED
    BY <1>4, <1>10 DEF u

\* What was put at a place is there.
LEMMA AtWith ==
    ASSUME NEW t, IsTree(t), NEW c \in Path, NEW x, IsTree(x), IsMap(x), NEW u, u = With(t, c, x)
    PROVE  At(u, c) = x
  <1> DEFINE w == At(u, c)
  <1>1. IsTree(u) /\ c \in DOMAIN u
    BY WithTree
  <1>2. /\ IsTree(w)
        /\ \A q \in Path : q \in DOMAIN w <=> c \o q \in DOMAIN u
        /\ \A q \in DOMAIN w : w[q] = u[c \o q]
    BY <1>1, AtTree
  <1>3. IsMap(w)
    BY DEF At, IsMap
  <1> HIDE DEF w
  <1>4. ASSUME NEW q \in Path PROVE SameAt(x, w, q)
    <2>1. c \o q \in Path /\ Inside(c \o q, c) /\ Rest(c \o q, c) = q
      BY RestOfConcat
    <2> DEFINE y == c \o q
    <2> HIDE DEF y
    <2>2. /\ y \in DOMAIN u <=> Rest(y, c) \in DOMAIN x
          /\ y \in DOMAIN u => u[y] = x[Rest(y, c)]
      BY <2>1, WithPlaces DEF y
    <2> QED
      BY <1>2, <2>1, <2>2 DEF SameAt, y
  <1>5. x = w
    BY <1>2, <1>3, <1>4, SameMaps DEF IsTree
  <1> QED
    BY <1>5 DEF w

\* An element put back where it was taken from.
LEMMA SplicedBack ==
    ASSUME NEW t, IsDocument(t), Type(t) = "array", NEW s \in Nat, <<s>> \in DOMAIN t
    PROVE  Spliced(Erased(t, s), s, At(t, <<s>>)) = t
  <1> DEFINE e == Erased(t, s)
             x == At(t, <<s>>)
             u == Spliced(e, s, x)
  <1>1. IsTree(t) /\ IsMap(t) /\ <<>> \in Path
    BY DocumentPlaces, EmptySeq DEF Path
  <1>2. s \in Nat \ {0}
    BY RootSlots
  <1>3. /\ IsTree(e) /\ IsMap(e)
        /\ e[<<>>] = t[<<>>]
        /\ \A k \in Nat, q \in Path :
             /\ k < s => SameAt(t, e, <<k>> \o q)
             /\ k >= s => /\ <<k>> \o q \in DOMAIN e <=> <<k + 1>> \o q \in DOMAIN t
                          /\ <<k + 1>> \o q \in DOMAIN t =>
                               e[<<k>> \o q] = t[<<k + 1>> \o q]
    BY <1>1, <1>2, ErasedSlots
  <1>4. /\ IsTree(x)
        /\ \A q \in Path : q \in DOMAIN x <=> <<s>> \o q \in DOMAIN t
        /\ \A q \in DOMAIN x : x[q] = t[<<s>> \o q]
    BY <1>1, AtTree
  <1> HIDE DEF e, x
  <1>5. /\ IsTree(u) /\ IsMap(u)
        /\ u[<<>>] = e[<<>>]
        /\ \A k \in Nat, q \in Path :
             /\ k < s => SameAt(e, u, <<k>> \o q)
             /\ k = s => /\ <<k>> \o q \in DOMAIN u <=> q \in DOMAIN x
                         /\ q \in DOMAIN x => u[<<k>> \o q] = x[q]
             /\ k > s => /\ <<k>> \o q \in DOMAIN u <=> <<k - 1>> \o q \in DOMAIN e
                         /\ <<k - 1>> \o q \in DOMAIN e =>
                              u[<<k>> \o q] = e[<<k - 1>> \o q]
    BY ONLY <1>3, <1>4, s \in Nat, SplicedSlots
  <1> HIDE DEF u
  <1>6. ASSUME NEW k \in Nat, NEW q \in Path PROVE SameAt(t, u, <<k>> \o q)
    <2>1. CASE k < s
      BY <1>3, <1>5, <2>1 DEF SameAt
    <2>2. CASE k = s
      BY <1>4, <1>5, <2>2 DEF SameAt
    <2>3. CASE k > s
      <3> DEFINE j == k - 1
      <3>1. j \in Nat /\ j >= s /\ j + 1 = k
        BY <2>3
      <3>2. /\ <<k>> \o q \in DOMAIN u <=> <<j>> \o q \in DOMAIN e
            /\ <<j>> \o q \in DOMAIN e => u[<<k>> \o q] = e[<<j>> \o q]
        BY <1>5, <2>3
      <3> HIDE DEF j
      <3>3. /\ <<j>> \o q \in DOMAIN e <=> <<k>> \o q \in DOMAIN t
            /\ <<k>> \o q \in DOMAIN t => e[<<j>> \o q] = t[<<k>> \o q]
        BY <1>3, <3>1
      <3> QED
        BY <3>2, <3>3 DEF SameAt
    <2> QED
      BY <1>2, <2>1, <2>2, <2>3
  <1>7. SameAt(t, u, <<>>)
    BY <1>1, <1>3, <1>5 DEF SameAt, IsTree
  <1>8. \A y \in Path : SameAt(t, u, y)
    BY <1>6, <1>7, PathCases
  <1>9. t = u
    BY <1>1, <1>5, <1>8, SameMaps DEF IsTree
  <1> QED
    BY <1>9 DEF u, e, x

\* A set of naturals that holds zero and never stops before n reaches n.
LEMMA Climb ==
    ASSUME NEW n \in Nat, NEW S, 0 \in S, \A k \in 0..n : k \in S /\ k < n => k + 1 \in S
    PROVE  \A k \in 0..n : k \in S
  <1> DEFINE T == {k \in 0..n : k \notin S}
             R == {ss \in Nat \X Nat : ss[1] < ss[2]}
  <1> SUFFICES ASSUME T # {} PROVE FALSE
    OBVIOUS
  <1>1. IsWellFoundedOn(R, Nat)
    BY NatLessThanWellFounded, Zenon DEF OpToRel
  <1>2. T \in SUBSET Nat
    OBVIOUS
  <1> HIDE DEF R
  <1>3. PICK x \in T : \A y \in T : ~ (<<y, x>> \in R)
    BY <1>1, <1>2, WFMin, Zenon
  <1>4. x \in 0..n /\ x # 0 /\ x \notin S
    BY <1>3
  <1>5. x - 1 \in 0..n /\ x - 1 < n /\ x - 1 + 1 = x
    BY <1>4
  <1>6. <<x - 1, x>> \in R
    BY <1>4, <1>5 DEF R
  <1>7. x - 1 \notin T
    BY <1>3, <1>6
  <1> QED
    BY <1>4, <1>5, <1>7

-----------------------------------------------------------------------------
(* What was taken out, put back where it was.                               *)

\* A part of a part.
LEMMA AtAt ==
    ASSUME NEW t, IsTree(t), NEW b \in DOMAIN t, NEW q \in DOMAIN At(t, b)
    PROVE  At(At(t, b), q) = At(t, b \o q)
  <1> DEFINE here == At(t, b)
             u == At(here, q)
             w == At(t, b \o q)
  <1>1. /\ IsTree(here)
        /\ \A r \in Path : r \in DOMAIN here <=> b \o r \in DOMAIN t
        /\ \A r \in DOMAIN here : here[r] = t[b \o r]
    BY AtTree
  <1>2. q \in Path /\ b \in Path
    BY <1>1 DEF IsTree
  <1>3. b \o q \in DOMAIN t
    BY <1>1, <1>2
  <1> HIDE DEF here
  <1>4. /\ IsTree(u)
        /\ \A r \in Path : r \in DOMAIN u <=> q \o r \in DOMAIN here
        /\ \A r \in DOMAIN u : u[r] = here[q \o r]
    BY <1>1, AtTree DEF here
  <1> DEFINE c == b \o q
  <1>c. c \in DOMAIN t
    BY <1>3
  <1> HIDE DEF c
  <1>5. /\ IsTree(At(t, c))
        /\ \A r \in Path : r \in DOMAIN At(t, c) <=> c \o r \in DOMAIN t
        /\ \A r \in DOMAIN At(t, c) : At(t, c)[r] = t[c \o r]
    BY <1>c, AtTree
  <1>6. IsMap(u) /\ IsMap(At(t, c))
    BY DEF At, IsMap
  <1> HIDE DEF u, w
  <1>7. ASSUME NEW r \in Path PROVE SameAt(u, At(t, c), r)
    <2>1. c \o r = b \o (q \o r) /\ q \o r \in Path
      BY ONLY <1>2, r \in Path, PathsAssociate DEF c
    <2> QED
      BY <1>1, <1>4, <1>5, <2>1 DEF SameAt
  <1>8. u = At(t, c)
    BY <1>4, <1>5, <1>6, <1>7, SameMaps DEF IsTree
  <1> QED
    BY <1>8 DEF u, c, here

\* A part written over and then written back.
LEMMA WrittenBack ==
    ASSUME NEW t, IsTree(t), IsMap(t), NEW b \in DOMAIN t, NEW e, IsTree(e),
           NEW u, u = With(t, b, e), NEW w, w = With(u, b, At(t, b))
    PROVE  w = t
  <1>1. b \in Path /\ DOMAIN t \subseteq Path
    BY DEF IsTree
  <1>2. IsTree(u)
    BY <1>1, WithTree
  <1>3. IsTree(w)
    BY <1>1, <1>2, AtTree, WithTree
  <1>4. ASSUME NEW y \in Path PROVE SameAt(t, w, y) /\ IsMap(w)
    <2>1. ~Inside(y, b) => SameAt(t, u, y)
      BY <1>1, WithPlaces
    <2>2. /\ IsMap(w)
          /\ ~Inside(y, b) => SameAt(u, w, y)
          /\ Inside(y, b) => SameAt(t, w, y)
      BY WithPart
    <2> QED
      BY <2>1, <2>2 DEF SameAt
  <1>5. <<>> \in Path
    BY EmptySeq DEF Path
  <1> QED
    BY <1>1, <1>3, <1>4, <1>5, SameMaps DEF IsTree

\* A member of an object erased and then written back.
LEMMA MemberBack ==
    ASSUME NEW t, IsTree(t), IsMap(t), NEW b \in DOMAIN t, t[b].type = "object",
           NEW k \in Nat, Append(b, k) \in DOMAIN t,
           NEW u, u = With(t, b, Erased(At(t, b), k)),
           NEW w, w = With(u, Append(b, k), At(t, Append(b, k)))
    PROVE  w = t
  <1> DEFINE p == Append(b, k)
  <1>1. p \in Path /\ p \in DOMAIN t /\ DOMAIN t \subseteq Path
    BY DEF IsTree
  <1>w. w = With(u, p, At(t, p))
    OBVIOUS
  <1>2. \A y \in Path :
            /\ IsMap(u)
            /\ ~Inside(y, p) => SameAt(t, u, y)
            /\ Inside(y, p) => y \notin DOMAIN u
    BY ErasedPlaces
  <1>3. IsTree(u)
    <2>1. LET v == With(t, b, Erased(At(t, b), k)) IN IsTree(v)
      BY EraseMember
    <2> QED
      BY <2>1
  <1> HIDE DEF p
  <1>4. IsTree(w)
    BY <1>1, <1>3, <1>w, AtTree, WithTree
  <1>5. ASSUME NEW y \in Path PROVE SameAt(t, w, y) /\ IsMap(w)
    <2>1. /\ IsMap(w)
          /\ ~Inside(y, p) => SameAt(u, w, y)
          /\ Inside(y, p) => SameAt(t, w, y)
      BY ONLY <1>1, <1>w, IsTree(t), y \in Path, WithPart
    <2> QED
      BY <1>2, <2>1 DEF SameAt
  <1>6. <<>> \in Path
    BY EmptySeq DEF Path
  <1> QED
    BY <1>1, <1>4, <1>5, <1>6, SameMaps DEF IsTree

-----------------------------------------------------------------------------
(* How many nodes the edits leave: what is put in adds no more than it has, *)
(* and what is taken out leaves with all of its own.                        *)

\* Two sets have no more elements together than one by one.
LEMMA CountUnion ==
    ASSUME NEW S, IsFiniteSet(S), NEW T, IsFiniteSet(T)
    PROVE  /\ Cardinality(S) \in Nat /\ Cardinality(T) \in Nat
           /\ Cardinality(S \cup T) <= Cardinality(S) + Cardinality(T)
           /\ S \cap T = {} => Cardinality(S \cup T) = Cardinality(S) + Cardinality(T)
  <1>1. /\ Cardinality(S) \in Nat /\ Cardinality(T) \in Nat
        /\ Cardinality(S \cap T) \in Nat
    BY FS_CardinalityType, FS_Intersection
  <1>2. Cardinality(S \cup T) = Cardinality(S) + Cardinality(T) - Cardinality(S \cap T)
    BY FS_Union
  <1>3. S \cap T = {} => Cardinality(S \cap T) = 0
    BY FS_EmptySet
  <1> QED
    BY <1>1, <1>2, <1>3

\* The nodes at a place and below, and those elsewhere.
LEMMA CountOutside ==
    ASSUME NEW t, IsFiniteSet(DOMAIN t), NEW p,
           NEW kept, kept = {x \in DOMAIN t : ~Inside(x, p)}
    PROVE  /\ IsFiniteSet(kept) /\ Cardinality(kept) \in Nat
           /\ NodeCount(t) \in Nat /\ NodeCount(At(t, p)) \in Nat
           /\ Cardinality(kept) + NodeCount(At(t, p)) <= NodeCount(t)
  <1> DEFINE within == {y \in DOMAIN t : Inside(y, p)}
             f == [x \in within |-> Rest(x, p)]
  <1>1. /\ IsFiniteSet(kept) /\ IsFiniteSet(within)
        /\ kept \cap within = {} /\ kept \cup within = DOMAIN t
    BY FS_Subset
  <1>2. DOMAIN At(t, p) = {f[x] : x \in within}
    BY DEF At
  <1>3. IsFiniteSet(DOMAIN At(t, p)) /\ Cardinality(DOMAIN At(t, p)) <= Cardinality(within)
    <2>1. f = [x \in within |-> f[x]] /\ DOMAIN f = within
      OBVIOUS
    <2> HIDE DEF f, within
    <2> QED
      BY <1>1, <1>2, <2>1, FiniteImage
  <1> HIDE DEF within
  <1>4. /\ Cardinality(kept) \in Nat /\ Cardinality(within) \in Nat
        /\ Cardinality(DOMAIN t) = Cardinality(kept) + Cardinality(within)
    BY <1>1, CountUnion
  <1>5. Cardinality(DOMAIN At(t, p)) \in Nat
    BY <1>3, FS_CardinalityType
  <1> QED
    BY <1>1, <1>3, <1>4, <1>5 DEF NodeCount

\* Trees!With: a value takes the room of the one it replaces.
LEMMA CountReplaced ==
    ASSUME NEW t, IsFiniteSet(DOMAIN t), NEW p, NEW new, IsFiniteSet(DOMAIN new)
    PROVE  /\ NodeCount(With(t, p, new)) \in Nat
           /\ NodeCount(With(t, p, new)) + NodeCount(At(t, p)) <= NodeCount(t) + NodeCount(new)
  <1> DEFINE put == {p \o q : q \in DOMAIN new}
             f == [q \in DOMAIN new |-> p \o q]
  <1>1. PICK kept : kept = {x \in DOMAIN t : ~Inside(x, p)}
    OBVIOUS
  <1>2. DOMAIN With(t, p, new) = kept \cup put
    BY <1>1 DEF With
  <1>3. /\ IsFiniteSet(kept) /\ Cardinality(kept) \in Nat
        /\ NodeCount(t) \in Nat /\ NodeCount(At(t, p)) \in Nat
        /\ Cardinality(kept) + NodeCount(At(t, p)) <= NodeCount(t)
    BY <1>1, CountOutside
  <1>4. IsFiniteSet(put) /\ Cardinality(put) <= NodeCount(new)
    <2>1. put = {f[q] : q \in DOMAIN new} /\ f = [q \in DOMAIN new |-> f[q]]
          /\ DOMAIN f = DOMAIN new
      OBVIOUS
    <2> HIDE DEF f, put
    <2> QED
      BY <2>1, FiniteImage DEF NodeCount
  <1> HIDE DEF put
  <1>5. /\ Cardinality(put) \in Nat
        /\ Cardinality(kept \cup put) <= Cardinality(kept) + Cardinality(put)
    BY <1>3, <1>4, CountUnion
  <1>6. NodeCount(new) \in Nat /\ NodeCount(With(t, p, new)) \in Nat
    BY CountType, FiniteWith
  <1>7. NodeCount(With(t, p, new)) <= Cardinality(kept) + Cardinality(put)
    BY <1>2, <1>5 DEF NodeCount
  <1> QED
    BY <1>3, <1>4, <1>5, <1>6, <1>7

\* Trees!Spliced: an array grows by the nodes of its new element.
LEMMA CountSpliced ==
    ASSUME NEW t, IsFiniteSet(DOMAIN t), NEW s, NEW x, IsFiniteSet(DOMAIN x)
    PROVE  NodeCount(Spliced(t, s, x)) <= NodeCount(t) + NodeCount(x)
  <1> DEFINE up(p) == IF p # <<>> /\ p[1] >= s THEN <<p[1] + 1>> \o Tail(p) ELSE p
             f == [q \in DOMAIN t |-> up(q)]
             g == [q \in DOMAIN x |-> <<s>> \o q]
             moved == {f[q] : q \in DOMAIN t}
             put == {g[q] : q \in DOMAIN x}
  <1>1. /\ DOMAIN f = DOMAIN t /\ f = [q \in DOMAIN t |-> f[q]]
        /\ DOMAIN g = DOMAIN x /\ g = [q \in DOMAIN x |-> g[q]]
    OBVIOUS
  <1>2. DOMAIN Spliced(t, s, x) = moved \cup put
    BY DEF Spliced
  <1> HIDE DEF f, g
  <1>3. /\ IsFiniteSet(moved) /\ Cardinality(moved) <= NodeCount(t)
        /\ IsFiniteSet(put) /\ Cardinality(put) <= NodeCount(x)
    BY <1>1, FiniteImage DEF NodeCount
  <1> HIDE DEF moved, put
  <1>4. /\ Cardinality(moved) \in Nat /\ Cardinality(put) \in Nat
        /\ NodeCount(Spliced(t, s, x)) <= Cardinality(moved) + Cardinality(put)
    BY <1>2, <1>3, CountUnion DEF NodeCount
  <1>5. NodeCount(t) \in Nat /\ NodeCount(x) \in Nat /\ NodeCount(Spliced(t, s, x)) \in Nat
    BY CountType, FiniteSpliced
  <1> QED
    BY <1>3, <1>4, <1>5

\* Trees!Erased: an element or a member takes its nodes along.
LEMMA CountErased ==
    ASSUME NEW t, IsTree(t), NEW s \in Nat
    PROVE  /\ NodeCount(Erased(t, s)) \in Nat
           /\ NodeCount(Erased(t, s)) + NodeCount(At(t, <<s>>)) <= NodeCount(t)
  <1> DEFINE shifted(p) == IF Type(t) = "array" /\ p # <<>> /\ p[1] >= s
                           THEN <<p[1] + 1>> \o Tail(p) ELSE p
             above(p) == Type(t) = "array" /\ p # <<>> /\ p[1] > s
             down(p) == IF above(p) THEN <<p[1] - 1>> \o Tail(p) ELSE p
  <1>1. PICK left : left = {p \in DOMAIN t : ~Inside(p, <<s>>)}
    OBVIOUS
  <1>2. DOMAIN Erased(t, s) = {q \in DOMAIN t : shifted(q) \in left} \cup
                              {<<x[1] - 1>> \o Tail(x) : x \in {q \in left : above(q)}}
    BY <1>1 DEF Erased
  <1>3. left \subseteq Path /\ DOMAIN t \subseteq Path /\ IsFiniteSet(DOMAIN t)
    BY <1>1 DEF IsTree
  <1> DEFINE f == [x \in left |-> down(x)]
  <1>4. ASSUME NEW q \in DOMAIN t, shifted(q) \in left PROVE \E x \in left : q = f[x]
    <2>1. CASE Type(t) = "array" /\ q # <<>> /\ q[1] >= s
      <3> DEFINE y == <<q[1] + 1>> \o Tail(q)
      <3>1. y \in left
        BY <1>4, <2>1
      <3>2. q[1] \in Nat /\ Tail(q) \in Path /\ q = <<q[1]>> \o Tail(q)
        BY <1>3, <2>1, PathIsCons
      <3>3. q[1] + 1 \in Nat /\ q[1] + 1 - 1 = q[1] /\ q[1] + 1 > s
        BY <2>1, <3>2
      <3>4. y # <<>> /\ y[1] = q[1] + 1 /\ Tail(y) = Tail(q)
        BY <3>2, <3>3, ConsPath
      <3> HIDE DEF y
      <3>5. above(y) /\ down(y) = <<y[1] - 1>> \o Tail(y)
        BY <2>1, <3>3, <3>4
      <3> HIDE DEF down
      <3>6. down(y) = q
        <4>1. y[1] - 1 = q[1] /\ Tail(y) = Tail(q)
          <5>1. q[1] \in Nat
            BY <3>2
          <5>2. y[1] = q[1] + 1 /\ Tail(y) = Tail(q)
            BY <3>4
          <5> QED
            BY <5>1, <5>2
        <4>2. <<y[1] - 1>> \o Tail(y) = q
          BY <3>2, <4>1, Zenon
        <4> QED
          BY <3>5, <4>2
      <3> QED
        BY <3>1, <3>6
    <2>2. CASE ~(Type(t) = "array" /\ q # <<>> /\ q[1] >= s)
      <3>1. q \in left
        BY <1>4, <2>2
      <3>2. ~above(q)
        <4>1. CASE q # <<>>
          <5>1. q[1] \in Nat
            BY <1>3, <4>1, PathIsCons
          <5> QED
            BY <2>2, <5>1
        <4> QED
          BY <4>1
      <3>3. down(q) = q
        BY <3>2
      <3> HIDE DEF down
      <3> QED
        BY <3>1, <3>3
    <2> QED
      BY <2>1, <2>2
  <1>5. \A x \in left : above(x) => f[x] = <<x[1] - 1>> \o Tail(x)
    OBVIOUS
  <1>6. f = [x \in left |-> f[x]] /\ DOMAIN f = left
    OBVIOUS
  <1> DEFINE image == {f[x] : x \in left}
  <1>7. DOMAIN Erased(t, s) \subseteq image
    <2> HIDE DEF f, above, shifted
    <2> QED
      BY <1>2, <1>4, <1>5
  <1>8. /\ IsFiniteSet(left) /\ Cardinality(left) \in Nat
        /\ NodeCount(t) \in Nat /\ NodeCount(At(t, <<s>>)) \in Nat
        /\ Cardinality(left) + NodeCount(At(t, <<s>>)) <= NodeCount(t)
    BY <1>1, <1>3, CountOutside
  <1>9. IsFiniteSet(image) /\ Cardinality(image) <= Cardinality(left)
    <2> HIDE DEF f
    <2> QED
      BY <1>6, <1>8, FiniteImage
  <1> HIDE DEF image
  <1>10. /\ NodeCount(Erased(t, s)) \in Nat /\ Cardinality(image) \in Nat
         /\ NodeCount(Erased(t, s)) <= Cardinality(image)
    BY <1>7, <1>9, FS_Subset, FS_CardinalityType DEF NodeCount
  <1> QED
    BY <1>8, <1>9, <1>10
=============================================================================
