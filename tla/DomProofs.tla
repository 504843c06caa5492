----------------------------- MODULE DomProofs ------------------------------
(***************************************************************************)
(* NoDangling, SingleOwner, Acyclic, AllocatorDomain and NoLeak, for any   *)
(* number of handles, nodes, allocators and names.                         *)
(*                                                                         *)
(* The heap of Dom is a forest.  Every operation is made of a few ways to  *)
(* change a forest: nodes are released, a leaf is made, a leaf is attached *)
(* and two nodes exchange their storage.                                   *)
(***************************************************************************)
EXTENDS Dom, SequenceTheorems, TLAPS

CellFields == {"live", "alloc", "impl"}
ImplFields == {"home", "type", "val", "kids"}

IsHeap(h) ==
    /\ DOMAIN h = Nodes
    /\ \A m \in Nodes : CellFields \subseteq DOMAIN h[m] /\ ImplFields \subseteq DOMAIN h[m].impl

\* Storage belongs where it is: to a node of its allocator, with children that
\* are live, in the pool and of that allocator.
IsCell(h, m) ==
    /\ Kids(h, m) \subseteq Live(h) \cap Pool
    /\ \A c \in Kids(h, m) : h[c].alloc = h[m].alloc
    /\ TypeOf(h, m) # "null" => h[m].impl.home = h[m].alloc
    /\ TypeOf(h, m) = "array" => KidsOf(h, m) \in Seq(Pool)
    /\ TypeOf(h, m) \notin ContainerTypes => DOMAIN KidsOf(h, m) = {}

OwnedOnce(h) ==
    \A p, q \in Live(h) :
        \A s \in DOMAIN KidsOf(h, p), t \in DOMAIN KidsOf(h, q) :
            KidsOf(h, p)[s] = KidsOf(h, q)[t] => p = q /\ s = t

Rooted(h) ==
    \A S \in SUBSET Live(h) :
        S # {} => \E m \in S : \A p \in S : m \notin Kids(h, p)

Forest(h) ==
    /\ IsHeap(h)
    /\ \A m \in Live(h) : IsCell(h, m)
    /\ OwnedOnce(h)
    /\ Rooted(h)

\* A node that no container owns.
Orphan(h, c) == \A p \in Live(h) : c \notin Kids(h, p)

-----------------------------------------------------------------------------
(* Subtrees.                                                                *)

LEMMA LiveNodes == ASSUME NEW h PROVE Live(h) \subseteq Nodes
  BY DEF Live

\* A subtree is the smallest closed set around its root.
LEMMA SubtreeIsClosed ==
  ASSUME NEW h, Forest(h), NEW n \in Live(h)
  PROVE  /\ Subtree(h, n) \subseteq Live(h)
         /\ n \in Subtree(h, n)
         /\ Closed(h, Subtree(h, n))
         /\ \A S \in SUBSET Live(h) : n \in S /\ Closed(h, S) => Subtree(h, n) \subseteq S
  <1>1. \A m \in Live(h) : Kids(h, m) \subseteq Live(h)
    BY DEF Forest, IsCell
  <1>2. Closed(h, Subtree(h, n))
    BY <1>1 DEF Closed, Subtree
  <1>. QED BY <1>2 DEF Subtree

LEMMA OutsideSubtree ==
  ASSUME NEW h, Forest(h), NEW n \in Live(h), NEW S \in SUBSET Live(h),
         n \in S, Closed(h, S), NEW m, m \notin S
  PROVE  m \notin Subtree(h, n)
  BY SubtreeIsClosed

\* Every member but the root is owned inside.
LEMMA OwnedInside ==
  ASSUME NEW h, Forest(h), NEW n \in Live(h), NEW x \in Subtree(h, n), x # n
  PROVE  \E p \in Subtree(h, n) : x \in Kids(h, p)
  <1> SUFFICES ASSUME \A p \in Subtree(h, n) : x \notin Kids(h, p) PROVE FALSE
    OBVIOUS
  <1> DEFINE S == Subtree(h, n) \ {x}
  <1>1. S \in SUBSET Live(h) /\ n \in S
    BY SubtreeIsClosed
  <1>2. Closed(h, S)
    BY SubtreeIsClosed DEF Closed
  <1>. QED BY <1>1, <1>2, SubtreeIsClosed

LEMMA InPool ==
  ASSUME NEW h, Forest(h), NEW n \in Live(h), NEW x \in Subtree(h, n), x # n
  PROVE  x \in Pool
  BY OwnedInside, SubtreeIsClosed DEF Forest, IsCell


\* The root is owned by nobody inside.
LEMMA RootIsFree ==
  ASSUME NEW h, Forest(h), NEW n \in Live(h), NEW p \in Subtree(h, n)
  PROVE  n \notin Kids(h, p)
  <1> SUFFICES ASSUME n \in Kids(h, p) PROVE FALSE
    OBVIOUS
  <1>1. \A x \in Subtree(h, n) : \E q \in Subtree(h, n) : x \in Kids(h, q)
    BY OwnedInside
  <1>2. Subtree(h, n) \in SUBSET Live(h) /\ Subtree(h, n) # {}
    BY SubtreeIsClosed
  <1>. QED BY <1>1, <1>2 DEF Forest, Rooted

LEMMA SubtreeOfKid ==
  ASSUME NEW h, Forest(h), NEW n \in Live(h), NEW c \in Kids(h, n)
  PROVE  /\ c \in Live(h) /\ c \in Pool
         /\ Subtree(h, c) \subseteq Subtree(h, n)
         /\ n \notin Subtree(h, c)
  <1>1. c \in Live(h) /\ c \in Pool
    BY DEF Forest, IsCell
  <1>2. Subtree(h, c) \subseteq Subtree(h, n)
    BY <1>1, SubtreeIsClosed DEF Closed
  <1>3. n \notin Subtree(h, c)
    BY <1>1, RootIsFree
  <1>. QED BY <1>1, <1>2, <1>3

\* An orphan is in no subtree but its own.
LEMMA OrphanIsApart ==
  ASSUME NEW h, Forest(h), NEW c, Orphan(h, c), NEW n \in Live(h), n # c
  PROVE  c \notin Subtree(h, n)
  BY OwnedInside, SubtreeIsClosed DEF Orphan

\* The caller's objects and the temporaries are never owned.
LEMMA OutsidersAreOrphans ==
  ASSUME NEW h, Forest(h), NEW c, c \notin Pool \/ c \notin Live(h)
  PROVE  Orphan(h, c)
  BY DEF Orphan, Forest, IsCell

-----------------------------------------------------------------------------
(* Three ways to change a forest.                                           *)

\* What goes when the children C go.
Below(h, C) == UNION {Subtree(h, c) : c \in C}

\* Nothing else owns what hangs below dropped children.
LEMMA Severed ==
  ASSUME NEW h, Forest(h), NEW n \in Live(h), NEW C \in SUBSET Kids(h, n)
  PROVE  /\ Below(h, C) \subseteq Live(h) \cap Pool
         /\ Below(h, C) \subseteq Subtree(h, n)
         /\ n \notin Below(h, C)
         /\ Kids(h, n) \cap Below(h, C) = C
         /\ \A m \in Live(h) \ Below(h, C) : m # n => Kids(h, m) \cap Below(h, C) = {}
  <1> DEFINE gone == UNION {Subtree(h, c) : c \in C}
  <1>1. gone \subseteq Subtree(h, n) /\ n \notin gone
    BY SubtreeOfKid
  <1>2. gone \subseteq Live(h)
    BY <1>1, SubtreeIsClosed
  <1>3. gone \subseteq Pool
    BY <1>1, InPool
  <1>4. C \subseteq gone
    BY SubtreeOfKid, SubtreeIsClosed
  <1>5. ASSUME NEW x \in gone, x \notin C, NEW p \in Live(h), x \in Kids(h, p)
        PROVE  p \in gone
    <2>1. PICK c \in C : x \in Subtree(h, c)
      OBVIOUS
    <2>2. PICK q \in Subtree(h, c) : x \in Kids(h, q)
      BY <1>5, <2>1, SubtreeOfKid, OwnedInside
    <2>3. q \in Live(h)
      BY SubtreeOfKid, SubtreeIsClosed
    <2>4. p = q
      BY <1>5, <2>2, <2>3 DEF Forest, OwnedOnce, Kids
    <2>. QED BY <2>4
  <1>6. ASSUME NEW x \in C, NEW p \in Live(h), x \in Kids(h, p)
        PROVE  p = n
    BY <1>6 DEF Forest, OwnedOnce, Kids
  <1>. QED BY <1>1, <1>2, <1>3, <1>4, <1>5, <1>6 DEF Below

\* What a node is by itself is in order.
IsOrdered(h, m) ==
    /\ TypeOf(h, m) # "null" => h[m].impl.home = h[m].alloc
    /\ TypeOf(h, m) = "array" => KidsOf(h, m) \in Seq(Pool)
    /\ TypeOf(h, m) \notin ContainerTypes => DOMAIN KidsOf(h, m) = {}

LEMMA Shrinks ==
  ASSUME NEW h, Forest(h), NEW g, IsHeap(g), Live(g) \subseteq Live(h),
         \A m \in Live(g) :
            /\ g[m].alloc = h[m].alloc
            /\ IsOrdered(g, m)
            /\ Kids(g, m) \subseteq Kids(h, m) \cap Live(g)
            /\ \A s, t \in DOMAIN KidsOf(g, m) :
                  KidsOf(g, m)[s] = KidsOf(g, m)[t] => s = t
  PROVE  Forest(g)
  <1>1. \A m \in Live(g) : IsCell(g, m)
    BY DEF IsCell, IsOrdered, Forest
  <1>2. OwnedOnce(g)
    <2> SUFFICES ASSUME NEW p \in Live(g), NEW q \in Live(g),
                        NEW s \in DOMAIN KidsOf(g, p), NEW t \in DOMAIN KidsOf(g, q),
                        KidsOf(g, p)[s] = KidsOf(g, q)[t]
                 PROVE  p = q /\ s = t
      BY DEF OwnedOnce
    <2>1. KidsOf(g, p)[s] \in Kids(h, p) /\ KidsOf(g, p)[s] \in Kids(h, q)
      BY DEF Kids
    <2>2. p = q
      BY <2>1 DEF Forest, OwnedOnce, Kids
    <2>. QED BY <2>2
  <1>3. Rooted(g)
    BY DEF Forest, Rooted
  <1>. QED BY <1>1, <1>2, <1>3 DEF Forest

\* One more orphan becomes a child.
LEMMA Grows ==
  ASSUME NEW h, Forest(h), NEW n \in Live(h), NEW c \in Live(h) \cap Pool,
         Orphan(h, c), n \notin Subtree(h, c), h[c].alloc = h[n].alloc,
         NEW g, IsHeap(g), Live(g) = Live(h), NEW slot,
         \A m \in Live(g) : g[m].alloc = h[m].alloc /\ IsOrdered(g, m),
         \A m \in Live(g) \ {n} : Kids(g, m) = Kids(h, m) /\ KidsOf(g, m) = KidsOf(h, m),
         KidsOf(g, n)[slot] = c,
         \A s \in DOMAIN KidsOf(g, n) \ {slot} :
            s \in DOMAIN KidsOf(h, n) /\ KidsOf(g, n)[s] = KidsOf(h, n)[s]
  PROVE  Forest(g)
  <1>1. Kids(g, n) \subseteq Kids(h, n) \cup {c}
    BY DEF Kids
  <1>2. \A m \in Live(g) : IsCell(g, m)
    BY <1>1 DEF IsCell, IsOrdered, Forest
  <1>3. OwnedOnce(g)
    BY DEF OwnedOnce, Orphan, Kids, Forest
  <1>4. Rooted(g)
    <2> SUFFICES ASSUME NEW S \in SUBSET Live(g), S # {}
                 PROVE  \E m \in S : \A p \in S : m \notin Kids(g, p)
      BY DEF Rooted
    <2> DEFINE top == S \ Subtree(h, c)
    <2>1. CASE top = {}
      <3>1. \A p \in S : p # n
        BY <2>1
      <3>. QED BY <3>1 DEF Forest, Rooted
    <2>2. CASE top # {}
      <3>1. PICK m \in top : \A p \in top : m \notin Kids(h, p)
        BY <2>2 DEF Forest, Rooted
      <3>2. \A p \in Subtree(h, c) : m \notin Kids(h, p)
        BY SubtreeIsClosed DEF Closed
      <3>3. m # c
        BY SubtreeIsClosed
      <3>. QED BY <1>1, <3>1, <3>2, <3>3
    <2>. QED BY <2>1, <2>2
  <1>. QED BY <1>2, <1>3, <1>4 DEF Forest

\* Two nodes exchange what hangs below them.
LEMMA Exchanges ==
  ASSUME NEW h, Forest(h), NEW a \in Live(h), NEW b \in Live(h), a # b,
         a \notin Subtree(h, b), b \notin Subtree(h, a), h[a].alloc = h[b].alloc,
         NEW g, IsHeap(g), Live(g) = Live(h),
         \A m \in Live(g) : g[m].alloc = h[m].alloc,
         g[a].impl = h[b].impl, g[b].impl = h[a].impl,
         \A m \in Live(g) \ {a, b} : g[m].impl = h[m].impl
  PROVE  Forest(g)
  <1>1. /\ KidsOf(g, a) = KidsOf(h, b) /\ Kids(g, a) = Kids(h, b)
        /\ KidsOf(g, b) = KidsOf(h, a) /\ Kids(g, b) = Kids(h, a)
        /\ \A m \in Live(g) \ {a, b} :
              KidsOf(g, m) = KidsOf(h, m) /\ Kids(g, m) = Kids(h, m)
    BY DEF KidsOf, Kids
  <1>2. \A m \in Live(g) : IsCell(g, m)
    BY <1>1 DEF IsCell, Forest, TypeOf
  <1>3. OwnedOnce(g)
    BY <1>1 DEF OwnedOnce, Forest
  <1>4. Rooted(g)
    <2> SUFFICES ASSUME NEW S \in SUBSET Live(g), S # {}
                 PROVE  \E m \in S : \A p \in S : m \notin Kids(g, p)
      BY DEF Rooted
    <2> DEFINE below == Subtree(h, a) \cup Subtree(h, b)
    <2>1. \A p \in below : Kids(h, p) \subseteq below
      BY SubtreeIsClosed DEF Closed
    <2>2. a \in below /\ b \in below
      BY SubtreeIsClosed
    <2>3. \A p \in below : a \notin Kids(h, p) /\ b \notin Kids(h, p)
      <3> SUFFICES ASSUME NEW p \in below PROVE a \notin Kids(h, p) /\ b \notin Kids(h, p)
        OBVIOUS
      <3>1. CASE p \in Subtree(h, a)
        BY <3>1, RootIsFree, SubtreeIsClosed DEF Closed
      <3>2. CASE p \in Subtree(h, b)
        BY <3>2, RootIsFree, SubtreeIsClosed DEF Closed
      <3>. QED BY <3>1, <3>2
    <2>4. CASE S \ below # {}
      <3>1. PICK m \in S \ below : \A p \in S \ below : m \notin Kids(h, p)
        BY <2>4 DEF Forest, Rooted
      <3>2. \A p \in below : m \notin Kids(h, p)
        BY <2>1
      <3>. QED BY <1>1, <2>2, <3>1, <3>2
    <2>5. CASE S \subseteq below /\ a \in S
      BY <1>1, <2>2, <2>3, <2>5
    <2>6. CASE S \subseteq below /\ b \in S
      BY <1>1, <2>2, <2>3, <2>6
    <2>7. CASE a \notin S /\ b \notin S
      <3>1. \A p \in S : Kids(g, p) = Kids(h, p)
        BY <1>1, <2>7
      <3>. QED BY <3>1 DEF Forest, Rooted
    <2>. QED BY <2>4, <2>5, <2>6, <2>7
  <1>. QED BY <1>2, <1>3, <1>4 DEF Forest

LEMMA Drops ==
  ASSUME NEW h, Forest(h), NEW n \in Live(h), NEW C \in SUBSET Kids(h, n),
         NEW g, IsHeap(g),
         Live(g) = Live(h) \ Below(h, C),
         \A m \in Live(g) \ {n} : g[m] = h[m],
         g[n].alloc = h[n].alloc, IsOrdered(g, n),
         Kids(g, n) \subseteq Kids(h, n) \ C,
         \A s, t \in DOMAIN KidsOf(g, n) :
            KidsOf(g, n)[s] = KidsOf(g, n)[t] => s = t
  PROVE  Forest(g) /\ n \in Live(g)
  <1>1. n \in Live(g)
    BY Severed
  <1>2. \A m \in Live(g) \ {n} :
           KidsOf(g, m) = KidsOf(h, m) /\ Kids(g, m) = Kids(h, m) /\ TypeOf(g, m) = TypeOf(h, m)
    BY DEF KidsOf, Kids, TypeOf
  <1>3. \A m \in Live(g) : g[m].alloc = h[m].alloc /\ IsOrdered(g, m)
    BY <1>2 DEF IsOrdered, Forest, IsCell
  <1>4. \A m \in Live(h) : Kids(h, m) \subseteq Live(h)
    BY DEF Forest, IsCell
  <1>5. \A m \in Live(g) : Kids(g, m) \subseteq Kids(h, m) \cap Live(g)
    <2>1. /\ Kids(h, n) \cap Below(h, C) = C
          /\ \A m \in Live(h) \ Below(h, C) : m # n => Kids(h, m) \cap Below(h, C) = {}
      BY Severed
    <2>2. Kids(g, n) \subseteq Kids(h, n) \cap Live(g)
      BY <1>4, <2>1
    <2>3. \A m \in Live(g) \ {n} : Kids(g, m) \subseteq Kids(h, m) \cap Live(g)
      BY <1>2, <1>4, <2>1
    <2>. QED BY <2>2, <2>3
  <1>6. \A m \in Live(g) : \A s, t \in DOMAIN KidsOf(g, m) :
           KidsOf(g, m)[s] = KidsOf(g, m)[t] => s = t
    BY <1>2 DEF Forest, OwnedOnce
  <1>. QED BY <1>1, <1>3, <1>5, <1>6, Shrinks

-----------------------------------------------------------------------------
(* The primitives.                                                          *)

\* A cell that is to be an impl.
IsImpl(i) == ImplFields \subseteq DOMAIN i

LEMMA SetImplIs ==
  ASSUME NEW h, IsHeap(h), NEW n \in Nodes, NEW i, IsImpl(i)
  PROVE  LET g == SetImpl(h, n, i)
         IN  /\ IsHeap(g) /\ Live(g) = Live(h)
             /\ g[n].impl = i /\ g[n].alloc = h[n].alloc
             /\ \A m \in Nodes \ {n} : g[m] = h[m]
  BY DEF SetImpl, IsHeap, CellFields, ImplFields, IsImpl, Live

LEMMA SetKidsIs ==
  ASSUME NEW h, IsHeap(h), NEW n \in Nodes, NEW kids
  PROVE  LET g == SetKids(h, n, kids)
         IN  /\ IsHeap(g) /\ Live(g) = Live(h)
             /\ KidsOf(g, n) = kids /\ g[n].alloc = h[n].alloc
             /\ TypeOf(g, n) = TypeOf(h, n) /\ g[n].impl.home = h[n].impl.home
             /\ \A m \in Nodes \ {n} : g[m] = h[m]
  BY DEF SetKids, IsHeap, CellFields, ImplFields, Live, KidsOf, TypeOf

LEMMA SwapIs ==
  ASSUME NEW h, IsHeap(h), NEW a \in Nodes, NEW b \in Nodes, a # b
  PROVE  LET g == swapStorage(h, a, b)
         IN  /\ IsHeap(g) /\ Live(g) = Live(h)
             /\ g[a].impl = h[b].impl /\ g[b].impl = h[a].impl
             /\ \A m \in Nodes : g[m].alloc = h[m].alloc
             /\ \A m \in Nodes \ {a, b} : g[m] = h[m]
  BY DEF swapStorage, IsHeap, CellFields, ImplFields, Live

LEMMA NullImplIs ==
  /\ IsImpl(NullImpl) /\ NullImpl.type = "null" /\ DOMAIN NullImpl.kids = {}
  /\ Dead.live = FALSE /\ Dead.impl = NullImpl /\ CellFields \subseteq DOMAIN Dead
  BY DEF NullImpl, IsImpl, ImplFields, Dead, CellFields, EmptyKids

LEMMA MakeNodeIs ==
  ASSUME NEW h, IsHeap(h), NEW c \in Nodes, NEW a
  PROVE  LET g == MakeNode(h, c, a)
         IN  /\ IsHeap(g) /\ Live(g) = Live(h) \cup {c}
             /\ g[c] = NullNode(a)
             /\ g[c].alloc = a /\ g[c].impl = NullImpl
             /\ \A m \in Nodes \ {c} : g[m] = h[m]
  BY NullImplIs DEF MakeNode, NullNode, IsHeap, CellFields, IsImpl, Live

LEMMA DisposeIs ==
  ASSUME NEW h, IsHeap(h), NEW n \in Nodes
  PROVE  LET g == disposeChildren(h, n)
         IN  /\ IsHeap(g)
             /\ Live(g) = Live(h) \ Below(h, Kids(h, n))
             /\ \A m \in Live(g) : g[m] = h[m]
  BY NullImplIs DEF disposeChildren, IsHeap, IsImpl, Live, Below

\* A subtree is its root and the subtrees of the root's children.
LEMMA SubtreeIs ==
  ASSUME NEW h, Forest(h), NEW n \in Live(h)
  PROVE  Subtree(h, n) = {n} \cup Below(h, Kids(h, n))
  <1> DEFINE all == {n} \cup UNION {Subtree(h, c) : c \in Kids(h, n)}
  <1>1. all \in SUBSET Live(h) /\ n \in all /\ all \subseteq Subtree(h, n)
    BY SubtreeOfKid, SubtreeIsClosed
  <1>2. Closed(h, all)
    BY SubtreeOfKid, SubtreeIsClosed DEF Closed
  <1>. QED BY <1>1, <1>2, SubtreeIsClosed DEF Below

\* An impl without children that a node of allocator a may have.
IsEmptyImpl(i, a) ==
    /\ IsImpl(i)
    /\ DOMAIN i.kids = {}
    /\ i.type # "null" => i.home = a
    /\ i.type = "array" => i.kids \in Seq(Pool)

LEMMA EmptyImplIs ==
  ASSUME NEW a, NEW t
  PROVE  /\ IsEmptyImpl(EmptyImpl(a, t), a) /\ EmptyImpl(a, t).type = t
         /\ IsEmptyImpl(NullImpl, a)
         /\ \A v : LET i == [EmptyImpl(a, t) EXCEPT !.val = v]
                   IN  IsEmptyImpl(i, a) /\ i.type = t
  BY DEF EmptyImpl, IsEmptyImpl, IsImpl, ImplFields, NullImpl, EmptyKids

\* resetTo, reset: a node loses its children and gets an impl without any.
LEMMA ReplaceKeeps ==
  ASSUME NEW h, Forest(h), NEW n \in Live(h), NEW i, IsEmptyImpl(i, h[n].alloc)
  PROVE  LET g == SetImpl(disposeChildren(h, n), n, i)
         IN  /\ Forest(g)
             /\ Live(g) = Live(h) \ Below(h, Kids(h, n)) /\ n \in Live(g)
             /\ g[n].impl = i /\ g[n].alloc = h[n].alloc
             /\ \A m \in Live(g) \ {n} : g[m] = h[m]
  <1> DEFINE d == disposeChildren(h, n)
             g == SetImpl(d, n, i)
  <1>1. IsHeap(h) /\ n \in Nodes /\ IsImpl(i)
    BY LiveNodes DEF Forest, IsEmptyImpl
  <1>2. IsHeap(d) /\ Live(d) = Live(h) \ Below(h, Kids(h, n))
        /\ \A m \in Live(d) : d[m] = h[m]
    BY <1>1, DisposeIs
  <1>3. n \in Live(d)
    BY <1>2, Severed
  <1>4. /\ IsHeap(g) /\ Live(g) = Live(d)
        /\ g[n].impl = i /\ g[n].alloc = d[n].alloc
        /\ \A m \in Nodes \ {n} : g[m] = d[m]
    BY <1>1, <1>2, SetImplIs
  <1> HIDE DEF d, g
  <1>5. g[n].alloc = h[n].alloc /\ \A m \in Live(g) \ {n} : g[m] = h[m]
    BY <1>2, <1>3, <1>4, LiveNodes
  <1>6. IsOrdered(g, n) /\ DOMAIN KidsOf(g, n) = {}
    BY <1>4, <1>5 DEF IsOrdered, IsEmptyImpl, TypeOf, KidsOf
  <1>7. Kids(g, n) = {}
    BY <1>6 DEF Kids
  <1>8. Forest(g)
    BY <1>2, <1>4, <1>5, <1>6, <1>7, Drops
  <1>. QED BY <1>2, <1>3, <1>4, <1>5, <1>8 DEF g, d

LEMMA ResetKeeps ==
  ASSUME NEW h, Forest(h), NEW n \in Live(h)
  PROVE  LET g == ResetNode(h, n)
         IN  /\ Forest(g)
             /\ Live(g) = Live(h) \ Below(h, Kids(h, n)) /\ n \in Live(g)
             /\ g[n].impl = NullImpl /\ g[n].alloc = h[n].alloc
             /\ \A m \in Live(g) \ {n} : g[m] = h[m]
  BY ReplaceKeeps, EmptyImplIs DEF ResetNode

\* clear: the same, but the container stays one.
LEMMA ClearKeeps ==
  ASSUME NEW h, Forest(h), NEW n \in Live(h), TypeOf(h, n) \in ContainerTypes
  PROVE  Forest(SetKids(disposeChildren(h, n), n, EmptyKids))
  <1> DEFINE d == disposeChildren(h, n)
             g == SetKids(d, n, EmptyKids)
  <1>1. IsHeap(h) /\ n \in Nodes
    BY LiveNodes DEF Forest
  <1>2. IsHeap(d) /\ Live(d) = Live(h) \ Below(h, Kids(h, n))
        /\ \A m \in Live(d) : d[m] = h[m]
    BY <1>1, DisposeIs
  <1>3. n \in Live(d)
    BY <1>2, Severed
  <1>4. /\ IsHeap(g) /\ Live(g) = Live(d)
        /\ KidsOf(g, n) = EmptyKids /\ g[n].alloc = d[n].alloc
        /\ TypeOf(g, n) = TypeOf(d, n) /\ g[n].impl.home = d[n].impl.home
        /\ \A m \in Nodes \ {n} : g[m] = d[m]
    BY <1>1, <1>2, SetKidsIs
  <1> HIDE DEF d, g
  <1>5. g[n].alloc = h[n].alloc /\ \A m \in Live(g) \ {n} : g[m] = h[m]
    BY <1>2, <1>3, <1>4, LiveNodes
  <1>6. IsOrdered(g, n) /\ DOMAIN KidsOf(g, n) = {}
    <2>1. EmptyKids \in Seq(Pool) /\ DOMAIN EmptyKids = {}
      BY DEF EmptyKids
    <2>2. TypeOf(d, n) = TypeOf(h, n) /\ d[n] = h[n]
      BY <1>2, <1>3 DEF TypeOf
    <2>. QED BY <1>4, <2>1, <2>2 DEF IsOrdered, Forest, IsCell
  <1>7. Kids(g, n) = {}
    BY <1>6 DEF Kids
  <1>. QED BY <1>2, <1>4, <1>5, <1>6, <1>7, Drops DEF g, d

LEMMA DestroyIs ==
  ASSUME NEW h, Forest(h), NEW c \in Live(h)
  PROVE  LET g == destroyNode(h, c)
         IN  /\ IsHeap(g) /\ Live(g) = Live(h) \ Subtree(h, c)
             /\ \A m \in Live(g) : g[m] = h[m]
  <1> DEFINE r == ResetNode(h, c)
             g == destroyNode(h, c)
  <1>1. /\ IsHeap(r) /\ Live(r) = Live(h) \ Below(h, Kids(h, c))
        /\ \A m \in Live(r) \ {c} : r[m] = h[m]
    BY ResetKeeps DEF Forest
  <1>2. g = [r EXCEPT ![c] = Dead]
    BY DEF destroyNode
  <1> HIDE DEF r, g
  <1>3. IsHeap(g) /\ Live(g) = Live(r) \ {c} /\ \A m \in Live(g) : g[m] = r[m]
    BY <1>1, <1>2, NullImplIs, LiveNodes DEF IsHeap, IsImpl, Live
  <1>. QED BY <1>1, <1>3, SubtreeIs DEF g

LEMMA DestroyKeeps ==
  ASSUME NEW h, Forest(h), NEW c \in Live(h), Orphan(h, c)
  PROVE  LET g == destroyNode(h, c)
         IN  /\ Forest(g)
             /\ Live(g) = Live(h) \ Subtree(h, c) /\ c \notin Live(g)
             /\ \A m \in Live(g) : g[m] = h[m]
  <1> DEFINE g == destroyNode(h, c)
  <1>1. /\ IsHeap(g) /\ Live(g) = Live(h) \ Subtree(h, c)
        /\ \A m \in Live(g) : g[m] = h[m]
    BY DestroyIs
  <1> HIDE DEF g
  <1>2. c \notin Live(g)
    BY <1>1, SubtreeIsClosed
  <1>3. \A m \in Live(g) :
           KidsOf(g, m) = KidsOf(h, m) /\ Kids(g, m) = Kids(h, m) /\ TypeOf(g, m) = TypeOf(h, m)
    BY <1>1 DEF KidsOf, Kids, TypeOf
  <1>4. \A m \in Live(g) : g[m].alloc = h[m].alloc /\ IsOrdered(g, m)
    BY <1>1, <1>3 DEF IsOrdered, Forest, IsCell
  <1>5. \A m \in Live(g) : Kids(h, m) \subseteq Live(g)
    <2> SUFFICES ASSUME NEW m \in Live(g), NEW x \in Kids(h, m), x \in Subtree(h, c)
                 PROVE  FALSE
      BY <1>1 DEF Forest, IsCell
    <2>1. x # c
      BY <1>1 DEF Orphan
    <2>2. PICK p \in Subtree(h, c) : x \in Kids(h, p)
      BY <2>1, OwnedInside
    <2>3. p = m
      BY <1>1, <2>2, SubtreeIsClosed DEF Forest, OwnedOnce, Kids
    <2>. QED BY <1>1, <2>2, <2>3
  <1>6. \A m \in Live(g) : \A s, t \in DOMAIN KidsOf(g, m) :
           KidsOf(g, m)[s] = KidsOf(g, m)[t] => s = t
    BY <1>1, <1>3 DEF Forest, OwnedOnce
  <1>7. Forest(g)
    BY <1>1, <1>3, <1>4, <1>5, <1>6, Shrinks
  <1>. QED BY <1>1, <1>2, <1>7 DEF g

LEMMA SwapKeeps ==
  ASSUME NEW h, Forest(h), NEW a \in Live(h), NEW b \in Live(h), a # b,
         a \notin Subtree(h, b), b \notin Subtree(h, a), h[a].alloc = h[b].alloc
  PROVE  LET g == swapStorage(h, a, b)
         IN  /\ Forest(g) /\ Live(g) = Live(h)
             /\ g[a].impl = h[b].impl /\ g[b].impl = h[a].impl
             /\ \A m \in Nodes : g[m].alloc = h[m].alloc
             /\ \A m \in Nodes \ {a, b} : g[m] = h[m]
  <1> DEFINE g == swapStorage(h, a, b)
  <1>1. /\ IsHeap(g) /\ Live(g) = Live(h)
        /\ g[a].impl = h[b].impl /\ g[b].impl = h[a].impl
        /\ \A m \in Nodes : g[m].alloc = h[m].alloc
        /\ \A m \in Nodes \ {a, b} : g[m] = h[m]
    BY SwapIs, LiveNodes DEF Forest
  <1> HIDE DEF g
  <1>2. Forest(g)
    BY <1>1, Exchanges, LiveNodes
  <1>. QED BY <1>1, <1>2 DEF g

\* A node comes to life childless.
LEMMA MakeKeeps ==
  ASSUME NEW h, Forest(h), NEW c \in Nodes \ Live(h), NEW g, IsHeap(g),
         Live(g) = Live(h) \cup {c}, \A m \in Live(h) : g[m] = h[m],
         IsEmptyImpl(g[c].impl, g[c].alloc)
  PROVE  Forest(g) /\ Orphan(g, c) /\ Kids(g, c) = {}
  <1>1. \A m \in Live(h) :
           KidsOf(g, m) = KidsOf(h, m) /\ Kids(g, m) = Kids(h, m) /\ TypeOf(g, m) = TypeOf(h, m)
    BY DEF KidsOf, Kids, TypeOf
  <1>2. DOMAIN KidsOf(g, c) = {} /\ Kids(g, c) = {} /\ IsOrdered(g, c)
    BY DEF IsEmptyImpl, KidsOf, Kids, IsOrdered, TypeOf
  <1>3. \A m \in Live(h) : c \notin Kids(h, m)
    BY DEF Forest, IsCell
  <1>4. \A m \in Live(g) : IsCell(g, m)
    <2>1. \A m \in Live(h) : IsCell(g, m)
      BY <1>1 DEF IsCell, Forest
    <2>2. IsCell(g, c)
      BY <1>2 DEF IsCell, IsOrdered
    <2>. QED BY <2>1, <2>2
  <1>5. OwnedOnce(g)
    BY <1>1, <1>2 DEF OwnedOnce, Forest
  <1>6. Rooted(g)
    <2> SUFFICES ASSUME NEW S \in SUBSET Live(g), S # {}
                 PROVE  \E m \in S : \A p \in S : m \notin Kids(g, p)
      BY DEF Rooted
    <2>1. CASE c \in S
      BY <1>1, <1>2, <1>3, <2>1
    <2>2. CASE c \notin S
      BY <1>1, <2>2 DEF Forest, Rooted
    <2>. QED BY <2>1, <2>2
  <1>. QED BY <1>1, <1>2, <1>3, <1>4, <1>5, <1>6 DEF Forest, Orphan

\* A childless node changes its type and payload.
LEMMA DressKeeps ==
  ASSUME NEW h, Forest(h), NEW n \in Live(h), Kids(h, n) = {},
         NEW i, IsEmptyImpl(i, h[n].alloc)
  PROVE  LET g == SetImpl(h, n, i)
         IN  /\ Forest(g) /\ Live(g) = Live(h)
             /\ g[n].impl = i /\ g[n].alloc = h[n].alloc /\ Kids(g, n) = {}
             /\ \A m \in Nodes \ {n} : g[m] = h[m]
             /\ \A m \in Live(h) : Kids(g, m) = Kids(h, m)
  <1> DEFINE g == SetImpl(h, n, i)
  <1>1. IsHeap(h) /\ n \in Nodes /\ IsImpl(i)
    BY LiveNodes DEF Forest, IsEmptyImpl
  <1>2. /\ IsHeap(g) /\ Live(g) = Live(h)
        /\ g[n].impl = i /\ g[n].alloc = h[n].alloc
        /\ \A m \in Nodes \ {n} : g[m] = h[m]
    BY <1>1, SetImplIs
  <1> HIDE DEF g
  <1>3. DOMAIN KidsOf(g, n) = {} /\ Kids(g, n) = {} /\ IsOrdered(g, n)
    BY <1>2 DEF IsEmptyImpl, KidsOf, Kids, IsOrdered, TypeOf
  <1>4. \A m \in Live(g) \ {n} :
           /\ KidsOf(g, m) = KidsOf(h, m) /\ Kids(g, m) = Kids(h, m)
           /\ TypeOf(g, m) = TypeOf(h, m) /\ g[m] = h[m]
    BY <1>2, LiveNodes DEF KidsOf, Kids, TypeOf
  <1>5. \A m \in Live(g) : IsOrdered(g, m)
    BY <1>2, <1>3, <1>4 DEF IsOrdered, Forest, IsCell
  <1>6. \A m \in Live(g) : Kids(g, m) \subseteq Kids(h, m) \cap Live(g)
    BY <1>2, <1>3, <1>4 DEF Forest, IsCell
  <1>7. \A m \in Live(g) : \A s, t \in DOMAIN KidsOf(g, m) :
           KidsOf(g, m)[s] = KidsOf(g, m)[t] => s = t
    BY <1>2, <1>3, <1>4 DEF Forest, OwnedOnce
  <1>8. Forest(g)
    BY <1>2, <1>4, <1>5, <1>6, <1>7, Shrinks
  <1>. QED BY <1>2, <1>3, <1>4, <1>8 DEF g

\* An orphan is hung below a container.
LEMMA AttachKeeps ==
  ASSUME NEW h, Forest(h), NEW n \in Live(h), NEW c \in Live(h) \cap Pool,
         Orphan(h, c), n \notin Subtree(h, c), h[c].alloc = h[n].alloc,
         TypeOf(h, n) \in ContainerTypes, NEW s,
         TypeOf(h, n) = "array" => s = NextIndex(h, n)
  PROVE  LET g == Attach(h, n, s, c)
         IN  /\ Forest(g) /\ Live(g) = Live(h)
             /\ \A m \in Nodes : g[m].alloc = h[m].alloc
             /\ \A m \in Nodes : TypeOf(g, m) = TypeOf(h, m)
             /\ \A m \in Nodes \ {n} : g[m] = h[m] /\ Kids(g, m) = Kids(h, m)
             /\ KidsOf(g, n) = PutKid(KidsOf(h, n), s, c)
             /\ Kids(g, n) \subseteq Kids(h, n) \cup {c}
  <1> DEFINE kids == PutKid(KidsOf(h, n), s, c)
             g == Attach(h, n, s, c)
  <1>1. IsHeap(h) /\ n \in Nodes
    BY LiveNodes DEF Forest
  <1>2. /\ IsHeap(g) /\ Live(g) = Live(h)
        /\ KidsOf(g, n) = kids /\ g[n].alloc = h[n].alloc
        /\ TypeOf(g, n) = TypeOf(h, n) /\ g[n].impl.home = h[n].impl.home
        /\ \A m \in Nodes \ {n} : g[m] = h[m]
    BY <1>1, SetKidsIs DEF Attach
  <1>3. /\ DOMAIN kids = DOMAIN KidsOf(h, n) \cup {s}
        /\ kids[s] = c /\ \A x \in DOMAIN KidsOf(h, n) \ {s} : kids[x] = KidsOf(h, n)[x]
    BY DEF PutKid
  <1>4. TypeOf(h, n) = "array" => kids \in Seq(Pool)
    <2> SUFFICES ASSUME TypeOf(h, n) = "array" PROVE kids \in Seq(Pool)
      OBVIOUS
    <2>1. KidsOf(h, n) \in Seq(Pool) /\ s = Len(KidsOf(h, n)) + 1
      BY DEF Forest, IsCell, NextIndex
    <2>2. KidsOf(h, n) \in [1..Len(KidsOf(h, n)) -> Pool] /\ Len(KidsOf(h, n)) \in Nat
      BY <2>1
    <2>3. DOMAIN KidsOf(h, n) \cup {s} = 1..(Len(KidsOf(h, n)) + 1)
      BY <2>1, <2>2
    <2>4. kids \in [1..(Len(KidsOf(h, n)) + 1) -> Pool]
      BY <2>1, <2>2, <2>3 DEF PutKid
    <2>. QED BY <2>2, <2>4, SeqDef
  <1> HIDE DEF kids, g
  <1>5. \A m \in Nodes \ {n} :
           /\ KidsOf(g, m) = KidsOf(h, m) /\ Kids(g, m) = Kids(h, m)
           /\ TypeOf(g, m) = TypeOf(h, m)
    BY <1>2 DEF KidsOf, Kids, TypeOf
  <1>6. \A m \in Live(g) : g[m].alloc = h[m].alloc /\ IsOrdered(g, m)
    BY <1>2, <1>4, <1>5, LiveNodes DEF IsOrdered, Forest, IsCell, ContainerTypes
  <1>7. Kids(g, n) \subseteq Kids(h, n) \cup {c}
    BY <1>2, <1>3 DEF Kids
  <1>8. Forest(g)
    BY <1>2, <1>3, <1>5, <1>6, Grows, LiveNodes
  <1>. QED BY <1>2, <1>5, <1>7, <1>8 DEF g, kids

\* The same, for the cells the operations make: g is h with a new node c.
Sprouts(g, h, c, a, i) ==
    /\ IsHeap(g) /\ Live(g) = Live(h) \cup {c}
    /\ g[c].alloc = a /\ g[c].impl = i
    /\ \A m \in Nodes \ {c} : g[m] = h[m]

LEMMA SproutKeeps ==
  ASSUME NEW h, Forest(h), NEW c \in Nodes \ Live(h), NEW a, NEW i, IsEmptyImpl(i, a),
         NEW g, Sprouts(g, h, c, a, i)
  PROVE  /\ Forest(g)
         /\ Orphan(g, c) /\ Kids(g, c) = {} /\ Subtree(g, c) = {c}
         /\ \A m \in Nodes \ {c} : Kids(g, m) = Kids(h, m)
  <1>1. Forest(g) /\ Orphan(g, c) /\ Kids(g, c) = {}
    BY MakeKeeps, LiveNodes DEF Sprouts
  <1>2. Subtree(g, c) = {c}
    BY <1>1, SubtreeIs DEF Below, Sprouts
  <1>3. \A m \in Nodes \ {c} : Kids(g, m) = Kids(h, m)
    BY DEF Kids, KidsOf, Sprouts
  <1>. QED BY <1>1, <1>2, <1>3

LEMMA MakeNodeSprouts ==
  ASSUME NEW h, IsHeap(h), NEW c \in Nodes, NEW a
  PROVE  Sprouts(MakeNode(h, c, a), h, c, a, NullImpl)
  BY MakeNodeIs DEF Sprouts

LEMMA DressedSprouts ==
  ASSUME NEW h, IsHeap(h), NEW c \in Nodes, NEW a, NEW i, IsImpl(i)
  PROVE  Sprouts(SetImpl(MakeNode(h, c, a), c, i), h, c, a, i)
  <1> DEFINE made == MakeNode(h, c, a)
  <1>1. /\ IsHeap(made) /\ Live(made) = Live(h) \cup {c} /\ made[c].alloc = a
        /\ \A m \in Nodes \ {c} : made[m] = h[m]
    BY MakeNodeIs
  <1> HIDE DEF made
  <1>2. LET g == SetImpl(made, c, i)
        IN  /\ IsHeap(g) /\ Live(g) = Live(made)
            /\ g[c].impl = i /\ g[c].alloc = made[c].alloc
            /\ \A m \in Nodes \ {c} : g[m] = made[m]
    BY <1>1, SetImplIs
  <1>. QED BY <1>1, <1>2 DEF Sprouts, made

LEMMA CellSprouts ==
  ASSUME NEW h, IsHeap(h), NEW c \in Nodes, NEW a, NEW i, IsImpl(i)
  PROVE  Sprouts([h EXCEPT ![c] = [live |-> TRUE, alloc |-> a, impl |-> i]], h, c, a, i)
  BY DEF Sprouts, IsHeap, IsImpl, CellFields, Live

\* Temporaries go out of scope.
LEMMA DropTempKeeps ==
  ASSUME NEW h, Forest(h), NEW t \in Temps
  PROVE  LET g == DropTemp(h, t)
         IN  Forest(g) /\ Live(g) \subseteq Live(h) \ {t}
  <1>1. t \in Nodes /\ t \notin Pool
    BY NodesAssumption DEF Nodes
  <1>2. CASE h[t].live
    <2>1. t \in Live(h) /\ Orphan(h, t)
      BY <1>1, <1>2, OutsidersAreOrphans DEF Live
    <2>2. DropTemp(h, t) = destroyNode(h, t)
      BY <1>2 DEF DropTemp
    <2>. QED BY <2>1, <2>2, DestroyKeeps
  <1>3. CASE ~h[t].live
    <2>1. t \notin Live(h) /\ DropTemp(h, t) = h
      BY <1>3 DEF DropTemp, Live
    <2>. QED BY <2>1
  <1>. QED BY <1>2, <1>3

-----------------------------------------------------------------------------
(* The invariant: the heap is a forest, and what the running operation has  *)
(* in its hands is where it has put it.                                      *)

NoTemps(h) == T1 \notin Live(h) /\ T2 \notin Live(h)

\* What job j has made in heap h.
New(h, j) == Live(h) \ Live(j.snap)

\* An item of the copy loop.
IsItem(h, j, p) ==
    /\ p[1] \in Live(h) /\ p[2] \in New(h, j)
    /\ TypeOf(h, p[1]) = TypeOf(h, p[2])

\* What was there at the call, and hangs below v, does not hold n.
Apart(h, old, v, n) ==
    \E W \in SUBSET old : v \in W /\ n \notin W /\ Closed(h, W)

AssignOps == {"assign", "moveAssign"}
ConstructOps == {"construct", "constructMove"}
PushOps == {"pushBack", "pushBackMove"}
InsertOps == {"insert", "insertMove"}
MoveOps == {"moveAssign", "pushBackMove", "insertMove"}
CopyOps == AssignOps \cup ConstructOps \cup PushOps \cup InsertOps \cup {"insertSnapshot"}

TempInv(h, j, t) == t \in New(h, j) /\ h[t].alloc = h[j.n].alloc /\ j.own = None

IntoInv(h, j, t) ==
    /\ j.into \in {j.n, T1} /\ j.into \in Live(h)
    /\ j.into # j.n => j.into \in New(h, j)
    /\ h[j.into].alloc = h[j.n].alloc
    /\ TypeOf(h, j.into) = t

OwnInv(h, j) ==
    /\ j.own \in New(h, j) \cap Pool
    /\ h[j.own].alloc = h[j.n].alloc
    /\ j.op # "insertMove" => Orphan(h, j.own)
    /\ j.op = "insertMove" =>
        /\ j.slot \in DOMAIN KidsOf(h, j.into)
        /\ KidsOf(h, j.into)[j.slot] = j.own

\* What a copying operation has in its hands.
HandsInv(h, j) ==
    /\ Live(j.snap) \subseteq Live(h)
    /\ j.op \in CopyOps
    /\ j.v \in Live(j.snap) /\ j.n \in Live(h)
    /\ j.op \notin ConstructOps => j.n \in Live(j.snap)
    /\ j.op \in ConstructOps => j.n \in Roots
    /\ j.op \in AssignOps => TempInv(h, j, T1)
    /\ j.op = "insertSnapshot" => TempInv(h, j, T2) /\ T1 \notin Live(h)
    /\ j.op \in PushOps => IntoInv(h, j, "array") /\ OwnInv(h, j)
    /\ j.op \in InsertOps => IntoInv(h, j, "object") /\ OwnInv(h, j)
    /\ j.op \in MoveOps => Apart(h, Live(j.snap), j.v, j.n)

CopyInv(h, j) ==
    /\ HandsInv(h, j)
    /\ IsItem(h, j, j.cur)
    /\ j.work \in Seq(Nodes \X Nodes)
    /\ \A i \in 1..Len(j.work) : IsItem(h, j, j.work[i])

GrowInv(h, j) ==
    /\ Live(j.snap) \subseteq Live(h)
    /\ j.n \in Live(j.snap)
    /\ IntoInv(h, j, "array")
    /\ j.slot \in Nat /\ j.slot <= Len(KidsOf(h, j.into))

JobFields == {"op", "n", "v", "slot", "into", "own", "cur", "work", "want", "fill", "snap"}

DomInv ==
    /\ Forest(heap)
    /\ JobFields \subseteq DOMAIN job
    /\ ~Running => NoTemps(heap)
    /\ Running =>
        /\ Closed(heap, New(heap, job))
        /\ IF job.op = "grow" THEN GrowInv(heap, job) ELSE CopyInv(heap, job)

\* Whatever operation returns, and whether it has succeeded or not.
LEMMA Returns ==
  ASSUME NEW h, Forest(h), NEW r, Return(h, r)
  PROVE  DomInv'
  <1>1. T1 \in Temps /\ T2 \in Temps
    BY DEF Temps
  <1>2. Forest(DropTemp(h, T1)) /\ Live(DropTemp(h, T1)) \subseteq Live(h) \ {T1}
    BY <1>1, DropTempKeeps
  <1>3. Forest(heap') /\ Live(heap') \subseteq Live(DropTemp(h, T1)) \ {T2}
    BY <1>1, <1>2, DropTempKeeps DEF Return
  <1>4. NoTemps(heap')
    BY <1>2, <1>3 DEF NoTemps
  <1>5. job' = Idle /\ JobFields \subseteq DOMAIN Idle /\ Idle.op = "idle"
    BY DEF Return, Idle, JobFields
  <1>. QED BY <1>3, <1>4, <1>5 DEF DomInv, Running

-----------------------------------------------------------------------------
(* Operations that complete in one action.                                  *)

\* The same heap but for a payload.
LEMMA PayloadKeeps ==
  ASSUME NEW h, Forest(h), NEW n \in Live(h), NEW p
  PROVE  Forest([h EXCEPT ![n].impl.val = p])
  <1> DEFINE g == [h EXCEPT ![n].impl.val = p]
  <1>1. /\ IsHeap(g) /\ Live(g) = Live(h)
        /\ \A m \in Nodes : /\ g[m].alloc = h[m].alloc /\ g[m].impl.home = h[m].impl.home
                            /\ g[m].impl.type = h[m].impl.type
                            /\ g[m].impl.kids = h[m].impl.kids
    BY LiveNodes DEF Forest, IsHeap, CellFields, ImplFields, Live
  <1> HIDE DEF g
  <1>2. \A m \in Live(g) :
           /\ KidsOf(g, m) = KidsOf(h, m) /\ Kids(g, m) = Kids(h, m)
           /\ TypeOf(g, m) = TypeOf(h, m) /\ g[m].alloc = h[m].alloc
           /\ g[m].impl.home = h[m].impl.home
    BY <1>1, LiveNodes DEF KidsOf, Kids, TypeOf
  <1>3. \A m \in Live(g) : IsOrdered(g, m) /\ Kids(g, m) \subseteq Kids(h, m) \cap Live(g)
    BY <1>1, <1>2 DEF IsOrdered, Forest, IsCell
  <1>4. \A m \in Live(g) : \A s, t \in DOMAIN KidsOf(g, m) :
           KidsOf(g, m)[s] = KidsOf(g, m)[t] => s = t
    BY <1>1, <1>2 DEF Forest, OwnedOnce
  <1>5. Forest(g)
    BY <1>1, <1>2, <1>3, <1>4, Shrinks
  <1>. QED BY <1>5 DEF g

\* resetTo and resetIfNeeded.
LEMMA RetypeKeeps ==
  ASSUME NEW h, Forest(h), NEW n \in Live(h), NEW t
  PROVE  /\ Forest(ReplaceImpl(h, n, EmptyImpl(h[n].alloc, t)))
         /\ n \in Live(ReplaceImpl(h, n, EmptyImpl(h[n].alloc, t)))
         /\ Forest(resetIfNeeded(h, n, t)) /\ n \in Live(resetIfNeeded(h, n, t))
  <1>1. IsEmptyImpl(EmptyImpl(h[n].alloc, t), h[n].alloc)
    BY EmptyImplIs
  <1>2. /\ Forest(ReplaceImpl(h, n, EmptyImpl(h[n].alloc, t)))
        /\ n \in Live(ReplaceImpl(h, n, EmptyImpl(h[n].alloc, t)))
    BY <1>1, ReplaceKeeps DEF ReplaceImpl
  <1>. QED BY <1>2 DEF resetIfNeeded

\* Removing an element from an array closes the gap.
LEMMA DropIndexIs ==
  ASSUME NEW kids \in Seq(Pool), NEW s \in DOMAIN kids,
         \A i, j \in DOMAIN kids : kids[i] = kids[j] => i = j
  PROVE  LET rest == DropIndex(kids, s)
         IN  /\ rest \in Seq(Pool)
             /\ \A i \in DOMAIN rest : rest[i] \in {kids[j] : j \in DOMAIN kids \ {s}}
             /\ \A i, j \in DOMAIN rest : rest[i] = rest[j] => i = j
  <1> DEFINE rest == DropIndex(kids, s)
             last == Len(kids) - 1
  <1>1. DOMAIN kids = 1..Len(kids) /\ Len(kids) \in Nat /\ last \in Nat /\ s \in 1..Len(kids)
        /\ \A i \in 1..Len(kids) : kids[i] \in Pool
    OBVIOUS
  <1>2. DOMAIN rest = 1..last
        /\ \A i \in 1..last : rest[i] = IF i < s THEN kids[i] ELSE kids[i + 1]
    BY DEF DropIndex
  <1>3. \A i \in 1..last : i \in 1..Len(kids) /\ i + 1 \in 1..Len(kids)
    BY <1>1
  <1>4. rest \in [1..last -> Pool]
    BY <1>1, <1>3 DEF DropIndex
  <1>5. rest \in Seq(Pool)
    BY <1>1, <1>4, SeqDef
  <1> HIDE DEF rest, last
  <1> DEFINE from(i) == IF i < s THEN i ELSE i + 1
  <1>6. \A i \in 1..last : from(i) \in DOMAIN kids \ {s} /\ rest[i] = kids[from(i)]
    BY <1>1, <1>2, <1>3
  <1>7. \A i, j \in 1..last : from(i) = from(j) => i = j
    BY <1>1
  <1> HIDE DEF from
  <1>8. \A i \in DOMAIN rest : rest[i] \in {kids[j] : j \in DOMAIN kids \ {s}}
    BY <1>2, <1>6
  <1>9. \A i, j \in DOMAIN rest : rest[i] = rest[j] => i = j
    BY <1>2, <1>6, <1>7
  <1>. QED BY <1>5, <1>8, <1>9 DEF rest

\* A child is destroyed and its slot goes away.
LEMMA UnhookKeeps ==
  ASSUME NEW h, Forest(h), NEW n \in Live(h), NEW s \in DOMAIN KidsOf(h, n), NEW kids,
         TypeOf(h, n) \in ContainerTypes,
         TypeOf(h, n) = "array" => kids \in Seq(Pool),
         \A i \in DOMAIN kids :
            kids[i] \in {KidsOf(h, n)[j] : j \in DOMAIN KidsOf(h, n) \ {s}},
         \A i, j \in DOMAIN kids : kids[i] = kids[j] => i = j
  PROVE  Forest(SetKids(destroyNode(h, KidsOf(h, n)[s]), n, kids))
  <1> DEFINE x == KidsOf(h, n)[s]
             d == destroyNode(h, x)
             g == SetKids(d, n, kids)
  <1>1. x \in Kids(h, n) /\ {x} \in SUBSET Kids(h, n) /\ x \in Live(h)
    BY SubtreeOfKid DEF Kids
  <1>2. IsHeap(d) /\ Live(d) = Live(h) \ Below(h, {x}) /\ \A m \in Live(d) : d[m] = h[m]
    BY <1>1, DestroyIs DEF Below
  <1>3. n \in Live(d) /\ n \in Nodes
    BY <1>1, <1>2, Severed, LiveNodes
  <1>4. \A i \in DOMAIN kids : kids[i] \in Kids(h, n) \ {x}
    BY DEF Forest, OwnedOnce, Kids
  <1>5. /\ IsHeap(g) /\ Live(g) = Live(d)
        /\ KidsOf(g, n) = kids /\ g[n].alloc = d[n].alloc
        /\ TypeOf(g, n) = TypeOf(d, n) /\ g[n].impl.home = d[n].impl.home
        /\ \A m \in Nodes \ {n} : g[m] = d[m]
    <2>. HIDE DEF d
    <2>1. IsHeap(d) /\ n \in Nodes
      BY <1>2, <1>3
    <2>. QED BY ONLY <2>1, SetKidsIs
  <1> HIDE DEF g, d, x
  <1>6. g[n].alloc = h[n].alloc /\ \A m \in Live(g) \ {n} : g[m] = h[m]
    BY <1>2, <1>3, <1>5, LiveNodes
  <1>7. Kids(g, n) \subseteq Kids(h, n) \ {x}
    BY <1>4, <1>5 DEF Kids
  <1>8. IsOrdered(g, n)
    <2>1. TypeOf(d, n) = TypeOf(h, n) /\ d[n] = h[n]
      BY <1>2, <1>3 DEF TypeOf
    <2>. QED BY <1>5, <2>1 DEF IsOrdered, Forest, IsCell
  <1>9. \A i, j \in DOMAIN KidsOf(g, n) : KidsOf(g, n)[i] = KidsOf(g, n)[j] => i = j
    BY <1>5
  <1>10. Live(g) = Live(h) \ Below(h, {x})
    BY <1>2, <1>5
  <1>11. Forest(g)
    BY <1>1, <1>5, <1>6, <1>7, <1>8, <1>9, <1>10, Drops
  <1>. QED BY <1>11 DEF g, d, x

\* The container an insertion fills.
FillsIn(g, n, t, into) ==
    /\ Forest(g)
    /\ into \in {n, T1} /\ Live(g) = Live(heap) \cup {into}
    /\ into # n => into \notin Live(heap) /\ Kids(g, into) = {}
    /\ g[into].alloc = heap[n].alloc /\ TypeOf(g, into) = t
    /\ \A m \in Live(heap) : g[m] = heap[m] /\ Kids(g, m) = Kids(heap, m)

LEMMA ReplacementFillsIn ==
  ASSUME Forest(heap), T1 \notin Live(heap), NEW n \in Live(heap), NEW t
  PROVE  LET g == [heap EXCEPT ![T1] = [live |-> TRUE, alloc |-> heap[n].alloc,
                                        impl |-> EmptyImpl(heap[n].alloc, t)]]
         IN  FillsIn(g, n, t, T1)
  <1> DEFINE a == heap[n].alloc
             g == [heap EXCEPT ![T1] = [live |-> TRUE, alloc |-> a, impl |-> EmptyImpl(a, t)]]
  <1>1. T1 \in Nodes /\ IsHeap(heap)
    BY DEF Nodes, Temps, Forest
  <1>2. IsEmptyImpl(EmptyImpl(a, t), a) /\ EmptyImpl(a, t).type = t
    BY EmptyImplIs
  <1>3. Sprouts(g, heap, T1, a, EmptyImpl(a, t))
    BY <1>1, <1>2, CellSprouts DEF IsEmptyImpl
  <1> HIDE DEF g, a
  <1>4. /\ Forest(g) /\ Kids(g, T1) = {}
        /\ \A m \in Nodes \ {T1} : Kids(g, m) = Kids(heap, m)
    BY <1>1, <1>2, <1>3, SproutKeeps
  <1>5. TypeOf(g, T1) = t
    BY <1>2, <1>3 DEF Sprouts, TypeOf
  <1>6. \A m \in Live(heap) : g[m] = heap[m] /\ Kids(g, m) = Kids(heap, m)
    BY <1>3, <1>4, LiveNodes DEF Sprouts
  <1>7. FillsIn(g, n, t, T1)
    BY <1>3, <1>4, <1>5, <1>6 DEF FillsIn, Sprouts, a
  <1>. QED BY <1>7 DEF g, a

LEMMA WithInToFillsIn ==
  ASSUME Forest(heap), T1 \notin Live(heap), NEW n \in Live(heap), NEW t
  PROVE  FillsIn(WithInTo(heap, n, t), n, t, InTo(n, t))
  <1>1. CASE TypeOf(heap, n) = t
    BY <1>1 DEF FillsIn, WithInTo, InTo
  <1>2. CASE TypeOf(heap, n) # t
    BY <1>2, ReplacementFillsIn DEF WithInTo, InTo
  <1>. QED BY <1>1, <1>2

\* Everything an insertion makes before it copies: the container and a child.
Ready(g, n, t, into, c) ==
    /\ Forest(g)
    /\ into \in {n, T1} /\ Live(g) = Live(heap) \cup {into, c}
    /\ into # n => into \notin Live(heap) /\ Kids(g, into) = {}
    /\ g[into].alloc = heap[n].alloc /\ TypeOf(g, into) = t
    /\ c \in Pool \ Live(heap) /\ g[c].alloc = heap[n].alloc
    /\ Orphan(g, c) /\ Kids(g, c) = {} /\ Subtree(g, c) = {c} /\ TypeOf(g, c) = "null"
    /\ \A m \in Live(heap) : g[m] = heap[m] /\ Kids(g, m) = Kids(heap, m)

LEMMA FreshIsDead ==
  ASSUME HasRoom(heap)
  PROVE  Fresh(heap) \in Pool \ Live(heap) /\ Fresh(heap) \in Nodes
  BY DEF HasRoom, Fresh, IsFree, Live, Nodes

LEMMA InsertionIsReady ==
  ASSUME Forest(heap), T1 \notin Live(heap), NEW n \in Live(heap), NEW t, HasRoom(heap)
  PROVE  Ready(MakeNode(WithInTo(heap, n, t), Fresh(heap), heap[n].alloc),
               n, t, InTo(n, t), Fresh(heap))
  <1> DEFINE w == WithInTo(heap, n, t)
             c == Fresh(heap)
             a == heap[n].alloc
             g == MakeNode(w, c, a)
             into == InTo(n, t)
  <1>1. FillsIn(w, n, t, into)
    BY WithInToFillsIn
  <1>2. c \in Pool \ Live(heap) /\ c \in Nodes
    BY FreshIsDead
  <1>3. T1 \notin Pool /\ T1 \in Nodes
    BY NodesAssumption DEF Temps, Nodes
  <1> HIDE DEF w, c, a, into
  <1>4. c \notin Live(w) /\ c # into
    BY <1>1, <1>2, <1>3 DEF FillsIn
  <1>5. Sprouts(g, w, c, a, NullImpl)
    BY <1>1, <1>2, MakeNodeSprouts DEF FillsIn, Forest
  <1>6. IsEmptyImpl(NullImpl, a)
    BY EmptyImplIs
  <1> HIDE DEF g
  <1>7. /\ Forest(g)
        /\ Orphan(g, c) /\ Kids(g, c) = {} /\ Subtree(g, c) = {c}
        /\ \A m \in Nodes \ {c} : Kids(g, m) = Kids(w, m)
    BY <1>1, <1>2, <1>4, <1>5, <1>6, SproutKeeps DEF FillsIn
  <1>8. \A m \in Live(heap) : g[m] = heap[m] /\ Kids(g, m) = Kids(heap, m)
    BY <1>1, <1>2, <1>5, <1>7, LiveNodes DEF FillsIn, Sprouts
  <1>9. into \in Nodes
    BY <1>1, <1>3, LiveNodes DEF FillsIn
  <1>10. TypeOf(g, c) = "null"
    BY <1>5, NullImplIs DEF Sprouts, TypeOf
  <1>11. g[into] = w[into] /\ Kids(g, into) = Kids(w, into) /\ TypeOf(g, into) = TypeOf(w, into)
    BY <1>4, <1>5, <1>7, <1>9 DEF Sprouts, TypeOf
  <1>12. /\ into \in {n, T1} /\ Live(g) = Live(heap) \cup {into, c}
         /\ into # n => into \notin Live(heap) /\ Kids(g, into) = {}
         /\ g[into].alloc = a /\ TypeOf(g, into) = t /\ g[c].alloc = a
    BY <1>1, <1>5, <1>11 DEF FillsIn, Sprouts, a
  <1>13. Ready(g, n, t, into, c)
    BY <1>2, <1>7, <1>8, <1>10, <1>12 DEF Ready, a
  <1>. QED BY <1>13 DEF g, w, c, a, into

\* The replacement is published by exchanging its storage with the receiver's,
\* which is no part of what the operation has made.
LEMMA PublishKeeps ==
  ASSUME NEW g, Forest(g), NEW n \in Live(g), NEW into \in {n, T1}, into \in Live(g),
         g[into].alloc = g[n].alloc,
         NEW N \in SUBSET Live(g), Closed(g, N), n \notin N, into # n => into \in N
  PROVE  Forest(Publish(g, n, into))
  <1>1. CASE into = n
    BY <1>1 DEF Publish
  <1>2. CASE into # n
    <2>1. into \notin Pool
      BY <1>2, NodesAssumption DEF Temps
    <2>2. into \notin Subtree(g, n)
      BY <1>2, <2>1, OutsidersAreOrphans, OrphanIsApart
    <2>3. n \notin Subtree(g, into)
      BY <1>2, OutsideSubtree
    <2>4. Forest(swapStorage(g, n, into))
      BY <1>2, <2>2, <2>3, SwapKeeps
    <2>. QED BY <1>2, <2>4 DEF Publish
  <1>. QED BY <1>1, <1>2

\* The child is attached to the container, which is published.
LEMMA AttachAndPublish ==
  ASSUME NEW g, Forest(g), NEW n \in Live(g), NEW into \in {n, T1}, into \in Live(g),
         g[into].alloc = g[n].alloc, TypeOf(g, into) \in ContainerTypes,
         NEW s, TypeOf(g, into) = "array" => s = NextIndex(g, into),
         NEW c \in Live(g) \cap Pool, Orphan(g, c), g[c].alloc = g[n].alloc,
         NEW N \in SUBSET Live(g), Closed(g, N), n \notin N, c \in N,
         into # n => into \in N
  PROVE  Forest(Publish(Attach(g, into, s, c), n, into))
  <1> DEFINE k == Attach(g, into, s, c)
  <1>1. into \notin Subtree(g, c)
    <2>1. CASE into = n
      BY <2>1, OutsideSubtree
    <2>2. CASE into # n
      <3>1. into \notin Pool
        BY <2>2, NodesAssumption DEF Temps
      <3>2. into # c
        BY <3>1
      <3>. QED BY <3>1, <3>2, OutsidersAreOrphans, OrphanIsApart
    <2>. QED BY <2>1, <2>2
  <1>2. /\ Forest(k) /\ Live(k) = Live(g)
        /\ \A m \in Nodes : k[m].alloc = g[m].alloc
        /\ \A m \in Nodes \ {into} : k[m] = g[m] /\ Kids(k, m) = Kids(g, m)
        /\ Kids(k, into) \subseteq Kids(g, into) \cup {c}
    BY <1>1, AttachKeeps
  <1> HIDE DEF k
  <1>3. Closed(k, N)
    BY <1>2, LiveNodes DEF Closed
  <1>4. k[into].alloc = k[n].alloc
    BY <1>2, LiveNodes
  <1>5. Forest(Publish(k, n, into))
    BY <1>2, <1>3, <1>4, PublishKeeps
  <1>. QED BY <1>5 DEF k

\* What an insertion has made is closed.
LEMMA ReadyIsClosed ==
  ASSUME NEW g, NEW n \in Live(heap), NEW t, NEW into, NEW c, Ready(g, n, t, into, c)
  PROVE  LET N == Live(g) \ Live(heap)
         IN  /\ N \in SUBSET Live(g) /\ Closed(g, N) /\ n \notin N /\ c \in N
             /\ into # n => into \in N
             /\ n \in Live(g) /\ into \in Live(g) /\ c \in Live(g) \cap Pool
             /\ g[into].alloc = g[n].alloc /\ g[c].alloc = g[n].alloc
  BY DEF Ready, Closed

LEMMA SubscriptKeyKeeps ==
  ASSUME DomInv, ~Running, NEW n \in Live(heap), NEW k, SubscriptKey(n, k)
  PROVE  DomInv'
  <1> DEFINE c == Fresh(heap)
             into == InTo(n, "object")
             g == MakeNode(WithInTo(heap, n, "object"), c, heap[n].alloc)
             N == Live(g) \ Live(heap)
  <1>1. Forest(heap) /\ T1 \notin Live(heap)
    BY DEF DomInv, NoTemps
  <1>2. CASE Return(heap, "ok")
    BY <1>1, <1>2, Returns
  <1>3. CASE HasRoom(heap) /\ Return(Publish(Attach(g, into, k, c), n, into), "ok")
    <2>1. Ready(g, n, "object", into, c)
      BY <1>1, <1>3, InsertionIsReady
    <2> HIDE DEF g, into, c
    <2>2. /\ N \in SUBSET Live(g) /\ Closed(g, N) /\ n \notin N /\ c \in N
          /\ into # n => into \in N
          /\ n \in Live(g) /\ into \in Live(g) /\ c \in Live(g) \cap Pool
          /\ g[into].alloc = g[n].alloc /\ g[c].alloc = g[n].alloc
      BY <2>1, ReadyIsClosed
    <2>3. Forest(Publish(Attach(g, into, k, c), n, into))
      BY <2>1, <2>2, AttachAndPublish DEF Ready, ContainerTypes
    <2>. QED BY <1>3, <2>3, Returns
  <1>. QED BY <1>2, <1>3 DEF SubscriptKey

LEMMA EraseKeeps ==
  ASSUME DomInv, NEW n \in Live(heap), NEW s, erase(n, s)
  PROVE  DomInv'
  <1> DEFINE kids == KidsOf(heap, n)
             rest == IF TypeOf(heap, n) = "array" THEN DropIndex(kids, s) ELSE DropKey(kids, s)
  <1>1. Forest(heap) /\ s \in DOMAIN kids /\ TypeOf(heap, n) \in ContainerTypes
    BY DEF DomInv, erase
  <1>2. \A i, j \in DOMAIN kids : kids[i] = kids[j] => i = j
    BY <1>1 DEF Forest, OwnedOnce
  <1>3. /\ TypeOf(heap, n) = "array" => rest \in Seq(Pool)
        /\ \A i \in DOMAIN rest : rest[i] \in {kids[j] : j \in DOMAIN kids \ {s}}
        /\ \A i, j \in DOMAIN rest : rest[i] = rest[j] => i = j
    <2>1. CASE TypeOf(heap, n) = "array"
      <3>1. kids \in Seq(Pool)
        BY <1>1, <2>1 DEF Forest, IsCell
      <3>. QED BY <1>1, <1>2, <2>1, <3>1, DropIndexIs
    <2>2. CASE TypeOf(heap, n) # "array"
      BY <1>2, <2>2 DEF DropKey
    <2>. QED BY <2>1, <2>2
  <1> HIDE DEF rest
  <1>4. Forest(SetKids(destroyNode(heap, kids[s]), n, rest))
    BY <1>1, <1>3, UnhookKeeps
  <1>. QED BY <1>4, Returns DEF erase, rest

\* swap: containsNode may err on the safe side only.
LEMMA SwapOpKeeps ==
  ASSUME DomInv, NEW n \in Live(heap), NEW v \in Live(heap), swap(n, v)
  PROVE  DomInv'
  <1>1. Forest(heap)
    BY DEF DomInv
  <1>2. PICK can \in canSwap(n, v) :
           Return(IF n # v /\ can THEN swapStorage(heap, n, v) ELSE heap, "ok")
    BY DEF swap
  <1>3. CASE n # v /\ can
    <2>1. /\ heap[n].alloc = heap[v].alloc
          /\ n \notin Subtree(heap, v) /\ v \notin Subtree(heap, n)
      <3>1. PICK o1 \in containsNode(heap, n, v), o2 \in containsNode(heap, v, n) :
               can = (heap[n].alloc = heap[v].alloc /\ (n = v \/ ~(o1 \/ o2)))
        BY DEF canSwap
      <3>2. heap[n].alloc = heap[v].alloc /\ ~o1 /\ ~o2
        BY <1>3, <3>1
      <3>3. ~(v \in Subtree(heap, n))
        BY <3>1, <3>2 DEF containsNode
      <3>4. ~(n \in Subtree(heap, v))
        BY <3>1, <3>2 DEF containsNode
      <3>. QED BY <3>2, <3>3, <3>4
    <2>2. Forest(swapStorage(heap, n, v))
      BY <1>1, <1>3, <2>1, SwapKeeps
    <2>. QED BY <1>2, <1>3, <2>2, Returns
  <1>4. CASE ~(n # v /\ can)
    BY <1>1, <1>2, <1>4, Returns
  <1>. QED BY <1>3, <1>4

LEMMA AtomicKeeps ==
  ASSUME DomInv, AtomicOp
  PROVE  DomInv'
  <1>1. Forest(heap) /\ IsHeap(heap)
    BY DEF DomInv, Forest
  <1>2. CASE Throws
    BY <1>1, <1>2, Returns DEF Throws
  <1>3. ASSUME NEW n \in Nodes, ~Running, Usable(n)
        PROVE  /\ reset(n) => DomInv'
               /\ clear(n) => DomInv'
               /\ \A t \in Types : resetTo(n, t) => DomInv'
               /\ \A t \in ScalarTypes, p \in Payloads : AssignScalar(n, t, p) => DomInv'
               /\ \A s \in Keys \cup 1..MaxLen : erase(n, s) => DomInv'
               /\ reserve(n) => DomInv'
               /\ \A k \in Keys : SubscriptKey(n, k) => DomInv'
               /\ \A v \in Nodes : Usable(v) /\ swap(n, v) => DomInv'
    <2>1. n \in Live(heap)
      BY <1>3 DEF Usable, Live
    <2>2. Forest(ResetNode(heap, n))
      BY <1>1, <2>1, ResetKeeps
    <2>3. ASSUME clear(n) PROVE DomInv'
      <3>1. CASE TypeOf(heap, n) \in ContainerTypes
        BY <1>1, <2>1, <2>3, <3>1, ClearKeeps, Returns DEF clear
      <3>2. CASE TypeOf(heap, n) \notin ContainerTypes
        BY <2>2, <2>3, <3>2, Returns DEF clear
      <3>. QED BY <3>1, <3>2
    <2>4. ASSUME NEW t \in Types, resetTo(n, t) PROVE DomInv'
      BY <1>1, <2>1, <2>4, RetypeKeeps, Returns DEF resetTo
    <2>5. ASSUME NEW t \in ScalarTypes, NEW p \in Payloads, AssignScalar(n, t, p)
          PROVE  DomInv'
      <3> DEFINE typed == resetIfNeeded(heap, n, t)
      <3>1. Forest(typed) /\ n \in Live(typed)
        BY <1>1, <2>1, RetypeKeeps
      <3> HIDE DEF typed
      <3>2. Forest([typed EXCEPT ![n].impl.val = p])
        BY <3>1, PayloadKeeps
      <3>. QED BY <2>5, <3>1, <3>2, Returns DEF AssignScalar, typed
    <2>6. ASSUME reserve(n) PROVE DomInv'
      BY <1>1, <2>1, <2>6, RetypeKeeps, Returns DEF reserve, Reserved
    <2>7. ASSUME NEW v \in Nodes, Usable(v), swap(n, v) PROVE DomInv'
      BY <2>1, <2>7, SwapOpKeeps DEF Usable, Live
    <2>. QED BY <1>3, <2>1, <2>2, <2>3, <2>4, <2>5, <2>6, <2>7, Returns,
             EraseKeeps, SubscriptKeyKeeps DEF reset
  <1>4. ASSUME NEW r \in Roots, NEW a \in Allocs, Construct(r, a) PROVE DomInv'
    <2>1. r \in Nodes \ Live(heap)
      BY <1>4 DEF Construct, Live, Nodes
    <2>2. Sprouts(MakeNode(heap, r, a), heap, r, a, NullImpl)
      BY <1>1, <2>1, MakeNodeSprouts
    <2>3. Forest(MakeNode(heap, r, a))
      BY <1>1, <2>1, <2>2, SproutKeeps, EmptyImplIs
    <2>. QED BY <1>4, <2>3, Returns DEF Construct, MakeNode
  <1>5. ASSUME NEW r \in Roots, Destruct(r) PROVE DomInv'
    <2>1. r \in Live(heap) /\ r \notin Pool
      BY <1>5, NodesAssumption DEF Destruct, Live, Nodes
    <2>2. Forest(destroyNode(heap, r))
      BY <1>1, <2>1, OutsidersAreOrphans, DestroyKeeps
    <2>. QED BY <1>5, <2>2, Returns DEF Destruct
  <1>. QED BY <1>2, <1>3, <1>4, <1>5 DEF AtomicOp

-----------------------------------------------------------------------------
(* Copies and moves begin.                                                  *)

\* A move through a temporary; v may hang below n, n not below v.
LEMMA MoveStorageKeeps ==
  ASSUME NEW h, Forest(h), T1 \notin Live(h), NEW n \in Live(h), NEW v \in Live(h),
         h[n].alloc = h[v].alloc, n \notin Subtree(h, v)
  PROVE  Forest(MoveStorage(h, n, v))
  <1> DEFINE made == MakeNode(h, T1, h[n].alloc)
             adopted == swapStorage(made, T1, v)
             moved == swapStorage(adopted, n, T1)
             W == Subtree(h, v)
  <1>1. T1 \in Nodes \ Pool /\ v \in Nodes /\ n \in Nodes /\ n # v /\ n # T1 /\ v # T1
    BY NodesAssumption, LiveNodes, SubtreeIsClosed DEF Temps, Nodes
  <1>2. /\ W \in SUBSET Live(h) /\ v \in W /\ Closed(h, W)
        /\ \A p \in W : v \notin Kids(h, p)
    BY SubtreeIsClosed, RootIsFree
  <1> HIDE DEF W
  <1>3. Sprouts(made, h, T1, h[n].alloc, NullImpl)
    BY <1>1, MakeNodeSprouts DEF Forest
  <1>4. IsEmptyImpl(NullImpl, h[n].alloc)
    BY EmptyImplIs
  <1> HIDE DEF made
  <1>5. /\ Forest(made) /\ Live(made) = Live(h) \cup {T1}
        /\ Kids(made, T1) = {} /\ Subtree(made, T1) = {T1}
        /\ made[T1].alloc = h[n].alloc
        /\ \A m \in Nodes \ {T1} : made[m] = h[m] /\ Kids(made, m) = Kids(h, m)
    BY <1>1, <1>3, <1>4, SproutKeeps DEF Sprouts
  <1>6. T1 \notin Subtree(made, v) /\ v \notin Subtree(made, T1)
    BY <1>1, <1>5, OutsidersAreOrphans, OrphanIsApart
  <1>7. /\ Forest(adopted) /\ Live(adopted) = Live(made)
        /\ adopted[T1].impl = made[v].impl /\ adopted[v].impl = made[T1].impl
        /\ \A m \in Nodes : adopted[m].alloc = made[m].alloc
        /\ \A m \in Nodes \ {T1, v} : adopted[m] = made[m]
    BY <1>1, <1>5, <1>6, SwapKeeps
  <1> HIDE DEF adopted
  <1>8. /\ Kids(adopted, T1) = Kids(h, v) /\ Kids(adopted, v) = {}
        /\ \A m \in Nodes \ {T1, v} : Kids(adopted, m) = Kids(h, m)
    <2>1. Kids(adopted, T1) = Kids(made, v) /\ Kids(adopted, v) = Kids(made, T1)
          /\ \A m \in Nodes \ {T1, v} : Kids(adopted, m) = Kids(made, m)
      BY <1>7 DEF Kids, KidsOf
    <2>. QED BY <1>1, <1>5, <2>1
  <1> DEFINE N == (W \ {v}) \cup {T1}
  <1>9. N \in SUBSET Live(adopted) /\ Closed(adopted, N) /\ n \notin N
    BY <1>1, <1>2, <1>5, <1>7, <1>8, LiveNodes DEF Closed, W
  <1>10. n \notin Subtree(adopted, T1) /\ T1 \notin Subtree(adopted, n)
    BY <1>1, <1>5, <1>7, <1>9, OutsideSubtree, OutsidersAreOrphans, OrphanIsApart
  <1>11. Forest(moved) /\ T1 \in Live(moved)
    BY <1>1, <1>5, <1>7, <1>10, SwapKeeps
  <1> HIDE DEF moved
  <1>12. Forest(destroyNode(moved, T1))
    BY <1>1, <1>11, OutsidersAreOrphans, DestroyKeeps
  <1>. QED BY <1>12 DEF MoveStorage, moved, adopted, made

\* What an operation holds stays where it is while other nodes are made.
LEMMA HandsStay ==
  ASSUME NEW h, NEW j, HandsInv(h, j), NEW g,
         Live(h) \subseteq Live(g), Live(g) \ Live(h) \subseteq Pool,
         \A m \in Live(h) : g[m].alloc = h[m].alloc,
         j.into \in Live(h) =>
            /\ TypeOf(g, j.into) = TypeOf(h, j.into)
            /\ \A s \in DOMAIN KidsOf(h, j.into) :
                  s \in DOMAIN KidsOf(g, j.into) /\ KidsOf(g, j.into)[s] = KidsOf(h, j.into)[s],
         \A m \in Live(j.snap) : Kids(g, m) = Kids(h, m),
         j.own \in Live(h) /\ Orphan(h, j.own) => Orphan(g, j.own)
  PROVE  HandsInv(g, j)
  <1>1. T1 \notin Pool
    BY NodesAssumption DEF Temps
  <1>2. \A t : TempInv(h, j, t) => TempInv(g, j, t)
    BY DEF TempInv, New, HandsInv
  <1>3. \A t : IntoInv(h, j, t) => IntoInv(g, j, t)
    BY DEF IntoInv, New, HandsInv
  <1>4. \A t : IntoInv(h, j, t) /\ OwnInv(h, j) => OwnInv(g, j)
    BY DEF OwnInv, IntoInv, New, HandsInv
  <1>5. Apart(h, Live(j.snap), j.v, j.n) => Apart(g, Live(j.snap), j.v, j.n)
    BY DEF Apart, Closed
  <1>. QED BY <1>1, <1>2, <1>3, <1>4, <1>5 DEF HandsInv

\* The copy begins with an item of its own.
LEMMA Starts ==
  ASSUME NEW h, Forest(h), NEW op, NEW n, NEW v, NEW slot, NEW into, NEW own, NEW dst,
         StartCopy(h, op, n, v, slot, into, own, dst),
         HandsInv(h, Job(op, n, v, slot, into, own, dst)),
         Closed(h, Live(h) \ Live(heap)),
         dst \in Live(h) \ Live(heap), Kids(h, dst) = {}, into \in Live(h) => into # dst \/ op \in ConstructOps
  PROVE  DomInv'
  <1> DEFINE j == Job(op, n, v, slot, into, own, dst)
             i == [EmptyImpl(h[dst].alloc, TypeOf(h, v)) EXCEPT !.val = h[v].impl.val]
  <1>1. /\ j.op = op /\ j.n = n /\ j.v = v /\ j.slot = slot /\ j.into = into /\ j.own = own
        /\ j.cur = <<v, dst>> /\ j.work = <<>> /\ j.snap = heap /\ JobFields \subseteq DOMAIN j
    BY DEF Job, Idle, JobFields
  <1> HIDE DEF j
  <1>2. job' = j /\ heap' = ShallowCopy(h, dst, v)
    BY DEF StartCopy, j
  <1>3. HandsInv(h, j)
    BY DEF j
  <1>4. v \in Live(heap) /\ v \in Live(h) /\ v # dst
    BY <1>1, <1>3 DEF HandsInv
  <1>5. IsEmptyImpl(i, h[dst].alloc) /\ i.type = TypeOf(h, v)
    BY EmptyImplIs
  <1>6. heap' = SetImpl(h, dst, i)
    BY <1>2 DEF ShallowCopy
  <1> HIDE DEF i
  <1>7. /\ Forest(heap') /\ Live(heap') = Live(h)
        /\ heap'[dst].impl = i /\ heap'[dst].alloc = h[dst].alloc /\ Kids(heap', dst) = {}
        /\ \A m \in Nodes \ {dst} : heap'[m] = h[m]
        /\ \A m \in Live(h) : Kids(heap', m) = Kids(h, m)
    BY <1>5, <1>6, DressKeeps
  <1>8. \A m \in Live(h) : heap'[m].alloc = h[m].alloc
    BY <1>7, LiveNodes
  <1>9. op \in CopyOps
    BY <1>1, <1>3 DEF HandsInv
  <1>10. HandsInv(heap', j)
    <2>1. \A m \in Live(h) \ {dst} : TypeOf(heap', m) = TypeOf(h, m) /\ KidsOf(heap', m) = KidsOf(h, m)
      BY <1>7, LiveNodes DEF TypeOf, KidsOf
    <2>2. Orphan(h, own) => Orphan(heap', own)
      BY <1>7 DEF Orphan
    <2>3. CASE op \notin ConstructOps
      <3>1. into \in Live(h) =>
              /\ TypeOf(heap', into) = TypeOf(h, into)
              /\ KidsOf(heap', into) = KidsOf(h, into)
        BY <2>1, <2>3
      <3>2. \A m \in Live(heap) : Kids(heap', m) = Kids(h, m)
        BY <1>1, <1>3, <1>7 DEF HandsInv
      <3>. QED BY <1>1, <1>3, <1>7, <1>8, <2>2, <3>1, <3>2, HandsStay
    <2>4. CASE op \in ConstructOps
      BY <1>1, <1>3, <1>7, <2>4 DEF HandsInv, ConstructOps, AssignOps, PushOps, InsertOps, MoveOps
    <2>. QED BY <2>3, <2>4
  <1>11. IsItem(heap', j, j.cur)
    <2>1. TypeOf(heap', dst) = TypeOf(h, v) /\ TypeOf(heap', v) = TypeOf(h, v)
      BY <1>4, <1>5, <1>7, LiveNodes DEF TypeOf
    <2>. QED BY <1>1, <1>4, <1>7, <2>1 DEF IsItem, New
  <1>12. j.work \in Seq(Nodes \X Nodes) /\ Len(j.work) = 0
    BY <1>1
  <1>13. CopyInv(heap', j)
    BY <1>10, <1>11, <1>12 DEF CopyInv
  <1>14. Closed(heap', New(heap', j))
    BY <1>1, <1>7 DEF Closed, New
  <1>15. j.op # "idle" /\ j.op # "grow"
    BY <1>1, <1>9 DEF CopyOps, AssignOps, ConstructOps, PushOps, InsertOps
  <1>. QED BY <1>1, <1>2, <1>7, <1>13, <1>14, <1>15 DEF DomInv, Running

LEMMA NoOverlap ==
  ASSUME NEW h, NEW v, NEW n, NEW o \in containsNode(h, v, n), ~o
  PROVE  n \notin Subtree(h, v)
  <1>1. o = TRUE \/ o = (n \in Subtree(h, v))
    BY DEF containsNode
  <1>. QED BY <1>1

\* What hangs below v is apart from n, whatever was made meanwhile.
LEMMA ApartFromBelow ==
  ASSUME Forest(heap), NEW v \in Live(heap), NEW n, n \notin Subtree(heap, v), NEW g,
         \A m \in Subtree(heap, v) : Kids(g, m) = Kids(heap, m)
  PROVE  Apart(g, Live(heap), v, n)
  <1>1. /\ Subtree(heap, v) \in SUBSET Live(heap) /\ v \in Subtree(heap, v)
        /\ Closed(heap, Subtree(heap, v))
    BY SubtreeIsClosed
  <1>. QED BY <1>1 DEF Apart, Closed

LEMMA JobIs ==
  ASSUME NEW op, NEW n, NEW v, NEW slot, NEW into, NEW own, NEW dst
  PROVE  LET j == Job(op, n, v, slot, into, own, dst)
         IN  /\ j.op = op /\ j.n = n /\ j.v = v /\ j.slot = slot /\ j.into = into
             /\ j.own = own /\ j.snap = heap
  BY DEF Job, Idle

LEMMA TempStarts ==
  ASSUME DomInv, ~Running, NEW n \in Live(heap), NEW v \in Live(heap),
         NEW op \in AssignOps \cup {"insertSnapshot"}, NEW slot,
         NEW t, t = IF op = "insertSnapshot" THEN T2 ELSE T1,
         op = "moveAssign" => n \notin Subtree(heap, v),
         StartCopy(MakeNode(heap, t, heap[n].alloc), op, n, v, slot, None, None, t)
  PROVE  DomInv'
  <1> DEFINE g == MakeNode(heap, t, heap[n].alloc)
             j == Job(op, n, v, slot, None, None, t)
  <1>1. Forest(heap) /\ T1 \notin Live(heap) /\ T2 \notin Live(heap)
    BY DEF DomInv, NoTemps
  <1>2. t \in Nodes \ Live(heap) /\ None \notin Nodes /\ T1 # T2
    BY <1>1, NodesAssumption DEF Nodes, Temps
  <1>3. Sprouts(g, heap, t, heap[n].alloc, NullImpl) /\ IsEmptyImpl(NullImpl, heap[n].alloc)
    BY <1>1, <1>2, MakeNodeSprouts, EmptyImplIs DEF Forest
  <1>4. /\ j.op = op /\ j.n = n /\ j.v = v /\ j.into = None /\ j.own = None /\ j.snap = heap
    BY JobIs
  <1> HIDE DEF g, j
  <1>5. /\ Forest(g) /\ Kids(g, t) = {} /\ Live(g) = Live(heap) \cup {t}
        /\ \A m \in Nodes \ {t} : g[m] = heap[m] /\ Kids(g, m) = Kids(heap, m)
    BY <1>1, <1>2, <1>3, SproutKeeps DEF Sprouts
  <1>6. TempInv(g, j, t)
    BY <1>2, <1>3, <1>4, <1>5, LiveNodes DEF TempInv, New, Sprouts
  <1>7. op = "moveAssign" => Apart(g, Live(heap), v, n)
    BY <1>1, <1>2, <1>5, ApartFromBelow, SubtreeIsClosed, LiveNodes
  <1>8. HandsInv(g, j)
    BY <1>1, <1>2, <1>4, <1>5, <1>6, <1>7
       DEF HandsInv, AssignOps, CopyOps, ConstructOps, PushOps, InsertOps, MoveOps
  <1>9. Closed(g, Live(g) \ Live(heap)) /\ t \in Live(g) \ Live(heap)
    BY <1>2, <1>5 DEF Closed
  <1>10. None \notin Live(g)
    BY <1>2, LiveNodes
  <1>. QED BY <1>5, <1>8, <1>9, <1>10, Starts DEF g, j

LEMMA ConstructStarts ==
  ASSUME DomInv, NEW r \in Roots, ~heap[r].live, NEW v \in Live(heap), NEW a,
         NEW op \in ConstructOps,
         StartCopy([heap EXCEPT ![r] = NullNode(a)], op, r, v, None, r, None, r)
  PROVE  DomInv'
  <1> DEFINE g == [heap EXCEPT ![r] = NullNode(a)]
             j == Job(op, r, v, None, r, None, r)
  <1>1. Forest(heap) /\ r \in Nodes \ Live(heap)
    BY DEF DomInv, Nodes, Live
  <1>2. Sprouts(g, heap, r, a, NullImpl) /\ IsEmptyImpl(NullImpl, a)
    BY <1>1, MakeNodeSprouts, EmptyImplIs DEF Forest, MakeNode
  <1>3. /\ j.op = op /\ j.n = r /\ j.v = v /\ j.into = r /\ j.own = None /\ j.snap = heap
    BY JobIs
  <1> HIDE DEF g, j
  <1>4. Forest(g) /\ Kids(g, r) = {} /\ Live(g) = Live(heap) \cup {r}
    BY <1>1, <1>2, SproutKeeps DEF Sprouts
  <1>5. HandsInv(g, j)
    BY <1>3, <1>4 DEF HandsInv, AssignOps, CopyOps, ConstructOps, PushOps, InsertOps, MoveOps
  <1>6. Closed(g, Live(g) \ Live(heap)) /\ r \in Live(g) \ Live(heap)
    BY <1>1, <1>4 DEF Closed
  <1>. QED BY <1>4, <1>5, <1>6, Starts DEF g, j

\* An insertion starts to copy its child.
LEMMA InsertStarts ==
  ASSUME DomInv, NEW n \in Live(heap), NEW v \in Live(heap), NEW slot,
         NEW op \in PushOps \cup {"insert"}, NEW t, NEW into, NEW c, NEW g,
         t = IF op = "insert" THEN "object" ELSE "array",
         Ready(g, n, t, into, c),
         op = "pushBackMove" => n \notin Subtree(heap, v),
         StartCopy(g, op, n, v, slot, into, c, c)
  PROVE  DomInv'
  <1> DEFINE j == Job(op, n, v, slot, into, c, c)
  <1>1. Forest(heap) /\ Forest(g)
    BY DEF DomInv, Ready
  <1>2. /\ j.op = op /\ j.n = n /\ j.v = v /\ j.into = into /\ j.own = c /\ j.snap = heap
    BY JobIs
  <1> HIDE DEF j
  <1>3. IntoInv(g, j, t)
    BY <1>2 DEF Ready, IntoInv, New
  <1>4. OwnInv(g, j)
    BY <1>2 DEF Ready, OwnInv, New, PushOps
  <1>5. op = "pushBackMove" => Apart(g, Live(heap), v, n)
    BY <1>1, ApartFromBelow, SubtreeIsClosed DEF Ready
  <1>6. Live(heap) \subseteq Live(g)
    BY DEF Ready
  <1>7. HandsInv(g, j)
    BY <1>2, <1>3, <1>4, <1>5, <1>6
       DEF HandsInv, AssignOps, CopyOps, ConstructOps, PushOps, InsertOps, MoveOps
  <1>8. Closed(g, Live(g) \ Live(heap)) /\ c \in Live(g) \ Live(heap) /\ Kids(g, c) = {}
    BY DEF Closed, Ready
  <1>9. into # c
    BY NodesAssumption DEF Ready, Temps
  <1>. QED BY <1>1, <1>7, <1>8, <1>9, Starts DEF j

LEMMA CopyFromKeeps ==
  ASSUME DomInv, ~Running, NEW n \in Live(heap), NEW v \in Live(heap), copyFrom(n, v)
  PROVE  DomInv'
  <1>1. CASE n = v
    BY <1>1, Returns DEF copyFrom, DomInv
  <1>2. CASE n # v
    BY <1>2, TempStarts DEF copyFrom, AssignOps
  <1>. QED BY <1>1, <1>2

LEMMA MoveAssignKeeps ==
  ASSUME DomInv, ~Running, NEW n \in Live(heap), NEW v \in Live(heap), MoveAssign(n, v)
  PROVE  DomInv'
  <1>1. CASE n = v
    BY <1>1, Returns DEF MoveAssign, DomInv
  <1>2. CASE n # v
    <2>1. PICK overlap \in containsNode(heap, v, n) :
             IF overlap THEN copyFrom(n, v)
             ELSE IF heap[n].alloc = heap[v].alloc
             THEN Return(MoveStorage(heap, n, v), "ok")
             ELSE StartCopy(MakeNode(heap, T1, heap[n].alloc), "moveAssign", n, v, None, None, None, T1)
      BY <1>2 DEF MoveAssign
    <2>2. CASE overlap
      BY <2>1, <2>2, CopyFromKeeps
    <2>3. CASE ~overlap /\ heap[n].alloc = heap[v].alloc
      <3>1. Forest(heap) /\ T1 \notin Live(heap) /\ n \notin Subtree(heap, v)
        BY <2>1, <2>3, NoOverlap DEF DomInv, NoTemps
      <3>2. Forest(MoveStorage(heap, n, v))
        BY <2>3, <3>1, MoveStorageKeeps
      <3>. QED BY <2>1, <2>3, <3>2, Returns
    <2>4. CASE ~overlap /\ heap[n].alloc # heap[v].alloc
      <3>1. n \notin Subtree(heap, v)
        BY <2>1, <2>4, NoOverlap
      <3>. QED BY <2>1, <2>4, <3>1, TempStarts DEF AssignOps
    <2>. QED BY <2>2, <2>3, <2>4
  <1>. QED BY <1>1, <1>2

LEMMA InsertMoveStarts ==
  ASSUME DomInv, NEW n \in Live(heap), NEW v \in Live(heap), NEW k,
         NEW into, NEW c, NEW g, Ready(g, n, "object", into, c),
         n \notin Subtree(heap, v),
         StartCopy(Attach(g, into, k, c), "insertMove", n, v, k, into, c, c)
  PROVE  DomInv'
  <1> DEFINE j == Job("insertMove", n, v, k, into, c, c)
             h == Attach(g, into, k, c)
             N == Live(g) \ Live(heap)
  <1>2. /\ j.op = "insertMove" /\ j.n = n /\ j.v = v /\ j.slot = k /\ j.into = into
        /\ j.own = c /\ j.snap = heap
    BY JobIs
  <1> HIDE DEF j
  <1>3. /\ N \in SUBSET Live(g) /\ Closed(g, N) /\ n \notin N /\ c \in N
        /\ into # n => into \in N
        /\ into \in Live(g) /\ c \in Live(g) \cap Pool
        /\ g[into].alloc = g[n].alloc /\ g[c].alloc = g[n].alloc
    BY ReadyIsClosed
  <1>4. /\ into \in {n, T1} /\ into # c /\ into \notin Subtree(g, c) /\ Forest(g)
        /\ TypeOf(g, into) = "object" /\ Kids(g, c) = {} /\ Orphan(g, c)
    BY NodesAssumption DEF Ready, Temps
  <1>5. /\ Forest(h) /\ Live(h) = Live(g)
        /\ \A m \in Nodes : h[m].alloc = g[m].alloc
        /\ TypeOf(h, into) = TypeOf(g, into)
        /\ \A m \in Nodes \ {into} : h[m] = g[m] /\ Kids(h, m) = Kids(g, m)
        /\ KidsOf(h, into) = PutKid(KidsOf(g, into), k, c)
        /\ Kids(h, into) \subseteq Kids(g, into) \cup {c}
    BY <1>3, <1>4, AttachKeeps, LiveNodes DEF ContainerTypes
  <1>6. k \in DOMAIN KidsOf(h, into) /\ KidsOf(h, into)[k] = c
    BY <1>5 DEF PutKid
  <1> HIDE DEF h
  <1>7. n \in Nodes /\ c \in Nodes /\ into \in Nodes
    BY <1>3, LiveNodes
  <1>8. IntoInv(h, j, "object")
    BY <1>2, <1>3, <1>4, <1>5, <1>7 DEF IntoInv, New
  <1>9. OwnInv(h, j)
    BY <1>2, <1>3, <1>5, <1>6, <1>7 DEF OwnInv, New
  <1>10. Apart(h, Live(heap), v, n)
    <2>1. into \notin Subtree(heap, v)
      BY SubtreeIsClosed DEF Ready, DomInv
    <2>2. \A m \in Subtree(heap, v) : Kids(h, m) = Kids(heap, m)
      BY <1>5, <2>1, SubtreeIsClosed, LiveNodes DEF Ready, DomInv
    <2>. QED BY <2>2, ApartFromBelow DEF DomInv
  <1>11. Live(heap) \subseteq Live(h) /\ n \in Live(h)
    BY <1>5 DEF Ready
  <1>12. HandsInv(h, j)
    BY <1>2, <1>8, <1>9, <1>10, <1>11
       DEF HandsInv, AssignOps, CopyOps, ConstructOps, PushOps, InsertOps, MoveOps
  <1>13. Closed(h, N)
    BY <1>3, <1>4, <1>5, LiveNodes DEF Closed
  <1>14. Kids(h, c) = {}
    BY <1>4, <1>5, <1>7
  <1>. QED BY <1>3, <1>4, <1>5, <1>12, <1>13, <1>14, Starts DEF j, h

\* A child that is already attached takes over what hangs below v.
LEMMA AttachThenAdopt ==
  ASSUME Forest(heap), NEW n \in Live(heap), NEW v \in Live(heap),
         heap[n].alloc = heap[v].alloc, n \notin Subtree(heap, v), T1 \notin Live(heap),
         NEW k, NEW into, NEW c, NEW g, Ready(g, n, "object", into, c)
  PROVE  Forest(Publish(swapStorage(Attach(g, into, k, c), c, v), n, into))
  <1> DEFINE h == Attach(g, into, k, c)
             s == swapStorage(h, c, v)
             W == Subtree(heap, v)
             N == (W \ {v}) \cup (Live(g) \ Live(heap))
  <1>1. /\ W \in SUBSET Live(heap) /\ v \in W /\ Closed(heap, W) /\ n \notin W
        /\ \A p \in W : v \notin Kids(heap, p)
    BY SubtreeIsClosed, RootIsFree
  <1> HIDE DEF W
  <1>2. /\ n \in Live(g) /\ into \in Live(g) /\ c \in Live(g) \cap Pool
        /\ g[into].alloc = g[n].alloc /\ g[c].alloc = g[n].alloc
        /\ n \in Nodes /\ into \in Nodes /\ c \in Nodes /\ v \in Nodes
    <2>1. /\ n \in Live(g) /\ into \in Live(g) /\ c \in Live(g) \cap Pool
          /\ g[into].alloc = g[n].alloc /\ g[c].alloc = g[n].alloc
      BY DEF Ready
    <2>. QED BY <2>1, LiveNodes
  <1>3. /\ into \in {n, T1} /\ into # c /\ into \notin Subtree(g, c) /\ Forest(g)
        /\ TypeOf(g, into) = "object" /\ Kids(g, c) = {} /\ Orphan(g, c)
        /\ into \notin W /\ c \notin W /\ c # v /\ into # v /\ c \notin Live(heap)
        /\ Live(g) = Live(heap) \cup {into, c}
        /\ \A m \in Live(heap) : g[m] = heap[m] /\ Kids(g, m) = Kids(heap, m)
        /\ into # n => Kids(g, into) = {}
    BY <1>1, NodesAssumption DEF Ready, Temps
  <1>4. /\ Forest(h) /\ Live(h) = Live(g)
        /\ \A m \in Nodes : h[m].alloc = g[m].alloc
        /\ \A m \in Nodes \ {into} : h[m] = g[m] /\ Kids(h, m) = Kids(g, m)
        /\ Kids(h, into) \subseteq Kids(g, into) \cup {c}
    BY <1>2, <1>3, AttachKeeps DEF ContainerTypes
  <1> HIDE DEF h
  <1>5. c \notin Subtree(h, v)
    <2>1. W \in SUBSET Live(h) /\ Closed(h, W)
      BY <1>1, <1>3, <1>4, LiveNodes DEF Closed
    <2>. QED BY <1>1, <1>3, <1>4, <2>1, OutsideSubtree
  <1>6. v \notin Subtree(h, c)
    <2>1. {c} \in SUBSET Live(h) /\ Closed(h, {c})
      BY <1>2, <1>3, <1>4 DEF Closed
    <2>. QED BY <1>2, <1>3, <1>4, <2>1, OutsideSubtree
  <1>7. h[c].alloc = h[v].alloc
    BY <1>2, <1>3, <1>4
  <1>8. /\ Forest(s) /\ Live(s) = Live(h)
        /\ s[c].impl = h[v].impl /\ s[v].impl = h[c].impl
        /\ \A m \in Nodes : s[m].alloc = h[m].alloc
        /\ \A m \in Nodes \ {c, v} : s[m] = h[m]
    BY <1>2, <1>3, <1>4, <1>5, <1>6, <1>7, SwapKeeps
  <1> HIDE DEF s
  <1>9. /\ Kids(s, c) = Kids(heap, v)
        /\ \A m \in Nodes \ {c, v} : Kids(s, m) = Kids(h, m)
    <2>1. Kids(s, c) = Kids(h, v) /\ \A m \in Nodes \ {c, v} : Kids(s, m) = Kids(h, m)
      BY <1>8 DEF Kids, KidsOf
    <2>. QED BY <1>2, <1>3, <1>4, <2>1
  <1>10. N \in SUBSET Live(s) /\ n \notin N /\ (into # n => into \in N)
    BY <1>1, <1>3, <1>4, <1>8 DEF Ready
  <1>11. Closed(s, N)
    <2> SUFFICES ASSUME NEW m \in N PROVE Kids(s, m) \subseteq N
      BY DEF Closed
    <2>1. CASE m = c
      BY <1>1, <1>9, <2>1 DEF Closed
    <2>2. CASE m \in W \ {v}
      <3>1. Kids(s, m) = Kids(heap, m)
        BY <1>1, <1>3, <1>4, <1>9, <2>2, LiveNodes
      <3>. QED BY <1>1, <2>2, <3>1 DEF Closed
    <2>3. CASE m = into /\ into # n
      <3>1. Kids(s, m) \subseteq {c}
        BY <1>2, <1>3, <1>4, <1>9, <2>3
      <3>. QED BY <1>2, <1>3, <3>1
    <2>. QED BY <1>3, <1>10, <2>1, <2>2, <2>3
  <1>12. s[into].alloc = s[n].alloc
    BY <1>2, <1>4, <1>8
  <1>13. Forest(Publish(s, n, into))
    BY <1>2, <1>3, <1>4, <1>8, <1>10, <1>11, <1>12, PublishKeeps
  <1>. QED BY <1>13 DEF s, h

\* A child takes over what hangs below v and is then attached.
LEMMA AdoptThenAttach ==
  ASSUME Forest(heap), NEW n \in Live(heap), NEW v \in Live(heap),
         heap[n].alloc = heap[v].alloc, n \notin Subtree(heap, v), T1 \notin Live(heap),
         NEW into, NEW c, NEW g, Ready(g, n, "array", into, c)
  PROVE  Forest(Publish(Attach(swapStorage(g, c, v), into, NextIndex(g, into), c), n, into))
  <1> DEFINE s == swapStorage(g, c, v)
             W == Subtree(heap, v)
             N == (W \ {v}) \cup (Live(g) \ Live(heap))
  <1>1. /\ W \in SUBSET Live(heap) /\ v \in W /\ Closed(heap, W) /\ n \notin W
        /\ \A p \in W : v \notin Kids(heap, p)
    BY SubtreeIsClosed, RootIsFree
  <1> HIDE DEF W
  <1>2. /\ n \in Live(g) /\ into \in Live(g) /\ c \in Live(g) \cap Pool
        /\ g[into].alloc = g[n].alloc /\ g[c].alloc = g[n].alloc
        /\ n \in Nodes /\ into \in Nodes /\ c \in Nodes /\ v \in Nodes
    <2>1. /\ n \in Live(g) /\ into \in Live(g) /\ c \in Live(g) \cap Pool
          /\ g[into].alloc = g[n].alloc /\ g[c].alloc = g[n].alloc
      BY DEF Ready
    <2>. QED BY <2>1, LiveNodes
  <1>3. /\ into \in {n, T1} /\ into # c /\ Forest(g) /\ Subtree(g, c) = {c}
        /\ TypeOf(g, into) = "array" /\ Kids(g, c) = {} /\ Orphan(g, c)
        /\ into \notin W /\ c \notin W /\ c # v /\ into # v /\ c \notin Live(heap)
        /\ Live(g) = Live(heap) \cup {into, c}
        /\ \A m \in Live(heap) : g[m] = heap[m] /\ Kids(g, m) = Kids(heap, m)
        /\ into # n => Kids(g, into) = {}
    BY <1>1, NodesAssumption DEF Ready, Temps
  <1>4. c \notin Subtree(g, v) /\ v \notin Subtree(g, c) /\ g[c].alloc = g[v].alloc /\ v \in Live(g)
    BY <1>2, <1>3, OrphanIsApart
  <1>5. /\ Forest(s) /\ Live(s) = Live(g)
        /\ s[c].impl = g[v].impl /\ s[v].impl = g[c].impl
        /\ \A m \in Nodes : s[m].alloc = g[m].alloc
        /\ \A m \in Nodes \ {c, v} : s[m] = g[m]
    BY <1>2, <1>3, <1>4, SwapKeeps
  <1> HIDE DEF s
  <1>6. /\ Kids(s, c) = Kids(heap, v) /\ Kids(s, v) = {}
        /\ \A m \in Nodes \ {c, v} : Kids(s, m) = Kids(g, m)
    <2>1. /\ Kids(s, c) = Kids(g, v) /\ Kids(s, v) = Kids(g, c)
          /\ \A m \in Nodes \ {c, v} : Kids(s, m) = Kids(g, m)
      BY <1>5 DEF Kids, KidsOf
    <2>. QED BY <1>2, <1>3, <2>1
  <1>7. TypeOf(s, into) = "array" /\ NextIndex(g, into) = NextIndex(s, into)
    BY <1>2, <1>3, <1>5 DEF TypeOf, NextIndex, KidsOf
  <1>8. Orphan(s, c)
    <2>1. c \notin Kids(heap, v)
      BY <1>3 DEF Forest, IsCell
    <2>. QED BY <1>3, <1>5, <1>6, <2>1, LiveNodes DEF Orphan
  <1>9. N \in SUBSET Live(s) /\ n \notin N /\ c \in N /\ (into # n => into \in N)
    BY <1>1, <1>2, <1>3, <1>5 DEF Ready
  <1>10. Closed(s, N)
    <2> SUFFICES ASSUME NEW m \in N PROVE Kids(s, m) \subseteq N
      BY DEF Closed
    <2>1. CASE m = c
      BY <1>1, <1>6, <2>1 DEF Closed
    <2>2. CASE m \in W \ {v}
      <3>1. Kids(s, m) = Kids(heap, m)
        BY <1>1, <1>3, <1>6, <2>2, LiveNodes
      <3>. QED BY <1>1, <2>2, <3>1 DEF Closed
    <2>3. CASE m = into /\ into # n
      BY <1>2, <1>3, <1>6, <2>3
    <2>. QED BY <1>3, <1>9, <2>1, <2>2, <2>3
  <1>11. s[into].alloc = s[n].alloc /\ s[c].alloc = s[n].alloc
    BY <1>2, <1>5
  <1>12. Forest(Publish(Attach(s, into, NextIndex(g, into), c), n, into))
    BY <1>2, <1>3, <1>5, <1>7, <1>8, <1>9, <1>10, <1>11, AttachAndPublish DEF ContainerTypes
  <1>. QED BY <1>12 DEF s

LEMMA PushBackCopyKeeps ==
  ASSUME DomInv, ~Running, NEW n \in Live(heap), NEW v \in Live(heap), PushBackCopy(n, v)
  PROVE  DomInv'
  <1>1. Forest(heap) /\ T1 \notin Live(heap) /\ HasRoom(heap)
    BY DEF DomInv, NoTemps, PushBackCopy
  <1>2. Ready(MakeNode(WithInTo(heap, n, "array"), Fresh(heap), heap[n].alloc),
              n, "array", InTo(n, "array"), Fresh(heap))
    BY <1>1, InsertionIsReady
  <1>. QED BY <1>2, InsertStarts DEF PushBackCopy, PushOps

LEMMA PushBackMoveKeeps ==
  ASSUME DomInv, ~Running, NEW n \in Live(heap), NEW v \in Live(heap), PushBackMove(n, v)
  PROVE  DomInv'
  <1> DEFINE c == Fresh(heap)
             into == InTo(n, "array")
             g == MakeNode(WithInTo(heap, n, "array"), c, heap[n].alloc)
  <1>1. PICK overlap \in containsNode(heap, v, n) :
           IF overlap THEN PushBackCopy(n, v)
           ELSE /\ HasRoom(heap)
                /\ IF heap[n].alloc = heap[v].alloc
                   THEN Return(Publish(Attach(swapStorage(g, c, v), into,
                                              NextIndex(g, into), c), n, into), "ok")
                   ELSE StartCopy(g, "pushBackMove", n, v, None, into, c, c)
    BY DEF PushBackMove
  <1>2. CASE overlap
    BY <1>1, <1>2, PushBackCopyKeeps
  <1>3. CASE ~overlap
    <2>1. Forest(heap) /\ T1 \notin Live(heap) /\ HasRoom(heap)
      BY <1>1, <1>3 DEF DomInv, NoTemps
    <2>2. n \notin Subtree(heap, v)
      BY <1>3, NoOverlap
    <2>3. Ready(g, n, "array", into, c)
      BY <2>1, InsertionIsReady
    <2> HIDE DEF g, into, c
    <2>4. CASE heap[n].alloc = heap[v].alloc
      <3>1. Forest(Publish(Attach(swapStorage(g, c, v), into, NextIndex(g, into), c), n, into))
        BY <2>1, <2>2, <2>3, <2>4, AdoptThenAttach
      <3>. QED BY <1>1, <1>3, <2>4, <3>1, Returns
    <2>5. CASE heap[n].alloc # heap[v].alloc
      BY <1>1, <1>3, <2>2, <2>3, <2>5, InsertStarts DEF PushOps
    <2>. QED BY <2>4, <2>5
  <1>. QED BY <1>2, <1>3

LEMMA MemberIsLive ==
  ASSUME Forest(heap), NEW n \in Live(heap), NEW k, HasMember(n, k)
  PROVE  KidsOf(heap, n)[k] \in Kids(heap, n) /\ KidsOf(heap, n)[k] \in Live(heap)
  BY SubtreeOfKid DEF HasMember, Kids

LEMMA InsertCopyKeeps ==
  ASSUME DomInv, ~Running, NEW n \in Live(heap), NEW v \in Live(heap), NEW k, InsertCopy(n, k, v)
  PROVE  DomInv'
  <1> DEFINE c == Fresh(heap)
             into == InTo(n, "object")
             g == MakeNode(WithInTo(heap, n, "object"), c, heap[n].alloc)
  <1>1. Forest(heap) /\ T1 \notin Live(heap)
    BY DEF DomInv, NoTemps
  <1>2. CASE Snapshot(n, k, v)
    BY <1>2, TempStarts DEF Snapshot, AssignOps
  <1>3. CASE HasMember(n, k) /\ copyFrom(KidsOf(heap, n)[k], v)
    BY <1>1, <1>3, MemberIsLive, CopyFromKeeps
  <1>4. CASE HasRoom(heap) /\ StartCopy(g, "insert", n, v, k, into, c, c)
    <2>1. Ready(g, n, "object", into, c)
      BY <1>1, <1>4, InsertionIsReady
    <2> HIDE DEF g, into, c
    <2>. QED BY <1>4, <2>1, InsertStarts DEF PushOps
  <1>. QED BY <1>2, <1>3, <1>4 DEF InsertCopy

LEMMA InsertMoveKeeps ==
  ASSUME DomInv, ~Running, NEW n \in Live(heap), NEW v \in Live(heap), NEW k, InsertMove(n, k, v)
  PROVE  DomInv'
  <1> DEFINE c == Fresh(heap)
             into == InTo(n, "object")
             g == MakeNode(WithInTo(heap, n, "object"), c, heap[n].alloc)
             h == Attach(g, into, k, c)
  <1>1. Forest(heap) /\ T1 \notin Live(heap)
    BY DEF DomInv, NoTemps
  <1>2. PICK overlap \in containsNode(heap, v, n) :
           IF overlap THEN Snapshot(n, k, v)
           ELSE IF HasMember(n, k) THEN MoveAssign(KidsOf(heap, n)[k], v)
           ELSE /\ HasRoom(heap)
                /\ IF heap[n].alloc = heap[v].alloc
                   THEN Return(Publish(swapStorage(h, c, v), n, into), "ok")
                   ELSE StartCopy(h, "insertMove", n, v, k, into, c, c)
    BY DEF InsertMove
  <1>3. CASE overlap
    BY <1>2, <1>3, TempStarts DEF Snapshot, AssignOps
  <1>4. CASE ~overlap /\ HasMember(n, k)
    BY <1>1, <1>2, <1>4, MemberIsLive, MoveAssignKeeps
  <1>5. CASE ~overlap /\ ~HasMember(n, k)
    <2>1. n \notin Subtree(heap, v)
      BY <1>5, NoOverlap
    <2>2. Ready(g, n, "object", into, c)
      BY <1>1, <1>2, <1>5, InsertionIsReady
    <2> HIDE DEF g, into, c
    <2>3. CASE heap[n].alloc = heap[v].alloc
      <3>1. Forest(Publish(swapStorage(Attach(g, into, k, c), c, v), n, into))
        BY <1>1, <2>1, <2>2, <2>3, AttachThenAdopt
      <3>. QED BY <1>2, <1>5, <2>3, <3>1, Returns
    <2>4. CASE heap[n].alloc # heap[v].alloc
      BY <1>2, <1>5, <2>1, <2>2, <2>4, InsertMoveStarts
    <2>. QED BY <2>3, <2>4
  <1>. QED BY <1>3, <1>4, <1>5

LEMMA ConstructMoveKeeps ==
  ASSUME DomInv, NEW r \in Roots, NEW v \in Live(heap), NEW a, ConstructMove(r, v, a)
  PROVE  DomInv'
  <1> DEFINE g == [heap EXCEPT ![r] = NullNode(a)]
  <1>1. Forest(heap) /\ r \in Nodes \ Live(heap) /\ ~heap[r].live /\ r \notin Pool
    BY NodesAssumption DEF DomInv, Nodes, Live, ConstructMove
  <1>2. CASE heap[v].alloc # a
    BY <1>1, <1>2, ConstructStarts DEF ConstructMove, ConstructOps
  <1>3. CASE heap[v].alloc = a
    <2>1. Sprouts(g, heap, r, a, NullImpl) /\ IsEmptyImpl(NullImpl, a)
      BY <1>1, MakeNodeSprouts, EmptyImplIs DEF Forest, MakeNode
    <2> HIDE DEF g
    <2>2. /\ Forest(g) /\ Subtree(g, r) = {r} /\ Orphan(g, r)
          /\ Live(g) = Live(heap) \cup {r} /\ g[r].alloc = a
          /\ \A m \in Nodes \ {r} : g[m] = heap[m]
      BY <1>1, <2>1, SproutKeeps DEF Sprouts
    <2>3. r # v /\ v \in Live(g) /\ r \notin Subtree(g, v) /\ v \notin Subtree(g, r) /\ g[v].alloc = a
      BY <1>1, <1>3, <2>2, OrphanIsApart, LiveNodes
    <2>4. Forest(swapStorage(g, r, v))
      BY <2>2, <2>3, SwapKeeps
    <2>. QED BY <1>3, <2>4, Returns DEF ConstructMove, g
  <1>. QED BY <1>2, <1>3

LEMMA CopyOpKeeps ==
  ASSUME DomInv, CopyOp
  PROVE  DomInv'
  <1>1. PICK v \in Nodes :
        /\ ~Running /\ Usable(v)
        /\ \/ \E n \in Nodes :
               /\ Usable(n)
               /\ \/ copyFrom(n, v)
                  \/ MoveAssign(n, v)
                  \/ PushBackCopy(n, v)
                  \/ PushBackMove(n, v)
                  \/ \E k \in Keys : InsertCopy(n, k, v) \/ InsertMove(n, k, v)
           \/ \E r \in Roots, a \in Allocs : ConstructCopy(r, v, a) \/ ConstructMove(r, v, a)
    BY DEF CopyOp
  <1>2. v \in Live(heap) /\ \A n \in Nodes : Usable(n) => n \in Live(heap)
    BY <1>1 DEF Usable, Live
  <1>3. ASSUME NEW r \in Roots, NEW a \in Allocs, ConstructCopy(r, v, a) PROVE DomInv'
    BY <1>2, <1>3, ConstructStarts DEF ConstructCopy, ConstructOps
  <1>. QED BY <1>1, <1>2, <1>3, CopyFromKeeps, MoveAssignKeeps, PushBackCopyKeeps, PushBackMoveKeeps,
           InsertCopyKeeps, InsertMoveKeeps, ConstructMoveKeeps

-----------------------------------------------------------------------------
(* Growth.                                                                  *)

LEMMA ArrayIsSequence ==
  ASSUME NEW h, Forest(h), NEW n \in Live(h), TypeOf(h, n) = "array"
  PROVE  KidsOf(h, n) \in Seq(Pool) /\ Len(KidsOf(h, n)) \in Nat
  BY DEF Forest, IsCell

LEMMA GrowthStarts ==
  ASSUME DomInv, NEW n \in Live(heap), NEW into, NEW g, FillsIn(g, n, "array", into),
         NEW want, NEW fill, StartGrow(n, into, g, want, fill)
  PROVE  DomInv'
  <1> DEFINE j == GrowJob(n, into, Len(KidsOf(g, into)), want, fill)
  <1>1. /\ j.op = "grow" /\ j.n = n /\ j.into = into /\ j.slot = Len(KidsOf(g, into))
        /\ j.snap = heap /\ JobFields \subseteq DOMAIN j
    BY DEF GrowJob, Idle, JobFields
  <1> HIDE DEF j
  <1>2. job' = j /\ heap' = g
    BY DEF StartGrow, j
  <1>3. Forest(g) /\ into \in Live(g) /\ Live(heap) \subseteq Live(g) /\ g[n].alloc = heap[n].alloc
    BY DEF FillsIn
  <1>4. Len(KidsOf(g, into)) \in Nat
    BY <1>3, ArrayIsSequence DEF FillsIn
  <1>5. IntoInv(g, j, "array")
    BY <1>1, <1>3 DEF IntoInv, FillsIn, New
  <1>6. GrowInv(g, j)
    BY <1>1, <1>3, <1>4, <1>5 DEF GrowInv
  <1>7. Closed(g, New(g, j))
    BY <1>1 DEF Closed, New, FillsIn
  <1>. QED BY <1>1, <1>2, <1>3, <1>6, <1>7 DEF DomInv, Running

LEMMA GrowOpKeeps ==
  ASSUME DomInv, GrowOp
  PROVE  DomInv'
  <1>1. PICK n \in Nodes :
        /\ ~Running /\ Usable(n)
        /\ \/ \E i \in 0..MaxLen \cup {SizeMax} : SubscriptIndex(n, i)
           \/ \E t \in ScalarTypes, count \in 0..MaxLen :
               AppendVector(n, count, t) \/ AssignVector(n, count, t)
    BY DEF GrowOp
  <1>2. n \in Live(heap) /\ Forest(heap) /\ T1 \notin Live(heap)
    BY <1>1 DEF Usable, Live, DomInv, NoTemps
  <1>3. FillsIn(WithInTo(heap, n, "array"), n, "array", InTo(n, "array"))
    BY <1>2, WithInToFillsIn
  <1>4. ASSUME NEW i \in 0..MaxLen \cup {SizeMax}, SubscriptIndex(n, i) PROVE DomInv'
    <2>1. CASE \E r : Return(heap, r)
      BY <1>2, <2>1, Returns
    <2>2. CASE \E want : StartGrow(n, InTo(n, "array"), WithInTo(heap, n, "array"), want, "null")
      BY <1>2, <1>3, <2>2, GrowthStarts
    <2>. QED BY <1>4, <2>1, <2>2 DEF SubscriptIndex
  <1>5. ASSUME NEW t \in ScalarTypes, NEW count \in 0..MaxLen, AppendVector(n, count, t) PROVE DomInv'
    BY <1>2, <1>3, <1>5, GrowthStarts DEF AppendVector
  <1>6. ASSUME NEW t \in ScalarTypes, NEW count \in 0..MaxLen, AssignVector(n, count, t) PROVE DomInv'
    BY <1>2, <1>6, ReplacementFillsIn, GrowthStarts DEF AssignVector
  <1>. QED BY <1>1, <1>4, <1>5, <1>6

-----------------------------------------------------------------------------
(* Steps of a copy.                                                         *)

\* Only the copy loop's own fields move.
LEMMA HandsAgree ==
  ASSUME NEW h, NEW j, HandsInv(h, j), NEW k,
         k.op = j.op, k.n = j.n, k.v = j.v, k.slot = j.slot, k.into = j.into,
         k.own = j.own, k.snap = j.snap
  PROVE  HandsInv(h, k)
  BY DEF HandsInv, TempInv, IntoInv, OwnInv, New

LEMMA CopyingHolds ==
  ASSUME DomInv, Copying
  PROVE  /\ Forest(heap) /\ Closed(heap, New(heap, job)) /\ CopyInv(heap, job)
         /\ HandsInv(heap, job) /\ JobFields \subseteq DOMAIN job
         /\ job.n \in Live(heap) /\ job.v \in Live(heap)
         /\ Live(job.snap) \subseteq Live(heap)
  BY DEF DomInv, Copying, CopyInv, HandsInv

LEMMA CopyChildKeeps ==
  ASSUME DomInv, NEW s, CopyChild(s)
  PROVE  DomInv'
  <1> DEFINE p == job.cur[1]
             d == job.cur[2]
             e == KidsOf(heap, p)[s]
             c == Fresh(heap)
             a == heap[d].alloc
             made == MakeNode(heap, c, a)
             i == [EmptyImpl(made[c].alloc, TypeOf(made, e)) EXCEPT !.val = made[e].impl.val]
             k == SetImpl(made, c, i)
             N == New(heap, job)
  <1>1. /\ Forest(heap) /\ Closed(heap, N) /\ CopyInv(heap, job)
        /\ HandsInv(heap, job) /\ JobFields \subseteq DOMAIN job
        /\ Running /\ job.op # "grow" /\ HasRoom(heap)
        /\ s \in DOMAIN KidsOf(heap, p) /\ s \notin DOMAIN KidsOf(heap, d)
        /\ TypeOf(heap, p) = "array" => s = NextIndex(heap, d)
    BY CopyingHolds DEF CopyChild, CopySlots, Copying
  <1>2. p \in Live(heap) /\ d \in N /\ d \in Live(heap) /\ TypeOf(heap, p) = TypeOf(heap, d)
    BY <1>1 DEF CopyInv, IsItem, New
  <1>3. e \in Live(heap) /\ TypeOf(heap, d) \in ContainerTypes
    BY <1>1, <1>2 DEF Forest, IsCell, Kids
  <1>4. c \in Pool \ Live(heap) /\ c \in Nodes /\ IsHeap(heap)
    BY <1>1, FreshIsDead DEF Forest
  <1>5. heap' = Attach(k, d, s, c)
    BY DEF CopyChild, ShallowCopy
  <1>6. job' = IF TypeOf(heap, e) \in ContainerTypes
               THEN [job EXCEPT !.work = Append(@, <<e, c>>)] ELSE job
    BY DEF CopyChild
  <1> HIDE DEF p, d, e, c, N
  <1>7. made[c].alloc = a /\ made[e] = heap[e]
    BY <1>3, <1>4, MakeNodeIs, LiveNodes
  <1> HIDE DEF made
  <1>8. IsEmptyImpl(i, a) /\ i.type = TypeOf(heap, e)
    BY <1>7, EmptyImplIs DEF TypeOf
  <1> HIDE DEF i
  <1>9. Sprouts(k, heap, c, a, i)
    BY <1>4, <1>8, DressedSprouts DEF made, IsEmptyImpl
  <1> HIDE DEF k
  <1>10. /\ Forest(k) /\ Live(k) = Live(heap) \cup {c}
         /\ Orphan(k, c) /\ Kids(k, c) = {} /\ Subtree(k, c) = {c}
         /\ k[c].alloc = a /\ k[c].impl = i
         /\ \A m \in Nodes \ {c} : k[m] = heap[m] /\ Kids(k, m) = Kids(heap, m)
    BY <1>1, <1>4, <1>8, <1>9, SproutKeeps DEF Sprouts
  <1>11. d \in Nodes /\ d # c /\ k[d] = heap[d] /\ k[d].alloc = a
         /\ TypeOf(k, d) = TypeOf(heap, d) /\ KidsOf(k, d) = KidsOf(heap, d)
         /\ NextIndex(k, d) = NextIndex(heap, d)
    BY <1>2, <1>4, <1>10, LiveNodes DEF TypeOf, KidsOf, NextIndex
  <1>12. /\ Forest(heap') /\ Live(heap') = Live(k)
         /\ \A m \in Nodes : heap'[m].alloc = k[m].alloc
         /\ \A m \in Nodes : TypeOf(heap', m) = TypeOf(k, m)
         /\ \A m \in Nodes \ {d} : heap'[m] = k[m] /\ Kids(heap', m) = Kids(k, m)
         /\ KidsOf(heap', d) = PutKid(KidsOf(k, d), s, c)
         /\ Kids(heap', d) \subseteq Kids(k, d) \cup {c}
    BY <1>1, <1>2, <1>3, <1>4, <1>5, <1>10, <1>11, AttachKeeps
  <1>13. /\ Live(heap') = Live(heap) \cup {c}
         /\ \A m \in Live(heap) : heap'[m].alloc = heap[m].alloc /\ TypeOf(heap', m) = TypeOf(heap, m)
         /\ \A m \in Live(heap) \ {d} : KidsOf(heap', m) = KidsOf(heap, m) /\ Kids(heap', m) = Kids(heap, m)
         /\ TypeOf(heap', c) = TypeOf(heap, e) /\ Kids(heap', c) = {}
         /\ Kids(heap', d) \subseteq Kids(heap, d) \cup {c}
    BY <1>4, <1>8, <1>10, <1>11, <1>12, LiveNodes DEF TypeOf, KidsOf
  <1>14. \A x \in DOMAIN KidsOf(heap, d) :
            x \in DOMAIN KidsOf(heap', d) /\ KidsOf(heap', d)[x] = KidsOf(heap, d)[x]
    BY <1>1, <1>11, <1>12 DEF PutKid
  <1>15. HandsInv(heap', job)
    <2>1. \A m \in Live(job.snap) : Kids(heap', m) = Kids(heap, m)
      BY <1>1, <1>2, <1>13 DEF HandsInv, New, N
    <2>2. job.own \in Live(heap) /\ Orphan(heap, job.own) => Orphan(heap', job.own)
      BY <1>4, <1>13 DEF Orphan
    <2>3. job.into \in Live(heap) =>
            /\ TypeOf(heap', job.into) = TypeOf(heap, job.into)
            /\ \A x \in DOMAIN KidsOf(heap, job.into) :
                  x \in DOMAIN KidsOf(heap', job.into)
                  /\ KidsOf(heap', job.into)[x] = KidsOf(heap, job.into)[x]
      BY <1>13, <1>14
    <2>. QED BY <1>1, <1>4, <1>13, <2>1, <2>2, <2>3, HandsStay
  <1>16. /\ job'.op = job.op /\ job'.n = job.n /\ job'.v = job.v /\ job'.slot = job.slot
         /\ job'.into = job.into /\ job'.own = job.own /\ job'.snap = job.snap
         /\ job'.cur = job.cur /\ JobFields \subseteq DOMAIN job'
         /\ job'.work \in {job.work, Append(job.work, <<e, c>>)}
    BY <1>1, <1>6 DEF JobFields
  <1>17. HandsInv(heap', job')
    BY <1>15, <1>16, HandsAgree
  <1>18. \A q : IsItem(heap, job, q) => IsItem(heap', job', q)
    BY <1>13, <1>16 DEF IsItem, New
  <1>19. IsItem(heap', job', <<e, c>>)
    BY <1>1, <1>3, <1>4, <1>13, <1>16 DEF IsItem, New, HandsInv
  <1>20. CopyInv(heap', job')
    <2>1. IsItem(heap', job', job'.cur)
      BY <1>1, <1>16, <1>18 DEF CopyInv
    <2>2. e \in Nodes
      BY <1>3, LiveNodes
    <2>3. job'.work \in Seq(Nodes \X Nodes)
      <3>1. job.work \in Seq(Nodes \X Nodes) /\ <<e, c>> \in Nodes \X Nodes
        BY <1>1, <1>4, <2>2 DEF CopyInv
      <3>2. Append(job.work, <<e, c>>) \in Seq(Nodes \X Nodes)
        BY <3>1
      <3>. QED BY <1>16, <3>1, <3>2
    <2>4. \A x \in 1..Len(job'.work) : IsItem(heap', job', job'.work[x])
      <3>1. CASE job'.work = job.work
        BY <1>1, <1>18, <3>1 DEF CopyInv
      <3>2. CASE job'.work = Append(job.work, <<e, c>>)
        <4>1. job.work \in Seq(Nodes \X Nodes) /\ <<e, c>> \in Nodes \X Nodes
          BY <1>1, <1>4, <2>2 DEF CopyInv
        <4>2. Len(job'.work) = Len(job.work) + 1
              /\ \A x \in 1..Len(job'.work) :
                    job'.work[x] = IF x <= Len(job.work) THEN job.work[x] ELSE <<e, c>>
          BY <3>2, <4>1
        <4>3. \A x \in 1..Len(job'.work) : x <= Len(job.work) => x \in 1..Len(job.work)
          BY <4>1
        <4>. QED BY <1>1, <1>18, <1>19, <4>2, <4>3 DEF CopyInv
      <3>. QED BY <1>16, <3>1, <3>2
    <2>. QED BY <1>17, <2>1, <2>3, <2>4 DEF CopyInv
  <1>21. Closed(heap', New(heap', job'))
    <2>1. New(heap', job') = N \cup {c}
      BY <1>1, <1>4, <1>13, <1>16 DEF New, N, HandsInv
    <2>2. \A m \in N : m \in Live(heap) /\ Kids(heap, m) \subseteq N
      BY <1>1 DEF Closed, New, N
    <2>. QED BY <1>2, <1>13, <2>1, <2>2 DEF Closed
  <1>. QED BY <1>1, <1>12, <1>16, <1>20, <1>21 DEF DomInv, Running

LEMMA CopyPopKeeps ==
  ASSUME DomInv, CopyPop
  PROVE  DomInv'
  <1>1. /\ Forest(heap) /\ Closed(heap, New(heap, job)) /\ CopyInv(heap, job)
        /\ JobFields \subseteq DOMAIN job /\ Running /\ job.op # "grow"
        /\ job.work # <<>>
        /\ job' = [job EXCEPT !.cur = job.work[Len(job.work)],
                              !.work = SubSeq(job.work, 1, Len(job.work) - 1)]
        /\ heap' = heap
    BY CopyingHolds DEF CopyPop, Copying
  <1>2. /\ job'.op = job.op /\ job'.n = job.n /\ job'.v = job.v /\ job'.slot = job.slot
        /\ job'.into = job.into /\ job'.own = job.own /\ job'.snap = job.snap
        /\ job'.cur = job.work[Len(job.work)]
        /\ job'.work = SubSeq(job.work, 1, Len(job.work) - 1)
        /\ JobFields \subseteq DOMAIN job'
    BY <1>1 DEF JobFields
  <1>3. HandsInv(heap', job')
    BY <1>1, <1>2, HandsAgree DEF CopyInv
  <1>4. \A q : IsItem(heap, job, q) => IsItem(heap', job', q)
    BY <1>1, <1>2 DEF IsItem, New
  <1>5. /\ job.work \in Seq(Nodes \X Nodes) /\ Len(job.work) \in 1..Len(job.work)
        /\ \A x \in 1..Len(job.work) : IsItem(heap, job, job.work[x])
    BY <1>1 DEF CopyInv
  <1>6. /\ job'.work \in Seq(Nodes \X Nodes) /\ Len(job'.work) = Len(job.work) - 1
        /\ \A x \in 1..Len(job'.work) : x \in 1..Len(job.work) /\ job'.work[x] = job.work[x]
    BY <1>2, <1>5
  <1>7. CopyInv(heap', job')
    BY <1>2, <1>3, <1>4, <1>5, <1>6 DEF CopyInv
  <1>8. New(heap', job') = New(heap, job)
    BY <1>1, <1>2 DEF New
  <1>. QED BY <1>1, <1>2, <1>7, <1>8 DEF DomInv, Running, Closed

-----------------------------------------------------------------------------
(* A copy is complete.                                                      *)

\* The source of a move is reset: what the operation has made, and the
\* receiver, are no part of it.
LEMMA SourceResets ==
  ASSUME DomInv, Copying, job.op \in MoveOps
  PROVE  LET g == ResetNode(heap, job.v)
             N == New(heap, job)
         IN  /\ Forest(g) /\ N \in SUBSET Live(g) /\ Closed(g, N)
             /\ job.n \in Live(g) /\ job.n \notin N /\ g[job.n] = heap[job.n]
             /\ \A m \in N : g[m] = heap[m]
             /\ \A p \in Live(g) : Kids(g, p) \subseteq Kids(heap, p) /\ p \in Live(heap)
  <1> DEFINE n == job.n
             v == job.v
             g == ResetNode(heap, v)
             N == New(heap, job)
  <1>1. /\ Forest(heap) /\ Closed(heap, N) /\ HandsInv(heap, job)
        /\ n \in Live(heap) /\ v \in Live(heap)
    BY CopyingHolds
  <1>2. n \in Live(job.snap)
    BY <1>1 DEF HandsInv, MoveOps, ConstructOps
  <1>3. PICK W \in SUBSET Live(job.snap) : v \in W /\ n \notin W /\ Closed(heap, W)
    BY <1>1 DEF HandsInv, Apart
  <1>4. /\ Forest(g) /\ Live(g) = Live(heap) \ Below(heap, Kids(heap, v))
        /\ g[v].impl = NullImpl
        /\ \A m \in Live(g) \ {v} : g[m] = heap[m]
    BY <1>1, ResetKeeps
  <1>5. Subtree(heap, v) \subseteq W
    <2>1. W \in SUBSET Live(heap)
      BY <1>1, <1>3 DEF HandsInv
    <2>. QED BY <1>1, <1>3, <2>1, SubtreeIsClosed
  <1>6. Below(heap, Kids(heap, v)) \subseteq W
    BY <1>1, <1>5, SubtreeIs
  <1> HIDE DEF g
  <1>7. N \in SUBSET Live(g) /\ n \in Live(g) /\ n \notin N /\ v \notin N /\ n # v
    BY <1>1, <1>2, <1>3, <1>4, <1>6 DEF New
  <1>8. g[n] = heap[n] /\ \A m \in N : g[m] = heap[m]
    BY <1>4, <1>7
  <1>9. \A p \in Live(g) : Kids(g, p) \subseteq Kids(heap, p) /\ p \in Live(heap)
    BY <1>4, NullImplIs DEF Kids, KidsOf
  <1>10. Closed(g, N)
    BY <1>1, <1>7, <1>9 DEF Closed
  <1>. QED BY <1>4, <1>7, <1>8, <1>9, <1>10 DEF g

LEMMA FinishAssignKeeps ==
  ASSUME DomInv, FinishAssign
  PROVE  DomInv'
  <1>1. Copying /\ job.op = "assign" /\ Return(swapStorage(heap, job.n, T1), "ok")
    BY DEF FinishAssign, Copied
  <1>2. /\ Forest(heap) /\ Closed(heap, New(heap, job)) /\ HandsInv(heap, job) /\ job.n \in Live(heap)
    BY <1>1, CopyingHolds
  <1>3. /\ TempInv(heap, job, T1) /\ job.n \in Live(job.snap)
    BY <1>1, <1>2 DEF HandsInv, AssignOps, ConstructOps
  <1>4. Forest(Publish(heap, job.n, T1)) /\ T1 # job.n
    BY <1>2, <1>3, PublishKeeps DEF TempInv, New
  <1>. QED BY <1>1, <1>4, Returns DEF Publish

LEMMA FinishMoveAssignKeeps ==
  ASSUME DomInv, FinishMoveAssign
  PROVE  DomInv'
  <1> DEFINE g == ResetNode(heap, job.v)
             N == New(heap, job)
  <1>1. Copying /\ job.op = "moveAssign" /\ Return(swapStorage(g, job.n, T1), "ok")
    BY DEF FinishMoveAssign, Copied
  <1>2. HandsInv(heap, job)
    BY <1>1, CopyingHolds
  <1>3. TempInv(heap, job, T1)
    BY <1>1, <1>2 DEF HandsInv, AssignOps
  <1>4. /\ Forest(g) /\ N \in SUBSET Live(g) /\ Closed(g, N)
        /\ job.n \in Live(g) /\ job.n \notin N /\ g[job.n] = heap[job.n]
        /\ \A m \in N : g[m] = heap[m]
    BY <1>1, SourceResets DEF MoveOps
  <1> HIDE DEF g
  <1>5. T1 \in N /\ heap[T1].alloc = heap[job.n].alloc
    BY <1>3 DEF TempInv
  <1>6. T1 \in Live(g) /\ T1 # job.n /\ g[T1].alloc = g[job.n].alloc
    BY <1>4, <1>5
  <1>7. Forest(Publish(g, job.n, T1))
    BY <1>4, <1>5, <1>6, PublishKeeps
  <1>. QED BY <1>1, <1>6, <1>7, Returns DEF Publish

LEMMA FinishConstructsKeep ==
  ASSUME DomInv, FinishConstruct \/ FinishConstructMove
  PROVE  DomInv'
  <1>1. Copying
    BY DEF FinishConstruct, FinishConstructMove, Copied
  <1>2. Forest(heap) /\ job.v \in Live(heap)
    BY <1>1, CopyingHolds
  <1>3. Forest(ResetNode(heap, job.v))
    BY <1>2, ResetKeeps
  <1>. QED BY <1>2, <1>3, Returns DEF FinishConstruct, FinishConstructMove

\* What an insertion holds when its copy is complete.
LEMMA InsertionHolds ==
  ASSUME DomInv, Copying, job.op \in PushOps \cup InsertOps
  PROVE  /\ job.n \in Live(job.snap) /\ job.n \in Live(heap) /\ job.n \notin New(heap, job)
         /\ IntoInv(heap, job, IF job.op \in PushOps THEN "array" ELSE "object")
         /\ OwnInv(heap, job)
  <1>1. HandsInv(heap, job) /\ job.n \in Live(heap)
    BY CopyingHolds
  <1>2. job.op \notin ConstructOps /\ (job.op \in InsertOps => job.op \notin PushOps)
    BY DEF PushOps, InsertOps, ConstructOps
  <1>. QED BY <1>1, <1>2 DEF HandsInv, New

LEMMA FinishPushBackKeeps ==
  ASSUME DomInv, FinishPushBack
  PROVE  DomInv'
  <1> DEFINE N == New(heap, job)
  <1>1. Copying /\ job.op = "pushBack"
        /\ Return(Publish(Attach(heap, job.into, NextIndex(heap, job.into), job.own),
                          job.n, job.into), "ok")
    BY DEF FinishPushBack, Copied
  <1>2. Forest(heap) /\ Closed(heap, N) /\ N \in SUBSET Live(heap)
    BY <1>1, CopyingHolds DEF New
  <1>3. /\ job.n \in Live(heap) /\ job.n \notin N
        /\ IntoInv(heap, job, "array") /\ OwnInv(heap, job)
    BY <1>1, InsertionHolds DEF PushOps
  <1>4. Forest(Publish(Attach(heap, job.into, NextIndex(heap, job.into), job.own), job.n, job.into))
    BY <1>1, <1>2, <1>3, AttachAndPublish DEF IntoInv, OwnInv, ContainerTypes
  <1>. QED BY <1>1, <1>4, Returns

LEMMA FinishInsertKeeps ==
  ASSUME DomInv, FinishInsert
  PROVE  DomInv'
  <1> DEFINE N == New(heap, job)
  <1>1. Copying /\ job.op = "insert"
        /\ Return(Publish(Attach(heap, job.into, job.slot, job.own), job.n, job.into), "ok")
    BY DEF FinishInsert, Copied
  <1>2. Forest(heap) /\ Closed(heap, N) /\ N \in SUBSET Live(heap)
    BY <1>1, CopyingHolds DEF New
  <1>3. /\ job.n \in Live(heap) /\ job.n \notin N
        /\ IntoInv(heap, job, "object") /\ OwnInv(heap, job)
    BY <1>1, InsertionHolds DEF PushOps, InsertOps
  <1>4. Forest(Publish(Attach(heap, job.into, job.slot, job.own), job.n, job.into))
    BY <1>1, <1>2, <1>3, AttachAndPublish DEF IntoInv, OwnInv, ContainerTypes
  <1>. QED BY <1>1, <1>4, Returns

LEMMA FinishPushBackMoveKeeps ==
  ASSUME DomInv, FinishPushBackMove
  PROVE  DomInv'
  <1> DEFINE g == ResetNode(heap, job.v)
             N == New(heap, job)
  <1>1. Copying /\ job.op = "pushBackMove"
        /\ Return(Publish(Attach(g, job.into, NextIndex(g, job.into), job.own),
                          job.n, job.into), "ok")
    BY DEF FinishPushBackMove, Copied
  <1>2. /\ Forest(g) /\ N \in SUBSET Live(g) /\ Closed(g, N)
        /\ job.n \in Live(g) /\ job.n \notin N /\ g[job.n] = heap[job.n]
        /\ \A m \in N : g[m] = heap[m]
        /\ \A p \in Live(g) : Kids(g, p) \subseteq Kids(heap, p) /\ p \in Live(heap)
    BY <1>1, SourceResets DEF MoveOps
  <1> HIDE DEF g
  <1>3. IntoInv(heap, job, "array") /\ OwnInv(heap, job)
    BY <1>1, InsertionHolds DEF PushOps
  <1>4. job.into \in Live(g) /\ g[job.into] = heap[job.into]
    BY <1>2, <1>3 DEF IntoInv
  <1>5. TypeOf(g, job.into) = "array" /\ g[job.into].alloc = g[job.n].alloc
    BY <1>2, <1>3, <1>4 DEF IntoInv, TypeOf
  <1>6. job.own \in N \cap Pool /\ g[job.own].alloc = g[job.n].alloc /\ Orphan(g, job.own)
    BY <1>1, <1>2, <1>3 DEF OwnInv, Orphan
  <1>7. job.into \in {job.n, T1} /\ (job.into # job.n => job.into \in N)
    BY <1>3 DEF IntoInv
  <1>8. Forest(Publish(Attach(g, job.into, NextIndex(g, job.into), job.own), job.n, job.into))
    BY <1>2, <1>4, <1>5, <1>6, <1>7, AttachAndPublish DEF ContainerTypes
  <1>. QED BY <1>1, <1>8, Returns

LEMMA FinishInsertMoveKeeps ==
  ASSUME DomInv, FinishInsertMove
  PROVE  DomInv'
  <1> DEFINE g == ResetNode(heap, job.v)
             N == New(heap, job)
  <1>1. Copying /\ job.op = "insertMove" /\ Return(Publish(g, job.n, job.into), "ok")
    BY DEF FinishInsertMove, Copied
  <1>2. /\ Forest(g) /\ N \in SUBSET Live(g) /\ Closed(g, N)
        /\ job.n \in Live(g) /\ job.n \notin N /\ g[job.n] = heap[job.n]
        /\ \A m \in N : g[m] = heap[m]
    BY <1>1, SourceResets DEF MoveOps
  <1> HIDE DEF g
  <1>3. IntoInv(heap, job, "object")
    BY <1>1, InsertionHolds DEF PushOps, InsertOps
  <1>4. job.into \in Live(g) /\ g[job.into] = heap[job.into]
    BY <1>2, <1>3 DEF IntoInv
  <1>5. g[job.into].alloc = g[job.n].alloc
    BY <1>2, <1>3, <1>4 DEF IntoInv
  <1>6. Forest(Publish(g, job.n, job.into))
    BY <1>2, <1>3, <1>4, <1>5, PublishKeeps DEF IntoInv
  <1>. QED BY <1>1, <1>6, Returns

LEMMA FinishSnapshotKeeps ==
  ASSUME DomInv, FinishSnapshot
  PROVE  DomInv'
  <1> DEFINE n == job.n
             N == New(heap, job)
             c == Fresh(heap)
             into == InTo(n, "object")
             g == MakeNode(WithInTo(heap, n, "object"), c, heap[n].alloc)
  <1>1. Copying /\ job.op = "insertSnapshot"
    BY DEF FinishSnapshot, Copied
  <1>2. /\ Forest(heap) /\ Closed(heap, N) /\ HandsInv(heap, job) /\ n \in Live(heap)
    BY <1>1, CopyingHolds
  <1>3. TempInv(heap, job, T2) /\ T1 \notin Live(heap) /\ n \in Live(job.snap)
    BY <1>1, <1>2 DEF HandsInv, ConstructOps
  <1>4. T2 \in N /\ T2 \in Live(heap) /\ heap[T2].alloc = heap[n].alloc /\ n \notin N
        /\ N \in SUBSET Live(heap)
    BY <1>3 DEF TempInv, New
  <1>5. Subtree(heap, T2) \subseteq N
    BY <1>2, <1>4, SubtreeIsClosed
  <1>6. CASE HasMember(n, job.slot)
    <2> DEFINE x == KidsOf(heap, n)[job.slot]
    <2>1. x \in Kids(heap, n) /\ x \in Live(heap)
      BY <1>2, <1>6, MemberIsLive
    <2>2. heap[x].alloc = heap[T2].alloc /\ x \in Pool
      BY <1>2, <1>4, <2>1 DEF Forest, IsCell
    <2>3. x \notin Subtree(heap, T2)
      <3> SUFFICES ASSUME x \in Subtree(heap, T2) PROVE FALSE
        OBVIOUS
      <3>1. x # T2
        BY <2>2, NodesAssumption DEF Temps
      <3>2. PICK p \in Subtree(heap, T2) : x \in Kids(heap, p)
        BY <1>2, <1>4, <3>1, OwnedInside
      <3>3. p = n
        BY <1>2, <1>4, <1>5, <2>1, <3>2 DEF Forest, OwnedOnce, Kids
      <3>. QED BY <1>4, <1>5, <3>2, <3>3
    <2>4. Forest(MoveStorage(heap, x, T2))
      BY <1>2, <1>3, <1>4, <2>1, <2>2, <2>3, MoveStorageKeeps
    <2>. QED BY <1>6, <2>4, Returns DEF FinishSnapshot
  <1>7. CASE ~HasMember(n, job.slot)
    <2>1. /\ HasRoom(heap)
          /\ Return(Publish(swapStorage(Attach(g, into, job.slot, c), c, T2), n, into), "ok")
      BY <1>7 DEF FinishSnapshot
    <2>2. Ready(g, n, "object", into, c)
      BY <1>2, <1>3, <2>1, InsertionIsReady
    <2> HIDE DEF g, into, c
    <2>3. n \notin Subtree(heap, T2)
      BY <1>4, <1>5
    <2>4. Forest(Publish(swapStorage(Attach(g, into, job.slot, c), c, T2), n, into))
      BY <1>2, <1>3, <1>4, <2>2, <2>3, AttachThenAdopt
    <2>. QED BY <2>1, <2>4, Returns
  <1>. QED BY <1>6, <1>7

-----------------------------------------------------------------------------
(* Steps of growth, and failures.                                           *)

LEMMA GrowingHolds ==
  ASSUME DomInv, job.op = "grow"
  PROVE  /\ Forest(heap) /\ Closed(heap, New(heap, job)) /\ GrowInv(heap, job)
         /\ job.n \in Live(heap) /\ job.n \notin New(heap, job)
         /\ job.into \in Live(heap) /\ KidsOf(heap, job.into) \in Seq(Pool)
         /\ JobFields \subseteq DOMAIN job
  <1>1. Forest(heap) /\ Closed(heap, New(heap, job)) /\ GrowInv(heap, job)
        /\ JobFields \subseteq DOMAIN job
    BY DEF DomInv, Running
  <1>2. job.n \in Live(heap) /\ job.n \notin New(heap, job) /\ job.into \in Live(heap)
        /\ TypeOf(heap, job.into) = "array"
    BY <1>1 DEF GrowInv, IntoInv, New
  <1>. QED BY <1>1, <1>2, ArrayIsSequence

LEMMA GrowStepKeeps ==
  ASSUME DomInv, GrowStep
  PROVE  DomInv'
  <1> DEFINE c == Fresh(heap)
             a == heap[job.n].alloc
             into == job.into
             k == SetImpl(MakeNode(heap, c, a), c, EmptyImpl(a, job.fill))
             N == New(heap, job)
  <1>1. /\ job.op = "grow" /\ HasRoom(heap) /\ job' = job
        /\ heap' = Attach(k, into, NextIndex(k, into), c)
    BY DEF GrowStep
  <1>2. /\ Forest(heap) /\ Closed(heap, N) /\ GrowInv(heap, job)
        /\ job.n \in Live(heap) /\ job.n \notin N
        /\ into \in Live(heap) /\ KidsOf(heap, into) \in Seq(Pool)
        /\ JobFields \subseteq DOMAIN job
    BY <1>1, GrowingHolds
  <1>3. heap[into].alloc = a /\ TypeOf(heap, into) = "array"
    BY <1>2 DEF GrowInv, IntoInv
  <1>4. c \in Pool \ Live(heap) /\ c \in Nodes
    BY <1>1, FreshIsDead
  <1>5. IsEmptyImpl(EmptyImpl(a, job.fill), a)
    BY EmptyImplIs
  <1>6. Sprouts(k, heap, c, a, EmptyImpl(a, job.fill))
    BY <1>2, <1>4, <1>5, DressedSprouts DEF IsEmptyImpl, Forest
  <1> HIDE DEF c, a, k, N
  <1>7. /\ Forest(k) /\ Live(k) = Live(heap) \cup {c}
        /\ Orphan(k, c) /\ Kids(k, c) = {} /\ Subtree(k, c) = {c} /\ k[c].alloc = a
        /\ \A m \in Nodes \ {c} : k[m] = heap[m] /\ Kids(k, m) = Kids(heap, m)
    BY <1>2, <1>4, <1>5, <1>6, SproutKeeps DEF Sprouts
  <1>8. into \in Nodes /\ into # c /\ k[into] = heap[into]
        /\ TypeOf(k, into) = "array" /\ KidsOf(k, into) = KidsOf(heap, into)
    BY <1>2, <1>3, <1>4, <1>7, LiveNodes DEF TypeOf, KidsOf
  <1>9. /\ Forest(heap') /\ Live(heap') = Live(k)
        /\ \A m \in Nodes : heap'[m].alloc = k[m].alloc
        /\ \A m \in Nodes : TypeOf(heap', m) = TypeOf(k, m)
        /\ \A m \in Nodes \ {into} : heap'[m] = k[m] /\ Kids(heap', m) = Kids(k, m)
        /\ KidsOf(heap', into) = PutKid(KidsOf(k, into), NextIndex(k, into), c)
        /\ Kids(heap', into) \subseteq Kids(k, into) \cup {c}
    BY <1>1, <1>2, <1>3, <1>4, <1>7, <1>8, AttachKeeps DEF ContainerTypes
  <1>10. KidsOf(heap', into) \in Seq(Pool)
    BY <1>2, <1>7, <1>8, <1>9, ArrayIsSequence
  <1>11. Len(KidsOf(heap, into)) <= Len(KidsOf(heap', into))
    <2>1. DOMAIN KidsOf(heap', into) = DOMAIN KidsOf(heap, into) \cup {Len(KidsOf(heap, into)) + 1}
      BY <1>8, <1>9 DEF PutKid, NextIndex
    <2>2. Len(KidsOf(heap, into)) + 1 \in 1..Len(KidsOf(heap', into))
      BY <1>10, <2>1
    <2>. QED BY <1>2, <1>10, <2>2
  <1>12. IntoInv(heap', job', "array")
    BY <1>1, <1>2, <1>3, <1>4, <1>7, <1>8, <1>9, LiveNodes DEF GrowInv, IntoInv, New
  <1>13. Len(KidsOf(heap, into)) \in Nat /\ Len(KidsOf(heap', into)) \in Nat
    BY <1>2, <1>10
  <1>14. GrowInv(heap', job')
    BY <1>1, <1>2, <1>7, <1>9, <1>11, <1>12, <1>13 DEF GrowInv
  <1>15. New(heap', job') = N \cup {c}
    BY <1>1, <1>2, <1>4, <1>7, <1>9 DEF New, N, GrowInv
  <1>16. Closed(heap', New(heap', job'))
    BY <1>2, <1>4, <1>7, <1>8, <1>9, <1>15, LiveNodes DEF Closed, N, New
  <1>. QED BY <1>1, <1>2, <1>9, <1>14, <1>16 DEF DomInv, Running

LEMMA FinishGrowKeeps ==
  ASSUME DomInv, FinishGrow
  PROVE  DomInv'
  <1>1. job.op = "grow" /\ Return(Publish(heap, job.n, job.into), "ok")
    BY DEF FinishGrow
  <1>2. /\ Forest(heap) /\ Closed(heap, New(heap, job)) /\ GrowInv(heap, job)
        /\ job.n \in Live(heap) /\ job.n \notin New(heap, job)
    BY <1>1, GrowingHolds
  <1>3. Forest(Publish(heap, job.n, job.into))
    BY <1>2, PublishKeeps DEF GrowInv, IntoInv, New
  <1>. QED BY <1>1, <1>3, Returns

\* Growth that fails takes back the elements it has appended.
LEMMA GrowRollbackKeeps ==
  ASSUME DomInv, job.op = "grow"
  PROVE  Forest(GrowRollback(heap))
  <1> DEFINE n == job.into
             kids == KidsOf(heap, n)
             C == {kids[i] : i \in (job.slot + 1)..Len(kids)}
             d == [m \in Nodes |-> IF m \in Below(heap, C) THEN Dead ELSE heap[m]]
             kept == SubSeq(kids, 1, job.slot)
             g == SetKids(d, n, kept)
  <1>1. /\ Forest(heap) /\ n \in Live(heap) /\ kids \in Seq(Pool) /\ GrowInv(heap, job)
    BY GrowingHolds
  <1>2. Len(kids) \in Nat /\ DOMAIN kids = 1..Len(kids) /\ job.slot \in 0..Len(kids)
    BY <1>1 DEF GrowInv
  <1>3. C \in SUBSET Kids(heap, n)
    BY <1>2 DEF Kids
  <1>4. GrowRollback(heap) = g
    BY DEF GrowRollback, Below
  <1>5. IsHeap(d) /\ Live(d) = Live(heap) \ Below(heap, C) /\ \A m \in Live(d) : d[m] = heap[m]
    BY <1>1, NullImplIs DEF Forest, IsHeap, IsImpl, Live
  <1>6. /\ kept \in Seq(Pool) /\ DOMAIN kept = 1..job.slot
        /\ \A i \in 1..job.slot : i \in DOMAIN kids /\ kept[i] = kids[i]
    BY <1>1, <1>2
  <1>7. \A i, j \in DOMAIN kids : kids[i] = kids[j] => i = j
    BY <1>1 DEF Forest, OwnedOnce
  <1>8. \A i \in 1..job.slot : kept[i] \in Kids(heap, n) \ C
    <2> SUFFICES ASSUME NEW i \in 1..job.slot, NEW j \in (job.slot + 1)..Len(kids), kids[i] = kids[j]
                 PROVE  FALSE
      BY <1>6 DEF Kids
    <2>1. i \in DOMAIN kids /\ j \in DOMAIN kids /\ i # j
      BY <1>2
    <2>. QED BY <1>7, <2>1
  <1> HIDE DEF C, kept
  <1>9. n \in Live(d) /\ n \in Nodes
    BY <1>1, <1>3, <1>5, Severed, LiveNodes
  <1>10. TypeOf(d, n) = TypeOf(heap, n) /\ d[n] = heap[n]
    BY <1>5, <1>9 DEF TypeOf
  <1> HIDE DEF d
  <1>11. /\ IsHeap(g) /\ Live(g) = Live(d)
         /\ KidsOf(g, n) = kept /\ g[n].alloc = d[n].alloc
         /\ TypeOf(g, n) = TypeOf(d, n) /\ g[n].impl.home = d[n].impl.home
         /\ \A m \in Nodes \ {n} : g[m] = d[m]
    BY <1>5, <1>9, SetKidsIs
  <1> HIDE DEF g, n
  <1>12. g[n].alloc = heap[n].alloc /\ \A m \in Live(g) \ {n} : g[m] = heap[m]
    BY <1>5, <1>9, <1>10, <1>11, LiveNodes
  <1>13. Kids(g, n) \subseteq Kids(heap, n) \ C
    BY <1>6, <1>8, <1>11 DEF Kids
  <1>14. TypeOf(heap, n) = "array"
    BY <1>1 DEF GrowInv, IntoInv, n
  <1>15. IsOrdered(g, n)
    BY <1>1, <1>6, <1>10, <1>11, <1>14 DEF IsOrdered, Forest, IsCell, ContainerTypes
  <1>16. \A s, t \in DOMAIN KidsOf(g, n) : KidsOf(g, n)[s] = KidsOf(g, n)[t] => s = t
    BY <1>6, <1>7, <1>11
  <1>17. Forest(g)
    BY <1>1, <1>3, <1>5, <1>11, <1>12, <1>13, <1>15, <1>16, Drops
  <1>. QED BY <1>4, <1>17

LEMMA RollbackKeeps ==
  ASSUME DomInv, Running
  PROVE  Forest(Rollback(heap))
  <1>1. CASE job.op = "grow"
    BY <1>1, GrowRollbackKeeps DEF Rollback
  <1>2. CASE job.op # "grow"
    <2>1. Copying
      BY <1>2 DEF Copying
    <2>2. Forest(heap) /\ HandsInv(heap, job) /\ job.n \in Live(heap) /\ job.op \in CopyOps
      BY <2>1, CopyingHolds DEF HandsInv
    <2>3. CASE job.op \in ConstructOps
      <3>1. job.n \notin Pool
        BY <2>2, <2>3, NodesAssumption DEF HandsInv
      <3>2. Forest(destroyNode(heap, job.n))
        BY <2>2, <3>1, OutsidersAreOrphans, DestroyKeeps
      <3>. QED BY <2>3, <3>2 DEF Rollback, ConstructOps
    <2>4. CASE job.op = "insertMove"
      <3> DEFINE kids == KidsOf(heap, job.into)
                 rest == DropKey(kids, job.slot)
      <3>1. IntoInv(heap, job, "object") /\ OwnInv(heap, job)
        BY <2>1, <2>4, InsertionHolds DEF InsertOps, PushOps
      <3>2. /\ job.into \in Live(heap) /\ TypeOf(heap, job.into) = "object"
            /\ job.slot \in DOMAIN kids /\ kids[job.slot] = job.own
        BY <2>4, <3>1 DEF IntoInv, OwnInv
      <3>3. \A i, j \in DOMAIN kids : kids[i] = kids[j] => i = j
        BY <2>2, <3>2 DEF Forest, OwnedOnce
      <3>4. /\ \A i \in DOMAIN rest : rest[i] \in {kids[j] : j \in DOMAIN kids \ {job.slot}}
            /\ \A i, j \in DOMAIN rest : rest[i] = rest[j] => i = j
        BY <3>3 DEF DropKey
      <3> HIDE DEF rest
      <3>5. Forest(SetKids(destroyNode(heap, kids[job.slot]), job.into, rest))
        BY <2>2, <3>2, <3>4, UnhookKeeps DEF ContainerTypes
      <3>. QED BY <2>4, <3>2, <3>5 DEF Rollback, rest
    <2>5. CASE job.op \in PushOps \cup {"insert"}
      <3>1. OwnInv(heap, job)
        BY <2>1, <2>5, InsertionHolds DEF InsertOps
      <3>2. job.own \in Live(heap) /\ Orphan(heap, job.own) /\ job.own # None
        BY <2>5, <3>1, NodesAssumption, LiveNodes DEF OwnInv, New, PushOps
      <3>3. Forest(destroyNode(heap, job.own))
        BY <2>2, <3>2, DestroyKeeps
      <3>. QED BY <2>5, <3>2, <3>3 DEF Rollback, PushOps
    <2>6. CASE job.op \in AssignOps \cup {"insertSnapshot"}
      <3>1. job.own = None
        BY <2>2, <2>6 DEF HandsInv, TempInv
      <3>. QED BY <2>2, <2>6, <3>1 DEF Rollback, AssignOps
    <2>. QED BY <2>2, <2>3, <2>4, <2>5, <2>6 DEF CopyOps, InsertOps
  <1>. QED BY <1>1, <1>2

LEMMA JobStepKeeps ==
  ASSUME DomInv, JobStep
  PROVE  DomInv'
  <1>1. CASE AllocationFails
    BY <1>1, RollbackKeeps, Returns DEF AllocationFails
  <1>. QED BY <1>1, CopyChildKeeps, CopyPopKeeps, FinishAssignKeeps, FinishMoveAssignKeeps,
           FinishConstructsKeep, FinishPushBackKeeps, FinishPushBackMoveKeeps, FinishInsertKeeps,
           FinishInsertMoveKeeps, FinishSnapshotKeeps, GrowStepKeeps, FinishGrowKeeps DEF JobStep

-----------------------------------------------------------------------------
(* Nothing leaks.                                                           *)

HasOwner(h, m) == \E p \in Live(h) : m \in Kids(h, p)

\* Whatever the pool has given out, but what is in X, has an owner.
Owned(h, X) == \A m \in (Live(h) \cap Pool) \ X : HasOwner(h, m)

\* What loses its owner goes with it.
LEMMA DropOwned ==
  ASSUME NEW h, NEW n \in Live(h), NEW X, Owned(h, X), NEW g,
         Live(g) \subseteq Live(h) \ Below(h, Kids(h, n)),
         Live(h) \ (Below(h, Kids(h, n)) \cup {n}) \subseteq Live(g),
         \A m \in Live(g) \ {n} : g[m] = h[m]
  PROVE  Owned(g, X)
  <1> SUFFICES ASSUME NEW m \in (Live(g) \cap Pool) \ X PROVE HasOwner(g, m)
    BY DEF Owned
  <1>1. PICK p \in Live(h) : m \in Kids(h, p)
    BY DEF Owned, HasOwner
  <1>2. m \in Subtree(h, m)
    BY DEF Subtree
  <1>3. p # n
    BY <1>1, <1>2 DEF Below
  <1>4. p \notin Below(h, Kids(h, n))
    <2> SUFFICES ASSUME NEW c \in Kids(h, n), p \in Subtree(h, c) PROVE FALSE
      BY DEF Below
    <2>1. m \in Subtree(h, c)
      BY <1>1 DEF Subtree, Closed
    <2>. QED BY <2>1 DEF Below
  <1>5. p \in Live(g) /\ Kids(g, p) = Kids(h, p)
    BY <1>3, <1>4 DEF Kids, KidsOf
  <1>. QED BY <1>1, <1>5 DEF HasOwner

LEMMA ReplaceOwned ==
  ASSUME NEW h, IsHeap(h), NEW n \in Live(h), NEW i, IsImpl(i), NEW X, Owned(h, X)
  PROVE  LET g == ReplaceImpl(h, n, i)
         IN  IsHeap(g) /\ Owned(g, X) /\ Live(g) = Live(h) \ Below(h, Kids(h, n))
  <1> DEFINE d == disposeChildren(h, n)
             g == ReplaceImpl(h, n, i)
  <1>1. n \in Nodes
    BY LiveNodes
  <1>2. /\ IsHeap(d) /\ Live(d) = Live(h) \ Below(h, Kids(h, n))
        /\ \A m \in Live(d) : d[m] = h[m]
    BY <1>1, DisposeIs
  <1>3. g = SetImpl(d, n, i)
    BY DEF ReplaceImpl
  <1> HIDE DEF d, g
  <1>4. IsHeap(g) /\ Live(g) = Live(d) /\ \A m \in Nodes \ {n} : g[m] = d[m]
    BY <1>1, <1>2, <1>3, SetImplIs
  <1>5. Owned(g, X)
    BY <1>2, <1>4, DropOwned, LiveNodes
  <1>. QED BY <1>2, <1>4, <1>5 DEF g

LEMMA ResetOwned ==
  ASSUME NEW h, IsHeap(h), NEW n \in Live(h), NEW X, Owned(h, X)
  PROVE  IsHeap(ResetNode(h, n)) /\ Owned(ResetNode(h, n), X)
  BY ReplaceOwned, NullImplIs DEF ResetNode, ReplaceImpl

LEMMA DestroyOwned ==
  ASSUME NEW h, IsHeap(h), NEW n \in Live(h), NEW X, Owned(h, X)
  PROVE  LET g == destroyNode(h, n)
         IN  /\ IsHeap(g) /\ Owned(g, X \ {n}) /\ n \notin Live(g)
             /\ \A m \in Live(g) : m \in Live(h) /\ g[m] = h[m]
  <1> DEFINE d == disposeChildren(h, n)
             r == ResetNode(h, n)
             g == destroyNode(h, n)
  <1>1. n \in Nodes
    BY LiveNodes
  <1>2. /\ IsHeap(d) /\ Live(d) = Live(h) \ Below(h, Kids(h, n))
        /\ \A m \in Live(d) : d[m] = h[m]
    BY <1>1, DisposeIs
  <1>3. r = SetImpl(d, n, NullImpl)
    BY DEF ResetNode
  <1>4. g = [r EXCEPT ![n] = Dead]
    BY DEF destroyNode
  <1> HIDE DEF d, r, g
  <1>5. IsHeap(r) /\ Live(r) = Live(d) /\ \A m \in Nodes \ {n} : r[m] = d[m]
    BY <1>1, <1>2, <1>3, SetImplIs, NullImplIs
  <1>6. IsHeap(g) /\ Live(g) = Live(r) \ {n} /\ \A m \in Live(g) : g[m] = r[m]
    BY <1>1, <1>4, <1>5, NullImplIs, LiveNodes DEF IsHeap, IsImpl, Live
  <1>7. \A m \in Live(g) : m \in Live(h) /\ g[m] = h[m]
    BY <1>2, <1>5, <1>6, LiveNodes
  <1>8. Owned(g, X)
    BY <1>2, <1>5, <1>6, <1>7, DropOwned
  <1>9. Owned(g, X \ {n})
    BY <1>6, <1>8 DEF Owned
  <1>. QED BY <1>6, <1>7, <1>9 DEF g

LEMMA SwapOwned ==
  ASSUME NEW h, IsHeap(h), NEW a \in Live(h), NEW b \in Live(h), a # b, NEW X, Owned(h, X)
  PROVE  LET g == swapStorage(h, a, b)
         IN  IsHeap(g) /\ Owned(g, X) /\ Live(g) = Live(h)
  <1> DEFINE g == swapStorage(h, a, b)
  <1>1. /\ IsHeap(g) /\ Live(g) = Live(h)
        /\ g[a].impl = h[b].impl /\ g[b].impl = h[a].impl
        /\ \A m \in Nodes \ {a, b} : g[m] = h[m]
    BY SwapIs, LiveNodes
  <1> HIDE DEF g
  <1>2. /\ Kids(g, a) = Kids(h, b) /\ Kids(g, b) = Kids(h, a)
        /\ \A m \in Nodes \ {a, b} : Kids(g, m) = Kids(h, m)
    BY <1>1 DEF Kids, KidsOf
  <1>3. \A m : HasOwner(h, m) => HasOwner(g, m)
    BY <1>1, <1>2, LiveNodes DEF HasOwner
  <1>. QED BY <1>1, <1>3 DEF Owned, g

LEMMA SproutOwned ==
  ASSUME NEW h, NEW c \in Nodes \ Live(h), NEW a, NEW i, NEW g, Sprouts(g, h, c, a, i),
         NEW X, Owned(h, X)
  PROVE  Owned(g, X \cup {c})
  <1>1. \A m \in Live(h) : m \in Live(g) /\ Kids(g, m) = Kids(h, m)
    BY LiveNodes DEF Sprouts, Kids, KidsOf
  <1>. QED BY <1>1 DEF Sprouts, Owned, HasOwner

LEMMA AttachOwned ==
  ASSUME NEW h, IsHeap(h), NEW n \in Live(h), NEW s, s \notin DOMAIN KidsOf(h, n),
         NEW c, NEW X, Owned(h, X)
  PROVE  LET g == Attach(h, n, s, c)
         IN  IsHeap(g) /\ Owned(g, X \ {c}) /\ Live(g) = Live(h)
  <1> DEFINE g == Attach(h, n, s, c)
  <1>1. /\ IsHeap(g) /\ Live(g) = Live(h)
        /\ KidsOf(g, n) = PutKid(KidsOf(h, n), s, c)
        /\ \A m \in Nodes \ {n} : g[m] = h[m]
    BY SetKidsIs, LiveNodes DEF Attach
  <1> HIDE DEF g
  <1>2. Kids(g, n) = Kids(h, n) \cup {c}
    BY <1>1 DEF Kids, PutKid
  <1>3. \A m \in Live(h) \ {n} : Kids(g, m) = Kids(h, m)
    BY <1>1, LiveNodes DEF Kids, KidsOf
  <1>4. HasOwner(g, c) /\ \A m : HasOwner(h, m) => HasOwner(g, m)
    BY <1>1, <1>2, <1>3 DEF HasOwner
  <1>. QED BY <1>1, <1>4 DEF Owned, g

LEMMA PublishOwned ==
  ASSUME NEW h, IsHeap(h), NEW n \in Live(h), NEW into \in Live(h), NEW X, Owned(h, X)
  PROVE  IsHeap(Publish(h, n, into)) /\ Owned(Publish(h, n, into), X)
  BY SwapOwned DEF Publish

\* A slot that is removed once its child has been destroyed.
LEMMA UnhookOwned ==
  ASSUME NEW h, IsHeap(h), NEW n \in Live(h), NEW c \in Live(h), NEW X, Owned(h, X), NEW rest,
         \A m \in Kids(h, n) : m # c => m \in {rest[i] : i \in DOMAIN rest}
  PROVE  LET g == SetKids(destroyNode(h, c), n, rest)
         IN  IsHeap(g) /\ Owned(g, X \ {c})
  <1> DEFINE d == destroyNode(h, c)
             g == SetKids(d, n, rest)
  <1>1. /\ IsHeap(d) /\ Owned(d, X \ {c}) /\ c \notin Live(d)
        /\ \A m \in Live(d) : m \in Live(h) /\ d[m] = h[m]
    BY DestroyOwned
  <1> HIDE DEF d
  <1>2. /\ IsHeap(g) /\ Live(g) = Live(d) /\ KidsOf(g, n) = rest
        /\ \A m \in Nodes \ {n} : g[m] = d[m]
    BY <1>1, SetKidsIs, LiveNodes
  <1> HIDE DEF g
  <1>3. ASSUME NEW m \in Live(g), HasOwner(d, m) PROVE HasOwner(g, m)
    <2>1. PICK p \in Live(d) : m \in Kids(d, p)
      BY <1>3 DEF HasOwner
    <2>2. p = n => m \in Kids(h, n)
      BY <1>1, <2>1 DEF Kids, KidsOf
    <2>3. p = n => m \in Kids(g, n)
      BY <1>1, <1>2, <2>2 DEF Kids
    <2>4. p # n => m \in Kids(g, p)
      BY <1>2, <2>1, LiveNodes DEF Kids, KidsOf
    <2>. QED BY <1>2, <2>1, <2>3, <2>4 DEF HasOwner
  <1>4. Owned(g, X \ {c})
    BY <1>1, <1>2, <1>3 DEF Owned
  <1>. QED BY <1>2, <1>4 DEF g, d

\* All that is ever without an owner is the child that an operation has yet to
\* attach.  An insertion attaches it under a name its container does not have,
\* however long the copy takes: the copy's items are not the container.
LeakInv ==
    /\ Owned(heap, {job.own})
    /\ (~Running \/ job.op \in ConstructOps \cup {"grow"}) => job.own = None
    /\ job.op = "insert" =>
        /\ job.slot \notin DOMAIN KidsOf(heap, job.into)
        /\ job.cur[2] \in Pool
        /\ \A i \in 1..Len(job.work) : job.work[i][2] \in Pool

LEMMA NoneIsNoNode == ASSUME NEW h, Owned(h, {None}) PROVE Owned(h, {})
  BY NodesAssumption DEF Owned, Nodes

LEMMA DropTempOwned ==
  ASSUME NEW h, IsHeap(h), NEW t \in Temps, NEW X, Owned(h, X)
  PROVE  IsHeap(DropTemp(h, t)) /\ Owned(DropTemp(h, t), X)
  <1>1. CASE h[t].live
    <2>1. t \in Live(h) /\ DropTemp(h, t) = destroyNode(h, t)
      BY <1>1 DEF DropTemp, Live, Nodes
    <2>2. IsHeap(destroyNode(h, t)) /\ Owned(destroyNode(h, t), X \ {t})
      BY <2>1, DestroyOwned
    <2>. QED BY <2>1, <2>2 DEF Owned
  <1>2. CASE ~h[t].live
    BY <1>2 DEF DropTemp
  <1>. QED BY <1>1, <1>2

\* Whatever returns has nothing left to attach.
LEMMA ReturnsOwned ==
  ASSUME NEW h, IsHeap(h), Owned(h, {}), NEW r, Return(h, r)
  PROVE  LeakInv'
  <1>1. T1 \in Temps /\ T2 \in Temps
    BY DEF Temps
  <1>2. IsHeap(DropTemp(h, T1)) /\ Owned(DropTemp(h, T1), {})
    BY <1>1, DropTempOwned
  <1>3. Owned(heap', {})
    BY <1>1, <1>2, DropTempOwned DEF Return
  <1>4. job' = Idle /\ Idle.op = "idle" /\ Idle.own = None
    BY DEF Return, Idle
  <1>. QED BY <1>3, <1>4 DEF LeakInv, Owned

LEMMA IdleOwned ==
  ASSUME DomInv, LeakInv, ~Running
  PROVE  /\ Forest(heap) /\ IsHeap(heap) /\ Owned(heap, {})
         /\ T1 \notin Live(heap) /\ T2 \notin Live(heap)
  BY NoneIsNoNode DEF DomInv, LeakInv, Forest, NoTemps

\* What an insertion or a growth makes first.
LEMMA ReadyOwned ==
  ASSUME Owned(heap, {}), NEW n \in Live(heap), NEW t, NEW into, NEW c, NEW g,
         Ready(g, n, t, into, c)
  PROVE  /\ IsHeap(g) /\ Owned(g, {c}) /\ n \in Live(g) /\ into \in Live(g) /\ c \in Live(g)
         /\ into # c /\ Kids(g, c) = {}
  <1>1. T1 \notin Pool
    BY NodesAssumption DEF Temps
  <1>2. \A m \in Live(heap) : m \in Live(g) /\ Kids(g, m) = Kids(heap, m)
    BY DEF Ready
  <1>3. Owned(g, {c})
    BY <1>1, <1>2 DEF Ready, Owned, HasOwner
  <1>. QED BY <1>1, <1>3 DEF Ready, Forest

\* The container has the slots of the receiver, or none.
LEMMA ReadySlots ==
  ASSUME NEW n \in Live(heap), NEW t, NEW into, NEW c, NEW g, Ready(g, n, t, into, c),
         NEW k \in DOMAIN KidsOf(g, into)
  PROVE  TypeOf(heap, n) = t /\ k \in DOMAIN KidsOf(heap, n)
  <1>1. KidsOf(g, into)[k] \in Kids(g, into)
    BY DEF Kids
  <1>2. into = n
    BY <1>1 DEF Ready
  <1>3. g[n] = heap[n] /\ TypeOf(g, into) = t
    BY DEF Ready
  <1>. QED BY <1>2, <1>3 DEF KidsOf, TypeOf

LEMMA FillsInOwned ==
  ASSUME Owned(heap, {}), NEW n \in Live(heap), NEW t, NEW into, NEW g, FillsIn(g, n, t, into)
  PROVE  Owned(g, {})
  <1>1. T1 \notin Pool
    BY NodesAssumption DEF Temps
  <1>2. \A m \in Live(heap) : m \in Live(g) /\ Kids(g, m) = Kids(heap, m)
    BY DEF FillsIn
  <1>. QED BY <1>1, <1>2 DEF FillsIn, Owned, HasOwner

LEMMA DressOwned ==
  ASSUME NEW h, IsHeap(h), NEW n \in Nodes, Kids(h, n) = {}, NEW i, IsImpl(i), NEW X, Owned(h, X)
  PROVE  Owned(SetImpl(h, n, i), X)
  <1> DEFINE g == SetImpl(h, n, i)
  <1>1. Live(g) = Live(h) /\ \A m \in Nodes \ {n} : g[m] = h[m]
    BY SetImplIs
  <1> HIDE DEF g
  <1>2. \A m : HasOwner(h, m) => HasOwner(g, m)
    BY <1>1, LiveNodes DEF HasOwner, Kids, KidsOf
  <1>. QED BY <1>1, <1>2 DEF Owned, g

LEMMA StartsOwned ==
  ASSUME NEW h, IsHeap(h), NEW op, NEW n, NEW v, NEW slot, NEW into, NEW own, NEW dst \in Live(h),
         Kids(h, dst) = {}, Owned(h, {own}),
         StartCopy(h, op, n, v, slot, into, own, dst),
         op \notin {"idle", "grow"}, op \in ConstructOps => own = None,
         op = "insert" => slot \notin DOMAIN KidsOf(h, into) /\ dst \in Pool
                          /\ into \in Live(h) /\ into # dst
  PROVE  LeakInv'
  <1> DEFINE i == [EmptyImpl(h[dst].alloc, TypeOf(h, v)) EXCEPT !.val = h[v].impl.val]
             g == SetImpl(h, dst, i)
             j == Job(op, n, v, slot, into, own, dst)
  <1>1. heap' = g /\ job' = j
    BY DEF StartCopy, ShallowCopy
  <1>2. IsImpl(i)
    BY EmptyImplIs DEF IsEmptyImpl
  <1>3. dst \in Nodes
    BY LiveNodes
  <1>4. /\ j.op = op /\ j.slot = slot /\ j.into = into /\ j.own = own
        /\ j.cur = <<v, dst>> /\ j.work = <<>>
    BY DEF Job, Idle
  <1> HIDE DEF i, j
  <1>5. Owned(g, {own})
    BY <1>2, <1>3, DressOwned
  <1>6. \A m \in Nodes \ {dst} : g[m] = h[m]
    BY <1>2, <1>3, SetImplIs
  <1> HIDE DEF g
  <1>7. op = "insert" => slot \notin DOMAIN KidsOf(g, into)
    BY <1>6, LiveNodes DEF KidsOf
  <1>8. Len(j.work) = 0 /\ j.cur[2] = dst
    BY <1>4
  <1>. QED BY <1>1, <1>4, <1>5, <1>7, <1>8 DEF LeakInv, Running

-----------------------------------------------------------------------------
(* Operations that complete at once.                                        *)

LEMMA MoveStorageOwned ==
  ASSUME NEW h, IsHeap(h), T1 \notin Live(h), NEW n \in Live(h), NEW v \in Live(h), Owned(h, {})
  PROVE  IsHeap(MoveStorage(h, n, v)) /\ Owned(MoveStorage(h, n, v), {})
  <1> DEFINE made == MakeNode(h, T1, h[n].alloc)
             adopted == swapStorage(made, T1, v)
             moved == swapStorage(adopted, n, T1)
  <1>1. T1 \in Nodes \ Live(h) /\ n # T1 /\ v # T1 /\ T1 \notin Pool
    BY NodesAssumption DEF Temps, Nodes
  <1>2. Sprouts(made, h, T1, h[n].alloc, NullImpl)
    BY <1>1, MakeNodeSprouts
  <1> HIDE DEF made
  <1>3. Owned(made, {T1}) /\ IsHeap(made) /\ Live(made) = Live(h) \cup {T1}
    <2>1. Owned(made, {} \cup {T1})
      BY <1>1, <1>2, SproutOwned
    <2>. QED BY <1>2, <2>1 DEF Sprouts
  <1>4. IsHeap(adopted) /\ Owned(adopted, {T1}) /\ Live(adopted) = Live(made)
    BY <1>1, <1>3, SwapOwned
  <1> HIDE DEF adopted
  <1>5. IsHeap(moved) /\ Owned(moved, {T1}) /\ Live(moved) = Live(made)
    BY <1>1, <1>3, <1>4, SwapOwned
  <1> HIDE DEF moved
  <1>6. IsHeap(destroyNode(moved, T1)) /\ Owned(destroyNode(moved, T1), {T1} \ {T1})
    BY <1>3, <1>5, DestroyOwned
  <1>. QED BY <1>6 DEF MoveStorage, moved, adopted, made

LEMMA SubscriptKeyOwned ==
  ASSUME DomInv, LeakInv, ~Running, NEW n \in Live(heap), NEW k, SubscriptKey(n, k)
  PROVE  LeakInv'
  <1> DEFINE c == Fresh(heap)
             into == InTo(n, "object")
             g == MakeNode(WithInTo(heap, n, "object"), c, heap[n].alloc)
             h == Attach(g, into, k, c)
  <1>1. Forest(heap) /\ T1 \notin Live(heap) /\ IsHeap(heap) /\ Owned(heap, {})
    BY IdleOwned
  <1>2. CASE TypeOf(heap, n) = "object" /\ k \in DOMAIN KidsOf(heap, n)
    BY <1>1, <1>2, ReturnsOwned DEF SubscriptKey
  <1>3. CASE ~(TypeOf(heap, n) = "object" /\ k \in DOMAIN KidsOf(heap, n))
    <2>1. HasRoom(heap) /\ Return(Publish(h, n, into), "ok")
      BY <1>3 DEF SubscriptKey
    <2>2. Ready(g, n, "object", into, c)
      BY <1>1, <2>1, InsertionIsReady
    <2> HIDE DEF g, into, c
    <2>3. /\ IsHeap(g) /\ Owned(g, {c}) /\ n \in Live(g) /\ into \in Live(g)
          /\ k \notin DOMAIN KidsOf(g, into)
      BY <1>1, <1>3, <2>2, ReadyOwned, ReadySlots
    <2>4. IsHeap(h) /\ Owned(h, {c} \ {c}) /\ Live(h) = Live(g)
      BY <2>3, AttachOwned
    <2> HIDE DEF h
    <2>5. IsHeap(Publish(h, n, into)) /\ Owned(Publish(h, n, into), {})
      BY <2>3, <2>4, PublishOwned
    <2>. QED BY <2>1, <2>5, ReturnsOwned
  <1>. QED BY <1>2, <1>3

LEMMA EraseOwned ==
  ASSUME DomInv, LeakInv, ~Running, NEW n \in Live(heap), NEW s, erase(n, s)
  PROVE  LeakInv'
  <1> DEFINE kids == KidsOf(heap, n)
             rest == IF TypeOf(heap, n) = "array" THEN DropIndex(kids, s) ELSE DropKey(kids, s)
  <1>1. /\ Forest(heap) /\ IsHeap(heap) /\ Owned(heap, {})
        /\ s \in DOMAIN kids /\ kids[s] \in Live(heap)
    BY IdleOwned, SubtreeOfKid DEF erase, Kids
  <1>2. \A m \in Kids(heap, n) : m # kids[s] => m \in {rest[i] : i \in DOMAIN rest}
    <2> SUFFICES ASSUME NEW t \in DOMAIN kids, t # s PROVE \E i \in DOMAIN rest : rest[i] = kids[t]
      BY DEF Kids
    <2>1. CASE TypeOf(heap, n) = "array"
      <3>1. kids \in Seq(Pool) /\ Len(kids) \in Nat /\ s \in 1..Len(kids) /\ t \in 1..Len(kids)
        BY <1>1, <2>1, ArrayIsSequence
      <3>2. rest = [i \in 1..(Len(kids) - 1) |-> IF i < s THEN kids[i] ELSE kids[i + 1]]
        BY <2>1 DEF DropIndex
      <3>3. CASE t < s
        <4>1. t \in DOMAIN rest /\ rest[t] = kids[t]
          BY <3>1, <3>2, <3>3
        <4>. QED BY <4>1
      <3>4. CASE t > s
        <4>1. t - 1 \in DOMAIN rest /\ rest[t - 1] = kids[(t - 1) + 1] /\ (t - 1) + 1 = t
          BY <3>1, <3>2, <3>4
        <4>. QED BY <4>1
      <3>. QED BY <3>1, <3>3, <3>4
    <2>2. CASE TypeOf(heap, n) # "array"
      BY <2>2 DEF DropKey
    <2>. QED BY <2>1, <2>2
  <1> HIDE DEF rest
  <1>3. LET g == SetKids(destroyNode(heap, kids[s]), n, rest)
        IN  IsHeap(g) /\ Owned(g, {} \ {kids[s]})
    BY <1>1, <1>2, UnhookOwned
  <1>4. LET g == SetKids(destroyNode(heap, kids[s]), n, rest) IN IsHeap(g) /\ Owned(g, {})
    BY <1>3
  <1>. QED BY <1>4, ReturnsOwned DEF erase, rest

LEMMA RetypeOwned ==
  ASSUME NEW h, IsHeap(h), NEW n \in Live(h), NEW t, Owned(h, {})
  PROVE  /\ IsHeap(ReplaceImpl(h, n, EmptyImpl(h[n].alloc, t)))
         /\ Owned(ReplaceImpl(h, n, EmptyImpl(h[n].alloc, t)), {})
         /\ IsHeap(resetIfNeeded(h, n, t)) /\ Owned(resetIfNeeded(h, n, t), {})
  <1>1. IsImpl(EmptyImpl(h[n].alloc, t))
    BY EmptyImplIs DEF IsEmptyImpl
  <1>2. /\ IsHeap(ReplaceImpl(h, n, EmptyImpl(h[n].alloc, t)))
        /\ Owned(ReplaceImpl(h, n, EmptyImpl(h[n].alloc, t)), {})
    BY <1>1, ReplaceOwned
  <1>. QED BY <1>2 DEF resetIfNeeded

LEMMA PayloadOwned ==
  ASSUME NEW h, IsHeap(h), NEW n \in Nodes, NEW p, Owned(h, {})
  PROVE  LET g == [h EXCEPT ![n].impl.val = p] IN IsHeap(g) /\ Owned(g, {})
  <1> DEFINE g == [h EXCEPT ![n].impl.val = p]
  <1>1. IsHeap(g) /\ Live(g) = Live(h) /\ \A m \in Nodes : g[m].impl.kids = h[m].impl.kids
    BY DEF IsHeap, CellFields, ImplFields, Live
  <1> HIDE DEF g
  <1>2. \A m \in Nodes : Kids(g, m) = Kids(h, m)
    BY <1>1 DEF Kids, KidsOf
  <1>3. Owned(g, {})
    BY <1>1, <1>2, LiveNodes DEF Owned, HasOwner
  <1>. QED BY <1>1, <1>3 DEF g

LEMMA ClearOwned ==
  ASSUME NEW h, IsHeap(h), NEW n \in Live(h), NEW X, Owned(h, X)
  PROVE  LET g == SetKids(disposeChildren(h, n), n, EmptyKids) IN IsHeap(g) /\ Owned(g, X)
  <1> DEFINE d == disposeChildren(h, n)
             g == SetKids(d, n, EmptyKids)
  <1>1. n \in Nodes
    BY LiveNodes
  <1>2. /\ IsHeap(d) /\ Live(d) = Live(h) \ Below(h, Kids(h, n))
        /\ \A m \in Live(d) : d[m] = h[m]
    BY <1>1, DisposeIs
  <1> HIDE DEF d
  <1>3. IsHeap(g) /\ Live(g) = Live(d) /\ \A m \in Nodes \ {n} : g[m] = d[m]
    BY <1>1, <1>2, SetKidsIs
  <1> HIDE DEF g
  <1>4. Owned(g, X)
    BY <1>2, <1>3, DropOwned, LiveNodes
  <1>. QED BY <1>3, <1>4 DEF g, d

LEMMA AtomicOwned ==
  ASSUME DomInv, LeakInv, AtomicOp
  PROVE  LeakInv'
  <1>1. CASE Throws
    BY <1>1, IdleOwned, ReturnsOwned DEF Throws
  <1>2. ASSUME NEW n \in Nodes, ~Running, Usable(n)
        PROVE  /\ reset(n) => LeakInv'
               /\ clear(n) => LeakInv'
               /\ \A t \in Types : resetTo(n, t) => LeakInv'
               /\ \A t \in ScalarTypes, p \in Payloads : AssignScalar(n, t, p) => LeakInv'
               /\ \A s \in Keys \cup 1..MaxLen : erase(n, s) => LeakInv'
               /\ reserve(n) => LeakInv'
               /\ \A k \in Keys : SubscriptKey(n, k) => LeakInv'
               /\ \A v \in Nodes : Usable(v) /\ swap(n, v) => LeakInv'
    <2>1. n \in Live(heap) /\ IsHeap(heap) /\ Owned(heap, {})
      BY <1>2, IdleOwned DEF Usable, Live
    <2>2. IsHeap(ResetNode(heap, n)) /\ Owned(ResetNode(heap, n), {})
      BY <2>1, ResetOwned
    <2>3. ASSUME clear(n) PROVE LeakInv'
      <3>1. LET g == SetKids(disposeChildren(heap, n), n, EmptyKids) IN IsHeap(g) /\ Owned(g, {})
        BY <2>1, ClearOwned
      <3>. QED BY <2>2, <2>3, <3>1, ReturnsOwned DEF clear
    <2>4. ASSUME NEW t \in Types, resetTo(n, t) PROVE LeakInv'
      BY <2>1, <2>4, RetypeOwned, ReturnsOwned DEF resetTo
    <2>5. ASSUME NEW t \in ScalarTypes, NEW p \in Payloads, AssignScalar(n, t, p) PROVE LeakInv'
      <3> DEFINE typed == resetIfNeeded(heap, n, t)
      <3>1. IsHeap(typed) /\ Owned(typed, {})
        BY <2>1, RetypeOwned
      <3> HIDE DEF typed
      <3>2. LET g == [typed EXCEPT ![n].impl.val = p] IN IsHeap(g) /\ Owned(g, {})
        BY <3>1, PayloadOwned
      <3>. QED BY <2>5, <3>1, <3>2, ReturnsOwned DEF AssignScalar, typed
    <2>6. ASSUME reserve(n) PROVE LeakInv'
      BY <2>1, <2>6, RetypeOwned, ReturnsOwned DEF reserve, Reserved
    <2>7. ASSUME NEW v \in Nodes, Usable(v), swap(n, v) PROVE LeakInv'
      <3>1. PICK can : Return(IF n # v /\ can THEN swapStorage(heap, n, v) ELSE heap, "ok")
        BY <2>7 DEF swap
      <3>2. n # v => IsHeap(swapStorage(heap, n, v)) /\ Owned(swapStorage(heap, n, v), {})
        BY <2>1, <2>7, SwapOwned DEF Usable, Live
      <3>3. CASE n # v /\ can
        BY <3>1, <3>2, <3>3, ReturnsOwned
      <3>4. CASE ~(n # v /\ can)
        BY <2>1, <3>1, <3>4, ReturnsOwned
      <3>. QED BY <3>3, <3>4
    <2>. QED BY <1>2, <2>1, <2>2, <2>3, <2>4, <2>5, <2>6, <2>7, ReturnsOwned,
             EraseOwned, SubscriptKeyOwned DEF reset
  <1>3. ASSUME NEW r \in Roots, ~Running, NEW a \in Allocs, Construct(r, a) PROVE LeakInv'
    <2>1. r \in Nodes \ Live(heap) /\ r \notin Pool /\ IsHeap(heap) /\ Owned(heap, {})
      BY <1>3, IdleOwned, NodesAssumption DEF Construct, Live, Nodes
    <2>2. Sprouts(MakeNode(heap, r, a), heap, r, a, NullImpl)
      BY <2>1, MakeNodeSprouts
    <2>3. IsHeap(MakeNode(heap, r, a)) /\ Owned(MakeNode(heap, r, a), {} \cup {r})
      BY <2>1, <2>2, SproutOwned DEF Sprouts
    <2>4. Owned(MakeNode(heap, r, a), {})
      BY <2>1, <2>3 DEF Owned
    <2>. QED BY <1>3, <2>3, <2>4, ReturnsOwned DEF Construct, MakeNode
  <1>4. ASSUME NEW r \in Roots, ~Running, Destruct(r) PROVE LeakInv'
    <2>1. r \in Live(heap) /\ IsHeap(heap) /\ Owned(heap, {})
      BY <1>4, IdleOwned DEF Destruct, Live, Nodes
    <2>2. IsHeap(destroyNode(heap, r)) /\ Owned(destroyNode(heap, r), {} \ {r})
      BY <2>1, DestroyOwned
    <2>3. Owned(destroyNode(heap, r), {})
      BY <2>2
    <2>. QED BY <1>4, <2>2, <2>3, ReturnsOwned DEF Destruct
  <1>. QED BY <1>1, <1>2, <1>3, <1>4 DEF AtomicOp

-----------------------------------------------------------------------------
(* Copies and growth begin.                                                 *)

LEMMA TempStartsOwned ==
  ASSUME DomInv, LeakInv, ~Running, NEW n \in Live(heap), NEW v \in Live(heap),
         NEW op \in AssignOps \cup {"insertSnapshot"}, NEW slot,
         NEW t, t = IF op = "insertSnapshot" THEN T2 ELSE T1,
         StartCopy(MakeNode(heap, t, heap[n].alloc), op, n, v, slot, None, None, t)
  PROVE  LeakInv'
  <1> DEFINE g == MakeNode(heap, t, heap[n].alloc)
  <1>1. IsHeap(heap) /\ Owned(heap, {}) /\ Forest(heap) /\ T1 \notin Live(heap) /\ T2 \notin Live(heap)
    BY IdleOwned
  <1>2. t \in Nodes \ Live(heap) /\ t \notin Pool
    BY <1>1, NodesAssumption DEF Nodes, Temps
  <1>3. Sprouts(g, heap, t, heap[n].alloc, NullImpl)
    BY <1>1, <1>2, MakeNodeSprouts
  <1>4. Owned(g, {} \cup {t})
    BY <1>1, <1>2, <1>3, SproutOwned
  <1>5. Owned(g, {None}) /\ Kids(g, t) = {} /\ IsHeap(g) /\ t \in Live(g)
    BY <1>2, <1>3, <1>4, NullImplIs DEF Owned, Sprouts, Kids, KidsOf
  <1> HIDE DEF g
  <1>6. op \notin {"idle", "grow", "insert"}
    BY DEF AssignOps
  <1>. QED BY <1>5, <1>6, StartsOwned DEF g

LEMMA ConstructStartsOwned ==
  ASSUME DomInv, LeakInv, ~Running, NEW r \in Roots, ~heap[r].live, NEW v, NEW a,
         NEW op \in ConstructOps,
         StartCopy([heap EXCEPT ![r] = NullNode(a)], op, r, v, None, r, None, r)
  PROVE  LeakInv'
  <1> DEFINE g == [heap EXCEPT ![r] = NullNode(a)]
  <1>1. IsHeap(heap) /\ Owned(heap, {}) /\ r \in Nodes \ Live(heap) /\ r \notin Pool
    BY IdleOwned, NodesAssumption DEF Nodes, Live
  <1>2. Sprouts(g, heap, r, a, NullImpl)
    BY <1>1, MakeNodeSprouts DEF MakeNode
  <1>3. Owned(g, {} \cup {r})
    BY <1>1, <1>2, SproutOwned
  <1>4. Owned(g, {None}) /\ Kids(g, r) = {} /\ IsHeap(g) /\ r \in Live(g)
    BY <1>1, <1>2, <1>3, NullImplIs DEF Owned, Sprouts, Kids, KidsOf
  <1> HIDE DEF g
  <1>5. op \notin {"idle", "grow", "insert"}
    BY DEF ConstructOps
  <1>. QED BY <1>4, <1>5, StartsOwned DEF g

LEMMA CopyFromOwned ==
  ASSUME DomInv, LeakInv, ~Running, NEW n \in Live(heap), NEW v \in Live(heap), copyFrom(n, v)
  PROVE  LeakInv'
  <1>1. CASE n = v
    BY <1>1, IdleOwned, ReturnsOwned DEF copyFrom
  <1>2. CASE n # v
    BY <1>2, TempStartsOwned DEF copyFrom, AssignOps
  <1>. QED BY <1>1, <1>2

LEMMA MoveAssignOwned ==
  ASSUME DomInv, LeakInv, ~Running, NEW n \in Live(heap), NEW v \in Live(heap), MoveAssign(n, v)
  PROVE  LeakInv'
  <1>1. CASE n = v
    BY <1>1, IdleOwned, ReturnsOwned DEF MoveAssign
  <1>2. CASE n # v
    <2>1. \/ copyFrom(n, v)
          \/ Return(MoveStorage(heap, n, v), "ok")
          \/ StartCopy(MakeNode(heap, T1, heap[n].alloc), "moveAssign", n, v, None, None, None, T1)
      BY <1>2 DEF MoveAssign
    <2>2. CASE Return(MoveStorage(heap, n, v), "ok")
      BY <2>2, IdleOwned, MoveStorageOwned, ReturnsOwned
    <2>. QED BY <2>1, <2>2, CopyFromOwned, TempStartsOwned DEF AssignOps
  <1>. QED BY <1>1, <1>2

LEMMA InsertStartsOwned ==
  ASSUME DomInv, LeakInv, ~Running, NEW n \in Live(heap), NEW v, NEW slot, NEW t, NEW into, NEW c,
         NEW g, Ready(g, n, t, into, c), NEW op \in PushOps \cup {"insert"},
         op = "insert" => t = "object" /\ ~HasMember(n, slot),
         StartCopy(g, op, n, v, slot, into, c, c)
  PROVE  LeakInv'
  <1>1. Owned(heap, {})
    BY IdleOwned
  <1>2. /\ IsHeap(g) /\ Owned(g, {c}) /\ into \in Live(g) /\ c \in Live(g) /\ into # c
        /\ Kids(g, c) = {}
    BY <1>1, ReadyOwned
  <1>3. op = "insert" => slot \notin DOMAIN KidsOf(g, into)
    BY ReadySlots DEF HasMember
  <1>4. op \notin {"idle", "grow"} \cup ConstructOps /\ c \in Pool
    BY DEF PushOps, ConstructOps, Ready
  <1>. QED BY <1>2, <1>3, <1>4, StartsOwned

LEMMA PushBackCopyOwned ==
  ASSUME DomInv, LeakInv, ~Running, NEW n \in Live(heap), NEW v \in Live(heap), PushBackCopy(n, v)
  PROVE  LeakInv'
  <1>1. Forest(heap) /\ T1 \notin Live(heap) /\ HasRoom(heap)
    BY IdleOwned DEF PushBackCopy
  <1>2. Ready(MakeNode(WithInTo(heap, n, "array"), Fresh(heap), heap[n].alloc),
              n, "array", InTo(n, "array"), Fresh(heap))
    BY <1>1, InsertionIsReady
  <1>. QED BY <1>2, InsertStartsOwned DEF PushBackCopy, PushOps

\* Storage goes to the child before or after the child is attached.
LEMMA AdoptOwned ==
  ASSUME NEW g, IsHeap(g), NEW n \in Live(g), NEW into \in Live(g), NEW c \in Live(g),
         NEW v \in Live(g), c # v, into # c, Owned(g, {c}),
         NEW s, s \notin DOMAIN KidsOf(g, into)
  PROVE  /\ LET h == Publish(swapStorage(Attach(g, into, s, c), c, v), n, into)
            IN  IsHeap(h) /\ Owned(h, {})
         /\ (into # v) =>
               LET h == Publish(Attach(swapStorage(g, c, v), into, s, c), n, into)
               IN  IsHeap(h) /\ Owned(h, {})
  <1> DEFINE a == Attach(g, into, s, c)
             b == swapStorage(g, c, v)
  <1>1. IsHeap(a) /\ Owned(a, {c} \ {c}) /\ Live(a) = Live(g)
    BY AttachOwned
  <1>2. IsHeap(b) /\ Owned(b, {c}) /\ Live(b) = Live(g)
    BY SwapOwned
  <1>3. into # v => KidsOf(b, into) = KidsOf(g, into)
    BY SwapIs, LiveNodes DEF KidsOf
  <1> HIDE DEF a, b
  <1>4. LET h == Publish(swapStorage(a, c, v), n, into) IN IsHeap(h) /\ Owned(h, {})
    <2>1. LET h == swapStorage(a, c, v) IN IsHeap(h) /\ Owned(h, {}) /\ Live(h) = Live(g)
      BY <1>1, SwapOwned
    <2>. QED BY <2>1, PublishOwned
  <1>5. ASSUME into # v
        PROVE  LET h == Publish(Attach(b, into, s, c), n, into) IN IsHeap(h) /\ Owned(h, {})
    <2>1. LET h == Attach(b, into, s, c) IN IsHeap(h) /\ Owned(h, {c} \ {c}) /\ Live(h) = Live(g)
      BY <1>2, <1>3, <1>5, AttachOwned
    <2>2. {c} \ {c} = {}
      OBVIOUS
    <2>. QED BY <2>1, <2>2, PublishOwned
  <1>. QED BY <1>4, <1>5 DEF a, b

LEMMA NextIsFree ==
  ASSUME NEW h, Forest(h), NEW n \in Live(h), TypeOf(h, n) = "array"
  PROVE  NextIndex(h, n) \notin DOMAIN KidsOf(h, n)
  <1>1. KidsOf(h, n) \in Seq(Pool)
    BY ArrayIsSequence
  <1>. QED BY <1>1 DEF NextIndex

LEMMA PushBackMoveOwned ==
  ASSUME DomInv, LeakInv, ~Running, NEW n \in Live(heap), NEW v \in Live(heap), PushBackMove(n, v)
  PROVE  LeakInv'
  <1> DEFINE c == Fresh(heap)
             into == InTo(n, "array")
             g == MakeNode(WithInTo(heap, n, "array"), c, heap[n].alloc)
  <1>1. PICK overlap \in containsNode(heap, v, n) :
           IF overlap THEN PushBackCopy(n, v)
           ELSE /\ HasRoom(heap)
                /\ IF heap[n].alloc = heap[v].alloc
                   THEN Return(Publish(Attach(swapStorage(g, c, v), into,
                                              NextIndex(g, into), c), n, into), "ok")
                   ELSE StartCopy(g, "pushBackMove", n, v, None, into, c, c)
    BY DEF PushBackMove
  <1>2. CASE overlap
    BY <1>1, <1>2, PushBackCopyOwned
  <1>3. CASE ~overlap
    <2>1. Forest(heap) /\ T1 \notin Live(heap) /\ HasRoom(heap) /\ Owned(heap, {})
      BY <1>1, <1>3, IdleOwned
    <2>2. n \notin Subtree(heap, v) /\ v \in Subtree(heap, v)
      BY <1>3, <2>1, NoOverlap, SubtreeIsClosed
    <2>3. Ready(g, n, "array", into, c)
      BY <2>1, InsertionIsReady
    <2> HIDE DEF g, into, c
    <2>4. /\ IsHeap(g) /\ Owned(g, {c}) /\ n \in Live(g) /\ into \in Live(g) /\ c \in Live(g)
          /\ into # c
      BY <2>1, <2>3, ReadyOwned
    <2>5. /\ Forest(g) /\ TypeOf(g, into) = "array" /\ v \in Live(g) /\ c # v /\ into # v
      BY <2>1, <2>2, <2>3 DEF Ready
    <2>6. NextIndex(g, into) \notin DOMAIN KidsOf(g, into)
      BY <2>4, <2>5, NextIsFree
    <2>7. CASE heap[n].alloc = heap[v].alloc
      <3>1. LET h == Publish(Attach(swapStorage(g, c, v), into, NextIndex(g, into), c), n, into)
            IN  IsHeap(h) /\ Owned(h, {})
        BY <2>4, <2>5, <2>6, AdoptOwned
      <3>. QED BY <1>1, <1>3, <2>7, <3>1, ReturnsOwned
    <2>8. CASE heap[n].alloc # heap[v].alloc
      BY <1>1, <1>3, <2>3, <2>8, InsertStartsOwned DEF PushOps
    <2>. QED BY <2>7, <2>8
  <1>. QED BY <1>2, <1>3

LEMMA InsertCopyOwned ==
  ASSUME DomInv, LeakInv, ~Running, NEW n \in Live(heap), NEW v \in Live(heap), NEW k,
         InsertCopy(n, k, v)
  PROVE  LeakInv'
  <1> DEFINE c == Fresh(heap)
             into == InTo(n, "object")
             g == MakeNode(WithInTo(heap, n, "object"), c, heap[n].alloc)
  <1>1. Forest(heap) /\ T1 \notin Live(heap)
    BY IdleOwned
  <1>2. CASE Snapshot(n, k, v)
    BY <1>2, TempStartsOwned DEF Snapshot
  <1>3. CASE HasMember(n, k) /\ copyFrom(KidsOf(heap, n)[k], v)
    BY <1>1, <1>3, MemberIsLive, CopyFromOwned
  <1>4. CASE ~HasMember(n, k) /\ HasRoom(heap) /\ StartCopy(g, "insert", n, v, k, into, c, c)
    <2>1. Ready(g, n, "object", into, c)
      BY <1>1, <1>4, InsertionIsReady
    <2> HIDE DEF g, into, c
    <2>. QED BY <1>4, <2>1, InsertStartsOwned
  <1>. QED BY <1>2, <1>3, <1>4 DEF InsertCopy

LEMMA InsertMoveOwned ==
  ASSUME DomInv, LeakInv, ~Running, NEW n \in Live(heap), NEW v \in Live(heap), NEW k,
         InsertMove(n, k, v)
  PROVE  LeakInv'
  <1> DEFINE c == Fresh(heap)
             into == InTo(n, "object")
             g == MakeNode(WithInTo(heap, n, "object"), c, heap[n].alloc)
             h == Attach(g, into, k, c)
  <1>1. Forest(heap) /\ T1 \notin Live(heap) /\ Owned(heap, {})
    BY IdleOwned
  <1>2. \/ Snapshot(n, k, v)
        \/ HasMember(n, k) /\ MoveAssign(KidsOf(heap, n)[k], v)
        \/ /\ ~HasMember(n, k) /\ HasRoom(heap)
           /\ \/ Return(Publish(swapStorage(h, c, v), n, into), "ok")
              \/ StartCopy(h, "insertMove", n, v, k, into, c, c)
    BY DEF InsertMove
  <1>3. CASE Snapshot(n, k, v)
    BY <1>3, TempStartsOwned DEF Snapshot
  <1>4. CASE HasMember(n, k) /\ MoveAssign(KidsOf(heap, n)[k], v)
    BY <1>1, <1>4, MemberIsLive, MoveAssignOwned
  <1>5. CASE /\ ~HasMember(n, k) /\ HasRoom(heap)
             /\ \/ Return(Publish(swapStorage(h, c, v), n, into), "ok")
                \/ StartCopy(h, "insertMove", n, v, k, into, c, c)
    <2>1. Ready(g, n, "object", into, c)
      BY <1>1, <1>5, InsertionIsReady
    <2> HIDE DEF g, into, c
    <2>2. /\ IsHeap(g) /\ Owned(g, {c}) /\ n \in Live(g) /\ into \in Live(g) /\ c \in Live(g)
          /\ into # c /\ Kids(g, c) = {}
      BY <1>1, <2>1, ReadyOwned
    <2>3. v \in Live(g) /\ c # v /\ k \notin DOMAIN KidsOf(g, into)
      BY <1>5, <2>1, ReadySlots DEF Ready, HasMember
    <2>4. LET r == Publish(swapStorage(h, c, v), n, into) IN IsHeap(r) /\ Owned(r, {})
      BY <2>2, <2>3, AdoptOwned
    <2>5. IsHeap(h) /\ Owned(h, {c} \ {c}) /\ Live(h) = Live(g) /\ Kids(h, c) = {}
      <3>1. IsHeap(h) /\ Owned(h, {c} \ {c}) /\ Live(h) = Live(g)
        BY <2>2, <2>3, AttachOwned
      <3>2. h[c] = g[c]
        BY <2>2, SetKidsIs, LiveNodes DEF Attach
      <3>. QED BY <2>2, <3>1, <3>2 DEF Kids, KidsOf
    <2> HIDE DEF h
    <2>6. CASE StartCopy(h, "insertMove", n, v, k, into, c, c)
      <3>1. Owned(h, {c})
        BY <2>5 DEF Owned
      <3>. QED BY <2>2, <2>5, <2>6, <3>1, StartsOwned DEF ConstructOps
    <2>. QED BY <1>5, <2>4, <2>6, ReturnsOwned
  <1>. QED BY <1>2, <1>3, <1>4, <1>5

LEMMA ConstructMoveOwned ==
  ASSUME DomInv, LeakInv, ~Running, NEW r \in Roots, NEW v \in Live(heap), NEW a,
         ConstructMove(r, v, a)
  PROVE  LeakInv'
  <1> DEFINE g == [heap EXCEPT ![r] = NullNode(a)]
  <1>1. IsHeap(heap) /\ Owned(heap, {}) /\ r \in Nodes \ Live(heap) /\ r \notin Pool /\ ~heap[r].live
    BY IdleOwned, NodesAssumption DEF Nodes, Live, ConstructMove
  <1>2. \/ Return(swapStorage(g, r, v), "ok")
        \/ StartCopy(g, "constructMove", r, v, None, r, None, r)
    BY DEF ConstructMove
  <1>3. CASE Return(swapStorage(g, r, v), "ok")
    <2>1. Sprouts(g, heap, r, a, NullImpl)
      BY <1>1, MakeNodeSprouts DEF MakeNode
    <2> HIDE DEF g
    <2>2. Owned(g, {} \cup {r}) /\ IsHeap(g) /\ r \in Live(g) /\ v \in Live(g) /\ r # v
      BY <1>1, <2>1, SproutOwned DEF Sprouts
    <2>3. Owned(g, {})
      BY <1>1, <2>2 DEF Owned
    <2>4. IsHeap(swapStorage(g, r, v)) /\ Owned(swapStorage(g, r, v), {})
      BY <2>2, <2>3, SwapOwned
    <2>. QED BY <1>3, <2>4, ReturnsOwned
  <1>. QED BY <1>1, <1>2, <1>3, ConstructStartsOwned DEF ConstructOps

LEMMA CopyOpOwned ==
  ASSUME DomInv, LeakInv, CopyOp
  PROVE  LeakInv'
  <1>1. PICK v \in Nodes :
        /\ ~Running /\ Usable(v)
        /\ \/ \E n \in Nodes :
               /\ Usable(n)
               /\ \/ copyFrom(n, v)
                  \/ MoveAssign(n, v)
                  \/ PushBackCopy(n, v)
                  \/ PushBackMove(n, v)
                  \/ \E k \in Keys : InsertCopy(n, k, v) \/ InsertMove(n, k, v)
           \/ \E r \in Roots, a \in Allocs : ConstructCopy(r, v, a) \/ ConstructMove(r, v, a)
    BY DEF CopyOp
  <1>2. v \in Live(heap) /\ \A n \in Nodes : Usable(n) => n \in Live(heap)
    BY <1>1 DEF Usable, Live
  <1>3. ASSUME NEW r \in Roots, NEW a \in Allocs, ConstructCopy(r, v, a) PROVE LeakInv'
    BY <1>1, <1>3, ConstructStartsOwned DEF ConstructCopy, ConstructOps
  <1>. QED BY <1>1, <1>2, <1>3, CopyFromOwned, MoveAssignOwned, PushBackCopyOwned,
           PushBackMoveOwned, InsertCopyOwned, InsertMoveOwned, ConstructMoveOwned

LEMMA GrowthStartsOwned ==
  ASSUME DomInv, LeakInv, ~Running, NEW n \in Live(heap), NEW into, NEW g,
         FillsIn(g, n, "array", into), NEW want, NEW fill, StartGrow(n, into, g, want, fill)
  PROVE  LeakInv'
  <1>1. Owned(g, {})
    BY IdleOwned, FillsInOwned
  <1>2. heap' = g /\ job'.op = "grow" /\ job'.own = None
    BY DEF StartGrow, GrowJob, Idle
  <1>3. Owned(heap', {None})
    BY <1>1, <1>2 DEF Owned
  <1>. QED BY <1>2, <1>3 DEF LeakInv

LEMMA GrowOpOwned ==
  ASSUME DomInv, LeakInv, GrowOp
  PROVE  LeakInv'
  <1>1. PICK n \in Nodes :
        /\ ~Running /\ Usable(n)
        /\ \/ \E i \in 0..MaxLen \cup {SizeMax} : SubscriptIndex(n, i)
           \/ \E t \in ScalarTypes, count \in 0..MaxLen :
               AppendVector(n, count, t) \/ AssignVector(n, count, t)
    BY DEF GrowOp
  <1>2. n \in Live(heap) /\ Forest(heap) /\ T1 \notin Live(heap) /\ IsHeap(heap) /\ Owned(heap, {})
    BY <1>1, IdleOwned DEF Usable, Live
  <1>3. FillsIn(WithInTo(heap, n, "array"), n, "array", InTo(n, "array"))
    BY <1>2, WithInToFillsIn
  <1>4. ASSUME NEW i \in 0..MaxLen \cup {SizeMax}, SubscriptIndex(n, i) PROVE LeakInv'
    <2>1. CASE \E r : Return(heap, r)
      BY <1>2, <2>1, ReturnsOwned
    <2>2. CASE \E want : StartGrow(n, InTo(n, "array"), WithInTo(heap, n, "array"), want, "null")
      BY <1>1, <1>2, <1>3, <2>2, GrowthStartsOwned
    <2>. QED BY <1>4, <2>1, <2>2 DEF SubscriptIndex
  <1>5. ASSUME NEW t \in ScalarTypes, NEW count \in 0..MaxLen, AppendVector(n, count, t) PROVE LeakInv'
    BY <1>1, <1>2, <1>3, <1>5, GrowthStartsOwned DEF AppendVector
  <1>6. ASSUME NEW t \in ScalarTypes, NEW count \in 0..MaxLen, AssignVector(n, count, t) PROVE LeakInv'
    BY <1>1, <1>2, <1>6, ReplacementFillsIn, GrowthStartsOwned DEF AssignVector
  <1>. QED BY <1>1, <1>4, <1>5, <1>6

-----------------------------------------------------------------------------
(* Steps of a job, and failures.                                            *)

LEMMA CopyChildOwned ==
  ASSUME DomInv, LeakInv, NEW s, CopyChild(s)
  PROVE  LeakInv'
  <1> DEFINE p == job.cur[1]
             d == job.cur[2]
             e == KidsOf(heap, p)[s]
             c == Fresh(heap)
             a == heap[d].alloc
             made == MakeNode(heap, c, a)
             i == [EmptyImpl(made[c].alloc, TypeOf(made, e)) EXCEPT !.val = made[e].impl.val]
             k == SetImpl(made, c, i)
  <1>1. /\ Forest(heap) /\ IsHeap(heap) /\ Running /\ job.op # "grow" /\ HasRoom(heap)
        /\ JobFields \subseteq DOMAIN job
        /\ s \notin DOMAIN KidsOf(heap, d) /\ d \in Live(heap) /\ d \in New(heap, job)
        /\ job.work \in Seq(Nodes \X Nodes) /\ p \in Live(heap)
    BY CopyingHolds DEF CopyChild, CopySlots, Copying, CopyInv, IsItem, New, Forest
  <1>2. c \in Pool \ Live(heap) /\ c \in Nodes
    BY <1>1, FreshIsDead
  <1>3. e \in Live(heap)
    BY <1>1 DEF CopyChild, CopySlots, Forest, IsCell, Kids
  <1>4. heap' = Attach(k, d, s, c)
    BY DEF CopyChild, ShallowCopy
  <1>5. job' = IF TypeOf(heap, e) \in ContainerTypes
               THEN [job EXCEPT !.work = Append(@, <<e, c>>)] ELSE job
    BY DEF CopyChild
  <1>6. IsImpl(i)
    BY EmptyImplIs DEF IsEmptyImpl
  <1> HIDE DEF p, d, e, c, i
  <1>7. Sprouts(k, heap, c, a, i)
    BY <1>1, <1>2, <1>6, DressedSprouts
  <1> HIDE DEF made, k
  <1>8. Owned(k, {job.own} \cup {c})
    BY <1>2, <1>7, SproutOwned DEF LeakInv
  <1>9. /\ IsHeap(k) /\ d \in Live(k) /\ d # c
        /\ \A m \in Live(heap) : k[m] = heap[m] /\ KidsOf(k, m) = KidsOf(heap, m)
    BY <1>1, <1>2, <1>7, LiveNodes DEF Sprouts, KidsOf
  <1>10. Owned(heap', ({job.own} \cup {c}) \ {c})
    BY <1>1, <1>4, <1>8, <1>9, AttachOwned
  <1>11. Owned(heap', {job.own})
    BY <1>10 DEF Owned
  <1>12. \A m \in Live(heap) \ {d} : KidsOf(heap', m) = KidsOf(heap, m)
    <2>1. \A m \in Nodes \ {d} : heap'[m] = k[m]
      BY <1>4, <1>9, SetKidsIs, LiveNodes DEF Attach
    <2>. QED BY <1>9, <2>1, LiveNodes DEF KidsOf
  <1>13. /\ job'.op = job.op /\ job'.slot = job.slot /\ job'.into = job.into /\ job'.own = job.own
         /\ job'.cur = job.cur /\ job'.work \in {job.work, Append(job.work, <<e, c>>)}
    BY <1>1, <1>5 DEF JobFields
  <1>14. ASSUME job.op = "insert"
         PROVE  /\ job.slot \notin DOMAIN KidsOf(heap', job.into)
                /\ \A x \in 1..Len(job'.work) : job'.work[x][2] \in Pool
    <2>1. /\ job.n \notin New(heap, job) /\ IntoInv(heap, job, "object")
      BY <1>1, <1>14, InsertionHolds DEF Copying, PushOps, InsertOps
    <2>2. d \in Pool
      BY <1>14 DEF LeakInv, d
    <2>3. job.into # d /\ job.into \in Live(heap)
      BY <1>1, <2>1, <2>2, NodesAssumption DEF IntoInv, Temps
    <2>4. job.slot \notin DOMAIN KidsOf(heap', job.into)
      BY <1>12, <1>14, <2>3 DEF LeakInv
    <2>5. \A x \in 1..Len(job.work) : job.work[x][2] \in Pool
      BY <1>14 DEF LeakInv
    <2>6. CASE job'.work = Append(job.work, <<e, c>>)
      <3>1. <<e, c>> \in Nodes \X Nodes
        BY <1>2, <1>3, LiveNodes
      <3>2. Len(job'.work) = Len(job.work) + 1
            /\ \A x \in 1..Len(job'.work) :
                  job'.work[x] = IF x <= Len(job.work) THEN job.work[x] ELSE <<e, c>>
        BY <1>1, <2>6, <3>1
      <3>3. \A x \in 1..Len(job'.work) : x <= Len(job.work) => x \in 1..Len(job.work)
        BY <1>1
      <3>4. <<e, c>>[2] = c
        OBVIOUS
      <3>. QED BY <1>2, <2>4, <2>5, <3>2, <3>3, <3>4
    <2>. QED BY <1>13, <2>4, <2>5, <2>6
  <1>. QED BY <1>1, <1>11, <1>13, <1>14 DEF LeakInv, Running

LEMMA CopyPopOwned ==
  ASSUME DomInv, LeakInv, CopyPop
  PROVE  LeakInv'
  <1>1. /\ job.work \in Seq(Nodes \X Nodes) /\ JobFields \subseteq DOMAIN job
        /\ job.work # <<>> /\ heap' = heap /\ Running
        /\ job' = [job EXCEPT !.cur = job.work[Len(job.work)],
                              !.work = SubSeq(job.work, 1, Len(job.work) - 1)]
    BY CopyingHolds DEF CopyPop, Copying, CopyInv
  <1>2. /\ job'.op = job.op /\ job'.slot = job.slot /\ job'.into = job.into /\ job'.own = job.own
        /\ job'.cur = job.work[Len(job.work)]
        /\ job'.work = SubSeq(job.work, 1, Len(job.work) - 1)
    BY <1>1 DEF JobFields
  <1>3. Len(job.work) \in 1..Len(job.work)
    BY <1>1
  <1>4. /\ Len(job'.work) = Len(job.work) - 1
        /\ \A x \in 1..Len(job'.work) : x \in 1..Len(job.work) /\ job'.work[x] = job.work[x]
    BY <1>1, <1>2
  <1>. QED BY <1>1, <1>2, <1>3, <1>4 DEF LeakInv, Running

\* At the end of an operation: what it has made and found is where it was.
LEMMA CopiedHolds ==
  ASSUME DomInv, LeakInv, Copying
  PROVE  /\ Forest(heap) /\ IsHeap(heap) /\ Owned(heap, {job.own})
         /\ HandsInv(heap, job) /\ job.n \in Live(heap) /\ job.v \in Live(heap)
  BY CopyingHolds DEF LeakInv, Forest

LEMMA FinishAssignsOwned ==
  ASSUME DomInv, LeakInv, FinishAssign \/ FinishMoveAssign
  PROVE  LeakInv'
  <1>1. Copying /\ job.op \in AssignOps
    BY DEF FinishAssign, FinishMoveAssign, Copied, AssignOps
  <1>2. /\ IsHeap(heap) /\ Owned(heap, {job.own}) /\ HandsInv(heap, job)
        /\ job.n \in Live(heap) /\ job.v \in Live(heap)
    BY <1>1, CopiedHolds
  <1>3. TempInv(heap, job, T1) /\ job.n \in Live(job.snap)
    BY <1>1, <1>2 DEF HandsInv, AssignOps, ConstructOps
  <1>4. T1 \in New(heap, job) /\ T1 \in Live(heap) /\ job.n # T1 /\ Owned(heap, {})
    BY <1>2, <1>3, NoneIsNoNode DEF TempInv, New
  <1>5. CASE FinishAssign
    <2>1. LET g == swapStorage(heap, job.n, T1) IN IsHeap(g) /\ Owned(g, {})
      BY <1>2, <1>4, SwapOwned
    <2>. QED BY <1>5, <2>1, ReturnsOwned DEF FinishAssign
  <1>6. CASE FinishMoveAssign
    <2> DEFINE r == ResetNode(heap, job.v)
    <2>1. job.op = "moveAssign"
      BY <1>6 DEF FinishMoveAssign, Copied
    <2>2. IsHeap(r) /\ Owned(r, {})
      BY <1>2, <1>4, ResetOwned
    <2>3. job.n \in Live(r) /\ T1 \in Live(r)
      BY <1>1, <1>4, <2>1, SourceResets DEF MoveOps
    <2> HIDE DEF r
    <2>4. LET g == swapStorage(r, job.n, T1) IN IsHeap(g) /\ Owned(g, {})
      BY <1>4, <2>2, <2>3, SwapOwned
    <2>. QED BY <1>6, <2>4, ReturnsOwned DEF FinishMoveAssign, r
  <1>. QED BY <1>5, <1>6

LEMMA FinishConstructsOwned ==
  ASSUME DomInv, LeakInv, FinishConstruct \/ FinishConstructMove
  PROVE  LeakInv'
  <1>1. Copying /\ job.op \in ConstructOps
    BY DEF FinishConstruct, FinishConstructMove, Copied, ConstructOps
  <1>2. IsHeap(heap) /\ Owned(heap, {}) /\ job.v \in Live(heap)
    BY <1>1, CopiedHolds, NoneIsNoNode DEF LeakInv
  <1>3. IsHeap(ResetNode(heap, job.v)) /\ Owned(ResetNode(heap, job.v), {})
    BY <1>2, ResetOwned
  <1>. QED BY <1>2, <1>3, ReturnsOwned DEF FinishConstruct, FinishConstructMove

\* The child is attached under a free name, and the container published.
LEMMA AttachPublishOwned ==
  ASSUME NEW h, IsHeap(h), NEW n \in Live(h), NEW into \in Live(h), NEW s, NEW c, Owned(h, {c}),
         s \notin DOMAIN KidsOf(h, into)
  PROVE  LET g == Publish(Attach(h, into, s, c), n, into) IN IsHeap(g) /\ Owned(g, {})
  <1> DEFINE a == Attach(h, into, s, c)
  <1>1. IsHeap(a) /\ Owned(a, {c} \ {c}) /\ Live(a) = Live(h)
    BY AttachOwned
  <1> HIDE DEF a
  <1>2. Owned(a, {})
    BY <1>1 DEF Owned
  <1>3. LET g == Publish(a, n, into) IN IsHeap(g) /\ Owned(g, {})
    BY <1>1, <1>2, PublishOwned
  <1>. QED BY <1>3 DEF a

LEMMA FinishInsertsOwned ==
  ASSUME DomInv, LeakInv, FinishPushBack \/ FinishInsert
  PROVE  LeakInv'
  <1>1. Copying /\ job.op \in {"pushBack", "insert"}
    BY DEF FinishPushBack, FinishInsert, Copied
  <1>2. IsHeap(heap) /\ Owned(heap, {job.own}) /\ job.n \in Live(heap) /\ Forest(heap)
    BY <1>1, CopiedHolds
  <1>3. IntoInv(heap, job, IF job.op \in PushOps THEN "array" ELSE "object")
    BY <1>1, InsertionHolds DEF PushOps, InsertOps
  <1>4. job.into \in Live(heap) /\ (job.op = "pushBack" => TypeOf(heap, job.into) = "array")
    BY <1>3 DEF IntoInv, PushOps
  <1>5. CASE FinishPushBack
    <2>1. NextIndex(heap, job.into) \notin DOMAIN KidsOf(heap, job.into)
      BY <1>2, <1>4, <1>5, NextIsFree DEF FinishPushBack, Copied
    <2>2. LET g == Publish(Attach(heap, job.into, NextIndex(heap, job.into), job.own), job.n, job.into)
          IN  IsHeap(g) /\ Owned(g, {})
      BY <1>2, <1>4, <2>1, AttachPublishOwned
    <2>. QED BY <1>5, <2>2, ReturnsOwned DEF FinishPushBack
  <1>6. CASE FinishInsert
    <2>1. job.slot \notin DOMAIN KidsOf(heap, job.into)
      BY <1>6 DEF FinishInsert, Copied, LeakInv
    <2>2. LET g == Publish(Attach(heap, job.into, job.slot, job.own), job.n, job.into)
          IN  IsHeap(g) /\ Owned(g, {})
      BY <1>2, <1>4, <2>1, AttachPublishOwned
    <2>. QED BY <1>6, <2>2, ReturnsOwned DEF FinishInsert
  <1>. QED BY <1>5, <1>6

\* insertOrAssign(pjson&&) attaches its child before it copies.
LEMMA AttachedIsOwned ==
  ASSUME NEW h, NEW n \in Live(h), NEW s \in DOMAIN KidsOf(h, n), Owned(h, {KidsOf(h, n)[s]})
  PROVE  Owned(h, {})
  BY DEF Owned, HasOwner, Kids

LEMMA FinishInsertMovesOwned ==
  ASSUME DomInv, LeakInv, FinishPushBackMove \/ FinishInsertMove
  PROVE  LeakInv'
  <1> DEFINE g == ResetNode(heap, job.v)
             N == New(heap, job)
  <1>1. Copying /\ job.op \in {"pushBackMove", "insertMove"}
    BY DEF FinishPushBackMove, FinishInsertMove, Copied
  <1>2. IsHeap(heap) /\ Owned(heap, {job.own}) /\ job.v \in Live(heap)
    BY <1>1, CopiedHolds
  <1>3. IntoInv(heap, job, IF job.op \in PushOps THEN "array" ELSE "object") /\ OwnInv(heap, job)
    BY <1>1, InsertionHolds DEF PushOps, InsertOps
  <1>4. IsHeap(g) /\ Owned(g, {job.own})
    BY <1>2, ResetOwned
  <1>5. /\ Forest(g) /\ N \in SUBSET Live(g) /\ job.n \in Live(g) /\ g[job.n] = heap[job.n]
        /\ \A m \in N : g[m] = heap[m]
    BY <1>1, SourceResets DEF MoveOps
  <1> HIDE DEF g
  <1>6. job.into \in Live(g) /\ g[job.into] = heap[job.into]
    BY <1>3, <1>5 DEF IntoInv
  <1>7. CASE FinishPushBackMove
    <2>1. TypeOf(g, job.into) = "array"
      BY <1>3, <1>6, <1>7 DEF IntoInv, TypeOf, FinishPushBackMove, Copied, PushOps
    <2>2. NextIndex(g, job.into) \notin DOMAIN KidsOf(g, job.into)
      BY <1>5, <1>6, <2>1, NextIsFree
    <2>3. LET k == Publish(Attach(g, job.into, NextIndex(g, job.into), job.own), job.n, job.into)
          IN  IsHeap(k) /\ Owned(k, {})
      BY <1>4, <1>5, <1>6, <2>2, AttachPublishOwned
    <2>. QED BY <1>7, <2>3, ReturnsOwned DEF FinishPushBackMove, g
  <1>8. CASE FinishInsertMove
    <2>1. job.slot \in DOMAIN KidsOf(g, job.into) /\ KidsOf(g, job.into)[job.slot] = job.own
      BY <1>3, <1>6, <1>8 DEF OwnInv, KidsOf, FinishInsertMove, Copied
    <2>2. Owned(g, {})
      BY <1>4, <1>6, <2>1, AttachedIsOwned
    <2>3. IsHeap(Publish(g, job.n, job.into)) /\ Owned(Publish(g, job.n, job.into), {})
      BY <1>4, <1>5, <1>6, <2>2, PublishOwned
    <2>. QED BY <1>8, <2>3, ReturnsOwned DEF FinishInsertMove, g
  <1>. QED BY <1>7, <1>8

LEMMA FinishSnapshotOwned ==
  ASSUME DomInv, LeakInv, FinishSnapshot
  PROVE  LeakInv'
  <1> DEFINE n == job.n
             c == Fresh(heap)
             into == InTo(n, "object")
             g == MakeNode(WithInTo(heap, n, "object"), c, heap[n].alloc)
  <1>1. Copying /\ job.op = "insertSnapshot"
    BY DEF FinishSnapshot, Copied
  <1>2. /\ Forest(heap) /\ IsHeap(heap) /\ Owned(heap, {job.own}) /\ HandsInv(heap, job)
        /\ n \in Live(heap)
    BY <1>1, CopiedHolds
  <1>3. TempInv(heap, job, T2) /\ T1 \notin Live(heap)
    BY <1>1, <1>2 DEF HandsInv
  <1>4. T2 \in Live(heap) /\ T2 \notin Pool /\ Owned(heap, {})
    BY <1>2, <1>3, NoneIsNoNode, NodesAssumption DEF TempInv, New, Temps
  <1>5. CASE HasMember(n, job.slot)
    <2>1. KidsOf(heap, n)[job.slot] \in Live(heap)
      BY <1>2, <1>5, MemberIsLive
    <2>2. LET h == MoveStorage(heap, KidsOf(heap, n)[job.slot], T2) IN IsHeap(h) /\ Owned(h, {})
      BY <1>2, <1>3, <1>4, <2>1, MoveStorageOwned
    <2>. QED BY <1>5, <2>2, ReturnsOwned DEF FinishSnapshot
  <1>6. CASE ~HasMember(n, job.slot)
    <2>1. /\ HasRoom(heap)
          /\ Return(Publish(swapStorage(Attach(g, into, job.slot, c), c, T2), n, into), "ok")
      BY <1>6 DEF FinishSnapshot
    <2>2. Ready(g, n, "object", into, c)
      BY <1>2, <1>3, <2>1, InsertionIsReady
    <2> HIDE DEF g, into, c
    <2>3. /\ IsHeap(g) /\ Owned(g, {c}) /\ n \in Live(g) /\ into \in Live(g) /\ c \in Live(g)
          /\ into # c
      BY <1>2, <1>4, <2>2, ReadyOwned
    <2>4. T2 \in Live(g) /\ c # T2 /\ job.slot \notin DOMAIN KidsOf(g, into)
      BY <1>2, <1>4, <1>6, <2>2, ReadySlots DEF Ready, HasMember
    <2>5. LET h == Publish(swapStorage(Attach(g, into, job.slot, c), c, T2), n, into)
          IN  IsHeap(h) /\ Owned(h, {})
      BY <2>3, <2>4, AdoptOwned
    <2>. QED BY <2>1, <2>5, ReturnsOwned
  <1>. QED BY <1>5, <1>6

LEMMA GrowsOwned ==
  ASSUME DomInv, LeakInv, GrowStep \/ FinishGrow
  PROVE  LeakInv'
  <1>1. job.op = "grow"
    BY DEF GrowStep, FinishGrow
  <1>2. /\ Forest(heap) /\ IsHeap(heap) /\ GrowInv(heap, job) /\ job.n \in Live(heap)
        /\ job.into \in Live(heap) /\ TypeOf(heap, job.into) = "array" /\ Owned(heap, {})
    BY <1>1, GrowingHolds, NoneIsNoNode DEF LeakInv, Forest, GrowInv, IntoInv
  <1>3. CASE FinishGrow
    <2>1. IsHeap(Publish(heap, job.n, job.into)) /\ Owned(Publish(heap, job.n, job.into), {})
      BY <1>2, PublishOwned
    <2>. QED BY <1>3, <2>1, ReturnsOwned DEF FinishGrow
  <1>4. CASE GrowStep
    <2> DEFINE c == Fresh(heap)
               a == heap[job.n].alloc
               i == EmptyImpl(a, job.fill)
               k == SetImpl(MakeNode(heap, c, a), c, i)
    <2>1. HasRoom(heap) /\ job' = job /\ heap' = Attach(k, job.into, NextIndex(k, job.into), c)
      BY <1>4 DEF GrowStep
    <2>2. c \in Pool \ Live(heap) /\ c \in Nodes
      BY <2>1, FreshIsDead
    <2>3. IsImpl(i)
      BY EmptyImplIs DEF IsEmptyImpl
    <2> HIDE DEF c, i
    <2>4. Sprouts(k, heap, c, a, i)
      BY <1>2, <2>2, <2>3, DressedSprouts
    <2> HIDE DEF k
    <2>5. Owned(k, {} \cup {c})
      BY <1>2, <2>2, <2>4, SproutOwned
    <2>6. IsHeap(k) /\ job.into \in Live(k) /\ KidsOf(k, job.into) = KidsOf(heap, job.into)
      BY <1>2, <2>2, <2>4, LiveNodes DEF Sprouts, KidsOf
    <2>7. NextIndex(k, job.into) \notin DOMAIN KidsOf(k, job.into)
      BY <1>2, <2>6, NextIsFree DEF NextIndex
    <2>8. Owned(heap', ({} \cup {c}) \ {c})
      BY <2>1, <2>5, <2>6, <2>7, AttachOwned
    <2>9. Owned(heap', {None})
      BY <2>8 DEF Owned
    <2>. QED BY <1>1, <2>1, <2>9 DEF LeakInv, Running
  <1>. QED BY <1>3, <1>4

\* Growth that fails: the elements it has appended go, the others stay.
LEMMA GrowRollbackOwned ==
  ASSUME DomInv, LeakInv, job.op = "grow"
  PROVE  IsHeap(GrowRollback(heap)) /\ Owned(GrowRollback(heap), {})
  <1> DEFINE n == job.into
             kids == KidsOf(heap, n)
             C == {kids[i] : i \in (job.slot + 1)..Len(kids)}
             d == [m \in Nodes |-> IF m \in Below(heap, C) THEN Dead ELSE heap[m]]
             kept == SubSeq(kids, 1, job.slot)
             g == SetKids(d, n, kept)
  <1>1. /\ Forest(heap) /\ IsHeap(heap) /\ n \in Live(heap) /\ kids \in Seq(Pool)
        /\ GrowInv(heap, job) /\ Owned(heap, {})
    BY GrowingHolds, NoneIsNoNode DEF LeakInv, Forest
  <1>2. GrowRollback(heap) = g
    BY DEF GrowRollback, Below
  <1>3. IsHeap(d) /\ Live(d) = Live(heap) \ Below(heap, C) /\ \A m \in Live(d) : d[m] = heap[m]
    BY <1>1, NullImplIs DEF IsHeap, IsImpl, Live
  <1>4. Len(kids) \in Nat /\ DOMAIN kids = 1..Len(kids) /\ job.slot \in 0..Len(kids)
    BY <1>1 DEF GrowInv
  <1>5. /\ DOMAIN kept = 1..job.slot /\ \A i \in 1..job.slot : kept[i] = kids[i]
    BY <1>1, <1>4
  <1>6. \A m \in Kids(heap, n) : m \in C \/ m \in {kept[i] : i \in DOMAIN kept}
    <2> SUFFICES ASSUME NEW i \in 1..Len(kids)
                 PROVE  kids[i] \in C \/ kids[i] \in {kept[x] : x \in DOMAIN kept}
      BY <1>4 DEF Kids
    <2>1. i \in 1..job.slot \/ i \in (job.slot + 1)..Len(kids)
      BY <1>4
    <2>. QED BY <1>5, <2>1
  <1>7. n \in Nodes
    BY <1>1, LiveNodes
  <1> HIDE DEF C, kept, d
  <1>8. /\ IsHeap(g) /\ Live(g) = Live(d) /\ KidsOf(g, n) = kept
        /\ \A m \in Nodes \ {n} : g[m] = d[m]
    BY <1>3, <1>7, SetKidsIs
  <1> HIDE DEF g, n
  <1>9. ASSUME NEW m \in Live(g), m \in Pool PROVE HasOwner(g, m)
    <2>1. m \in Live(heap) /\ m \notin Below(heap, C)
      BY <1>3, <1>8, <1>9
    <2>2. PICK p \in Live(heap) : m \in Kids(heap, p)
      BY <1>1, <1>9, <2>1 DEF Owned, HasOwner
    <2>3. p \notin Below(heap, C)
      <3> SUFFICES ASSUME NEW c \in C, p \in Subtree(heap, c) PROVE FALSE
        BY DEF Below
      <3>1. m \in Subtree(heap, c)
        BY <2>1, <2>2 DEF Subtree, Closed
      <3>. QED BY <2>1, <3>1 DEF Below
    <2>4. m \notin C
      <3>1. m \in Subtree(heap, m)
        BY <2>1 DEF Subtree
      <3>. QED BY <2>1, <3>1 DEF Below
    <2>5. p \in Live(g) /\ p \in Live(d)
      BY <1>3, <1>8, <2>2, <2>3
    <2>6. p = n => m \in Kids(g, n)
      BY <1>6, <1>8, <2>2, <2>4 DEF Kids
    <2>7. p # n => Kids(g, p) = Kids(heap, p)
      BY <1>3, <1>8, <2>5, LiveNodes DEF Kids, KidsOf
    <2>. QED BY <2>2, <2>5, <2>6, <2>7 DEF HasOwner
  <1>. QED BY <1>2, <1>8, <1>9 DEF Owned

LEMMA RollbackOwned ==
  ASSUME DomInv, LeakInv, Running
  PROVE  IsHeap(Rollback(heap)) /\ Owned(Rollback(heap), {})
  <1>1. CASE job.op = "grow"
    BY <1>1, GrowRollbackOwned DEF Rollback
  <1>2. CASE job.op # "grow"
    <2>1. Copying
      BY <1>2 DEF Copying
    <2>2. /\ Forest(heap) /\ IsHeap(heap) /\ Owned(heap, {job.own})
          /\ HandsInv(heap, job) /\ job.n \in Live(heap) /\ job.op \in CopyOps
      BY <2>1, CopiedHolds DEF HandsInv
    <2>3. CASE job.op \in ConstructOps
      <3>1. Owned(heap, {})
        BY <2>2, <2>3, NoneIsNoNode DEF LeakInv
      <3>2. IsHeap(destroyNode(heap, job.n)) /\ Owned(destroyNode(heap, job.n), {} \ {job.n})
        BY <2>2, <3>1, DestroyOwned
      <3>3. {} \ {job.n} = {}
        OBVIOUS
      <3>. QED BY <2>3, <3>2, <3>3 DEF Rollback, ConstructOps
    <2>4. CASE job.op = "insertMove"
      <3> DEFINE kids == KidsOf(heap, job.into)
                 rest == DropKey(kids, job.slot)
      <3>1. IntoInv(heap, job, "object") /\ OwnInv(heap, job)
        BY <2>1, <2>4, InsertionHolds DEF InsertOps, PushOps
      <3>2. /\ job.into \in Live(heap) /\ job.own \in Live(heap)
            /\ job.slot \in DOMAIN kids /\ kids[job.slot] = job.own
        BY <2>4, <3>1 DEF IntoInv, OwnInv, New
      <3>3. \A m \in Kids(heap, job.into) : m # job.own => m \in {rest[i] : i \in DOMAIN rest}
        BY <3>2 DEF Kids, DropKey
      <3> HIDE DEF rest
      <3>4. LET g == SetKids(destroyNode(heap, job.own), job.into, rest)
            IN  IsHeap(g) /\ Owned(g, {job.own} \ {job.own})
        BY <2>2, <3>2, <3>3, UnhookOwned
      <3>5. {job.own} \ {job.own} = {}
        OBVIOUS
      <3>6. job.slot \in DOMAIN KidsOf(heap, job.into)
            /\ Rollback(heap) = SetKids(destroyNode(heap, job.own), job.into, rest)
        BY <2>4, <3>2 DEF Rollback, rest
      <3>. QED BY <3>4, <3>5, <3>6
    <2>5. CASE job.op \in PushOps \cup {"insert"}
      <3>1. OwnInv(heap, job)
        BY <2>1, <2>5, InsertionHolds DEF InsertOps
      <3>2. job.own \in Live(heap) /\ job.own # None
        BY <3>1, NodesAssumption, LiveNodes DEF OwnInv, New
      <3>3. IsHeap(destroyNode(heap, job.own)) /\ Owned(destroyNode(heap, job.own), {job.own} \ {job.own})
        BY <2>2, <3>2, DestroyOwned
      <3>4. {job.own} \ {job.own} = {}
        OBVIOUS
      <3>. QED BY <2>5, <3>2, <3>3, <3>4 DEF Rollback, PushOps
    <2>6. CASE job.op \in AssignOps \cup {"insertSnapshot"}
      <3>1. job.own = None
        BY <2>2, <2>6 DEF HandsInv, TempInv
      <3>. QED BY <2>2, <2>6, <3>1, NoneIsNoNode DEF Rollback, AssignOps
    <2>. QED BY <2>2, <2>3, <2>4, <2>5, <2>6 DEF CopyOps, InsertOps
  <1>. QED BY <1>1, <1>2

LEMMA JobStepOwned ==
  ASSUME DomInv, LeakInv, JobStep
  PROVE  LeakInv'
  <1>1. CASE AllocationFails
    BY <1>1, RollbackOwned, ReturnsOwned DEF AllocationFails
  <1>. QED BY <1>1, CopyChildOwned, CopyPopOwned, FinishAssignsOwned, FinishConstructsOwned,
           FinishInsertsOwned, FinishInsertMovesOwned, FinishSnapshotOwned, GrowsOwned DEF JobStep

-----------------------------------------------------------------------------
(* The theorems.                                                            *)

LEMMA InitIsForest == Init => DomInv
  <1> SUFFICES ASSUME Init PROVE DomInv
    OBVIOUS
  <1>1. IsHeap(heap)
    BY NullImplIs DEF Init, IsHeap, IsImpl
  <1>2. Live(heap) = {}
    BY NullImplIs DEF Init, Live
  <1>3. JobFields \subseteq DOMAIN job /\ ~Running
    BY DEF Init, Idle, JobFields, Running
  <1>. QED BY <1>1, <1>2, <1>3 DEF DomInv, Forest, OwnedOnce, Rooted, NoTemps

LEMMA DomInvHolds == Spec => []DomInv
  <1>1. DomInv /\ [Next]_vars => DomInv'
    <2> SUFFICES ASSUME DomInv, [Next]_vars PROVE DomInv'
      OBVIOUS
    <2>1. CASE UNCHANGED vars
      BY <2>1 DEF vars, DomInv, Running
    <2>. QED BY <2>1, AtomicKeeps, CopyOpKeeps, GrowOpKeeps, JobStepKeeps DEF Next
  <1>. QED BY <1>1, InitIsForest, PTL DEF Spec

\* No slot of a live container refers to released storage, to an object of the
\* caller or to one of the stack, whatever sequence of aliasing assignments,
\* moves, swaps, insertions, erasures and failures led there.
THEOREM NeverDangling == Spec => []NoDangling
  <1>1. DomInv => NoDangling
    BY DEF DomInv, Forest, IsCell, NoDangling
  <1>. QED BY <1>1, DomInvHolds, PTL

\* A child sits in exactly one slot of one container.
THEOREM OneOwner == Spec => []SingleOwner
  <1>1. DomInv => SingleOwner
    BY DEF DomInv, Forest, OwnedOnce, SingleOwner
  <1>. QED BY <1>1, DomInvHolds, PTL

\* No sequence of operations makes a node its own ancestor.
THEOREM NeverCyclic == Spec => []Acyclic
  <1>1. DomInv => Acyclic
    BY DEF DomInv, Forest, Rooted, Acyclic
  <1>. QED BY <1>1, DomInvHolds, PTL

\* Storage belongs to a node of the allocator it came from, and a child to its
\* parent's allocator, however values move between documents.
THEOREM DomainsStayApart == Spec => []AllocatorDomain
  <1>1. DomInv => AllocatorDomain
    BY DEF DomInv, Forest, IsCell, AllocatorDomain
  <1>. QED BY <1>1, DomInvHolds, PTL

LEMMA LeakInvHolds == Spec => [](DomInv /\ LeakInv)
  <1>1. Init => LeakInv
    <2> SUFFICES ASSUME Init PROVE LeakInv
      OBVIOUS
    <2>1. Live(heap) = {} /\ job.own = None /\ job.op = "idle"
      BY NullImplIs DEF Init, Live, Idle
    <2>. QED BY <2>1 DEF LeakInv, Owned
  <1>2. DomInv /\ LeakInv /\ [Next]_vars => LeakInv'
    <2> SUFFICES ASSUME DomInv, LeakInv, [Next]_vars PROVE LeakInv'
      OBVIOUS
    <2>1. CASE UNCHANGED vars
      BY <2>1 DEF vars, LeakInv, Running
    <2>. QED BY <2>1, AtomicOwned, CopyOpOwned, GrowOpOwned, JobStepOwned DEF Next
  <1>. QED BY <1>1, <1>2, DomInvHolds, PTL DEF Spec

\* Whatever the pool has given out is owned by a container, or by the running
\* operation until it is attached or destroyed; nothing else outlives a call,
\* whether it returns or throws.
THEOREM NothingLeaks == Spec => []NoLeak
  <1>1. DomInv /\ LeakInv => NoLeak
    BY DEF DomInv, LeakInv, Owned, HasOwner, NoTemps, NoLeak, Temps
  <1>. QED BY <1>1, LeakInvHolds, PTL
=============================================================================
