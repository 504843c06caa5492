-------------------------- MODULE MergePatchProofs --------------------------
(***************************************************************************)
(* Theorems about MergePatch, for all documents, patches and limits.       *)
(***************************************************************************)
EXTENDS MergePatch, TreeTheorems

\* The documents and patches of a call are trees.
LEMMA GivenTrees == \A t \in Targets \cup Patches : IsTree(t)
  BY MergeAssumption DEF IsDocument, IsTree, Path

-----------------------------------------------------------------------------
(* The inductive invariant.  PendingIsLive alone does not survive a step: a *)
(* deletion could remove an object that is still pending.  It cannot,       *)
(* because the pending objects lie apart from each other and from the       *)
(* members that the merge in progress has yet to visit.                     *)

Live(p) == p \in DOMAIN scratch /\ p \in DOMAIN patch /\ patch[p].type = "object"

WorkInv ==
    /\ work \in Seq(Path)
    /\ \A i \in 1..Len(work) : Live(work[i])
    /\ \A i, j \in 1..Len(work) : i # j => ~Inside(work[i], work[j])

CurInv ==
    cur # NoPath =>
        /\ Live(cur) /\ scratch[cur].type = "object"
        /\ \A k \in todo : k \in Nat /\ Member(k) \in DOMAIN patch
        /\ \A i \in 1..Len(work) : ~Inside(cur, work[i])
        /\ \A i \in 1..Len(work), k \in todo : ~Inside(work[i], Member(k))

CountInv ==
    /\ operations \in 0..maxOperations /\ nodes \in 0..maxClonedNodes
    /\ state = "merging" => NodeCount(scratch) <= nodes

MergeInv ==
    /\ patch \in Patches
    /\ target \in Targets \/ state = "Ok"
    /\ state \in {"called", "merging"} \cup Codes
    /\ todo # {} => cur # NoPath
    /\ state = "called" => work = <<>> /\ cur = NoPath
    /\ CountInv
    /\ state = "merging" =>
        /\ IsTree(scratch)
        /\ WorkInv /\ CurInv
        /\ Type(patch) # "object" => work = <<>> /\ cur = NoPath

\* A tree has a natural number of nodes.
LEMMA TreeCount == ASSUME NEW t, IsTree(t) PROVE NodeCount(t) \in Nat
  BY CountType DEF IsTree

\* Returning from a call keeps the invariant.
LEMMA ReturnKeeps ==
    ASSUME MergeInv, state # "Ok", NEW code \in Codes, code # "Ok", Return(code)
    PROVE  MergeInv'
  BY DEF MergeInv, CountInv, Return, Codes

\* Nothing is pending before the call begins.
LEMMA MergeInit == Init => MergeInv
  BY MergeAssumption DEF Init, MergeInv, CountInv, Codes

\* Where the pending merges stay when they change nothing but `place`.
OutsideKept(t, u, place) ==
    \A x \in DOMAIN t : ~Inside(x, place) => x \in DOMAIN u /\ u[x] = t[x]

\* Visiting member k: whatever is done to that member alone, and whether or
\* not it becomes a pending merge, every pending merge stays live.
LEMMA VisitedKeeps ==
    ASSUME MergeInv, Visiting, NEW k \in todo,
           NEW u, IsTree(u), OutsideKept(scratch, u, Member(k)),
           NEW n \in Nat, NodeCount(u) <= NodeCount(scratch) + n,
           NEW pending \in {<<>>, <<Member(k)>>},
           pending # <<>> => Member(k) \in DOMAIN u /\ patch[Member(k)].type = "object",
           Visited(k, u, n, pending)
    PROVE  MergeInv'
  <1>1. CASE Return("ResourceLimit")
    BY <1>1, ReturnKeeps DEF Visiting, Codes
  <1>2. CASE ~Return("ResourceLimit")
    <2> DEFINE m == Member(k)
    <2>1. /\ Affordable(1, n) /\ Charge(1, n)
          /\ scratch' = u /\ work' = work \o pending /\ todo' = todo \ {k}
          /\ cur' = IF todo = {k} THEN NoPath ELSE cur
          /\ UNCHANGED <<target, patch, state>>
      BY <1>2 DEF Visited
    <2>2. /\ state = "merging" /\ cur # NoPath /\ IsTree(scratch)
          /\ WorkInv /\ CurInv /\ patch \in Patches
          /\ target \in Targets /\ Type(patch) = "object"
      BY DEF MergeInv, Visiting, Codes
    <2>3. /\ cur \in Path /\ k \in Nat /\ m \in Path /\ m \in DOMAIN patch
          /\ Live(cur) /\ scratch[cur].type = "object"
          /\ \A i \in 1..Len(work) : work[i] \in Path /\ ~Inside(work[i], m)
                                     /\ ~Inside(cur, work[i])
      BY <2>2, AppendProperties, ElementOfSeq DEF CurInv, WorkInv, Live, IsTree, Member, Path
    <2>4. /\ Inside(m, cur) /\ ~Inside(cur, m)
          /\ \A w \in Path : Inside(m, w) => w = m \/ Inside(cur, w)
          /\ \A j \in Nat : Inside(m, Member(j)) => j = k
          /\ Inside(m, m)
      BY <2>3, InsideMember, InsideOrder DEF Member
    <2> HIDE DEF m
    <2>5. \A i \in 1..Len(work) : ~Inside(m, work[i])
      BY <2>3, <2>4
    <2>6. /\ cur \in DOMAIN u /\ u[cur] = scratch[cur]
          /\ \A i \in 1..Len(work) : work[i] \in DOMAIN u
      BY <2>2, <2>3, <2>4 DEF OutsideKept, WorkInv, Live, m
    <2>7. CountInv'
      <3>1. NodeCount(scratch) \in Nat /\ NodeCount(u) \in Nat
        BY <2>2, TreeCount
      <3>2. maxOperations \in Nat /\ maxClonedNodes \in Nat
        BY MergeAssumption
      <3>3. /\ operations \in 0..maxOperations /\ nodes \in 0..maxClonedNodes
            /\ NodeCount(scratch) <= nodes
        BY <2>2 DEF MergeInv, CountInv
      <3>4. /\ 1 <= maxOperations - operations /\ n <= maxClonedNodes - nodes
            /\ operations' = operations + 1 /\ nodes' = nodes + n /\ scratch' = u
        BY <2>1 DEF Affordable, Charge
      <3>5. operations' \in 0..maxOperations /\ nodes' \in 0..maxClonedNodes
        BY <3>2, <3>3, <3>4
      <3>6. NodeCount(u) <= nodes'
        BY <3>1, <3>2, <3>3, <3>4
      <3> QED
        BY <3>4, <3>5, <3>6 DEF CountInv
    <2>8. WorkInv'
      <3>1. CASE pending = <<>>
        <4>1. work' = work
          BY <2>1, <2>2, <3>1, ConcatEmptySeq DEF WorkInv
        <4> QED
          BY <2>1, <2>2, <2>6, <4>1 DEF WorkInv, Live
      <3>2. CASE pending = <<m>>
        <4>1. m \in DOMAIN u /\ patch[m].type = "object"
          BY <3>2 DEF m
        <4>2. /\ work' \in Seq(Path) /\ Len(work) \in Nat /\ Len(work') = Len(work) + 1
              /\ \A i \in 1..Len(work) : work'[i] = work[i]
              /\ work'[Len(work) + 1] = m
          <5>1. work' = Append(work, m)
            BY <2>1, <2>2, <2>3, <3>2, AppendIsConcat DEF WorkInv
          <5> QED
            BY <2>2, <2>3, <5>1, AppendProperties DEF WorkInv
        <4>3. \A i \in 1..Len(work') : i \in 1..Len(work) \/ i = Len(work) + 1
          BY <4>2
        <4>4. \A i \in 1..Len(work') : Live(work[i])' 
          BY <2>1, <2>2, <2>3, <2>6, <4>1, <4>2, <4>3 DEF WorkInv, Live
        <4>5. \A i, j \in 1..Len(work') : i # j => ~Inside(work'[i], work'[j])
          BY <2>2, <2>3, <2>5, <4>2, <4>3 DEF WorkInv
        <4> QED
          BY <4>2, <4>4, <4>5 DEF WorkInv
      <3> QED
        BY <3>1, <3>2 DEF m
    <2>9. CurInv'
      <3>1. CASE todo = {k}
        BY <2>1, <3>1 DEF CurInv
      <3>2. CASE todo # {k}
        <4>1. cur' = cur /\ todo' \subseteq todo /\ k \notin todo' /\ scratch' = u
              /\ patch' = patch
          BY <2>1, <3>2
        <4>2. \A i \in 1..Len(work') :
                work'[i] = m \/ \E j \in 1..Len(work) : work'[i] = work[j]
          BY <2>1, <2>2, <2>3, ConcatProperties, AppendIsConcat, AppendProperties, ConcatEmptySeq DEF WorkInv, m
        <4>3. \A j \in todo' : j \in Nat /\ Member(j) \in DOMAIN patch /\ ~Inside(m, Member(j))
          BY <2>2, <2>4, <4>1 DEF CurInv
        <4> QED
          BY <2>2, <2>3, <2>4, <2>6, <4>1, <4>2, <4>3 DEF CurInv, Live, Member
      <3> QED
        BY <3>1, <3>2
    <2>10. todo' # {} => cur' # NoPath
      BY <2>1, <2>2
    <2> QED
      BY <2>1, <2>2, <2>7, <2>8, <2>9, <2>10 DEF MergeInv
  <1> QED
    BY <1>1, <1>2

\* A merge in progress finds its member in the patch, and the clone's object
\* that holds it.
LEMMA VisitContext ==
    ASSUME MergeInv, Visiting, NEW k \in todo
    PROVE  /\ state # "Ok" /\ IsTree(scratch) /\ IsTree(patch)
           /\ k \in Nat /\ cur \in DOMAIN scratch /\ cur \in Path
           /\ scratch[cur].type = "object"
           /\ Member(k) \in Path /\ Member(k) \in DOMAIN patch
           /\ Type(At(patch, Member(k))) = patch[Member(k)].type
  <1>1. /\ state = "merging" /\ IsTree(scratch) /\ CurInv /\ patch \in Patches
    BY DEF MergeInv, Visiting
  <1>2. /\ k \in Nat /\ cur \in DOMAIN scratch /\ scratch[cur].type = "object"
        /\ Member(k) \in DOMAIN patch
    BY <1>1 DEF CurInv, Live, Visiting
  <1>3. IsTree(patch)
    BY <1>1, GivenTrees
  <1>4. cur \in Path /\ Member(k) \in Path
    BY <1>1, <1>2, <1>3 DEF IsTree
  <1>5. Type(At(patch, Member(k))) = patch[Member(k)].type
    <2>1. <<>> \in DOMAIN At(patch, Member(k)) /\ Member(k) \o <<>> = Member(k)
      BY <1>2, <1>3, <1>4, AtTree, RestOfConcat, EmptySeq DEF IsTree, Path
    <2>2. At(patch, Member(k))[<<>>] = patch[Member(k) \o <<>>]
      BY <1>2, <1>3, <2>1, AtTree
    <2> QED
      BY <2>1, <2>2 DEF Type
  <1> QED
    BY <1>1, <1>2, <1>3, <1>4, <1>5

\* Writing a value at member k leaves everything outside the member alone.
LEMMA WrittenOutside ==
    ASSUME NEW t, NEW p, NEW new
    PROVE  OutsideKept(t, With(t, p, new), p)
  BY DEF OutsideKept, With

\* Null deletes a member of the clone: no pending merge is inside it.
LEMMA DeleteKeeps == ASSUME MergeInv, NEW k \in todo, Delete(k) PROVE MergeInv'
  <1> DEFINE less == With(scratch, cur, Erased(At(scratch, cur), k))
             u == IF Member(k) \in DOMAIN scratch THEN less ELSE scratch
  <1>1. Visiting /\ Visited(k, u, 0, <<>>)
    BY DEF Delete
  <1>2. /\ IsTree(scratch) /\ cur \in DOMAIN scratch /\ scratch[cur].type = "object"
        /\ k \in Nat
    BY <1>1, VisitContext
  <1>3. /\ IsTree(less) /\ DOMAIN less \subseteq DOMAIN scratch
        /\ OutsideKept(scratch, less, Member(k))
    BY <1>2, EraseMember DEF OutsideKept, Member
  <1> HIDE DEF less
  <1>4. IsTree(u) /\ DOMAIN u \subseteq DOMAIN scratch /\ OutsideKept(scratch, u, Member(k))
    BY <1>2, <1>3 DEF OutsideKept
  <1> HIDE DEF u
  <1>5. NodeCount(u) <= NodeCount(scratch) + 0
    BY <1>2, <1>4, CountPart, TreeCount
  <1> QED
    BY <1>1, <1>4, <1>5, VisitedKeeps

\* A member that is merged later is there, and apart from what is pending.
LEMMA DescendKeeps == ASSUME MergeInv, NEW k \in todo, Descend(k) PROVE MergeInv'
  <1> DEFINE m == Member(k)
             old == m \in DOMAIN scratch
             into == IF old THEN As(At(scratch, m), "object") ELSE Empty("object")
             u == With(scratch, m, into)
             n == IF old THEN 0 ELSE 1
  <1>1. Visiting /\ Type(At(patch, m)) = "object" /\ Visited(k, u, n, <<m>>)
    BY DEF Descend
  <1>2. IsTree(scratch) /\ m \in Path /\ patch[m].type = "object"
    BY <1>1, VisitContext
  <1> HIDE DEF m
  <1>empty. IsTree(Empty("object")) /\ NodeCount(Empty("object")) = 1
    <2>1. <<>> \in Path /\ DOMAIN Empty("object") = {<<>>}
      BY EmptySeq DEF Path, Empty, Leaf
    <2> QED
      BY <2>1, FS_Singleton DEF IsTree, NodeCount
  <1>3. IsTree(into)
    BY <1>2, <1>empty, AtTree, AsTree
  <1>4. OutsideKept(scratch, u, m)
    BY WrittenOutside
  <1>5. IsTree(u) /\ m \in DOMAIN u
    BY <1>2, <1>3, WithTree
  <1>6. NodeCount(u) <= NodeCount(scratch) + n
    <2>1. CASE old
      <3>1. DOMAIN into \subseteq DOMAIN At(scratch, m)
        BY <1>2, <2>1, AtTree, AsTree
      <3>2. DOMAIN u \subseteq DOMAIN scratch
        BY <1>2, <1>3, <2>1, <3>1, WithSmaller
      <3> HIDE DEF u
      <3>3. NodeCount(u) <= NodeCount(scratch)
        BY <1>2, <3>2, CountPart
      <3> QED
        BY <1>2, <1>5, <2>1, <3>3, TreeCount
    <2>2. CASE ~old
      BY <1>2, <1>3, <1>empty, <2>2, CountWith
    <2> QED
      BY <2>1, <2>2
  <1>7. n \in Nat
    OBVIOUS
  <1> HIDE DEF u, n
  <1> QED
    BY <1>1, <1>2, <1>4, <1>5, <1>6, <1>7, VisitedKeeps DEF m

\* A value that takes a member's place removes no pending merge either.
LEMMA ReplaceKeeps == ASSUME MergeInv, NEW k \in todo, Replace(k) PROVE MergeInv'
  <1> DEFINE x == At(patch, Member(k))
             u == With(scratch, Member(k), x)
  <1>1. Visiting /\ Visited(k, u, NodeCount(x), <<>>)
    BY DEF Replace
  <1>2. /\ IsTree(scratch) /\ IsTree(patch)
        /\ Member(k) \in Path /\ Member(k) \in DOMAIN patch
    BY <1>1, VisitContext
  <1>3. IsTree(x)
    BY <1>2, AtTree
  <1> HIDE DEF x
  <1>4. IsTree(u) /\ OutsideKept(scratch, u, Member(k))
    BY <1>2, <1>3, WithTree, WrittenOutside
  <1>5. NodeCount(u) <= NodeCount(scratch) + NodeCount(x) /\ NodeCount(x) \in Nat
    BY <1>2, <1>3, CountWith, TreeCount
  <1> HIDE DEF u
  <1> QED
    BY <1>1, <1>4, <1>5, VisitedKeeps

\* Taking the last element off the list.
IsFront(front, ws) == ws \in Seq(Path) /\ ws # <<>> /\ front = SubSeq(ws, 1, Len(ws) - 1)

LEMMA FrontOf ==
    ASSUME NEW ws, NEW front, IsFront(front, ws)
    PROVE  /\ Len(ws) \in Nat \ {0} /\ ws[Len(ws)] \in Path
           /\ front \in Seq(Path) /\ Len(front) = Len(ws) - 1
           /\ \A i \in 1..Len(front) : front[i] = ws[i] /\ i \in 1..Len(ws) /\ i # Len(ws)
  <1> DEFINE n == Len(ws) - 1
  <1> USE DEF IsFront
  <1>1. Len(ws) \in Nat \ {0}
    BY EmptySeq
  <1>2. n \in Int /\ 1 \in Int /\ \A i \in 1..n : ws[i] \in Path
    BY <1>1, ElementOfSeq
  <1>3. front = SubSeq(ws, 1, n)
    OBVIOUS
  <1>4. ws[Len(ws)] \in Path
    BY <1>1, ElementOfSeq
  <1>5. Len(ws) = n + 1 /\ n \in Nat
    BY <1>1
  <1> HIDE DEF n
  <1>6. /\ front \in Seq(Path)
        /\ Len(front) = IF 1 <= n THEN n - 1 + 1 ELSE 0
        /\ \A i \in 1..n - 1 + 1 : front[i] = ws[1 + i - 1]
    BY <1>2, <1>3, SubSeqProperties
  <1> QED
    BY <1>1, <1>4, <1>5, <1>6

\* Taking a merge off the list: what remains is apart from it.
LEMMA PopKeeps == ASSUME MergeInv, Pop PROVE MergeInv'
  <1> DEFINE c == work[Len(work)]
             new == As(At(scratch, c), "object")
             u == With(scratch, c, new)
  <1>1. /\ state = "merging" /\ IsTree(scratch) /\ WorkInv /\ patch \in Patches
        /\ work # <<>> /\ Type(patch) = "object" /\ target \in Targets
    BY DEF MergeInv, Pop, Between, Codes
  <1>2. /\ cur' = c /\ todo' = Slots(At(patch, c))
        /\ work' = SubSeq(work, 1, Len(work) - 1) /\ scratch' = u
        /\ UNCHANGED <<target, patch, operations, nodes, state>>
    BY DEF Pop
  <1>3. Len(work) \in Nat \ {0}
    BY <1>1, EmptySeq DEF WorkInv
  <1>4. c \in Path /\ Live(c)
    BY <1>1, <1>3, ElementOfSeq DEF WorkInv
  <1>5. /\ work' \in Seq(Path) /\ Len(work') = Len(work) - 1
        /\ \A i \in 1..Len(work') : work'[i] = work[i] /\ i \in 1..Len(work) /\ i # Len(work)
    <2> DEFINE front == SubSeq(work, 1, Len(work) - 1)
    <2>1. IsFront(front, work)
      BY <1>1 DEF WorkInv, IsFront
    <2> HIDE DEF front
    <2>2. front \in Seq(Path) /\ Len(front) = Len(work) - 1
      BY ONLY <2>1, FrontOf
    <2>3. \A i \in 1..Len(front) : front[i] = work[i] /\ i \in 1..Len(work) /\ i # Len(work)
      BY ONLY <2>1, FrontOf
    <2> QED
      BY <1>2, <2>2, <2>3 DEF front
  <1>6. /\ IsTree(At(scratch, c)) /\ IsTree(new) /\ Type(new) = "object"
        /\ DOMAIN new \subseteq DOMAIN At(scratch, c)
    BY <1>1, <1>4, AtTree, AsTree DEF Live
  <1>7. /\ IsTree(u) /\ c \in DOMAIN u /\ u[c].type = "object"
        /\ DOMAIN u \subseteq DOMAIN scratch
    <2> HIDE DEF c, new
    <2>1. IsTree(u) /\ c \in DOMAIN u /\ u[c] = new[<<>>]
      BY <1>1, <1>4, <1>6, WithTree
    <2>2. DOMAIN u \subseteq DOMAIN scratch
      BY <1>1, <1>4, <1>6, WithSmaller DEF Live
    <2> HIDE DEF u
    <2> QED
      BY <1>6, <2>1, <2>2 DEF Type
  <1>8. OutsideKept(scratch, u, c)
    BY WrittenOutside
  <1>9. NodeCount(u) <= NodeCount(scratch) /\ NodeCount(u) \in Nat /\ NodeCount(scratch) \in Nat
    BY <1>1, <1>7, CountPart, TreeCount
  <1> HIDE DEF c, new, u
  <1>10. \A i \in 1..Len(work') :
            /\ work'[i] \in Path /\ Live(work'[i])
            /\ ~Inside(work'[i], c) /\ ~Inside(c, work'[i])
    <2> SUFFICES ASSUME NEW i \in 1..Len(work')
                 PROVE  /\ work'[i] \in Path /\ Live(work'[i])
                        /\ ~Inside(work'[i], c) /\ ~Inside(c, work'[i])
      OBVIOUS
    <2>1. /\ i \in 1..Len(work) /\ i # Len(work) /\ work'[i] = work[i]
          /\ Len(work) \in 1..Len(work)
      <3>1. Len(work) \in 1..Len(work)
        BY <1>3
      <3> QED
        BY <1>5, <3>1, Zenon
    <2>2. work[i] \in Path
      BY <1>1, <2>1, ElementOfSeq DEF WorkInv
    <2>3. Live(work[i])
      BY <1>1, <2>1 DEF WorkInv
    <2>4. ~Inside(work[i], work[Len(work)]) /\ ~Inside(work[Len(work)], work[i])
      BY <1>1, <2>1 DEF WorkInv
    <2> QED
      BY <2>1, <2>2, <2>3, <2>4 DEF c
  <1>11. WorkInv'
    <2>1. \A i \in 1..Len(work') : work'[i] \in DOMAIN u
      BY <1>8, <1>10 DEF OutsideKept, Live
    <2>2. \A i, j \in 1..Len(work') : i # j => ~Inside(work'[i], work'[j])
      BY <1>1, <1>5 DEF WorkInv
    <2> QED
      BY <1>2, <1>5, <1>10, <2>1, <2>2 DEF WorkInv, Live
  <1>12. \A k \in todo' : k \in Nat /\ Append(c, k) \in DOMAIN patch
    BY <1>1, <1>2, <1>4, GivenTrees, SlotsAreMembers DEF Live
  <1>13. \A i \in 1..Len(work'), k \in todo' : ~Inside(work'[i], Append(c, k))
    BY <1>4, <1>10, <1>12, InsideMember, InsideOrder
  <1>14. CurInv'
    BY <1>2, <1>4, <1>7, <1>10, <1>12, <1>13 DEF CurInv, Live, Member
  <1>15. c # NoPath
    BY <1>1, <1>4, MergeAssumption DEF Live
  <1> QED
    BY <1>1, <1>2, <1>7, <1>9, <1>11, <1>14, <1>15 DEF MergeInv, CountInv

\* The call begins with the whole patch as the only pending merge.
LEMMA BeginKeeps == ASSUME MergeInv, Begin PROVE MergeInv'
  <1>1. /\ state = "called" /\ target \in Targets /\ patch \in Patches
        /\ work = <<>> /\ cur = NoPath
    BY DEF MergeInv, Begin, Codes
  <1>2. IsTree(target) /\ IsTree(patch) /\ NodeCount(target) \in Nat
    BY <1>1, GivenTrees, TreeCount
  <1>3. CASE Return("ResourceLimit")
    BY <1>1, <1>3, ReturnKeeps DEF Codes
  <1>4. CASE ~Return("ResourceLimit")
    <2>1. /\ Affordable(0, NodeCount(target)) /\ Charge(0, NodeCount(target))
          /\ scratch' = target /\ state' = "merging"
          /\ work' = IF Type(patch) = "object" THEN <<<<>>>> ELSE <<>>
          /\ UNCHANGED <<target, patch, cur, todo>>
      BY <1>4 DEF Begin
    <2>2. CountInv'
      BY <1>2, <2>1, MergeAssumption DEF MergeInv, CountInv, Affordable, Charge
    <2>3. WorkInv'
      <3>1. <<>> \in Path /\ <<>> \in DOMAIN target /\ <<>> \in DOMAIN patch
        BY <1>2, EmptySeq DEF IsTree, Path
      <3>2. CASE Type(patch) = "object"
        <4>1. work' = <<<<>>>> /\ patch[<<>>].type = "object"
          BY <2>1, <3>2 DEF Type
        <4>2. work' \in Seq(Path) /\ Len(work') = 1 /\ work'[1] = <<>>
          BY <3>1, <4>1
        <4> QED
          BY <2>1, <3>1, <4>1, <4>2 DEF WorkInv, Live
      <3>3. CASE Type(patch) # "object"
        <4>1. work' = <<>>
          BY <2>1, <3>3
        <4>2. work' \in Seq(Path) /\ Len(work') = 0
          BY <4>1, EmptySeq
        <4> QED
          BY <4>2 DEF WorkInv
      <3> QED
        BY <3>2, <3>3
    <2> QED
      BY <1>1, <1>2, <2>1, <2>2, <2>3 DEF MergeInv, CurInv
  <1> QED
    BY <1>3, <1>4

\* A patch that is no object has nothing pending.
LEMMA ReplaceDocumentKeeps == ASSUME MergeInv, ReplaceDocument PROVE MergeInv'
  <1>1. /\ state = "merging" /\ target \in Targets /\ patch \in Patches
        /\ Type(patch) # "object" /\ work = <<>> /\ cur = NoPath
    BY DEF MergeInv, ReplaceDocument, Codes
  <1>2. IsTree(patch) /\ NodeCount(patch) \in Nat
    BY <1>1, GivenTrees, TreeCount
  <1>3. CASE Return("ResourceLimit")
    BY <1>1, <1>3, ReturnKeeps DEF Codes
  <1>4. CASE ~Return("ResourceLimit")
    <2>1. /\ Affordable(1, NodeCount(patch)) /\ Charge(1, NodeCount(patch))
          /\ scratch' = patch
          /\ UNCHANGED <<target, patch, work, cur, todo, state>>
      BY <1>4 DEF ReplaceDocument
    <2>2. CountInv'
      BY <1>2, <2>1, MergeAssumption DEF MergeInv, CountInv, Affordable, Charge
    <2>3. WorkInv'
      <3>1. work' \in Seq(Path) /\ Len(work') = 0
        BY <1>1, <2>1, EmptySeq
      <3> QED
        BY <3>1 DEF WorkInv
    <2> QED
      BY <1>1, <1>2, <2>1, <2>2, <2>3 DEF MergeInv, CurInv
  <1> QED
    BY <1>3, <1>4

\* MergeInv is inductive.
LEMMA MergeStep == MergeInv /\ [Next]_vars => MergeInv'
  <1> SUFFICES ASSUME MergeInv, [Next]_vars PROVE MergeInv'
    OBVIOUS
  <1>1. CASE Begin
    BY <1>1, BeginKeeps
  <1>2. CASE ReplaceDocument
    BY <1>2, ReplaceDocumentKeeps
  <1>3. CASE Pop
    BY <1>3, PopKeeps
  <1>4. CASE Visit
    BY <1>4, DeleteKeeps, DescendKeeps, ReplaceKeeps DEF Visit
  <1>5. CASE EmptyObject
    BY <1>5 DEF EmptyObject, Visiting, MergeInv, CountInv, WorkInv, CurInv, Live
  <1>6. CASE Publish
    BY <1>6 DEF Publish, Complete, Between, MergeInv, CountInv, Codes
  <1>7. CASE Fails
    <2>1. PICK code \in {"ResourceLimit", "AllocationFailure"} : Return(code)
      BY <1>7 DEF Fails
    <2>2. state # "Ok" /\ code \in Codes /\ code # "Ok"
      BY <1>7 DEF Fails, Codes
    <2> QED
      BY <2>1, <2>2, ReturnKeeps
  <1>8. CASE UNCHANGED vars
    BY <1>8 DEF vars, MergeInv, CountInv, WorkInv, CurInv, Live, Member
  <1> QED
    BY <1>1, <1>2, <1>3, <1>4, <1>5, <1>6, <1>7, <1>8 DEF Next

-----------------------------------------------------------------------------
(* What RFC 7396 asks for, place by place.  On the way to a pending object  *)
(* the patch has objects only: nothing overrides it, and what the target    *)
(* has below it counts as long as the target has objects there too.         *)

Object(t, q) == q \in DOMAIN t /\ t[q].type = "object"
Spined(w) == \A q \in Prefixes(w) : Object(patch, q)
KeptTo(w) == \A q \in Prefixes(w) : Object(target, q)

\* What the assumption says of a document.
LEMMA DocumentIs ==
    ASSUME NEW t \in Targets \cup Patches
    PROVE  /\ IsTree(t) /\ IsMap(t)
           /\ \A p \in DOMAIN t, q \in Path :
                Inside(p, q) => q \in DOMAIN t /\ (q # p => t[q].type \in {"object", "array"})
           /\ \A p : Object(t, p) => t[p] = Empty("object")[<<>>]
  BY MergeAssumption, DocumentPlaces DEF Object

\* The documents of the call in progress.
Given == patch \in Patches /\ target \in Targets

\* The way to a member is the way to its object, and the member.
LEMMA OnToMember ==
    ASSUME NEW c \in Path, NEW k \in Nat
    PROVE  Prefixes(Append(c, k)) = Prefixes(c) \cup {Append(c, k)}
  <1>1. Append(c, k) \in Path /\ Inside(Append(c, k), Append(c, k)) /\ Inside(Append(c, k), c)
    BY InsideMember, InsideOrder
  <1>2. \A q \in Path : Inside(Append(c, k), q) <=> q = Append(c, k) \/ Inside(c, q)
    BY <1>1, InsideMember, InsideOrder
  <1>3. \A q : q \in Prefixes(Append(c, k)) <=> q \in Path /\ Inside(Append(c, k), q)
    BY <1>1, PrefixesAre
  <1>4. \A q : q \in Prefixes(c) <=> q \in Path /\ Inside(c, q)
    BY PrefixesAre
  <1>5. \A q : q \in Prefixes(Append(c, k)) <=> q = Append(c, k) \/ q \in Prefixes(c)
    BY <1>1, <1>2, <1>3, <1>4, Zenon
  <1> QED
    BY <1>5, Zenon

LEMMA SpinedMember ==
    ASSUME NEW c \in Path, NEW k \in Nat
    PROVE  /\ Spined(Append(c, k)) <=> Spined(c) /\ Object(patch, Append(c, k))
           /\ KeptTo(Append(c, k)) <=> KeptTo(c) /\ Object(target, Append(c, k))
  <1>1. Prefixes(Append(c, k)) = Prefixes(c) \cup {Append(c, k)}
    BY OnToMember
  <1>2. \A q : q \in Prefixes(Append(c, k)) <=> q \in Prefixes(c) \/ q = Append(c, k)
    BY <1>1, Zenon
  <1> QED
    BY <1>2, Zenon DEF Spined, KeptTo

\* Merged, place by place.
LEMMA MergedAt ==
    ASSUME NEW p
    PROVE  /\ p \in DOMAIN Merged <=>
                \/ p \in DOMAIN patch /\ ~Deleted(p)
                \/ p \in DOMAIN target /\ Overrides(p) = {} /\ Kept(p)
           /\ p \in DOMAIN Merged =>
                Merged[p] = IF p \in DOMAIN patch THEN patch[p] ELSE target[p]
  BY DEF Merged, MergedPaths

\* Below a pending place the patch overrides nothing above it.
LEMMA OverridesBelow ==
    ASSUME NEW w \in Path, Spined(w), NEW p \in Path, Inside(p, w), NEW q \in Overrides(p)
    PROVE  /\ q \in Path /\ Inside(p, q) /\ Inside(q, w) /\ q # w
           /\ q \in DOMAIN patch /\ patch[q].type # "object"
  <1>1. /\ q \in Path /\ Inside(p, q) /\ q \in DOMAIN patch /\ patch[q].type # "object"
    BY PrefixesAre DEF Overrides
  <1>2. ~Inside(w, q)
    BY <1>1, PrefixesAre DEF Spined, Object
  <1>3. Inside(q, w)
    BY <1>1, <1>2, OnOneWay
  <1> QED
    BY <1>1, <1>2, <1>3

\* A pending place is an object of the result.
LEMMA SpinedPlace ==
    ASSUME Given, NEW c \in Path, Spined(c)
    PROVE  /\ c \in DOMAIN patch /\ patch[c].type = "object"
           /\ c \in DOMAIN Merged /\ Merged[c] = Empty("object")[<<>>]
  <1>1. Inside(c, c) /\ c \in Prefixes(c)
    BY InsideOrder, PrefixesAre
  <1>2. Object(patch, c)
    BY <1>1 DEF Spined
  <1>3. Overrides(c) = {}
    BY <1>1, InsideOrder, OverridesBelow
  <1>4. ~Deleted(c)
    BY <1>3 DEF Deleted
  <1> QED
    BY <1>2, <1>4, MergedAt, DocumentIs DEF Given, Object

\* A member the patch does not have is what the target has there.
LEMMA NotPatched ==
    ASSUME Given, NEW c \in Path, Spined(c), NEW k \in Nat, Append(c, k) \notin DOMAIN patch,
           NEW p \in Path, Inside(p, Append(c, k))
    PROVE  /\ p \in DOMAIN Merged <=> p \in DOMAIN target /\ KeptTo(c)
           /\ p \in DOMAIN Merged => Merged[p] = target[p]
  <1> DEFINE m == Append(c, k)
  <1>1. m \in Path /\ Inside(m, c) /\ Inside(p, c) /\ \A w \in Path : Inside(m, w) => w = m \/ Inside(c, w)
    BY InsideMember, InsideOrder
  <1>2. \A q \in Path : Inside(q, m) => q \notin DOMAIN patch
    BY <1>1, DocumentIs DEF Given
  <1> HIDE DEF m
  <1>3. ASSUME NEW q \in Path, Inside(p, q), q \in DOMAIN patch PROVE Inside(c, q)
    BY <1>1, <1>2, <1>3, OnOneWay DEF m
  <1>4. p \notin DOMAIN patch
    BY <1>2 DEF m
  <1>5. Overrides(p) = {}
    <2>1. SUFFICES ASSUME NEW q \in Overrides(p) PROVE FALSE
      OBVIOUS
    <2>2. q \in Path /\ Inside(p, q) /\ q \in DOMAIN patch /\ Inside(q, c) /\ q # c
      BY <1>1, OverridesBelow
    <2> QED
      BY <1>3, <2>2, InsideOrder
  <1>6. Spine(p) = Prefixes(c)
    <2>1. ASSUME NEW q \in Spine(p) PROVE q \in Prefixes(c)
      BY <1>3, PrefixesAre DEF Spine
    <2>2. ASSUME NEW q \in Prefixes(c) PROVE q \in Spine(p)
      <3>1. q \in Path /\ Inside(c, q)
        BY PrefixesAre
      <3>2. Inside(p, q)
        BY <1>1, <3>1, InsideOrder
      <3> QED
        BY <3>1, <3>2, PrefixesAre DEF Spine, Spined, Object
    <2> QED
      BY <2>1, <2>2
  <1>7. Kept(p) <=> p \in DOMAIN target /\ KeptTo(c)
    <2>1. ASSUME p \in DOMAIN target, NEW q \in Prefixes(c) PROVE q \in DOMAIN target
      <3>1. q \in Path /\ Inside(c, q)
        BY PrefixesAre
      <3>2. Inside(p, q)
        BY <1>1, <3>1, InsideOrder
      <3> QED
        BY <2>1, <3>1, <3>2, DocumentIs DEF Given
    <2> QED
      BY <1>6, <2>1 DEF Kept, KeptTo, Object
  <1> QED
    BY <1>4, <1>5, <1>7, MergedAt

\* A member to which the patch gives a value that is no object is that value.
LEMMA Overridden ==
    ASSUME Given, NEW c \in Path, Spined(c), NEW k \in Nat, Append(c, k) \in DOMAIN patch,
           patch[Append(c, k)].type # "object", NEW p \in Path, Inside(p, Append(c, k))
    PROVE  IF patch[Append(c, k)].type = "null" THEN p \notin DOMAIN Merged
           ELSE SameAt(patch, Merged, p)
  <1> DEFINE m == Append(c, k)
  <1>1. /\ m \in Path /\ Inside(m, c) /\ Inside(p, c)
        /\ m # <<>>
    <2>1. m \in Path /\ Inside(m, c) /\ ~Inside(c, m)
      BY InsideMember
    <2>2. m # <<>>
      BY AppendProperties DEF Path
    <2> QED
      BY <2>1, <2>2, InsideOrder
  <1>2. Prefixes(m) = Prefixes(c) \cup {m}
    BY OnToMember
  <1> HIDE DEF m
  <1>3. Prefixes(m) \ {m} \subseteq Spine(p)
    <2>1. SUFFICES ASSUME NEW q \in Prefixes(c) PROVE q \in Spine(p)
      BY <1>2
    <2>2. q \in Path /\ Inside(c, q)
      BY PrefixesAre
    <2>3. Inside(p, q)
      BY <1>1, <2>2, InsideOrder
    <2> QED
      BY <2>2, <2>3, PrefixesAre DEF Spine, Spined, Object
  <1>4. m \in Overrides(p)
    BY <1>1, <1>3, PrefixesAre DEF Overrides, m
  <1>5. ASSUME NEW q \in Overrides(p) PROVE q = m
    <2>1. /\ q \in Path /\ Inside(p, q) /\ Inside(q, c) /\ q # c
          /\ Prefixes(q) \ {q} \subseteq Spine(p)
      BY <1>1, OverridesBelow DEF Overrides
    <2>2. Inside(m, q) => q = m
      BY <1>1, <2>1, InsideMember, InsideOrder DEF m
    <2>3. Inside(q, m) => q = m
      <3>1. SUFFICES ASSUME Inside(q, m), q # m PROVE FALSE
        OBVIOUS
      <3>2. m \in Spine(p)
        BY <1>1, <2>1, <3>1, PrefixesAre
      <3> QED
        BY <3>2 DEF Spine, m
    <2>4. Inside(p, m)
      BY DEF m
    <2> QED
      BY <1>1, <2>1, <2>2, <2>3, <2>4, OnOneWay
  <1>6. Deleted(p) <=> patch[m].type = "null"
    BY <1>1, <1>4, <1>5 DEF Deleted
  <1>7. Overrides(p) # {}
    BY <1>4
  <1> QED
    BY <1>6, <1>7, MergedAt DEF SameAt, m

\* A patch that is no object is the result.
LEMMA WholeDocument ==
    ASSUME Given, Type(patch) # "object"
    PROVE  Merged = patch
  <1>1. /\ IsTree(patch) /\ IsTree(target) /\ IsMap(patch) /\ <<>> \in Path
    BY DocumentIs, EmptySeq DEF Given, Path
  <1>2. ASSUME NEW p \in Path PROVE SameAt(patch, Merged, p)
    <2>1. Prefixes(<<>>) = {<<>>}
      <3>1. \A q \in Path : Inside(<<>>, q) => q = <<>>
        <4>1. SUFFICES ASSUME NEW q \in Path, Inside(<<>>, q) PROVE q = <<>>
          OBVIOUS
        <4>2. Len(q) \in Nat /\ Len(q) <= 0
          BY <4>1 DEF Path, Inside
        <4> QED
          BY <4>2, EmptySeq DEF Path
      <3> QED
        BY <1>1, <3>1, PrefixesAre, InsideOrder
    <2>2. <<>> \in Prefixes(p)
      <3>1. Inside(p, <<>>)
        <4>1. Len(p) \in Nat /\ Len(<<>>) = 0
          BY DEF Path
        <4> QED
          BY <1>1, <4>1, InsideSlots
      <3> QED
        BY <1>1, <3>1, PrefixesAre
    <2>3. <<>> \in Overrides(p)
      BY <1>1, <2>1, <2>2 DEF Overrides, IsTree, Type
    <2>4. ASSUME NEW q \in Overrides(p) PROVE q = <<>>
      <3>1. SUFFICES ASSUME q # <<>> PROVE FALSE
        OBVIOUS
      <3>2. q \in Path /\ Prefixes(q) \ {q} \subseteq Spine(p)
        BY PrefixesAre DEF Overrides
      <3>3. <<>> \in Prefixes(q)
        <4>1. Len(q) \in Nat /\ Len(<<>>) = 0
          BY <3>2 DEF Path
        <4>2. Inside(q, <<>>)
          BY <1>1, <3>2, <4>1, InsideSlots
        <4> QED
          BY <1>1, <3>2, <4>2, PrefixesAre
      <3> QED
        BY <3>1, <3>2, <3>3 DEF Spine, Type
    <2>5. ~Deleted(p)
      BY <2>4 DEF Deleted
    <2> QED
      BY <2>3, <2>5, MergedAt DEF SameAt
  <1>3. DOMAIN Merged \subseteq Path
    BY <1>1, MergedAt DEF IsTree
  <1>4. DOMAIN Merged = DOMAIN patch /\ \A p \in DOMAIN patch : Merged[p] = patch[p]
    BY <1>1, <1>2, <1>3 DEF SameAt, IsTree
  <1>5. IsMap(Merged)
    BY DEF IsMap, Merged
  <1> QED
    BY <1>1, <1>4, <1>5 DEF IsMap

-----------------------------------------------------------------------------
(* The merge in progress.  Every place of the clone is either as RFC 7396   *)
(* asks, or below an object that is pending or a member not yet visited,    *)
(* where the clone still has what the target has.                           *)

Pending(t, w) ==
    /\ w \in Path /\ Spined(w)
    /\ t[w].type = "object" => t[w] = Empty("object")[<<>>]
    /\ \A p \in Path : Inside(p, w) /\ p # w =>
        /\ p \in DOMAIN t /\ t[w].type = "object" <=> p \in DOMAIN target /\ KeptTo(w)
        /\ p \in DOMAIN t /\ t[w].type = "object" => t[p] = target[p]

Waiting(t, c, k) ==
    \A p \in Path : Inside(p, Append(c, k)) =>
        /\ p \in DOMAIN t <=> p \in DOMAIN target /\ KeptTo(c)
        /\ p \in DOMAIN t => t[p] = target[p]

Awaits(p) ==
    \/ \E i \in 1..Len(work) : Inside(p, work[i])
    \/ cur # NoPath /\ \E k \in todo : Inside(p, Member(k))

ObjectInv ==
    /\ \A i \in 1..Len(work) : Pending(scratch, work[i])
    /\ cur # NoPath => cur \in Path /\ Spined(cur) /\ \A k \in todo : Waiting(scratch, cur, k)
    /\ \A p \in Path : ~Awaits(p) => SameAt(Merged, scratch, p)

ScalarInv == operations = 0 \/ (operations = 1 /\ scratch = patch)

MergedInv ==
    /\ state = "called" => operations = 0
    /\ state = "merging" =>
        /\ IsMap(scratch)
        /\ IF Type(patch) = "object" THEN ObjectInv ELSE ScalarInv

\* A step that leaves the documents alone asks for the same result.
LEMMA SameTask ==
    ASSUME target' = target, patch' = patch
    PROVE  /\ Merged' = Merged
           /\ \A w : Spined(w)' <=> Spined(w)
           /\ \A w : KeptTo(w)' <=> KeptTo(w)
           /\ \A t, w : Pending(t, w)' <=> Pending(t, w)
           /\ \A t, c, k : Waiting(t, c, k)' <=> Waiting(t, c, k)
  <1>1. \A p : Spine(p)' = Spine(p)
    BY DEF Spine
  <1>2. \A p : Overrides(p)' = Overrides(p)
    BY <1>1 DEF Overrides
  <1>3. \A p : Deleted(p)' <=> Deleted(p)
    BY <1>2 DEF Deleted
  <1>4. \A p : Kept(p)' <=> Kept(p)
    BY <1>1 DEF Kept
  <1>5. MergedPaths' = MergedPaths
    BY <1>2, <1>3, <1>4 DEF MergedPaths
  <1>6. Merged' = Merged
    BY <1>5 DEF Merged
  <1>7. \A w : Spined(w)' <=> Spined(w)
    BY DEF Spined
  <1>8. \A w : KeptTo(w)' <=> KeptTo(w)
    BY DEF KeptTo
  <1>9. \A t, w : Pending(t, w)' <=> Pending(t, w)
    BY <1>7, <1>8 DEF Pending
  <1>10. \A t, c, k : Waiting(t, c, k)' <=> Waiting(t, c, k)
    BY <1>8 DEF Waiting
  <1> QED
    BY <1>6, <1>7, <1>8, <1>9, <1>10

\* A change elsewhere leaves a pending object as it is.
LEMMA PendingApart ==
    ASSUME NEW t, NEW u, NEW w, NEW m \in Path, Pending(t, w), w \in DOMAIN t,
           ~Inside(w, m), ~Inside(m, w),
           \A x \in Path : ~Inside(x, m) => SameAt(t, u, x)
    PROVE  Pending(u, w)
  <1>1. w \in Path
    BY DEF Pending
  <1>2. SameAt(t, u, w)
    BY <1>1
  <1>3. \A p \in Path : Inside(p, w) => SameAt(t, u, p)
    BY <1>1, OnOneWay
  <1>4. w \in DOMAIN u /\ u[w] = t[w]
    BY <1>2 DEF SameAt
  <1>5. \A p \in Path : Inside(p, w) => (p \in DOMAIN u <=> p \in DOMAIN t) /\ (p \in DOMAIN u => u[p] = t[p])
    BY <1>3 DEF SameAt
  <1> QED
    BY <1>4, <1>5 DEF Pending

\* Adding to the list what a visit leaves pending.
LEMMA Queued ==
    ASSUME NEW ws \in Seq(Path), NEW m \in Path, NEW more, more = <<>> \/ more = <<m>>,
           NEW all, all = ws \o more
    PROVE  /\ \A i \in 1..Len(all) : \/ more = <<m>> /\ all[i] = m
                                     \/ \E j \in 1..Len(ws) : all[i] = ws[j]
           /\ \A j \in 1..Len(ws) : \E i \in 1..Len(all) : all[i] = ws[j]
           /\ more = <<m>> => \E i \in 1..Len(all) : all[i] = m
  <1>1. CASE more = <<>>
    <2>1. all = ws
      BY <1>1, ConcatEmptySeq
    <2>2. more # <<m>>
      BY <1>1
    <2> QED
      BY <2>1, <2>2
  <1>2. CASE more = <<m>>
    <2>1. all = Append(ws, m)
      BY <1>2, AppendIsConcat
    <2>2. /\ Len(ws) \in Nat /\ Len(all) = Len(ws) + 1
          /\ \A i \in 1..Len(ws) : all[i] = ws[i]
          /\ all[Len(ws) + 1] = m
      BY <2>1, AppendProperties
    <2>3. \A i \in 1..Len(all) : i \in 1..Len(ws) \/ i = Len(ws) + 1
      BY <2>2
    <2>4. Len(ws) + 1 \in 1..Len(all) /\ \A j \in 1..Len(ws) : j \in 1..Len(all)
      BY <2>2
    <2> QED
      BY <1>2, <2>2, <2>3, <2>4
  <1> QED
    BY <1>1, <1>2

\* Visiting member k: what the result has there is settled, or the member
\* becomes a pending merge; the rest of the clone is as it was.
LEMMA VisitedMerges ==
    ASSUME MergeInv, MergedInv, Visiting, NEW k \in todo, NEW u, IsMap(u), NEW n,
           \A x \in Path : ~Inside(x, Member(k)) => SameAt(scratch, u, x),
           NEW pending \in {<<>>, <<Member(k)>>},
           pending = <<>> => \A x \in Path : Inside(x, Member(k)) => SameAt(Merged, u, x),
           pending = <<Member(k)>> => Pending(u, Member(k)),
           Visited(k, u, n, pending)
    PROVE  MergedInv'
  <1>1. CASE Return("ResourceLimit")
    BY <1>1 DEF Return, MergedInv
  <1>2. CASE ~Return("ResourceLimit")
    <2> DEFINE m == Member(k)
    <2>1. /\ scratch' = u /\ work' = work \o pending /\ todo' = todo \ {k}
          /\ cur' = IF todo = {k} THEN NoPath ELSE cur
          /\ target' = target /\ patch' = patch /\ state' = state
      BY <1>2 DEF Visited
    <2>2. /\ state = "merging" /\ cur # NoPath /\ WorkInv /\ CurInv
          /\ Type(patch) = "object" /\ ObjectInv
      BY DEF MergeInv, MergedInv, Visiting
    <2>3. /\ cur \in Path /\ k \in Nat /\ m \in Path
          /\ \A j \in todo : j \in Nat /\ Member(j) \in Path
          /\ \A i \in 1..Len(work) : /\ work[i] \in Path /\ work[i] \in DOMAIN scratch
                                     /\ ~Inside(work[i], m) /\ ~Inside(cur, work[i])
      BY <2>2, AppendProperties, ElementOfSeq DEF CurInv, WorkInv, Live, ObjectInv, Member, Path
    <2>4. /\ \A w \in Path : Inside(m, w) => w = m \/ Inside(cur, w)
          /\ \A j \in Nat : Inside(Member(j), m) => j = k
          /\ \A j \in Nat : Inside(m, Member(j)) => j = k
          /\ Inside(m, m)
      BY <2>3, InsideMember, InsideOrder DEF Member
    <2>5. \A x \in Path : ~Inside(x, m) => SameAt(scratch, u, x)
      OBVIOUS
    <2>6. /\ pending = <<>> => \A x \in Path : Inside(x, m) => SameAt(Merged, u, x)
          /\ pending = <<m>> => Pending(u, m)
          /\ pending \in {<<>>, <<m>>}
      OBVIOUS
    <2> HIDE DEF m
    <2>7. /\ Merged' = Merged
          /\ \A w : Spined(w)' <=> Spined(w)
          /\ \A t, w : Pending(t, w)' <=> Pending(t, w)
          /\ \A t, c, j : Waiting(t, c, j)' <=> Waiting(t, c, j)
      BY <2>1, SameTask
    <2> HIDE DEF Pending, Waiting
    <2>8. /\ \A i \in 1..Len(work') : \/ pending = <<m>> /\ work'[i] = m
                                      \/ \E j \in 1..Len(work) : work'[i] = work[j]
          /\ \A j \in 1..Len(work) : \E i \in 1..Len(work') : work'[i] = work[j]
          /\ pending = <<m>> => \E i \in 1..Len(work') : work'[i] = m
      <3> DEFINE all == work \o pending
      <3>1. work \in Seq(Path) /\ all = work \o pending /\ work' = all
        BY <2>1, <2>2 DEF WorkInv
      <3> HIDE DEF all
      <3>2. /\ \A i \in 1..Len(all) : \/ pending = <<m>> /\ all[i] = m
                                      \/ \E j \in 1..Len(work) : all[i] = work[j]
            /\ \A j \in 1..Len(work) : \E i \in 1..Len(all) : all[i] = work[j]
            /\ pending = <<m>> => \E i \in 1..Len(all) : all[i] = m
        <4> HIDE DEF all
        <4>1. work \in Seq(Path) /\ m \in Path /\ (pending = <<>> \/ pending = <<m>>) /\ all = work \o pending
          BY <2>3, <2>6, <3>1
        <4>2. \A i \in 1..Len(all) : (pending = <<m>> /\ all[i] = m) \/ \E j \in 1..Len(work) : all[i] = work[j]
          BY ONLY <4>1, Queued
        <4>3. \A j \in 1..Len(work) : \E i \in 1..Len(all) : all[i] = work[j]
          BY ONLY <4>1, Queued
        <4>4. pending = <<m>> => \E i \in 1..Len(all) : all[i] = m
          BY ONLY <4>1, Queued
        <4> QED
          BY <4>2, <4>3, <4>4
      <3> QED
        BY <3>1, <3>2
    <2>9. \A i \in 1..Len(work) : Pending(u, work[i])
      <3>1. \A i \in 1..Len(work) : ~Inside(m, work[i])
        BY <2>3, <2>4
      <3> QED
        BY <2>2, <2>3, <2>5, <3>1, PendingApart DEF ObjectInv
    <2>10. \A i \in 1..Len(work') : Pending(u, work'[i])
      BY <2>6, <2>8, <2>9
    <2>11. ASSUME NEW j \in todo, j # k PROVE Waiting(u, cur, j)
      <3>1. Waiting(scratch, cur, j)
        BY <2>2 DEF ObjectInv
      <3>2. ASSUME NEW p \in Path, Inside(p, Append(cur, j)) PROVE SameAt(scratch, u, p)
        <4>1. ~Inside(p, m)
          BY <2>3, <2>4, <2>11, <3>2, OnOneWay DEF Member
        <4> QED
          BY <2>5, <4>1
      <3> QED
        BY <3>1, <3>2 DEF Waiting, SameAt
    <2>12. ASSUME NEW p \in Path, ~Awaits(p)' PROVE SameAt(Merged, u, p)
      <3>1. \A j \in 1..Len(work) : ~Inside(p, work[j])
        BY <2>8, <2>12 DEF Awaits
      <3>2. \A j \in todo : j # k => ~Inside(p, Member(j))
        BY <2>1, <2>2, <2>12 DEF Awaits, Member
      <3>3. CASE Inside(p, m)
        <4>1. pending = <<>>
          BY <2>6, <2>8, <2>12, <3>3 DEF Awaits
        <4> QED
          BY <2>6, <3>3, <4>1
      <3>4. CASE ~Inside(p, m)
        <4>1. ~Awaits(p)
          BY <3>1, <3>2, <3>4 DEF Awaits, m
        <4>2. SameAt(Merged, scratch, p) /\ SameAt(scratch, u, p)
          BY <2>2, <2>5, <3>4, <4>1 DEF ObjectInv
        <4> QED
          BY <4>2 DEF SameAt
      <3> QED
        BY <3>3, <3>4
    <2>13. \A i \in 1..Len(work') : Pending(scratch, work[i])'
      BY <2>1, <2>7, <2>10
    <2>14. cur' # NoPath => cur' \in Path /\ Spined(cur)' /\ \A j \in todo' : Waiting(scratch, cur, j)'
      BY <2>1, <2>2, <2>3, <2>7, <2>11 DEF ObjectInv
    <2>15. \A p \in Path : ~Awaits(p)' => SameAt(Merged, scratch, p)'
      BY <2>1, <2>7, <2>12
    <2>16. ObjectInv'
      BY <2>13, <2>14, <2>15 DEF ObjectInv
    <2>17. Type(patch)' = "object" /\ IsMap(scratch)' /\ state' = "merging"
      BY <2>1, <2>2 
    <2> QED
      BY <2>16, <2>17 DEF MergedInv
  <1> QED
    BY <1>1, <1>2

\* What the merge in progress knows of the member it visits.
LEMMA MemberContext ==
    ASSUME MergeInv, MergedInv, Visiting, NEW k \in todo
    PROVE  /\ Given /\ IsTree(scratch) /\ IsMap(scratch) /\ IsTree(patch)
           /\ cur \in Path /\ k \in Nat /\ Spined(cur) /\ Waiting(scratch, cur, k)
           /\ cur \in DOMAIN scratch /\ scratch[cur].type = "object"
           /\ Member(k) \in Path /\ Member(k) \in DOMAIN patch
           /\ Type(At(patch, Member(k))) = patch[Member(k)].type
  BY VisitContext DEF MergeInv, MergedInv, ObjectInv, CurInv, Visiting, Given, Codes

\* Null deletes the member, as RFC 7396 has it.
LEMMA DeleteMerges ==
    ASSUME MergeInv, MergedInv, NEW k \in todo, Delete(k) PROVE MergedInv'
  <1> DEFINE m == Member(k)
             less == With(scratch, cur, Erased(At(scratch, cur), k))
             u == IF m \in DOMAIN scratch THEN less ELSE scratch
  <1>1. Visiting /\ Visited(k, u, 0, <<>>) /\ Type(At(patch, m)) = "null"
    BY DEF Delete
  <1>2. /\ Given /\ IsTree(scratch) /\ IsMap(scratch)
        /\ cur \in Path /\ k \in Nat /\ Spined(cur) /\ Waiting(scratch, cur, k)
        /\ cur \in DOMAIN scratch /\ scratch[cur].type = "object"
        /\ m \in Path /\ m \in DOMAIN patch /\ patch[m].type = "null" /\ m = Append(cur, k)
    BY <1>1, MemberContext DEF Member
  <1> HIDE DEF m
  <1>3. ASSUME NEW x \in Path
        PROVE  /\ IsMap(less)
               /\ ~Inside(x, m) => SameAt(scratch, less, x)
               /\ Inside(x, m) => x \notin DOMAIN less
    <2>1. less = With(scratch, cur, Erased(At(scratch, cur), k))
      OBVIOUS
    <2> HIDE DEF less
    <2> QED
      BY <1>2, <2>1, ErasedPlaces
  <1>4. ASSUME m \notin DOMAIN scratch, NEW x \in Path, Inside(x, m)
        PROVE  x \notin DOMAIN scratch
    <2>1. SUFFICES ASSUME x \in DOMAIN scratch PROVE FALSE
      OBVIOUS
    <2>2. x \in DOMAIN target /\ KeptTo(cur)
      BY <1>2, <1>4, <2>1 DEF Waiting
    <2>3. m \in DOMAIN target /\ Inside(m, m)
      BY <1>2, <1>4, <2>2, DocumentIs, InsideOrder DEF Given
    <2> QED
      BY <1>2, <1>4, <2>2, <2>3 DEF Waiting
  <1>5. ASSUME NEW x \in Path, Inside(x, m) PROVE x \notin DOMAIN Merged
    BY <1>2, <1>5, Overridden
  <1>6. /\ IsMap(u)
        /\ \A x \in Path : ~Inside(x, m) => SameAt(scratch, u, x)
        /\ \A x \in Path : Inside(x, m) => SameAt(Merged, u, x)
    <2> HIDE DEF less
    <2>1. CASE m \in DOMAIN scratch
      BY <1>2, <1>3, <1>5, <2>1 DEF SameAt
    <2>2. CASE m \notin DOMAIN scratch
      BY <1>2, <1>4, <1>5, <2>2 DEF SameAt
    <2> QED
      BY <2>1, <2>2
  <1> HIDE DEF u
  <1>7. <<>> # <<m>>
    OBVIOUS
  <1> QED
    BY <1>1, <1>6, <1>7, VisitedMerges DEF m

\* A value that is no object takes the member's place, as RFC 7396 has it.
LEMMA ReplaceMerges ==
    ASSUME MergeInv, MergedInv, NEW k \in todo, Replace(k) PROVE MergedInv'
  <1> DEFINE m == Member(k)
             u == With(scratch, m, At(patch, m))
             n == NodeCount(At(patch, m))
  <1>1. Visiting /\ Visited(k, u, n, <<>>) /\ Type(At(patch, m)) \notin {"null", "object"}
    BY DEF Replace
  <1>2. /\ Given /\ IsTree(patch) /\ cur \in Path /\ k \in Nat /\ Spined(cur)
        /\ m \in Path /\ m \in DOMAIN patch /\ patch[m].type \notin {"null", "object"}
        /\ m = Append(cur, k)
    BY <1>1, MemberContext DEF Member
  <1> HIDE DEF m
  <1>3. u = With(scratch, m, At(patch, m))
    OBVIOUS
  <1> HIDE DEF u, n
  <1>4. ASSUME NEW x \in Path
        PROVE  /\ IsMap(u)
               /\ ~Inside(x, m) => SameAt(scratch, u, x)
               /\ Inside(x, m) => SameAt(patch, u, x)
    BY <1>2, <1>3, WithPart
  <1>5. ASSUME NEW x \in Path, Inside(x, m) PROVE SameAt(Merged, u, x)
    <2>1. SameAt(patch, Merged, x)
      BY <1>2, <1>5, Overridden
    <2> QED
      BY <1>4, <1>5, <2>1 DEF SameAt
  <1>6. IsMap(u)
    BY <1>2, <1>4
  <1>7. <<>> # <<m>>
    OBVIOUS
  <1> QED
    BY <1>1, <1>4, <1>5, <1>6, <1>7, VisitedMerges DEF m

\* A member that is an object in the patch becomes a pending merge.
LEMMA DescendMerges ==
    ASSUME MergeInv, MergedInv, NEW k \in todo, Descend(k) PROVE MergedInv'
  <1> DEFINE m == Member(k)
             old == m \in DOMAIN scratch
             into == IF old THEN As(At(scratch, m), "object") ELSE Empty("object")
             u == With(scratch, m, into)
             n == IF old THEN 0 ELSE 1
  <1>1. Visiting /\ Visited(k, u, n, <<m>>) /\ Type(At(patch, m)) = "object"
    BY DEF Descend
  <1>2. /\ Given /\ IsTree(scratch) /\ cur \in Path /\ k \in Nat /\ Spined(cur)
        /\ Waiting(scratch, cur, k)
        /\ m \in Path /\ m \in DOMAIN patch /\ patch[m].type = "object" /\ m = Append(cur, k)
    BY <1>1, MemberContext DEF Member
  <1> HIDE DEF m
  <1>3. Spined(m) /\ (KeptTo(m) <=> KeptTo(cur) /\ Object(target, m)) /\ Inside(m, m)
    BY <1>2, SpinedMember, InsideOrder DEF Object
  <1>4. /\ m \in DOMAIN scratch <=> m \in DOMAIN target /\ KeptTo(cur)
        /\ m \in DOMAIN scratch => scratch[m] = target[m]
    BY <1>2, <1>3 DEF Waiting
  <1>5. /\ IsMap(u)
        /\ \A x \in Path : ~Inside(x, m) => SameAt(scratch, u, x)
        /\ Pending(u, m)
    <2>1. CASE old
      <3>1. u = With(scratch, m, As(At(scratch, m), "object"))
        BY <2>1
      <3>2. ASSUME NEW x \in Path
            PROVE  /\ IsMap(u)
                   /\ ~Inside(x, m) => SameAt(scratch, u, x)
                   /\ Inside(x, m) /\ x # m =>
                        /\ x \in DOMAIN u <=> x \in DOMAIN scratch /\ scratch[m].type = "object"
                        /\ x \in DOMAIN u => u[x] = scratch[x]
                   /\ u[m] = IF scratch[m].type = "object" THEN scratch[m]
                             ELSE Empty("object")[<<>>]
        <4> HIDE DEF u
        <4> QED
          <5>1. IsTree(scratch) /\ m \in DOMAIN scratch /\ m \in Path
            BY <1>2, <2>1
          <5> QED
            BY ONLY <3>1, <5>1, x \in Path, WithAs
      <3> HIDE DEF u
      <3>3. u[m] = Empty("object")[<<>>] /\ u[m].type = "object"
        <4>1. Empty("object")[<<>>].type = "object"
          BY DEF Empty, Leaf
        <4>2. Object(target, m) => target[m] = Empty("object")[<<>>]
          BY <1>2, DocumentIs DEF Given
        <4> QED
          BY <1>2, <1>4, <2>1, <3>2, <4>1, <4>2 DEF Object
      <3>4. ASSUME NEW p \in Path, Inside(p, m), p # m
            PROVE  /\ p \in DOMAIN u <=> p \in DOMAIN target /\ KeptTo(m)
                   /\ p \in DOMAIN u => u[p] = target[p]
        <4>1. /\ p \in DOMAIN scratch <=> p \in DOMAIN target /\ KeptTo(cur)
              /\ p \in DOMAIN scratch => scratch[p] = target[p]
          BY <1>2, <3>4 DEF Waiting
        <4>2. /\ p \in DOMAIN u <=> p \in DOMAIN scratch /\ scratch[m].type = "object"
              /\ p \in DOMAIN u => u[p] = scratch[p]
          BY <3>2, <3>4
        <4> QED
          BY <1>3, <1>4, <2>1, <4>1, <4>2 DEF Object
      <3>5. IsMap(u) /\ \A x \in Path : ~Inside(x, m) => SameAt(scratch, u, x)
        BY <1>2, <3>2
      <3>6. Pending(u, m)
        BY <1>2, <1>3, <3>3, <3>4 DEF Pending
      <3> QED
        BY <3>5, <3>6
    <2>2. CASE ~old
      <3>1. u = With(scratch, m, Empty("object"))
        BY <2>2
      <3> HIDE DEF u
      <3>2. ASSUME NEW x \in Path
            PROVE  /\ IsMap(u)
                   /\ ~Inside(x, m) => SameAt(scratch, u, x)
                   /\ Inside(x, m) => (x \in DOMAIN u <=> x = m)
                   /\ u[m] = Empty("object")[<<>>]
        <4>1. m \in Path
          BY <1>2
        <4> QED
          BY ONLY <3>1, <4>1, x \in Path, WithEmpty
      <3>3. ~KeptTo(m)
        BY <1>3, <1>4, <2>2 DEF Object
      <3>4. IsMap(u) /\ u[m] = Empty("object")[<<>>]
        BY <1>2, <3>2
      <3>5. Pending(u, m)
        BY <1>2, <1>3, <3>2, <3>3, <3>4 DEF Pending
      <3> QED
        BY <3>2, <3>4, <3>5
    <2> QED
      BY <2>1, <2>2
  <1> HIDE DEF u, n
  <1>6. <<m>> # <<>>
    OBVIOUS
  <1> QED
    BY <1>1, <1>5, <1>6, VisitedMerges DEF m

\* The merge taken off the list: its object is settled, and of what is below
\* only the members of the patch wait.
LEMMA PopMerges == ASSUME MergeInv, MergedInv, Pop PROVE MergedInv'
  <1> DEFINE c == work[Len(work)]
             u == With(scratch, c, As(At(scratch, c), "object"))
             ks == Slots(At(patch, c))
             front == SubSeq(work, 1, Len(work) - 1)
  <1>1. /\ state = "merging" /\ cur = NoPath /\ IsTree(scratch) /\ WorkInv /\ Given
        /\ work # <<>> /\ Type(patch) = "object" /\ ObjectInv
    BY DEF MergeInv, MergedInv, Pop, Between, Codes, Given
  <1>2. /\ cur' = c /\ todo' = ks /\ work' = front /\ scratch' = u
        /\ target' = target /\ patch' = patch /\ state' = state
    BY DEF Pop
  <1>3. /\ Len(work) \in Nat \ {0} /\ c \in Path /\ front \in Seq(Path)
        /\ Len(front) = Len(work) - 1
        /\ \A i \in 1..Len(front) : front[i] = work[i] /\ i \in 1..Len(work) /\ i # Len(work)
    <2>1. IsFront(front, work)
      BY <1>1 DEF WorkInv, IsFront
    <2> HIDE DEF front, c
    <2>2. Len(work) \in Nat \ {0} /\ work[Len(work)] \in Path
      BY ONLY <2>1, FrontOf
    <2>3. front \in Seq(Path) /\ Len(front) = Len(work) - 1
      BY ONLY <2>1, FrontOf
    <2>4. \A i \in 1..Len(front) : front[i] = work[i] /\ i \in 1..Len(work) /\ i # Len(work)
      BY ONLY <2>1, FrontOf
    <2> QED
      BY <2>2, <2>3, <2>4 DEF c
  <1>4. /\ c \in DOMAIN scratch /\ Pending(scratch, c)
        /\ \A i \in 1..Len(front) : /\ front[i] \in DOMAIN scratch /\ Pending(scratch, front[i])
                                    /\ ~Inside(front[i], c) /\ ~Inside(c, front[i])
    <2>1. /\ \A i \in 1..Len(work) : work[i] \in DOMAIN scratch /\ Pending(scratch, work[i])
          /\ \A i, j \in 1..Len(work) : i # j => ~Inside(work[i], work[j])
      BY <1>1 DEF WorkInv, ObjectInv, Live
    <2>2. Len(work) \in 1..Len(work)
      BY <1>3
    <2> HIDE DEF front
    <2>3. c \in DOMAIN scratch /\ Pending(scratch, c)
      BY <2>1, <2>2
    <2>4. \A i \in 1..Len(front) : front[i] \in DOMAIN scratch /\ Pending(scratch, front[i])
      BY <1>3, <2>1
    <2>5. \A i \in 1..Len(front) : ~Inside(front[i], c) /\ ~Inside(c, front[i])
      BY <1>3, <2>1, <2>2
    <2> QED
      BY <2>3, <2>4, <2>5
  <1>5. \A i \in 1..Len(work) : work[i] = c \/ \E j \in 1..Len(front) : front[j] = work[i]
    <2>1. \A i \in 1..Len(work) : i = Len(work) \/ i \in 1..Len(front)
      BY <1>3
    <2> QED
      BY <1>3, <2>1
  <1>6. u = With(scratch, c, As(At(scratch, c), "object"))
    OBVIOUS
  <1>7. Spined(c) /\ Inside(c, c) /\ IsTree(patch) /\ c \in DOMAIN patch
    BY <1>1, <1>3, <1>4, SpinedPlace, InsideOrder, DocumentIs DEF Pending, Given
  <1>8. \A k \in Nat : k \in ks <=> Append(c, k) \in DOMAIN patch
    BY <1>7, SlotsAreMembers, MembersAreSlots
  <1>9. ks \subseteq Nat
    BY <1>7, SlotsAreMembers
  <1>10. c # NoPath
    BY <1>7, MergeAssumption, <1>1 DEF Given
  <1> HIDE DEF c, u, ks, front
  <1>11. ASSUME NEW x \in Path
         PROVE  /\ IsMap(u)
                /\ ~Inside(x, c) => SameAt(scratch, u, x)
                /\ Inside(x, c) /\ x # c =>
                    /\ x \in DOMAIN u <=> x \in DOMAIN scratch /\ scratch[c].type = "object"
                    /\ x \in DOMAIN u => u[x] = scratch[x]
                /\ c \in DOMAIN u
                /\ u[c] = IF scratch[c].type = "object" THEN scratch[c] ELSE Empty("object")[<<>>]
    BY ONLY <1>1, <1>4, <1>6, x \in Path, WithAs
  <1>12. IsMap(u) /\ c \in DOMAIN u /\ u[c] = Empty("object")[<<>>]
    BY <1>3, <1>4, <1>11 DEF Pending
  <1>13. ASSUME NEW x \in Path, Inside(x, c), x # c
         PROVE  /\ x \in DOMAIN u <=> x \in DOMAIN target /\ KeptTo(c)
                /\ x \in DOMAIN u => u[x] = target[x]
    <2>1. /\ x \in DOMAIN scratch /\ scratch[c].type = "object" <=> x \in DOMAIN target /\ KeptTo(c)
          /\ x \in DOMAIN scratch /\ scratch[c].type = "object" => scratch[x] = target[x]
      BY <1>4, <1>13 DEF Pending
    <2>2. /\ x \in DOMAIN u <=> x \in DOMAIN scratch /\ scratch[c].type = "object"
          /\ x \in DOMAIN u => u[x] = scratch[x]
      BY <1>11, <1>13
    <2> QED
      BY <2>1, <2>2
  <1>14. ASSUME NEW i \in 1..Len(front) PROVE Pending(u, front[i])
    <2>1. \A x \in Path : ~Inside(x, c) => SameAt(scratch, u, x)
      BY <1>11
    <2> QED
      BY <1>3, <1>4, <2>1, PendingApart
  <1>15. ASSUME NEW k \in ks PROVE Waiting(u, c, k)
    <2>1. ASSUME NEW p \in Path, Inside(p, Append(c, k)) PROVE Inside(p, c) /\ p # c
      BY <1>3, <1>9, <2>1, InsideMember, InsideOrder
    <2> QED
      BY <1>13, <2>1 DEF Waiting
  <1>16. ASSUME NEW p \in Path, \A i \in 1..Len(front) : ~Inside(p, front[i]),
                \A k \in ks : ~Inside(p, Append(c, k))
         PROVE  SameAt(Merged, u, p)
    <2>1. CASE p = c
      BY <1>1, <1>3, <1>7, <1>12, <2>1, SpinedPlace DEF SameAt
    <2>2. CASE Inside(p, c) /\ p # c
      <3>1. PICK k \in Nat : Inside(p, Append(c, k))
        BY <1>3, <2>2, NextMember
      <3>2. Append(c, k) \notin DOMAIN patch
        BY <1>8, <1>16, <3>1
      <3>3. /\ p \in DOMAIN Merged <=> p \in DOMAIN target /\ KeptTo(c)
            /\ p \in DOMAIN Merged => Merged[p] = target[p]
        BY <1>1, <1>3, <1>7, <3>1, <3>2, NotPatched
      <3> QED
        BY <1>13, <2>2, <3>3 DEF SameAt
    <2>3. CASE ~Inside(p, c)
      <3>1. ~Awaits(p)
        BY <1>1, <1>5, <1>16, <2>3 DEF Awaits
      <3>2. SameAt(Merged, scratch, p) /\ SameAt(scratch, u, p)
        BY <1>1, <1>11, <2>3, <3>1 DEF ObjectInv
      <3> QED
        BY <3>2 DEF SameAt
    <2> QED
      BY <2>1, <2>2, <2>3
  <1>17. /\ Merged' = Merged
         /\ \A w : Spined(w)' <=> Spined(w)
         /\ \A t, w : Pending(t, w)' <=> Pending(t, w)
         /\ \A t, e, j : Waiting(t, e, j)' <=> Waiting(t, e, j)
    BY <1>2, SameTask
  <1>18. \A i \in 1..Len(work') : Pending(scratch, work[i])'
    BY <1>2, <1>14, <1>17
  <1>19. cur' # NoPath => cur' \in Path /\ Spined(cur)' /\ \A k \in todo' : Waiting(scratch, cur, k)'
    BY <1>2, <1>3, <1>7, <1>15, <1>17
  <1>20. ASSUME NEW p \in Path, ~Awaits(p)' PROVE SameAt(Merged, scratch, p)'
    <2>1. \A i \in 1..Len(front) : ~Inside(p, front[i])
      BY <1>2, <1>20 DEF Awaits
    <2>2. \A k \in ks : ~Inside(p, Append(c, k))
      BY <1>2, <1>10, <1>20 DEF Awaits, Member
    <2> QED
      BY <1>2, <1>16, <1>17, <2>1, <2>2
  <1>21. ObjectInv'
    BY <1>18, <1>19, <1>20 DEF ObjectInv
  <1>22. Type(patch)' = "object" /\ IsMap(scratch)' /\ state' = "merging"
    BY <1>1, <1>2, <1>12
  <1> QED
    BY <1>21, <1>22 DEF MergedInv

\* At first the whole document waits.
LEMMA BeginMerges == ASSUME MergeInv, MergedInv, Begin PROVE MergedInv'
  <1>1. Given /\ operations = 0 /\ cur = NoPath
    BY DEF MergeInv, MergedInv, Begin, Given, Codes
  <1>2. CASE Return("ResourceLimit")
    BY <1>2 DEF Return, MergedInv
  <1>3. CASE ~Return("ResourceLimit")
    <2>1. /\ Charge(0, NodeCount(target)) /\ scratch' = target /\ state' = "merging"
          /\ work' = IF Type(patch) = "object" THEN <<<<>>>> ELSE <<>>
          /\ target' = target /\ patch' = patch /\ cur' = cur /\ todo' = todo
      BY <1>3 DEF Begin
    <2>2. operations' = 0
      BY <1>1, <2>1 DEF Charge
    <2>3. IsMap(target) /\ IsTree(patch) /\ IsTree(target)
      BY <1>1, DocumentIs DEF Given
    <2>4. ASSUME Type(patch) = "object" PROVE ObjectInv'
      <3>1. work' = <<<<>>>>
        BY <2>1, <2>4
      <3>2. Len(work') = 1 /\ work'[1] = <<>> /\ \A i \in 1..Len(work') : work'[i] = <<>>
        BY <3>1
      <3>3. <<>> \in Path /\ \A p \in Path : Inside(p, <<>>)
        <4>1. <<>> \in Path /\ Len(<<>>) = 0
          BY EmptySeq DEF Path
        <4>2. \A p \in Path : Len(p) \in Nat
          BY DEF Path
        <4> QED
          BY <4>1, <4>2, InsideSlots
      <3>4. \A q : q \in Prefixes(<<>>) <=> q = <<>>
        <4>1. \A q \in Path : Inside(<<>>, q) => q = <<>>
          BY <3>3, InsideOrder
        <4> QED
          BY <3>3, <4>1, PrefixesAre
      <3>5. Spined(<<>>) /\ (KeptTo(<<>>) <=> Object(target, <<>>))
        BY <2>3, <2>4, <3>4 DEF Spined, KeptTo, Object, Type, IsTree
      <3>6. Pending(target, <<>>)
        <4>1. Object(target, <<>>) <=> target[<<>>].type = "object"
          BY <2>3 DEF Object, IsTree
        <4>2. target[<<>>].type = "object" => target[<<>>] = Empty("object")[<<>>]
          BY <1>1, <4>1, DocumentIs DEF Given
        <4> QED
          BY <3>3, <3>5, <4>1, <4>2 DEF Pending
      <3>7. \A p \in Path : Awaits(p)'
        BY <3>2, <3>3 DEF Awaits
      <3>8. \A t, w : Pending(t, w)' <=> Pending(t, w)
        BY <2>1, SameTask
      <3>9. \A i \in 1..Len(work') : Pending(scratch, work[i])'
        BY <2>1, <3>2, <3>6, <3>8
      <3> QED
        BY <1>1, <2>1, <3>7, <3>9 DEF ObjectInv
    <2>5. ScalarInv'
      BY <2>2 DEF ScalarInv
    <2> QED
      BY <2>1, <2>3, <2>4, <2>5 DEF MergedInv
  <1> QED
    BY <1>2, <1>3

\* A patch that is no object is the result.
LEMMA ReplaceDocumentMerges ==
    ASSUME MergeInv, MergedInv, ReplaceDocument PROVE MergedInv'
  <1>1. Given /\ operations = 0 /\ Type(patch) # "object"
    BY DEF MergeInv, ReplaceDocument, Given, Codes
  <1>2. CASE Return("ResourceLimit")
    BY <1>2 DEF Return, MergedInv
  <1>3. CASE ~Return("ResourceLimit")
    <2>1. /\ Charge(1, NodeCount(patch)) /\ scratch' = patch /\ patch' = patch
          /\ state' = state
      BY <1>3 DEF ReplaceDocument
    <2>2. operations' = 1 /\ IsMap(patch) /\ state' # "called"
      BY <1>1, <2>1, DocumentIs DEF Charge, Given, ReplaceDocument
    <2> QED
      BY <1>1, <2>1, <2>2 DEF MergedInv, ScalarInv
  <1> QED
    BY <1>2, <1>3

\* An object without members has nothing that waits.
LEMMA EmptyObjectMerges == ASSUME MergeInv, MergedInv, EmptyObject PROVE MergedInv'
  <1>1. /\ state = "merging" /\ cur # NoPath /\ todo = {} /\ Type(patch) = "object" /\ ObjectInv
    BY DEF MergeInv, MergedInv, EmptyObject, Visiting
  <1>2. /\ cur' = NoPath /\ target' = target /\ patch' = patch /\ scratch' = scratch
        /\ work' = work /\ todo' = todo /\ state' = state
    BY DEF EmptyObject
  <1>3. Merged' = Merged /\ \A t, w : Pending(t, w)' <=> Pending(t, w)
    BY <1>2, SameTask
  <1>4. \A p : Awaits(p)' <=> Awaits(p)
    BY <1>1, <1>2 DEF Awaits
  <1>5. \A i \in 1..Len(work') : Pending(scratch, work[i])'
    BY <1>1, <1>2, <1>3 DEF ObjectInv
  <1>6. \A p \in Path : ~Awaits(p)' => SameAt(Merged, scratch, p)'
    BY <1>1, <1>2, <1>3, <1>4 DEF ObjectInv
  <1>7. ObjectInv'
    BY <1>2, <1>5, <1>6 DEF ObjectInv
  <1> QED
    BY <1>1, <1>2, <1>7 DEF MergedInv

\* When nothing waits the clone is what RFC 7396 asks for.
LEMMA CompleteIsMerged ==
    ASSUME MergeInv, MergedInv, Complete
    PROVE  scratch = Merged
  <1>1. /\ state = "merging" /\ cur = NoPath /\ work = <<>> /\ Given /\ IsTree(scratch)
        /\ IsMap(scratch)
        /\ Type(patch) = "object" \/ operations = 1
    BY DEF MergeInv, MergedInv, Complete, Between, Given, Codes
  <1>2. CASE Type(patch) # "object"
    BY <1>1, <1>2, WholeDocument DEF MergedInv, ScalarInv
  <1>3. CASE Type(patch) = "object"
    <2>1. \A p : ~Awaits(p)
      <3>1. Len(work) = 0
        BY <1>1
      <3> QED
        BY <1>1, <3>1 DEF Awaits
    <2>2. \A p \in Path : SameAt(Merged, scratch, p)
      BY <1>1, <1>3, <2>1 DEF MergedInv, ObjectInv
    <2>3. DOMAIN Merged \subseteq Path /\ DOMAIN scratch \subseteq Path
      BY <1>1, MergedAt, DocumentIs DEF Given, IsTree
    <2>4. DOMAIN scratch = DOMAIN Merged /\ \A p \in DOMAIN scratch : scratch[p] = Merged[p]
      BY <2>2, <2>3 DEF SameAt
    <2>5. IsMap(Merged)
      BY DEF IsMap, Merged
    <2> QED
      BY <1>1, <2>4, <2>5 DEF IsMap
  <1> QED
    BY <1>2, <1>3

\* MergedInv is inductive, relative to MergeInv.
LEMMA MergedStep == MergeInv /\ MergedInv /\ [Next]_vars => MergedInv'
  <1> SUFFICES ASSUME MergeInv, MergedInv, [Next]_vars PROVE MergedInv'
    OBVIOUS
  <1>1. CASE Begin
    BY <1>1, BeginMerges
  <1>2. CASE ReplaceDocument
    BY <1>2, ReplaceDocumentMerges
  <1>3. CASE Pop
    BY <1>3, PopMerges
  <1>4. CASE Visit
    BY <1>4, DeleteMerges, DescendMerges, ReplaceMerges DEF Visit
  <1>5. CASE EmptyObject
    BY <1>5, EmptyObjectMerges
  <1>6. CASE Publish
    BY <1>6 DEF Publish, MergedInv
  <1>7. CASE Fails
    BY <1>7 DEF Fails, Return, MergedInv
  <1>8. CASE UNCHANGED vars
    <2>1. /\ target' = target /\ patch' = patch /\ scratch' = scratch /\ work' = work
          /\ cur' = cur /\ todo' = todo /\ operations' = operations /\ state' = state
      BY <1>8 DEF vars
    <2>2. /\ Merged' = Merged
          /\ \A w : Spined(w)' <=> Spined(w)
          /\ \A t, w : Pending(t, w)' <=> Pending(t, w)
          /\ \A t, c, j : Waiting(t, c, j)' <=> Waiting(t, c, j)
      BY <2>1, SameTask
    <2>3. \A p : Awaits(p)' <=> Awaits(p)
      BY <2>1 DEF Awaits, Member
    <2>4. ASSUME ObjectInv PROVE ObjectInv'
      <3>1. \A i \in 1..Len(work') : Pending(scratch, work[i])'
        BY <2>1, <2>2, <2>4 DEF ObjectInv
      <3>2. cur' # NoPath => cur' \in Path /\ Spined(cur)' /\ \A k \in todo' : Waiting(scratch, cur, k)'
        BY <2>1, <2>2, <2>4 DEF ObjectInv
      <3>3. \A p \in Path : ~Awaits(p)' => SameAt(Merged, scratch, p)'
        BY <2>1, <2>2, <2>3, <2>4 DEF ObjectInv
      <3> QED
        BY <3>1, <3>2, <3>3 DEF ObjectInv
    <2> QED
      BY <2>1, <2>4 DEF MergedInv, ScalarInv
  <1> QED
    BY <1>1, <1>2, <1>3, <1>4, <1>5, <1>6, <1>7, <1>8 DEF Next

-----------------------------------------------------------------------------
(* Theorems.                                                                *)

\* The variables of a call keep their types (applyMergePatchTo).
THEOREM MergeTypeCorrect == Spec => []MergeTypeOK
  <1>1. MergeInv => MergeTypeOK
    BY DEF MergeInv, CountInv, MergeTypeOK
  <1> QED
    BY <1>1, MergeInit, MergeStep, PTL DEF Spec

\* Whatever documents are merged and in whatever order members are visited,
\* no deletion or replacement invalidates a pointer on the work list of
\* applyMergePatchTo.
THEOREM PendingStaysLive == Spec => []PendingIsLive
  <1>1. MergeInv => PendingIsLive
    BY DEF MergeInv, WorkInv, Live, PendingIsLive
  <1> QED
    BY <1>1, MergeInit, MergeStep, PTL DEF Spec

\* Every node of the clone was charged to the budget before it was made
\* (chargePatch in applyMergePatchTo), whatever the budget.
THEOREM CloneIsCharged == Spec => []NoFreeNodes
  <1>1. MergeInv => NoFreeNodes
    BY DEF MergeInv, CountInv, NoFreeNodes
  <1> QED
    BY <1>1, MergeInit, MergeStep, PTL DEF Spec

\* Whatever the documents and the order in which members are visited, a call
\* to applyMergePatchTo that succeeds leaves what RFC 7396 defines, and one
\* that fails at any point leaves the target alone.
THEOREM MergeIsExact == Spec => MergesOrNothing
  <1>1. MergeInv /\ MergedInv /\ [Next]_vars =>
            [IF state' = "Ok" /\ state # "Ok" THEN target' = Merged ELSE target' = target]_vars
    <2> SUFFICES ASSUME MergeInv, MergedInv, Next
                 PROVE  IF state' = "Ok" /\ state # "Ok" THEN target' = Merged ELSE target' = target
      OBVIOUS
    <2>1. CASE Publish
      BY <2>1, CompleteIsMerged DEF Publish, Complete, Between
    <2>2. ASSUME ~Publish PROVE target' = target /\ ~(state' = "Ok" /\ state # "Ok")
      <3>1. CASE Begin
        BY <3>1 DEF Begin, Return
      <3>2. CASE ReplaceDocument
        BY <3>2 DEF ReplaceDocument, Return
      <3>3. CASE Visit
        BY <3>3 DEF Visit, Delete, Descend, Replace, Visited, Return
      <3>4. CASE Pop \/ EmptyObject \/ Fails
        BY <3>4 DEF Pop, EmptyObject, Fails, Return
      <3> QED
        BY <2>2, <3>1, <3>2, <3>3, <3>4 DEF Next
    <2> QED
      BY <2>1, <2>2
  <1>2. Init => MergedInv
    BY DEF Init, MergedInv
  <1> QED
    BY <1>1, <1>2, MergeInit, MergeStep, MergedStep, PTL DEF Spec, MergesOrNothing
=============================================================================
