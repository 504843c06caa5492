----------------------------- MODULE MergePatch -----------------------------
(***************************************************************************)
(* JSON Merge Patch (pjsonlib/src/pjson_patch.cpp, RFC 7396).  The target  *)
(* is cloned, the patch is merged into the clone with an explicit work     *)
(* list instead of recursion, and the clone is swapped in at the end.      *)
(*                                                                         *)
(* A pending merge pairs an object of the clone with an object of the      *)
(* patch; both are found under the same member names, so one path stands   *)
(* for the two pointers.  The members of a patch object are visited in any *)
(* order.  The operation and node budgets are counted; the byte and work   *)
(* budgets run out nondeterministically.                                   *)
(***************************************************************************)
EXTENDS Trees

CONSTANTS
    Targets,        \* the documents a caller may patch
    Patches,        \* the merge patches a caller may apply
    maxOperations, maxClonedNodes,
    NoPath          \* no object is being merged

\* What the model takes for documents; an object has nothing but its members.
ASSUME MergeAssumption ==
    /\ maxOperations \in Nat /\ maxClonedNodes \in Nat
    /\ \A t \in Targets \cup Patches :
        /\ IsDocument(t) /\ NoPath \notin DOMAIN t
        /\ \A p \in DOMAIN t : t[p].type = "object" => t[p] = Empty("object")[<<>>]

VARIABLES
    target,     \* the caller's document
    patch,      \* the merge patch
    scratch,    \* the private clone
    work,       \* pending merges, last in first out
    cur,        \* the merge in progress
    todo,       \* its members not yet visited
    operations, \* members charged
    nodes,      \* cloned nodes charged
    state       \* "called", "merging", or the code the call returned

vars == <<target, patch, scratch, work, cur, todo, operations, nodes, state>>

Return(code) ==
    /\ state' = code
    /\ scratch' = Null
    /\ UNCHANGED <<target, patch, work, cur, todo, operations, nodes>>

\* chargePatch on the two counted budgets.
Affordable(ops, n) ==
    ops <= maxOperations - operations /\ n <= maxClonedNodes - nodes
Charge(ops, n) == operations' = operations + ops /\ nodes' = nodes + n

-----------------------------------------------------------------------------
\* applyMergePatch up to the clone of the target; an object patch becomes the
\* first pending merge.
Begin ==
    /\ state = "called"
    /\ IF ~Affordable(0, NodeCount(target)) THEN Return("ResourceLimit")
       ELSE /\ Charge(0, NodeCount(target))
            /\ scratch' = target
            /\ work' = IF Type(patch) = "object" THEN <<<<>>>> ELSE <<>>
            /\ state' = "merging"
            /\ UNCHANGED <<target, patch, cur, todo>>

\* A patch that is no object replaces the whole document.
ReplaceDocument ==
    /\ state = "merging" /\ Type(patch) # "object" /\ operations = 0
    /\ IF ~Affordable(1, NodeCount(patch)) THEN Return("ResourceLimit")
       ELSE /\ Charge(1, NodeCount(patch))
            /\ scratch' = patch
            /\ UNCHANGED <<target, patch, work, cur, todo, state>>

Between == state = "merging" /\ cur = NoPath
Visiting == state = "merging" /\ cur # NoPath

\* Mutant: the item is not taken off the list.
Pop_Keeps ==
    /\ Between /\ work # <<>>
    /\ cur' = work[Len(work)]
    /\ todo' = Slots(At(patch, cur'))
    /\ scratch' = With(scratch, cur', As(At(scratch, cur'), "object"))
    /\ UNCHANGED <<target, patch, work, operations, nodes, state>>

Pop ==
    /\ Between /\ work # <<>>
    /\ cur' = work[Len(work)]
    /\ work' = SubSeq(work, 1, Len(work) - 1)
    /\ todo' = Slots(At(patch, cur'))
    /\ scratch' = With(scratch, cur', As(At(scratch, cur'), "object"))
    /\ UNCHANGED <<target, patch, operations, nodes, state>>

Member(k) == Append(cur, k)

\* A member of the patch has been visited; `cloned` nodes went into `t`.
Visited(k, t, cloned, pending) ==
    IF ~Affordable(1, cloned) THEN Return("ResourceLimit")
    ELSE /\ Charge(1, cloned)
         /\ scratch' = t
         /\ work' = work \o pending
         /\ todo' = todo \ {k}
         /\ cur' = IF todo = {k} THEN NoPath ELSE cur
         /\ UNCHANGED <<target, patch, state>>

\* Null deletes the member.
Delete(k) ==
    /\ Visiting /\ k \in todo
    /\ Type(At(patch, Member(k))) = "null"
    /\ Visited(k, IF Member(k) \in DOMAIN scratch
                  THEN With(scratch, cur, Erased(At(scratch, cur), k)) ELSE scratch,
               0, <<>>)

\* Mutant: the new member is not charged.
Descend_Uncharged(k) ==
    /\ Visiting /\ k \in todo
    /\ Type(At(patch, Member(k))) = "object"
    /\ Visited(k, With(scratch, Member(k),
                       IF Member(k) \in DOMAIN scratch
                       THEN As(At(scratch, Member(k)), "object") ELSE Empty("object")),
               0, <<Member(k)>>)

\* Mutant: a member that is not there is queued without being created.
Descend_NotCreated(k) ==
    /\ Visiting /\ k \in todo
    /\ Type(At(patch, Member(k))) = "object"
    /\ LET old == Member(k) \in DOMAIN scratch
       IN  Visited(k, IF old THEN With(scratch, Member(k), As(At(scratch, Member(k)), "object"))
                      ELSE scratch, 0, <<Member(k)>>)

\* An object is merged later into the member, made an object if need be.
Descend(k) ==
    /\ Visiting /\ k \in todo
    /\ Type(At(patch, Member(k))) = "object"
    /\ LET old == Member(k) \in DOMAIN scratch
           into == IF old THEN As(At(scratch, Member(k)), "object") ELSE Empty("object")
       IN  Visited(k, With(scratch, Member(k), into), IF old THEN 0 ELSE 1, <<Member(k)>>)

\* Any other value takes the member's place.
Replace(k) ==
    /\ Visiting /\ k \in todo
    /\ LET x == At(patch, Member(k))
       IN  /\ Type(x) \notin {"null", "object"}
           /\ Visited(k, With(scratch, Member(k), x), NodeCount(x), <<>>)

\* The patch object has no members.
EmptyObject ==
    /\ Visiting /\ todo = {}
    /\ cur' = NoPath
    /\ UNCHANGED <<target, patch, scratch, work, todo, operations, nodes, state>>

Complete == Between /\ work = <<>> /\ (Type(patch) = "object" \/ operations = 1)

\* Publication by swap.
Publish ==
    /\ Complete
    /\ target' = scratch
    /\ scratch' = Null
    /\ state' = "Ok"
    /\ UNCHANGED <<patch, work, cur, todo, operations, nodes>>

\* Mutant: the merge works on the target itself.
Fails_Publishes ==
    /\ state = "merging"
    /\ \E code \in {"ResourceLimit", "AllocationFailure"} : state' = code
    /\ target' = scratch
    /\ scratch' = Null
    /\ UNCHANGED <<patch, work, cur, todo, operations, nodes>>

\* A byte or work charge, or an allocation, fails while there is work left.
Fails ==
    /\ state \in {"called", "merging"} /\ ~Complete
    /\ \E code \in {"ResourceLimit", "AllocationFailure"} : Return(code)

Init ==
    /\ target \in Targets /\ patch \in Patches
    /\ scratch = Null
    /\ work = <<>> /\ cur = NoPath /\ todo = {}
    /\ operations = 0 /\ nodes = 0
    /\ state = "called"

Visit == \E k \in todo : Delete(k) \/ Descend(k) \/ Replace(k)

Next == Begin \/ ReplaceDocument \/ Pop \/ Visit \/ EmptyObject \/ Publish \/ Fails

\* The loop is sequential code: it takes a step whenever it can.
Spec == Init /\ [][Next]_vars /\ WF_vars(Next)

-----------------------------------------------------------------------------
(* RFC 7396 path by path, without recursion.  The patch overrides what is   *)
(* at or below its first value on the way to p that is no object; elsewhere *)
(* its objects are there, with what the target has below its own objects.   *)

Spine(p) == {q \in Prefixes(p) : q \in DOMAIN patch /\ patch[q].type = "object"}
Overrides(p) ==
    {q \in Prefixes(p) : q \in DOMAIN patch /\ patch[q].type # "object"
                         /\ Prefixes(q) \ {q} \subseteq Spine(p)}
Deleted(p) == \E q \in Overrides(p) : q # <<>> /\ patch[q].type = "null"
Kept(p) == p \in DOMAIN target /\ \A q \in Spine(p) : target[q].type = "object"

MergedPaths ==
    {p \in DOMAIN patch : ~Deleted(p)}
    \cup {p \in DOMAIN target : Overrides(p) = {} /\ Kept(p)}
Merged == [p \in MergedPaths |-> IF p \in DOMAIN patch THEN patch[p] ELSE target[p]]

-----------------------------------------------------------------------------
(* Properties.                                                              *)

Codes == {"Ok", "ResourceLimit", "AllocationFailure"}

\* Type invariant.
MergeTypeOK ==
    /\ state \in {"called", "merging"} \cup Codes
    /\ operations \in 0..maxOperations /\ nodes \in 0..maxClonedNodes
    /\ todo # {} => cur # NoPath
    /\ target \in Targets \/ state = "Ok"

\* Whatever the order of the members, a call that succeeds leaves what RFC
\* 7396 defines, and one that fails at any point leaves the target alone.
MergesOrNothing ==
    [][IF state' = "Ok" /\ state # "Ok" THEN target' = Merged ELSE target' = target]_vars

\* No deletion or replacement removes an object a pending merge refers to:
\* the pointers on the work list stay valid, on both sides.
PendingIsLive ==
    state = "merging" =>
        \A i \in 1..Len(work) :
            /\ work[i] \in DOMAIN scratch /\ work[i] \in DOMAIN patch
            /\ patch[work[i]].type = "object"

\* Every node of the clone was charged.
NoFreeNodes == state = "merging" => NodeCount(scratch) <= nodes

\* The work list runs dry: every call returns.
Returns == <>(state \in Codes)
=============================================================================
