------------------------------ MODULE Dispose ------------------------------
(***************************************************************************)
(* Tearing down a subtree (pjsonImpl::_disposeChildren and reset in        *)
(* pjsonlib/src/pjson.cpp): no recursion and no allocation, the pending    *)
(* nodes are linked through a field of their own storage.  Different       *)
(* documents may be torn down by different threads at once; all they share *)
(* is the storage object of null values.                                   *)
(*                                                                         *)
(* A thread stands for the root it tears down as well.  Children come out  *)
(* of a container in any order.                                            *)
(***************************************************************************)
EXTENDS Naturals, FiniteSets

CONSTANTS
    Threads,
    NodeCount,      \* the children are 1..NodeCount
    Nil,            \* the null pointer
    NullCell        \* the link field of the shared null storage

Nodes == 1..NodeCount
Parents == Nodes \cup Threads

ASSUME DisposeAssumption ==
    /\ NodeCount \in Nat
    /\ Threads \cap Nodes = {} /\ Nil \notin Parents /\ NullCell \notin Parents

VARIABLES
    kids,       \* [Parents -> SUBSET Nodes]
    nulls,      \* the nodes that have no storage of their own
    disposeNext,\* the link fields: one per node and that of the null storage
    frees,      \* history: how often each node was released
    family,     \* history: kids at the start
    pending,    \* the head of each thread's list
    cur,        \* the node whose children the thread walks, or Nil
    todo,       \* its children not yet walked
    state       \* "live", "busy" or "done"

vars == <<kids, nulls, disposeNext, frees, family, pending, cur, todo, state>>

\* The field written through n->_pImpl.
Link(n) == IF n \in nulls THEN NullCell ELSE n

Set(f, t, v) == [f EXCEPT ![t] = v]
Free(n) == frees' = [frees EXCEPT ![n] = @ + 1]

-----------------------------------------------------------------------------
Begin(t) ==
    /\ state[t] = "live"
    /\ state' = Set(state, t, "busy")
    /\ cur' = Set(cur, t, t)
    /\ todo' = Set(todo, t, kids[t])
    /\ UNCHANGED <<kids, nulls, disposeNext, frees, family, pending>>

Walking(t) == state[t] = "busy" /\ cur[t] # Nil

\* A null child is released on the spot: it has no field to link it by.
DropNull(t) ==
    /\ Walking(t)
    /\ \E c \in todo[t] \cap nulls :
        /\ Free(c)
        /\ todo' = Set(todo, t, todo[t] \ {c})
    /\ UNCHANGED <<kids, nulls, disposeNext, family, pending, cur, state>>

\* Mutant: every child is linked.
Push_Any(t) ==
    /\ Walking(t)
    /\ \E c \in todo[t] :
        /\ disposeNext' = [disposeNext EXCEPT ![Link(c)] = pending[t]]
        /\ pending' = Set(pending, t, c)
        /\ todo' = Set(todo, t, todo[t] \ {c})
    /\ UNCHANGED <<kids, nulls, frees, family, cur, state>>

\* Mutant: the rest of the list is lost.
Push_Loses(t) ==
    /\ Walking(t)
    /\ \E c \in todo[t] \ nulls :
        /\ pending' = Set(pending, t, c)
        /\ todo' = Set(todo, t, todo[t] \ {c})
    /\ UNCHANGED <<kids, nulls, disposeNext, frees, family, cur, state>>

Push(t) ==
    /\ Walking(t)
    /\ \E c \in todo[t] \ nulls :
        /\ disposeNext' = [disposeNext EXCEPT ![Link(c)] = pending[t]]
        /\ pending' = Set(pending, t, c)
        /\ todo' = Set(todo, t, todo[t] \ {c})
    /\ UNCHANGED <<kids, nulls, frees, family, cur, state>>

\* Mutant: the container is not cleared.
Emptied_Keeps(t) ==
    /\ Walking(t) /\ todo[t] = {}
    /\ IF cur[t] \in Nodes THEN Free(cur[t]) ELSE UNCHANGED frees
    /\ cur' = Set(cur, t, Nil)
    /\ UNCHANGED <<kids, nulls, disposeNext, family, pending, todo, state>>

\* Mutant: the walk of the root is not left.
Emptied_RootStays(t) ==
    /\ Walking(t) /\ todo[t] = {}
    /\ kids' = Set(kids, cur[t], {})
    /\ IF cur[t] \in Nodes THEN Free(cur[t]) ELSE UNCHANGED frees
    /\ cur' = Set(cur, t, IF cur[t] = t THEN t ELSE Nil)
    /\ UNCHANGED <<nulls, disposeNext, family, pending, todo, state>>

\* The container is cleared; below the root its node is released.
Emptied(t) ==
    /\ Walking(t) /\ todo[t] = {}
    /\ kids' = Set(kids, cur[t], {})
    /\ IF cur[t] \in Nodes THEN Free(cur[t]) ELSE UNCHANGED frees
    /\ cur' = Set(cur, t, Nil)
    /\ UNCHANGED <<nulls, disposeNext, family, pending, todo, state>>

Pop(t) ==
    /\ state[t] = "busy" /\ cur[t] = Nil /\ pending[t] # Nil
    /\ LET p == pending[t]
       IN  /\ pending' = Set(pending, t, disposeNext[Link(p)])
           /\ disposeNext' = [disposeNext EXCEPT ![Link(p)] = Nil]
           /\ cur' = Set(cur, t, p)
           /\ todo' = Set(todo, t, kids[p])
    /\ UNCHANGED <<kids, nulls, frees, family, state>>

Finish(t) ==
    /\ state[t] = "busy" /\ cur[t] = Nil /\ pending[t] = Nil
    /\ state' = Set(state, t, "done")
    /\ UNCHANGED <<kids, nulls, disposeNext, frees, family, pending, cur, todo>>

\* Any forest: the parent of a node is a smaller node or a root.
Init ==
    /\ \E parent \in [Nodes -> Parents] :
        /\ \A n \in Nodes : parent[n] \in Threads \cup 1..(n - 1)
        /\ kids = [p \in Parents |-> {n \in Nodes : parent[n] = p}]
    /\ nulls \in SUBSET {n \in Nodes : kids[n] = {}}
    /\ disposeNext = [c \in Nodes \cup {NullCell} |-> Nil]
    /\ frees = [n \in Nodes |-> 0]
    /\ family = kids
    /\ pending = [t \in Threads |-> Nil]
    /\ cur = [t \in Threads |-> Nil]
    /\ todo = [t \in Threads |-> {}]
    /\ state = [t \in Threads |-> "live"]

Step(t) ==
    Begin(t) \/ DropNull(t) \/ Push(t) \/ Emptied(t) \/ Pop(t) \/ Finish(t)

Next == \E t \in Threads : Step(t)

\* A thread in a destructor keeps running it.
Spec == Init /\ [][Next]_vars /\ \A t \in Threads : WF_vars(state[t] = "busy" /\ Step(t))

-----------------------------------------------------------------------------
(* Properties.                                                              *)

\* The nodes a thread's list holds: every set that has the head and the node
\* after each of its members has them all.
Listed(t) ==
    {n \in Nodes : \A S \in SUBSET Nodes :
        /\ pending[t] \in S \cup {Nil}
        /\ \A m \in S : disposeNext[Link(m)] \in S \cup {Nil}
        => n \in S}

\* The nodes below a root when nothing was torn down yet.
Descendants(t) ==
    {n \in Nodes : \A S \in SUBSET Nodes :
        family[t] \subseteq S /\ (\A m \in S : family[m] \subseteq S) => n \in S}

\* The places a node is reached from: the head of a list, the link of the node
\* before it, the rest of a walk, the walk itself, and a container that is not
\* being walked.
Places == {"pending", "link", "todo", "cur", "kids"}
Held(place, x, n) ==
    \/ place = "pending" /\ x \in Threads /\ pending[x] = n
    \/ place = "link" /\ x \in Nodes /\ disposeNext[x] = n
    \/ place = "todo" /\ x \in Threads /\ n \in todo[x]
    \/ place = "cur" /\ x \in Threads /\ cur[x] = n
    \/ place = "kids" /\ x \in Parents /\ n \in kids[x] /\ \A t \in Threads : cur[t] # x

\* At every moment a node that is not released is reached from exactly one place,
\* and one that is released was released once and is reached from none: nothing
\* leaks, dangles or is handed to two threads half-way through.
OneHolder ==
    \A n \in Nodes :
        LET holders == {h \in Places \X Parents : Held(h[1], h[2], n)}
        IN  /\ frees[n] \in {0, 1}
            /\ frees[n] = 0 <=> holders # {}
            /\ \A g, h \in holders : g = h

\* What a thread may still touch has not been released, and no other thread
\* holds it.
HoldsOnlyLive ==
    \A t \in Threads :
        LET held == Listed(t) \cup todo[t] \cup ({cur[t]} \ {Nil, t})
        IN  /\ \A n \in held : frees[n] = 0
            /\ held \subseteq Descendants(t)

\* No use after free and no double release: a teardown that is finished has
\* released every descendant exactly once, one that has not begun none, and what
\* one under way still holds is its own and alive.
AllReleased ==
    /\ HoldsOnlyLive /\ OneHolder
    /\ \A t \in Threads : \A n \in Descendants(t) :
        /\ state[t] = "done" => frees[n] = 1
        /\ state[t] = "live" => frees[n] = 0

\* A node is released with its container empty, so that its destructor does
\* not descend: the depth of the document never becomes depth of the stack.
StackSafe ==
    [][\A n \in Nodes : frees'[n] # frees[n] => kids'[n] = {}]_vars

\* The shared null storage, which every document refers to, is never written.
NullStorageKept == disposeNext[NullCell] = Nil

\* The link fields are null whenever no teardown is under way, also that of the
\* shared null storage.
LinksAreClean ==
    /\ NullStorageKept
    /\ \A n \in Nodes : frees[n] = 0 /\ (\A t \in Threads : n \notin Listed(t)) =>
        disposeNext[n] = Nil

\* Every teardown that has begun ends.
Ends == \A t \in Threads : state[t] = "busy" ~> state[t] = "done"
=============================================================================
