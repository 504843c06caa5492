----------------------------- MODULE DomRefine -----------------------------
(***************************************************************************)
(* The heap-level DOM implements documents-as-values (Doc).  A document is *)
(* the tree a caller reads from its handle; while an operation runs, the   *)
(* caller sees the heap as it was when the operation was called.           *)
(***************************************************************************)
EXTENDS Dom

\* The paths below each node, the node at the end of one, and the tree a
\* caller reads from n.
Paths(h, n) ==
    LET below[m \in Live(h)] ==
            {<<>>} \cup UNION {{<<s>> \o p : p \in below[KidsOf(h, m)[s]]} :
                                s \in DOMAIN KidsOf(h, m)}
    IN  below[n]
NodeAt(h, n, p) ==
    LET at[i \in 0..Len(p)] == IF i = 0 THEN n ELSE KidsOf(h, at[i - 1])[p[i]]
    IN  at[Len(p)]
TreeOf(h, n) ==
    [p \in Paths(h, n) |->
        [type |-> TypeOf(h, NodeAt(h, n, p)), val |-> h[NodeAt(h, n, p)].impl.val]]

Seen == IF Running THEN job.snap ELSE heap
docBar == [r \in Roots |-> IF Seen[r].live THEN TreeOf(Seen, r) ELSE None]

Values == INSTANCE Doc WITH doc <- docBar, Absent <- None

\* Value semantics: whatever the aliasing between source and destination, in
\* whichever order the storage is copied, adopted and released, and whichever
\* allocation fails, every operation is one step of Doc or no step at all.
DocSpec == Values!Spec

-----------------------------------------------------------------------------
(* Doc does not say which operation a caller asked for; the calls whose     *)
(* source may alias the destination do.                                     *)

\* Where the node n of heap h is found.
Place(h, n) ==
    CHOOSE at \in UNION {{<<r, p>> : p \in Paths(h, r)} : r \in Roots \cap Live(h)} :
        NodeAt(h, at[1], at[2]) = n

\* What t becomes when the value x arrives by operation op.
Arrived(op, t, x, k) ==
    CASE op \in {"assign", "moveAssign"} -> x
      [] op \in {"pushBack", "pushBackMove"} -> Values!Pushed(t, x)
      [] op \in {"insert", "insertMove", "insertSnapshot"} -> Values!Inserted(t, k, x)

\* What documents d become when v has arrived at n by operation op; a move
\* leaves null behind.
Received(d, op, n, v, k) ==
    LET from == Place(Seen, v)
        x == Values!Value(d, from)
        left == IF op \in {"moveAssign", "pushBackMove", "insertMove", "constructMove"}
                THEN Values!Put(d, from, Values!Null) ELSE d
        to == Place(Seen, n)
    IN  IF op \in {"construct", "constructMove"} THEN [left EXCEPT ![n] = x]
        ELSE Values!Put(left, to, Arrived(op, Values!Value(left, to), x, k))

GrownTo(d, n, into, size, type) ==
    LET at == Place(Seen, n)
        t == IF into = n THEN Values!Value(d, at) ELSE Values!Null
    IN  Values!Put(d, at, Values!Grown(t, size, Values!Empty(type)))

JobAsCalled ==
    Running /\ ~Running' /\ result' = "ok" =>
        docBar' = IF job.op = "grow"
                  THEN GrownTo(docBar, job.n, job.into, job.want, job.fill)
                  ELSE Received(docBar, job.op, job.n, job.v, job.slot)

FailureRestores == Running /\ ~Running' /\ result' = "threw" => heap' = job.snap

MoveAsCalled ==
    ~Running /\ ~Running' /\ heap' # heap =>
        \A n, v \in Live(heap) :
            /\ MoveAssign(n, v) => docBar' = Received(docBar, "moveAssign", n, v, None)
            /\ PushBackMove(n, v) => docBar' = Received(docBar, "pushBackMove", n, v, None)
            /\ \A k \in Keys :
                InsertMove(n, k, v) => docBar' = Received(docBar, "insertMove", n, v, k)

\* The element a subscript stands for is there, or the array is to grow until
\* it is.
SubscriptReaches ==
    ~Running =>
        \A n \in Live(heap), i \in 0..MaxLen \cup {SizeMax} :
            SubscriptIndex(n, i) =>
                IF Running' THEN job'.want > i
                ELSE \/ result' = "threw"
                     \/ TypeOf(heap, n) = "array" /\ i < Len(KidsOf(heap, n))

\* A call that returns has done what that call means to its own arguments, as
\* they were when it was called: a moved value arrives and leaves null, also
\* out of a container that is overwritten by it, a copied or appended one
\* arrives whole, also when it is an ancestor of its destination, and an
\* element that is referred to exists, also at the largest size_t.  One whose
\* allocation fails after any number of steps leaves every node of the caller,
\* not just every value, exactly as it found it.
AsCalled == [][JobAsCalled /\ MoveAsCalled /\ SubscriptReaches /\ FailureRestores]_vars
=============================================================================
