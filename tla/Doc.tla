-------------------------------- MODULE Doc --------------------------------
(***************************************************************************)
(* What the pjson DOM promises its caller: documents are values.  Each     *)
(* handle holds a tree of its own, an operation reads its arguments as     *)
(* they were when it was called and takes effect at once or not at all,    *)
(* and writing at one path shows at no other path.  Allocators, storage,   *)
(* sharing, snapshots and rollback do not appear here.                     *)
(***************************************************************************)
EXTENDS Trees

CONSTANTS Roots, Keys, ScalarTypes, Payloads, Absent, MaxLen

VARIABLE doc    \* [Roots -> trees, or Absent for a handle out of scope]

Types == {"null", "array", "object"} \cup ScalarTypes

-----------------------------------------------------------------------------
(* Places of a document d: a handle and a path below it.                    *)

InScope(d) == {r \in Roots : d[r] # Absent}
Places(d) == UNION {{<<r, p>> : p \in DOMAIN d[r]} : r \in InScope(d)}
Value(d, at) == At(d[at[1]], at[2])
Put(d, at, new) ==
    [r \in Roots |-> IF r = at[1] THEN With(d[r], at[2], new) ELSE d[r]]
Within(at, there) == at[1] = there[1] /\ Inside(at[2], there[2])

-----------------------------------------------------------------------------
(* The operations, as relations between d and what it becomes, e.           *)

Declare(d, e, r, t) == d[r] = Absent /\ e = [d EXCEPT ![r] = t]
LeaveScope(d, e, r) == e = [d EXCEPT ![r] = Absent]

\* What one operation may make of the value t it is applied to.
Changed(t) ==
    {Leaf(type, x) : type \in ScalarTypes, x \in Payloads}
    \cup {Empty(type) : type \in Types}
    \cup {As(t, "array")}
    \cup {Erased(t, s) : s \in Slots(t)}
    \cup {Inserted(t, k, Null) : k \in Keys \ Slots(t)}
    \cup {Grown(u, size, Empty(type)) : u \in {t, Null}, size \in 1..MaxLen,
                                        type \in {"null"} \cup ScalarTypes}

\* What may become of t when the value x arrives there.
Received(t, x) == {x, Pushed(t, x)} \cup {Inserted(t, k, x) : k \in Keys}

Change(d, e, at) == \E t \in Changed(Value(d, at)) : e = Put(d, at, t)

\* Copying leaves the source as it is.  Moving leaves null in its place,
\* before the destination receives; a value is not moved into itself.
Copy(d, e, to, from) ==
    \E t \in Received(Value(d, to), Value(d, from)) : e = Put(d, to, t)

Move(d, e, to, from) ==
    /\ ~Within(to, from)
    /\ LET left == Put(d, from, Null)
       IN  \E t \in Received(Value(left, to), Value(d, from)) : e = Put(left, to, t)

MoveToNew(d, e, r, from) ==
    LET left == Put(d, from, Null) IN Declare(left, e, r, Value(d, from))

Swap(d, e, a, b) ==
    /\ ~Within(a, b) /\ ~Within(b, a)
    /\ e = Put(Put(d, a, Value(d, b)), b, Value(d, a))

Operation(d, e) ==
    \/ \E r \in Roots :
        \/ Declare(d, e, r, Null)
        \/ LeaveScope(d, e, r)
        \/ \E from \in Places(d) :
            Declare(d, e, r, Value(d, from)) \/ MoveToNew(d, e, r, from)
    \/ \E at \in Places(d) : Change(d, e, at)
    \/ \E a, b \in Places(d) : Copy(d, e, a, b) \/ Move(d, e, a, b) \/ Swap(d, e, a, b)

Init == doc = [r \in Roots |-> Absent]
Next == \E d \in {doc}, e \in {doc'} : Operation(d, e)
Spec == Init /\ [][Next]_doc
=============================================================================
