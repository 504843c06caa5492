-------------------------------- MODULE Dom --------------------------------
(***************************************************************************)
(* The pjson DOM: values that own their subtree, bound for life to an      *)
(* allocator (pjsonlib/src/pjson.cpp).  A node is a pjson object: a handle *)
(* of the caller (Roots), a stack temporary of a running operation (T1,    *)
(* T2) or a child in allocator storage (Pool).  Its impl is what _pImpl    *)
(* points to: NullImpl, shared by every null value, or storage obtained    *)
(* from the allocator `home`.  The children of an array are a sequence,    *)
(* those of an object a function on a subset of Keys.                      *)
(*                                                                         *)
(* An operation that cannot fail half-way is one action.  One that loops   *)
(* over fallible allocations (a deep copy, array growth) is a job: it      *)
(* starts, makes one child per step, and either returns or, at any step,   *)
(* runs its exception path.  The library is single threaded per document,  *)
(* so no other operation starts while a job runs.                          *)
(***************************************************************************)
EXTENDS Naturals, Sequences

CONSTANTS
    Roots,        \* the pjson objects the caller declares
    Pool,         \* identities of allocator-backed child nodes
    T1, T2,       \* stack temporaries: replacement/tmp/snapshot, sourceCopy
    Allocs,       \* allocators
    Keys,         \* object member names
    ScalarTypes,  \* the scalar type tags in play, out of "number" and "string"
    Payloads,     \* contents of numbers, booleans and strings
    Zero,         \* the payload of a freshly reset scalar
    None,         \* no node, no allocator, no slot
    MaxAutoGrowth, \* kMaxAutoGrowth: children one indexed access may create
    MaxLen,       \* max_size() of an array's vector
    SizeMax       \* the largest size_t

Temps == {T1, T2}
Nodes == Roots \cup Pool \cup Temps

ASSUME NodesAssumption ==
    /\ Roots \cap Pool = {}
    /\ Temps \cap (Roots \cup Pool) = {}
    /\ T1 # T2
    /\ None \notin Nodes \cup Allocs
ASSUME DataAssumption ==
    /\ ScalarTypes \subseteq {"number", "string"}
    /\ Zero \in Payloads
    /\ MaxLen \in Nat
    /\ SizeMax \in Nat /\ MaxLen < SizeMax
    /\ MaxAutoGrowth \in Nat
    /\ Keys \cap 0..MaxLen = {}

ContainerTypes == {"array", "object"}
Types == {"null"} \cup ScalarTypes \cup ContainerTypes

VARIABLES
    heap,     \* [Nodes -> cells]: every node, live or not
    job,      \* the operation in progress, or Idle
    result    \* how the last operation ended: "ok" or "threw"

vars == <<heap, job, result>>

-----------------------------------------------------------------------------
(* Cells and the pjsonImpl they point to.                                   *)

EmptyKids == <<>>
NullImpl == [home |-> None, type |-> "null", val |-> Zero, kids |-> EmptyKids]
Dead == [live |-> FALSE, alloc |-> None, impl |-> NullImpl]

\* pjson(Allocator&): an allocation-free null bound to allocator a.
NullNode(a) == [live |-> TRUE, alloc |-> a, impl |-> NullImpl]

\* The impl resetTo builds for type t out of allocator a.
EmptyImpl(a, t) ==
    IF t = "null" THEN NullImpl
    ELSE [home |-> a, type |-> t, val |-> Zero, kids |-> EmptyKids]

Live(h) == {m \in Nodes : h[m].live}
TypeOf(h, n) == h[n].impl.type
KidsOf(h, n) == h[n].impl.kids
Kids(h, n) == {KidsOf(h, n)[s] : s \in DOMAIN KidsOf(h, n)}
IsFree(h, m) == m \in Pool /\ ~h[m].live
HasRoom(h) == \E m \in Pool : IsFree(h, m)
Fresh(h) == CHOOSE m \in Pool : IsFree(h, m)

\* The nodes an exhaustive walk from n visits.
Closed(h, S) == \A m \in S : Kids(h, m) \subseteq S
Subtree(h, n) ==
    LET walks == {S \in SUBSET Live(h) : n \in S /\ Closed(h, S)}
    IN  {m \in Live(h) : \A S \in walks : m \in S}

\* Mutant: the overlap is never noticed.
containsNode_Never(h, root, n) == {FALSE}

\* _containsNode: the answer is conservative when its work list cannot grow,
\* so a caller may see TRUE for nodes that do not overlap.
containsNode(h, root, n) == {TRUE, (n \in Subtree(h, root))}

-----------------------------------------------------------------------------
(* The storage primitives every operation is made of, as functions of the  *)
(* heap.                                                                    *)

SetImpl(h, n, i) == [h EXCEPT ![n].impl = i]

swapStorage(h, a, b) == [h EXCEPT ![a].impl = h[b].impl, ![b].impl = h[a].impl]

disposeChildren(h, n) ==
    LET gone == UNION {Subtree(h, c) : c \in Kids(h, n)}
    IN  [m \in Nodes |-> IF m \in gone THEN Dead ELSE h[m]]

ResetNode(h, n) == SetImpl(disposeChildren(h, n), n, NullImpl)

\* _destroyNode, and the destructor of a root or temporary.
destroyNode(h, n) == [ResetNode(h, n) EXCEPT ![n] = Dead]

\* resetTo: the replacement is published by a swap, then destroyed with the
\* old contents.
ReplaceImpl(h, n, i) == SetImpl(disposeChildren(h, n), n, i)

PutKid(kids, s, c) == [x \in DOMAIN kids \cup {s} |-> IF x = s THEN c ELSE kids[x]]
DropKey(kids, s) == [x \in DOMAIN kids \ {s} |-> kids[x]]
DropIndex(kids, s) ==
    [i \in 1..(Len(kids) - 1) |-> IF i < s THEN kids[i] ELSE kids[i + 1]]
SetKids(h, n, kids) == [h EXCEPT ![n].impl.kids = kids]
Attach(h, n, s, c) == SetKids(h, n, PutKid(KidsOf(h, n), s, c))
MakeNode(h, c, a) == [h EXCEPT ![c] = NullNode(a)]
NextIndex(h, n) == Len(KidsOf(h, n)) + 1

\* The part of _copyContentsInto that handles one node: resetTo the source's
\* type, then the payload; children follow one by one.
ShallowCopy(h, d, s) ==
    SetImpl(h, d, [EmptyImpl(h[d].alloc, TypeOf(h, s)) EXCEPT !.val = h[s].impl.val])

-----------------------------------------------------------------------------
(* Jobs.  n is the receiver, v the source, slot the key (or, for growth,   *)
(* the original length), into the container that receives children (n, or  *)
(* the replacement T1 when n must change type), own the child not yet      *)
(* released by its OwnedNode, cur/work the copy loop's item and work list, *)
(* want/fill the target length and element type of a growth loop, snap the *)
(* heap when the operation was called.                                      *)

Idle == [op |-> "idle", n |-> None, v |-> None, slot |-> None, into |-> None,
         own |-> None, cur |-> <<>>, work |-> <<>>, want |-> 0, fill |-> "null",
         snap |-> <<>>]
Running == job.op # "idle"

Job(op, n, v, slot, into, own, dst) ==
    [Idle EXCEPT !.op = op, !.n = n, !.v = v, !.slot = slot, !.into = into,
                 !.own = own, !.cur = <<v, dst>>, !.snap = heap]

GrowJob(n, into, orig, want, fill) ==
    [Idle EXCEPT !.op = "grow", !.n = n, !.slot = orig, !.into = into,
                 !.want = want, !.fill = fill, !.snap = heap]

\* Temporaries go out of scope when the operation returns or throws.
DropTemp(h, t) == IF h[t].live THEN destroyNode(h, t) ELSE h
Return(h, r) ==
    /\ heap' = DropTemp(DropTemp(h, T1), T2)
    /\ job' = Idle
    /\ result' = r

\* The container an insertion fills: n itself, or an empty replacement.
InTo(n, t) == IF TypeOf(heap, n) = t THEN n ELSE T1
WithInTo(h, n, t) ==
    IF TypeOf(h, n) = t THEN h
    ELSE [h EXCEPT ![T1] = [live |-> TRUE, alloc |-> h[n].alloc,
                            impl |-> EmptyImpl(h[n].alloc, t)]]
Publish(h, n, into) == IF into = n THEN h ELSE swapStorage(h, n, into)

\* Mutant: the source keeps its pointer to the storage it gave away.
MoveStorage_Shares(h, n, v) == SetImpl(disposeChildren(h, n), n, h[v].impl)

\* Mutant: the destination is reset before the source is adopted.
MoveStorage_ResetFirst(h, n, v) == swapStorage(ResetNode(h, n), n, v)

\* Move-assignment between nodes of one allocator, v not an ancestor of n.
MoveStorage(h, n, v) ==
    LET adopted == swapStorage(MakeNode(h, T1, h[n].alloc), T1, v)
    IN  destroyNode(swapStorage(adopted, n, T1), T1)

Usable(n) == n \in Nodes /\ heap[n].live

-----------------------------------------------------------------------------
(* Operations that complete in one action.                                  *)

\* Nothing to do, or an allocation failure before anything was touched.
Throws == ~Running /\ Return(heap, "threw")

reset(n) == Return(ResetNode(heap, n), "ok")

clear(n) ==
    Return(IF TypeOf(heap, n) \in ContainerTypes
           THEN SetKids(disposeChildren(heap, n), n, EmptyKids)
           ELSE ResetNode(heap, n), "ok")

resetTo(n, t) ==
    Return(ReplaceImpl(heap, n, EmptyImpl(heap[n].alloc, t)), "ok")

\* resetIfNeeded, as far as it changes the heap.
resetIfNeeded(h, n, t) ==
    IF TypeOf(h, n) = t THEN h ELSE ReplaceImpl(h, n, EmptyImpl(h[n].alloc, t))

\* operator=(scalar): resetIfNeeded, then the payload.  Copying a string's
\* bytes may still fail once the node has become an empty string.
AssignScalar(n, t, p) ==
    LET typed == resetIfNeeded(heap, n, t)
    IN  \/ Return([typed EXCEPT ![n].impl.val = p], "ok")
        \/ t = "string" /\ Return(typed, "threw")

erase(n, s) ==
    /\ TypeOf(heap, n) \in ContainerTypes
    /\ s \in DOMAIN KidsOf(heap, n)
    /\ LET kids == KidsOf(heap, n)
           h == destroyNode(heap, kids[s])
       IN  Return(SetKids(h, n, IF TypeOf(heap, n) = "array"
                                THEN DropIndex(kids, s) ELSE DropKey(kids, s)), "ok")

\* reserve: promotes a non-array first; growing the vector may then throw.
Reserved(h, n) == resetIfNeeded(h, n, "array")
reserve(n) == \E r \in {"ok", "threw"} : Return(Reserved(heap, n), r)

\* Mutant: canSwap without its allocator half.
canSwap_AnyAllocator(n, v) ==
    {n = v \/ ~(o1 \/ o2) : o1 \in containsNode(heap, n, v), o2 \in containsNode(heap, v, n)}

\* canSwap: what it may answer for n and v.
canSwap(n, v) ==
    {heap[n].alloc = heap[v].alloc /\ (n = v \/ ~(o1 \/ o2)) :
        o1 \in containsNode(heap, n, v), o2 \in containsNode(heap, v, n)}

\* swap: cross-allocator or overlapping pairs are left alone.
swap(n, v) ==
    \E can \in canSwap(n, v) :
        Return(IF n # v /\ can THEN swapStorage(heap, n, v) ELSE heap, "ok")

\* operator[](key): returns the member, creating it (and the object) if needed.
SubscriptKey(n, k) ==
    IF TypeOf(heap, n) = "object" /\ k \in DOMAIN KidsOf(heap, n)
    THEN Return(heap, "ok")
    ELSE /\ HasRoom(heap)
         /\ LET into == InTo(n, "object")
                c == Fresh(heap)
                h == MakeNode(WithInTo(heap, n, "object"), c, heap[n].alloc)
            IN  Return(Publish(Attach(h, into, k, c), n, into), "ok")

\* Constructors and destructor of the caller's objects.
Construct(r, a) ==
    /\ ~heap[r].live
    /\ Return([heap EXCEPT ![r] = NullNode(a)], "ok")

Destruct(r) == heap[r].live /\ Return(destroyNode(heap, r), "ok")

-----------------------------------------------------------------------------
(* Operations that start a deep copy.                                       *)

StartCopy(h, op, n, v, slot, into, own, dst) ==
    /\ heap' = ShallowCopy(h, dst, v)
    /\ job' = Job(op, n, v, slot, into, own, dst)
    /\ UNCHANGED result

\* copyFrom and operator=(const pjson&).
copyFrom(n, v) ==
    IF n = v THEN Return(heap, "ok")
    ELSE StartCopy(MakeNode(heap, T1, heap[n].alloc), "assign", n, v, None, None, None, T1)

\* operator=(pjson&&).
MoveAssign(n, v) ==
    IF n = v THEN Return(heap, "ok")
    ELSE \E overlap \in containsNode(heap, v, n) :
        IF overlap THEN copyFrom(n, v)
        ELSE IF heap[n].alloc = heap[v].alloc
        THEN Return(MoveStorage(heap, n, v), "ok")
        ELSE StartCopy(MakeNode(heap, T1, heap[n].alloc), "moveAssign", n, v, None, None, None, T1)

\* pjson(const pjson&) and pjson(const pjson&, Allocator&).
ConstructCopy(r, v, a) ==
    /\ ~heap[r].live
    /\ StartCopy([heap EXCEPT ![r] = NullNode(a)], "construct", r, v, None, r, None, r)

\* pjson(pjson&&) and pjson(pjson&&, Allocator&).
ConstructMove(r, v, a) ==
    /\ ~heap[r].live
    /\ LET h == [heap EXCEPT ![r] = NullNode(a)]
       IN  IF heap[v].alloc = a THEN Return(swapStorage(h, r, v), "ok")
           ELSE StartCopy(h, "constructMove", r, v, None, r, None, r)

\* pushBack(const pjson&): the child is copied before it is attached.
PushBackCopy(n, v) ==
    /\ TypeOf(heap, n) = "array" => Len(KidsOf(heap, n)) < MaxLen
    /\ HasRoom(heap)
    /\ LET c == Fresh(heap)
       IN  StartCopy(MakeNode(WithInTo(heap, n, "array"), c, heap[n].alloc),
                     "pushBack", n, v, None, InTo(n, "array"), c, c)

\* pushBack(pjson&&).
PushBackMove(n, v) ==
    \E overlap \in containsNode(heap, v, n) :
        IF overlap THEN PushBackCopy(n, v)
        ELSE /\ TypeOf(heap, n) = "array" => Len(KidsOf(heap, n)) < MaxLen
             /\ HasRoom(heap)
             /\ LET c == Fresh(heap)
                    into == InTo(n, "array")
                    h == MakeNode(WithInTo(heap, n, "array"), c, heap[n].alloc)
                IN  IF heap[n].alloc = heap[v].alloc
                    THEN Return(Publish(Attach(swapStorage(h, c, v), into,
                                               NextIndex(h, into), c), n, into), "ok")
                    ELSE StartCopy(h, "pushBackMove", n, v, None, into, c, c)

Snapshot(n, k, v) ==
    StartCopy(MakeNode(heap, T2, heap[n].alloc), "insertSnapshot", n, v, k, None, None, T2)

HasMember(n, k) == TypeOf(heap, n) = "object" /\ k \in DOMAIN KidsOf(heap, n)

\* insertOrAssign(key, const pjson&).
InsertCopy(n, k, v) ==
    \E overlap \in containsNode(heap, v, n) :
        IF overlap THEN Snapshot(n, k, v)
        ELSE IF HasMember(n, k) THEN copyFrom(KidsOf(heap, n)[k], v)
        ELSE /\ HasRoom(heap)
             /\ LET c == Fresh(heap)
                IN  StartCopy(MakeNode(WithInTo(heap, n, "object"), c, heap[n].alloc),
                              "insert", n, v, k, InTo(n, "object"), c, c)

\* insertOrAssign(key, pjson&&): a new member is attached as null first; its
\* contents are then taken over, or copied across allocators.
InsertMove(n, k, v) ==
    \E overlap \in containsNode(heap, v, n) :
        IF overlap THEN Snapshot(n, k, v)
        ELSE IF HasMember(n, k) THEN MoveAssign(KidsOf(heap, n)[k], v)
        ELSE /\ HasRoom(heap)
             /\ LET c == Fresh(heap)
                    into == InTo(n, "object")
                    h == Attach(MakeNode(WithInTo(heap, n, "object"), c, heap[n].alloc),
                                into, k, c)
                IN  IF heap[n].alloc = heap[v].alloc
                    THEN Return(Publish(swapStorage(h, c, v), n, into), "ok")
                    ELSE StartCopy(h, "insertMove", n, v, k, into, c, c)

\* Growth loops: operator[](index) fills with nulls, operator+= and
\* operator=(vector) append converted values.
StartGrow(n, into, h, want, fill) ==
    /\ heap' = h
    /\ job' = GrowJob(n, into, Len(KidsOf(h, into)), want, fill)
    /\ UNCHANGED result

\* Mutant: the largest index is not refused, and the size it requires is 0.
SubscriptIndex_Wraps(n, i) ==
    LET h == WithInTo(heap, n, "array")
        into == InTo(n, "array")
        size == Len(KidsOf(h, into))
        growth == (i - size + 1) % (SizeMax + 1)
        requiredSize == (i + 1) % (SizeMax + 1)
    IN  IF i < size THEN Return(heap, "ok")
        ELSE IF growth > MaxAutoGrowth \/ requiredSize > MaxLen
        THEN Return(heap, "threw")
        ELSE StartGrow(n, into, h, requiredSize, "null")

\* operator[](size_t): i counts from 0 and size_t arithmetic wraps.
SubscriptIndex(n, i) ==
    LET h == WithInTo(heap, n, "array")
        into == InTo(n, "array")
        size == Len(KidsOf(h, into))
        growth == (i - size + 1) % (SizeMax + 1)
        requiredSize == (i + 1) % (SizeMax + 1)
    IN  IF i < size THEN Return(heap, "ok")
        ELSE IF growth > MaxAutoGrowth \/ i = SizeMax \/ requiredSize > MaxLen
        THEN Return(heap, "threw")
        ELSE StartGrow(n, into, h, requiredSize, "null")

AppendVector(n, count, t) ==
    LET h == WithInTo(heap, n, "array")
        into == InTo(n, "array")
        size == Len(KidsOf(h, into))
    IN  /\ size + count <= MaxLen
        /\ StartGrow(n, into, h, size + count, t)

AssignVector(n, count, t) ==
    StartGrow(n, T1, [heap EXCEPT ![T1] = [live |-> TRUE, alloc |-> heap[n].alloc,
                                           impl |-> EmptyImpl(heap[n].alloc, "array")]],
              count, t)

-----------------------------------------------------------------------------
(* Steps of a running job.                                                  *)

Copying == Running /\ job.op # "grow"
CopySlots == DOMAIN KidsOf(heap, job.cur[1]) \ DOMAIN KidsOf(heap, job.cur[2])

\* One iteration of _copyContentsInto: array elements in order, members in
\* any order (the hash order is unspecified).
CopyChild(s) ==
    /\ Copying
    /\ s \in CopySlots
    /\ TypeOf(heap, job.cur[1]) = "array" => s = NextIndex(heap, job.cur[2])
    /\ HasRoom(heap)
    /\ LET d == job.cur[2]
           e == KidsOf(heap, job.cur[1])[s]
           c == Fresh(heap)
       IN  /\ heap' = Attach(ShallowCopy(MakeNode(heap, c, heap[d].alloc), c, e), d, s, c)
           /\ job' = IF TypeOf(heap, e) \in ContainerTypes
                     THEN [job EXCEPT !.work = Append(@, <<e, c>>)] ELSE job
    /\ UNCHANGED result

CopyPop ==
    /\ Copying
    /\ CopySlots = {}
    /\ job.work # <<>>
    /\ job' = [job EXCEPT !.cur = job.work[Len(job.work)],
                          !.work = SubSeq(job.work, 1, Len(job.work) - 1)]
    /\ UNCHANGED <<heap, result>>

\* Mutant: the result is published before the copy is complete.
Copied_Early(op) == Copying /\ job.op = op

Copied(op) == Copying /\ job.op = op /\ CopySlots = {} /\ job.work = <<>>

FinishAssign == Copied("assign") /\ Return(swapStorage(heap, job.n, T1), "ok")

FinishMoveAssign ==
    /\ Copied("moveAssign")
    /\ Return(swapStorage(ResetNode(heap, job.v), job.n, T1), "ok")

FinishConstruct == Copied("construct") /\ Return(heap, "ok")

FinishConstructMove == Copied("constructMove") /\ Return(ResetNode(heap, job.v), "ok")

FinishPushBack ==
    /\ Copied("pushBack")
    /\ Return(Publish(Attach(heap, job.into, NextIndex(heap, job.into), job.own),
                      job.n, job.into), "ok")

FinishPushBackMove ==
    /\ Copied("pushBackMove")
    /\ LET h == ResetNode(heap, job.v)
       IN  Return(Publish(Attach(h, job.into, NextIndex(h, job.into), job.own),
                          job.n, job.into), "ok")

FinishInsert ==
    /\ Copied("insert")
    /\ Return(Publish(Attach(heap, job.into, job.slot, job.own), job.n, job.into), "ok")

FinishInsertMove ==
    /\ Copied("insertMove")
    /\ Return(Publish(ResetNode(heap, job.v), job.n, job.into), "ok")

\* The snapshot T2 is independent and of n's allocator: it is moved in.
FinishSnapshot ==
    /\ Copied("insertSnapshot")
    /\ IF HasMember(job.n, job.slot)
       THEN Return(MoveStorage(heap, KidsOf(heap, job.n)[job.slot], T2), "ok")
       ELSE /\ HasRoom(heap)
            /\ LET c == Fresh(heap)
                   into == InTo(job.n, "object")
                   h == MakeNode(WithInTo(heap, job.n, "object"), c, heap[job.n].alloc)
               IN  Return(Publish(swapStorage(Attach(h, into, job.slot, c), c, T2),
                                  job.n, into), "ok")

GrowStep ==
    /\ job.op = "grow"
    /\ Len(KidsOf(heap, job.into)) < job.want
    /\ HasRoom(heap)
    /\ LET c == Fresh(heap)
           a == heap[job.n].alloc
           h == SetImpl(MakeNode(heap, c, a), c, EmptyImpl(a, job.fill))
       IN  heap' = Attach(h, job.into, NextIndex(h, job.into), c)
    /\ UNCHANGED <<job, result>>

FinishGrow ==
    /\ job.op = "grow"
    /\ Len(KidsOf(heap, job.into)) >= job.want
    /\ Return(Publish(heap, job.n, job.into), "ok")

\* Mutant: the appended nodes are destroyed but stay in the array.
GrowRollback_KeepsSlots(h) ==
    LET kids == KidsOf(h, job.into)
        gone == UNION {Subtree(h, kids[i]) : i \in (job.slot + 1)..Len(kids)}
    IN  [m \in Nodes |-> IF m \in gone THEN Dead ELSE h[m]]

\* What the exception path of each operation undoes; temporaries follow.
GrowRollback(h) ==
    LET kids == KidsOf(h, job.into)
        extra == {kids[i] : i \in (job.slot + 1)..Len(kids)}
        gone == UNION {Subtree(h, c) : c \in extra}
    IN  SetKids([m \in Nodes |-> IF m \in gone THEN Dead ELSE h[m]],
                job.into, SubSeq(kids, 1, job.slot))

\* Mutant: the child not yet attached is forgotten.
Rollback_ForgetsOwn(h) ==
    IF job.op = "grow" THEN GrowRollback(h)
    ELSE IF job.op \in {"construct", "constructMove"} THEN destroyNode(h, job.n) ELSE h

Rollback(h) ==
    IF job.op = "grow" THEN GrowRollback(h)
    ELSE IF job.op \in {"construct", "constructMove"} THEN destroyNode(h, job.n)
    ELSE IF job.op = "insertMove"
    THEN SetKids(destroyNode(h, job.own), job.into, DropKey(KidsOf(h, job.into), job.slot))
    ELSE IF job.own # None THEN destroyNode(h, job.own)
    ELSE h

\* Any allocation of a running job may fail.
AllocationFails == Running /\ Return(Rollback(heap), "threw")

-----------------------------------------------------------------------------
Init ==
    /\ heap = [m \in Nodes |-> Dead]
    /\ job = Idle
    /\ result = "ok"

AtomicOp ==
    \/ Throws
    \/ \E n \in Nodes :
        /\ ~Running
        /\ Usable(n)
        /\ \/ reset(n)
           \/ clear(n)
           \/ \E t \in Types : resetTo(n, t)
           \/ \E t \in ScalarTypes, p \in Payloads : AssignScalar(n, t, p)
           \/ \E s \in Keys \cup 1..MaxLen : erase(n, s)
           \/ reserve(n)
           \/ \E k \in Keys : SubscriptKey(n, k)
           \/ \E v \in Nodes : Usable(v) /\ swap(n, v)
    \/ \E r \in Roots :
        /\ ~Running
        /\ \/ \E a \in Allocs : Construct(r, a)
           \/ Destruct(r)

CopyOp ==
    \E v \in Nodes :
        /\ ~Running
        /\ Usable(v)
        /\ \/ \E n \in Nodes :
               /\ Usable(n)
               /\ \/ copyFrom(n, v)
                  \/ MoveAssign(n, v)
                  \/ PushBackCopy(n, v)
                  \/ PushBackMove(n, v)
                  \/ \E k \in Keys : InsertCopy(n, k, v) \/ InsertMove(n, k, v)
           \/ \E r \in Roots, a \in Allocs : ConstructCopy(r, v, a) \/ ConstructMove(r, v, a)

GrowOp ==
    \E n \in Nodes :
        /\ ~Running
        /\ Usable(n)
        /\ \/ \E i \in 0..MaxLen \cup {SizeMax} : SubscriptIndex(n, i)
           \/ \E t \in ScalarTypes, count \in 0..MaxLen :
               AppendVector(n, count, t) \/ AssignVector(n, count, t)

JobStep ==
    \/ \E s \in Keys \cup 1..MaxLen : CopyChild(s)
    \/ CopyPop
    \/ FinishAssign \/ FinishMoveAssign
    \/ FinishConstruct \/ FinishConstructMove
    \/ FinishPushBack \/ FinishPushBackMove
    \/ FinishInsert \/ FinishInsertMove \/ FinishSnapshot
    \/ GrowStep \/ FinishGrow
    \/ AllocationFails

Next == AtomicOp \/ CopyOp \/ GrowOp \/ JobStep

Spec == Init /\ [][Next]_vars

-----------------------------------------------------------------------------
(* Properties.                                                              *)

\* No container slot of a live node refers to storage that was released, or
\* to an object of the caller or of the stack: whatever sequence of aliasing
\* assignments, moves, swaps, erasures and failures led here.
NoDangling ==
    \A m \in Live(heap) : Kids(heap, m) \subseteq Live(heap) \cap Pool

\* A child sits in exactly one slot of one container, so it is destroyed once
\* and a write through one path never shows through another.
SingleOwner ==
    \A p, q \in Live(heap) :
        \A s \in DOMAIN KidsOf(heap, p), t \in DOMAIN KidsOf(heap, q) :
            KidsOf(heap, p)[s] = KidsOf(heap, q)[t] => p = q /\ s = t

\* No node is its own ancestor (PJSON-COR-002): every set of live nodes has a
\* member that none of them owns.
Acyclic ==
    \A S \in SUBSET Live(heap) :
        S # {} => \E m \in S : \A p \in S : m \notin Kids(heap, p)

\* Every storage block is owned by a node of the allocator it came from, and
\* every child belongs to its parent's allocator, so each block is returned
\* to the allocator that produced it.
AllocatorDomain ==
    \A m \in Live(heap) :
        /\ TypeOf(heap, m) # "null" => heap[m].impl.home = heap[m].alloc
        /\ \A c \in Kids(heap, m) : heap[c].alloc = heap[m].alloc

\* Every allocated child is owned by a container or by the running operation;
\* between operations no temporary is left.
NoLeak ==
    /\ \A m \in Live(heap) \cap Pool :
        \/ \E p \in Live(heap) : m \in Kids(heap, p)
        \/ m = job.own
    /\ ~Running => Live(heap) \cap Temps = {}
=============================================================================
