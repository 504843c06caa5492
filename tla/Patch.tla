------------------------------- MODULE Patch -------------------------------
(***************************************************************************)
(* JSON Patch (pjsonlib/src/pjson_patch.cpp, RFC 6902).  A call clones the *)
(* target, applies the operations to the clone one after the other and     *)
(* swaps it in at the end; every earlier exit leaves the target alone.     *)
(*                                                                         *)
(* A pointer is its sequence of decoded tokens (see Pointer).  Tokens are  *)
(* naturals: those of Indexes are the canonical decimals, each standing    *)
(* for its own value, Dash is "-", the others are plain names.  Any token  *)
(* can be the name of an object member.  Array element i (from 0) is at    *)
(* slot i + 1 of its tree.                                                 *)
(*                                                                         *)
(* The operation and node budgets are counted; the byte and work budgets,  *)
(* whose charges depend on text lengths, run out nondeterministically.     *)
(***************************************************************************)
EXTENDS Trees

CONSTANTS
    Indexes, Dash,
    Targets,        \* the documents a caller may patch
    Patches,        \* the patch arrays a caller may apply
    maxOperations, maxClonedNodes,
    MaxCalls        \* bound on the number of calls

ASSUME PatchAssumption ==
    /\ Indexes \subseteq Nat
    /\ Dash \in Nat \ Indexes
    /\ maxOperations \in Nat /\ maxClonedNodes \in Nat /\ MaxCalls \in Nat

\* What can be wrong with the members of an operation.
Defects == {"OperationNotObject", "MissingOp", "InvalidOp", "MissingPath", "InvalidPath",
            "MissingFrom", "InvalidFrom", "MissingValue"}

\* Targets and the values of operations are documents, pointers token sequences.
IsOperation(o) ==
    /\ IsDocument(o.value)
    /\ o.path \in Seq(Nat) /\ o.from \in Seq(Nat)
    /\ o.defect \in Defects \cup {"none"}
ASSUME DocumentAssumption ==
    /\ \A t \in Targets : IsDocument(t)
    /\ \A p \in Patches : Len(p) \in Nat /\ \A n \in 1..Len(p) : IsOperation(p[n])

VARIABLES
    target,     \* the caller's document
    patch,      \* the operations of the call in progress
    scratch,    \* the private clone
    before,     \* history: the target when the call started
    opIndex,    \* operations completed
    running,    \* a call is in progress
    error,      \* PatchError: [code, opIndex]
    budget,     \* cloned nodes charged
    calls

vars == <<target, patch, scratch, before, opIndex, running, error, budget, calls>>

-----------------------------------------------------------------------------
(* Pointers: resolution of tokens in a tree.                                *)

Outcome(code, path) == [code |-> code, path |-> path]

\* One token below a place: resolvePointerTokens, codes as pointerCodeForPatch
\* translates them.
Enter(t, place, token) ==
    LET here == At(t, place)
    IN  CASE Type(here) = "object" ->
                IF token \in Slots(here) THEN Outcome("Ok", Append(place, token))
                ELSE Outcome("TargetMissing", place)
          [] Type(here) = "array" ->
                IF token \notin Indexes THEN Outcome("InvalidArrayIndex", place)
                ELSE IF token >= Size(here) THEN Outcome("ArrayIndexOutOfRange", place)
                ELSE Outcome("Ok", Append(place, token + 1))
          [] OTHER -> Outcome("TargetMissing", place)

resolvePatchTokens(t, tokens, count) ==
    LET walk[i \in 0..count] ==
            IF i = 0 THEN Outcome("Ok", <<>>)
            ELSE IF walk[i - 1].code = "Ok" THEN Enter(t, walk[i - 1].path, tokens[i])
            ELSE walk[i - 1]
    IN  walk[count]

Parent(t, tokens) == resolvePatchTokens(t, tokens, Len(tokens) - 1)
LastToken(tokens) == tokens[Len(tokens)]

\* The slot a last token denotes in an array; the end too when appending.
patchArrayIndex(size, token, allowAppend) ==
    IF token = Dash /\ allowAppend THEN Outcome("Ok", size + 1)
    ELSE IF token \notin Indexes THEN Outcome("InvalidArrayIndex", 0)
    ELSE IF token > size \/ (token = size /\ ~allowAppend)
    THEN Outcome("ArrayIndexOutOfRange", 0)
    ELSE Outcome("Ok", token + 1)

\* Results of the helpers below: a code and the tree they leave.
Result(code, t) == [code |-> code, tree |-> t]

\* Mutant: an index equal to the size is refused.
addAtPointer_NoEnd(t, tokens, x) ==
    IF tokens = <<>> THEN Result("Ok", x)
    ELSE LET parent == Parent(t, tokens)
             here == At(t, parent.path)
             token == LastToken(tokens)
             index == patchArrayIndex(Size(here), token, token = Dash)
         IN  IF parent.code # "Ok" THEN Result(parent.code, t)
             ELSE IF Type(here) = "object"
             THEN Result("Ok", With(t, Append(parent.path, token), x))
             ELSE IF Type(here) # "array" THEN Result("TargetMissing", t)
             ELSE IF index.code # "Ok" THEN Result(index.code, t)
             ELSE Result("Ok", With(t, parent.path, Spliced(here, index.path, x)))

\* addOwnedAtPointer.
addAtPointer(t, tokens, x) ==
    IF tokens = <<>> THEN Result("Ok", x)
    ELSE LET parent == Parent(t, tokens)
             here == At(t, parent.path)
             token == LastToken(tokens)
             index == patchArrayIndex(Size(here), token, TRUE)
         IN  IF parent.code # "Ok" THEN Result(parent.code, t)
             ELSE IF Type(here) = "object"
             THEN Result("Ok", With(t, Append(parent.path, token), x))
             ELSE IF Type(here) # "array" THEN Result("TargetMissing", t)
             ELSE IF index.code # "Ok" THEN Result(index.code, t)
             ELSE Result("Ok", With(t, parent.path, Spliced(here, index.path, x)))

\* The existing place that replace and remove address, below the root.
ExistingTarget(t, tokens) ==
    LET parent == Parent(t, tokens)
        here == At(t, parent.path)
        token == LastToken(tokens)
        index == patchArrayIndex(Size(here), token, FALSE)
    IN  IF parent.code # "Ok" THEN parent
        ELSE IF Type(here) = "object"
        THEN IF token \in Slots(here) THEN Outcome("Ok", Append(parent.path, token))
             ELSE Outcome("TargetMissing", <<>>)
        ELSE IF Type(here) # "array" THEN Outcome("TargetMissing", <<>>)
        ELSE IF index.code # "Ok" THEN Outcome(index.code, <<>>)
        ELSE Outcome("Ok", Append(parent.path, index.path))

replaceAtPointer(t, tokens, x) ==
    IF tokens = <<>> THEN Result("Ok", x)
    ELSE LET place == ExistingTarget(t, tokens)
         IN  Result(place.code, IF place.code = "Ok" THEN With(t, place.path, x) ELSE t)

Front(p) == SubSeq(p, 1, Len(p) - 1)

\* The tree left behind; the root is replaced by null.
detachAtPointer(t, tokens) ==
    IF tokens = <<>> THEN Result("Ok", Null)
    ELSE LET place == ExistingTarget(t, tokens)
             up == Front(place.path)
         IN  Result(place.code,
                    IF place.code = "Ok"
                    THEN With(t, up, Erased(At(t, up), LastToken(place.path))) ELSE t)

isProperPointerAncestor(a, d) == Len(a) < Len(d) /\ SubSeq(d, 1, Len(a)) = a

-----------------------------------------------------------------------------
(* The call.  An operation is a record [op, path, from, value, defect];     *)
(* defect names the member that is missing or malformed, or "none".         *)

NoError == [code |-> "Ok", opIndex |-> 0]

OnTheWay == opIndex < Len(patch)
Current == patch[opIndex + 1]

\* Leaving with an error: scratch goes, the target stays.
Refuse(code) ==
    /\ error' = [code |-> code, opIndex |-> opIndex]
    /\ running' = FALSE
    /\ scratch' = Null
    /\ UNCHANGED <<target, patch, before, opIndex, budget, calls>>

\* One operation done: scratch becomes t; `cloned` nodes were charged before
\* they were allocated.
Advance(t, cloned) ==
    /\ scratch' = t
    /\ opIndex' = opIndex + 1
    /\ error' = [code |-> "Ok", opIndex |-> opIndex]
    /\ budget' = budget + cloned
    /\ UNCHANGED <<target, patch, before, running, calls>>

Finish(result, cloned) ==
    IF result.code = "Ok" THEN Advance(result.tree, cloned) ELSE Refuse(result.code)

\* chargePatch on the node budget.
Affordable(n) == n <= maxClonedNodes - (IF budget <= maxClonedNodes THEN budget ELSE maxClonedNodes)

Idle == ~running /\ calls < MaxCalls

\* applyPatch up to the clone of the target.
Begin(p) ==
    /\ patch' = p
    /\ before' = target
    /\ calls' = calls + 1
    /\ opIndex' = 0
    /\ IF Len(p) > maxOperations \/ NodeCount(target) > maxClonedNodes
       THEN /\ error' = [code |-> "ResourceLimit", opIndex |-> 0]
            /\ budget' = 0
            /\ UNCHANGED <<running, scratch>>
       ELSE /\ error' = NoError
            /\ budget' = NodeCount(target)
            /\ running' = TRUE
            /\ scratch' = target
    /\ UNCHANGED target

NotAnArray ==
    /\ Idle
    /\ error' = [code |-> "InvalidPatchDocument", opIndex |-> 0]
    /\ calls' = calls + 1
    /\ UNCHANGED <<target, patch, scratch, before, opIndex, running, budget>>

\* Members are validated in the order op, path, from, value, and only those
\* the operation needs.
Needs ==
    {"OperationNotObject", "MissingOp", "InvalidOp", "MissingPath", "InvalidPath"}
    \cup (IF Current.op \in {"move", "copy"} THEN {"MissingFrom", "InvalidFrom"} ELSE {})
    \cup (IF Current.op \in {"add", "replace", "test"} THEN {"MissingValue"} ELSE {})
Malformed == Current.defect \in Needs

Defect == running /\ OnTheWay /\ Malformed /\ Refuse(Current.defect)

Applying(op) == running /\ OnTheWay /\ ~Malformed /\ Current.op = op

Add ==
    /\ Applying("add")
    /\ IF Affordable(NodeCount(Current.value))
       THEN Finish(addAtPointer(scratch, Current.path, Current.value), NodeCount(Current.value))
       ELSE Refuse("ResourceLimit")

\* Removing the root allocates the null node that takes its place.
Remove ==
    /\ Applying("remove")
    /\ IF Current.path = <<>>
       THEN IF Affordable(1) THEN Advance(Null, 1) ELSE Refuse("ResourceLimit")
       ELSE Finish(detachAtPointer(scratch, Current.path), 0)

Replace ==
    /\ Applying("replace")
    /\ IF Affordable(NodeCount(Current.value))
       THEN Finish(replaceAtPointer(scratch, Current.path, Current.value),
                   NodeCount(Current.value))
       ELSE Refuse("ResourceLimit")

Test ==
    /\ Applying("test")
    /\ LET found == resolvePatchTokens(scratch, Current.path, Len(Current.path))
       IN  IF found.code # "Ok" THEN Refuse(found.code)
           ELSE IF At(scratch, found.path) # Current.value THEN Refuse("TestFailed")
           ELSE Advance(scratch, 0)

Source == resolvePatchTokens(scratch, Current.from, Len(Current.from))

\* Mutant: the copy is checked against the budget, but not charged to it.
CopyOp_Uncharged ==
    /\ Applying("copy")
    /\ LET x == At(scratch, Source.path)
       IN  IF Source.code # "Ok" THEN Refuse(Source.code)
           ELSE IF Affordable(NodeCount(x))
           THEN Finish(addAtPointer(scratch, Current.path, x), 0)
           ELSE Refuse("ResourceLimit")

CopyOp ==
    /\ Applying("copy")
    /\ LET x == At(scratch, Source.path)
       IN  IF Source.code # "Ok" THEN Refuse(Source.code)
           ELSE IF Affordable(NodeCount(x))
           THEN Finish(addAtPointer(scratch, Current.path, x), NodeCount(x))
           ELSE Refuse("ResourceLimit")

\* Mutant: the destination is added before the source is taken out.
Move_AddFirst ==
    /\ Applying("move")
    /\ LET x == At(scratch, Source.path)
           added == addAtPointer(scratch, Current.path, x)
       IN  IF Source.code # "Ok" THEN Refuse(Source.code)
           ELSE IF Current.from = Current.path THEN Advance(scratch, 0)
           ELSE IF Current.from = <<>> THEN Refuse("MoveRootNotAllowed")
           ELSE IF isProperPointerAncestor(Current.from, Current.path)
           THEN Refuse("MoveIntoDescendant")
           ELSE IF added.code # "Ok" THEN Refuse(added.code)
           ELSE Finish(detachAtPointer(added.tree, Current.from), 0)

Move ==
    /\ Applying("move")
    /\ LET x == At(scratch, Source.path)
           left == detachAtPointer(scratch, Current.from)
       IN  IF Source.code # "Ok" THEN Refuse(Source.code)
           ELSE IF Current.from = Current.path THEN Advance(scratch, 0)
           ELSE IF Current.from = <<>> THEN Refuse("MoveRootNotAllowed")
           ELSE IF isProperPointerAncestor(Current.from, Current.path)
           THEN Refuse("MoveIntoDescendant")
           ELSE IF left.code # "Ok" THEN Refuse(left.code)
           ELSE Finish(addAtPointer(left.tree, Current.path, x), 0)

\* Mutant: the diagnostics of the last operation are kept on success.
Publish_StaleError ==
    /\ running /\ ~OnTheWay
    /\ target' = scratch
    /\ scratch' = Null
    /\ running' = FALSE
    /\ UNCHANGED <<patch, before, opIndex, error, budget, calls>>

\* The sole publication point.
Publish ==
    /\ running /\ ~OnTheWay
    /\ target' = scratch
    /\ scratch' = Null
    /\ running' = FALSE
    /\ error' = NoError
    /\ UNCHANGED <<patch, before, opIndex, budget, calls>>

\* std::bad_alloc, in the clone or in an operation: publishing does not allocate.
OutOfMemory == running /\ (OnTheWay \/ opIndex = 0) /\ Refuse("AllocationFailure")

\* A byte or work charge fails during the current operation.
Exhausted == running /\ OnTheWay /\ Refuse("ResourceLimit")

Init ==
    /\ target \in Targets
    /\ patch = <<>> /\ scratch = Null /\ before = target
    /\ opIndex = 0 /\ running = FALSE /\ error = NoError
    /\ budget = 0 /\ calls = 0

Next ==
    \/ Idle /\ \E p \in Patches : Begin(p)
    \/ NotAnArray
    \/ Defect
    \/ Add \/ Remove \/ Replace \/ Test \/ CopyOp \/ Move
    \/ Publish
    \/ OutOfMemory \/ Exhausted

Spec == Init /\ [][Next]_vars

-----------------------------------------------------------------------------
(* What RFC 6902 says, stated on locations: the places whose slots, named   *)
(* as pointers name them, spell the tokens.                                 *)

Names(token, t, p, n) ==
    IF Type(At(t, SubSeq(p, 1, n - 1))) = "array"
    THEN token \in Indexes /\ p[n] = token + 1
    ELSE p[n] = token
Locations(t, tokens) ==
    {p \in DOMAIN t : Len(p) = Len(tokens)
                      /\ \A n \in 1..Len(p) : Names(tokens[n], t, p, n)}

RfcAdd(t, tokens, x) ==
    IF tokens = <<>> THEN {x}
    ELSE LET token == LastToken(tokens)
             parents(type) == {p \in Locations(t, Front(tokens)) : Type(At(t, p)) = type}
         IN  {With(t, Append(p, token), x) : p \in parents("object")}
             \cup {With(t, p, Spliced(At(t, p), token + 1, x)) :
                     p \in {q \in parents("array") : token \in Indexes
                                                     /\ token <= Size(At(t, q))}}
             \cup {With(t, p, Pushed(At(t, p), x)) :
                     p \in {q \in parents("array") : token = Dash}}

RfcRemove(t, tokens) ==
    {IF p = <<>> THEN Null ELSE With(t, Front(p), Erased(At(t, Front(p)), LastToken(p))) :
        p \in Locations(t, tokens)}

\* The documents operation o may leave of t: one, or none when it is an error.
Rfc(t, o) ==
    CASE o.op = "add" -> RfcAdd(t, o.path, o.value)
      [] o.op = "remove" -> RfcRemove(t, o.path)
      [] o.op = "replace" ->
            IF o.path = <<>> THEN {o.value}
            ELSE {With(t, p, o.value) : p \in Locations(t, o.path)}
      [] o.op = "test" -> {t : p \in {q \in Locations(t, o.path) : At(t, q) = o.value}}
      [] o.op = "copy" ->
            UNION {RfcAdd(t, o.path, At(t, p)) : p \in Locations(t, o.from)}
      [] o.op = "move" ->
            IF isProperPointerAncestor(o.from, o.path) THEN {}
            ELSE UNION {RfcAdd(u, o.path, At(t, p)) :
                            p \in Locations(t, o.from), u \in RfcRemove(t, o.from)}
WellFormedOp(o) ==
    \/ o.defect = "none"
    \/ o.defect \in {"MissingFrom", "InvalidFrom"} /\ o.op \notin {"move", "copy"}
    \/ o.defect = "MissingValue" /\ o.op \notin {"add", "replace", "test"}

\* The documents operations may leave of t.
Leaves(t, operations, n) ==
    LET upTo[k \in 0..n] ==
            IF k = 0 THEN {t}
            ELSE UNION {IF WellFormedOp(operations[k]) THEN Rfc(u, operations[k]) ELSE {} :
                            u \in upTo[k - 1]}
    IN  upTo[n]

\* Those the first n operations of the call may leave.
After(n) == Leaves(before, patch, n)

-----------------------------------------------------------------------------
(* Properties.                                                              *)

\* All or nothing: a call that reports success has made the target what RFC
\* 6902 makes of the whole patch; any other step leaves the target alone.
AllOrNothing ==
    [][IF running /\ ~running' /\ error'.code = "Ok"
       THEN {target'} = After(Len(patch))
       ELSE target' = target]_vars

\* The index in a reported error is that of the first operation that RFC 6902
\* refuses; when a limit or an allocation ended the call, none before it is
\* refused.
BlamesFirstBadOperation ==
    [][running /\ ~running' /\ error'.code # "Ok" =>
        /\ After(error'.opIndex) # {}
        /\ error'.code \notin {"ResourceLimit", "AllocationFailure"}
            => After(error'.opIndex + 1) = {}]_vars

\* The clone never has more nodes than were charged, nor is a call charged for
\* more than the caller allowed: however the patch multiplies the document by
\* copying it into itself, or moves its parts about, what it may grow to is
\* bounded before it grows.
CloneBudget ==
    /\ budget <= maxClonedNodes
    /\ running => NodeCount(scratch) <= budget

\* A call that succeeded leaves no trace of its operations in the caller's
\* PatchError.
SuccessClearsError == ~running /\ error.code = "Ok" => error = NoError
=============================================================================
