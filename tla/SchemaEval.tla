----------------------------- MODULE SchemaEval -----------------------------
(***************************************************************************)
(* One validation run (pjsonlib/src/pjson_schema.cpp, runValidation and    *)
(* validateCtx): the recursion as a stack of frames, the budgets and the   *)
(* reference stacks of ValidationCtx, and the three kinds of error sink.   *)
(*                                                                         *)
(* The head of the stack is the call that runs.  A call that waits for     *)
(* another keeps the step that made it at the head of its todo.  Pushes to *)
(* one sink by nested calls are counted in the frame that made them and    *)
(* added to the caller's when they return: a frame's failures are the      *)
(* errors.size() - before of the code.  An exception empties the stack.    *)
(*                                                                         *)
(* Once aborted, the code still walks to the end of the loops that have no *)
(* check of their own, charging work nobody reads any more; the model      *)
(* returns from the frame at once.                                         *)
(***************************************************************************)
EXTENDS SchemaPlan, FiniteSets

VARIABLES
    session,         \* what this run validates, against which schema and options
    depth,
    refResolutions,
    workUsed,
    errorsUsed,
    diagnosticsUsed,
    aborted,
    activeRefs,      \* pairs <<instance node, schema node>>, innermost last
    dynamicScope,    \* resources on the evaluation path, outermost first
    regexCache,      \* the patterns compiled so far
    report,          \* the errors the caller gets: [code, causes]
    stack,           \* the frames, innermost first
    verdict,         \* "idle", "running", "valid" or "invalid"
    faults           \* history: failures that are no verdict on the instance

budgets == <<depth, refResolutions, workUsed, errorsUsed, diagnosticsUsed>>
evalVars == <<session, budgets, aborted, activeRefs, dynamicScope, regexCache, report, stack,
              verdict, faults>>

Options == session.options
limit == diagnosticLimit(Options)

\* The value of a node of what is validated.
Value(node) ==
    At(IF session.subject = "instance" THEN in.instance ELSE in.schema, node[2])

RootNode == <<RootDocument, <<>>>>

Frame(node, schema, root, base, policy, sink) ==
    [node |-> node, schema |-> schema, root |-> root, base |-> base, policy |-> policy,
     sink |-> sink, at |-> "enter", levels |-> 0, entry |-> depth, refs |-> Len(activeRefs),
     scope |-> Len(dynamicScope), todo |-> <<>>, failures |-> 0, held |-> 0, hits |-> 0,
     causes |-> 0, start |-> 0, marks |-> {}, kept |-> {}]

\* The frame of a call: an indexed schema node brings its own resource, base
\* and policy, any other one takes the policy of the base it is given.
Called(node, schema, root, base, sink, options) ==
    IF schema \in DOMAIN index.nodeTargets
    THEN LET t == index.nodeTargets[schema]
         IN  Frame(node, schema, t.root, t.base, t.policy, sink)
    ELSE Frame(node, schema, root, base,
               IF base \in DOMAIN index.resources THEN index.resources[base].policy
               ELSE subsetPolicy(options), sink)

-----------------------------------------------------------------------------
(* Budgets and sinks.                                                       *)

\* failValidationBudget: the run is over; the caller hears of it unless its
\* error budget is used up.  The report may be lost when memory is short.
Abort ==
    /\ aborted' = TRUE
    /\ faults' = faults \union {"ResourceLimit"}
    /\ \/ /\ errorsUsed < limit
          /\ report' = Append(report, [code |-> "ResourceLimit", causes |-> 0])
          /\ errorsUsed' = errorsUsed + 1
          /\ diagnosticsUsed' = diagnosticsUsed + 1
       \/ /\ errorsUsed >= limit \/ in.memoryShort
          /\ UNCHANGED <<report, errorsUsed, diagnosticsUsed>>

\* chargeValidationWork.
Affordable(n) == n <= validationWorkLimit(Options) - workUsed

\* Failures that say nothing about the instance.
Operational == {"ReferenceFailure", "ReferenceCycle", "RegexFailure", "ResourceLimit"}

Noted(code) == faults' = faults \union ({code} \cap Operational)

\* ErrorSink::push_back to each kind of sink; f is the frame once the error is
\* in, causes the number of diagnostics nested in it.
PushDiscard(f, code) ==
    /\ f.sink = "Discard"
    /\ stack' = <<[f EXCEPT !.failures = @ + 1]>> \o Tail(stack)
    /\ Noted(code)
    /\ UNCHANGED <<aborted, report, errorsUsed, diagnosticsUsed, verdict>>

PushCause(f, code, causes) ==
    /\ f.sink = "Causes"
    /\ LET fits == diagnosticsUsed + 1 < limit
       IN  /\ stack' = <<[f EXCEPT !.failures = @ + 1,
                                   !.held = @ + IF fits THEN 1 + causes ELSE 0]>> \o Tail(stack)
           /\ diagnosticsUsed' = diagnosticsUsed + IF fits THEN 1 ELSE 0
    /\ Noted(code)
    /\ UNCHANGED <<aborted, report, errorsUsed, verdict>>

PushPublic(f, code, causes) ==
    /\ f.sink = "Public"
    /\ errorsUsed < limit /\ diagnosticsUsed < limit
    /\ report' = Append(report, [code |-> code, causes |-> causes])
    /\ errorsUsed' = errorsUsed + 1
    /\ diagnosticsUsed' = diagnosticsUsed + 1
    /\ Noted(code)
    /\ IF Options.stopAfterFirstError
       THEN aborted' = TRUE /\ stack' = <<>> /\ verdict' = "invalid"
       ELSE /\ stack' = <<[f EXCEPT !.failures = @ + 1]>> \o Tail(stack)
            /\ UNCHANGED <<aborted, verdict>>

\* The caller's own budget is used up: SchemaBudgetExceeded.
PushOver(f) ==
    /\ f.sink = "Public"
    /\ errorsUsed >= limit \/ diagnosticsUsed >= limit
    /\ aborted' = TRUE /\ stack' = <<>> /\ verdict' = "invalid"
    /\ faults' = faults \union {"ResourceLimit"}
    /\ \/ /\ Len(report) < limit /\ diagnosticsUsed < limit
          /\ report' = Append(report, [code |-> "ResourceLimit", causes |-> 0])
          /\ diagnosticsUsed' = diagnosticsUsed + 1
       \/ /\ Len(report) >= limit \/ diagnosticsUsed >= limit \/ in.memoryShort
          /\ UNCHANGED <<report, diagnosticsUsed>>
    /\ UNCHANGED errorsUsed

Push(f, code, causes) ==
    /\ \/ PushDiscard(f, code)
       \/ PushCause(f, code, causes)
       \/ PushPublic(f, code, causes)
       \/ PushOver(f)
    /\ UNCHANGED <<session, depth, workUsed, activeRefs, dynamicScope, regexCache>>

-----------------------------------------------------------------------------
(* Calls and returns.                                                       *)

\* Mutant: the check is one level too late.
TooDeep_OffByOne == depth > validationDepthLimit(Options)

\* ValidationDepthGuard refuses another level.
TooDeep == depth >= validationDepthLimit(Options)

Running(at) ==
    /\ verdict = "running" /\ stack # <<>> /\ ~aborted
    /\ Head(stack).at = at

\* A frame with nothing left to do; its failures are its result.
Finished(f) == [f EXCEPT !.at = "keywords", !.todo = <<>>]

\* A call reports to its caller's sink, or to one of its own.
Same(s) == s.op = "reference" \/ s.sink = "same"

SinkOf(s, caller) ==
    CASE Same(s) -> caller.sink
      [] ~Same(s) /\ s.sink = "Causes" -> "Causes"
      [] OTHER -> "Discard"

\* The caller c once its call f has returned result: what the call reported to
\* c's own sink is c's failure too, and the step's use takes the rest.
Resumed(c, f, result) ==
    LET s == Head(c.todo)
    IN  [c EXCEPT
            !.todo = Tail(@),
            !.failures = @ + IF Same(s) THEN f.failures ELSE 0,
            !.held = @ + IF Same(s) THEN f.held ELSE 0,
            !.causes = @ + IF Same(s) THEN 0 ELSE f.held,
            !.hits = @ + IF result /\ s.use \in {"count", "contain", "branch", "exclusive"}
                         THEN 1 ELSE 0,
            !.kept = IF result /\ s.use = "exclusive" THEN f.marks ELSE @,
            !.marks = @ \union
                CASE s.use = "ignore" -> s.mark
                  [] result /\ s.use = "contain" -> s.mark
                  [] result /\ s.use \in {"merge", "branch"} -> f.marks
                  [] OTHER -> {}]

\* Return from the running call: the guards pop what the frame pushed.
Return(result) ==
    LET f == Head(stack)
    IN  /\ depth' = depth - f.levels
        /\ activeRefs' = SubSeq(activeRefs, 1, f.refs)
        /\ dynamicScope' = SubSeq(dynamicScope, 1, f.scope)
        /\ IF Len(stack) = 1
           THEN stack' = <<>> /\ verdict' = IF result THEN "valid" ELSE "invalid"
           ELSE /\ stack' = <<Resumed(stack[2], f, result)>> \o Tail(Tail(stack))
                /\ UNCHANGED verdict
        /\ UNCHANGED <<session, refResolutions, workUsed, errorsUsed, diagnosticsUsed, aborted,
                       regexCache, report, faults>>

\* Mutant: an aborted call passes for one that found nothing wrong.
Bailed_Result(f) == f.failures = 0

\* What an aborted call returns.
Bailed(f) == FALSE

\* Every loop and every keyword that made a call checks ctx.aborted and returns.
Bail ==
    /\ verdict = "running" /\ stack # <<>> /\ aborted
    /\ Return(Bailed(Head(stack)))

\* The end of validateCtx.
Conclude ==
    /\ Running("keywords") /\ Head(stack).todo = <<>>
    /\ Return(Head(stack).failures = 0)

\* The beginning of validateCtx.
Enter ==
    /\ Running("enter")
    /\ UNCHANGED <<session, refResolutions, activeRefs, dynamicScope, regexCache, verdict>>
    /\ \/ /\ ~Affordable(1)
          /\ Abort
          /\ UNCHANGED <<depth, workUsed, stack>>
       \/ /\ Affordable(1)
          /\ workUsed' = workUsed + 1
          /\ \/ /\ TooDeep
                /\ Abort
                /\ UNCHANGED <<depth, stack>>
             \/ /\ ~TooDeep
                /\ depth' = depth + 1
                /\ stack' = <<[Head(stack) EXCEPT !.at = "follow", !.levels = 1]>> \o Tail(stack)
                /\ UNCHANGED <<errorsUsed, diagnosticsUsed, aborted, report, faults>>

-----------------------------------------------------------------------------
(* References.                                                              *)

AnchorOf(s) == IF find(s, "$dynamicAnchor").t = "string" THEN find(s, "$dynamicAnchor").v ELSE ""

\* Mutant: the dynamic scope is searched from the inside.
DynamicTarget_Innermost(reference_, target) ==
    LET ref == References[reference_]
        scoped == {i \in DOMAIN dynamicScope :
                      <<dynamicScope[i].base, ref.name>> \in DOMAIN index.dynamicAnchors}
        innermost == CHOOSE i \in scoped : \A j \in scoped : i >= j
    IN  IF /\ ref.fragment = "anchor" /\ AnchorOf(Schema(target.schema)) = ref.name
           /\ scoped # {}
        THEN index.dynamicAnchors[<<dynamicScope[innermost].base, ref.name>>]
        ELSE target

\* $dynamicRef: when the target declares the dynamic anchor it was reached by,
\* the outermost resource of the dynamic scope that declares it takes over.
DynamicTarget(reference_, target) ==
    LET ref == References[reference_]
        scoped == {i \in DOMAIN dynamicScope :
                      <<dynamicScope[i].base, ref.name>> \in DOMAIN index.dynamicAnchors}
        outermost == CHOOSE i \in scoped : \A j \in scoped : i <= j
    IN  IF /\ ref.fragment = "anchor" /\ AnchorOf(Schema(target.schema)) = ref.name
           /\ scoped # {}
        THEN index.dynamicAnchors[<<dynamicScope[outermost].base, ref.name>>]
        ELSE target

Referenced(f, keyword) ==
    LET text == find(Schema(f.schema), keyword).v
        Late(target) == IF keyword = "$dynamicRef" /\ target # NoTarget
                        THEN DynamicTarget(text, target) ELSE target
    IN  Late(ResolvedReference(text, f.base))

\* Mutant: only the reference followed last is looked at.
InCycle_LastOnly(node, schema) ==
    activeRefs # <<>> /\ activeRefs[Len(activeRefs)] = <<node, schema>>

\* ActiveRefGuard: the same schema is being evaluated on the same value.
InCycle(node, schema) == \E i \in DOMAIN activeRefs : activeRefs[i] = <<node, schema>>

\* The three ways a reference cannot be followed.
RefBudget ==
    /\ refResolutions >= validationRefLimit(Options)
    /\ Abort
    /\ UNCHANGED <<session, depth, refResolutions, workUsed, activeRefs, dynamicScope,
                   regexCache, stack, verdict>>

RefFails(keyword) ==
    LET f == Head(stack)
    IN  /\ refResolutions < validationRefLimit(Options)
        /\ refResolutions' = refResolutions + 1
        /\ \E target \in {Referenced(f, keyword)} :
              \/ target = NoTarget /\ Push(Finished(f), "ReferenceFailure", 0)
              \/ /\ target # NoTarget /\ InCycle(f.node, target.schema)
                 /\ Push(Finished(f), "ReferenceCycle", 0)

\* The static loop: bool schemas and other values end the call; a $ref whose
\* siblings are ignored is followed in the same call.
Trivial ==
    LET f == Head(stack)
        s == Schema(f.schema)
    IN  /\ Running("follow")
        /\ \/ /\ s.t = "boolean" /\ ~s.v
              /\ Push(Finished(f), "FalseSchema", 0)
              /\ UNCHANGED refResolutions
           \/ /\ s.t # "object" /\ ~(s.t = "boolean" /\ ~s.v)
              /\ stack' = <<Finished(f)>> \o Tail(stack)
              /\ UNCHANGED <<session, budgets, aborted, activeRefs, dynamicScope, regexCache,
                             report, verdict, faults>>

Replacing(f) ==
    /\ find(Schema(f.schema), "$ref").t = "string"
    /\ ~f.policy.refSiblings

\* The target of a reference that can be followed.
Reachable(f, keyword) ==
    {target \in {Referenced(f, keyword)} : target # NoTarget /\ ~InCycle(f.node, target.schema)}

FollowRef ==
    LET f == Head(stack)
    IN  /\ Running("follow") /\ Schema(f.schema).t = "object" /\ Replacing(f)
        /\ refResolutions < validationRefLimit(Options)
        /\ \E target \in Reachable(f, "$ref") :
              /\ refResolutions' = refResolutions + 1
              /\ activeRefs' = Append(activeRefs, <<f.node, target.schema>>)
              /\ UNCHANGED <<session, dynamicScope, regexCache, verdict>>
              /\ \/ /\ ~Affordable(1)
                    /\ Abort
                    /\ UNCHANGED <<depth, workUsed, stack>>
                 \/ /\ Affordable(1)
                    /\ workUsed' = workUsed + 1
                    /\ \/ /\ TooDeep
                          /\ Abort
                          /\ UNCHANGED <<depth, stack>>
                       \/ /\ ~TooDeep
                          /\ depth' = depth + 1
                          /\ stack' = <<[f EXCEPT !.levels = @ + 1, !.schema = target.schema,
                                                  !.root = target.root, !.base = target.base,
                                                  !.policy = target.policy]>> \o Tail(stack)
                          /\ UNCHANGED <<errorsUsed, diagnosticsUsed, aborted, report, faults>>

FollowFails ==
    LET f == Head(stack)
    IN  /\ Running("follow") /\ Schema(f.schema).t = "object" /\ Replacing(f)
        /\ RefBudget \/ RefFails("$ref")

\* pushResource, then the keywords.
Entered(scope, f) ==
    IF scope # <<>> /\ scope[Len(scope)] = [base |-> f.base, root |-> f.root]
    THEN scope
    ELSE Append(scope, [base |-> f.base, root |-> f.root])

Settle ==
    LET f == Head(stack)
        t == IF f.schema \in DOMAIN index.nodeTargets THEN index.nodeTargets[f.schema]
             ELSE Target(f.schema, f.root, f.base, f.policy)
        g == [f EXCEPT !.root = t.root, !.base = t.base, !.policy = t.policy,
                       !.at = "keywords",
                       !.todo = Plan(f.node, Value(f.node), f.schema, Schema(f.schema),
                                     t.policy, Options)]
    IN  /\ Running("follow") /\ Schema(f.schema).t = "object" /\ ~Replacing(f)
        /\ dynamicScope' = Entered(dynamicScope, g)
        /\ stack' = <<g>> \o Tail(stack)
        /\ UNCHANGED <<session, budgets, aborted, activeRefs, regexCache, report, verdict, faults>>

-----------------------------------------------------------------------------
(* The steps of the keywords.                                               *)

Step(op) == Running("keywords") /\ Head(stack).todo # <<>> /\ Head(Head(stack).todo).op = op

step == Head(Head(stack).todo)
Stepped(f) == [f EXCEPT !.todo = Tail(@)]

\* A $ref beside its siblings, or a $dynamicRef: a call of its own.  The pair
\* stays active until this call returns, not the one it makes.
Reference ==
    LET f == Head(stack)
    IN  /\ Step("reference")
        /\ refResolutions < validationRefLimit(Options)
        /\ \E target \in Reachable(f, step.keyword) :
              /\ refResolutions' = refResolutions + 1
              /\ activeRefs' = Append(activeRefs, <<f.node, target.schema>>)
              /\ stack' = <<[Called(f.node, target.schema, target.root, target.base, f.sink,
                                    Options)
                                EXCEPT !.refs = Len(activeRefs) + 1]>> \o stack
        /\ UNCHANGED <<session, depth, workUsed, errorsUsed, diagnosticsUsed, aborted,
                       dynamicScope, regexCache, report, verdict, faults>>

ReferenceFails == Step("reference") /\ (RefBudget \/ RefFails(step.keyword))

\* A nested validateCtx, with neither root nor base of the caller's.
Apply ==
    LET f == Head(stack)
    IN  /\ Step("apply")
        /\ stack' = <<Called(step.node, step.schema, session.root, NoUri,
                             SinkOf(step, f), Options)>> \o stack
        /\ UNCHANGED <<session, budgets, aborted, activeRefs, dynamicScope, regexCache, report,
                       verdict, faults>>

\* Spend(n, f): charge n and go on with frame f, or abort.
Spend(n, f) ==
    /\ UNCHANGED <<session, depth, refResolutions, activeRefs, dynamicScope, verdict>>
    /\ \/ /\ ~Affordable(n)
          /\ Abort
          /\ UNCHANGED <<workUsed, stack>>
       \/ /\ Affordable(n)
          /\ workUsed' = workUsed + n
          /\ stack' = <<f>> \o Tail(stack)
          /\ UNCHANGED <<errorsUsed, diagnosticsUsed, aborted, report, faults>>

Charge == Step("charge") /\ Spend(step.n, Stepped(Head(stack))) /\ UNCHANGED regexCache

\* The first use of a pattern in a run compiles it.
Compile ==
    LET cost == IF step.pattern \in regexCache THEN 0 ELSE Len(step.pattern) + 1
    IN  /\ Step("compile")
        /\ Spend(cost, Stepped(Head(stack)))
        /\ regexCache' = regexCache \union {step.pattern}

Fail ==
    /\ Step("fail")
    /\ Push(Stepped(Head(stack)), step.code, 0)
    /\ UNCHANGED refResolutions

\* One turn of equalWithBudget: the top pair decides, or brings its children.
Equal ==
    LET f == Head(stack)
        pair == step.pairs[Len(step.pairs)]
        rest == Front(step.pairs)
        l == pair[1]
        r == pair[2]
        differ == \/ l.t # r.t
                  \/ l.t \in {"number", "string", "boolean"} /\ l.v # r.v
                  \/ l.t \in {"array", "object"} /\ Size(l) # Size(r)
        common == {i \in DOMAIN keys(l) : \A j \in 1..i : hasKey(r, keys(l)[j])}
        bytes == IF Len(l.v) < Len(r.v) THEN Len(r.v) ELSE Len(l.v)
        looked == IF common = DOMAIN keys(l) THEN Len(l.v) ELSE Cardinality(common) + 1
        cost == 1 + CASE l.t # r.t -> 0
                      [] l.t = "string" -> bytes
                      [] l.t = "object" /\ Size(l) = Size(r) ->
                            FoldLeft(LAMBDA n, i : n + Len(keys(l)[i]) + 1, 0,
                                     [i \in 1..looked |-> i])
                      [] OTHER -> 0
        children == CASE l.t = "array" -> [i \in DOMAIN l.v |-> <<l.v[i], r.v[i]>>]
                      [] l.t = "object" ->
                            [i \in DOMAIN l.v |-> <<l.v[i][2], find(r, l.v[i][1])>>]
                      [] OTHER -> <<>>
        unequal == differ \/ (l.t = "object" /\ common # DOMAIN keys(l))
        left == rest \o children
    IN  /\ Step("equal") /\ f.hits = 0
        /\ Spend(cost,
                 IF unequal THEN Stepped(f)
                 ELSE IF left = <<>> THEN [Stepped(f) EXCEPT !.hits = 1]
                 ELSE [f EXCEPT !.todo = <<[step EXCEPT !.pairs = left]>> \o Tail(@)])
        /\ UNCHANGED regexCache

\* The steps that only move on: a comparison after the first hit, the choice
\* of a branch, the check of what is evaluated.
Advanced(f) ==
    CASE step.op = "equal" -> Stepped(f)
      [] step.op = "choose" ->
            [f EXCEPT !.todo = (IF f.hits > 0 THEN step.yes ELSE step.no) \o Tail(@)]
      [] step.op = "unevaluated" ->
            IF step.mark \subseteq f.marks THEN Stepped(f)
            ELSE [f EXCEPT !.todo = step.steps \o Tail(@), !.marks = @ \union step.mark]
      [] step.op = "open" ->
            [Stepped(f) EXCEPT !.start = diagnosticsUsed, !.hits = 0, !.causes = 0, !.kept = {}]

Advance ==
    LET f == Head(stack)
    IN  /\ \/ Step("equal") /\ f.hits > 0
           \/ Step("choose")
           \/ Step("unevaluated")
           \/ Step("open")
        /\ stack' = <<Advanced(f)>> \o Tail(stack)
        /\ UNCHANGED <<session, budgets, aborted, activeRefs, dynamicScope, regexCache, report,
                       verdict, faults>>

\* The budget after the branches of a combinator: the causes of one that some
\* branch satisfies are dropped.
Close ==
    LET f == Head(stack)
    IN  /\ Step("close")
        /\ stack' = <<[Stepped(f) EXCEPT !.causes = IF f.hits > 0 THEN 0 ELSE @]>> \o Tail(stack)
        /\ diagnosticsUsed' = IF f.hits > 0 THEN f.start ELSE diagnosticsUsed
        /\ UNCHANGED <<session, depth, refResolutions, workUsed, errorsUsed, aborted, activeRefs,
                       dynamicScope, regexCache, report, verdict, faults>>

\* The hits are in range, or they are not.
InRange(f) == step.least <= f.hits /\ f.hits <= step.most

Satisfied ==
    LET f == Head(stack)
    IN  /\ Step("require") /\ InRange(f)
        /\ stack' = <<[Stepped(f) EXCEPT !.marks = @ \union
                          IF step.combinator = "oneOf" THEN f.kept ELSE {}]>> \o Tail(stack)
        /\ UNCHANGED <<session, budgets, aborted, activeRefs, dynamicScope, regexCache, report,
                       verdict, faults>>

Unsatisfied ==
    LET f == Head(stack)
    IN  /\ Step("require") /\ ~InRange(f)
        /\ UNCHANGED refResolutions
        /\ Push(Stepped(f), step.code, IF step.combinator = "none" THEN 0 ELSE f.causes)

-----------------------------------------------------------------------------
(* The run.                                                                 *)

\* bad_alloc anywhere: the exception is contained, its report a best effort.
OutOfMemory ==
    /\ verdict = "running" /\ in.memoryShort
    /\ verdict' = "invalid" /\ stack' = <<>>
    /\ \/ report' = Append(report, [code |-> "AllocationFailure", causes |-> 0])
       \/ UNCHANGED report
    /\ UNCHANGED <<session, budgets, aborted, activeRefs, dynamicScope, regexCache, faults>>

EvalInit ==
    /\ session = [subject |-> "none", root |-> RootNode, options |-> in.options]
    /\ depth = 0 /\ refResolutions = 0 /\ workUsed = 0 /\ errorsUsed = 0 /\ diagnosticsUsed = 0
    /\ aborted = FALSE /\ activeRefs = <<>> /\ dynamicScope = <<>> /\ regexCache = {}
    /\ report = <<>> /\ stack = <<>> /\ verdict = "idle" /\ faults = {}

\* runValidation: a fresh ValidationCtx and the first call.
Start(subject, root, options) ==
    /\ session' = [subject |-> subject, root |-> root, options |-> options]
    /\ depth' = 0 /\ refResolutions' = 0 /\ workUsed' = 0
    /\ errorsUsed' = 0 /\ diagnosticsUsed' = 0
    /\ aborted' = FALSE /\ activeRefs' = <<>> /\ dynamicScope' = <<>> /\ regexCache' = {}
    /\ report' = <<>> /\ verdict' = "running" /\ faults' = {}
    /\ stack' = <<[Called(RootNode, root, root, NoUri, "Public", options)
                     EXCEPT !.entry = 0, !.refs = 0, !.scope = 0]>>

EvalNext ==
    \/ Enter \/ Trivial \/ FollowRef \/ FollowFails \/ Settle
    \/ Reference \/ ReferenceFails \/ Apply
    \/ Charge \/ Compile \/ Fail \/ Equal \/ Advance \/ Close \/ Satisfied \/ Unsatisfied
    \/ Conclude \/ Bail \/ OutOfMemory
=============================================================================
