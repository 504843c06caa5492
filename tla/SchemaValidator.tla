-------------------------- MODULE SchemaValidator ---------------------------
(***************************************************************************)
(* A pJsonSchemaValidator from its construction to its first verdict       *)
(* (pjsonlib/src/pjson_schema.cpp): the schema is compiled, a schema of    *)
(* another dialect than the subset is then validated against its           *)
(* meta-schema, by the same code and on the same index, and the validator  *)
(* that results validates an instance.                                     *)
(***************************************************************************)
EXTENDS SchemaCompile, SchemaEval

vars == <<in, compileVars, evalVars>>

\* validateAgainstMetaSchema: the user's limits, without the regex filter.
MetaOptions == [in.options EXCEPT !.allowUnsafeRegex = TRUE]

MetaTarget == ResolvedReference(dialect, in.options.retrievalUri)

ValidateSchema ==
    /\ phase = "meta" /\ verdict = "idle"
    /\ \E target \in {MetaTarget} \ {NoTarget} : Start("schema", target.schema, MetaOptions)
    /\ UNCHANGED compileVars

\* Up to here there were no errors.
MetaSchemaUnavailable ==
    /\ phase = "meta" /\ verdict = "idle" /\ MetaTarget = NoTarget
    /\ schemaErrors' = <<"ReferenceFailure">>
    /\ phase' = "refused"
    /\ UNCHANGED <<index, visits, requested, dialect, evalVars>>

\* The errors of that run become compilation errors, up to the limit.
SchemaValidated ==
    LET n == IF Len(report) < errorLimit THEN Len(report) ELSE errorLimit
    IN  /\ phase = "meta" /\ verdict \in {"valid", "invalid"}
        /\ IF verdict = "valid"
           THEN phase' = "ready" /\ UNCHANGED schemaErrors
           ELSE /\ phase' = "refused"
                /\ schemaErrors' = IF report = <<>> THEN <<"InvalidSchema">>
                                   ELSE First([i \in 1..n |-> report[i].code])
        /\ UNCHANGED <<index, visits, requested, dialect, evalVars>>

\* validate: only a validator without schema errors looks at the instance.
Validate ==
    /\ phase = "ready" /\ session.subject # "instance"
    /\ Start("instance", RootNode, in.options)
    /\ UNCHANGED compileVars

Refused ==
    /\ phase = "refused" /\ session.subject # "instance"
    /\ session' = [session EXCEPT !.subject = "instance"]
    /\ verdict' = "invalid"
    /\ report' = [i \in DOMAIN schemaErrors |-> [code |-> schemaErrors[i], causes |-> 0]]
    /\ UNCHANGED <<compileVars, budgets, aborted, activeRefs, dynamicScope, regexCache, stack,
                   faults>>

\* The options a caller can set: every limit is a size_t.  What the resolver
\* answers is a document.
ValidOptions ==
    /\ {"maxErrors", "stopAfterFirstError", "maxValidationDepth"} \subseteq DOMAIN in.options
    /\ {in.options.maxErrors, in.options.maxValidationDepth, in.options.maxRefResolutions,
        in.options.maxValidationWork, in.options.maxResolvedDocuments,
        in.options.maxResolvedBytes} \subseteq Nat
    /\ {in.options.stopAfterFirstError, in.options.strictSubset, in.memoryShort} \subseteq BOOLEAN
    /\ in.schema \in Values
    /\ \A uri \in DOMAIN in.answers : IsAnswer(in.answers[uri])

Init == ValidOptions /\ CompileInit /\ EvalInit

Next ==
    /\ UNCHANGED in
    /\ \/ CompileNext /\ UNCHANGED evalVars
       \/ EvalNext /\ UNCHANGED compileVars
       \/ ValidateSchema \/ MetaSchemaUnavailable \/ SchemaValidated
       \/ Validate \/ Refused

Spec == Init /\ [][Next]_vars

-----------------------------------------------------------------------------
(* Properties.                                                              *)

Done == verdict \in {"valid", "invalid"}

\* The answer to the caller of validate.
Judged == session.subject = "instance" /\ Done

\* validate returns true exactly when it reports nothing: a run that is cut
\* short, by a budget that runs out while errors are being discarded (under not,
\* if, contains or a branch of anyOf) or by the limit on diagnostics, never
\* passes for a valid instance, and no invalid instance goes unexplained.  Short
\* of memory, the report is a best effort.
VerdictIsReported ==
    Judged /\ ~in.memoryShort => (verdict = "valid" <=> report = <<>>)

\* The native stack is bounded by the depth option: every call of validateCtx
\* that waits for another has taken a level, also a call reached by a chain of
\* references, and each level is given back, so that siblings start even: the
\* depth is at all times what the calls on the stack have taken, each on top of
\* the depth it was called at.
RecursionBounded ==
    /\ Len(stack) <= validationDepthLimit(Options) + 1
    /\ \A i \in DOMAIN stack :
          stack[i].entry + stack[i].levels = IF i = 1 THEN depth ELSE stack[i - 1].entry
    /\ stack # <<>> => stack[Len(stack)].entry = 0

\* Every schema node that was indexed is judged under the base, the root and the
\* dialect of the one resource its base URI names: no second document and no
\* nested $id takes the URI over.
NodesKnowTheirResource ==
    \A node \in DOMAIN index.nodeTargets :
        LET t == index.nodeTargets[node]
        IN  t.base # NoUri =>
                /\ t.base \in DOMAIN index.resources
                /\ index.resources[t.base].root = t.root
                /\ index.resources[t.base].policy = t.policy

\* A document that references name is kept once, and only as the resource it is
\* found by; one that a dialect names is kept once for each text that names it,
\* be it kept for a reference or not; and all that is kept stays within both
\* budgets.
DocumentsBounded ==
    LET distinct(s) == \A i, j \in DOMAIN s : i < j => s[i] # s[j]
    IN  /\ distinct(index.documents) /\ distinct(index.dialectDocuments)
        /\ Elements(index.documents) \subseteq DOMAIN index.resources
        /\ Len(index.documents) + Len(index.dialectDocuments) <= resolvedDocumentLimit(in.options)
        /\ index.resolvedBytes <= resolvedByteLimit(in.options)
=============================================================================
