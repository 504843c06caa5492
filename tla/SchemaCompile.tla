--------------------------- MODULE SchemaCompile ----------------------------
(***************************************************************************)
(* The construction of a validator (pjsonlib/src/pjson_schema.cpp, Impl,   *)
(* compileDialectContract, compileSchemaResource, compileExternalResources *)
(* and validateCompiledReferences): a walk that indexes every schema node  *)
(* of a document, and a loop that asks the caller's resolver for the       *)
(* documents the references name, until none is pending or a limit is hit. *)
(*                                                                         *)
(* The recursion of the walk is a list of the nodes still to visit, in the *)
(* order of the code.  Which pending document is taken first is left open: *)
(* the code takes the smallest URI.                                        *)
(***************************************************************************)
EXTENDS SchemaShapes, FiniteSets, FiniteSetsExt

CONSTANT AnchorNames   \* the names validAnchorName accepts

VARIABLES
    phase,      \* "contract", "documents", "references", "meta", "ready" or "refused"
    visits,     \* the schema nodes still to visit
    requested,  \* the document the loop is at, as a sequence of at most one URI
    dialect     \* the dialect of the root schema

compileVars == <<index, schemaErrors, phase, visits, requested, dialect>>

errorLimit == diagnosticLimit(in.options)

error(code) == Append(schemaErrors, code)

HasErrors(errors) == DOMAIN errors # {}

Put(f, k, x) == [d \in DOMAIN f \union {k} |-> IF d = k THEN x ELSE f[d]]

Elements(s) == {s[i] : i \in DOMAIN s}

-----------------------------------------------------------------------------
(* Dialects.  A contract is what compileDialectContract leaves: the policy, *)
(* the index and the diagnostics.  Nothing reads the policy of a contract   *)
(* that failed: the schema is refused.                                      *)

ContractOf(policy, idx, errors) == [policy |-> policy, index |-> idx, errors |-> errors]

NoPolicy == Policy({}, FALSE, FALSE)

\* The policy and the diagnostics after a $vocabulary is read.
policyFromVocabulary(declared, errors) ==
    LET Add(c, entry) ==
            CASE Len(c.errors) >= errorLimit -> c
              [] entry[2].t # "boolean" -> [c EXCEPT !.errors = Append(@, "InvalidSchema")]
              [] entry[2].t = "boolean" /\ entry[1] = SubsetVocabulary ->
                    [c EXCEPT !.policy = subsetPolicy(in.options)]
              [] entry[2].t = "boolean" /\ entry[1] \in Vocabularies ->
                    [c EXCEPT !.policy.vocabularies = @ \union {entry[1]}]
              [] OTHER -> IF entry[2].v
                          THEN [c EXCEPT !.errors = Append(@, "UnsupportedVocabulary")]
                          ELSE c
    IN  IF declared.t # "object"
        THEN [policy |-> NoPolicy, errors |-> Append(errors, "InvalidSchema")]
        ELSE [FoldLeft(Add, [policy |-> Policy({}, TRUE, FALSE), errors |-> errors], declared.v)
                 EXCEPT !.policy.assertFormats = FALSE]

\* Mutant: every document has the budget to itself.
Overruns_Alone(answer, used) == answer.bytes > resolvedByteLimit(in.options)

\* The compact text of an answer is charged by its length.  The serializer
\* writes it into what is left of the budget, and so meets the end of the
\* budget or what it cannot write (a NaN, say), whichever comes first.
Overruns(answer, used) ==
    \/ used >= resolvedByteLimit(in.options)
    \/ answer.bytes > resolvedByteLimit(in.options) - used

Fits(answer, used) == answer.whole /\ ~Overruns(answer, used)

\* The URI of a dialect, and whether the document at uri was loaded as one: a
\* dialect written with a fragment, be it an empty one, is another text.
DialectUri(text) == References[text].doc
Adopted(uri, idx) ==
    \E text \in Elements(idx.dialectDocuments) :
        DialectUri(text) = uri /\ References[text].fragment = "none"

\* loadDialectDocument: the index and the diagnostics once the meta-schema that
\* text names is loaded, or is not.
loadDialectDocument(text, idx, errors) ==
    LET answer == Answer(DialectUri(text))
        failed(code) == ContractOf(NoPolicy, idx, Append(errors, code))
    IN  IF text \in Elements(idx.dialectDocuments) THEN ContractOf(NoPolicy, idx, errors)
        ELSE IF ~in.options.resolveCustomDialects \/ ~in.options.resolver
        THEN failed("UnsupportedDialect")
        ELSE IF Len(idx.documents) + Len(idx.dialectDocuments) >= resolvedDocumentLimit(in.options)
        THEN failed("ResourceLimit")
        ELSE IF answer.kind # "document" \/ answer.value.t # "object"
        THEN failed("ResolverFailure")
        ELSE IF ~Fits(answer, idx.resolvedBytes) THEN failed("ResourceLimit")
        ELSE ContractOf(NoPolicy,
                 [idx EXCEPT !.dialectDocuments = Append(@, text),
                             !.resolvedBytes = @ + answer.bytes], errors)

DefaultDialect ==
    IF in.options.defaultDialect = "" THEN SubsetDialect ELSE in.options.defaultDialect

DialectOf(s) ==
    LET declared == find(s, "$schema")
    IN  IF declared.t = "string" THEN declared.v ELSE DefaultDialect

\* A contract under a declared $vocabulary.
Declared(declared, contract) ==
    LET Read(read) == ContractOf(read.policy, contract.index, read.errors)
    IN  Read(policyFromVocabulary(declared, contract.errors))

compileDialectContract(s, idx, errors) ==
    LET text == DialectOf(s)
        own == find(s, "$vocabulary")
        bundled == text = Draft2020Dialect /\ in.options.defaultDialect = Draft2020Dialect
        known == ContractOf(IF bundled THEN draft2020Policy(in.options)
                            ELSE subsetPolicy(in.options), idx, errors)
        Custom(loaded, declared) ==
            IF loaded.errors # errors THEN loaded
            ELSE IF declared.t = "missing"
            THEN [loaded EXCEPT !.errors = Append(errors, "InvalidSchema")]
            ELSE Declared(declared, loaded)
    IN  IF find(s, "$schema").t \notin {"missing", "string"}
        THEN ContractOf(NoPolicy, idx, Append(errors, "InvalidSchema"))
        ELSE IF text = SubsetDialect \/ bundled
        THEN IF own.t = "missing" THEN known ELSE Declared(own, known)
        ELSE Custom(loadDialectDocument(text, idx, errors),
                    find(Answer(DialectUri(text)).value, "$vocabulary"))

-----------------------------------------------------------------------------
(* The walk.                                                                *)

Visiting(node, root, base, policy, level) ==
    [node |-> node, root |-> root, base |-> base, policy |-> policy, level |-> level]

Applicators == <<"additionalProperties", "unevaluatedProperties", "unevaluatedItems", "items",
                 "contains", "propertyNames", "not", "if", "then", "else">>
Containers == <<"$defs", "definitions", "properties", "patternProperties", "dependentSchemas">>
Lists == <<"allOf", "anyOf", "oneOf", "prefixItems">>

\* Where the value of keyword k, its members or its items are schemas of s.
SchemaPosition(s, k) == IF isSchemaNode(find(s, k)) THEN <<<<k>>>> ELSE <<>>
MemberPositions(s, k) ==
    IF find(s, k).t = "object" THEN [i \in DOMAIN find(s, k).v |-> <<k, find(s, k).v[i][1]>>]
    ELSE <<>>
ItemPositions(s, k) ==
    IF find(s, k).t = "array" THEN [i \in DOMAIN find(s, k).v |-> <<k, Decimal[i]>>] ELSE <<>>
\* Of the members of dependencies, those that are no list of names.
Dependencies(s) ==
    LET declared == find(s, "dependencies")
        position(member) ==
            IF isSchemaNode(member[2]) THEN <<<<"dependencies", member[1]>>>> ELSE <<>>
    IN  IF declared.t = "object"
        THEN FlattenSeq([i \in DOMAIN declared.v |-> position(declared.v[i])]) ELSE <<>>

\* The positions below s whose values are schemas, in the order of the code.
\* Values of const, default and the like are instance data.
Positions(s) ==
    FlattenSeq([i \in DOMAIN Applicators |-> SchemaPosition(s, Applicators[i])])
    \o FlattenSeq([i \in DOMAIN Containers |-> MemberPositions(s, Containers[i])])
    \o Dependencies(s)
    \o FlattenSeq([i \in DOMAIN Lists |-> ItemPositions(s, Lists[i])])
    \o ItemPositions(s, "items")

\* What a visit leaves: the index, the diagnostics and the visits it adds.
Left(idx, errors, children) == [index |-> idx, errors |-> errors, children |-> children]

badName(x) == x.t # "missing" /\ (x.t # "string" \/ x.v \notin AnchorNames)

\* The documents the references of s name; a reference that is no string is a
\* diagnostic.
ReferenceTexts(s) ==
    {find(s, k).v : k \in {k \in {"$ref", "$dynamicRef"} : find(s, k).t = "string"}}
BadReferences(s) ==
    LET bad(k) == IF find(s, k).t \in {"missing", "string"} THEN <<>> ELSE <<"InvalidSchema">>
    IN  bad("$ref") \o bad("$dynamicRef")

\* Mutant: the last resource that claims a URI has it.
Occupied_Never(idx, base, root) == FALSE

\* Another resource has the base URI.
Occupied(idx, base, root) ==
    base # NoUri /\ base \in DOMAIN idx.resources /\ idx.resources[base].root # root

\* The visits of the schemas below v, which have its resource.
Children(v, target, positions) ==
    [i \in DOMAIN positions |->
        Visiting(Below(v.node, positions[i]), target.root, target.base, target.policy, v.level + 1)]

\* The anchors and the references of an object whose resource is known.
Named(v, s, target, idx, errors) ==
    LET anchor == find(s, "$anchor")
        dynamic == find(s, "$dynamicAnchor")
        Bad(x, taken) == badName(x) \/ (x.t # "missing" /\ <<target.base, x.v>> \in taken)
        With(anchors, x) ==
            IF x.t = "missing" THEN anchors ELSE Put(anchors, <<target.base, x.v>>, target)
        plain == With(idx.anchors, anchor)
        stop(anchors) ==
            Left([idx EXCEPT !.anchors = anchors], Append(errors, "InvalidSchema"), <<>>)
    IN  IF Len(errors) >= errorLimit THEN Left(idx, errors, <<>>)
        ELSE IF Bad(anchor, DOMAIN idx.anchors) THEN stop(idx.anchors)
        ELSE IF Bad(dynamic, DOMAIN plain) THEN stop(plain)
        ELSE Left([idx EXCEPT
                      !.anchors = With(plain, dynamic),
                      !.dynamicAnchors = With(@, dynamic),
                      !.pendingDocuments = @ \union
                          ({resolveUri(target.base, text) : text \in ReferenceTexts(s)} \ {NoUri})],
                  errors \o BadReferences(s), Children(v, target, Positions(s)))

\* An object under the contract of its resource: the URI must be free.
InResource(v, s, root, base, contract) ==
    IF Occupied(contract.index, base, root)
    THEN Left(contract.index, Append(contract.errors, "InvalidSchema"), <<>>)
    ELSE Named(v, s, Target(v.node, root, base, contract.policy),
               [contract.index EXCEPT
                   !.resources = IF base = NoUri THEN @
                                 ELSE Put(@, base, Target(root, root, base, contract.policy)),
                   !.nodeTargets = Put(@, v.node, Target(v.node, root, base, contract.policy))],
               validateKeywordShapes(s, in.options, contract.errors))

\* An object: an $id begins a resource, which may name a dialect of its own.
VisitObject(v, s, idx) ==
    LET id == find(s, "$id")
    IN  IF id.t \notin {"missing", "string"}
        THEN Left(idx, Append(schemaErrors, "InvalidSchema"), <<>>)
        ELSE InResource(v, s,
                IF id.t = "missing" THEN v.root ELSE v.node,
                IF id.t = "missing" THEN v.base ELSE resolveUri(v.base, id.v),
                IF id.t # "missing" /\ v.root # v.node /\ hasKey(s, "$schema")
                THEN compileDialectContract(s, idx, schemaErrors)
                ELSE ContractOf(v.policy, idx, schemaErrors))

\* compileSchemaResource on one node.
VisitNode(v) ==
    LET s == Schema(v.node)
        worked == [index EXCEPT !.workUsed = @ + 1]
    IN  CASE v.level >= validationDepthLimit(in.options)
             \/ index.workUsed >= validationWorkLimit(in.options) ->
                Left(index, error("ResourceLimit"), <<>>)
          [] OTHER ->
                IF s.t = "object" THEN VisitObject(v, s, worked)
                ELSE IF s.t = "boolean"
                THEN Left([worked EXCEPT !.nodeTargets =
                              Put(@, v.node, Target(v.node, v.root, v.base, v.policy))],
                          schemaErrors, <<>>)
                ELSE Left(worked,
                          IF in.options.strictSubset THEN error("InvalidSchema")
                          ELSE schemaErrors, <<>>)

Visit ==
    /\ phase = "documents" /\ visits # <<>>
    /\ Len(schemaErrors) < errorLimit
    /\ \E left \in {VisitNode(Head(visits))} :
          /\ index' = left.index
          /\ schemaErrors' = left.errors
          /\ visits' = left.children \o Tail(visits)
    /\ UNCHANGED <<phase, requested, dialect>>

\* With the budget used up, what is left of the walk returns at once.
VisitNothing ==
    /\ phase = "documents" /\ visits # <<>>
    /\ Len(schemaErrors) >= errorLimit
    /\ visits' = <<>>
    /\ UNCHANGED <<index, schemaErrors, phase, requested, dialect>>

-----------------------------------------------------------------------------
(* The documents.                                                           *)

\* The root: its contract, its resource, and the meta-schema as a document.
Contract ==
    LET base == in.options.retrievalUri
        root == <<RootDocument, <<>>>>
    IN  /\ phase = "contract"
        /\ dialect' = DialectOf(in.schema)
        /\ UNCHANGED requested
        /\ \E contract \in {compileDialectContract(in.schema, index, schemaErrors)} :
              /\ schemaErrors' = contract.errors
              /\ IF HasErrors(contract.errors)
                 THEN phase' = "refused" /\ index' = contract.index /\ visits' = <<>>
                 ELSE /\ phase' = "documents"
                      /\ index' = [contract.index EXCEPT
                            !.resources = Put(@, base, Target(root, root, base, contract.policy)),
                            !.pendingDocuments =
                                IF dialect' = SubsetDialect THEN @
                                ELSE @ \union {DialectUri(dialect')}]
                      /\ visits' = <<Visiting(root, root, base, contract.policy, 0)>>

\* Mutant: a document stays pending when it is taken.
Taken_StaysPending(uri) == index

\* compileExternalResources takes a pending document off the list.
Taken(uri) == [index EXCEPT !.pendingDocuments = @ \ {uri}]

Take ==
    \E uri \in index.pendingDocuments :
        /\ phase = "documents" /\ visits = <<>> /\ requested = <<>>
        /\ Len(schemaErrors) < errorLimit
        /\ index' = Taken(uri) /\ requested' = <<uri>>
        /\ UNCHANGED <<schemaErrors, phase, visits, dialect>>

Known ==
    /\ requested # <<>> /\ requested[1] \in DOMAIN index.resources
    /\ requested' = <<>>
    /\ UNCHANGED <<index, schemaErrors, phase, visits, dialect>>

\* Whether and why a document cannot be had; the resource limits end the loop.
Refusal(uri) ==
    IF ~uriHasScheme(uri) THEN "ReferenceFailure"
    ELSE IF Adopted(uri, index) THEN "none"
    ELSE IF ~in.options.resolver /\ uri \notin DOMAIN Builtins THEN "ResolverFailure"
    ELSE IF Len(index.documents) + Len(index.dialectDocuments) >= resolvedDocumentLimit(in.options)
    THEN "ResourceLimit"
    ELSE IF Answer(uri).kind # "document" THEN "ResolverFailure"
    ELSE "none"

Failed(uri, idx) == [idx EXCEPT !.failedDocuments = @ \union {uri}]

Refuse ==
    /\ requested # <<>> /\ requested' = <<>>
    /\ UNCHANGED <<visits, dialect>>
    /\ LET uri == requested[1]
       IN  /\ uri \notin DOMAIN index.resources /\ Refusal(uri) # "none"
           /\ index' = Failed(uri, index)
           /\ schemaErrors' = error(Refusal(uri))
           /\ phase' = IF Refusal(uri) = "ResourceLimit" THEN "references" ELSE phase

\* A document that was loaded as a dialect is compiled where it is; any other
\* one is copied and charged once its own contract holds.
Load ==
    /\ requested # <<>> /\ requested' = <<>>
    /\ LET uri == requested[1]
           adopted == Adopted(uri, index)
           taken == IF adopted THEN index
                    ELSE [index EXCEPT !.documents = Append(@, uri)]
           without(idx) == Failed(uri, [idx EXCEPT !.documents = index.documents])
           root == <<uri, <<>>>>
           answer == Answer(uri)
        IN  /\ uri \notin DOMAIN index.resources /\ Refusal(uri) = "none"
            /\ UNCHANGED dialect
            /\ \E contract \in {compileDialectContract(answer.value, taken, schemaErrors)} :
                LET holds == contract.errors = schemaErrors
                    over == ~adopted /\ Overruns(answer, contract.index.resolvedBytes)
                    mute == ~adopted /\ ~over /\ ~answer.whole
                IN  \/ /\ ~holds
                       /\ index' = without(contract.index) /\ schemaErrors' = contract.errors
                       /\ UNCHANGED <<phase, visits>>
                    \/ /\ holds /\ over
                       /\ index' = without(contract.index) /\ schemaErrors' = error("ResourceLimit")
                       /\ phase' = "references"
                       /\ UNCHANGED visits
                    \/ /\ holds /\ mute
                       /\ index' = without(contract.index) /\ schemaErrors' = error("InvalidSchema")
                       /\ UNCHANGED <<phase, visits>>
                    \/ /\ holds /\ ~over /\ ~mute
                       /\ index' = [contract.index EXCEPT
                             !.resources = Put(@, uri, Target(root, root, uri, contract.policy)),
                             !.resolvedBytes = @ + IF adopted THEN 0 ELSE answer.bytes]
                       /\ visits' = <<Visiting(root, root, uri, contract.policy, 0)>>
                       /\ UNCHANGED <<schemaErrors, phase>>

\* The end of the loop.
AllLoaded ==
    /\ phase = "documents" /\ visits = <<>> /\ requested = <<>>
    /\ \/ index.pendingDocuments = {}
       \/ Len(schemaErrors) >= errorLimit
    /\ phase' = "references"
    /\ UNCHANGED <<index, schemaErrors, visits, requested, dialect>>

-----------------------------------------------------------------------------
(* The references.                                                          *)

First(errors) ==
    IF in.options.stopAfterFirstError /\ errors # <<>> THEN <<errors[1]>> ELSE errors

\* The diagnostics of the references of one node.
Unresolved(node) ==
    LET bad(k) ==
            LET text == find(Schema(node), k)
                base == index.nodeTargets[node].base
                Check(target) ==
                    IF target = NoTarget
                    THEN IF resolveUri(base, text.v) \in index.failedDocuments THEN <<>>
                         ELSE <<"ReferenceFailure">>
                    ELSE IF in.options.strictSubset /\ ~isSchemaNode(Schema(target.schema))
                    THEN <<"InvalidSchema">> ELSE <<>>
            IN  IF text.t # "string" THEN <<>> ELSE Check(ResolvedReference(text.v, base))
    IN  IF Schema(node).t # "object" THEN <<>> ELSE bad("$ref") \o bad("$dynamicRef")

\* validateCompiledReferences, over the nodes in any order.
Checked(errors) ==
    FoldSet(LAMBDA node, found :
               IF Len(found) >= errorLimit THEN found ELSE found \o Unresolved(node),
            errors, DOMAIN index.nodeTargets)

CheckReferences ==
    /\ phase = "references"
    /\ \E found \in {IF in.options.stopAfterFirstError /\ schemaErrors # <<>>
                     THEN schemaErrors ELSE Checked(schemaErrors)} :
          /\ schemaErrors' = First(found)
          /\ phase' = IF HasErrors(found) THEN "refused"
                      ELSE IF dialect = SubsetDialect THEN "ready" ELSE "meta"
    /\ UNCHANGED <<index, visits, requested, dialect>>

CompileInit ==
    /\ index = EmptyIndex /\ schemaErrors = <<>>
    /\ phase = "contract" /\ visits = <<>> /\ requested = <<>> /\ dialect = SubsetDialect

CompileNext ==
    \/ Contract \/ Visit \/ VisitNothing \/ Take \/ Known \/ Refuse \/ Load \/ AllLoaded
    \/ CheckReferences
=============================================================================
