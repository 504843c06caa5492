---------------------------- MODULE SchemaIndex -----------------------------
(***************************************************************************)
(* What the compilation of a schema builds and its validation reads        *)
(* (pjsonlib/src/pjson_schema.cpp, pjson_schema_dialect.cpp): the dialect  *)
(* policies, the index of resources, anchors and schema nodes, and the     *)
(* resolution of a reference against that index.                           *)
(*                                                                         *)
(* A schema node is a document and a path in it, as a pointer into the     *)
(* stored trees is in the code.  A document URI is a directory and a name; *)
(* the directory of a URI without a scheme is empty.  References gives the *)
(* parts of every reference text the schemas hold, so that no text is      *)
(* taken apart here: SchemaText does that, character by character.         *)
(***************************************************************************)
EXTENDS SchemaTree

CONSTANTS
    References,   \* reference text -> [doc: URI, fragment: "none", "empty", "anchor", "pointer"
                  \*                    or "malformed", name: the anchor, steps: the path]
    Patterns,     \* regular expression -> [safe, valid, matches, exhausts]
    Formats,      \* known format -> the strings it accepts
    Builtins      \* URI of a bundled meta-schema -> [kind, value, bytes, whole]

\* A document has `bytes` of compact text; unless it is `whole`, something in it
\* has no JSON form, and `bytes` come before that.
IsAnswer(answer) ==
    /\ answer.value \in Values
    /\ answer.bytes \in Nat /\ answer.whole \in BOOLEAN
    /\ answer.whole => answer.bytes # 0

ASSUME BuiltinsAssumption ==
    /\ Null \in Values
    /\ \A uri \in DOMAIN Builtins : IsAnswer(Builtins[uri])

VARIABLES
    in,           \* the caller's schema, instance, options and resolver answers
    index,        \* CompiledSchemaIndex
    schemaErrors  \* the compilation diagnostics, as codes

NoUri == <<"", "">>
\* The caller's schema as a document: no URI that a resolver is asked for.
RootDocument == <<"", "root">>
\* A dialect is a reference text.
SubsetDialect == "urn:documented-subset"
Draft2020Dialect == "draft/schema"

uriHasScheme(uri) == uri[1] # ""

\* resolveUri on the document part of a reference.
resolveUri(base, reference) ==
    LET uri == References[reference].doc
    IN  IF uriHasScheme(uri) THEN uri
        ELSE IF uri = NoUri THEN base
        ELSE <<base[1], uri[2]>>

-----------------------------------------------------------------------------
(* Limits: zero selects a ceiling.                                          *)

DepthCeiling == 32

diagnosticLimit(options) ==
    IF options.stopAfterFirstError THEN 1
    ELSE IF options.maxErrors = 0 THEN 100 ELSE options.maxErrors

validationDepthLimit(options) ==
    IF options.maxValidationDepth = 0 \/ options.maxValidationDepth > DepthCeiling
    THEN DepthCeiling ELSE options.maxValidationDepth

validationRefLimit(options) ==
    IF options.maxRefResolutions = 0 THEN 1024 ELSE options.maxRefResolutions

validationWorkLimit(options) ==
    IF options.maxValidationWork = 0 THEN 1000000 ELSE options.maxValidationWork

resolvedDocumentLimit(options) ==
    IF options.maxResolvedDocuments = 0 THEN 32 ELSE options.maxResolvedDocuments

resolvedByteLimit(options) ==
    IF options.maxResolvedBytes = 0 THEN 16777216 ELSE options.maxResolvedBytes

-----------------------------------------------------------------------------
(* Options: those of a caller who sets none, and the presets, applied to    *)
(* options o.                                                               *)

DefaultOptions ==
    [maxRegexPatternBytes |-> 256, maxRegexSubjectBytes |-> 4096, allowUnsafeRegex |-> FALSE,
     maxValidationDepth |-> DepthCeiling, maxRefResolutions |-> 1024,
     maxValidationWork |-> 1000000, maxErrors |-> 100, stopAfterFirstError |-> FALSE,
     collectNestedCauses |-> FALSE, validateFormats |-> TRUE, strictSubset |-> FALSE,
     refSiblings |-> FALSE, resolveCustomDialects |-> FALSE, retrievalUri |-> NoUri,
     defaultDialect |-> SubsetDialect, resolver |-> FALSE, maxResolvedDocuments |-> 32,
     maxResolvedBytes |-> 16777216]

trustedRegex(o) ==
    [o EXCEPT !.maxRegexPatternBytes = 0, !.maxRegexSubjectBytes = 0, !.allowUnsafeRegex = TRUE]
strict(o) == [o EXCEPT !.strictSubset = TRUE]
modernSubset(o) == [o EXCEPT !.refSiblings = TRUE, !.validateFormats = FALSE]
draft2020(o) ==
    [modernSubset(o) EXCEPT !.defaultDialect = Draft2020Dialect, !.resolveCustomDialects = TRUE]

-----------------------------------------------------------------------------
(* Dialect policies.                                                        *)

Vocabularies == {"core", "applicator", "unevaluated", "validation", "meta-data",
                 "format-annotation", "content"}
SubsetVocabulary == "documented-subset"

Policy(vocabularies, refSiblings, assertFormats) ==
    [vocabularies |-> vocabularies, refSiblings |-> refSiblings,
     assertFormats |-> assertFormats]

subsetPolicy(options) == Policy(Vocabularies, options.refSiblings, options.validateFormats)
draft2020Policy(options) == Policy(Vocabularies, TRUE, options.validateFormats)

SupportedKeywords ==
    {"type", "enum", "const", "$ref", "properties", "patternProperties", "propertyNames",
     "required", "dependentRequired", "dependencies", "dependentSchemas",
     "additionalProperties", "minProperties", "maxProperties", "items", "prefixItems",
     "contains", "minContains", "maxContains", "minItems", "maxItems", "uniqueItems",
     "minimum", "maximum", "exclusiveMinimum", "exclusiveMaximum", "multipleOf", "minLength",
     "maxLength", "pattern", "format", "allOf", "anyOf", "oneOf", "not", "if", "then", "else",
     "$schema", "$id", "$anchor", "$dynamicAnchor", "$dynamicRef", "$vocabulary", "$defs",
     "$comment", "definitions", "title", "description", "default", "examples", "deprecated",
     "readOnly", "writeOnly", "unevaluatedItems", "unevaluatedProperties"}

\* isStandardSchemaKeyword: standard keywords the validator does not implement.
StandardUnsupported == {"$recursiveRef", "$recursiveAnchor", "additionalItems",
                        "contentEncoding", "contentMediaType", "contentSchema"}

\* A keyword that a strict schema must not have.
RefusedKeyword(keyword) == keyword \notin SupportedKeywords /\ keyword \in StandardUnsupported

-----------------------------------------------------------------------------
(* The index.                                                               *)

EmptyIndex ==
    [resources |-> <<>>, anchors |-> <<>>, dynamicAnchors |-> <<>>, nodeTargets |-> <<>>,
     pendingDocuments |-> {}, failedDocuments |-> {}, documents |-> <<>>,
     dialectDocuments |-> <<>>, resolvedBytes |-> 0, workUsed |-> 0]

\* SchemaTarget; a SchemaResource is the target of its own root.
Target(schema, root, base, policy) ==
    [schema |-> schema, root |-> root, base |-> base, policy |-> policy]

NoTarget == Target(<<NoUri, <<>>>>, <<NoUri, <<>>>>, NoUri, Policy({}, FALSE, FALSE))

\* What the resolver, or the bundle, answers for a document.
Answer(uri) ==
    IF uri \in DOMAIN Builtins THEN Builtins[uri]
    ELSE IF uri \in DOMAIN in.answers THEN in.answers[uri]
    ELSE [kind |-> "refused", value |-> Null, bytes |-> 0, whole |-> FALSE]

\* The value of a schema node.
Schema(node) ==
    At(IF node[1] = RootDocument THEN in.schema ELSE Answer(node[1]).value, node[2])

Below(node, steps) == <<node[1], node[2] \o steps>>

\* resolveCompiledTarget and resolveSchemaReference: the schema a reference
\* names.  A path may select a value the compilation did not index; it takes
\* the base and the policy of the resource it was looked up in.
ResolvedReference(reference, base) ==
    LET ref == References[reference]
        document == resolveUri(base, reference)
        resource == index.resources[document]
        key == <<document, ref.name>>
        selected == Below(resource.root, ref.steps)
    IN  IF ref.fragment = "malformed" \/ document \notin DOMAIN index.resources THEN NoTarget
        ELSE IF ref.fragment \in {"none", "empty"}
        THEN Target(resource.root, resource.root, resource.base, resource.policy)
        ELSE IF ref.fragment = "anchor"
        THEN IF key \in DOMAIN index.anchors THEN index.anchors[key] ELSE NoTarget
        ELSE IF Schema(selected).t = "missing" THEN NoTarget
        ELSE IF selected \in DOMAIN index.nodeTargets THEN index.nodeTargets[selected]
        ELSE Target(selected, resource.root, resource.base, resource.policy)
=============================================================================
