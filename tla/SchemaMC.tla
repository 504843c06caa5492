------------------------------ MODULE SchemaMC ------------------------------
(***************************************************************************)
(* Schemas, instances, options and resolver answers for TLC.  Each case is *)
(* a schema, the instances it is tried on, the options, and the documents  *)
(* the resolver knows.                                                     *)
(***************************************************************************)
EXTENDS SchemaMeaning, TLC

-----------------------------------------------------------------------------
(* Constants.                                                               *)

Ref(doc, fragment, name, steps) ==
    [doc |-> doc, fragment |-> fragment, name |-> name, steps |-> steps]
Local(steps) == Ref(NoUri, "pointer", "", steps)
Anchored(doc, name) == Ref(doc, "anchor", name, <<>>)
Whole(doc) == Ref(doc, "none", "", <<>>)

A_x == <<"http://a/", "x">>
A_y == <<"http://a/", "y">>
B_y == <<"http://b/", "y">>
B_z == <<"http://b/", "z">>
Custom == <<"http://c/", "dialect">>
DraftUri == <<"draft", "schema">>
ApplicatorUri == <<"draft", "applicator">>

MCReferences ==
    ("#" :> Whole(NoUri)) @@ ("#/$defs/A" :> Local(<<"$defs", "A">>))
    @@ ("#/$defs/B" :> Local(<<"$defs", "B">>)) @@ ("#/x/y" :> Local(<<"x", "y">>))
    @@ ("#/nope" :> Local(<<"nope">>)) @@ ("#%zz" :> Ref(NoUri, "malformed", "", <<>>))
    @@ ("#here" :> Anchored(NoUri, "here")) @@ ("#node" :> Anchored(NoUri, "node"))
    @@ ("#meta" :> Anchored(NoUri, "meta"))
    @@ ("x" :> Whole(<<"", "x">>)) @@ ("y" :> Whole(<<"", "y">>)) @@ ("z" :> Whole(<<"", "z">>))
    @@ ("y#node" :> Anchored(<<"", "y">>, "node"))
    @@ ("http://a/x" :> Whole(A_x)) @@ ("http://a/y" :> Whole(A_y))
    @@ ("http://b/y" :> Whole(B_y)) @@ ("http://b/z" :> Whole(B_z))
    @@ ("http://a/x#here" :> Anchored(A_x, "here"))
    @@ (SubsetDialect :> Whole(<<"urn", "documented-subset">>))
    @@ (Draft2020Dialect :> Whole(DraftUri)) @@ ("draft/applicator" :> Whole(ApplicatorUri))
    @@ ("http://c/dialect" :> Whole(Custom))
    @@ ("http://c/dialect#" :> Ref(Custom, "empty", "", <<>>))
    @@ ("http://c/dialect#/nope" :> Ref(Custom, "pointer", "", <<"nope">>))
    @@ ("draft/schema#" :> Ref(DraftUri, "empty", "", <<>>))

Pattern(safe, valid, matches, exhausts) ==
    [safe |-> safe, valid |-> valid, matches |-> matches, exhausts |-> exhausts]
MCPatterns ==
    ("^a" :> Pattern(TRUE, TRUE, {"a", "ab", "abb"}, {}))
    @@ ("(a+)+$" :> Pattern(FALSE, TRUE, {"a"}, {"ab"}))
    @@ ("[" :> Pattern(TRUE, FALSE, {}, {}))

MCFormats == [f \in {"date"} |-> {"2024-02-29"}]
MCAnchorNames == {"here", "node", "meta"}

\* The bundled meta-schema, reduced to a document that admits what the cases
\* use and one vocabulary document it refers to, tied by a dynamic anchor.
TypeWords == <<"null", "boolean", "object", "array", "number", "string", "integer">>
Words == <<"core", "applicator", "unevaluated", "validation", "meta-data", "format-annotation",
           "content">>
DraftMeta ==
    Obj(<<<<"$id", Str("draft/schema")>>, <<"$dynamicAnchor", Str("meta")>>,
          <<"$vocabulary", Obj([i \in DOMAIN Words |-> <<Words[i], Bool(TRUE)>>])>>,
          <<"allOf", Arr(<<Obj(<<<<"$ref", Str("draft/applicator")>>>>)>>)>>,
          <<"type", Arr(<<Str("object"), Str("boolean")>>)>>,
          <<"properties", Obj(<<
              <<"type", Obj(<<<<"enum", Arr([i \in DOMAIN TypeWords |-> Str(TypeWords[i])])>>>>)>>,
              <<"minimum", Obj(<<<<"type", Str("number")>>>>)>>>>)>>>>)
DraftApplicator ==
    Obj(<<<<"$id", Str("draft/applicator")>>, <<"$dynamicAnchor", Str("meta")>>,
          <<"properties", Obj(<<
              <<"properties", Obj(<<<<"additionalProperties",
                                      Obj(<<<<"$dynamicRef", Str("#meta")>>>>)>>>>)>>,
              <<"not", Obj(<<<<"$dynamicRef", Str("#meta")>>>>)>>>>)>>>>)
Document(value, bytes) == [kind |-> "document", value |-> value, bytes |-> bytes, whole |-> TRUE]
\* A document with something that has no JSON form, behind so many bytes.
Unwritable(value, bytes) == [Document(value, bytes) EXCEPT !.whole = FALSE]
MCBuiltins == (DraftUri :> Document(DraftMeta, 4)) @@ (ApplicatorUri :> Document(DraftApplicator, 3))

-----------------------------------------------------------------------------
(* Options.                                                                 *)

\* A resolver, and limits on regular expressions that the patterns here reach.
Defaults == [DefaultOptions EXCEPT !.resolver = TRUE,
                                   !.maxRegexPatternBytes = 6, !.maxRegexSubjectBytes = 4]
Modern == modernSubset(Defaults)
Draft == draft2020(Defaults)
Strict == strict(Defaults)
Trusted == trustedRegex(Defaults)
Stop(o) == [o EXCEPT !.stopAfterFirstError = TRUE]
Causes(o) == [o EXCEPT !.collectNestedCauses = TRUE]
Work(o, n) == [o EXCEPT !.maxValidationWork = n]
Depth(o, n) == [o EXCEPT !.maxValidationDepth = n]
Refs(o, n) == [o EXCEPT !.maxRefResolutions = n]
Errors(o, n) == [o EXCEPT !.maxErrors = n]
Documents(o, n) == [o EXCEPT !.maxResolvedDocuments = n]
Bytes(o, n) == [o EXCEPT !.maxResolvedBytes = n]
Retrieved(o, uri) == [o EXCEPT !.retrievalUri = uri]
Unresolving(o) == [o EXCEPT !.resolver = FALSE]
\* Zero selects the ceiling.
Zeroed(o) == Depth(Refs(Work(Errors(o, 0), 0), 0), 0)

-----------------------------------------------------------------------------
(* Schemas and instances.                                                   *)

O(s) == Obj(s)
One(k, x) == Obj(<<<<k, x>>>>)
Type(t) == One("type", Str(t))
RefTo(text) == One("$ref", Str(text))
Defs(s) == <<"$defs", Obj(s)>>
Names(s) == Arr([i \in DOMAIN s |-> Str(s[i])])
a == Str("a")
b == Str("b")

Answers(f, g) == (A_x :> f) @@ (B_y :> g)
Throws == [kind |-> "throws", value |-> Null, bytes |-> 0, whole |-> FALSE]

Resolved(schema, instances, options, answers) ==
    [schema |-> schema, instances |-> instances, options |-> options, answers |-> answers]
Case(schema, instances, options) == Resolved(schema, instances, options, <<>>)

\* References: siblings, chains, cycles, recursion into the instance.
ReferenceCases == <<
    Case(O(<<Defs(<<<<"A", Type("integer")>>, <<"B", RefTo("#/$defs/A")>>>>),
             <<"$ref", Str("#/$defs/A")>>, <<"allOf", Arr(<<RefTo("#/$defs/B")>>)>>>>),
         <<Num(3), a>>, <<Defaults, Modern, Draft>>),
    Case(RefTo("#"), <<Null>>, <<Defaults, Modern, Refs(Modern, 1), Work(Defaults, 1)>>),
    Case(O(<<Defs(<<<<"A", RefTo("#/$defs/B")>>, <<"B", One("allOf", Arr(<<RefTo("#/$defs/A")>>))>>>>),
             <<"anyOf", Arr(<<RefTo("#/$defs/A"), Type("null")>>)>>>>),
         <<Null, a>>, <<Defaults, Zeroed(Modern), Causes(Modern), Errors(Causes(Modern), 1)>>),
    Case(O(<<<<"type", Str("object")>>, <<"properties", One("a", RefTo("#"))>>>>),
         <<O(<<<<"a", O(<<<<"a", O(<<>>)>>>>)>>>>), One("a", Num(1))>>,
         <<Defaults, Depth(Modern, 3), Refs(Defaults, 1), Depth(Defaults, 2)>>),
    Case(One("not", RefTo("#")), <<Null>>, <<Defaults, Stop(Modern)>>),
    Case(O(<<<<"$ref", Str("#/x/y")>>, <<"x", One("y", RefTo("#/nope"))>>>>),
         <<Null>>, <<Defaults, Modern, Errors(Defaults, 1)>>),
    Case(O(<<<<"$ref", Str("#here")>>, <<"$defs", One("A", O(<<<<"$anchor", Str("here")>>,
             <<"type", Str("string")>>>>))>>>>), <<Null, a>>, <<Defaults, Strict>>),
    Case(O(<<<<"$ref", Str("#/x/y")>>, <<"x", One("y", Num(1))>>>>), <<Null>>,
         <<Defaults, Strict>>) >>

\* Dynamic references.
Tree == O(<<<<"$id", Str("http://a/x")>>, <<"$dynamicAnchor", Str("node")>>,
            <<"properties", One("a", One("$dynamicRef", Str("#node")))>>>>)
StrictTree == O(<<<<"$id", Str("http://b/y")>>, <<"$dynamicAnchor", Str("node")>>,
                  <<"$ref", Str("http://a/x")>>, <<"unevaluatedProperties", Bool(FALSE)>>,
                  Defs(<<<<"A", Tree>>>>)>>)
DynamicCases == <<
    Case(StrictTree, <<One("a", One("b", Null)), One("a", One("a", O(<<>>)))>>,
         <<Modern, Draft, Refs(Modern, 1)>>),
    Case(O(<<Defs(<<<<"A", O(<<<<"$dynamicAnchor", Str("node")>>, <<"type", Str("null")>>>>)>>>>),
             <<"$dynamicRef", Str("#node")>>>>), <<Null, a>>, <<Modern, Defaults>>),
    Case(O(<<Defs(<<<<"A", O(<<<<"$anchor", Str("here")>>, <<"$dynamicRef", Str("#here")>>>>)>>>>),
             <<"$dynamicRef", Str("#here")>>>>), <<Null>>, <<Modern, Refs(Modern, 1)>>) >>

\* Keywords that look at the value.
ValueCases == <<
    Case(O(<<<<"type", Names(<<"string", "array">>)>>,
             <<"enum", Arr(<<a, Arr(<<Num(1), a>>), O(<<<<"a", a>>, <<"b", Null>>>>)>>)>>>>),
         <<a, Arr(<<Num(1), a>>), O(<<<<"b", Null>>, <<"a", a>>>>), Arr(<<Num(1), b>>)>>,
         <<Defaults, Work(Defaults, 4), Work(Defaults, 7), Errors(Defaults, 1)>>),
    Case(One("const", O(<<<<"a", Arr(<<Bool(TRUE)>>)>>, <<"b", Num(0)>>>>)),
         <<O(<<<<"b", Num(0)>>, <<"a", Arr(<<Bool(TRUE)>>)>>>>),
           O(<<<<"a", Arr(<<Bool(TRUE)>>)>>, <<"c", Num(0)>>>>), Null>>, <<Defaults, Work(Defaults, 6)>>),
    Case(O(<<<<"minimum", Num(1)>>, <<"exclusiveMaximum", Num(5)>>, <<"multipleOf", Num(2)>>,
             <<"exclusiveMinimum", Half(1)>>, <<"maximum", Num(4)>>, <<"type", Str("integer")>>>>),
         <<Num(2), Num(5), Half(1), a>>, <<Defaults, Errors(Defaults, 2)>>),
    Case(O(<<<<"minLength", Num(1)>>, <<"maxLength", Num(2)>>, <<"pattern", Str("^a")>>,
             <<"format", Str("date")>>>>), <<Str("ab"), Str(""), Str("abb"), Str("abbbb")>>,
         <<Defaults, Modern, Draft>>),
    Case(One("anyOf", Arr(<<One("pattern", Str("(a+)+$")), One("pattern", Str("["))>>)),
         <<a, Str("ab"), Num(1)>>, <<Defaults, Trusted, Causes(Defaults), Work(Trusted, 5)>>),
    Case(O(<<<<"minLength", Str("x")>>, <<"enum", Null>>, <<"items", Num(1)>>>>), <<a, Arr(<<a>>)>>,
         <<Defaults, Strict, Stop(Strict)>>) >>

\* Arrays and objects.
Everything ==
    O(<<<<"required", Names(<<"a">>)>>, <<"minProperties", Num(1)>>, <<"maxProperties", Num(2)>>,
        <<"properties", One("a", Type("integer"))>>,
        <<"patternProperties", One("^a", One("minimum", Num(1)))>>,
        <<"propertyNames", One("maxLength", Num(1))>>,
        <<"additionalProperties", Bool(FALSE)>>>>)
ContainerCases == <<
    Case(Everything, <<One("a", Num(1)), O(<<<<"ab", Num(0)>>, <<"b", a>>, <<"a", a>>>>), One("b", a)>>,
         <<Defaults, Work(Modern, 8), Errors(Defaults, 2)>>),
    Case(O(<<<<"dependentRequired", One("a", Names(<<"b">>))>>,
             <<"dependencies", O(<<<<"a", Names(<<"b">>)>>, <<"b", One("required", Names(<<"a">>))>>>>)>>,
             <<"dependentSchemas", One("a", One("properties", One("b", Type("null"))))>>,
             <<"additionalProperties", Type("integer")>>>>),
         <<One("a", Num(1)), O(<<<<"b", Null>>, <<"a", Num(1)>>>>), Arr(<<>>)>>,
         <<Defaults, Strict, Work(Defaults, 5)>>),
    Case(O(<<<<"prefixItems", Arr(<<Type("integer")>>)>>, <<"items", Type("string")>>,
             <<"contains", One("const", a)>>, <<"maxContains", Num(1)>>, <<"uniqueItems", Bool(TRUE)>>,
             <<"minItems", Num(1)>>, <<"maxItems", Num(3)>>>>),
         <<Arr(<<Num(1), a>>), Arr(<<Num(1), a, a>>), Arr(<<a, Null, b, a>>), Arr(<<>>)>>,
         <<Defaults, Work(Modern, 9)>>),
    Case(O(<<<<"items", Arr(<<Type("integer"), Bool(FALSE)>>)>>, <<"minContains", Num(0)>>,
             <<"contains", Bool(FALSE)>>>>), <<Arr(<<Num(1)>>), Arr(<<a, a, a>>)>>, <<Defaults>>) >>

\* Applicators on the same value, evaluation marks.
ApplicatorCases == <<
    Case(O(<<<<"if", Type("object")>>, <<"then", One("required", Names(<<"a">>))>>,
             <<"else", Type("null")>>>>), <<Null, a, O(<<>>), One("a", a)>>,
         <<Defaults, Work(Defaults, 2)>>),
    Case(O(<<<<"anyOf", Arr(<<Type("string"), Type("null")>>)>>, <<"not", Type("object")>>>>),
         <<Num(3), a>>, <<Defaults, Work(Causes(Modern), 5), Errors(Work(Causes(Modern), 5), 3),
                          Work(Modern, 6)>>),
    Case(O(<<<<"oneOf", Arr(<<Type("integer"), Type("number"), Bool(TRUE)>>)>>,
             <<"anyOf", Arr(<<One("anyOf", Arr(<<Type("string")>>)), Type("null")>>)>>>>),
         <<Num(1), Null, a>>, <<Causes(Defaults), Errors(Causes(Defaults), 2), Stop(Defaults)>>),
    Case(O(<<<<"properties", O(<<<<"a", Type("string")>>, <<"b", Type("number")>>>>)>>,
             <<"required", Names(<<"a">>)>>, <<"unevaluatedProperties", Bool(FALSE)>>>>),
         <<O(<<<<"a", b>>, <<"c", Null>>>>), One("b", b), One("a", b)>>,
         <<Modern, Draft, Work(Modern, 3)>>),
    Case(O(<<<<"oneOf", Arr(<<One("properties", One("a", Type("null"))),
                              O(<<<<"properties", One("b", Bool(TRUE))>>,
                                  <<"required", Names(<<"b">>)>>>>)>>)>>,
             <<"unevaluatedProperties", Type("string")>>>>),
         <<One("b", Num(1)), O(<<<<"a", b>>, <<"b", b>>>>), O(<<<<"a", Null>>, <<"b", b>>>>)>>,
         <<Modern>>),
    Case(O(<<<<"allOf", Arr(<<One("prefixItems", Arr(<<Bool(TRUE)>>))>>)>>,
             <<"if", One("contains", Type("null"))>>, <<"unevaluatedItems", Bool(FALSE)>>>>),
         <<Arr(<<a, Null>>), Arr(<<a, Null, a>>), Arr(<<a>>)>>, <<Modern, Work(Modern, 9)>>) >>

\* Compilation: identifiers, anchors, dialects, shapes, limits.
Broken == O(<<<<"required", Num(1)>>, <<"type", Str("int")>>, <<"allOf", Arr(<<>>)>>,
              <<"contentEncoding", Str("x")>>, <<"dependentRequired", One("a", Num(1))>>,
              <<"pattern", Str("[")>>, <<"properties", One("a", Num(1))>>, <<"examples", Null>>>>)
CompileCases == <<
    Case(Broken, <<Null>>, <<Defaults, Strict, Errors(Strict, 2), Stop(Strict)>>),
    Case(One("allOf", Arr(<<One("$anchor", Str("here")), One("$anchor", Str("here"))>>)), <<Null>>,
         <<Defaults>>),
    Case(One("allOf", Arr(<<One("$dynamicAnchor", Str("here")), One("$anchor", Str("1")),
                            One("$dynamicAnchor", Num(1)), One("$ref", Num(1)), One("$id", Num(1)),
                            O(<<<<"$anchor", Str("node")>>, <<"$dynamicAnchor", Str("node")>>>>)>>)),
         <<Null>>, <<Defaults, Errors(Modern, 3)>>),
    Case(O(<<<<"$id", Str("http://a/x")>>,
             Defs(<<<<"A", One("$id", Str("y"))>>, <<"B", One("$id", Str("http://a/y"))>>>>)>>),
         <<Null>>, <<Defaults, Draft>>),
    Case(One("$schema", Num(1)), <<Null>>, <<Defaults>>),
    Case(One("$schema", Str("draft/schema")), <<Null>>, <<Defaults, Draft>>),
    Case(One("$vocabulary", O(<<<<"validation", Bool(TRUE)>>, <<"other", Bool(TRUE)>>,
                                <<"x", Num(1)>>>>)), <<Null>>, <<Defaults, Errors(Defaults, 1)>>),
    Case(O(<<<<"$vocabulary", O(<<<<"core", Bool(TRUE)>>, <<"other", Bool(FALSE)>>>>)>>,
             <<"type", Str("string")>>>>), <<Null>>, <<Defaults, Draft>>),
    Case(One("$vocabulary", Num(1)), <<Null>>, <<Defaults>>),
    Case(One("type", Str("int")), <<Null>>, <<Draft, Stop(Draft), Work(Draft, 9)>>),
    Case(Type("null"), <<Null>>, <<Unresolving(Draft), Documents(Draft, 1)>>),
    Case(One("not", One("not", One("not", Bool(TRUE)))), <<Null>>,
         <<Depth(Defaults, 3), Work(Defaults, 2)>>),
    Case(Num(1), <<Null>>, <<Defaults, Strict, Draft>>),
    Case(RefTo("#%zz"), <<Null>>, <<Defaults>>), Case(RefTo("#/nope"), <<Null>>, <<Stop(Defaults)>>) >>

\* Compilation: documents.
Answered(value) == Document(value, 2)
Custom_(vocabulary) == Answered(One("$vocabulary", vocabulary))
Both == One("allOf", Arr(<<RefTo("http://a/x"), RefTo("http://b/y")>>))
DocumentCases == <<
    Resolved(Both, <<Null, a>>, <<Modern, Documents(Modern, 1), Bytes(Modern, 3), Unresolving(Modern),
                                  Errors(Modern, 1)>>,
             Answers(Answered(RefTo("http://b/y")), Answered(Type("string")))),
    Resolved(Both, <<Null>>, <<Modern, Stop(Modern)>>, Answers(Throws, Answered(Num(1)))),
    Resolved(Both, <<Null>>, <<Modern, Stop(Modern), Bytes(Modern, 1), Bytes(Modern, 2)>>,
             Answers(Unwritable(Bool(TRUE), 2), Answered(Bool(TRUE)))),
    Resolved(One("$ref", Str("x")), <<Null, a>>, <<Modern, Retrieved(Modern, A_x), Retrieved(Modern, B_y),
                                                   Retrieved(Draft, A_y)>>,
             Answers(Answered(O(<<<<"$id", Str("http://b/y")>>, <<"type", Str("string")>>>>)), Throws)),
    Resolved(RefTo("http://a/x"), <<Null>>, <<Defaults, Modern>>,
             Answers(Answered(O(<<<<"$id", Str("http://b/y")>>, <<"$ref", Str("z")>>>>)),
                     Answered(Bool(TRUE))) @@ (B_z :> Answered(Bool(TRUE)))),
    Resolved(RefTo("http://a/x#here"), <<Null>>, <<Modern>>,
             Answers(Answered(One("$anchor", Str("here"))), Throws)),
    Resolved(O(<<<<"$schema", Str("http://c/dialect")>>, <<"type", Str("string")>>>>), <<Null, a>>,
             <<Draft, Modern, Documents(Draft, 1), Bytes(Draft, 1), Unresolving(Draft)>>,
             Custom :> Custom_(O(<<<<"core", Bool(TRUE)>>, <<"applicator", Bool(TRUE)>>>>))),
    Resolved(One("$schema", Str("http://c/dialect#")), <<Null>>, <<Draft, Documents(Draft, 1)>>,
             Custom :> Custom_(One("validation", Bool(TRUE)))),
    Resolved(One("$schema", Str("http://c/dialect#/nope")), <<Null>>, <<Draft>>,
             Custom :> Custom_(One("validation", Bool(TRUE)))),
    Case(One("$schema", Str("draft/schema#")), <<Null>>, <<Draft>>),
    Resolved(One("$schema", Str("http://c/dialect")), <<Null>>, <<Draft>>, Custom :> Answered(O(<<>>))),
    Resolved(One("$schema", Str("http://c/dialect")), <<Null>>, <<Draft>>, Custom :> Answered(Num(1))),
    Resolved(One("$schema", Str("http://c/dialect")), <<Null>>, <<Draft>>,
             Custom :> Custom_(One("documented-subset", Bool(TRUE)))),
    Resolved(One("allOf", Arr(<<O(<<<<"$id", Str("http://a/y")>>,
                                    <<"$schema", Str("http://c/dialect")>>,
                                    <<"required", Names(<<"a">>)>>>>)>>)),
             <<O(<<>>)>>, <<Draft, Modern>>,
             Custom :> Custom_(One("validation", Bool(TRUE)))),
    Resolved(RefTo("http://c/dialect"), <<Null>>, <<Draft, Documents(Draft, 2), Bytes(Draft, 3)>>,
             Custom :> Answered(O(<<<<"$schema", Str("http://c/dialect")>>,
                                    <<"$vocabulary", One("core", Bool(TRUE))>>>>))),
    Resolved(RefTo("http://a/x"), <<a>>, <<Draft, Modern>>,
             (A_x :> Answered(O(<<<<"$schema", Str("http://c/dialect")>>, <<"type", Str("null")>>>>)))
             @@ (Custom :> Custom_(One("core", Bool(TRUE))))) >>

MCCases == ReferenceCases \o DynamicCases \o ValueCases \o ContainerCases \o ApplicatorCases
           \o CompileCases \o DocumentCases

\* Schemas of the value, container and applicator kind are also tried on every
\* value of a pool, under every budget.
Pool == {Null, Num(1), Num(4), a, Str("ab"), Arr(<<>>), Arr(<<a, Null>>), Arr(<<Num(1), Num(2)>>),
         One("a", Num(1)), One("b", b), O(<<<<"a", a>>, <<"b", Null>>>>),
         O(<<<<"b", Null>>, <<"a", a>>>>), One("a", One("a", One("b", Num(0))))}
PoolOptions == {Defaults, Modern, Draft, Strict, Trusted, Causes(Modern), Stop(Causes(Modern))}
               \union {Work(Modern, n) : n \in 1..12} \union {Depth(Modern, n) : n \in 1..3}
               \union {Errors(Causes(Defaults), n) : n \in 1..3}
PoolCases == ReferenceCases \o DynamicCases \o ValueCases \o ContainerCases \o ApplicatorCases

\* The values the documents above are made of.
RECURSIVE Within(_)
Within(x) ==
    {x} \union CASE x.t = "object" -> UNION {Within(x.v[i][2]) : i \in DOMAIN x.v}
                 [] x.t = "array" -> UNION {Within(x.v[i]) : i \in DOMAIN x.v}
                 [] OTHER -> {}
MCValues ==
    {Null} \union UNION {Within(MCBuiltins[uri].value) : uri \in DOMAIN MCBuiltins}
    \union UNION {Within(c.schema) \union UNION {Within(c.answers[uri].value) : uri \in DOMAIN c.answers} :
                  c \in Range(MCCases)}
MCDecimal == <<"0", "1", "2", "3", "4", "5", "6", "7">>

Given(case, instance, options, memoryShort) ==
    in = [schema |-> case.schema, instance |-> instance, options |-> options,
          answers |-> case.answers, memoryShort |-> memoryShort]

MCInit ==
    /\ \/ \E c \in Range(MCCases) : \E i \in DOMAIN c.instances, o \in DOMAIN c.options :
             Given(c, c.instances[i], c.options[o], FALSE)
       \/ \E c \in Range(PoolCases) : \E x \in Pool, o \in PoolOptions : Given(c, x, o, FALSE)
       \/ \E c \in Range(ApplicatorCases) : \E o \in DOMAIN c.options :
             Given(c, c.instances[1], c.options[o], TRUE)
    /\ Init

\* One thread compiles and validates.  Until there is an answer a step is always
\* possible (the check for deadlock shows that), and the thread takes it: this is
\* weak fairness of Next, stated without ENABLED.
Returned == Judged /\ UNCHANGED vars
Running_ == []<>Judged \/ []<><<TRUE>>_vars
MCSpec == MCInit /\ [][Next \/ Returned]_vars /\ Running_

\* A validator is constructed and a validation answers, whatever the references
\* say: every loop over documents and every recursion comes to an end.
Ends == <>Judged
=============================================================================
