--------------------------- MODULE SchemaMeaning ----------------------------
(***************************************************************************)
(* What a compiled schema says of an instance, as a definition: no stack,  *)
(* no budget, no sink and no order of keywords.  The validator is compared *)
(* with it.  A result is whether the value is accepted, which properties   *)
(* or items are evaluated, and whether the answer rests on a reference     *)
(* that leads back to itself (cycle) or on something that has no answer,   *)
(* as an unresolved reference or a rejected pattern (unknown).             *)
(***************************************************************************)
EXTENDS SchemaValidator

Result(ok, marks) == [ok |-> ok, marks |-> marks, cycle |-> FALSE, unknown |-> FALSE]
Cyclic == [Result(FALSE, {}) EXCEPT !.cycle = TRUE]
Unknown == [Result(FALSE, {}) EXCEPT !.unknown = TRUE]

RECURSIVE SameJson(_, _)
SameJson(l, r) ==
    /\ l.t = r.t
    /\ CASE l.t = "object" ->
              Size(l) = Size(r) /\ \A i \in DOMAIN l.v :
                  hasKey(r, l.v[i][1]) /\ SameJson(l.v[i][2], find(r, l.v[i][1]))
         [] l.t = "array" -> Size(l) = Size(r) /\ \A i \in DOMAIN l.v : SameJson(l.v[i], r.v[i])
         [] OTHER -> l.v = r.v

Between(n, least, most) ==
    (schemaSize(least) => n >= count(least)) /\ (schemaSize(most) => n <= count(most))

AllPresent(x, list) == \A i \in DOMAIN list : list[i].t = "string" => hasKey(x, list[i].v)

Usable(pattern, subject) ==
    LET p == Patterns[pattern]
    IN  /\ Options.maxRegexPatternBytes = 0 \/ Len(pattern) <= Options.maxRegexPatternBytes
        /\ Options.maxRegexSubjectBytes = 0 \/ Len(subject) <= Options.maxRegexSubjectBytes
        /\ Options.allowUnsafeRegex \/ p.safe
        /\ p.valid /\ subject \notin p.exhausts

\* The keywords that look at nothing but the value; V gives the keywords of the
\* validation vocabulary, A those of the applicator vocabulary.
Asserted(x, s, policy, V(_), A(_)) ==
    LET number(k, Holds(_)) == x.t = "number" /\ V(k).t = "number" => Holds(V(k))
        format == find(s, "format")
        requires(list) == \A i \in DOMAIN list :
            hasKey(x, list[i][1]) /\ list[i][2].t = "array" => AllPresent(x, list[i][2].v)
    IN  /\ V("type").t = "string" => typeMatches(x, V("type").v)
        /\ V("type").t = "array" =>
              \E i \in DOMAIN V("type").v : V("type").v[i].t = "string"
                                            /\ typeMatches(x, V("type").v[i].v)
        /\ V("const").t # "missing" => SameJson(x, V("const"))
        /\ V("enum").t = "array" => \E i \in DOMAIN V("enum").v : SameJson(x, V("enum").v[i])
        /\ number("minimum", LAMBDA m : x.v >= m.v) /\ number("maximum", LAMBDA m : x.v <= m.v)
        /\ number("exclusiveMinimum", LAMBDA m : x.v > m.v)
        /\ number("exclusiveMaximum", LAMBDA m : x.v < m.v)
        /\ number("multipleOf", LAMBDA m : isExactMultiple(x, m))
        /\ x.t = "string" =>
              /\ Between(Len(x.v), V("minLength"), V("maxLength"))
              /\ V("pattern").t = "string" => x.v \in Patterns[V("pattern").v].matches
              /\ policy.assertFormats /\ format.t = "string" /\ format.v \in DOMAIN Formats =>
                    x.v \in Formats[format.v]
        /\ x.t = "array" =>
              /\ Between(Size(x), V("minItems"), V("maxItems"))
              /\ V("uniqueItems").t = "boolean" /\ V("uniqueItems").v =>
                    ~\E i, j \in DOMAIN x.v : i < j /\ SameJson(x.v[i], x.v[j])
        /\ x.t = "object" =>
              /\ V("required").t = "array" => AllPresent(x, V("required").v)
              /\ Between(Size(x), V("minProperties"), V("maxProperties"))
              /\ V("dependentRequired").t = "object" => requires(V("dependentRequired").v)
              /\ A("dependencies").t = "object" => requires(A("dependencies").v)

\* The target of a schema node the schema object at t applies.
Applied(schema) ==
    IF schema \in DOMAIN index.nodeTargets THEN index.nodeTargets[schema]
    ELSE Target(schema, session.root, NoUri,
                IF NoUri \in DOMAIN index.resources THEN index.resources[NoUri].policy
                ELSE subsetPolicy(Options))

\* $dynamicRef in a given scope.
Dynamic(reference_, target, scope) ==
    LET ref == References[reference_]
        scoped == {i \in DOMAIN scope : <<scope[i].base, ref.name>> \in DOMAIN index.dynamicAnchors}
        first == CHOOSE i \in scoped : \A j \in scoped : i <= j
    IN  IF ref.fragment = "anchor" /\ AnchorOf(Schema(target.schema)) = ref.name /\ scoped # {}
        THEN index.dynamicAnchors[<<scope[first].base, ref.name>>] ELSE target

\* The names or indices one value has, and the schemas that are one keyword's.
ChildrenOf(x, t) ==
    IF x.t # t THEN {}
    ELSE IF t = "object" THEN {x.v[i][1] : i \in DOMAIN x.v} ELSE {Decimal[i] : i \in DOMAIN x.v}

\* The keywords that apply to one item or one member, as paths from the schema
\* object; A gives the keywords of the applicator vocabulary.
ItemPaths(i, A(_)) ==
    LET tuple == IF A("prefixItems").t # "missing" THEN "prefixItems" ELSE "items"
    IN  (IF i \in ChildrenOf(A(tuple), "array") THEN {<<tuple, i>>} ELSE {})
        \union IF A("items").t = "missing" \/ (A("items").t = "array" /\ tuple = "items")
                  \/ i \in ChildrenOf(A("prefixItems"), "array")
               THEN {} ELSE {<<"items">>}

MatchedBy(k, A(_)) ==
    {p \in ChildrenOf(A("patternProperties"), "object") : Usable(p, k) /\ k \in Patterns[p].matches}

MemberPaths(k, A(_)) ==
    LET listed == k \in ChildrenOf(A("properties"), "object")
    IN  (IF listed THEN {<<"properties", k>>} ELSE {})
        \union {<<"patternProperties", p>> : p \in MatchedBy(k, A)}
        \union IF ~listed /\ MatchedBy(k, A) = {} /\ A("additionalProperties").t # "missing"
               THEN {<<"additionalProperties">>} ELSE {}

\* A pattern the schema needs for x has no answer.
Unusable(x, V(_), A(_)) ==
    \/ x.t = "string" /\ V("pattern").t = "string" /\ ~Usable(V("pattern").v, x.v)
    \/ \E k \in ChildrenOf(x, "object"), p \in ChildrenOf(A("patternProperties"), "object") :
           ~Usable(p, k)

\* What the schemas a schema object applies say of the value x and its children:
\* p.own and p.contained are pairs <<child, result>>, p.oneOf pairs
\* <<branch, result>>, the others sets of results.
Marks(p) ==
    {r[1] : r \in p.own} \union {r[1] : r \in {r \in p.contained : r[2].ok}}
    \union UNION {r.marks : r \in {r \in p.must \union p.anyOf \union p.condition
                                          \union {r[2] : r \in p.oneOf} : r.ok}}

Parts(p) ==
    p.must \union p.named \union p.anyOf \union p.condition \union p.negated
    \union {r[2] : r \in p.own \union p.contained \union p.oneOf}

Holds(x, p, V(_), A(_)) ==
    LET found == Cardinality({r \in p.contained : r[2].ok})
        least == IF schemaSize(V("minContains")) THEN count(V("minContains")) ELSE 1
    IN  /\ \A r \in p.must \union p.named : r.ok
        /\ \A r \in p.own : r[2].ok
        /\ A("contains").t # "missing" /\ x.t = "array" =>
              found >= least /\ (schemaSize(V("maxContains")) => found <= count(V("maxContains")))
        /\ A("anyOf").t = "array" => \E r \in p.anyOf : r.ok
        /\ A("oneOf").t = "array" => Cardinality({r \in p.oneOf : r[2].ok}) = 1
        /\ \A r \in p.negated : ~r.ok

RECURSIVE Means(_, _, _, _), ObjectMeans(_, _, _, _, _, _)

\* The result of the reference keyword k of the schema object s.
Refer(node, t, s, k, scope, active) ==
    LET Follow(target) ==
            IF target = NoTarget THEN Unknown
            ELSE IF <<node, target.schema>> \in active THEN Cyclic
            ELSE Means(node, target, scope, active \union {<<node, target.schema>>})
        Late(static) == IF k = "$dynamicRef" /\ static # NoTarget
                        THEN Dynamic(find(s, k).v, static, scope) ELSE static
    IN  Follow(Late(ResolvedReference(find(s, k).v, t.base)))

ObjectMeans(node, t, s, x, scope, active) ==
    LET V(k) == IF "validation" \in t.policy.vocabularies THEN find(s, k) ELSE Missing
        A(k) == IF "applicator" \in t.policy.vocabularies THEN find(s, k) ELSE Missing
        U(k) == IF "unevaluated" \in t.policy.vocabularies THEN find(s, k) ELSE Missing
        On(steps, path) == Means(Below(node, steps), Applied(Below(t.schema, path)), scope, active)
        Sub(path) == On(<<>>, path)
        If(keyword) == IF A(keyword).t = "missing" THEN {} ELSE {Sub(<<keyword>>)}
        Branch(condition) == UNION {If(IF c.ok THEN "then" ELSE "else") : c \in condition}
        refers(k) == IF find(s, k).t = "string" THEN {Refer(node, t, s, k, scope, active)} ELSE {}
        names == ChildrenOf(x, "object")
        items == ChildrenOf(x, "array")
        listed(k) == {<<i, Sub(<<k, i>>)>> : i \in ChildrenOf(A(k), "array")}
        results(S) == {r[2] : r \in S}
        dependent(k) == {Sub(<<k, n>>) :
            n \in {n \in names \cap ChildrenOf(A(k), "object") :
                      k = "dependencies" => find(A(k), n).t # "array"}}
        must == refers("$dynamicRef")
                \union (IF t.policy.refSiblings THEN refers("$ref") ELSE {})
                \union results(listed("allOf")) \union Branch(If("if"))
                \union dependent("dependentSchemas") \union dependent("dependencies")
        late(keyword, rest) ==
            IF U(keyword).t = "missing" THEN {} ELSE {On(<<k>>, <<keyword>>) : k \in rest}
        Whole(p, last) ==
            [ok |-> /\ Asserted(x, s, t.policy, V, A) /\ Holds(x, p, V, A)
                    /\ \A r \in last : r.ok
                    /\ Options.strictSubset =>
                          \A i \in DOMAIN s.v : s.v[i][1] \notin StandardUnsupported,
             marks |-> Marks(p) \union (IF last = {} THEN {} ELSE items \union names),
             cycle |-> \E r \in Parts(p) \union last : r.cycle,
             unknown |-> Unusable(x, V, A) \/ \E r \in Parts(p) \union last : r.unknown]
        Judge(p) == Whole(p, late("unevaluatedItems", items \ Marks(p))
                             \union late("unevaluatedProperties", names \ Marks(p)))
    IN  Judge([own |-> UNION {{<<i, On(<<i>>, path)>> : path \in ItemPaths(i, A)} : i \in items}
                       \union UNION {{<<k, On(<<k>>, path)>> : path \in MemberPaths(k, A)} :
                                     k \in names},
               contained |-> IF A("contains").t = "missing" THEN {}
                             ELSE {<<i, On(<<i>>, <<"contains">>)>> : i \in items},
               named |-> IF A("propertyNames").t = "missing" THEN {}
                         ELSE {On(<<"#names", k>>, <<"propertyNames">>) : k \in names},
               must |-> must, condition |-> If("if"),
               anyOf |-> results(listed("anyOf")), oneOf |-> listed("oneOf"),
               negated |-> IF isSchemaNode(A("not")) THEN {Sub(<<"not">>)} ELSE {}])

\* The schema at target t0 on the value at node, in a scope of resources, inside
\* the evaluations that are active on this value.
Means(node, t0, scope, active) ==
    LET Said(t, s) ==
            CASE s.t = "boolean" -> Result(s.v, {})
              [] s.t = "object" ->
                    IF find(s, "$ref").t = "string" /\ ~t.policy.refSiblings
                    THEN Refer(node, t, s, "$ref", scope, active)
                    ELSE ObjectMeans(node, t, s, Value(node), Entered(scope, t), active)
              [] OTHER -> Result(TRUE, {})
        Read(t) == Said(t, Schema(t.schema))
    IN  Read(IF t0.schema \in DOMAIN index.nodeTargets THEN index.nodeTargets[t0.schema] ELSE t0)

Meaning == Means(RootNode, Applied(session.root), <<>>, {})

-----------------------------------------------------------------------------
(* Properties.                                                              *)

\* The verdict is the meaning of the schema, for the instance and before it for
\* the schema under its meta-schema, unless the report holds a failure that is
\* no verdict (a reference, a pattern, a limit): the order of the keywords, the
\* stop at the first error, the budgets and the collection of causes change
\* nothing, and no mark of what is evaluated is lost or leaks between branches.
VerdictIsMeaning ==
    /\ Done /\ phase # "refused"
    /\ faults = {} /\ ~in.memoryShort
    => (verdict = "valid") = Meaning.ok

Ceilings(options) ==
    <<validationDepthLimit(options), validationRefLimit(options), validationWorkLimit(options),
      diagnosticLimit(options)>>

\* A reference that leads back to itself on the same value without a level of
\* the instance in between is found and reported as a cycle, whatever kind of
\* reference closes it: under the default ceilings no budget has to end it.
CyclesAreFound ==
    /\ phase = "ready" /\ Judged /\ ~in.memoryShort
    /\ Ceilings(Options) = Ceilings(DefaultOptions) /\ Meaning.cycle /\ ~Meaning.unknown
    => "ReferenceCycle" \in faults

\* ReferenceCycle says that the evaluation of references met a cycle
\* (pjson_schema.h: "Reference evaluation encountered a cycle.").
CycleOnlyWhenReal ==
    "ReferenceCycle" \in faults => Meaning.cycle
=============================================================================
