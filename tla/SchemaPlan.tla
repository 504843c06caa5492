----------------------------- MODULE SchemaPlan -----------------------------
(***************************************************************************)
(* What one schema object asks of one instance value                       *)
(* (pjsonlib/src/pjson_schema.cpp, validateCtx): the keywords in the order *)
(* the code takes them, each as the sequence of the steps that can charge  *)
(* work, report a failure or evaluate another schema.  SchemaEval carries  *)
(* the steps out, one at a time, and keeps what they change.               *)
(***************************************************************************)
EXTENDS SchemaIndex

-----------------------------------------------------------------------------
(* The steps.                                                               *)

\* Charge n units of work.
charge(n) == <<[op |-> "charge", n |-> n]>>
charges(n) == [i \in 1..n |-> charge(1)[1]]

\* Report a failure.
fail(code) == <<[op |-> "fail", code |-> code]>>
failUnless(holds, code) == IF holds THEN <<>> ELSE fail(code)

\* Evaluate a schema on a value, reporting to a sink ("same" is the sink of
\* the schema object itself); use says what its result is for and mark which
\* properties or items it counts as evaluated.
apply(node, schema, sink, use, mark) ==
    <<[op |-> "apply", node |-> node, schema |-> schema, sink |-> sink, use |-> use,
       mark |-> mark]>>

\* Follow $ref or $dynamicRef.
reference(keyword) ==
    <<[op |-> "reference", keyword |-> keyword, sink |-> "same", use |-> "merge", mark |-> {}]>>

\* equalWithBudget: compare the pairs on a stack, and count a hit when all are
\* equal.  Once there is a hit, further comparisons are left out.
equal(left, right) == <<[op |-> "equal", pairs |-> <<<<left, right>>>>]>>

\* Check the number of hits; Unbounded is no upper bound.  Only the failure of a
\* combinator carries the causes its branches reported.
Unbounded == 1000000
require(least, most, code, combinator) ==
    <<[op |-> "require", least |-> least, most |-> most, code |-> code,
       combinator |-> combinator]>>

\* Look a pattern up in the cache of compiled expressions.
compile(pattern) == <<[op |-> "compile", pattern |-> pattern]>>

\* Start counting hits; remember the diagnostic budget before the branches of a
\* combinator, and give back what they used once one of them holds.
open == <<[op |-> "open"]>>
close == <<[op |-> "close"]>>

\* Go on with one sequence or another, by whether there was a hit.
choose(yes, no) == <<[op |-> "choose", yes |-> yes, no |-> no]>>

\* Take the steps only for what nothing has evaluated yet.
unevaluated(mark, steps) == <<[op |-> "unevaluated", mark |-> mark, steps |-> steps]>>

\* The steps for each of a sequence, in order.
Each(s, Steps(_)) == FlattenSeq([i \in DOMAIN s |-> Steps(i)])

\* A keyword counts only where the dialect has its vocabulary.
Keyword(vocabulary, policy, s, k) ==
    IF vocabulary \in policy.vocabularies THEN find(s, k) ELSE Missing

-----------------------------------------------------------------------------
(* Keywords of the assertion kind.                                          *)

StrictSteps(s, options) ==
    IF ~options.strictSubset THEN <<>>
    ELSE Each(keys(s), LAMBDA i : charge(1)
             \o failUnless(~RefusedKeyword(keys(s)[i]), "UnsupportedKeyword"))

TypeSteps(x, t) ==
    LET named(i) == t.v[i].t = "string" /\ typeMatches(x, t.v[i].v)
        first == {i \in DOMAIN t.v : named(i) /\ \A j \in 1..(i - 1) : ~named(j)}
    IN  CASE t.t = "string" -> failUnless(typeMatches(x, t.v), "TypeMismatch")
          [] t.t = "array" -> IF first = {} THEN charges(Len(t.v)) \o fail("TypeMismatch")
                              ELSE charges(CHOOSE i \in first : TRUE)
          [] OTHER -> <<>>

ConstSteps(x, c) ==
    IF c.t = "missing" THEN <<>>
    ELSE open \o equal(x, c) \o require(1, Unbounded, "ConstMismatch", "none")

EnumSteps(x, e) ==
    IF e.t # "array" THEN <<>>
    ELSE open \o Each(e.v, LAMBDA i : equal(x, e.v[i]))
         \o require(1, Unbounded, "EnumMismatch", "none")

NumericSteps(x, s, policy) ==
    LET Validation(k) == Keyword("validation", policy, s, k)
        bound(k, Holds(_)) ==
            failUnless(Validation(k).t # "number" \/ Holds(Validation(k)), "NumericConstraint")
    IN  IF x.t # "number" THEN <<>>
        ELSE bound("minimum", LAMBDA m : x.v >= m.v)
             \o bound("maximum", LAMBDA m : x.v <= m.v)
             \o bound("exclusiveMinimum", LAMBDA m : x.v > m.v)
             \o bound("exclusiveMaximum", LAMBDA m : x.v < m.v)
             \o bound("multipleOf", LAMBDA m : isExactMultiple(x, m))

\* A lower and an upper bound on a size.
SizeSteps(n, least, most, code) ==
    failUnless(schemaSize(least) => n >= count(least), code)
    \o failUnless(schemaSize(most) => n <= count(most), code)

\* evaluateRegex, and what follows a match or the lack of one.
RegexSteps(subject, pattern, options, matched, unmatched) ==
    LET p == Patterns[pattern]
        rejected == \/ options.maxRegexPatternBytes # 0
                       /\ Len(pattern) > options.maxRegexPatternBytes
                    \/ ~options.allowUnsafeRegex /\ ~p.safe
                    \/ ~p.valid
    IN  IF options.maxRegexSubjectBytes # 0 /\ Len(subject) > options.maxRegexSubjectBytes
        THEN fail("ResourceLimit")
        ELSE compile(pattern)
             \o IF rejected THEN fail("RegexFailure")
                ELSE charge(Len(subject) + 1)
                     \o IF subject \in p.exhausts THEN fail("ResourceLimit")
                        ELSE IF subject \in p.matches THEN matched ELSE unmatched

StringSteps(x, s, policy, options) ==
    LET Validation(k) == Keyword("validation", policy, s, k)
        format == find(s, "format")
    IN  IF x.t # "string" THEN <<>>
        ELSE charges(Len(x.v))
             \o SizeSteps(Len(x.v), Validation("minLength"), Validation("maxLength"),
                          "StringConstraint")
             \o (IF Validation("pattern").t # "string" THEN <<>>
                 ELSE RegexSteps(x.v, Validation("pattern").v, options, <<>>,
                                 fail("StringConstraint")))
             \o (IF \/ ~policy.assertFormats \/ format.t # "string"
                    \/ format.v \notin DOMAIN Formats
                 THEN <<>>
                 ELSE failUnless(x.v \in Formats[format.v], "FormatMismatch"))

UniqueSteps(x) ==
    LET pairs(i) == [j \in 1..(Len(x.v) - i) |-> equal(x.v[i], x.v[i + j])[1]]
    IN  open \o FlattenSeq([i \in 1..Len(x.v) |-> pairs(i)])
        \o require(0, 0, "ArrayConstraint", "none")

-----------------------------------------------------------------------------
(* Arrays and objects.                                                      *)

\* The members of required, or of one entry of dependentRequired.
RequiredSteps(x, list) ==
    Each(list, LAMBDA i : charge(1)
        \o failUnless(list[i].t = "string" => hasKey(x, list[i].v), "ObjectConstraint"))

\* Apply one schema to one child, which counts as evaluated.
child(node, step, schema) ==
    charge(1) \o apply(Below(node, <<step>>), schema, "same", "ignore", {step})

TupleSteps(node, n, schemas, at) ==
    LET size == IF schemas.t = "array" /\ n > Len(schemas.v) THEN Len(schemas.v) ELSE n
    IN  IF schemas.t # "array" THEN <<>>
        ELSE FlattenSeq([i \in 1..size |-> child(node, Decimal[i], Below(at, <<Decimal[i]>>))])

ArraySteps(node, x, at, s, policy) ==
    LET Validation(k) == Keyword("validation", policy, s, k)
        Applicator(k) == Keyword("applicator", policy, s, k)
        n == Len(x.v)
        items == Applicator("items")
        prefix == Applicator("prefixItems")
        contains == Applicator("contains")
        prefixCount == IF prefix.t # "array" THEN 0
                       ELSE IF n < Len(prefix.v) THEN n ELSE Len(prefix.v)
        itemSteps ==
            IF items.t = "missing" THEN <<>>
            ELSE IF items.t = "array" /\ prefix.t = "missing"
            THEN TupleSteps(node, n, items, Below(at, <<"items">>))
            ELSE FlattenSeq([i \in 1..(n - prefixCount) |->
                             child(node, Decimal[prefixCount + i], Below(at, <<"items">>))])
        least == IF schemaSize(Validation("minContains")) THEN count(Validation("minContains")) ELSE 1
        most == IF schemaSize(Validation("maxContains")) THEN count(Validation("maxContains"))
                ELSE Unbounded
        containsSteps ==
            IF contains.t = "missing" THEN <<>>
            ELSE open \o FlattenSeq([i \in 1..n |-> charge(1)
                     \o apply(Below(node, <<Decimal[i]>>), Below(at, <<"contains">>),
                              "Discard", "contain", {Decimal[i]})])
                 \o require(least, Unbounded, "ArrayConstraint", "none")
                 \o require(0, most, "ArrayConstraint", "none")
    IN  IF x.t # "array" THEN <<>>
        ELSE SizeSteps(n, Validation("minItems"), Validation("maxItems"), "ArrayConstraint")
             \o (IF Validation("uniqueItems").t = "boolean" /\ Validation("uniqueItems").v
                 THEN UniqueSteps(x) ELSE <<>>)
             \o TupleSteps(node, n, prefix, Below(at, <<"prefixItems">>))
             \o itemSteps
             \o containsSteps

\* The members whose names match a pattern of patternProperties.
PatternMatched(patterns, names, options) ==
    {k \in names : \E i \in DOMAIN patterns.v :
        LET p == Patterns[patterns.v[i][1]]
        IN  /\ options.maxRegexSubjectBytes = 0 \/ Len(k) <= options.maxRegexSubjectBytes
            /\ \/ options.maxRegexPatternBytes = 0
               \/ Len(patterns.v[i][1]) <= options.maxRegexPatternBytes
            /\ options.allowUnsafeRegex \/ p.safe
            /\ p.valid /\ k \in p.matches \ p.exhausts}

DependencySteps(node, x, entry, at) ==
    charge(1)
    \o IF ~hasKey(x, entry[1]) THEN <<>>
       ELSE IF entry[2].t = "array" THEN RequiredSteps(x, entry[2].v)
       ELSE apply(node, Below(at, <<"dependencies", entry[1]>>), "same", "merge", {})

\* The members that neither properties nor patternProperties names.
AdditionalSteps(node, x, at, s, policy, options) ==
    LET Applicator(k) == Keyword("applicator", policy, s, k)
        names == keys(x)
        patterns == Applicator("patternProperties")
        additional == Applicator("additionalProperties")
        matched == IF patterns.t # "object" THEN {}
                   ELSE PatternMatched(patterns, {names[i] : i \in DOMAIN names}, options)
        addition(k) ==
            IF hasKey(Applicator("properties"), k) \/ k \in matched THEN <<>>
            ELSE IF additional.t = "boolean"
            THEN failUnless(additional.v, "ObjectConstraint") \o unevaluated({k}, <<>>)
            ELSE apply(Below(node, <<k>>), Below(at, <<"additionalProperties">>), "same", "ignore",
                       {k})
    IN  IF additional.t = "missing" THEN <<>>
        ELSE Each(names, LAMBDA i : charge(1) \o addition(names[i]))

DependentSchemasSteps(node, x, at, s, policy) ==
    LET schemas == Keyword("applicator", policy, s, "dependentSchemas")
        dependent(k) ==
            IF hasKey(x, k)
            THEN apply(node, Below(at, <<"dependentSchemas", k>>), "same", "merge", {})
            ELSE <<>>
    IN  IF schemas.t # "object" THEN <<>>
        ELSE Each(schemas.v, LAMBDA i : charge(1) \o dependent(schemas.v[i][1]))

ObjectSteps(node, x, at, s, policy, options) ==
    LET Validation(k) == Keyword("validation", policy, s, k)
        Applicator(k) == Keyword("applicator", policy, s, k)
        names == keys(x)
        props == Applicator("properties")
        patterns == Applicator("patternProperties")
        members(keyword) == IF Applicator(keyword).t = "object"
                            THEN Applicator(keyword).v ELSE <<>>
        dependents == IF Validation("dependentRequired").t = "object"
                      THEN Validation("dependentRequired").v ELSE <<>>
        member(k, step, keyword) ==
            apply(Below(node, step), Below(at, keyword), "same", "ignore", {k})
    IN  IF x.t # "object" THEN <<>>
        ELSE (IF Validation("required").t = "array"
              THEN RequiredSteps(x, Validation("required").v) ELSE <<>>)
             \o SizeSteps(Len(names), Validation("minProperties"), Validation("maxProperties"),
                          "ObjectConstraint")
             \o Each(members("properties"), LAMBDA i :
                  LET k == props.v[i][1]
                  IN  charge(1) \o IF hasKey(x, k) THEN member(k, <<k>>, <<"properties", k>>)
                                   ELSE <<>>)
             \o Each(members("patternProperties"), LAMBDA p : Each(names, LAMBDA i :
                  charge(1) \o RegexSteps(names[i], patterns.v[p][1], options,
                      member(names[i], <<names[i]>>, <<"patternProperties", patterns.v[p][1]>>),
                      <<>>)))
             \o (IF Applicator("propertyNames").t = "missing" THEN <<>>
                 ELSE Each(names, LAMBDA i : charge(1)
                          \o apply(Below(node, <<"#names", names[i]>>),
                                   Below(at, <<"propertyNames">>), "same", "ignore", {})))
             \o Each(dependents, LAMBDA i : charge(1)
                     \o IF hasKey(x, dependents[i][1]) /\ dependents[i][2].t = "array"
                        THEN RequiredSteps(x, dependents[i][2].v) ELSE <<>>)
             \o Each(members("dependencies"), LAMBDA i :
                     DependencySteps(node, x, members("dependencies")[i], at))
             \o AdditionalSteps(node, x, at, s, policy, options)
             \o DependentSchemasSteps(node, x, at, s, policy)

-----------------------------------------------------------------------------
(* Applicators on the same value.                                           *)

ConditionalSteps(node, at, s, policy) ==
    LET Applicator(k) == Keyword("applicator", policy, s, k)
        branch(keyword) == IF Applicator(keyword).t = "missing" THEN <<>>
                           ELSE apply(node, Below(at, <<keyword>>), "same", "merge", {})
    IN  IF Applicator("if").t = "missing" THEN <<>>
        ELSE open \o apply(node, Below(at, <<"if">>), "Discard", "branch", {})
             \o choose(branch("then"), branch("else"))

CombinatorSteps(node, at, s, policy, options) ==
    LET Applicator(k) == Keyword("applicator", policy, s, k)
        branches(keyword, sink, use) ==
            Each(Applicator(keyword).v, LAMBDA i : charge(1)
                \o apply(node, Below(at, <<keyword, Decimal[i]>>), sink, use, {}))
        sink == IF options.collectNestedCauses THEN "Causes" ELSE "Discard"
        listed(keyword) == Applicator(keyword).t = "array"
    IN  (IF listed("allOf") THEN branches("allOf", "same", "merge") ELSE <<>>)
        \o (IF listed("anyOf")
            THEN open \o branches("anyOf", sink, "branch") \o close
                 \o require(1, Unbounded, "CombinatorMismatch", "anyOf")
            ELSE <<>>)
        \o (IF listed("oneOf")
            THEN open \o branches("oneOf", sink, "exclusive") \o close
                 \o require(1, 1, "CombinatorMismatch", "oneOf")
            ELSE <<>>)
        \o (IF isSchemaNode(Applicator("not"))
            THEN open \o apply(node, Below(at, <<"not">>), "Discard", "count", {})
                 \o require(0, 0, "CombinatorMismatch", "none")
            ELSE <<>>)

UnevaluatedSteps(node, x, at, s, policy) ==
    LET keyword == IF x.t = "object" THEN "unevaluatedProperties" ELSE "unevaluatedItems"
        schema == Keyword("unevaluated", policy, s, keyword)
        code == IF x.t = "object" THEN "ObjectConstraint" ELSE "ArrayConstraint"
        steps == IF x.t = "object" THEN keys(x) ELSE [i \in DOMAIN x.v |-> Decimal[i]]
    IN  IF x.t \notin {"object", "array"} \/ schema.t = "missing" THEN <<>>
        ELSE Each(steps, LAMBDA i : unevaluated({steps[i]}, charge(1)
                 \o IF schema.t = "boolean" /\ ~schema.v THEN fail(code)
                    ELSE apply(Below(node, <<steps[i]>>), Below(at, <<keyword>>),
                               "same", "ignore", {})))

-----------------------------------------------------------------------------
(* All keywords of the schema object s at schema node at, for the value x   *)
(* of instance node node, under a dialect policy.                           *)

Plan(node, x, at, s, policy, options) ==
    (IF policy.refSiblings /\ find(s, "$ref").t = "string" THEN reference("$ref") ELSE <<>>)
    \o (IF find(s, "$dynamicRef").t = "string" THEN reference("$dynamicRef") ELSE <<>>)
    \o StrictSteps(s, options)
    \o TypeSteps(x, Keyword("validation", policy, s, "type"))
    \o ConstSteps(x, Keyword("validation", policy, s, "const"))
    \o EnumSteps(x, Keyword("validation", policy, s, "enum"))
    \o NumericSteps(x, s, policy)
    \o StringSteps(x, s, policy, options)
    \o ArraySteps(node, x, at, s, policy)
    \o ObjectSteps(node, x, at, s, policy, options)
    \o ConditionalSteps(node, at, s, policy)
    \o CombinatorSteps(node, at, s, policy, options)
    \o UnevaluatedSteps(node, x, at, s, policy)
=============================================================================
