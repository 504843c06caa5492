---------------------------- MODULE SchemaShapes ----------------------------
(***************************************************************************)
(* The shapes strict mode asks of the keywords of one schema object        *)
(* (pjsonlib/src/pjson_schema.cpp, validateKeywordShapes): the diagnostics *)
(* in the order the code finds them.  Two of the checks do not look at the *)
(* error budget before they report; the others stop at it.                 *)
(***************************************************************************)
EXTENDS SchemaIndex

Shape(code, capped) == <<[code |-> code, capped |-> capped]>>
reject == Shape("InvalidSchema", TRUE)

rejectUnless(value, holds) == IF value.t = "missing" \/ holds THEN <<>> ELSE reject

EachShape(s, Shape_(_)) == FlattenSeq([i \in DOMAIN s |-> Shape_(i)])

SameValue(l, r) ==
    /\ l.t = r.t
    /\ IF l.t = "object" THEN Size(l) = Size(r) /\ \A i \in DOMAIN l.v : \E j \in DOMAIN r.v :
                                  l.v[i] = r.v[j]
       ELSE l.v = r.v

hasDuplicateArrayValue(x) ==
    \E i, j \in DOMAIN x.v : i < j /\ SameValue(x.v[i], x.v[j])

isUniqueStringArray(x, allowEmpty) ==
    /\ x.t = "array" /\ (allowEmpty \/ x.v # <<>>)
    /\ \A i \in DOMAIN x.v : x.v[i].t = "string" /\ \A j \in 1..(i - 1) : x.v[j].v # x.v[i].v

TypeNames == {"null", "boolean", "object", "array", "number", "string", "integer"}

isTypeDeclaration(x) ==
    \/ x.t = "string" /\ x.v \in TypeNames
    \/ isUniqueStringArray(x, FALSE) /\ \A i \in DOMAIN x.v : x.v[i].v \in TypeNames

\* The numbers of the modelled documents are finite.
isFiniteSchemaNumber(x) == x.t = "number"
isNonnegativeInteger(x) == schemaSize(x)

\* Schemas in an array or an object.
SchemaValues(x) ==
    EachShape(x.v, LAMBDA i :
        IF isSchemaNode(IF x.t = "array" THEN x.v[i] ELSE x.v[i][2]) THEN <<>> ELSE reject)

SchemaArray(x) ==
    CASE x.t = "missing" -> <<>>
      [] x.t = "array" /\ x.v # <<>> -> SchemaValues(x)
      [] OTHER -> reject

SchemaMap(x) ==
    CASE x.t = "missing" -> <<>>
      [] x.t = "object" -> SchemaValues(x)
      [] OTHER -> reject

\* dependentRequired and dependencies report the first bad entry only, and do
\* not look at the budget.
Entries(x, orSchemas) ==
    LET good(y) == isUniqueStringArray(y, TRUE) \/ (orSchemas /\ isSchemaNode(y))
    IN  CASE x.t = "missing" -> <<>>
          [] x.t # "object" -> reject
          [] OTHER -> IF \A i \in DOMAIN x.v : good(x.v[i][2]) THEN <<>>
                      ELSE Shape("InvalidSchema", FALSE)

Strings == <<"$schema", "$comment", "title", "description", "pattern", "format">>
Booleans == <<"deprecated", "readOnly", "writeOnly", "uniqueItems">>
Bounds == <<"minimum", "maximum", "exclusiveMinimum", "exclusiveMaximum">>
Counts == <<"minLength", "maxLength", "minItems", "maxItems", "minContains", "maxContains",
            "minProperties", "maxProperties">>
Schemas == <<"additionalProperties", "unevaluatedProperties", "unevaluatedItems", "contains",
             "propertyNames", "not", "if", "then", "else">>
Maps == <<"$defs", "definitions", "properties", "patternProperties", "dependentSchemas">>

Regexes(s, options) ==
    LET rejectRegex(p) ==
            IF \/ options.maxRegexPatternBytes # 0 /\ Len(p) > options.maxRegexPatternBytes
               \/ ~Patterns[p].valid
            THEN Shape("RegexFailure", TRUE) ELSE <<>>
        patterns == find(s, "patternProperties")
    IN  (IF find(s, "pattern").t = "string" THEN rejectRegex(find(s, "pattern").v) ELSE <<>>)
        \o (IF patterns.t # "object" THEN <<>>
            ELSE EachShape(patterns.v, LAMBDA i : rejectRegex(patterns.v[i][1])))

Shapes(s, options) ==
    LET v(k) == find(s, k)
        all(ks, Good(_)) == EachShape(ks, LAMBDA i : rejectUnless(v(ks[i]), Good(v(ks[i]))))
        items == v("items")
    IN  rejectUnless(v("type"), isTypeDeclaration(v("type")))
        \o rejectUnless(v("enum"), /\ v("enum").t = "array" /\ v("enum").v # <<>>
                                   /\ ~hasDuplicateArrayValue(v("enum")))
        \o all(Strings, LAMBDA x : x.t = "string")
        \o all(Booleans, LAMBDA x : x.t = "boolean")
        \o all(Bounds, LAMBDA x : isFiniteSchemaNumber(x))
        \o rejectUnless(v("multipleOf"), isFiniteSchemaNumber(v("multipleOf")) /\ v("multipleOf").v > 0)
        \o all(Counts, LAMBDA x : isNonnegativeInteger(x))
        \o all(Schemas, LAMBDA x : isSchemaNode(x))
        \o (IF items.t = "array" THEN SchemaValues(items)
            ELSE rejectUnless(items, isSchemaNode(items)))
        \o SchemaArray(v("allOf")) \o SchemaArray(v("anyOf")) \o SchemaArray(v("oneOf"))
        \o SchemaArray(v("prefixItems"))
        \o EachShape(Maps, LAMBDA i : SchemaMap(v(Maps[i])))
        \o rejectUnless(v("required"), isUniqueStringArray(v("required"), TRUE))
        \o Entries(v("dependentRequired"), FALSE)
        \o Entries(v("dependencies"), TRUE)
        \o rejectUnless(v("$vocabulary"),
                        /\ v("$vocabulary").t = "object"
                        /\ \A i \in DOMAIN v("$vocabulary").v :
                              v("$vocabulary").v[i][2].t = "boolean")
        \o rejectUnless(v("examples"), v("examples").t = "array")
        \o Regexes(s, options)
        \o EachShape(keys(s), LAMBDA i :
              IF RefusedKeyword(keys(s)[i])
              THEN Shape("UnsupportedKeyword", TRUE) ELSE <<>>)

\* The diagnostics after the shapes of s are checked, errors being those before.
validateKeywordShapes(s, options, errors) ==
    IF ~options.strictSubset THEN errors
    ELSE FoldLeft(LAMBDA found, shape :
                     IF shape.capped /\ Len(found) >= diagnosticLimit(options) THEN found
                     ELSE Append(found, shape.code),
                  errors, Shapes(s, options))
=============================================================================
