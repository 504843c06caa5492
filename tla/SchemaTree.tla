----------------------------- MODULE SchemaTree -----------------------------
(***************************************************************************)
(* JSON values as the schema validator reads them through pjson's public   *)
(* interface (pjsonlib/include/pjson.h, pjson_schema_value.cpp).           *)
(*                                                                         *)
(* A value is a type and a content: an array holds a sequence of values,   *)
(* an object a sequence of <<name, value>> pairs in the order its hash     *)
(* table has them, which the code leaves unspecified.  A number is counted *)
(* in halves, which is enough to tell an integer from a number that is     *)
(* none.  Array positions are written in decimal, as in a JSON Pointer, so *)
(* that every path is a sequence of strings.  Values and Decimal are the   *)
(* instance: any set of values that holds its members, and the texts of as *)
(* many positions as its longest array has.                                *)
(***************************************************************************)
EXTENDS Integers, Sequences, SequencesExt

CONSTANTS
    Values,   \* the values that the documents are made of
    Decimal   \* position in an array, from 1 on -> its text

\* An object has each member name once, and what a document is made of is made
\* of such values; no two positions have one text.
ASSUME ValuesAssumption == \A x \in Values :
    /\ x.t = "object" =>
          /\ x.v \in Seq(STRING \X Values)
          /\ \A i, j \in DOMAIN x.v : x.v[i][1] = x.v[j][1] => i = j
    /\ x.t = "array" => x.v \in Seq(Values) /\ DOMAIN x.v \subseteq DOMAIN Decimal
ASSUME DecimalAssumption == \A i, j \in DOMAIN Decimal :
    Decimal[i] \in STRING /\ (Decimal[i] = Decimal[j] => i = j)

Null == [t |-> "null", v |-> 0]
Bool(b) == [t |-> "boolean", v |-> b]
Num(n) == [t |-> "number", v |-> 2 * n]
Half(n) == [t |-> "number", v |-> n]
Str(s) == [t |-> "string", v |-> s]
Arr(s) == [t |-> "array", v |-> s]
Obj(s) == [t |-> "object", v |-> s]

Missing == [t |-> "missing", v |-> 0]

\* The names of the members of an object (pjson::keys).
keys(x) == [i \in DOMAIN x.v |-> x.v[i][1]]

hasKey(x, k) == x.t = "object" /\ \E i \in DOMAIN x.v : x.v[i][1] = k

\* find and findIndex: the child a path step names.  Below the step "#names"
\* an object's member names are string values: propertyNames validates those.
Child(x, step) ==
    IF hasKey(x, step)
    THEN x.v[CHOOSE i \in DOMAIN x.v : x.v[i][1] = step][2]
    ELSE IF x.t = "object" /\ step = "#names"
    THEN Obj([i \in DOMAIN x.v |-> <<x.v[i][1], Str(x.v[i][1])>>])
    ELSE IF x.t = "array" /\ \E i \in DOMAIN x.v : Decimal[i] = step
    THEN x.v[CHOOSE i \in DOMAIN x.v : Decimal[i] = step]
    ELSE Missing

find(x, k) == IF hasKey(x, k) THEN Child(x, k) ELSE Missing

\* pjson::findPointer on the decoded tokens.
At(x, path) ==
    LET below[n \in 0..Len(path)] == IF n = 0 THEN x ELSE Child(below[n - 1], path[n])
    IN  below[Len(path)]

Size(x) == IF x.t \in {"array", "object"} THEN Len(x.v) ELSE 0

-----------------------------------------------------------------------------
(* Readings of a value.                                                     *)

isInteger(x) == x.t = "number" /\ x.v % 2 = 0

typeMatches(x, type) ==
    IF type = "integer" THEN isInteger(x)
    ELSE x.t = type /\ type \in {"null", "string", "boolean", "array", "object", "number"}

\* A keyword whose value is a count: nonnegative integers only.
schemaSize(x) == isInteger(x) /\ x.v >= 0
count(x) == x.v \div 2

isExactMultiple(x, divisor) == divisor.v <= 0 \/ x.v % divisor.v = 0

isSchemaNode(x) == x.t \in {"object", "boolean"}
=============================================================================
