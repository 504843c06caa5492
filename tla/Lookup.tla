------------------------------- MODULE Lookup -------------------------------
(***************************************************************************)
(* Reading a document (pjsonlib/src/pjson.cpp): lookups by name and by     *)
(* index, typed reads, visitors; a decoded pointer followed from the root  *)
(* (pjson_pointer.cpp, findPointer); and the equality of the JSON Patch    *)
(* operation test, which pays for every step (pjson_patch.cpp,             *)
(* patchEqual).                                                            *)
(*                                                                         *)
(* Documents are those of Numbers: an array is a sequence of values, an    *)
(* object a function of its names.  Names are sequences of characters, as  *)
(* the tokens of a pointer are.                                            *)
(***************************************************************************)
EXTENDS Numbers, Pointer, FiniteSets

Null == [t |-> "null", v |-> 0]
Missing == [t |-> "missing", v |-> 0]    \* nullptr

isArray(x) == x.t = "array"
isObject(x) == x.t = "object"

-----------------------------------------------------------------------------
(* Lookups.  Indices start at 0.                                            *)

hasKey(x, k) == isObject(x) /\ k \in DOMAIN x.v
find(x, k) == IF hasKey(x, k) THEN x.v[k] ELSE Missing

size(x) == IF isArray(x) \/ isObject(x) THEN Cardinality(DOMAIN x.v) ELSE 0
keys(x) == IF isObject(x) THEN DOMAIN x.v ELSE {}

findIndex(x, n) == IF isArray(x) /\ n < size(x) THEN x.v[n + 1] ELSE Missing

\* find(int): a negative index counts from the end.
findFromEnd(x, n) ==
    LET fromEnd == -(n + 1) + 1
    IN  IF n >= 0 THEN findIndex(x, n)
        ELSE IF ~isArray(x) \/ fromEnd > size(x) THEN Missing
        ELSE x.v[size(x) - fromEnd + 1]
hasIndex(x, n) == findFromEnd(x, n) # Missing

\* at: the child, or std::out_of_range.
OutOfRange == [t |-> "out_of_range", v |-> 0]
at(x, k) == IF find(x, k) = Missing THEN OutOfRange ELSE find(x, k)
atIndex(x, n) == IF isArray(x) /\ n < size(x) THEN x.v[n + 1] ELSE OutOfRange

\* tryGet, by the type of its result: <<found, value>>.
tryGet(x, type) ==
    CASE type = "int64_t" -> tryGetInt(x)
      [] type = "uint64_t" -> tryGetUInt(x)
      [] type = "double" -> tryGetDouble(x)
      [] type \in {"bool", "string"} -> IF x.t = type THEN <<TRUE, x.v>> ELSE None_
tryGetKey(x, k, type) == IF find(x, k) = Missing THEN None_ ELSE tryGet(find(x, k), type)
tryGetIndex(x, n, type) ==
    IF findFromEnd(x, n) = Missing THEN None_ ELSE tryGet(findFromEnd(x, n), type)

\* forEachMember and forEachElement: the children a visitor has seen, and
\* whether it let the call go on to the end.  It refuses the one after `limit`.
Visited(children, limit) ==
    IF limit < Len(children)
    THEN [seen |-> SubSeq(children, 1, limit + 1), result |-> FALSE]
    ELSE [seen |-> children, result |-> TRUE]

Orders(S) == {o \in [1..Cardinality(S) -> S] : \A k \in S : \E n \in DOMAIN o : o[n] = k}
forEachMember(x, limit) ==
    IF ~isObject(x) THEN {Visited(<<>>, limit)}
    ELSE {Visited([n \in DOMAIN o |-> <<o[n], x.v[o[n]]>>], limit) : o \in Orders(DOMAIN x.v)}
forEachElement(x, limit) == Visited(IF isArray(x) THEN x.v ELSE <<>>, limit)

-----------------------------------------------------------------------------
(* findPointer.                                                             *)

\* One token, followed from x: the child, or the code and no child.
Followed(x, token) ==
    LET index == parsePointerIndex(token)
        Failed(c) == [code |-> c, child |-> Missing]
        Found(child) == [code |-> "Ok", child |-> child]
    IN  CASE isObject(x) ->
                IF hasKey(x, token) THEN Found(find(x, token)) ELSE Failed("MissingTarget")
          [] isArray(x) ->
                IF token = <<"-">> THEN Failed("AppendTokenNotAllowed")
                ELSE IF index.status = "invalid" THEN Failed("InvalidArrayIndex")
                ELSE IF index.status = "overflow" \/ index.value >= size(x)
                THEN Failed("ArrayIndexOutOfRange")
                ELSE Found(findIndex(x, index.value))
          [] OTHER -> Failed("ExpectedContainer")

\* resolvePointerTokens: [code, the token to blame, the value reached].
RECURSIVE Resolved(_, _, _)
Resolved(x, path, n) ==
    IF n > Len(path) THEN [code |-> "Ok", tokenIndex |-> 0, target |-> x]
    ELSE LET step == Followed(x, path[n])
         IN  IF step.code # "Ok"
             THEN [code |-> step.code, tokenIndex |-> n - 1, target |-> Missing]
             ELSE Resolved(step.child, path, n + 1)
resolvePointerTokens(root, path) == Resolved(root, path, 1)

\* findPointer on a text that Pointer has decoded.
findPointer(root) ==
    IF code # "Ok" THEN [code |-> code, tokenIndex |-> Len(tokens), target |-> Missing]
    ELSE resolvePointerTokens(root, tokens)

\* The overloads for C strings: no text is no pointer.
NullText == <<"nullptr">>
findPointerText(root, cString) ==
    IF cString = NullText
    THEN [code |-> "InvalidSyntax", tokenIndex |-> 0, target |-> Missing]
    ELSE findPointer(root)

-----------------------------------------------------------------------------
(* patchEqual.                                                              *)

\* chargePatch on the work that is left.
Charged(left, amount) == IF amount > left THEN -1 ELSE left - amount

\* The pairs that the members of an object add to the work list, visited in the
\* order o: what is left, and either the longer list or the verdict.
RECURSIVE Members(_, _, _, _, _)
Members(l, r, o, work, left) ==
    LET rest == Charged(left, Len(o[1]) + 1)
    IN  IF o = <<>> THEN [left |-> left, work |-> work, unequal |-> FALSE]
        ELSE IF rest < 0 THEN [left |-> -1, work |-> work, unequal |-> FALSE]
        ELSE IF o[1] \notin DOMAIN r.v THEN [left |-> rest, work |-> work, unequal |-> TRUE]
        ELSE Members(l, r, Tail(o), Append(work, <<l.v[o[1]], r.v[o[1]]>>), rest)

\* "equal", "unequal" or "exceeded", for every order in which objects list
\* their members.
RECURSIVE Compared(_, _)
Compared(work, left) ==
    LET l == work[Len(work)][1]
        r == work[Len(work)][2]
        rest == SubSeq(work, 1, Len(work) - 1)
        paid == Charged(left, 1)
        text == IF l.t = "string" THEN (IF Len(l.v) < Len(r.v) THEN Len(r.v) ELSE Len(l.v)) ELSE 0
        Expanded == {Members(l, r, o, rest, paid) : o \in Orders(DOMAIN l.v)}
    IN  IF work = <<>> THEN {"equal"}
        ELSE IF paid < 0 THEN {"exceeded"}
        ELSE IF isNumber(l) /\ isNumber(r)
        THEN IF compareNumbers(l, r) # 0 THEN {"unequal"} ELSE Compared(rest, paid)
        ELSE IF l.t # r.t THEN {"unequal"}
        ELSE CASE l.t = "string" ->
                    IF Charged(paid, text) < 0 THEN {"exceeded"}
                    ELSE IF l.v # r.v THEN {"unequal"} ELSE Compared(rest, Charged(paid, text))
               [] l.t = "array" ->
                    IF Len(l.v) # Len(r.v) THEN {"unequal"}
                    ELSE Compared(rest \o [n \in DOMAIN l.v |-> <<l.v[n], r.v[n]>>], paid)
               [] l.t = "object" ->
                    IF size(l) # size(r) THEN {"unequal"}
                    ELSE UNION {IF m.left < 0 THEN {"exceeded"}
                                ELSE IF m.unequal THEN {"unequal"}
                                ELSE Compared(m.work, m.left) : m \in Expanded}
               [] OTHER -> IF l.v # r.v THEN {"unequal"} ELSE Compared(rest, paid)

patchEqual(l, r, limit) == Compared(<<<<l, r>>>>, limit)

-----------------------------------------------------------------------------
(* What is promised.                                                        *)

\* The children of a value, each with the one token that names it.
Children(x) ==
    IF isObject(x) THEN {<<k, x.v[k]>> : k \in DOMAIN x.v}
    ELSE IF isArray(x)
    THEN {<<<<CHOOSE d \in Digits : DigitValue[d] = n - 1>>, x.v[n]>> : n \in DOMAIN x.v}
    ELSE {}

RECURSIVE Denoted(_, _)
Denoted(x, path) ==
    IF path = <<>> THEN {x}
    ELSE UNION {Denoted(c[2], Tail(path)) : c \in {c \in Children(x) : c[1] = path[1]}}

\* A pointer reaches the value its tokens name, and no other; where there is
\* none, the first token that names nothing is blamed, for what it met.  Digits
\* past the largest size_t count as an index whatever follows them.
FindsExactly(root) ==
    LET found == findPointerText(root, pointer)
        reached == {n \in 0..Len(tokens) : Denoted(root, SubSeq(tokens, 1, n)) # {}}
        deepest == CHOOSE n \in reached : \A m \in reached : m <= n
        token == tokens[deepest + 1]
        Huge == \E n \in DOMAIN token :
                    Canonical(SubSeq(token, 1, n)) /\ Decimal(SubSeq(token, 1, n)) > SizeMax
        Blame(x) ==
            IF isObject(x) THEN "MissingTarget"
            ELSE IF ~isArray(x) THEN "ExpectedContainer"
            ELSE IF token = <<"-">> THEN "AppendTokenNotAllowed"
            ELSE IF Canonical(token) \/ Huge THEN "ArrayIndexOutOfRange" ELSE "InvalidArrayIndex"
    IN  IF Denoted(root, tokens) # {}
        THEN found = [code |-> "Ok", tokenIndex |-> 0, target |-> found.target]
             /\ Denoted(root, tokens) = {found.target}
        ELSE /\ found.target = Missing /\ found.tokenIndex = deepest
             /\ \A x \in Denoted(root, SubSeq(tokens, 1, deepest)) : found.code = Blame(x)

\* Every way to a child leads to the same child: by name, by index from either
\* end, checked or typed, and by a visitor, which sees each of them once.
ReadsAgree(x) ==
    LET n == size(x)
        Types == {"int64_t", "uint64_t", "double", "bool", "string"}
        seen(o) == {o.seen[k] : k \in DOMAIN o.seen}
    IN  /\ \A k \in keys(x) : at(x, k) = find(x, k) /\ find(x, k) # Missing
        /\ isArray(x) => \A k \in 0..(n - 1) :
              /\ atIndex(x, k) = x.v[k + 1]
              /\ findFromEnd(x, k) = x.v[k + 1] /\ findFromEnd(x, k - n) = x.v[k + 1]
        /\ \A k \in {-(n + 1), n, -UIntMax, UIntMax} : ~hasIndex(x, k)
        /\ \A limit \in 0..n : \A o \in forEachMember(x, limit) \union {forEachElement(x, limit)} :
              /\ o.result <=> o.seen = <<>> \/ limit = n
              /\ isObject(x) /\ o.seen # <<>> => Cardinality(seen(o)) = Len(o.seen)
              /\ \A p \in seen(o) : isObject(x) => find(x, p[1]) = p[2]
        /\ \A type \in Types, k \in -n..(n - 1) :
              isArray(x) => tryGetIndex(x, k, type) = tryGet(atIndex(x, k % n), type)
        /\ \A type \in Types, k \in keys(x) : tryGetKey(x, k, type) = tryGet(at(x, k), type)

\* What comparing two values may cost: their nodes, names and strings.
RECURSIVE SumOf(_, _), Cost(_)
SumOf(values, rest) ==
    IF rest = {} THEN 0
    ELSE LET k == CHOOSE k \in rest : TRUE IN Cost(values[k]) + SumOf(values, rest \ {k})
Cost(x) ==
    CASE isArray(x) -> 1 + SumOf(x.v, DOMAIN x.v)
      [] isObject(x) -> 1 + SumOf([k \in DOMAIN x.v |-> [t |-> "name", v |-> <<k, x.v[k]>>]], DOMAIN x.v)
      [] x.t = "name" -> 1 + Len(x.v[1]) + Cost(x.v[2])
      [] x.t = "string" -> 1 + Len(x.v)
      [] OTHER -> 1

\* A test has the verdict of operator== or the budget for it ran out, whatever
\* order objects list their members in; a budget of the size of both is enough.
TestsExactly(l, r) ==
    LET verdict == IF equals(l, r) THEN "equal" ELSE "unequal"
        enough == Cost(l) + Cost(r)
    IN  /\ \A limit \in 1..enough : patchEqual(l, r, limit) \subseteq {verdict, "exceeded"}
        /\ patchEqual(l, r, enough) = {verdict}
=============================================================================
