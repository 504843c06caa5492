------------------------------ MODULE JsonText ------------------------------
(***************************************************************************)
(* What a text is and means, without a parser: the grammar of RFC 8259     *)
(* over spans of lexemes, and the document read off the nesting levels.    *)
(***************************************************************************)
EXTENDS ParserInput, FiniteSetsExt

\* Does t from i to j derive from the nonterminal?
Derives(t) ==
    LET Span == {"value", "elements", "member", "members"}
                    \X (1..Len(t)) \X (0..Len(t))
        d[s \in Span] ==
            LET i == s[2]
                j == s[3]
                List(one, more) ==
                    \/ d[<<one, i, j>>]
                    \/ \E k \in (i + 1)..(j - 1) :
                           t[k].kind = "," /\ d[<<one, i, k - 1>>] /\ d[<<more, k + 1, j>>]
                Bracketed(open, items) ==
                    /\ i < j /\ t[i].kind = open /\ t[j].kind = Closer(open)
                    /\ j = i + 1 \/ d[<<items, i + 1, j - 1>>]
            IN  i <= j /\
                CASE s[1] = "value"    -> \/ i = j /\ t[i].kind \in Scalars
                                          \/ Bracketed("[", "elements")
                                          \/ Bracketed("{", "members")
                  [] s[1] = "elements" -> List("value", "elements")
                  [] s[1] = "members"  -> List("member", "members")
                  [] s[1] = "member"   -> /\ i + 2 <= j
                                          /\ t[i].kind = "string" /\ t[i + 1].kind = ":"
                                          /\ d[<<"value", i + 2, j>>]
    IN  d

IsJson(t) == t # <<>> /\ Derives(t)[<<"value", 1, Len(t)>>]

\* Open containers behind lexeme i.
Level(t, i) ==
    Cardinality({k \in 1..i : t[k].kind \in Openers}) -
    Cardinality({k \in 1..i : t[k].kind \in {"]", "}"}})

IsName(t, i) == t[i].kind = "string" /\ i < Len(t) /\ t[i + 1].kind = ":"
IsStart(t, i) == t[i].kind \in Scalars \cup Openers /\ ~IsName(t, i)
MatchOf(t, i) == Min({j \in (i + 1)..Len(t) : Level(t, j) = Level(t, i) - 1})

Depth(t) == Max({0} \cup {Level(t, i) : i \in 1..Len(t)})
Values(t) == Cardinality({i \in 1..Len(t) : IsStart(t, i)})

\* The values and the names right inside the container that opens at i.
Inside(t, i) ==
    {k \in (i + 1)..(MatchOf(t, i) - 1) :
        Level(t, k) = Level(t, i) + (IF t[k].kind \in Openers THEN 1 ELSE 0)}
Elements(t, i) == SetToSortSeq({k \in Inside(t, i) : IsStart(t, k)}, <)
Names(t, i) == {k \in Inside(t, i) : IsName(t, k)}
Same(t, i, k) == {j \in Names(t, i) : t[j].val = t[k].val}

Repeats(t) ==
    \E i \in 1..Len(t) : t[i].kind = "{" /\ \E k \in Names(t, i) : Cardinality(Same(t, i, k)) > 1

\* Which of several members with one name counts.
Chosen(t, i, k) ==
    IF options.duplicateKeys = "KeepFirstDuplicate" THEN Min(Same(t, i, k))
    ELSE Max(Same(t, i, k))

\* The document that JSON text t denotes.
Meaning(t) ==
    LET m[i \in 1..Len(t)] ==
            CASE t[i].kind = "[" ->
                     LET e == Elements(t, i)
                     IN  [type |-> "array", elems |-> [n \in 1..Len(e) |-> m[e[n]]]]
              [] t[i].kind = "{" ->
                     [type |-> "object",
                      members |-> [v \in {t[k].val : k \in Names(t, i)} |->
                          LET k == CHOOSE j \in Names(t, i) : t[j].val = v
                          IN  m[Chosen(t, i, k) + 2]]]
              [] OTHER -> [type |-> t[i].kind, val |-> t[i].val]
    IN  m[1]

-----------------------------------------------------------------------------
\* A text with nothing wrong in its lexemes.
Sound(t) ==
    \A i \in 1..Len(t) : /\ t[i].have = Len(t[i].bytes)
                         /\ t[i].fault \in {"none", "inexact"} /\ ~Unrepresentable(t[i])

\* The texts to accept under the options.
Admissible(t) ==
    /\ Sound(t) /\ IsJson(t)
    /\ Depth(t) <= EffectiveDepth
    /\ options.maxNodes # 0 => Values(t) <= options.maxNodes
    /\ options.duplicateKeys = "RejectDuplicateKeys" => ~Repeats(t)

\* The shortest ways to complete t: what is open has to be closed, behind a
\* value, a colon and a value, or a member of its own name.
Pick(kind) ==
    {Existing(x, Len(x.bytes)) : x \in {y \in Lexemes : y.kind = kind /\ y.fault = "none"}}
Unclosed(t) ==
    {i \in 1..Len(t) : t[i].kind \in Openers /\ \A j \in i..Len(t) : Level(t, j) >= Level(t, i)}
Closing(t) ==
    LET o == SetToSortSeq(Unclosed(t), >)
    IN  [n \in 1..Len(o) |-> CHOOSE x \in Pick(Closer(t[o[n]].kind)) : TRUE]
Completions(t) ==
    LET value == {<<x>> : x \in Pick("literal")}
        colon == {<<x>> \o v : x \in Pick(":"), v \in value}
        member == {<<x>> \o c : x \in Pick("string"), c \in colon}
    IN  {t \o m \o Closing(t) : m \in {<<>>} \cup value \cup colon \cup member}

Completable(t) == \E c \in Completions(t) : Admissible(c)
=============================================================================
