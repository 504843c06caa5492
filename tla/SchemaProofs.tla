---------------------------- MODULE SchemaProofs ----------------------------
(***************************************************************************)
(* VerdictIsReported, RecursionBounded, DocumentsBounded and               *)
(* NodesKnowTheirResource, for all schemas, instances, options and answers *)
(* of the resolver.                                                        *)
(***************************************************************************)
EXTENDS SchemaValidator, SequenceTheorems, NaturalsInduction, WellFoundedInduction, TLAPS

IsSequence(s) == Len(s) \in Nat /\ s = [i \in 1..Len(s) |-> s[i]]

\* The fields the argument is about.
FrameFields == {"sink", "at", "levels", "entry", "failures", "start"}

\* A call in progress: it has taken a level once it is past its entrance.
IsFrame(f) ==
    /\ FrameFields \subseteq DOMAIN f
    /\ f.entry \in Nat /\ f.levels \in Nat /\ f.failures \in Nat /\ f.start \in Nat
    /\ (f.at = "enter") <=> (f.levels = 0)

\* A call f of a waiting call c began where c stood, and reports to c's sink
\* exactly when c's step says so.
CalledBy(f, c) ==
    /\ c.levels > 0 /\ f.entry = c.entry + c.levels
    /\ IF Same(Head(c.todo)) THEN f.sink = c.sink ELSE f.sink # "Public"

\* The stack s at depth d.
Stacked(s, d) ==
    /\ IsSequence(s) /\ d \in Nat
    /\ \A i \in 1..Len(s) : IsFrame(s[i]) /\ s[i].entry >= Len(s) - i
    /\ \A i \in 1..(Len(s) - 1) : CalledBy(s[i], s[i + 1])
    /\ s # <<>> => /\ s[1].entry + s[1].levels = d
                   /\ s[Len(s)].sink = "Public" /\ s[Len(s)].entry = 0

\* A call whose failures the caller of validate has been told.
Blames(f) == f.sink = "Public" /\ f.failures > 0
Blamed(s) == \E i \in 1..Len(s) : Blames(s[i])

\* The diagnostics are used up only by a report.
Unspent(s, used) == used < limit /\ \A i \in 1..Len(s) : s[i].start < limit

SessionInv ==
    /\ ValidOptions
    /\ session.options \in {in.options, MetaOptions}

RunInv ==
    /\ Stacked(stack, depth)
    /\ stack # <<>> <=> verdict = "running"
    /\ verdict \in {"idle", "running", "valid", "invalid"}
    /\ stack # <<>> => depth <= validationDepthLimit(Options)
    /\ diagnosticsUsed \in Nat

\* What is reported, and when.
Told ==
    /\ session.subject # "instance" \/ verdict = "running" => IsSequence(report)
    /\ errorsUsed \in Nat
    /\ report = <<>> => errorsUsed = 0 /\ Unspent(stack, diagnosticsUsed)
    /\ verdict = "running" /\ aborted => report # <<>>
    /\ verdict = "running" /\ ~aborted => (report # <<>> <=> Blamed(stack))
    /\ verdict \in {"valid", "invalid"} => (verdict = "valid" <=> report = <<>>)
ReportInv == in.memoryShort = FALSE => Told

\* A schema is refused for a reason, and only a schema that is not is used.
CompileInv ==
    /\ phase = "refused" /\ in.memoryShort = FALSE => HasErrors(schemaErrors)
    /\ requested # <<>> => phase = "documents"
    /\ verdict = "running" => phase \in {"meta", "ready"}
    /\ session.subject = "instance" => phase \in {"ready", "refused"}

SchemaInv == SessionInv /\ RunInv /\ ReportInv /\ CompileInv

\* What an index keeps of the documents it was given: each text once, within
\* both budgets.
StockFields == {"resources", "documents", "dialectDocuments", "resolvedBytes"}

Distinct(s) == \A i, j \in DOMAIN s : i < j => s[i] # s[j]

Stocked(x) ==
    /\ StockFields \subseteq DOMAIN x
    /\ IsSequence(x.documents) /\ IsSequence(x.dialectDocuments)
    /\ Distinct(x.documents) /\ Distinct(x.dialectDocuments)
    /\ Len(x.documents) + Len(x.dialectDocuments) <= resolvedDocumentLimit(in.options)
    /\ x.resolvedBytes \in Nat /\ x.resolvedBytes <= resolvedByteLimit(in.options)

\* Every document of the index is found as a resource.
StockInv == Stocked(index) /\ Elements(index.documents) \subseteq DOMAIN index.resources

\* Index y keeps the documents of index x, and its resources.
Enriched(x, y) ==
    Stocked(y) /\ y.documents = x.documents /\ DOMAIN x.resources \subseteq DOMAIN y.resources

-----------------------------------------------------------------------------
(* Sequences.                                                              *)

\* A sequence over a set is one.
LEMMA SeqIsSequence ==
    ASSUME NEW S, NEW s \in Seq(S)
    PROVE  IsSequence(s)
<1>1. Len(s) \in Nat /\ s \in [1..Len(s) -> S]
  BY LenProperties
<1>. QED
  BY <1>1, Zenon DEF IsSequence

\* A sequence is one over the set of its elements.
LEMMA SequenceIsSeq ==
    ASSUME NEW s, IsSequence(s)
    PROVE  s \in Seq({s[i] : i \in 1..Len(s)})
BY DEF IsSequence

\* Appending to a sequence.
LEMMA AppendNotEmpty ==
    ASSUME NEW s, IsSequence(s), NEW x
    PROVE  IsSequence(Append(s, x)) /\ Append(s, x) # <<>>
<1>. DEFINE S == {s[i] : i \in 1..Len(s)} \cup {x}
<1>1. s \in Seq(S) /\ x \in S
  BY DEF IsSequence
<1>2. Append(s, x) \in Seq(S) /\ Len(Append(s, x)) = Len(s) + 1 /\ Len(s) \in Nat
  BY <1>1, AppendProperties, LenProperties
<1>3. Append(s, x) # <<>>
  BY <1>2
<1>. QED
  BY <1>2, <1>3, SeqIsSequence, Zenon

\* Pushing to a stack.
LEMMA PushedSequence ==
    ASSUME NEW s, IsSequence(s), NEW x
    PROVE  /\ IsSequence(<<x>> \o s) /\ Len(<<x>> \o s) = Len(s) + 1
           /\ (<<x>> \o s)[1] = x
           /\ \A i \in 2..(Len(s) + 1) : (<<x>> \o s)[i] = s[i - 1]
<1>. DEFINE S == {s[i] : i \in 1..Len(s)} \cup {x}
            r == <<x>> \o s
<1>1. s \in Seq(S) /\ <<x>> \in Seq(S) /\ Len(s) \in Nat /\ Len(<<x>>) = 1 /\ <<x>>[1] = x
  BY DEF IsSequence
<1>2. r \in Seq(S) /\ Len(r) = 1 + Len(s)
      /\ \A i \in 1..(1 + Len(s)) : r[i] = IF i <= 1 THEN <<x>>[i] ELSE s[i - 1]
  BY <1>1, ConcatProperties
<1>. HIDE DEF S, r
<1>3. r[1] = x /\ \A i \in 2..(Len(s) + 1) : r[i] = s[i - 1]
  <2>1. PICK n \in Nat : n = Len(s)
    BY <1>1
  <2>2. 1 \in 1..(1 + n)
    BY ONLY <2>1
  <2>3. r[1] = <<x>>[1]
    BY <1>2, <2>1, <2>2
  <2>4. ASSUME NEW i \in 2..(n + 1) PROVE i \in 1..(1 + n) /\ ~(i <= 1)
    BY ONLY <2>1, <2>4
  <2>5. \A i \in 2..(n + 1) : r[i] = s[i - 1]
    BY <1>2, <2>1, <2>4
  <2>. QED
    BY <1>1, <2>1, <2>3, <2>5
<1>4. IsSequence(r)
  BY <1>2, SeqIsSequence, Zenon
<1>. QED
  BY <1>1, <1>2, <1>3, <1>4 DEF r

\* Popping from a stack.
LEMMA TailSequence ==
    ASSUME NEW s, IsSequence(s), s # <<>>
    PROVE  /\ Len(s) \in Nat \ {0}
           /\ IsSequence(Tail(s)) /\ Len(Tail(s)) = Len(s) - 1
           /\ \A i \in 1..(Len(s) - 1) : Tail(s)[i] = s[i + 1]
           /\ Head(s) = s[1]
<1>. DEFINE S == {s[i] : i \in 1..Len(s)}
<1>1. s \in Seq(S)
  BY SequenceIsSeq
<1>. HIDE DEF S
<1>2. /\ Tail(s) \in Seq(S) /\ Len(Tail(s)) = Len(s) - 1 /\ Len(s) \in Nat /\ Len(s) # 0
      /\ \A i \in 1..(Len(s) - 1) : Tail(s)[i] = s[i + 1]
      /\ Head(s) = s[1]
  BY <1>1, HeadTailProperties, LenProperties, EmptySeq
<1>. QED
  BY <1>2, SeqIsSequence

-----------------------------------------------------------------------------
(* Stacks.                                                                 *)

\* The running call goes on with another frame.
LEMMA HeadReplaced ==
    ASSUME NEW s, NEW d, Stacked(s, d), s # <<>>,
           NEW g, IsFrame(g), g.sink = Head(s).sink, g.entry = Head(s).entry,
           NEW e, e = g.entry + g.levels
    PROVE  /\ Stacked(<<g>> \o Tail(s), e) /\ <<g>> \o Tail(s) # <<>>
           /\ (Blames(g) <=> Blames(Head(s))) => (Blamed(<<g>> \o Tail(s)) <=> Blamed(s))
           /\ Blames(g) => Blamed(<<g>> \o Tail(s))
           /\ \A used : Unspent(s, used) /\ g.start < limit => Unspent(<<g>> \o Tail(s), used)
<1>. DEFINE r == <<g>> \o Tail(s)
<1>1. /\ Len(s) \in Nat \ {0} /\ IsSequence(Tail(s)) /\ Len(Tail(s)) = Len(s) - 1
      /\ \A i \in 1..(Len(s) - 1) : Tail(s)[i] = s[i + 1]
      /\ Head(s) = s[1]
  BY TailSequence DEF Stacked
<1>2. /\ IsSequence(r) /\ Len(r) = Len(s) /\ r[1] = g
      /\ \A i \in 2..Len(s) : r[i] = Tail(s)[i - 1]
  BY <1>1, PushedSequence
<1>3. \A i \in 2..Len(s) : r[i] = s[i]
  BY <1>1, <1>2
<1>. HIDE DEF r
<1>4. g.entry \in Nat /\ g.levels \in Nat /\ e \in Nat
  BY DEF IsFrame
<1>5. Stacked(r, e)
  <2>1. ASSUME NEW i \in 1..Len(r) PROVE IsFrame(r[i]) /\ r[i].entry >= Len(r) - i
    <3>1. IsFrame(s[i]) /\ s[i].entry >= Len(s) - i
      BY <1>2 DEF Stacked
    <3>2. CASE i = 1
      BY <1>1, <1>2, <3>1, <3>2
    <3>3. CASE i # 1
      BY <1>2, <1>3, <3>1, <3>3
    <3>. QED
      BY <3>2, <3>3
  <2>2. ASSUME NEW i \in 1..(Len(r) - 1) PROVE CalledBy(r[i], r[i + 1])
    <3>1. CalledBy(s[i], s[i + 1]) /\ r[i + 1] = s[i + 1]
      BY <1>1, <1>2, <1>3 DEF Stacked
    <3>2. CASE i = 1
      BY <1>1, <1>2, <3>1, <3>2 DEF CalledBy
    <3>3. CASE i # 1
      BY <1>1, <1>2, <1>3, <3>1, <3>3
    <3>. QED
      BY <3>2, <3>3
  <2>3. r[1].entry + r[1].levels = e
    BY <1>2
  <2>4. r[Len(r)].sink = "Public" /\ r[Len(r)].entry = 0
    <3>1. s[Len(s)].sink = "Public" /\ s[Len(s)].entry = 0
      BY DEF Stacked
    <3>. QED
      BY <1>1, <1>2, <1>3, <3>1
  <2>. QED
    BY <1>2, <1>4, <2>1, <2>2, <2>3, <2>4 DEF Stacked
<1>6. r # <<>>
  BY <1>1, <1>2
<1>7. (Blames(g) <=> Blames(Head(s))) => (Blamed(r) <=> Blamed(s))
  BY <1>1, <1>2, <1>3 DEF Blamed
<1>8. Blames(g) => Blamed(r)
  BY <1>1, <1>2 DEF Blamed
<1>9. ASSUME NEW used, Unspent(s, used), g.start < limit PROVE Unspent(r, used)
  BY <1>1, <1>2, <1>3, <1>9 DEF Unspent
<1>. QED
  BY <1>5, <1>6, <1>7, <1>8, <1>9 DEF r

\* The running call, past its entrance, calls another.
LEMMA CallPushed ==
    ASSUME NEW s, NEW d, Stacked(s, d), s # <<>>, Head(s).levels > 0,
           NEW g, IsFrame(g), g.levels = 0, g.entry = d, g.failures = 0,
           IF Same(Head(Head(s).todo)) THEN g.sink = Head(s).sink ELSE g.sink # "Public"
    PROVE  /\ Stacked(<<g>> \o s, d) /\ <<g>> \o s # <<>>
           /\ (Blamed(<<g>> \o s) <=> Blamed(s))
           /\ \A used : Unspent(s, used) /\ g.start < limit => Unspent(<<g>> \o s, used)
<1>. DEFINE r == <<g>> \o s
<1>1. Len(s) \in Nat \ {0} /\ Head(s) = s[1]
  BY TailSequence DEF Stacked
<1>2. /\ IsSequence(r) /\ Len(r) = Len(s) + 1 /\ r[1] = g
      /\ \A i \in 2..(Len(s) + 1) : r[i] = s[i - 1]
  BY PushedSequence DEF Stacked
<1>. HIDE DEF r
<1>3. Stacked(r, d)
  <2>0. IsFrame(s[1]) /\ s[1].entry >= Len(s) - 1 /\ s[1].entry + s[1].levels = d /\ d \in Nat
    BY <1>1 DEF Stacked
  <2>1. ASSUME NEW i \in 1..Len(r) PROVE IsFrame(r[i]) /\ r[i].entry >= Len(r) - i
    <3>1. CASE i = 1
      <4>1. s[1].entry \in Nat /\ s[1].levels \in Nat /\ s[1].levels > 0
        BY <1>1, <2>0 DEF IsFrame
      <4>. QED
        BY <1>1, <1>2, <2>0, <3>1, <4>1
    <3>2. CASE i # 1
      <4>1. i - 1 \in 1..Len(s) /\ r[i] = s[i - 1]
        BY <1>1, <1>2, <3>2
      <4>2. IsFrame(s[i - 1]) /\ s[i - 1].entry >= Len(s) - (i - 1)
        BY <4>1 DEF Stacked
      <4>. QED
        BY <1>1, <1>2, <4>1, <4>2
    <3>. QED
      BY <3>1, <3>2
  <2>2. ASSUME NEW i \in 1..(Len(r) - 1) PROVE CalledBy(r[i], r[i + 1])
    <3>1. CASE i = 1
      <4>1. r[1] = g /\ r[i + 1] = s[1]
        BY <1>1, <1>2, <3>1
      <4>. QED
        BY <1>1, <2>0, <3>1, <4>1 DEF CalledBy
    <3>2. CASE i # 1
      <4>1. i - 1 \in 1..(Len(s) - 1) /\ r[i] = s[i - 1] /\ r[i + 1] = s[(i - 1) + 1]
        BY <1>1, <1>2, <3>2
      <4>. QED
        BY <4>1 DEF Stacked
    <3>. QED
      BY <3>1, <3>2
  <2>3. r[1].entry + r[1].levels = d
    BY <1>2, <2>0
  <2>4. r[Len(r)].sink = "Public" /\ r[Len(r)].entry = 0
    <3>1. s[Len(s)].sink = "Public" /\ s[Len(s)].entry = 0
      BY DEF Stacked
    <3>2. r[Len(r)] = s[Len(s)]
      BY <1>1, <1>2
    <3>. QED
      BY <3>1, <3>2
  <2>. QED
    BY <1>2, <2>0, <2>1, <2>2, <2>3, <2>4 DEF Stacked
<1>4. r # <<>>
  BY <1>1, <1>2
<1>5. (Blamed(r) <=> Blamed(s))
  <2>1. ASSUME Blamed(r) PROVE Blamed(s)
    <3>1. PICK i \in 1..Len(r) : Blames(r[i])
      BY <2>1 DEF Blamed
    <3>2. i # 1
      BY <1>2, <3>1 DEF Blames
    <3>3. i - 1 \in 1..Len(s) /\ r[i] = s[i - 1]
      BY <1>1, <1>2, <3>2
    <3>. QED
      BY <3>1, <3>3 DEF Blamed
  <2>2. ASSUME Blamed(s) PROVE Blamed(r)
    <3>1. PICK i \in 1..Len(s) : Blames(s[i])
      BY <2>2 DEF Blamed
    <3>2. i + 1 \in 1..Len(r) /\ r[i + 1] = s[(i + 1) - 1] /\ (i + 1) - 1 = i
      BY <1>1, <1>2
    <3>. QED
      BY <3>1, <3>2 DEF Blamed
  <2>. QED
    BY <2>1, <2>2 DEF Blamed
<1>6. ASSUME NEW used, Unspent(s, used), g.start < limit PROVE Unspent(r, used)
  <2>1. ASSUME NEW i \in 1..Len(r) PROVE r[i].start < limit
    <3>1. CASE i = 1
      BY <1>2, <1>6, <3>1
    <3>2. CASE i # 1
      BY <1>1, <1>2, <1>6, <3>2 DEF Unspent
    <3>. QED
      BY <3>1, <3>2
  <2>. QED
    BY <1>6, <2>1 DEF Unspent
<1>. QED
  BY <1>3, <1>4, <1>5, <1>6 DEF r

\* The running call returns, and its caller goes on with frame g.
LEMMA CallPopped ==
    ASSUME NEW s, NEW d, Stacked(s, d), s # <<>>, Len(s) # 1,
           NEW g, IsFrame(g), g.sink = s[2].sink, g.entry = s[2].entry, g.levels = s[2].levels
    PROVE  LET r == <<g>> \o Tail(Tail(s))
           IN  /\ Stacked(r, s[1].entry) /\ r # <<>>
               /\ IsFrame(s[2])
               /\ d - s[1].levels = s[1].entry
               /\ IF Same(Head(s[2].todo)) THEN s[1].sink = s[2].sink ELSE s[1].sink # "Public"
               /\ (Blames(g) <=> Blames(s[1]) \/ Blames(s[2])) => (Blamed(r) <=> Blamed(s))
               /\ \A used : Unspent(s, used) /\ g.start < limit => Unspent(r, used)
<1>. DEFINE r == <<g>> \o Tail(Tail(s))
<1>1. /\ Len(s) \in Nat \ {0} /\ IsSequence(Tail(s)) /\ Len(Tail(s)) = Len(s) - 1
      /\ \A i \in 1..(Len(s) - 1) : Tail(s)[i] = s[i + 1]
  BY TailSequence DEF Stacked
<1>2. Tail(s) # <<>>
  BY <1>1
<1>3. /\ IsSequence(Tail(Tail(s))) /\ Len(Tail(Tail(s))) = Len(Tail(s)) - 1
      /\ \A i \in 1..(Len(Tail(s)) - 1) : Tail(Tail(s))[i] = Tail(s)[i + 1]
  BY <1>1, <1>2, TailSequence, Zenon
<1>4. Len(s) >= 2 /\ Len(Tail(Tail(s))) = Len(s) - 2
  BY <1>1, <1>3
<1>5. /\ IsSequence(r) /\ Len(r) = Len(s) - 1 /\ r[1] = g
      /\ \A i \in 2..(Len(s) - 1) : r[i] = s[i + 1]
  <2>1. /\ IsSequence(r) /\ Len(r) = Len(Tail(Tail(s))) + 1 /\ r[1] = g
        /\ \A i \in 2..(Len(Tail(Tail(s))) + 1) : r[i] = Tail(Tail(s))[i - 1]
    BY <1>3, PushedSequence
  <2>2. ASSUME NEW i \in 2..(Len(s) - 1) PROVE r[i] = s[i + 1]
    <3>1. r[i] = Tail(Tail(s))[i - 1] /\ i - 1 \in 1..(Len(Tail(s)) - 1)
      BY <1>1, <1>4, <2>1, <2>2
    <3>2. Tail(Tail(s))[i - 1] = Tail(s)[(i - 1) + 1] /\ (i - 1) + 1 = i
      BY <1>3, <3>1
    <3>3. Tail(s)[i] = s[i + 1]
      BY <1>1, <2>2
    <3>. QED
      BY <3>1, <3>2, <3>3
  <2>. QED
    BY <1>1, <1>4, <2>1, <2>2
<1>. HIDE DEF r
<1>6. /\ IsFrame(s[1]) /\ IsFrame(s[2]) /\ s[2].entry >= Len(s) - 2
      /\ s[1].entry + s[1].levels = d
      /\ CalledBy(s[1], s[2])
  <2>1. 1 \in 1..Len(s) /\ 2 \in 1..Len(s) /\ 1 \in 1..(Len(s) - 1) /\ 1 + 1 = 2
    BY <1>1, <1>4
  <2>. QED
    BY <2>1 DEF Stacked
<1>7. /\ s[1].entry \in Nat /\ s[1].levels \in Nat /\ s[2].entry \in Nat /\ s[2].levels \in Nat
      /\ d - s[1].levels = s[1].entry /\ s[2].entry + s[2].levels = s[1].entry
      /\ IF Same(Head(s[2].todo)) THEN s[1].sink = s[2].sink ELSE s[1].sink # "Public"
  BY <1>6 DEF IsFrame, CalledBy
<1>8. Stacked(r, s[1].entry)
  <2>1. ASSUME NEW i \in 1..Len(r) PROVE IsFrame(r[i]) /\ r[i].entry >= Len(r) - i
    <3>1. CASE i = 1
      BY <1>1, <1>5, <1>6, <3>1
    <3>2. CASE i # 1
      <4>1. i + 1 \in 1..Len(s) /\ r[i] = s[i + 1]
        BY <1>1, <1>5, <3>2
      <4>2. IsFrame(s[i + 1]) /\ s[i + 1].entry >= Len(s) - (i + 1)
        BY <4>1 DEF Stacked
      <4>. QED
        BY <1>1, <1>5, <4>1, <4>2
    <3>. QED
      BY <3>1, <3>2
  <2>2. ASSUME NEW i \in 1..(Len(r) - 1) PROVE CalledBy(r[i], r[i + 1])
    <3>0. i + 1 \in 1..(Len(s) - 1) /\ r[i + 1] = s[(i + 1) + 1]
      BY <1>1, <1>5
    <3>1. CalledBy(s[i + 1], s[(i + 1) + 1])
      BY <3>0 DEF Stacked
    <3>2. CASE i = 1
      BY <1>5, <3>0, <3>1, <3>2 DEF CalledBy
    <3>3. CASE i # 1
      BY <1>1, <1>5, <3>0, <3>1, <3>3
    <3>. QED
      BY <3>2, <3>3
  <2>3. r[1].entry + r[1].levels = s[1].entry
    BY <1>5, <1>7
  <2>4. r[Len(r)].sink = "Public" /\ r[Len(r)].entry = 0
    <3>1. s[Len(s)].sink = "Public" /\ s[Len(s)].entry = 0
      BY DEF Stacked
    <3>2. CASE Len(s) = 2
      BY <1>5, <3>1, <3>2
    <3>3. CASE Len(s) # 2
      BY <1>1, <1>4, <1>5, <3>1, <3>3
    <3>. QED
      BY <3>2, <3>3
  <2>. QED
    BY <1>5, <1>7, <2>1, <2>2, <2>3, <2>4 DEF Stacked
<1>9. r # <<>>
  BY <1>1, <1>4, <1>5
<1>10. ASSUME (Blames(g) <=> Blames(s[1]) \/ Blames(s[2])) PROVE (Blamed(r) <=> Blamed(s))
  <2>1. ASSUME Blamed(r) PROVE Blamed(s)
    <3>1. PICK i \in 1..Len(r) : Blames(r[i])
      BY <2>1 DEF Blamed
    <3>2. CASE i = 1
      <4>1. (Blames(s[1]) \/ Blames(s[2])) /\ 1 \in 1..Len(s) /\ 2 \in 1..Len(s)
        BY <1>1, <1>4, <1>5, <1>10, <3>1, <3>2
      <4>. QED
        BY <4>1 DEF Blamed
    <3>3. CASE i # 1
      <4>1. i + 1 \in 1..Len(s) /\ r[i] = s[i + 1]
        BY <1>1, <1>4, <1>5, <3>3
      <4>. QED
        BY <3>1, <4>1 DEF Blamed
    <3>. QED
      BY <3>2, <3>3
  <2>2. ASSUME Blamed(s) PROVE Blamed(r)
    <3>1. PICK i \in 1..Len(s) : Blames(s[i])
      BY <2>2 DEF Blamed
    <3>2. CASE i \in {1, 2}
      <4>1. Blames(r[1]) /\ 1 \in 1..Len(r)
        BY <1>1, <1>4, <1>5, <1>10, <3>1, <3>2
      <4>. QED
        BY <4>1 DEF Blamed
    <3>3. CASE i \notin {1, 2}
      <4>1. i - 1 \in 1..Len(r) /\ r[i - 1] = s[(i - 1) + 1] /\ (i - 1) + 1 = i
        BY <1>1, <1>4, <1>5, <3>3
      <4>. QED
        BY <3>1, <4>1 DEF Blamed
    <3>. QED
      BY <3>2, <3>3
  <2>. QED
    BY <2>1, <2>2 DEF Blamed
<1>11. ASSUME NEW used, Unspent(s, used), g.start < limit PROVE Unspent(r, used)
  <2>1. ASSUME NEW i \in 1..Len(r) PROVE r[i].start < limit
    <3>1. CASE i = 1
      BY <1>5, <1>11, <3>1
    <3>2. CASE i # 1
      BY <1>1, <1>4, <1>5, <1>11, <3>2 DEF Unspent
    <3>. QED
      BY <3>1, <3>2
  <2>. QED
    BY <1>11, <2>1 DEF Unspent
<1>. QED
  BY <1>6, <1>7, <1>8, <1>9, <1>10, <1>11 DEF r

-----------------------------------------------------------------------------
(* Frames and limits.                                                      *)

\* The limits a run can have.
LEMMA LimitsOf ==
    ASSUME ValidOptions, NEW options \in {in.options, MetaOptions}
    PROVE  /\ diagnosticLimit(options) \in Nat /\ diagnosticLimit(options) > 0
           /\ validationDepthLimit(options) \in Nat
<1>1. /\ options.maxErrors = in.options.maxErrors
      /\ options.stopAfterFirstError = in.options.stopAfterFirstError
      /\ options.maxValidationDepth = in.options.maxValidationDepth
  BY DEF ValidOptions, MetaOptions
<1>2. in.options.maxErrors \in Nat /\ in.options.maxValidationDepth \in Nat
  BY DEF ValidOptions
<1>. QED
  BY <1>1, <1>2 DEF diagnosticLimit, validationDepthLimit, DepthCeiling

\* The limits of the session.
LEMMA LimitsArePositive ==
    ASSUME SessionInv
    PROVE  limit \in Nat /\ limit > 0 /\ validationDepthLimit(Options) \in Nat
BY LimitsOf DEF SessionInv, limit, Options

\* g is f with levels more, failures more and another start.
Updated(g, f, levels, failures, start) ==
    /\ IsFrame(g) /\ g.at # "enter" /\ g.sink = f.sink /\ g.entry = f.entry
    /\ g.levels = f.levels + levels /\ g.failures = f.failures + failures
    /\ g.start = start

\* What the steps of a call do with its frame.
LEMMA FrameUpdates ==
    ASSUME NEW f, IsFrame(f), f.at # "enter", NEW v, NEW w, NEW x, NEW y, NEW n \in Nat
    PROVE
      /\ Updated(Finished(f), f, 0, 0, f.start)
      /\ Updated([f EXCEPT !.todo = v], f, 0, 0, f.start)
      /\ Updated([f EXCEPT !.todo = v, !.marks = w], f, 0, 0, f.start)
      /\ Updated([f EXCEPT !.failures = @ + 1], f, 0, 1, f.start)
      /\ Updated([f EXCEPT !.failures = @ + 1, !.held = v], f, 0, 1, f.start)
      /\ Updated([Stepped(f) EXCEPT !.hits = v], f, 0, 0, f.start)
      /\ Updated([Stepped(f) EXCEPT !.causes = v], f, 0, 0, f.start)
      /\ Updated([Stepped(f) EXCEPT !.marks = v], f, 0, 0, f.start)
      /\ Updated([Stepped(f) EXCEPT !.start = n, !.hits = 0, !.causes = 0,
                     !.kept = {}], f, 0, 0, n)
      /\ Updated([f EXCEPT !.levels = @ + 1, !.schema = v, !.root = w, !.base = x,
                     !.policy = y], f, 1, 0, f.start)
      /\ Updated([f EXCEPT !.root = v, !.base = w,
                     !.policy = x, !.at = "keywords",
                     !.todo = y], f, 0, 0, f.start)
<1>1. Updated(Finished(f), f, 0, 0, f.start)
  BY DEF Updated, IsFrame, FrameFields, Finished
<1>2. Updated([f EXCEPT !.todo = v], f, 0, 0, f.start)
  BY DEF Updated, IsFrame, FrameFields
<1>3. Updated([f EXCEPT !.todo = v, !.marks = w], f, 0, 0, f.start)
  BY DEF Updated, IsFrame, FrameFields
<1>4. Updated([f EXCEPT !.failures = @ + 1], f, 0, 1, f.start)
  BY DEF Updated, IsFrame, FrameFields
<1>5. Updated([f EXCEPT !.failures = @ + 1, !.held = v], f, 0, 1, f.start)
  BY DEF Updated, IsFrame, FrameFields
<1>6. Updated([Stepped(f) EXCEPT !.hits = v], f, 0, 0, f.start)
  BY DEF Updated, IsFrame, FrameFields, Stepped
<1>7. Updated([Stepped(f) EXCEPT !.causes = v], f, 0, 0, f.start)
  BY DEF Updated, IsFrame, FrameFields, Stepped
<1>8. Updated([Stepped(f) EXCEPT !.marks = v], f, 0, 0, f.start)
  BY DEF Updated, IsFrame, FrameFields, Stepped
<1>9. Updated([Stepped(f) EXCEPT !.start = n, !.hits = 0, !.causes = 0,
                  !.kept = {}], f, 0, 0, n)
  BY DEF Updated, IsFrame, FrameFields, Stepped
<1>10. Updated([f EXCEPT !.levels = @ + 1, !.schema = v, !.root = w, !.base = x,
                  !.policy = y], f, 1, 0, f.start)
  BY DEF Updated, IsFrame, FrameFields
<1>11. Updated([f EXCEPT !.root = v, !.base = w,
                  !.policy = x, !.at = "keywords",
                  !.todo = y], f, 0, 0, f.start)
  BY DEF Updated, IsFrame, FrameFields
<1>. QED
  BY <1>1, <1>2, <1>3, <1>4, <1>5, <1>6, <1>7, <1>8, <1>9, <1>10, <1>11

-----------------------------------------------------------------------------
(* The ways a run goes on.                                                 *)

Live == SessionInv /\ RunInv /\ ReportInv /\ verdict = "running"
Kept == SessionInv' /\ RunInv' /\ ReportInv'

\* The call that runs.
LEMMA HeadFacts ==
    ASSUME NEW s, NEW d, Stacked(s, d), s # <<>>
    PROVE  /\ Len(s) \in Nat \ {0} /\ Head(s) = s[1] /\ IsFrame(Head(s))
           /\ d = Head(s).entry + Head(s).levels
           /\ Len(s) <= Head(s).entry + 1
           /\ \A used : Unspent(s, used) => Head(s).start < limit
<1>1. Len(s) \in Nat \ {0} /\ Head(s) = s[1]
  BY TailSequence DEF Stacked
<1>2. IsFrame(s[1]) /\ s[1].entry >= Len(s) - 1 /\ d = s[1].entry + s[1].levels
  BY <1>1 DEF Stacked
<1>3. \A used : Unspent(s, used) => s[1].start < limit
  BY <1>1 DEF Unspent
<1>4. s[1].entry \in Nat
  BY <1>2 DEF IsFrame
<1>. QED
  BY <1>1, <1>2, <1>3, <1>4

\* A run keeps its limits.
LEMMA SessionKept ==
    ASSUME SessionInv, UNCHANGED <<in, session>>
    PROVE  SessionInv' /\ limit' = limit /\ Options' = Options
BY DEF SessionInv, ValidOptions, MetaOptions, limit, Options

\* With another frame, of as many failures.
LEMMA GoesOn ==
    ASSUME Live, NEW g, NEW n \in Nat, Updated(g, Head(stack), n, 0, g.start),
           g.start \in {Head(stack).start, diagnosticsUsed},
           n = 0 \/ depth + n <= validationDepthLimit(Options),
           stack' = <<g>> \o Tail(stack), depth' = depth + n,
           diagnosticsUsed' \in {Head(stack).start, diagnosticsUsed},
           UNCHANGED <<in, session, errorsUsed, aborted, report, verdict>>
    PROVE  Kept
<1>1. stack # <<>> /\ Stacked(stack, depth) /\ depth <= validationDepthLimit(Options)
  BY DEF Live, RunInv
<1>2. /\ IsFrame(Head(stack)) /\ depth = Head(stack).entry + Head(stack).levels
      /\ \A used : Unspent(stack, used) => Head(stack).start < limit
  BY <1>1, HeadFacts
<1>3. /\ IsFrame(g) /\ g.sink = Head(stack).sink /\ g.entry = Head(stack).entry
      /\ depth' = g.entry + g.levels
      /\ Blames(g) <=> Blames(Head(stack))
  BY <1>2 DEF Updated, IsFrame, Blames
<1>4. /\ Stacked(stack', depth') /\ stack' # <<>> /\ (Blamed(stack') <=> Blamed(stack))
      /\ \A used : Unspent(stack, used) /\ g.start < limit => Unspent(stack', used)
  BY <1>1, <1>3, HeadReplaced
<1>5. SessionInv' /\ limit' = limit /\ Options' = Options
  BY SessionKept DEF Live
<1>6. RunInv'
  <2>1. depth \in Nat /\ depth' <= validationDepthLimit(Options)
    BY <1>1 DEF Stacked
  <2>2. diagnosticsUsed' \in Nat
    BY <1>2 DEF IsFrame, Live, RunInv
  <2>. QED
    BY <1>1, <1>4, <1>5, <2>1, <2>2 DEF RunInv, Live
<1>7. ASSUME Told PROVE Told'
  <2>2. report = <<>> => Unspent(stack', diagnosticsUsed')
    BY <1>2, <1>4, <1>7 DEF Told, Unspent
  <2>3. report = <<>> => Unspent(stack, diagnosticsUsed)'
    BY <1>5, <2>2 DEF Unspent
  <2>. QED
    BY <1>4, <1>7, <2>3 DEF Told, Live
<1>. QED
  BY <1>5, <1>6, <1>7 DEF Kept, ReportInv, Live

\* Into the budget: the run is over, its calls return one by one.
LEMMA Aborts ==
    ASSUME Live, Abort, UNCHANGED <<in, session, depth, stack, verdict>>
    PROVE  Kept
<1>1. SessionInv' /\ limit' = limit /\ Options' = Options
  BY SessionKept DEF Live
<1>2. RunInv'
  BY <1>1 DEF RunInv, Live, Abort
<1>3. ASSUME Told, in.memoryShort = FALSE PROVE Told'
  <2>1. CASE UNCHANGED <<report, errorsUsed, diagnosticsUsed>> /\ errorsUsed >= limit
    <3>1. report # <<>>
      BY <1>3, <2>1, LimitsArePositive DEF Told, Live
    <3>. QED
      BY <1>1, <1>3, <2>1, <3>1 DEF Told, Live, Abort
  <2>2. CASE /\ report' = Append(report, [code |-> "ResourceLimit", causes |-> 0])
             /\ errorsUsed' = errorsUsed + 1 /\ diagnosticsUsed' = diagnosticsUsed + 1
    <3>1. IsSequence(report') /\ report' # <<>>
      BY <1>3, <2>2, AppendNotEmpty DEF Told, Live
    <3>. QED
      BY <1>3, <2>2, <3>1 DEF Told, Live, Abort
  <2>. QED
    BY <1>3, <2>1, <2>2 DEF Abort
<1>. QED
  BY <1>1, <1>2, <1>3 DEF Kept, ReportInv, Live

\* No call at all.
LEMMA EmptyStacked ==
    ASSUME NEW d \in Nat
    PROVE  Stacked(<<>>, d)
BY DEF Stacked, IsSequence

\* The run ends at once, with a report.
LEMMA Stops ==
    ASSUME Live, stack' = <<>>, verdict' = "invalid", Told => Told', diagnosticsUsed' \in Nat,
           UNCHANGED <<in, session, depth>>
    PROVE  Kept
<1>1. SessionInv' /\ limit' = limit /\ Options' = Options
  BY SessionKept DEF Live
<1>2. Stacked(stack', depth')
  BY EmptyStacked DEF Live, RunInv, Stacked
<1>3. RunInv'
  BY <1>2 DEF RunInv
<1>. QED
  BY <1>1, <1>3 DEF Kept, Live, ReportInv

\* An error is pushed to the sink of the running call.
LEMMA Pushes ==
    ASSUME Live, ~aborted, in' = in, NEW code, NEW causes,
           NEW f, Updated(f, Head(stack), 0, 0, Head(stack).start), Push(f, code, causes)
    PROVE  Kept
<1>1. stack # <<>> /\ Stacked(stack, depth) /\ depth <= validationDepthLimit(Options)
  BY DEF Live, RunInv
<1>2. /\ IsFrame(Head(stack)) /\ depth = Head(stack).entry + Head(stack).levels
      /\ \A used : Unspent(stack, used) => Head(stack).start < limit
  BY <1>1, HeadFacts
<1>3. /\ SessionInv' /\ limit' = limit /\ Options' = Options
      /\ limit \in Nat /\ limit > 0
  BY SessionKept, LimitsArePositive DEF Live, Push
<1>4. IsFrame(f) /\ f.sink = Head(stack).sink /\ f.failures = Head(stack).failures
      /\ f.failures \in Nat /\ f.at # "enter"
  BY <1>2 DEF Updated, IsFrame
\* With one more failure.
<1>5. ASSUME NEW g, Updated(g, f, 0, 1, f.start), stack' = <<g>> \o Tail(stack)
      PROVE  /\ Stacked(stack', depth') /\ stack' # <<>>
             /\ g.sink = "Public" => Blamed(stack')
             /\ g.sink # "Public" => (Blamed(stack') <=> Blamed(stack))
             /\ \A used : Unspent(stack, used) => Unspent(stack', used)
             /\ g.sink = f.sink
  <2>1. /\ IsFrame(g) /\ g.sink = Head(stack).sink /\ g.entry = Head(stack).entry
        /\ g.entry + g.levels = depth /\ g.start = Head(stack).start
        /\ g.failures > 0
    BY <1>2, <1>4, <1>5 DEF Updated, IsFrame
  <2>2. /\ Stacked(stack', depth) /\ stack' # <<>>
        /\ (Blames(g) <=> Blames(Head(stack))) => (Blamed(stack') <=> Blamed(stack))
        /\ Blames(g) => Blamed(stack')
        /\ \A used : Unspent(stack, used) /\ g.start < limit => Unspent(stack', used)
    BY <1>1, <1>5, <2>1, HeadReplaced
  <2>3. depth' = depth
    BY DEF Push
  <2>. QED
    BY <1>2, <1>4, <2>1, <2>2, <2>3 DEF Blames
<1>6. CASE PushDiscard(f, code)
  <2>1. PICK g : g = [f EXCEPT !.failures = @ + 1]
    OBVIOUS
  <2>2. Updated(g, f, 0, 1, f.start) /\ stack' = <<g>> \o Tail(stack)
    BY <1>4, <1>6, <2>1, FrameUpdates DEF PushDiscard
  <2>3. f.sink # "Public"
    BY <1>6 DEF PushDiscard
  <2>4. RunInv'
    BY <1>1, <1>3, <1>5, <1>6, <2>2 DEF RunInv, PushDiscard, Push, Live
  <2>5. ASSUME Told PROVE Told'
    <3>1. Unspent(stack, diagnosticsUsed) => Unspent(stack, diagnosticsUsed)'
      BY <1>3, <1>5, <1>6, <2>2 DEF PushDiscard, Unspent
    <3>. QED
      BY <1>5, <1>6, <2>2, <2>3, <2>5, <3>1 DEF Told, PushDiscard, Live
  <2>. QED
    BY <1>3, <2>4, <2>5 DEF Kept, ReportInv, Live
<1>7. CASE PushCause(f, code, causes)
  <2>1. PICK g : g = [f EXCEPT !.failures = @ + 1,
                               !.held = @ + IF diagnosticsUsed + 1 < limit THEN 1 + causes ELSE 0]
    OBVIOUS
  <2>2. Updated(g, f, 0, 1, f.start) /\ stack' = <<g>> \o Tail(stack)
    BY <1>4, <1>7, <2>1, FrameUpdates DEF PushCause
  <2>3. f.sink # "Public"
    BY <1>7 DEF PushCause
  <2>4. RunInv'
    BY <1>1, <1>3, <1>5, <1>7, <2>2 DEF RunInv, PushCause, Push, Live
  <2>5. ASSUME Told PROVE Told'
    <3>1. diagnosticsUsed' \in Nat /\ (diagnosticsUsed < limit => diagnosticsUsed' < limit)
      BY <1>3, <1>7, <2>5 DEF PushCause, Told, Live, RunInv
    <3>2. Unspent(stack, diagnosticsUsed) => Unspent(stack, diagnosticsUsed)'
      BY <1>3, <1>5, <1>7, <2>2, <3>1 DEF PushCause, Unspent
    <3>. QED
      BY <1>5, <1>7, <2>2, <2>3, <2>5, <3>1, <3>2 DEF Told, PushCause, Live
  <2>. QED
    BY <1>3, <2>4, <2>5 DEF Kept, ReportInv, Live
<1>8. CASE PushPublic(f, code, causes)
  <2>1. ASSUME Told PROVE /\ IsSequence(report') /\ report' # <<>>
                          /\ errorsUsed' \in Nat
    BY <1>8, <2>1, AppendNotEmpty DEF PushPublic, Told, Live
  <2>2. CASE Options.stopAfterFirstError
    <3>1. stack' = <<>> /\ verdict' = "invalid"
      BY <1>8, <2>2 DEF PushPublic
    <3>2. Told => Told'
      BY <2>1, <3>1 DEF Told
    <3>. QED
      BY <1>8, <3>1, <3>2, Stops DEF Push, PushPublic, Live, RunInv
  <2>3. CASE ~Options.stopAfterFirstError
    <3>1. PICK g : g = [f EXCEPT !.failures = @ + 1]
      OBVIOUS
    <3>2. Updated(g, f, 0, 1, f.start) /\ stack' = <<g>> \o Tail(stack) /\ f.sink = "Public"
      BY <1>4, <1>8, <2>3, <3>1, FrameUpdates DEF PushPublic
    <3>3. RunInv'
      BY <1>1, <1>3, <1>5, <1>8, <2>3, <3>2, SMTT(20) DEF RunInv, PushPublic, Push, Live
    <3>4. ASSUME Told PROVE Told'
      BY <1>5, <1>8, <2>1, <2>3, <3>2, <3>4 DEF Told, PushPublic, Live
    <3>. QED
      BY <1>3, <3>3, <3>4 DEF Kept, ReportInv, Live
  <2>. QED
    BY <2>2, <2>3
<1>9. CASE PushOver(f)
  <2>1. CASE in.memoryShort = FALSE
    <3>1. ASSUME Told PROVE Told'
      <4>1. CASE /\ report' = Append(report, [code |-> "ResourceLimit", causes |-> 0])
                 /\ diagnosticsUsed' = diagnosticsUsed + 1
        <5>1. IsSequence(report') /\ report' # <<>>
          BY <3>1, <4>1, AppendNotEmpty DEF Told, Live
        <5>. QED
          BY <1>9, <3>1, <4>1, <5>1 DEF Told, PushOver
      <4>2. CASE /\ Len(report) >= limit \/ diagnosticsUsed >= limit
                 /\ UNCHANGED <<report, diagnosticsUsed>>
        <5>1. report # <<>>
          BY <1>3, <3>1, <4>2 DEF Told, Unspent, Live, RunInv
        <5>. QED
          BY <1>9, <3>1, <4>2, <5>1 DEF Told, PushOver, Live
      <4>. QED
        BY <1>9, <2>1, <4>1, <4>2 DEF PushOver
    <3>. QED
      BY <1>9, <3>1, Stops DEF PushOver, Push, Live, RunInv
  <2>2. CASE in.memoryShort # FALSE
    <3>1. Stacked(stack', depth')
      BY <1>1, <1>9, EmptyStacked DEF Stacked, PushOver, Push
    <3>2. RunInv'
      BY <1>9, <3>1 DEF RunInv, PushOver, Live
    <3>. QED
      BY <1>3, <2>2, <3>2 DEF Kept, ReportInv
  <2>. QED
    BY <2>1, <2>2
<1>. QED
  BY <1>6, <1>7, <1>8, <1>9 DEF Push

\* The running call calls another.
LEMMA Calls ==
    ASSUME Live, Head(stack).at # "enter",
           NEW g, IsFrame(g), g.levels = 0, g.entry = depth, g.failures = 0, g.start = 0,
           IF Same(Head(Head(stack).todo)) THEN g.sink = Head(stack).sink ELSE g.sink # "Public",
           stack' = <<g>> \o stack,
           UNCHANGED <<in, session, depth, errorsUsed, diagnosticsUsed, aborted, report, verdict>>
    PROVE  Kept
<1>1. stack # <<>> /\ Stacked(stack, depth) /\ depth <= validationDepthLimit(Options)
  BY DEF Live, RunInv
<1>2. IsFrame(Head(stack)) /\ Head(stack).levels > 0
  BY <1>1, HeadFacts DEF IsFrame
<1>3. /\ SessionInv' /\ limit' = limit /\ Options' = Options
      /\ limit \in Nat /\ limit > 0
  BY SessionKept, LimitsArePositive DEF Live
<1>4. /\ Stacked(stack', depth) /\ stack' # <<>>
      /\ Blamed(stack') <=> Blamed(stack)
  BY <1>1, <1>2, CallPushed
<1>5. \A used : Unspent(stack, used) => Unspent(stack', used)
  BY <1>1, <1>2, <1>3, CallPushed
<1>6. RunInv'
  BY <1>1, <1>3, <1>4 DEF RunInv, Live
<1>7. ASSUME Told PROVE Told'
  <2>1. Unspent(stack, diagnosticsUsed) => Unspent(stack, diagnosticsUsed)'
    BY <1>3, <1>5 DEF Unspent
  <2>. QED
    BY <1>4, <1>7, <2>1 DEF Told, Live
<1>. QED
  BY <1>3, <1>6, <1>7 DEF Kept, ReportInv, Live

\* A caller that goes on is where it was.
LEMMA ResumedIsFrame ==
    ASSUME NEW c, IsFrame(c), c.levels > 0, NEW f, IsFrame(f), NEW result \in BOOLEAN
    PROVE  LET g == Resumed(c, f, result)
           IN  /\ IsFrame(g) /\ g.sink = c.sink /\ g.entry = c.entry /\ g.levels = c.levels
               /\ g.start = c.start
               /\ g.failures = c.failures + IF Same(Head(c.todo)) THEN f.failures ELSE 0
BY DEF Resumed, IsFrame, FrameFields

\* A number of calls that is not one.
LEMMA AtLeastTwo ==
    ASSUME NEW n \in Nat \ {0}, n # 1
    PROVE  n \in Nat /\ n >= 2
OBVIOUS

\* The running call returns: its failures are its result, or it was cut short.
LEMMA Returns ==
    ASSUME Live, in' = in, NEW result \in BOOLEAN, Return(result),
           IF aborted THEN result = FALSE ELSE result <=> Head(stack).failures = 0
    PROVE  Kept
<1>. DEFINE f == Head(stack)
<1>1. stack # <<>> /\ Stacked(stack, depth) /\ depth <= validationDepthLimit(Options)
  BY DEF Live, RunInv
<1>2. /\ IsFrame(f) /\ depth = f.entry + f.levels /\ Len(stack) \in Nat \ {0}
      /\ f = stack[1] /\ depth \in Nat
  BY <1>1, HeadFacts DEF Stacked
<1>3. /\ SessionInv' /\ limit' = limit /\ Options' = Options
      /\ limit \in Nat /\ limit > 0
  BY SessionKept, LimitsArePositive DEF Live, Return
<1>4. depth' = f.entry /\ depth' \in Nat /\ depth' <= validationDepthLimit(Options)
  <2>1. f.entry \in Nat /\ f.levels \in Nat /\ validationDepthLimit(Options) \in Nat
    BY <1>2, LimitsArePositive DEF IsFrame, Live
  <2>. QED
    BY <1>1, <1>2, <2>1 DEF Return
<1>5. CASE Len(stack) = 1
  <2>1. stack' = <<>> /\ verdict' = (IF result THEN "valid" ELSE "invalid")
    BY <1>5, Zenon DEF Return
  <2>2. Blamed(stack) <=> f.failures # 0
    BY <1>1, <1>2, <1>5 DEF Stacked, Blamed, Blames, IsFrame
  <2>3. Stacked(stack', depth')
    BY <1>4, <2>1, EmptyStacked
  <2>4. RunInv'
    BY <2>1, <2>3 DEF RunInv, Live, Return
  <2>5. ASSUME Told PROVE Told'
    <3>1. Unspent(stack', diagnosticsUsed) \/ report # <<>>
      BY <2>1, <2>5 DEF Told, Unspent
    <3>2. report = <<>> => Unspent(stack, diagnosticsUsed)'
      BY <1>3, <3>1 DEF Unspent, Return
    <3>3. verdict' = "valid" <=> report = <<>>
      BY <2>1, <2>2, <2>5 DEF Told, Live
    <3>. QED
      BY <2>1, <2>5, <3>2, <3>3 DEF Told, Return
  <2>. QED
    BY <1>3, <2>4, <2>5 DEF Kept, ReportInv, Live
<1>6. CASE Len(stack) # 1
  <2>0. Len(stack) \in Nat /\ Len(stack) >= 2
    BY <1>2, <1>6, AtLeastTwo, Zenon
  <2>. DEFINE c == stack[2]
              g == Resumed(c, f, result)
  <2>1. IsFrame(c) /\ c.levels > 0
        /\ IF Same(Head(c.todo)) THEN f.sink = c.sink ELSE f.sink # "Public"
    <3>1. 2 \in 1..Len(stack) /\ 1 \in 1..(Len(stack) - 1) /\ 1 + 1 = 2
      BY <2>0
    <3>. QED
      BY <1>1, <1>2, <3>1 DEF Stacked, CalledBy
  <2>2. stack' = <<g>> \o Tail(Tail(stack)) /\ verdict' = verdict
    BY <1>6, Zenon DEF Return
  <2>3. /\ IsFrame(g) /\ g.sink = c.sink /\ g.entry = c.entry /\ g.levels = c.levels
        /\ g.start = c.start
        /\ g.failures = c.failures + IF Same(Head(c.todo)) THEN f.failures ELSE 0
    BY <1>2, <2>1, ResumedIsFrame
  <2>. HIDE DEF g
  <2>4. Blames(g) <=> Blames(f) \/ Blames(c)
    BY <1>2, <2>1, <2>3, SMTT(20) DEF Blames, IsFrame
  <2>5. /\ Stacked(stack', f.entry) /\ stack' # <<>> /\ (Blamed(stack') <=> Blamed(stack))
        /\ \A used : Unspent(stack, used) /\ g.start < limit => Unspent(stack', used)
    BY <1>1, <1>2, <1>6, <2>2, <2>3, <2>4, CallPopped
  <2>6. RunInv'
    BY <1>3, <1>4, <2>2, <2>5 DEF RunInv, Live, Return
  <2>7. ASSUME Told PROVE Told'
    <3>1. Unspent(stack, diagnosticsUsed) => g.start < limit
      <4>1. 2 \in 1..Len(stack)
        BY <2>0
      <4>. QED
        BY <2>3, <4>1 DEF Unspent
    <3>2. Unspent(stack, diagnosticsUsed) => Unspent(stack, diagnosticsUsed)'
      BY <1>3, <2>5, <3>1 DEF Unspent, Return
    <3>. QED
      BY <2>2, <2>5, <2>7, <3>2 DEF Told, Return, Live
  <2>. QED
    BY <1>3, <2>6, <2>7 DEF Kept, ReportInv, Live
<1>. QED
  BY <1>5, <1>6

\* A call's frame, whatever the schema node.
LEMMA CalledIsFrame ==
    ASSUME depth \in Nat, NEW node, NEW schema, NEW root, NEW base, NEW sink, NEW options
    PROVE  LET f == Called(node, schema, root, base, sink, options)
           IN  /\ IsFrame(f) /\ f.sink = sink /\ f.entry = depth /\ f.levels = 0
               /\ f.failures = 0 /\ f.start = 0
               /\ \A n : LET g == [f EXCEPT !.refs = n]
                        IN  /\ IsFrame(g) /\ g.sink = sink /\ g.entry = depth /\ g.levels = 0
                            /\ g.failures = 0 /\ g.start = 0
<1>1. PICK r, b, p : Called(node, schema, root, base, sink, options)
                        = Frame(node, schema, r, b, p, sink)
  BY DEF Called
<1>. QED
  BY <1>1 DEF Frame, IsFrame, FrameFields

\* A run begins with one call.
LEMMA Begins ==
    ASSUME SessionInv, RunInv, in' = in, NEW subject, NEW root,
           NEW options \in {in.options, MetaOptions}, Start(subject, root, options)
    PROVE  Kept /\ verdict' = "running"
<1>1. PICK f : f = Called(RootNode, root, root, NoUri, "Public", options)
  OBVIOUS
<1>2. IsFrame(f) /\ f.sink = "Public" /\ f.failures = 0 /\ f.levels = 0 /\ f.start = 0
  <2>1. depth \in Nat
    BY DEF RunInv, Stacked
  <2>. QED
    BY <1>1, <2>1, CalledIsFrame
<1>3. PICK g : g = [f EXCEPT !.entry = 0, !.refs = 0, !.scope = 0]
  OBVIOUS
<1>4. /\ IsFrame(g) /\ g.sink = "Public" /\ g.failures = 0 /\ g.levels = 0 /\ g.entry = 0
      /\ g.start = 0
  BY <1>2, <1>3 DEF IsFrame, FrameFields
<1>5. stack' = <<g>> /\ verdict' = "running" /\ depth' = 0 /\ report' = <<>>
      /\ errorsUsed' = 0 /\ diagnosticsUsed' = 0 /\ aborted' = FALSE
  BY <1>1, <1>3 DEF Start
<1>6. SessionInv' /\ limit' \in Nat /\ limit' > 0 /\ validationDepthLimit(Options)' \in Nat
  <2>1. ValidOptions' /\ session'.options = options /\ MetaOptions' = MetaOptions
    BY DEF SessionInv, ValidOptions, MetaOptions, Start
  <2>2. /\ diagnosticLimit(options) \in Nat /\ diagnosticLimit(options) > 0
        /\ validationDepthLimit(options) \in Nat
    BY LimitsOf DEF SessionInv
  <2>. QED
    BY <2>1, <2>2 DEF SessionInv, limit, Options
<1>7. /\ Len(stack') = 1 /\ stack' # <<>> /\ IsSequence(stack')
      /\ \A i \in 1..Len(stack') : i = 1 /\ stack'[i] = g
  BY <1>5 DEF IsSequence
<1>8. Stacked(stack', depth')
  <2>1. stack'[1] = g /\ stack'[Len(stack')] = g /\ 1..(Len(stack') - 1) = {}
    BY <1>5, <1>7
  <2>2. \A i \in 1..Len(stack') : IsFrame(stack'[i]) /\ stack'[i].entry >= Len(stack') - i
    BY <1>4, <1>7
  <2>. QED
    BY <1>4, <1>5, <1>7, <2>1, <2>2 DEF Stacked
<1>9. RunInv'
  BY <1>5, <1>6, <1>7, <1>8 DEF RunInv
<1>10. Told'
  <2>1. IsSequence(report')
    BY <1>5, EmptyStacked DEF Stacked
  <2>2. Unspent(stack, diagnosticsUsed)'
    <3>1. \A i \in 1..Len(stack') : stack'[i].start < limit'
      BY <1>4, <1>6, <1>7
    <3>. QED
      BY <1>5, <1>6, <3>1 DEF Unspent
  <2>3. ~Blamed(stack')
    <3>1. \A i \in 1..Len(stack') : ~Blames(stack'[i])
      BY <1>4, <1>7 DEF Blames
    <3>. QED
      BY <3>1 DEF Blamed
  <2>. QED
    BY <1>5, <2>1, <2>2, <2>3 DEF Told
<1>. QED
  BY <1>5, <1>6, <1>9, <1>10 DEF Kept, ReportInv

-----------------------------------------------------------------------------
(* The steps of a run.                                                     *)

\* The call that runs, for the steps that follow.
LEMMA RunningHead ==
    ASSUME Live
    PROVE  /\ stack # <<>> /\ IsFrame(Head(stack)) /\ depth \in Nat /\ diagnosticsUsed \in Nat
           /\ \A at : Running(at) /\ at # "enter" => Head(stack).at # "enter"
           /\ depth = Head(stack).entry + Head(stack).levels
           /\ validationDepthLimit(Options) \in Nat
<1>1. stack # <<>> /\ Stacked(stack, depth) /\ diagnosticsUsed \in Nat /\ SessionInv
  BY DEF Live, RunInv
<1>. QED
  BY <1>1, HeadFacts, LimitsArePositive DEF Stacked, Running

\* GoesOn at the same depth.
LEMMA GoesOnHere ==
    ASSUME Live, NEW g, Updated(g, Head(stack), 0, 0, g.start),
           g.start \in {Head(stack).start, diagnosticsUsed},
           stack' = <<g>> \o Tail(stack),
           diagnosticsUsed' \in {Head(stack).start, diagnosticsUsed},
           UNCHANGED <<in, session, depth, errorsUsed, aborted, report, verdict>>
    PROVE  Kept
<1>1. depth \in Nat /\ depth' = depth
  BY RunningHead
<1>2. depth' = depth + 0
  BY <1>1
<1>. QED
  BY <1>2, GoesOn

\* A step that charges work goes on, or aborts the run.
LEMMA Spends ==
    ASSUME Live, in' = in, NEW n, NEW g,
           Updated(g, Head(stack), 0, 0, Head(stack).start), Spend(n, g)
    PROVE  Kept
<1>1. depth \in Nat /\ g.start = Head(stack).start
  BY RunningHead DEF Updated
<1>2. CASE ~Affordable(n) /\ Abort /\ UNCHANGED stack
  BY <1>2, Aborts DEF Spend
<1>3. CASE stack' = <<g>> \o Tail(stack)
           /\ UNCHANGED <<errorsUsed, diagnosticsUsed, aborted, report>>
  BY <1>1, <1>3, GoesOn DEF Spend
<1>. QED
  BY <1>2, <1>3 DEF Spend

\* The entrance of validateCtx takes a level.
LEMMA Enters ==
    ASSUME Live, in' = in, Enter
    PROVE  Kept
<1>1. CASE Abort /\ UNCHANGED <<depth, stack>>
  BY <1>1, Aborts DEF Enter
<1>2. CASE /\ ~TooDeep /\ depth' = depth + 1
           /\ stack' = <<[Head(stack) EXCEPT !.at = "follow", !.levels = 1]>> \o Tail(stack)
           /\ UNCHANGED <<errorsUsed, diagnosticsUsed, aborted, report>>
  <2>1. PICK g : g = [Head(stack) EXCEPT !.at = "follow", !.levels = 1]
    OBVIOUS
  <2>2. /\ IsFrame(Head(stack)) /\ Head(stack).at = "enter"
        /\ depth + 1 <= validationDepthLimit(Options)
    BY <1>2, RunningHead DEF Enter, Running, TooDeep
  <2>3. Updated(g, Head(stack), 1, 0, g.start) /\ g.start = Head(stack).start
    BY <2>1, <2>2 DEF Updated, IsFrame, FrameFields
  <2>. QED
    BY <1>2, <2>1, <2>2, <2>3, GoesOn DEF Enter
<1>. QED
  BY <1>1, <1>2 DEF Enter

\* A reference that cannot be followed.
LEMMA Fails ==
    ASSUME Live, in' = in, NEW keyword,
           NEW at, at # "enter", Running(at), RefBudget \/ RefFails(keyword)
    PROVE  Kept
<1>1. CASE RefBudget
  BY <1>1, Aborts DEF RefBudget
<1>2. CASE RefFails(keyword)
  <2>1. Updated(Finished(Head(stack)), Head(stack), 0, 0, Head(stack).start)
    BY RunningHead, FrameUpdates
  <2>2. PICK code : Push(Finished(Head(stack)), code, 0)
    BY <1>2 DEF RefFails
  <2>3. ~aborted
    BY DEF Running
  <2>. QED
    BY <2>1, <2>2, <2>3, Pushes
<1>. QED
  BY <1>1, <1>2

\* The static loop of validateCtx.
LEMMA Follows ==
    ASSUME Live, in' = in, Trivial \/ FollowRef \/ FollowFails \/ Settle
    PROVE  Kept
<1>. DEFINE f == Head(stack)
<1>0. IsFrame(f) /\ f.at # "enter" /\ depth \in Nat /\ ~aborted /\ Running("follow")
      /\ validationDepthLimit(Options) \in Nat
  BY RunningHead DEF Trivial, FollowRef, FollowFails, Settle, Running
<1>1. CASE Trivial
  <2>1. Updated(Finished(f), f, 0, 0, f.start) /\ Finished(f).start = f.start
    BY <1>0, FrameUpdates DEF Updated
  <2>2. CASE Push(Finished(f), "FalseSchema", 0)
    BY <1>0, <2>1, <2>2, Pushes
  <2>3. CASE /\ stack' = <<Finished(f)>> \o Tail(stack)
             /\ UNCHANGED <<session, budgets, aborted, report, verdict>>
    BY <1>0, <2>1, <2>3, GoesOn DEF budgets
  <2>. QED
    BY <1>1, <2>2, <2>3 DEF Trivial
<1>2. CASE FollowRef
  <2>1. PICK target : \/ Abort /\ UNCHANGED <<depth, stack>>
                      \/ /\ ~TooDeep /\ depth' = depth + 1
                         /\ stack' = <<[f EXCEPT !.levels = @ + 1, !.schema = target.schema,
                                                 !.root = target.root, !.base = target.base,
                                                 !.policy = target.policy]>> \o Tail(stack)
                         /\ UNCHANGED <<errorsUsed, diagnosticsUsed, aborted, report>>
    BY <1>2 DEF FollowRef
  <2>2. CASE Abort /\ UNCHANGED <<depth, stack>>
    BY <1>2, <2>2, Aborts DEF FollowRef
  <2>3. CASE ~(Abort /\ UNCHANGED <<depth, stack>>)
    <3>1. PICK g : g = [f EXCEPT !.levels = @ + 1, !.schema = target.schema,
                                 !.root = target.root, !.base = target.base,
                                 !.policy = target.policy]
      OBVIOUS
    <3>2. Updated(g, f, 1, 0, g.start) /\ g.start = f.start
      <4>1. Updated(g, f, 1, 0, f.start)
        BY <1>0, <3>1, FrameUpdates
      <4>. QED
        BY <4>1, Zenon DEF Updated
    <3>3. depth + 1 <= validationDepthLimit(Options)
      BY <1>0, <2>1, <2>3 DEF TooDeep
    <3>. QED
      BY <1>2, <2>1, <2>3, <3>1, <3>2, <3>3, GoesOn DEF FollowRef
  <2>. QED
    BY <2>2, <2>3
<1>3. CASE FollowFails
  BY <1>0, <1>3, Fails DEF FollowFails
<1>4. CASE Settle
  <2>1. PICK v, w, x, y : stack' = <<[f EXCEPT !.root = v, !.base = w, !.policy = x,
                                               !.at = "keywords", !.todo = y]>> \o Tail(stack)
    BY <1>4, Zenon DEF Settle
  <2>2. PICK g : g = [f EXCEPT !.root = v, !.base = w, !.policy = x, !.at = "keywords",
                               !.todo = y]
    OBVIOUS
  <2>3. Updated(g, f, 0, 0, g.start) /\ g.start = f.start
    <3>1. Updated(g, f, 0, 0, f.start)
      BY <1>0, <2>2, FrameUpdates
    <3>. QED
      BY <3>1, Zenon DEF Updated
  <2>4. UNCHANGED <<session, depth, errorsUsed, diagnosticsUsed, aborted, report, verdict>>
    BY <1>4 DEF Settle, budgets
  <2>. QED
    BY <2>1, <2>2, <2>3, <2>4, GoesOnHere
<1>. QED
  BY <1>1, <1>2, <1>3, <1>4

\* Steps that call validateCtx.
LEMMA Nests ==
    ASSUME Live, in' = in, Reference \/ ReferenceFails \/ Apply
    PROVE  Kept
<1>. DEFINE f == Head(stack)
<1>0. IsFrame(f) /\ f.at # "enter" /\ depth \in Nat /\ Running("keywords")
  BY RunningHead DEF Reference, ReferenceFails, Apply, Step
<1>1. CASE Reference
  <2>1. PICK target : stack' = <<[Called(f.node, target.schema, target.root, target.base,
                                         f.sink, Options)
                                     EXCEPT !.refs = Len(activeRefs) + 1]>> \o stack
    BY <1>1 DEF Reference
  <2>2. PICK g : g = [Called(f.node, target.schema, target.root, target.base, f.sink, Options)
                         EXCEPT !.refs = Len(activeRefs) + 1]
    OBVIOUS
  <2>3. /\ IsFrame(g) /\ g.sink = f.sink /\ g.entry = depth /\ g.levels = 0
        /\ g.failures = 0 /\ g.start = 0
    BY <1>0, <2>2, CalledIsFrame
  <2>4. Same(Head(f.todo))
    BY <1>1 DEF Reference, Step, Same
  <2>5. UNCHANGED <<session, depth, errorsUsed, diagnosticsUsed, aborted, report, verdict>>
    BY <1>1 DEF Reference
  <2>. QED
    BY <1>0, <2>1, <2>2, <2>3, <2>4, <2>5, Calls
<1>2. CASE ReferenceFails
  BY <1>0, <1>2, Fails DEF ReferenceFails
<1>3. CASE Apply
  <2>1. PICK g : g = Called(step.node, step.schema, session.root, NoUri, SinkOf(step, f), Options)
    OBVIOUS
  <2>2. /\ IsFrame(g) /\ g.sink = SinkOf(step, f) /\ g.entry = depth /\ g.levels = 0
        /\ g.failures = 0 /\ g.start = 0
    BY <1>0, <2>1, CalledIsFrame
  <2>3. stack' = <<g>> \o stack
    BY <1>3, <2>1 DEF Apply
  <2>4. IF Same(Head(f.todo)) THEN g.sink = f.sink ELSE g.sink # "Public"
    BY <2>2 DEF SinkOf, step
  <2>5. UNCHANGED <<session, depth, errorsUsed, diagnosticsUsed, aborted, report, verdict>>
    BY <1>3 DEF Apply, budgets
  <2>. QED
    BY <1>0, <2>2, <2>3, <2>4, <2>5, Calls
<1>. QED
  BY <1>1, <1>2, <1>3

\* Steps that charge work or report a failure.
LEMMA Judges ==
    ASSUME Live, in' = in, Charge \/ Compile \/ Fail \/ Unsatisfied
    PROVE  Kept
<1>. DEFINE f == Head(stack)
<1>0. IsFrame(f) /\ f.at # "enter" /\ ~aborted
  BY RunningHead DEF Charge, Compile, Fail, Unsatisfied, Step, Running
<1>1. Updated(Stepped(f), f, 0, 0, f.start)
  BY <1>0, FrameUpdates DEF Stepped
<1>2. CASE Charge
  BY <1>1, <1>2, Spends DEF Charge
<1>3. CASE Compile
  BY <1>1, <1>3, Spends DEF Compile
<1>4. CASE Fail
  BY <1>0, <1>1, <1>4, Pushes DEF Fail
<1>5. CASE Unsatisfied
  BY <1>0, <1>1, <1>5, Pushes DEF Unsatisfied
<1>. QED
  BY <1>2, <1>3, <1>4, <1>5

\* A turn of equalWithBudget.
LEMMA Compares ==
    ASSUME Live, in' = in, Equal
    PROVE  Kept
<1>. DEFINE f == Head(stack)
<1>0. IsFrame(f) /\ f.at # "enter"
  BY RunningHead DEF Equal, Step
<1>1. PICK n, g : /\ Spend(n, g)
                  /\ \/ g = Stepped(f)
                     \/ g = [Stepped(f) EXCEPT !.hits = 1]
                     \/ \E v : g = [f EXCEPT !.todo = v]
  BY DEF Equal
<1>2. Updated(g, f, 0, 0, f.start)
  <2>1. CASE g = Stepped(f)
    BY <1>0, <2>1, FrameUpdates DEF Stepped
  <2>2. CASE g = [Stepped(f) EXCEPT !.hits = 1]
    BY <1>0, <2>2, FrameUpdates
  <2>3. CASE \E v : g = [f EXCEPT !.todo = v]
    BY <1>0, <2>3, FrameUpdates
  <2>. QED
    BY <1>1, <2>1, <2>2, <2>3
<1>. QED
  BY <1>1, <1>2, Spends

\* Steps that only move on.
LEMMA Moves ==
    ASSUME Live, in' = in, Advance \/ Close \/ Satisfied
    PROVE  Kept
<1>. DEFINE f == Head(stack)
<1>0. IsFrame(f) /\ f.at # "enter" /\ diagnosticsUsed \in Nat
  BY RunningHead DEF Advance, Close, Satisfied, Step
<1>1. CASE Advance
  <2>1. PICK g : g = Advanced(f)
    OBVIOUS
  <2>2. \/ Updated(g, f, 0, 0, f.start)
        \/ Updated(g, f, 0, 0, diagnosticsUsed)
    BY <1>0, <1>1, <2>1, FrameUpdates DEF Advanced, Advance, Step, step, Stepped
  <2>3. Updated(g, f, 0, 0, g.start) /\ g.start \in {f.start, diagnosticsUsed}
    BY <2>2, Zenon DEF Updated
  <2>. QED
    BY <1>1, <2>1, <2>3, GoesOnHere DEF Advance, budgets
<1>2. CASE Close
  <2>1. PICK v : stack' = <<[Stepped(f) EXCEPT !.causes = v]>> \o Tail(stack)
    BY <1>2 DEF Close
  <2>2. PICK g : g = [Stepped(f) EXCEPT !.causes = v]
    OBVIOUS
  <2>3. Updated(g, f, 0, 0, f.start)
    BY <1>0, <2>2, FrameUpdates
  <2>4. Updated(g, f, 0, 0, g.start) /\ g.start = f.start
    BY <2>3, Zenon DEF Updated
  <2>. QED
    BY <1>2, <2>1, <2>2, <2>4, GoesOnHere DEF Close
<1>3. CASE Satisfied
  <2>1. PICK v : stack' = <<[Stepped(f) EXCEPT !.marks = v]>> \o Tail(stack)
    BY <1>3 DEF Satisfied
  <2>2. PICK g : g = [Stepped(f) EXCEPT !.marks = v]
    OBVIOUS
  <2>3. Updated(g, f, 0, 0, f.start)
    BY <1>0, <2>2, FrameUpdates
  <2>4. Updated(g, f, 0, 0, g.start) /\ g.start = f.start
    BY <2>3, Zenon DEF Updated
  <2>. QED
    BY <1>3, <2>1, <2>2, <2>4, GoesOnHere DEF Satisfied, budgets
<1>. QED
  BY <1>1, <1>2, <1>3

\* The end of a call, and the end of the run when memory is short.
LEMMA Finishes ==
    ASSUME Live, in' = in, Conclude \/ Bail \/ OutOfMemory
    PROVE  Kept
<1>1. CASE Conclude
  <2>1. ~aborted
    BY <1>1 DEF Conclude, Running
  <2>2. PICK result \in BOOLEAN : Return(result) /\ (result <=> Head(stack).failures = 0)
    BY <1>1 DEF Conclude
  <2>. QED
    BY <2>1, <2>2, Returns
<1>2. CASE Bail
  BY <1>2, Returns DEF Bail, Bailed
<1>3. CASE OutOfMemory
  <2>1. SessionInv'
    BY <1>3, SessionKept DEF Live, OutOfMemory
  <2>2. Stacked(stack', depth')
    BY <1>3, EmptyStacked DEF OutOfMemory, budgets, Live, RunInv, Stacked
  <2>3. RunInv'
    BY <1>3, <2>2 DEF RunInv, OutOfMemory, budgets, Live
  <2>4. ReportInv'
    BY <1>3 DEF ReportInv, OutOfMemory
  <2>. QED
    BY <2>1, <2>3, <2>4 DEF Kept
<1>. QED
  BY <1>1, <1>2, <1>3

\* Every step of a run.
LEMMA RunGoesOn ==
    ASSUME SessionInv, RunInv, ReportInv, in' = in, EvalNext
    PROVE  Kept /\ verdict = "running" /\ session' = session
<1>1. verdict = "running"
  BY DEF EvalNext, Enter, Trivial, FollowRef, FollowFails, Settle, Reference, ReferenceFails,
         Apply, Charge, Compile, Fail, Equal, Advance, Close, Satisfied, Unsatisfied, Conclude,
         Bail, OutOfMemory, Step, Running
<1>2. Live
  BY <1>1 DEF Live
<1>3. session' = session
  BY DEF EvalNext, Enter, Trivial, FollowRef, FollowFails, Settle, Reference, ReferenceFails,
         Apply, Charge, Compile, Fail, Equal, Advance, Close, Satisfied, Unsatisfied, Conclude,
         Bail, OutOfMemory, Push, RefBudget, RefFails, Spend, Return
<1>. QED
  BY <1>1, <1>2, <1>3, Enters, Follows, Nests, Judges, Compares, Moves, Finishes DEF EvalNext

-----------------------------------------------------------------------------
(* Compilation, and the way from one run to the next.                      *)

\* Every step of the compilation.
LEMMA CompileGoesOn ==
    ASSUME CompileInv, in' = in, CompileNext, UNCHANGED evalVars
    PROVE  CompileInv'
<1>1. verdict' = verdict /\ session' = session
  BY DEF evalVars
<1>2. CASE Contract
  BY <1>1, <1>2 DEF CompileInv, Contract
<1>3. CASE Visit \/ VisitNothing \/ Take
  BY <1>1, <1>3 DEF CompileInv, Visit, VisitNothing, Take
<1>4. CASE Known
  BY <1>1, <1>4 DEF CompileInv, Known
<1>5. CASE Refuse
  BY <1>1, <1>5 DEF CompileInv, Refuse
<1>6. CASE Load
  <2>1. requested # <<>> /\ requested' = <<>> /\ phase' \in {phase, "references"}
    BY <1>6 DEF Load
  <2>. QED
    BY <1>1, <2>1 DEF CompileInv
<1>7. CASE AllLoaded
  BY <1>1, <1>7 DEF CompileInv, AllLoaded
<1>8. CASE CheckReferences
  <2>1. PICK found : /\ schemaErrors' = First(found)
                     /\ phase' = IF HasErrors(found) THEN "refused"
                                 ELSE IF dialect = SubsetDialect THEN "ready" ELSE "meta"
    BY <1>8 DEF CheckReferences
  <2>2. HasErrors(found) => HasErrors(First(found))
    BY DEF HasErrors, First
  <2>. QED
    BY <1>1, <1>8, <2>1, <2>2 DEF CompileInv, CheckReferences, HasErrors
<1>. QED
  BY <1>2, <1>3, <1>4, <1>5, <1>6, <1>7, <1>8 DEF CompileNext

\* Before anything happens.
LEMMA Initially ==
    ASSUME Init
    PROVE  SchemaInv
<1>1. Stacked(stack, depth) /\ IsSequence(report)
  BY EmptyStacked DEF Init, EvalInit, Stacked
<1>2. SessionInv /\ RunInv
  BY <1>1 DEF Init, EvalInit, SessionInv, RunInv
<1>3. Told
  <2>1. limit > 0 /\ limit \in Nat
    BY <1>2, LimitsArePositive
  <2>2. Unspent(stack, diagnosticsUsed)
    BY <1>1, <2>1 DEF Init, EvalInit, Unspent
  <2>. QED
    BY <1>1, <2>2 DEF Init, EvalInit, Told
<1>4. CompileInv
  BY DEF Init, CompileInit, EvalInit, CompileInv
<1>. QED
  BY <1>2, <1>3, <1>4 DEF SchemaInv, ReportInv

\* The meta-schema's verdict, or the lack of one.
LEMMA SchemaJudged ==
    ASSUME SchemaInv, in' = in, MetaSchemaUnavailable \/ SchemaValidated
    PROVE  SchemaInv'
<1>1. /\ UNCHANGED <<session, depth, errorsUsed, diagnosticsUsed, aborted, report, stack, verdict>>
      /\ UNCHANGED requested /\ phase = "meta" /\ verdict # "running"
  BY DEF MetaSchemaUnavailable, SchemaValidated, evalVars, budgets
<1>2. /\ SessionInv' /\ RunInv' /\ ReportInv'
  BY <1>1 DEF SchemaInv, SessionInv, ValidOptions, MetaOptions, RunInv, ReportInv, Told, Unspent,
              limit, Options
<1>3. CompileInv'
  <2>1. CASE MetaSchemaUnavailable
    BY <1>1, <2>1 DEF MetaSchemaUnavailable, CompileInv, SchemaInv, HasErrors
  <2>2. CASE SchemaValidated /\ in.memoryShort = FALSE
    <3>1. SUFFICES ASSUME phase' = "refused" PROVE HasErrors(schemaErrors')
      BY <1>1, <2>2 DEF CompileInv, SchemaInv, SchemaValidated
    <3>2. PICK n : /\ n = IF Len(report) < errorLimit THEN Len(report) ELSE errorLimit
                   /\ schemaErrors' = IF report = <<>> THEN <<"InvalidSchema">>
                                      ELSE First([i \in 1..n |-> report[i].code])
      BY <2>2, <3>1 DEF SchemaValidated
    <3>3. report # <<>> => n \in Nat /\ n > 0
      <4>1. IsSequence(report)
        BY <1>1, <2>2 DEF SchemaInv, CompileInv, ReportInv, Told
      <4>2. errorLimit \in Nat /\ errorLimit > 0
        BY LimitsOf DEF errorLimit, SchemaInv, SessionInv
      <4>3. Len(report) \in Nat /\ (report # <<>> => Len(report) > 0)
        BY <4>1, TailSequence DEF IsSequence
      <4>4. n = Len(report) \/ n = errorLimit
        BY <3>2
      <4>5. Len(report) > 0 /\ Len(report) \in Nat => n \in Nat /\ n > 0
        BY <4>2, <4>4, Zenon
      <4>. QED
        BY <4>3, <4>5
    <3>4. CASE report = <<>>
      BY <3>2, <3>4 DEF HasErrors
    <3>5. CASE report # <<>>
      <4>1. 1 \in 1..n
        BY <3>3, <3>5
      <4>2. PICK codes : codes = [i \in 1..n |-> report[i].code]
        OBVIOUS
      <4>3. DOMAIN codes = 1..n /\ schemaErrors' = First(codes)
        BY <3>2, <3>5, <4>2
      <4>. QED
        BY <4>1, <4>3 DEF First, HasErrors
    <3>. QED
      BY <3>4, <3>5
  <2>3. CASE SchemaValidated /\ in.memoryShort # FALSE
    BY <1>1, <2>3 DEF CompileInv, SchemaInv
  <2>. QED
    BY <2>1, <2>2, <2>3
<1>. QED
  BY <1>2, <1>3 DEF SchemaInv

\* A schema that was refused judges every instance.
LEMMA InstanceRefused ==
    ASSUME SchemaInv, in' = in, Refused
    PROVE  SchemaInv'
<1>1. /\ UNCHANGED <<phase, schemaErrors, requested, depth, errorsUsed, diagnosticsUsed, aborted>>
      /\ UNCHANGED stack /\ verdict' = "invalid" /\ phase = "refused" /\ verdict # "running"
      /\ stack = <<>>
  BY DEF Refused, budgets, compileVars, SchemaInv, CompileInv, RunInv
<1>2. session'.subject = "instance" /\ session'.options = session.options
  BY DEF Refused
<1>3. SessionInv' /\ RunInv'
  BY <1>1, <1>2 DEF SchemaInv, SessionInv, ValidOptions, MetaOptions, RunInv, Options
<1>4. CompileInv'
  BY <1>1, <1>2 DEF SchemaInv, CompileInv
<1>5. ASSUME in.memoryShort = FALSE PROVE Told'
  <2>1. report' # <<>>
    <3>1. DOMAIN report' = DOMAIN schemaErrors
      BY DEF Refused
    <3>2. DOMAIN report' # {}
      BY <1>1, <1>5, <3>1 DEF SchemaInv, CompileInv, HasErrors
    <3>. QED
      BY <3>2
  <2>. QED
    BY <1>1, <1>2, <1>5, <2>1 DEF Told, SchemaInv, ReportInv
<1>. QED
  BY <1>3, <1>4, <1>5 DEF SchemaInv, ReportInv

\* The inductive invariant.
LEMMA SchemaInvIsKept ==
    ASSUME SchemaInv, [Next]_vars
    PROVE  SchemaInv'
<1>1. CASE in' = in /\ CompileNext /\ UNCHANGED evalVars
  <2>1. SessionInv' /\ RunInv' /\ ReportInv'
    BY <1>1 DEF SchemaInv, SessionInv, ValidOptions, MetaOptions, RunInv, ReportInv, Told, Unspent,
                limit, Options, evalVars, budgets
  <2>. QED
    BY <1>1, <2>1, CompileGoesOn DEF SchemaInv
<1>2. CASE in' = in /\ EvalNext /\ UNCHANGED compileVars
  <2>1. Kept /\ verdict = "running" /\ session' = session
    BY <1>2, RunGoesOn DEF SchemaInv
  <2>3. CompileInv'
    BY <1>2, <2>1 DEF SchemaInv, CompileInv, compileVars
  <2>. QED
    BY <2>1, <2>3 DEF SchemaInv, Kept
<1>3. CASE in' = in /\ ValidateSchema
  <2>1. PICK target : Start("schema", target.schema, MetaOptions)
    BY <1>3 DEF ValidateSchema
  <2>2. Kept /\ verdict' = "running" /\ session'.subject = "schema"
    BY <1>3, <2>1, Begins DEF SchemaInv, Start
  <2>. QED
    BY <1>3, <2>2 DEF SchemaInv, Kept, CompileInv, ValidateSchema, compileVars
<1>4. CASE in' = in /\ Validate
  <2>1. Kept /\ verdict' = "running"
    BY <1>4, Begins DEF SchemaInv, Validate
  <2>. QED
    BY <1>4, <2>1 DEF SchemaInv, Kept, CompileInv, Validate, compileVars
<1>5. CASE in' = in /\ (MetaSchemaUnavailable \/ SchemaValidated \/ Refused)
  BY <1>5, SchemaJudged, InstanceRefused
<1>6. CASE UNCHANGED vars
  BY <1>6 DEF vars, compileVars, evalVars, budgets, SchemaInv, SessionInv, ValidOptions, MetaOptions,
              RunInv, ReportInv, Told, Unspent, limit, Options, CompileInv
<1>. QED
  BY <1>1, <1>2, <1>3, <1>4, <1>5, <1>6 DEF Next

-----------------------------------------------------------------------------
(* The documents of the index.                                             *)

\* The limits of the resolver, and the length of what it answers.
LEMMA StockLimits ==
    ASSUME ValidOptions
    PROVE  /\ resolvedDocumentLimit(in.options) \in Nat /\ resolvedByteLimit(in.options) \in Nat
           /\ \A uri : Answer(uri).bytes \in Nat
<1>1. resolvedDocumentLimit(in.options) \in Nat /\ resolvedByteLimit(in.options) \in Nat
  BY DEF ValidOptions, resolvedDocumentLimit, resolvedByteLimit
<1>2. ASSUME NEW uri PROVE Answer(uri).bytes \in Nat
  BY BuiltinsAssumption DEF ValidOptions, IsAnswer, Answer
<1>. QED
  BY <1>1, <1>2

\* A text that is not there yet is appended.
LEMMA AppendedDistinct ==
    ASSUME NEW s, IsSequence(s), Distinct(s), NEW x, x \notin Elements(s)
    PROVE  /\ IsSequence(Append(s, x)) /\ Distinct(Append(s, x))
           /\ Len(s) \in Nat /\ Len(Append(s, x)) = Len(s) + 1
           /\ Elements(Append(s, x)) = Elements(s) \union {x}
<1>. DEFINE S == {s[i] : i \in 1..Len(s)} \union {x}
            r == Append(s, x)
<1>1. s \in Seq(S) /\ x \in S /\ DOMAIN s = 1..Len(s)
  BY DEF IsSequence
<1>2. /\ r \in Seq(S) /\ Len(r) = Len(s) + 1 /\ Len(s) \in Nat
      /\ \A i \in 1..Len(s) : r[i] = s[i]
      /\ r[Len(s) + 1] = x
  BY <1>1, AppendProperties, LenProperties
<1>3. IsSequence(r)
  BY <1>2, SeqIsSequence, Zenon
<1>. HIDE DEF r, S
<1>4. DOMAIN r = 1..(Len(s) + 1)
  BY <1>2, <1>3 DEF IsSequence
<1>5. Distinct(r)
  <2>1. SUFFICES ASSUME NEW i \in DOMAIN r, NEW j \in DOMAIN r, i < j PROVE r[i] # r[j]
    BY DEF Distinct
  <2>2. i \in 1..Len(s) /\ r[i] = s[i]
    BY <1>2, <1>4, <2>1
  <2>3. CASE j \in 1..Len(s)
    BY <1>1, <1>2, <2>1, <2>2, <2>3 DEF Distinct
  <2>4. CASE j = Len(s) + 1
    BY <1>1, <1>2, <2>2, <2>4 DEF Elements
  <2>. QED
    BY <1>2, <1>4, <2>3, <2>4
<1>6. Elements(r) = Elements(s) \union {x}
  BY <1>1, <1>2, <1>4 DEF Elements
<1>. QED
  BY <1>2, <1>3, <1>5, <1>6 DEF r

\* The meta-schema of a dialect is kept once for each text, and charged.
LEMMA DialectLoaded ==
    ASSUME ValidOptions, NEW idx, Stocked(idx), NEW text, NEW errors,
           NEW c, c = loadDialectDocument(text, idx, errors)
    PROVE  DOMAIN c = {"policy", "index", "errors"} /\ Enriched(idx, c.index)
<1>. DEFINE answer == Answer(DialectUri(text))
<1>1. CASE \E p, e : c = ContractOf(p, idx, e)
  BY <1>1 DEF ContractOf, Enriched
<1>2. CASE ~\E p, e : c = ContractOf(p, idx, e)
  <2>1. PICK y : y = [idx EXCEPT !.dialectDocuments = Append(@, text),
                                 !.resolvedBytes = @ + answer.bytes]
    OBVIOUS
  <2>2. /\ c = ContractOf(NoPolicy, y, errors)
        /\ text \notin Elements(idx.dialectDocuments)
        /\ ~(Len(idx.documents) + Len(idx.dialectDocuments) >= resolvedDocumentLimit(in.options))
        /\ answer.kind = "document"
        /\ Fits(answer, idx.resolvedBytes)
    <3>. HIDE DEF answer
    <3>0. answer = Answer(DialectUri(text))
      BY DEF answer
    <3>1. ASSUME NEW e PROVE c # ContractOf(NoPolicy, idx, e)
      BY <1>2
    <3>. QED
      BY <2>1, <3>0, <3>1 DEF loadDialectDocument
  <2>3. /\ DOMAIN y = DOMAIN idx /\ y.documents = idx.documents /\ y.resources = idx.resources
        /\ y.dialectDocuments = Append(idx.dialectDocuments, text)
        /\ y.resolvedBytes = idx.resolvedBytes + answer.bytes
    BY <2>1 DEF Stocked, StockFields
  <2>4. /\ IsSequence(y.dialectDocuments) /\ Distinct(y.dialectDocuments)
        /\ Len(idx.dialectDocuments) \in Nat
        /\ Len(y.dialectDocuments) = Len(idx.dialectDocuments) + 1
    BY <2>2, <2>3, AppendedDistinct DEF Stocked
  <2>5. /\ resolvedDocumentLimit(in.options) \in Nat /\ resolvedByteLimit(in.options) \in Nat
        /\ answer.bytes \in Nat
    BY StockLimits
  <2>. HIDE DEF answer
  <2>6. y.resolvedBytes \in Nat /\ y.resolvedBytes <= resolvedByteLimit(in.options)
    BY <2>2, <2>3, <2>5 DEF Fits, Overruns, Stocked
  <2>7. Len(y.documents) + Len(y.dialectDocuments) <= resolvedDocumentLimit(in.options)
    <3>1. Len(idx.documents) \in Nat /\ Len(y.documents) = Len(idx.documents)
      BY <2>3 DEF Stocked, IsSequence
    <3>2. \A m, n, l \in Nat : ~(m + n >= l) => m + (n + 1) <= l
      OBVIOUS
    <3>. QED
      BY <2>2, <2>4, <2>5, <3>1, <3>2
  <2>8. Enriched(idx, y)
    BY <2>3, <2>4, <2>6, <2>7 DEF Stocked, Enriched
  <2>. QED
    BY <2>2, <2>8 DEF ContractOf
<1>. QED
  BY <1>1, <1>2

\* So a contract leaves the documents as they are.
LEMMA ContractKeeps ==
    ASSUME ValidOptions, NEW idx, Stocked(idx), NEW s, NEW errors
    PROVE  Enriched(idx, compileDialectContract(s, idx, errors).index)
<1>. DEFINE text == DialectOf(s)
            loaded == loadDialectDocument(text, idx, errors)
            c == compileDialectContract(s, idx, errors)
<1>1. Enriched(idx, idx)
  BY DEF Enriched
<1>2. DOMAIN loaded = {"policy", "index", "errors"} /\ Enriched(idx, loaded.index)
  BY DialectLoaded
<1>3. \A declared, x : Declared(declared, x).index = x.index
  BY DEF Declared, ContractOf
<1>4. \A p, e : ContractOf(p, idx, e).index = idx
  BY DEF ContractOf
<1>5. \A e : [loaded EXCEPT !.errors = e].index = loaded.index
  BY <1>2
<1>6. \/ \E p, e : c = ContractOf(p, idx, e)
      \/ \E p, e, declared : c = Declared(declared, ContractOf(p, idx, e))
      \/ c = loaded
      \/ \E e : c = [loaded EXCEPT !.errors = e]
      \/ \E declared : c = Declared(declared, loaded)
  <2>. HIDE DEF loaded
  <2>. QED
    BY DEF compileDialectContract, loaded
<1>. HIDE DEF c, loaded
<1>7. c.index \in {idx, loaded.index}
  <2>1. CASE \E p, e : c = ContractOf(p, idx, e)
    BY <1>4, <2>1
  <2>2. CASE \E p, e, declared : c = Declared(declared, ContractOf(p, idx, e))
    <3>1. PICK p, e, declared : c = Declared(declared, ContractOf(p, idx, e))
      BY <2>2
    <3>2. c.index = ContractOf(p, idx, e).index
      BY <1>3, <3>1
    <3>. QED
      BY <1>4, <3>2
  <2>3. CASE \E e : c = [loaded EXCEPT !.errors = e]
    BY <1>5, <2>3
  <2>4. CASE \E declared : c = Declared(declared, loaded)
    BY <1>3, <2>4
  <2>. QED
    BY <1>6, <2>1, <2>2, <2>3, <2>4
<1>. QED
  BY <1>1, <1>2, <1>7 DEF c

\* A visit adds resources, anchors and nodes.
LEMMA VisitKeeps ==
    ASSUME ValidOptions, Stocked(index), NEW v
    PROVE  Enriched(index, VisitNode(v).index)
<1>1. ASSUME NEW x, NEW y, Stocked(x), DOMAIN y = DOMAIN x,
             y.documents = x.documents, y.dialectDocuments = x.dialectDocuments,
             y.resolvedBytes = x.resolvedBytes, DOMAIN x.resources \subseteq DOMAIN y.resources
      PROVE  Enriched(x, y)
  BY <1>1 DEF Stocked, Enriched
<1>2. ASSUME NEW x, NEW y, NEW z, Enriched(x, y), Enriched(y, z) PROVE Enriched(x, z)
  BY <1>2 DEF Enriched
<1>3. ASSUME NEW idx, Stocked(idx), NEW w, NEW s, NEW target, NEW errors
      PROVE  Enriched(idx, Named(w, s, target, idx, errors).index)
  <2>. DEFINE y == Named(w, s, target, idx, errors).index
  <2>1. \/ y = idx
        \/ \E a : y = [idx EXCEPT !.anchors = a]
        \/ \E a, d, p : y = [idx EXCEPT !.anchors = a, !.dynamicAnchors = d,
                                        !.pendingDocuments = p]
    BY DEF Named, Left
  <2>. HIDE DEF y
  <2>2. /\ DOMAIN y = DOMAIN idx /\ y.documents = idx.documents
        /\ y.dialectDocuments = idx.dialectDocuments /\ y.resolvedBytes = idx.resolvedBytes
        /\ y.resources = idx.resources
    BY <1>3, <2>1 DEF Stocked, StockFields
  <2>. QED
    BY <1>1, <1>3, <2>2 DEF y
<1>4. ASSUME NEW c, Stocked(c.index), NEW w, NEW s, NEW root, NEW base
      PROVE  Enriched(c.index, InResource(w, s, root, base, c).index)
  <2>1. CASE Occupied(c.index, base, root)
    BY <1>4, <2>1 DEF InResource, Left, Enriched
  <2>2. CASE ~Occupied(c.index, base, root)
    <3>1. PICK r, n, y, t : 
             /\ r = IF base = NoUri THEN c.index.resources
                    ELSE Put(c.index.resources, base, Target(root, root, base, c.policy))
             /\ y = [c.index EXCEPT !.resources = r, !.nodeTargets = n]
             /\ t = Named(w, s, Target(w.node, root, base, c.policy), y,
                          validateKeywordShapes(s, in.options, c.errors))
             /\ InResource(w, s, root, base, c) = t
      BY <2>2 DEF InResource
    <3>2. DOMAIN c.index.resources \subseteq DOMAIN r
      BY <3>1 DEF Put
    <3>3. /\ DOMAIN y = DOMAIN c.index /\ y.documents = c.index.documents
          /\ y.dialectDocuments = c.index.dialectDocuments
          /\ y.resolvedBytes = c.index.resolvedBytes /\ y.resources = r
      BY <1>4, <3>1 DEF Stocked, StockFields
    <3>4. Enriched(c.index, y)
      BY <1>1, <1>4, <3>2, <3>3
    <3>5. Enriched(y, t.index)
      <4>1. PICK target, errors : t = Named(w, s, target, y, errors)
        BY <3>1
      <4>2. Stocked(y)
        BY <3>4 DEF Enriched
      <4>3. Enriched(y, Named(w, s, target, y, errors).index)
        BY <1>3, <4>2
      <4>. QED
        BY <4>1, <4>3
    <3>. QED
      BY <1>2, <3>1, <3>4, <3>5
  <2>. QED
    BY <2>1, <2>2
<1>5. ASSUME NEW idx, Stocked(idx), NEW w, NEW s
      PROVE  Enriched(idx, VisitObject(w, s, idx).index)
  <2>1. CASE \E e : VisitObject(w, s, idx) = Left(idx, e, <<>>)
    BY <1>5, <2>1 DEF Left, Enriched
  <2>2. CASE ~\E e : VisitObject(w, s, idx) = Left(idx, e, <<>>)
    <3>1. PICK root, base, c :
             /\ VisitObject(w, s, idx) = InResource(w, s, root, base, c)
             /\ \/ c = compileDialectContract(s, idx, schemaErrors)
                \/ c = ContractOf(w.policy, idx, schemaErrors)
      BY <2>2 DEF VisitObject
    <3>2. Enriched(idx, c.index)
      <4>1. CASE c = compileDialectContract(s, idx, schemaErrors)
        BY <1>5, <4>1, ContractKeeps
      <4>2. CASE c = ContractOf(w.policy, idx, schemaErrors)
        BY <1>5, <4>2 DEF ContractOf, Enriched
      <4>. QED
        BY <3>1, <4>1, <4>2
    <3>3. Enriched(c.index, InResource(w, s, root, base, c).index)
      BY <1>4, <3>2 DEF Enriched
    <3>. QED
      BY <1>2, <3>1, <3>2, <3>3
  <2>. QED
    BY <2>1, <2>2
<1>6. PICK worked : worked = [index EXCEPT !.workUsed = @ + 1]
  OBVIOUS
<1>7. /\ DOMAIN worked = DOMAIN index /\ worked.documents = index.documents
      /\ worked.dialectDocuments = index.dialectDocuments
      /\ worked.resolvedBytes = index.resolvedBytes /\ worked.resources = index.resources
  BY <1>6 DEF Stocked, StockFields
<1>8. Enriched(index, worked) /\ Enriched(index, index)
  BY <1>1, <1>7
<1>9. \/ \E e : VisitNode(v) = Left(index, e, <<>>)
      \/ VisitNode(v) = VisitObject(v, Schema(v.node), worked)
      \/ \E n, e : VisitNode(v) = Left([worked EXCEPT !.nodeTargets = n], e, <<>>)
      \/ \E e : VisitNode(v) = Left(worked, e, <<>>)
  BY <1>6 DEF VisitNode
<1>10. CASE VisitNode(v) = VisitObject(v, Schema(v.node), worked)
  BY <1>2, <1>5, <1>8, <1>10 DEF Enriched
<1>11. CASE \E n, e : VisitNode(v) = Left([worked EXCEPT !.nodeTargets = n], e, <<>>)
  <2>1. PICK n, y : y = [worked EXCEPT !.nodeTargets = n] /\ VisitNode(v).index = y
    BY <1>11 DEF Left
  <2>2. /\ DOMAIN y = DOMAIN worked /\ y.documents = worked.documents
        /\ y.dialectDocuments = worked.dialectDocuments
        /\ y.resolvedBytes = worked.resolvedBytes /\ y.resources = worked.resources
    BY <1>8, <2>1 DEF Enriched, Stocked, StockFields
  <2>3. Enriched(worked, y)
    BY <1>1, <1>8, <2>2 DEF Enriched
  <2>. QED
    BY <1>2, <1>8, <2>1, <2>3
<1>12. CASE \E e : VisitNode(v) \in {Left(index, e, <<>>), Left(worked, e, <<>>)}
  BY <1>8, <1>12 DEF Left
<1>. QED
  BY <1>9, <1>10, <1>11, <1>12

\* The invariant of the next state.
LEMMA StockOf ==
    ASSUME in' = in, NEW docs, NEW dialects, NEW bytes, NEW r,
           StockFields \subseteq DOMAIN index',
           index'.documents = docs, index'.dialectDocuments = dialects,
           index'.resolvedBytes = bytes, index'.resources = r,
           IsSequence(docs), IsSequence(dialects), Distinct(docs), Distinct(dialects),
           Len(docs) + Len(dialects) <= resolvedDocumentLimit(in.options),
           bytes \in Nat, bytes <= resolvedByteLimit(in.options),
           Elements(docs) \subseteq DOMAIN r
    PROVE  StockInv'
<1>1. /\ resolvedDocumentLimit(in.options)' = resolvedDocumentLimit(in.options)
      /\ resolvedByteLimit(in.options)' = resolvedByteLimit(in.options)
  BY DEF resolvedDocumentLimit, resolvedByteLimit
<1>2. /\ IsSequence(index'.documents) /\ IsSequence(index'.dialectDocuments)
      /\ Distinct(index'.documents) /\ Distinct(index'.dialectDocuments)
      /\ Len(index'.documents) + Len(index'.dialectDocuments) <= resolvedDocumentLimit(in.options)
      /\ index'.resolvedBytes \in Nat /\ index'.resolvedBytes <= resolvedByteLimit(in.options)
      /\ Elements(index'.documents) \subseteq DOMAIN index'.resources
  OBVIOUS
<1>3. Stocked(index)'
  BY <1>1, <1>2, SMT DEF Stocked, StockFields
<1>. QED
  BY <1>2, <1>3, SMT DEF StockInv

\* A document is copied below the limit, and kept only when it is compiled.
LEMMA LoadKeeps ==
    ASSUME ValidOptions, StockInv, in' = in, Load
    PROVE  StockInv'
<1>. DEFINE uri == requested[1]
            adopted == Adopted(uri, index)
            root == <<uri, <<>>>>
            answer == Answer(uri)
<1>1. uri \notin DOMAIN index.resources /\ Refusal(uri) = "none"
  BY DEF Load
<1>2. PICK taken : taken = IF adopted THEN index
                           ELSE [index EXCEPT !.documents = Append(@, uri)]
  OBVIOUS
<1>3. PICK c : /\ c = compileDialectContract(answer.value, taken, schemaErrors)
               /\ \/ index' = Failed(uri, [c.index EXCEPT !.documents = index.documents])
                  \/ /\ adopted \/ Fits(answer, c.index.resolvedBytes)
                     /\ index' = [c.index EXCEPT
                            !.resources = Put(@, uri, Target(root, root, uri, c.policy)),
                            !.resolvedBytes = @ + IF adopted THEN 0 ELSE answer.bytes]
  BY <1>2 DEF Load, Fits
<1>4. /\ resolvedDocumentLimit(in.options) \in Nat /\ resolvedByteLimit(in.options) \in Nat
      /\ answer.bytes \in Nat
  BY StockLimits
<1>5. Stocked(index) /\ Elements(index.documents) \subseteq DOMAIN index.resources
  BY DEF StockInv
<1>. HIDE DEF answer, root
<1>6. /\ Stocked(taken) /\ taken.resources = index.resources
      /\ Elements(taken.documents) \subseteq Elements(index.documents) \union {uri}
      /\ Len(index.documents) <= Len(taken.documents)
  <2>1. CASE adopted
    <3>1. taken = index
      BY <1>2, <2>1
    <3>2. Len(index.documents) \in Nat
      BY <1>5 DEF Stocked, IsSequence
    <3>. QED
      BY <1>5, <3>1, <3>2
  <2>2. CASE ~adopted
    <3>1. ~(Len(index.documents) + Len(index.dialectDocuments) >= resolvedDocumentLimit(in.options))
      BY <1>1, <2>2, Zenon DEF Refusal
    <3>2. /\ DOMAIN taken = DOMAIN index /\ taken.documents = Append(index.documents, uri)
          /\ taken.dialectDocuments = index.dialectDocuments
          /\ taken.resolvedBytes = index.resolvedBytes /\ taken.resources = index.resources
      BY <1>2, <1>5, <2>2 DEF Stocked, StockFields
    <3>3. uri \notin Elements(index.documents)
      BY <1>1, <1>5
    <3>4. /\ IsSequence(taken.documents) /\ Distinct(taken.documents)
          /\ Len(index.documents) \in Nat /\ Len(taken.documents) = Len(index.documents) + 1
          /\ Elements(taken.documents) = Elements(index.documents) \union {uri}
      BY <1>5, <3>2, <3>3, AppendedDistinct DEF Stocked
    <3>5. Len(taken.documents) + Len(taken.dialectDocuments) <= resolvedDocumentLimit(in.options)
      <4>1. Len(index.dialectDocuments) \in Nat
        BY <1>5 DEF Stocked, IsSequence
      <4>2. \A m, n, l \in Nat : ~(m + n >= l) => (m + 1) + n <= l
        OBVIOUS
      <4>. QED
        BY <1>4, <3>1, <3>2, <3>4, <4>1, <4>2
    <3>6. Stocked(taken)
      BY <1>5, <3>2, <3>4, <3>5 DEF Stocked
    <3>. QED
      BY <3>2, <3>4, <3>6
  <2>. QED
    BY <2>1, <2>2
<1>. HIDE DEF uri, adopted
<1>7. /\ Stocked(c.index) /\ c.index.documents = taken.documents
      /\ DOMAIN index.resources \subseteq DOMAIN c.index.resources
  BY <1>3, <1>6, ContractKeeps DEF Enriched
<1>8. CASE index' = Failed(uri, [c.index EXCEPT !.documents = index.documents])
  <2>1. PICK f : index' = [[c.index EXCEPT !.documents = index.documents] EXCEPT
                             !.failedDocuments = f]
    BY <1>8 DEF Failed
  <2>2. /\ DOMAIN index' = DOMAIN c.index /\ index'.documents = index.documents
        /\ index'.dialectDocuments = c.index.dialectDocuments
        /\ index'.resolvedBytes = c.index.resolvedBytes
        /\ index'.resources = c.index.resources
    BY <1>7, <2>1 DEF Stocked, StockFields
  <2>3. Len(index.documents) + Len(c.index.dialectDocuments) <= resolvedDocumentLimit(in.options)
    <3>1. /\ Len(index.documents) \in Nat /\ Len(c.index.documents) \in Nat
          /\ Len(c.index.dialectDocuments) \in Nat
      BY <1>5, <1>7 DEF Stocked, IsSequence
    <3>2. Len(index.documents) <= Len(c.index.documents)
      BY <1>6, <1>7
    <3>3. Len(c.index.documents) + Len(c.index.dialectDocuments) <= resolvedDocumentLimit(in.options)
      BY <1>7 DEF Stocked
    <3>4. \A k, m, n, l \in Nat : k <= m /\ m + n <= l => k + n <= l
      OBVIOUS
    <3>. QED
      BY <1>4, <3>1, <3>2, <3>3, <3>4
  <2>4. /\ IsSequence(index.documents) /\ Distinct(index.documents)
        /\ IsSequence(c.index.dialectDocuments) /\ Distinct(c.index.dialectDocuments)
        /\ c.index.resolvedBytes \in Nat /\ c.index.resolvedBytes <= resolvedByteLimit(in.options)
        /\ StockFields \subseteq DOMAIN c.index
    BY <1>5, <1>7 DEF Stocked
  <2>5. Elements(index.documents) \subseteq DOMAIN c.index.resources
    BY <1>5, <1>7
  <2>6. StockFields \subseteq DOMAIN index'
    BY <2>2, <2>4
  <2>. QED
    BY <2>2, <2>3, <2>4, <2>5, <2>6, StockOf
<1>9. CASE ~(index' = Failed(uri, [c.index EXCEPT !.documents = index.documents]))
  <2>1. PICK r, b : /\ r = Put(c.index.resources, uri, Target(root, root, uri, c.policy))
                    /\ b = c.index.resolvedBytes + IF adopted THEN 0 ELSE answer.bytes
                    /\ adopted \/ Fits(answer, c.index.resolvedBytes)
                    /\ index' = [c.index EXCEPT !.resources = r, !.resolvedBytes = b]
    BY <1>3, <1>9 DEF uri, adopted
  <2>2. /\ DOMAIN index' = DOMAIN c.index /\ index'.documents = c.index.documents
        /\ index'.dialectDocuments = c.index.dialectDocuments
        /\ index'.resolvedBytes = b /\ index'.resources = r
    BY <1>7, <2>1 DEF Stocked, StockFields
  <2>3. DOMAIN r = DOMAIN c.index.resources \union {uri}
    BY <2>1 DEF Put
  <2>4. b \in Nat /\ b <= resolvedByteLimit(in.options)
    BY <1>4, <1>7, <2>1 DEF Stocked, Fits, Overruns
  <2>5. /\ IsSequence(c.index.documents) /\ Distinct(c.index.documents)
        /\ IsSequence(c.index.dialectDocuments) /\ Distinct(c.index.dialectDocuments)
        /\ Len(c.index.documents) + Len(c.index.dialectDocuments) <=
              resolvedDocumentLimit(in.options)
        /\ StockFields \subseteq DOMAIN c.index
    BY <1>7 DEF Stocked
  <2>6. Elements(c.index.documents) \subseteq DOMAIN r
    BY <1>5, <1>6, <1>7, <2>3
  <2>7. StockFields \subseteq DOMAIN index'
    BY <2>2, <2>5
  <2>. QED
    BY <2>2, <2>4, <2>5, <2>6, <2>7, StockOf
<1>. QED
  BY <1>8, <1>9

\* The stock of the index, in a step.
LEMMA StockKept ==
    ASSUME ValidOptions, StockInv, in' = in, CompileNext
    PROVE  StockInv'
<1>1. ASSUME NEW x, Enriched(index, x), DOMAIN index' = DOMAIN x,
             index'.documents = x.documents, index'.dialectDocuments = x.dialectDocuments,
             index'.resolvedBytes = x.resolvedBytes,
             DOMAIN x.resources \subseteq DOMAIN index'.resources
      PROVE  StockInv'
  <2>1. /\ IsSequence(x.documents) /\ Distinct(x.documents)
        /\ IsSequence(x.dialectDocuments) /\ Distinct(x.dialectDocuments)
        /\ Len(x.documents) + Len(x.dialectDocuments) <= resolvedDocumentLimit(in.options)
        /\ x.resolvedBytes \in Nat /\ x.resolvedBytes <= resolvedByteLimit(in.options)
        /\ StockFields \subseteq DOMAIN x
    BY <1>1 DEF Enriched, Stocked
  <2>2. Elements(x.documents) \subseteq DOMAIN index'.resources
    BY <1>1 DEF Enriched, StockInv
  <2>3. PICK r : r = index'.resources
    OBVIOUS
  <2>. QED
    BY <1>1, <2>1, <2>2, <2>3, StockOf
<1>2. ASSUME NEW x, Enriched(index, x), index' = x PROVE StockInv'
  BY <1>1, <1>2
<1>3. Stocked(index) /\ Enriched(index, index)
  BY DEF StockInv, Enriched
<1>4. CASE UNCHANGED index
  BY <1>2, <1>3, <1>4
<1>5. CASE Visit
  <2>1. index' = VisitNode(Head(visits)).index
    BY <1>5 DEF Visit
  <2>2. Enriched(index, VisitNode(Head(visits)).index)
    BY <1>3, VisitKeeps
  <2>. QED
    BY <1>2, <2>1, <2>2
<1>6. CASE Contract
  <2>. DEFINE base == in.options.retrievalUri
              root == <<RootDocument, <<>>>>
              pending(c) == IF dialect' = SubsetDialect THEN c.index.pendingDocuments
                            ELSE c.index.pendingDocuments \union {DialectUri(dialect')}
              put(c) == Put(c.index.resources, base, Target(root, root, base, c.policy))
  <2>1. PICK c \in {compileDialectContract(in.schema, index, schemaErrors)} :
           \/ index' = c.index
           \/ index' = [c.index EXCEPT !.resources = put(c), !.pendingDocuments = pending(c)]
    BY <1>6, Zenon DEF Contract
  <2>2. Enriched(index, c.index)
    <3>1. Enriched(index, compileDialectContract(in.schema, index, schemaErrors).index)
      BY <1>3, ContractKeeps
    <3>. QED
      BY <2>1, <3>1
  <2>3. CASE index' = c.index
    BY <1>2, <2>2, <2>3
  <2>4. CASE index' # c.index
    <3>1. PICK p, r : /\ r = put(c)
                      /\ index' = [c.index EXCEPT !.resources = r, !.pendingDocuments = p]
      BY <2>1, <2>4, Zenon
    <3>2. DOMAIN c.index.resources \subseteq DOMAIN r
      BY <3>1 DEF Put
    <3>3. /\ DOMAIN index' = DOMAIN c.index /\ index'.documents = c.index.documents
          /\ index'.dialectDocuments = c.index.dialectDocuments
          /\ index'.resolvedBytes = c.index.resolvedBytes /\ index'.resources = r
      BY <2>2, <3>1 DEF Enriched, Stocked, StockFields
    <3>. QED
      BY <1>1, <2>2, <3>2, <3>3
  <2>. QED
    BY <2>3, <2>4
<1>7. CASE Take \/ Refuse
  <2>1. PICK p, f : \/ index' = [index EXCEPT !.pendingDocuments = p]
                    \/ index' = [index EXCEPT !.failedDocuments = f]
    BY <1>7 DEF Take, Taken, Refuse, Failed
  <2>2. /\ DOMAIN index' = DOMAIN index /\ index'.documents = index.documents
        /\ index'.dialectDocuments = index.dialectDocuments
        /\ index'.resolvedBytes = index.resolvedBytes /\ index'.resources = index.resources
    BY <1>3, <2>1 DEF Stocked, StockFields
  <2>. QED
    BY <1>1, <1>3, <2>2
<1>8. CASE Load
  BY <1>8, LoadKeeps
<1>. QED
  BY <1>4, <1>5, <1>6, <1>7, <1>8
     DEF CompileNext, VisitNothing, Known, AllLoaded, CheckReferences

-----------------------------------------------------------------------------
(* Paths.                                                                  *)

\* What holds at 0 and is passed on holds up to n.
LEMMA Climb ==
    ASSUME NEW n \in Nat, NEW S, 0 \in S, \A k \in 0..n : k \in S /\ k < n => k + 1 \in S
    PROVE  \A k \in 0..n : k \in S
<1>. DEFINE T == {k \in 0..n : k \notin S}
<1>. SUFFICES ASSUME T # {} PROVE FALSE
  OBVIOUS
<1>1. T \in SUBSET Nat
  OBVIOUS
<1>2. PICK x \in T : \A y \in T : ~(y < x)
  <2>. DEFINE R == {ss \in Nat \X Nat : ss[1] < ss[2]}
  <2>1. IsWellFoundedOn(R, Nat)
    BY NatLessThanWellFounded, Zenon DEF OpToRel
  <2>. HIDE DEF R
  <2>2. PICK x \in T : \A y \in T : ~(<<y, x>> \in R)
    BY <1>1, <2>1, WFMin, Zenon
  <2>. QED
    BY <1>1, <2>2 DEF R
<1>3. x \in 0..n /\ x # 0 /\ x \notin S
  BY <1>2
<1>4. x - 1 \in 0..n /\ x - 1 < n /\ x - 1 + 1 = x /\ x - 1 < x
  BY <1>3
<1>5. x - 1 \notin T
  BY <1>2, <1>4
<1>. QED
  BY <1>3, <1>4, <1>5

\* The values passed on the way along path p from x.
Way(w, x, p, n) == w = [k \in 0..n |-> IF k = 0 THEN x ELSE Child(w[k - 1], p[k])]

\* A way at its ends.
LEMMA WayIs ==
    ASSUME NEW w, NEW x, NEW p, NEW n \in Nat, Way(w, x, p, n)
    PROVE  /\ w[0] = x
           /\ \A k \in 0..n : k < n => w[k + 1] = Child(w[k], p[k + 1])
<1>1. w[0] = x
  <2>1. 0 \in 0..n
    OBVIOUS
  <2>. QED
    BY <2>1, Zenon DEF Way
<1>2. ASSUME NEW k \in 0..n, k < n PROVE w[k + 1] = Child(w[k], p[k + 1])
  <2>1. PICK i \in 0..n : i = k + 1 /\ i # 0 /\ i - 1 = k
    BY <1>2
  <2>2. w[i] = Child(w[i - 1], p[i])
    BY <2>1, Zenon DEF Way
  <2>. QED
    BY <2>1, <2>2, Zenon
<1>. QED
  BY <1>1, <1>2

\* What is passed step by step is a way.
LEMMA IsWay ==
    ASSUME NEW w, NEW x, NEW p, NEW n \in Nat, w = [k \in 0..n |-> w[k]], w[0] = x,
           \A k \in 1..n : w[k] = Child(w[k - 1], p[k])
    PROVE  Way(w, x, p, n)
<1>1. ASSUME NEW k \in 0..n PROVE w[k] = IF k = 0 THEN x ELSE Child(w[k - 1], p[k])
  <2>1. k # 0 => k \in 1..n
    OBVIOUS
  <2>. QED
    BY <2>1, Zenon
<1>2. w = [k \in 0..n |-> IF k = 0 THEN x ELSE Child(w[k - 1], p[k])]
  <2>. DEFINE e(k) == IF k = 0 THEN x ELSE Child(w[k - 1], p[k])
  <2>1. \A k \in 0..n : w[k] = e(k)
    BY <1>1
  <2>. HIDE DEF e
  <2>2. w = [k \in 0..n |-> e(k)]
    BY <2>1
  <2>. QED
    BY <2>2 DEF e
<1>. QED
  BY <1>2 DEF Way

\* There is a way down every path.
LEMMA WaysExist ==
    ASSUME NEW x, NEW p, NEW n \in Nat
    PROVE  \E w : Way(w, x, p, n)
<1>. DEFINE S == {k \in Nat : \E w : Way(w, x, p, k)}
<1>1. 0 \in S
  <2>1. PICK w : w = [k \in 0..0 |-> x]
    OBVIOUS
  <2>2. w = [k \in 0..0 |-> w[k]] /\ w[0] = x
    BY <2>1
  <2>3. Way(w, x, p, 0)
    <3>1. \A k \in 1..0 : w[k] = Child(w[k - 1], p[k])
      OBVIOUS
    <3>2. 0 \in Nat
      OBVIOUS
    <3>. QED
      BY ONLY <2>2, <3>1, <3>2, IsWay, Zenon
  <2>. QED
    BY <2>3
<1>2. ASSUME NEW k \in 0..n, k \in S, k < n PROVE k + 1 \in S
  <2>1. PICK w : Way(w, x, p, k)
    BY <1>2
  <2>2. w[0] = x /\ \A i \in 0..k : i < k => w[i + 1] = Child(w[i], p[i + 1])
    BY <2>1, WayIs
  <2>3. PICK m \in Nat : m = k + 1 /\ m - 1 = k
    OBVIOUS
  <2>4. PICK y : y = Child(w[k], p[m])
    OBVIOUS
  <2>5. PICK u : u = [i \in 0..m |-> IF i = m THEN y ELSE w[i]]
    OBVIOUS
  <2>6. u = [i \in 0..m |-> u[i]] /\ u[0] = x
    BY <2>2, <2>3, <2>5
  <2>7. ASSUME NEW i \in 1..m PROVE u[i] = Child(u[i - 1], p[i])
    <3>1. CASE i = m
      BY <2>3, <2>4, <2>5, <3>1
    <3>2. CASE i # m
      <4>1. PICK j \in 0..k : j < k /\ j + 1 = i /\ i - 1 = j
        BY <2>3, <2>7, <3>2
      <4>2. w[i] = Child(w[j], p[i])
        BY <2>2, <4>1
      <4>3. u[i] = w[i] /\ u[j] = w[j]
        BY <2>3, <2>5, <3>2, <4>1
      <4>. QED
        BY <4>1, <4>2, <4>3
    <3>. QED
      BY <3>1, <3>2
  <2>8. Way(u, x, p, m)
    BY <2>6, <2>7, IsWay
  <2>. QED
    BY <2>3, <2>8
<1>3. \A k \in 0..n : k \in S
  <2>. HIDE DEF S
  <2>. QED
    BY <1>1, <1>2, Climb
<1>. QED
  BY <1>3

\* Two ways that start at one value and take the same steps.
LEMMA WaysAgree ==
    ASSUME NEW n \in Nat, NEW w, NEW x, NEW p, Way(w, x, p, n),
           NEW m \in Nat, NEW u, NEW q, Way(u, w[m], q, n - m), m <= n,
           \A i \in 1..(n - m) : q[i] = p[m + i]
    PROVE  u[n - m] = w[n]
<1>. DEFINE S == {k \in 0..(n - m) : u[k] = w[m + k]}
<1>1. n - m \in Nat
  OBVIOUS
<1>2. /\ \A k \in 0..n : k < n => w[k + 1] = Child(w[k], p[k + 1])
      /\ u[0] = w[m]
      /\ \A k \in 0..(n - m) : k < n - m => u[k + 1] = Child(u[k], q[k + 1])
  BY <1>1, WayIs
<1>3. 0 \in S
  BY <1>1, <1>2
<1>4. ASSUME NEW k \in 0..(n - m), k \in S, k < n - m PROVE k + 1 \in S
  <2>1. PICK j \in 0..n : j = m + k /\ j < n /\ j + 1 = m + (k + 1)
    BY <1>4
  <2>2. w[j + 1] = Child(w[j], p[j + 1])
    BY <1>2, <2>1
  <2>3. u[k + 1] = Child(u[k], q[k + 1])
    BY <1>2, <1>4
  <2>4. k + 1 \in 1..(n - m) /\ q[k + 1] = p[m + (k + 1)]
    BY <1>4
  <2>5. u[k] = w[j]
    BY <1>4, <2>1
  <2>. QED
    BY <2>1, <2>2, <2>3, <2>4, <2>5
<1>5. \A k \in 0..(n - m) : k \in S
  <2>. HIDE DEF S
  <2>. QED
    BY <1>1, <1>3, <1>4, Climb
<1>6. n - m \in S /\ m + (n - m) = n
  BY <1>1, <1>5
<1>. QED
  BY <1>6

\* The value at the end of a path.
LEMMA AtIs ==
    ASSUME NEW x, NEW p, Len(p) \in Nat, NEW w, Way(w, x, p, Len(p))
    PROVE  At(x, p) = w[Len(p)]
<1>. DEFINE n == Len(p)
            u == CHOOSE u : u = [k \in 0..n |-> IF k = 0 THEN x ELSE Child(u[k - 1], p[k])]
<1>1. At(x, p) = u[n]
  BY DEF At
<1>2. Way(u, x, p, n)
  BY Zenon DEF Way
<1>. HIDE DEF u
<1>3. n \in Nat /\ n - 0 = n /\ u[0] = x /\ w[0] = x
  BY <1>2, WayIs
<1>. HIDE DEF n
<1>4. Way(w, u[0], p, n - 0) /\ \A i \in 1..(n - 0) : p[i] = p[0 + i]
  BY <1>3 DEF n
<1>5. w[n - 0] = u[n]
  BY <1>2, <1>3, <1>4, WaysAgree
<1>. QED
  BY <1>1, <1>3, <1>5 DEF n

\* The empty path leads nowhere else.
LEMMA AtRoot == ASSUME NEW x PROVE At(x, <<>>) = x
<1>1. PICK w : Way(w, x, <<>>, 0)
  BY WaysExist
<1>2. w[0] = x /\ Len(<<>>) = 0
  BY <1>1, WayIs
<1>. QED
  BY <1>1, <1>2, AtIs

\* A path that goes on.
LEMMA AtConcat ==
    ASSUME NEW x, NEW S, NEW p \in Seq(S), NEW q \in Seq(S)
    PROVE  At(x, p \o q) = At(At(x, p), q)
<1>. DEFINE r == p \o q
            m == Len(p)
            l == Len(q)
            n == Len(r)
<1>1. /\ r \in Seq(S) /\ m \in Nat /\ l \in Nat /\ n \in Nat /\ n = m + l
      /\ \A i \in 1..(m + l) : r[i] = IF i <= m THEN p[i] ELSE q[i - m]
  BY ConcatProperties
<1>2. PICK w : Way(w, x, r, n)
  BY <1>1, WaysExist
<1>3. PICK v : Way(v, x, p, m)
  BY <1>1, WaysExist
<1>4. PICK u : Way(u, v[m], q, l)
  BY <1>1, WaysExist
<1>5. At(x, r) = w[n] /\ At(x, p) = v[m] /\ At(v[m], q) = u[l]
  BY <1>1, <1>2, <1>3, <1>4, AtIs
<1>. HIDE DEF m, l, n, r
<1>6. v[m] = w[m]
  <2>1. PICK k \in Nat : k = m - 0 /\ k = m
    BY <1>1
  <2>2. v[0] = x /\ w[0] = x
    BY <1>1, <1>2, <1>3, WayIs
  <2>. DEFINE T == {i \in 0..m : v[i] = w[i]}
  <2>3. /\ \A i \in 0..m : i < m => v[i + 1] = Child(v[i], p[i + 1])
        /\ \A i \in 0..n : i < n => w[i + 1] = Child(w[i], r[i + 1])
    BY <1>1, <1>2, <1>3, WayIs
  <2>4. 0 \in T
    BY <1>1, <2>2
  <2>5. ASSUME NEW i \in 0..m, i \in T, i < m PROVE i + 1 \in T
    <3>1. i \in 0..n /\ i < n /\ i + 1 \in 1..(m + l) /\ i + 1 <= m
      BY <1>1, <2>5
    <3>2. r[i + 1] = p[i + 1]
      BY <1>1, <3>1
    <3>3. v[i + 1] = Child(v[i], p[i + 1]) /\ w[i + 1] = Child(w[i], r[i + 1])
      BY <2>3, <2>5, <3>1
    <3>. QED
      BY <1>1, <2>5, <3>2, <3>3
  <2>6. \A i \in 0..m : i \in T
    <3>. HIDE DEF T
    <3>. QED
      BY <1>1, <2>4, <2>5, Climb
  <2>. QED
    BY <1>1, <2>6
<1>7. u[l] = w[n]
  <2>1. n - m = l /\ m <= n
    BY <1>1
  <2>2. Way(u, w[m], q, n - m)
    BY <1>4, <1>6, <2>1
  <2>3. ASSUME NEW i \in 1..(n - m) PROVE q[i] = r[m + i]
    <3>1. PICK j \in 1..(m + l) : j = m + i /\ ~(j <= m) /\ j - m = i
      BY <1>1, <2>1, <2>3
    <3>. QED
      BY <1>1, <3>1
  <2>4. u[n - m] = w[n]
    <3>1. m \in Nat /\ n \in Nat /\ \A i \in 1..(n - m) : q[i] = r[m + i]
      BY <1>1, <2>3
    <3>. QED
      BY ONLY <1>2, <2>1, <2>2, <3>1, WaysAgree
  <2>. QED
    BY <2>1, <2>4
<1>. QED
  BY <1>5, <1>6, <1>7 DEF r, m, l, n

\* A path of one step, and of two.
LEMMA AtStep ==
    ASSUME NEW x, NEW S, NEW k \in S
    PROVE  At(x, <<k>>) = Child(x, k)
<1>0. Len(<<k>>) = 1 /\ <<k>>[1] = k
  OBVIOUS
<1>1. PICK p : p = <<k>> /\ Len(p) = 1 /\ p[1] = k
  BY <1>0, Zenon
<1>2. PICK w : Way(w, x, p, 1)
  BY WaysExist
<1>3. w[0] = x /\ \A i \in 0..1 : i < 1 => w[i + 1] = Child(w[i], p[i + 1])
  BY <1>2, WayIs
<1>4. w[1] = Child(w[0], p[1])
  <2>1. 0 \in 0..1 /\ 0 < 1 /\ 0 + 1 = 1
    OBVIOUS
  <2>. QED
    BY <1>3, <2>1
<1>5. At(x, p) = w[1]
  BY <1>1, <1>2, AtIs
<1>. QED
  BY <1>1, <1>3, <1>4, <1>5

\* A path of two steps.
LEMMA AtSteps ==
    ASSUME NEW x, NEW S, NEW k \in S, NEW l \in S
    PROVE  At(x, <<k, l>>) = Child(Child(x, k), l)
<1>1. <<k>> \in Seq(S) /\ <<l>> \in Seq(S) /\ <<k>> \o <<l>> = <<k, l>>
  <2>1. /\ <<k>> \in Seq(S) /\ Len(<<k>>) = 1 /\ <<k>>[1] = k
        /\ <<l>> \in Seq(S) /\ Len(<<l>>) = 1 /\ <<l>>[1] = l
        /\ <<k, l>> \in Seq(S) /\ Len(<<k, l>>) = 2
        /\ <<k, l>>[1] = k /\ <<k, l>>[2] = l
    OBVIOUS
  <2>2. PICK r : r = <<k>> \o <<l>>
    OBVIOUS
  <2>3. /\ r \in Seq(S) /\ Len(r) = 2
        /\ \A i \in 1..2 : r[i] = IF i <= 1 THEN <<k>>[i] ELSE <<l>>[i - 1]
    BY <2>1, <2>2, ConcatProperties
  <2>4. r[1] = k /\ r[2] = l
    BY <2>1, <2>3
  <2>5. \A i \in 1..2 : r[i] = <<k, l>>[i]
    BY <2>1, <2>4
  <2>6. r = <<k, l>>
    BY <2>1, <2>3, <2>5, SeqEqual
  <2>. QED
    BY <2>1, <2>2, <2>6
<1>2. At(x, <<k, l>>) = At(At(x, <<k>>), <<l>>)
  <2>1. PICK p \in Seq(S), q \in Seq(S) : p = <<k>> /\ q = <<l>>
    BY <1>1, Zenon
  <2>2. At(x, p \o q) = At(At(x, p), q)
    BY ONLY AtConcat, p \in Seq(S), q \in Seq(S)
  <2>. QED
    BY <1>1, <2>1, <2>2, Zenon
<1>. QED
  BY <1>2, AtStep

-----------------------------------------------------------------------------
(* Sequences joined.                                                       *)

\* Sequence r is s and then t.
Joins(s, t, r) ==
    /\ IsSequence(r) /\ Len(s) \in Nat /\ Len(t) \in Nat /\ Len(r) = Len(s) + Len(t)
    /\ \A i \in 1..Len(s) : r[i] = s[i]
    /\ \A i \in 1..Len(r) :
          i \in 1..Len(s) \/ (i - Len(s) \in 1..Len(t) /\ r[i] = t[i - Len(s)])
    /\ Elements(r) = Elements(s) \union Elements(t)

\* Two sequences joined.
LEMMA ConcatIs ==
    ASSUME NEW s, IsSequence(s), NEW t, IsSequence(t)
    PROVE  Joins(s, t, s \o t)
<1>0. PICK r : r = s \o t
  OBVIOUS
<1>. DEFINE A == {s[i] : i \in 1..Len(s)}
            B == {t[i] : i \in 1..Len(t)}
            S == A \union B
<1>1. s \in Seq(S) /\ t \in Seq(S)
  <2>1. s \in Seq(A) /\ t \in Seq(B)
    BY SequenceIsSeq
  <2>. HIDE DEF A, B
  <2>2. A \subseteq S /\ B \subseteq S
    OBVIOUS
  <2>. HIDE DEF S
  <2>. QED
    BY <2>1, <2>2, SeqMonotonic, Zenon
<1>2. /\ r \in Seq(S) /\ Len(r) = Len(s) + Len(t) /\ Len(s) \in Nat /\ Len(t) \in Nat
      /\ \A i \in 1..(Len(s) + Len(t)) : r[i] = IF i <= Len(s) THEN s[i] ELSE t[i - Len(s)]
  BY <1>0, <1>1, ConcatProperties, LenProperties
<1>. HIDE DEF S
<1>3. IsSequence(r)
  BY <1>2, SeqIsSequence, Zenon
<1>4. \A i \in 1..Len(s) : r[i] = s[i]
  BY <1>2
<1>5. ASSUME NEW i \in 1..Len(r), i \notin 1..Len(s)
      PROVE  i - Len(s) \in 1..Len(t) /\ r[i] = t[i - Len(s)]
  <2>1. i \in 1..(Len(s) + Len(t)) /\ ~(i <= Len(s)) /\ i - Len(s) \in 1..Len(t)
    BY <1>2, <1>5
  <2>. QED
    BY <1>2, <2>1
<1>6. DOMAIN s = 1..Len(s) /\ DOMAIN t = 1..Len(t) /\ DOMAIN r = 1..Len(r)
  BY <1>3 DEF IsSequence
<1>7. Elements(r) = Elements(s) \union Elements(t)
  <2>1. ASSUME NEW x \in Elements(r) PROVE x \in Elements(s) \union Elements(t)
    <3>1. PICK i \in 1..Len(r) : x = r[i]
      BY <1>6 DEF Elements
    <3>. QED
      BY <1>4, <1>5, <1>6, <3>1 DEF Elements
  <2>2. ASSUME NEW x \in Elements(s) PROVE x \in Elements(r)
    <3>1. PICK i \in 1..Len(s) : x = s[i]
      BY <1>6 DEF Elements
    <3>2. i \in 1..Len(r)
      BY <1>2
    <3>. QED
      BY <1>4, <1>6, <3>1, <3>2 DEF Elements
  <2>3. ASSUME NEW x \in Elements(t) PROVE x \in Elements(r)
    <3>1. PICK i \in 1..Len(t) : x = t[i]
      BY <1>6 DEF Elements
    <3>2. PICK j \in 1..Len(r) : j = Len(s) + i
      BY <1>2
    <3>3. ~(j <= Len(s)) /\ j - Len(s) = i
      BY <1>2, <3>2
    <3>4. r[j] = t[i]
      BY <1>2, <3>3
    <3>. QED
      BY <1>6, <3>1, <3>4 DEF Elements
  <2>. QED
    BY <2>1, <2>2, <2>3
<1>8. \A i \in 1..Len(r) :
         i \in 1..Len(s) \/ (i - Len(s) \in 1..Len(t) /\ r[i] = t[i - Len(s)])
  BY <1>5, Zenon
<1>9. Joins(s, t, r)
  BY <1>2, <1>3, <1>4, <1>7, <1>8 DEF Joins
<1>. QED
  BY <1>0, <1>9

\* The empty sequence.
LEMMA NoElements == IsSequence(<<>>) /\ Len(<<>>) = 0 /\ Elements(<<>>) = {}
BY DEF IsSequence, Elements

\* A sequence of one.
LEMMA OneElement == ASSUME NEW x PROVE IsSequence(<<x>>) /\ Len(<<x>>) = 1 /\ Elements(<<x>>) = {x}
BY DEF IsSequence, Elements

\* A sequence that is written as a function.
LEMMA FunctionSequence ==
    ASSUME NEW n \in Nat, NEW r, r = [i \in 1..n |-> r[i]]
    PROVE  IsSequence(r) /\ Len(r) = n /\ Elements(r) = {r[i] : i \in 1..n}
<1>. DEFINE S == {r[i] : i \in 1..n}
<1>1. r \in [1..n -> S]
  BY Zenon
<1>. HIDE DEF S
<1>2. r \in Seq(S) /\ Len(r) = n
  BY <1>1
<1>3. DOMAIN r = 1..n
  BY <1>1
<1>. QED
  BY <1>2, <1>3, SeqIsSequence DEF Elements, S

\* The first sequences of F, one after the other.
Flat(g, F, n) == g = [i \in 1..n |-> IF i = 1 THEN F[i] ELSE g[i - 1] \o F[i]]

\* How it is made.
LEMMA FlatIs ==
    ASSUME NEW g, NEW F, NEW n \in Nat, Flat(g, F, n)
    PROVE  /\ n # 0 => g[1] = F[1]
           /\ \A k \in 1..n : k < n => g[k + 1] = g[k] \o F[k + 1]
<1>1. ASSUME n # 0 PROVE g[1] = F[1]
  <2>1. 1 \in 1..n
    BY <1>1
  <2>. QED
    BY <2>1, Zenon DEF Flat
<1>2. ASSUME NEW k \in 1..n, k < n PROVE g[k + 1] = g[k] \o F[k + 1]
  <2>1. PICK i \in 1..n : i = k + 1 /\ i # 1 /\ i - 1 = k
    BY <1>2
  <2>2. g[i] = g[i - 1] \o F[i]
    BY <2>1, Zenon DEF Flat
  <2>. QED
    BY <2>1, <2>2, Zenon
<1>. QED
  BY <1>1, <1>2

\* Every sequence of sequences can be joined.
LEMMA FlatsExist ==
    ASSUME NEW F, NEW n \in Nat
    PROVE  \E g : Flat(g, F, n)
<1>. DEFINE S == {k \in Nat : \E g : Flat(g, F, k)}
<1>1. 0 \in S
  <2>1. PICK g : g = [i \in 1..0 |-> 0]
    OBVIOUS
  <2>2. Flat(g, F, 0)
    <3>1. \A i : i \notin 1..0
      OBVIOUS
    <3>2. g = [i \in 1..0 |-> IF i = 1 THEN F[i] ELSE g[i - 1] \o F[i]]
      BY <2>1, <3>1, Zenon
    <3>. QED
      BY <3>2 DEF Flat
  <2>. QED
    BY <2>2
<1>2. ASSUME NEW k \in 0..n, k \in S, k < n PROVE k + 1 \in S
  <2>1. PICK g : Flat(g, F, k)
    BY <1>2
  <2>2. /\ k # 0 => g[1] = F[1]
        /\ \A i \in 1..k : i < k => g[i + 1] = g[i] \o F[i + 1]
    <3>1. k \in Nat
      OBVIOUS
    <3>. QED
      BY ONLY <2>1, <3>1, FlatIs, Zenon
  <2>3. PICK m \in Nat : m = k + 1 /\ m - 1 = k
    OBVIOUS
  <2>4. PICK y : y = IF m = 1 THEN F[m] ELSE g[k] \o F[m]
    OBVIOUS
  <2>5. PICK h : h = [i \in 1..m |-> IF i = m THEN y ELSE g[i]]
    OBVIOUS
  <2>6. ASSUME NEW i \in 1..m PROVE h[i] = IF i = 1 THEN F[i] ELSE h[i - 1] \o F[i]
    <3>1. CASE i = m
      <4>1. m # 1 => k \in 1..m /\ k # m
        BY <2>3
      <4>2. m # 1 => h[k] = g[k]
        BY <2>5, <4>1
      <4>3. h[i] = y
        BY <2>5, <3>1
      <4>. QED
        BY <2>3, <2>4, <3>1, <4>2, <4>3
    <3>2. CASE i # m /\ i = 1
      <4>1. k # 0 /\ h[i] = g[1]
        BY <2>3, <2>5, <2>6, <3>2
      <4>. QED
        BY <2>2, <3>2, <4>1
    <3>3. CASE i # m /\ i # 1
      <4>1. PICK j \in 1..k : j < k /\ j + 1 = i /\ i - 1 = j
        BY <2>3, <2>6, <3>3
      <4>2. g[i] = g[j] \o F[i]
        BY <2>2, <4>1
      <4>3. h[i] = g[i] /\ h[j] = g[j]
        BY <2>3, <2>5, <3>3, <4>1
      <4>. QED
        BY <3>3, <4>1, <4>2, <4>3
    <3>. QED
      BY <3>1, <3>2, <3>3
  <2>7. Flat(h, F, m)
    <3>. DEFINE e(i) == IF i = 1 THEN F[i] ELSE h[i - 1] \o F[i]
    <3>1. h = [i \in 1..m |-> h[i]]
      BY <2>5
    <3>2. \A i \in 1..m : h[i] = e(i)
      BY <2>6
    <3>. HIDE DEF e
    <3>3. h = [i \in 1..m |-> e(i)]
      BY <3>1, <3>2
    <3>. QED
      BY <3>3 DEF Flat, e
  <2>. QED
    BY <2>3, <2>7
<1>3. \A k \in 0..n : k \in S
  <2>. HIDE DEF S
  <2>. QED
    BY <1>1, <1>2, Climb
<1>. QED
  BY <1>3

\* Sequences, all one after the other.
LEMMA FlattenIs ==
    ASSUME NEW F, Len(F) \in Nat, Len(F) # 0
    PROVE  \E g : Flat(g, F, Len(F)) /\ FlattenSeq(F) = g[Len(F)]
<1>. DEFINE n == Len(F)
            g == CHOOSE g : g = [i \in 1..n |-> IF i = 1 THEN F[i] ELSE g[i - 1] \o F[i]]
<1>1. FlattenSeq(F) = g[n]
  BY DEF FlattenSeq
<1>2. \E f : Flat(f, F, n)
  BY FlatsExist
<1>3. Flat(g, F, n)
  BY <1>2, Zenon DEF Flat
<1>. QED
  BY <1>1, <1>3

-----------------------------------------------------------------------------
(* Where the schemas of a schema are.                                      *)

Simple == {"additionalProperties", "unevaluatedProperties", "unevaluatedItems", "contains",
           "propertyNames", "not", "if", "then", "else"}
Grouped == {"$defs", "definitions", "properties", "patternProperties", "dependentSchemas"}
Listed == {"allOf", "anyOf", "oneOf", "prefixItems"}

\* The steps of a path are strings; that a literal is one is not known to the
\* provers.
PathStep == STRING \union Simple \union Grouped \union Listed \union {"items", "dependencies"}

Path == Seq(PathStep)

\* A path of one step or of two to a value of a document.
Position(s, p) == p \in Path /\ Len(p) \in 1..2 /\ At(s, p) \in Values

\* Neither position is in the other.
Separate(p, q) == p[1] # q[1] \/ (Len(p) = 2 /\ Len(q) = 2 /\ p[2] # q[2])

Parted(P) == \A i, j \in 1..Len(P) : i # j => Separate(P[i], P[j])

\* Distinct positions in s.
Placed(s, P) == IsSequence(P) /\ (\A p \in Elements(P) : Position(s, p)) /\ Parted(P)

\* A sequence has its elements.
LEMMA ElementsOf ==
    ASSUME NEW s, IsSequence(s)
    PROVE  \A i \in 1..Len(s) : s[i] \in Elements(s)
BY DEF IsSequence, Elements

\* Positions, and others that are apart from them.
LEMMA PlacedJoined ==
    ASSUME NEW s, NEW P, Placed(s, P), NEW Q, Placed(s, Q),
           \A p \in Elements(P), q \in Elements(Q) : Separate(p, q)
    PROVE  Placed(s, P \o Q) /\ Elements(P \o Q) = Elements(P) \union Elements(Q)
<1>0. PICK R : R = P \o Q
  OBVIOUS
<1>1. IsSequence(P) /\ IsSequence(Q)
  BY DEF Placed
<1>2. /\ IsSequence(R) /\ Len(P) \in Nat /\ Len(Q) \in Nat /\ Len(R) = Len(P) + Len(Q)
      /\ \A i \in 1..Len(P) : R[i] = P[i]
      /\ \A i \in 1..Len(R) :
            i \in 1..Len(P) \/ (i - Len(P) \in 1..Len(Q) /\ R[i] = Q[i - Len(P)])
      /\ Elements(R) = Elements(P) \union Elements(Q)
  <2>1. Joins(P, Q, P \o Q)
    BY <1>1, ConcatIs, Zenon
  <2>2. Joins(P, Q, R)
    BY <1>0, <2>1, Zenon
  <2>. QED
    BY <2>2, Zenon DEF Joins
<1>3. ASSUME NEW i \in 1..Len(R), NEW j \in 1..Len(R), i # j PROVE Separate(R[i], R[j])
  <2>0. /\ \A k \in 1..Len(P) : P[k] \in Elements(P)
        /\ \A k \in 1..Len(Q) : Q[k] \in Elements(Q)
    BY <1>1, ElementsOf
  <2>1. CASE i \in 1..Len(P) /\ j \in 1..Len(P)
    BY <1>2, <1>3, <2>1 DEF Placed, Parted
  <2>2. CASE i \in 1..Len(P) /\ j \notin 1..Len(P)
    <3>1. R[i] \in Elements(P) /\ R[j] \in Elements(Q)
      BY <1>2, <2>0, <2>2
    <3>. QED
      BY <3>1
  <2>3. CASE i \notin 1..Len(P) /\ j \in 1..Len(P)
    <3>1. R[j] \in Elements(P) /\ R[i] \in Elements(Q)
      BY <1>2, <2>0, <2>3
    <3>. QED
      BY <3>1 DEF Separate
  <2>4. CASE i \notin 1..Len(P) /\ j \notin 1..Len(P)
    <3>1. PICK k \in 1..Len(Q), l \in 1..Len(Q) :
             k = i - Len(P) /\ l = j - Len(P) /\ R[i] = Q[k] /\ R[j] = Q[l]
      BY <1>2, <2>4
    <3>2. k # l
      BY <1>2, <1>3, <3>1
    <3>. QED
      BY <3>1, <3>2 DEF Placed, Parted
  <2>. QED
    BY <2>1, <2>2, <2>3, <2>4
<1>4. \A p \in Elements(R) : Position(s, p)
  BY <1>2 DEF Placed
<1>. QED
  BY <1>0, <1>2, <1>3, <1>4 DEF Placed, Parted

\* No position, and one.
LEMMA PlacedNone == ASSUME NEW s PROVE Placed(s, <<>>)
BY NoElements DEF Placed, Parted

\* One position.
LEMMA PlacedOne ==
    ASSUME NEW s, NEW p, Position(s, p)
    PROVE  Placed(s, <<p>>) /\ Elements(<<p>>) = {p}
BY OneElement DEF Placed, Parted

\* The positions of each sequence are apart from those of the others.
LEMMA PlacedFlat ==
    ASSUME NEW s, NEW F, Len(F) \in Nat,
           \A i \in 1..Len(F) : Placed(s, F[i]),
           \A i, j \in 1..Len(F) : i < j =>
              \A p \in Elements(F[i]), q \in Elements(F[j]) : Separate(p, q),
           Len(F) = 0 => F = <<>>,
           NEW R, R = FlattenSeq(F)
    PROVE  /\ Placed(s, R)
           /\ \A p \in Elements(R) : \E i \in 1..Len(F) : p \in Elements(F[i])
<1>1. CASE Len(F) = 0
  <2>1. R = <<>>
    BY <1>1 DEF FlattenSeq
  <2>. QED
    BY <2>1, PlacedNone, NoElements
<1>2. CASE Len(F) # 0
  <2>1. PICK n \in Nat : n = Len(F) /\ n # 0
    BY <1>2
  <2>2. PICK g : Flat(g, F, n) /\ R = g[n]
    BY <2>1, FlattenIs
  <2>3. g[1] = F[1] /\ \A k \in 1..n : k < n => g[k + 1] = g[k] \o F[k + 1]
    BY <2>1, <2>2, FlatIs
  <2>. DEFINE Made(k) == /\ Placed(s, g[k])
                         /\ \A p \in Elements(g[k]) : \E i \in 1..k : p \in Elements(F[i])
              T == {k \in 0..n : k # 0 => Made(k)}
  <2>4. Made(1)
    <3>1. 1 \in 1..Len(F)
      BY <2>1
    <3>. QED
      BY <2>3, <3>1
  <2>5. ASSUME NEW k \in 1..n, Made(k), k < n PROVE Made(k + 1)
    <3>1. PICK m \in 1..n : m = k + 1 /\ k < m
      BY <2>1, <2>5
    <3>2. g[m] = g[k] \o F[m] /\ Placed(s, F[m])
      BY <2>1, <2>3, <2>5, <3>1
    <3>3. ASSUME NEW p \in Elements(g[k]), NEW q \in Elements(F[m]) PROVE Separate(p, q)
      <4>1. PICK i \in 1..k : p \in Elements(F[i])
        BY <2>5
      <4>2. i \in 1..Len(F) /\ m \in 1..Len(F) /\ i < m
        BY <2>1, <2>5, <3>1
      <4>. QED
        BY <4>1, <4>2
    <3>4. Placed(s, g[m]) /\ Elements(g[m]) = Elements(g[k]) \union Elements(F[m])
      <4>1. Placed(s, g[k])
        BY <2>5
      <4>2. PICK P, Q : P = g[k] /\ Q = F[m]
        OBVIOUS
      <4>3. Placed(s, P) /\ Placed(s, Q) /\ \A p \in Elements(P), q \in Elements(Q) : Separate(p, q)
        BY <3>2, <3>3, <4>1, <4>2
      <4>4. Placed(s, P \o Q) /\ Elements(P \o Q) = Elements(P) \union Elements(Q)
        BY ONLY <4>3, PlacedJoined
      <4>5. g[m] = P \o Q
        BY <3>2, <4>2
      <4>. QED
        BY <4>2, <4>4, <4>5
    <3>5. ASSUME NEW p \in Elements(g[m]) PROVE \E i \in 1..m : p \in Elements(F[i])
      <4>1. CASE p \in Elements(g[k])
        <5>1. PICK i \in 1..k : p \in Elements(F[i])
          BY <2>5, <4>1
        <5>2. i \in 1..m
          BY <3>1
        <5>. QED
          BY <5>1, <5>2
      <4>2. CASE p \in Elements(F[m])
        <5>1. m \in 1..m
          BY <2>1
        <5>. QED
          BY <4>2, <5>1
      <4>. QED
        BY <3>4, <4>1, <4>2
    <3>. QED
      BY <3>1, <3>4, <3>5
  <2>. HIDE DEF Made
  <2>6. 0 \in T
    BY <2>1
  <2>7. ASSUME NEW k \in 0..n, k \in T, k < n PROVE k + 1 \in T
    <3>1. CASE k = 0
      BY <2>1, <2>4, <3>1
    <3>2. CASE k # 0
      BY <2>1, <2>5, <2>7, <3>2
    <3>. QED
      BY <3>1, <3>2
  <2>8. \A k \in 0..n : k \in T
    <3>. HIDE DEF T
    <3>. QED
      BY <2>6, <2>7, Climb
  <2>9. Made(n)
    BY <2>1, <2>8
  <2>. QED
    BY <2>1, <2>2, <2>9 DEF Made
<1>. QED
  BY <1>1, <1>2

\* The members of a value, and what a keyword of it has.
LEMMA MemberValue ==
    ASSUME NEW x \in Values, x.t = "object", NEW i \in DOMAIN x.v
    PROVE  /\ x.v[i][1] \in STRING /\ x.v[i][2] \in Values
           /\ hasKey(x, x.v[i][1]) /\ Child(x, x.v[i][1]) = x.v[i][2]
           /\ \A j \in DOMAIN x.v : x.v[i][1] = x.v[j][1] => i = j
<1>1. /\ x.v \in Seq(STRING \X Values)
      /\ \A j, k \in DOMAIN x.v : x.v[j][1] = x.v[k][1] => j = k
  BY ValuesAssumption, Zenon
<1>2. x.v[i] \in STRING \X Values
  BY <1>1, LenProperties
<1>3. x.v[i][1] \in STRING /\ x.v[i][2] \in Values
  BY <1>2
<1>4. hasKey(x, x.v[i][1])
  BY DEF hasKey
<1>5. PICK c : c = CHOOSE j \in DOMAIN x.v : x.v[j][1] = x.v[i][1]
  OBVIOUS
<1>6. c \in DOMAIN x.v /\ x.v[c][1] = x.v[i][1]
  BY <1>5, Zenon
<1>7. c = i
  BY <1>1, <1>6, Zenon
<1>8. Child(x, x.v[i][1]) = x.v[c][2]
  BY <1>4, <1>5, Zenon DEF Child
<1>. QED
  BY <1>1, <1>3, <1>4, <1>7, <1>8, Zenon

\* The value of a keyword is a value that documents are made of.
LEMMA FoundValue ==
    ASSUME NEW s \in Values, NEW k, find(s, k).t # "missing"
    PROVE  /\ hasKey(s, k) /\ find(s, k) = Child(s, k) /\ find(s, k) \in Values
<1>1. hasKey(s, k) /\ find(s, k) = Child(s, k)
  BY DEF find, Missing
<1>2. PICK i \in DOMAIN s.v : s.t = "object" /\ s.v[i][1] = k
  BY <1>1 DEF hasKey
<1>3. Child(s, s.v[i][1]) = s.v[i][2] /\ s.v[i][2] \in Values
  BY <1>2, MemberValue
<1>. QED
  BY <1>1, <1>2, <1>3

\* The items of a value.
LEMMA ItemValue ==
    ASSUME NEW x \in Values, x.t = "array", NEW i \in DOMAIN x.v
    PROVE  /\ Decimal[i] \in STRING /\ Child(x, Decimal[i]) \in Values
           /\ \A j \in DOMAIN x.v : Decimal[i] = Decimal[j] => i = j
<1>1. x.v \in Seq(Values) /\ DOMAIN x.v \subseteq DOMAIN Decimal
  BY ValuesAssumption, Zenon
<1>2. /\ Decimal[i] \in STRING
      /\ \A j \in DOMAIN x.v : Decimal[i] = Decimal[j] => i = j
  BY <1>1, DecimalAssumption, Zenon
<1>3. PICK c : c = CHOOSE j \in DOMAIN x.v : Decimal[j] = Decimal[i]
  OBVIOUS
<1>4. c \in DOMAIN x.v
  BY <1>3, Zenon
<1>5. Child(x, Decimal[i]) = x.v[c]
  <2>1. ~hasKey(x, Decimal[i]) /\ x.t # "object"
    BY DEF hasKey
  <2>. QED
    BY <1>3, <2>1, Zenon DEF Child
<1>6. x.v[c] \in Values
  BY <1>1, <1>4, LenProperties
<1>. QED
  BY <1>2, <1>5, <1>6

\* A path of strings.
LEMMA ShortPath ==
    ASSUME NEW S, NEW k \in S
    PROVE  /\ <<k>> \in Seq(S) /\ Len(<<k>>) = 1 /\ <<k>>[1] = k
           /\ \A l \in S : /\ <<k, l>> \in Seq(S) /\ Len(<<k, l>>) = 2
                           /\ <<k, l>>[1] = k /\ <<k, l>>[2] = l
OBVIOUS

\* The position of a value, and of what is in it.
LEMMA OneStep ==
    ASSUME NEW s, NEW k \in PathStep, Child(s, k) \in Values
    PROVE  Position(s, <<k>>) /\ <<k>>[1] = k
<1>1. /\ <<k>> \in Path /\ Len(<<k>>) = 1 /\ <<k>>[1] = k
  BY ShortPath, Zenon DEF Path
<1>2. At(s, <<k>>) = Child(s, k)
  BY AtStep, Zenon
<1>3. 1 \in 1..2
  OBVIOUS
<1>. QED
  BY <1>1, <1>2, <1>3, Zenon DEF Position

\* The position of a value that is in one.
LEMMA TwoSteps ==
    ASSUME NEW s, NEW k \in PathStep, NEW l \in PathStep, Child(Child(s, k), l) \in Values
    PROVE  Position(s, <<k, l>>) /\ Len(<<k, l>>) = 2 /\ <<k, l>>[1] = k /\ <<k, l>>[2] = l
<1>1. /\ <<k, l>> \in Path /\ Len(<<k, l>>) = 2 /\ <<k, l>>[1] = k /\ <<k, l>>[2] = l
  BY ShortPath, Zenon DEF Path
<1>2. At(s, <<k, l>>) = Child(Child(s, k), l)
  <2>1. PICK S : S = PathStep
    OBVIOUS
  <2>2. k \in S /\ l \in S
    BY <2>1, Zenon
  <2>. QED
    BY ONLY <2>2, AtSteps
<1>3. 2 \in 1..2
  OBVIOUS
<1>. QED
  BY <1>1, <1>2, <1>3, Zenon DEF Position

\* Positions that begin with one of the keywords K.
Under(s, P, K) == Placed(s, P) /\ \A p \in Elements(P) : p[1] \in K

\* The position of a keyword whose value is a schema.
LEMMA SchemaUnder ==
    ASSUME NEW s \in Values, NEW k \in PathStep
    PROVE  /\ Under(s, SchemaPosition(s, k), {k})
           /\ \A p \in Elements(SchemaPosition(s, k)) : isSchemaNode(find(s, k))
<1>1. CASE isSchemaNode(find(s, k))
  <2>1. find(s, k).t # "missing"
    BY <1>1 DEF isSchemaNode
  <2>2. Child(s, k) \in Values
    BY <2>1, FoundValue
  <2>3. Position(s, <<k>>) /\ <<k>>[1] = k
    BY <2>2, OneStep
  <2>4. SchemaPosition(s, k) = <<<<k>>>>
    BY <1>1 DEF SchemaPosition
  <2>5. PICK p : p = <<k>>
    OBVIOUS
  <2>6. Placed(s, <<p>>) /\ Elements(<<p>>) = {p} /\ p[1] = k
    BY <2>3, <2>5, PlacedOne
  <2>. QED
    BY <1>1, <2>4, <2>5, <2>6 DEF Under
<1>2. CASE ~isSchemaNode(find(s, k))
  <2>1. SchemaPosition(s, k) = <<>>
    BY <1>2 DEF SchemaPosition
  <2>. QED
    BY <2>1, PlacedNone, NoElements DEF Under
<1>. QED
  BY <1>1, <1>2

\* A list of positions below k.
Pairs(s, k, n, r, f) ==
    /\ r = [i \in 1..n |-> r[i]]
    /\ \A i \in 1..n : /\ r[i] = <<k, f[i]>> /\ f[i] \in PathStep
                       /\ Child(Child(s, k), f[i]) \in Values
    /\ \A i, j \in 1..n : f[i] = f[j] => i = j

\* Distinct positions below one keyword.
LEMMA PairsUnder ==
    ASSUME NEW s, NEW k \in PathStep, NEW n \in Nat, NEW r, NEW f, Pairs(s, k, n, r, f)
    PROVE  Under(s, r, {k})
<1>0. /\ r = [i \in 1..n |-> r[i]]
      /\ \A i \in 1..n : /\ r[i] = <<k, f[i]>> /\ f[i] \in PathStep
                         /\ Child(Child(s, k), f[i]) \in Values
      /\ \A i, j \in 1..n : f[i] = f[j] => i = j
  BY Zenon DEF Pairs
<1>1. IsSequence(r) /\ Len(r) = n /\ Elements(r) = {r[i] : i \in 1..n}
  BY <1>0, FunctionSequence
<1>2. ASSUME NEW i \in 1..n
      PROVE  Position(s, r[i]) /\ Len(r[i]) = 2 /\ r[i][1] = k /\ r[i][2] = f[i]
  <2>1. PICK l \in PathStep : l = f[i] /\ r[i] = <<k, l>> /\ Child(Child(s, k), l) \in Values
    BY <1>0, Zenon
  <2>2. Position(s, <<k, l>>) /\ Len(<<k, l>>) = 2 /\ <<k, l>>[1] = k /\ <<k, l>>[2] = l
    BY <2>1, TwoSteps, Zenon
  <2>. QED
    BY <2>1, <2>2, Zenon
<1>3. Parted(r)
  <2>1. SUFFICES ASSUME NEW i \in 1..n, NEW j \in 1..n, i # j PROVE Separate(r[i], r[j])
    BY <1>1 DEF Parted
  <2>2. f[i] # f[j]
    BY <1>0, <2>1
  <2>. QED
    BY <1>2, <2>2 DEF Separate
<1>4. ASSUME NEW p \in Elements(r) PROVE Position(s, p) /\ p[1] = k
  <2>1. PICK i \in 1..n : p = r[i]
    BY <1>1, Zenon
  <2>. QED
    BY <1>2, <2>1, Zenon
<1>. QED
  BY <1>1, <1>3, <1>4 DEF Under, Placed

\* The positions of the members of a keyword's value.
LEMMA MembersUnder ==
    ASSUME NEW s \in Values, NEW k \in PathStep
    PROVE  Under(s, MemberPositions(s, k), {k})
<1>. DEFINE x == find(s, k)
<1>1. CASE x.t = "object"
  <2>1. x = Child(s, k) /\ x \in Values
    BY <1>1, FoundValue
  <2>2. x.v \in Seq(STRING \X Values)
    BY <1>1, <2>1, ValuesAssumption, Zenon
  <2>3. Len(x.v) \in Nat /\ DOMAIN x.v = 1..Len(x.v)
    BY <2>2, LenProperties
  <2>4. PICK n, r, f : /\ n \in Nat /\ n = Len(x.v) /\ r = MemberPositions(s, k)
                       /\ f = [i \in 1..n |-> x.v[i][1]]
    BY <2>3
  <2>. n \in Nat
    BY <2>4
  <2>5. r = [i \in 1..n |-> <<k, x.v[i][1]>>]
    BY <1>1, <2>3, <2>4, Zenon DEF MemberPositions
  <2>6. \A i \in 1..n : /\ f[i] \in PathStep /\ Child(x, f[i]) \in Values /\ f[i] = x.v[i][1]
                        /\ \A j \in 1..n : f[i] = f[j] => i = j
    BY <1>1, <2>1, <2>3, <2>4, MemberValue DEF PathStep
  <2>. HIDE DEF x
  <2>7. \A i \in 1..n : r[i] = <<k, f[i]>>
    BY <2>5, <2>6, Zenon
  <2>8. r = [i \in 1..n |-> r[i]]
    BY <2>5, Zenon
  <2>9. Under(s, r, {k})
    <3>1. \A i \in 1..n : /\ r[i] = <<k, f[i]>> /\ f[i] \in PathStep
                          /\ Child(Child(s, k), f[i]) \in Values
      BY <2>1, <2>6, <2>7, Zenon
    <3>2. \A i, j \in 1..n : f[i] = f[j] => i = j
      BY <2>6, Zenon
    <3>3. Pairs(s, k, n, r, f)
      BY <2>8, <3>1, <3>2, Zenon DEF Pairs
    <3>. QED
      BY <3>3, PairsUnder
  <2>. QED
    BY <2>4, <2>9
<1>2. CASE x.t # "object"
  <2>1. MemberPositions(s, k) = <<>>
    BY <1>2 DEF MemberPositions
  <2>. QED
    BY <2>1, PlacedNone, NoElements DEF Under
<1>. QED
  BY <1>1, <1>2

\* The positions of its items.
LEMMA ItemsUnder ==
    ASSUME NEW s \in Values, NEW k \in PathStep
    PROVE  Under(s, ItemPositions(s, k), {k})
<1>. DEFINE x == find(s, k)
<1>1. CASE x.t = "array"
  <2>1. x = Child(s, k) /\ x \in Values
    BY <1>1, FoundValue
  <2>2. x.v \in Seq(Values)
    BY <1>1, <2>1, ValuesAssumption, Zenon
  <2>3. Len(x.v) \in Nat /\ DOMAIN x.v = 1..Len(x.v)
    BY <2>2, LenProperties
  <2>4. PICK n, r, f : /\ n \in Nat /\ n = Len(x.v) /\ r = ItemPositions(s, k)
                       /\ f = [i \in 1..n |-> Decimal[i]]
    BY <2>3
  <2>. n \in Nat
    BY <2>4
  <2>5. r = [i \in 1..n |-> <<k, Decimal[i]>>]
    BY <1>1, <2>3, <2>4, Zenon DEF ItemPositions
  <2>6. \A i \in 1..n : /\ f[i] \in PathStep /\ Child(x, f[i]) \in Values /\ f[i] = Decimal[i]
                        /\ \A j \in 1..n : f[i] = f[j] => i = j
    BY <1>1, <2>1, <2>3, <2>4, ItemValue DEF PathStep
  <2>. HIDE DEF x
  <2>7. \A i \in 1..n : r[i] = <<k, f[i]>>
    BY <2>5, <2>6, Zenon
  <2>8. r = [i \in 1..n |-> r[i]]
    BY <2>5, Zenon
  <2>9. Under(s, r, {k})
    <3>1. \A i \in 1..n : /\ r[i] = <<k, f[i]>> /\ f[i] \in PathStep
                          /\ Child(Child(s, k), f[i]) \in Values
      BY <2>1, <2>6, <2>7, Zenon
    <3>2. \A i, j \in 1..n : f[i] = f[j] => i = j
      BY <2>6, Zenon
    <3>3. Pairs(s, k, n, r, f)
      BY <2>8, <3>1, <3>2, Zenon DEF Pairs
    <3>. QED
      BY <3>3, PairsUnder
  <2>. QED
    BY <2>4, <2>9
<1>2. CASE x.t # "array"
  <2>1. ItemPositions(s, k) = <<>>
    BY <1>2 DEF ItemPositions
  <2>. QED
    BY <2>1, PlacedNone, NoElements DEF Under
<1>. QED
  BY <1>1, <1>2

\* One sequence of positions for each of the keywords ks.
Keyed(s, n, ks, F) ==
    /\ F = [i \in 1..n |-> F[i]]
    /\ \A i \in 1..n : Under(s, F[i], {ks[i]})
    /\ \A i, j \in 1..n : ks[i] = ks[j] => i = j

\* Positions P, each from the sequence for the keyword it begins with.
Ordered(s, n, ks, F, P) ==
    /\ Placed(s, P)
    /\ \A p \in Elements(P) : \E i \in 1..n : p \in Elements(F[i]) /\ p[1] = ks[i]

\* The positions below several keywords, in their order.
LEMMA KeyedUnder ==
    ASSUME NEW s, NEW n \in Nat, NEW ks, NEW F, Keyed(s, n, ks, F)
    PROVE  Ordered(s, n, ks, F, FlattenSeq(F))
<1>0. /\ F = [i \in 1..n |-> F[i]]
      /\ \A i \in 1..n : Under(s, F[i], {ks[i]})
      /\ \A i, j \in 1..n : ks[i] = ks[j] => i = j
  BY Zenon DEF Keyed
<1>1. IsSequence(F) /\ Len(F) = n
  BY <1>0, FunctionSequence
<1>2. n = 0 => F = <<>>
  BY <1>1
<1>3. \A i \in 1..n : Placed(s, F[i]) /\ \A p \in Elements(F[i]) : p[1] = ks[i]
  BY <1>0 DEF Under
<1>4. ASSUME NEW i \in 1..n, NEW j \in 1..n, i < j,
             NEW p \in Elements(F[i]), NEW q \in Elements(F[j])
      PROVE  Separate(p, q)
  <2>1. ks[i] # ks[j]
    BY <1>0, <1>4
  <2>. QED
    BY <1>3, <2>1 DEF Separate
<1>5. /\ Placed(s, FlattenSeq(F))
      /\ \A p \in Elements(FlattenSeq(F)) : \E i \in 1..n : p \in Elements(F[i])
  BY <1>1, <1>2, <1>3, <1>4, PlacedFlat
<1>. QED
  BY <1>3, <1>5, Zenon DEF Ordered

\* Positions of other keywords are added.
LEMMA UnderJoined ==
    ASSUME NEW s, NEW P, NEW Q, NEW K, NEW L, Under(s, P, K), Under(s, Q, L), K \intersect L = {}
    PROVE  Under(s, P \o Q, K \union L)
<1>1. /\ Placed(s, P) /\ \A p \in Elements(P) : p[1] \in K
      /\ Placed(s, Q) /\ \A p \in Elements(Q) : p[1] \in L
  BY Zenon DEF Under
<1>2. \A p \in Elements(P), q \in Elements(Q) : Separate(p, q)
  BY <1>1 DEF Separate
<1>3. Placed(s, P \o Q) /\ Elements(P \o Q) = Elements(P) \union Elements(Q)
  BY ONLY <1>1, <1>2, PlacedJoined
<1>. QED
  BY <1>1, <1>3 DEF Under

\* The schemas among the members of dependencies.
LEMMA DependenciesUnder ==
    ASSUME NEW s \in Values
    PROVE  Under(s, Dependencies(s), {"dependencies"})
<1>. DEFINE k == "dependencies"
            x == find(s, k)
<1>1. CASE x.t = "object"
  <2>1. x = Child(s, k) /\ x \in Values
    BY <1>1, FoundValue
  <2>2. x.v \in Seq(STRING \X Values)
    BY <1>1, <2>1, ValuesAssumption, Zenon
  <2>3. Len(x.v) \in Nat /\ DOMAIN x.v = 1..Len(x.v)
    BY <2>2, LenProperties
  <2>4. PICK n, F : /\ n \in Nat /\ n = Len(x.v)
                    /\ F = [i \in 1..n |-> IF isSchemaNode(x.v[i][2])
                                           THEN <<<<k, x.v[i][1]>>>> ELSE <<>>]
    BY <2>3
  <2>. n \in Nat
    BY <2>4
  <2>5. Dependencies(s) = FlattenSeq(F)
    BY <1>1, <2>3, <2>4, Zenon DEF Dependencies
  <2>6. \A i \in 1..n : /\ x.v[i][1] \in PathStep /\ Child(x, x.v[i][1]) \in Values
                        /\ \A j \in 1..n : x.v[i][1] = x.v[j][1] => i = j
    BY <1>1, <2>1, <2>3, <2>4, MemberValue DEF PathStep
  <2>. HIDE DEF x
  <2>7. ASSUME NEW i \in 1..n
        PROVE  /\ Placed(s, F[i])
               /\ \A p \in Elements(F[i]) : Len(p) = 2 /\ p[1] = k /\ p[2] = x.v[i][1]
    <3>1. CASE isSchemaNode(x.v[i][2])
      <4>1. PICK l, p : /\ l \in PathStep /\ l = x.v[i][1] /\ p = <<k, l>>
                        /\ Child(Child(s, k), l) \in Values
        BY <2>1, <2>6, Zenon
      <4>. l \in PathStep
        BY <4>1
      <4>2. k \in PathStep
        BY DEF PathStep
      <4>3. Position(s, p) /\ Len(p) = 2 /\ p[1] = k /\ p[2] = l
        <5>1. Position(s, <<k, l>>) /\ Len(<<k, l>>) = 2 /\ <<k, l>>[1] = k /\ <<k, l>>[2] = l
          BY <4>1, <4>2, TwoSteps, Zenon
        <5>. QED
          BY <4>1, <5>1, Zenon
      <4>4. F[i] = <<p>>
        BY <2>4, <3>1, <4>1, Zenon
      <4>5. Placed(s, <<p>>) /\ Elements(<<p>>) = {p}
        BY <4>3, PlacedOne
      <4>. QED
        BY <4>1, <4>3, <4>4, <4>5
    <3>2. CASE ~isSchemaNode(x.v[i][2])
      <4>1. F[i] = <<>>
        BY <2>4, <3>2, Zenon
      <4>. QED
        BY <4>1, PlacedNone, NoElements
    <3>. QED
      BY <3>1, <3>2
  <2>8. F = [i \in 1..n |-> F[i]]
    BY <2>4, Zenon
  <2>9. IsSequence(F) /\ Len(F) = n
    BY <2>8, FunctionSequence
  <2>10. n = 0 => F = <<>>
    BY <2>9
  <2>11. ASSUME NEW i \in 1..n, NEW j \in 1..n, i < j,
                NEW p \in Elements(F[i]), NEW q \in Elements(F[j])
         PROVE  Separate(p, q)
    <3>1. /\ Len(p) = 2 /\ p[2] = x.v[i][1]
          /\ Len(q) = 2 /\ q[2] = x.v[j][1]
      BY <2>7
    <3>2. x.v[i][1] # x.v[j][1]
      BY <2>6, <2>11
    <3>. QED
      BY <3>1, <3>2 DEF Separate
  <2>12. /\ Placed(s, FlattenSeq(F))
         /\ \A p \in Elements(FlattenSeq(F)) : \E i \in 1..n : p \in Elements(F[i])
    BY <2>7, <2>9, <2>10, <2>11, PlacedFlat
  <2>13. \A p \in Elements(FlattenSeq(F)) : p[1] = k
    BY <2>7, <2>12, Zenon
  <2>. QED
    BY <2>5, <2>12, <2>13 DEF Under
<1>2. CASE x.t # "object"
  <2>1. Dependencies(s) = <<>>
    BY <1>2 DEF Dependencies
  <2>. QED
    BY <2>1, PlacedNone, NoElements DEF Under
<1>. QED
  BY <1>1, <1>2

\* The schemas below a schema are in places of their own.
LEMMA PositionsPlaced ==
    ASSUME NEW s \in Values
    PROVE  Placed(s, Positions(s))
<1>. DEFINE A == [i \in DOMAIN Applicators |-> SchemaPosition(s, Applicators[i])]
            C == [i \in DOMAIN Containers |-> MemberPositions(s, Containers[i])]
            L == [i \in DOMAIN Lists |-> ItemPositions(s, Lists[i])]
            last == ItemPositions(s, "items")
            kept == IF isSchemaNode(find(s, "items")) THEN Simple \union {"items"} ELSE Simple
            rest == IF find(s, "items").t = "array" THEN {"items"} ELSE {}
<1>1. Under(s, FlattenSeq(A), kept)
  <2>1. /\ DOMAIN Applicators = 1..10
        /\ \A i \in 1..10 : Applicators[i] \in PathStep
        /\ \A i \in 1..10 : Applicators[i] \in Simple \union {"items"}
    BY DEF Applicators, PathStep, Simple
  <2>2. \A i, j \in 1..10 : Applicators[i] = Applicators[j] => i = j
    BY DEF Applicators
  <2>3. A = [i \in 1..10 |-> A[i]] /\ \A i \in 1..10 : A[i] = SchemaPosition(s, Applicators[i])
    BY <2>1
  <2>. HIDE DEF A
  <2>4. \A i \in 1..10 : /\ Under(s, A[i], {Applicators[i]})
                         /\ \A p \in Elements(A[i]) : isSchemaNode(find(s, Applicators[i]))
    BY <2>1, <2>3, SchemaUnder
  <2>5. /\ Placed(s, FlattenSeq(A))
        /\ \A p \in Elements(FlattenSeq(A)) :
              \E i \in 1..10 : p \in Elements(A[i]) /\ p[1] = Applicators[i]
    <3>1. Keyed(s, 10, Applicators, A)
      BY <2>2, <2>3, <2>4, Zenon DEF Keyed
    <3>2. PICK n, ks, F : n \in Nat /\ n = 10 /\ ks = Applicators /\ F = A /\ Keyed(s, n, ks, F)
      BY <3>1
    <3>. n \in Nat
      BY <3>2
    <3>3. Keyed(s, n, ks, F)
      BY <3>2
    <3>4. Ordered(s, n, ks, F, FlattenSeq(F))
      BY ONLY <3>3, n \in Nat, KeyedUnder
    <3>. QED
      BY <3>2, <3>4, Zenon DEF Ordered
  <2>6. \A p \in Elements(FlattenSeq(A)) : p[1] \in kept
    BY <2>1, <2>4, <2>5
  <2>. QED
    BY <2>5, <2>6 DEF Under
<1>2. Under(s, FlattenSeq(C), Grouped)
  <2>1. /\ DOMAIN Containers = 1..5
        /\ \A i \in 1..5 : Containers[i] \in PathStep
        /\ \A i \in 1..5 : Containers[i] \in Grouped
    BY DEF Containers, PathStep, Grouped
  <2>2. \A i, j \in 1..5 : Containers[i] = Containers[j] => i = j
    BY DEF Containers
  <2>3. C = [i \in 1..5 |-> C[i]] /\ \A i \in 1..5 : C[i] = MemberPositions(s, Containers[i])
    BY <2>1
  <2>. HIDE DEF C
  <2>4. \A i \in 1..5 : Under(s, C[i], {Containers[i]})
    BY <2>1, <2>3, MembersUnder
  <2>5. /\ Placed(s, FlattenSeq(C))
        /\ \A p \in Elements(FlattenSeq(C)) :
              \E i \in 1..5 : p \in Elements(C[i]) /\ p[1] = Containers[i]
    <3>1. Keyed(s, 5, Containers, C)
      BY <2>2, <2>3, <2>4, Zenon DEF Keyed
    <3>2. PICK n, ks, F : n \in Nat /\ n = 5 /\ ks = Containers /\ F = C /\ Keyed(s, n, ks, F)
      BY <3>1
    <3>. n \in Nat
      BY <3>2
    <3>3. Keyed(s, n, ks, F)
      BY <3>2
    <3>4. Ordered(s, n, ks, F, FlattenSeq(F))
      BY ONLY <3>3, n \in Nat, KeyedUnder
    <3>. QED
      BY <3>2, <3>4, Zenon DEF Ordered
  <2>. QED
    BY <2>1, <2>5 DEF Under
<1>3. Under(s, FlattenSeq(L), Listed)
  <2>1. /\ DOMAIN Lists = 1..4
        /\ \A i \in 1..4 : Lists[i] \in PathStep
        /\ \A i \in 1..4 : Lists[i] \in Listed
    BY DEF Lists, PathStep, Listed
  <2>2. \A i, j \in 1..4 : Lists[i] = Lists[j] => i = j
    BY DEF Lists
  <2>3. L = [i \in 1..4 |-> L[i]] /\ \A i \in 1..4 : L[i] = ItemPositions(s, Lists[i])
    BY <2>1
  <2>. HIDE DEF L
  <2>4. \A i \in 1..4 : Under(s, L[i], {Lists[i]})
    BY <2>1, <2>3, ItemsUnder
  <2>5. /\ Placed(s, FlattenSeq(L))
        /\ \A p \in Elements(FlattenSeq(L)) :
              \E i \in 1..4 : p \in Elements(L[i]) /\ p[1] = Lists[i]
    <3>1. Keyed(s, 4, Lists, L)
      BY <2>2, <2>3, <2>4, Zenon DEF Keyed
    <3>2. PICK n, ks, F : n \in Nat /\ n = 4 /\ ks = Lists /\ F = L /\ Keyed(s, n, ks, F)
      BY <3>1
    <3>. n \in Nat
      BY <3>2
    <3>3. Keyed(s, n, ks, F)
      BY <3>2
    <3>4. Ordered(s, n, ks, F, FlattenSeq(F))
      BY ONLY <3>3, n \in Nat, KeyedUnder
    <3>. QED
      BY <3>2, <3>4, Zenon DEF Ordered
  <2>. QED
    BY <2>1, <2>5 DEF Under
<1>4. Under(s, last, rest)
  <2>1. "items" \in PathStep
    BY DEF PathStep
  <2>2. Under(s, last, {"items"})
    BY <2>1, ItemsUnder
  <2>3. CASE find(s, "items").t = "array"
    BY <2>2, <2>3
  <2>4. CASE find(s, "items").t # "array"
    <3>1. last = <<>>
      BY <2>4 DEF ItemPositions
    <3>. QED
      BY <3>1, PlacedNone, NoElements DEF Under
  <2>. QED
    BY <2>3, <2>4
<1>5. Under(s, Dependencies(s), {"dependencies"})
  BY DependenciesUnder
<1>6. Positions(s) = (((FlattenSeq(A) \o FlattenSeq(C)) \o Dependencies(s)) \o FlattenSeq(L)) \o last
  BY DEF Positions
<1>7. ~(isSchemaNode(find(s, "items")) /\ find(s, "items").t = "array")
  BY DEF isSchemaNode
<1>8. /\ kept \intersect Grouped = {}
      /\ (kept \union Grouped) \intersect {"dependencies"} = {}
      /\ ((kept \union Grouped) \union {"dependencies"}) \intersect Listed = {}
      /\ (((kept \union Grouped) \union {"dependencies"}) \union Listed) \intersect rest = {}
  BY <1>7 DEF Simple, Grouped, Listed
<1>. HIDE DEF A, C, L, last, kept, rest
<1>9. Under(s, FlattenSeq(A) \o FlattenSeq(C), kept \union Grouped)
  BY ONLY <1>1, <1>2, <1>8, UnderJoined
<1>10. Under(s, (FlattenSeq(A) \o FlattenSeq(C)) \o Dependencies(s),
             (kept \union Grouped) \union {"dependencies"})
  BY ONLY <1>5, <1>8, <1>9, UnderJoined
<1>11. Under(s, ((FlattenSeq(A) \o FlattenSeq(C)) \o Dependencies(s)) \o FlattenSeq(L),
             ((kept \union Grouped) \union {"dependencies"}) \union Listed)
  BY ONLY <1>3, <1>8, <1>10, UnderJoined
<1>12. Under(s, (((FlattenSeq(A) \o FlattenSeq(C)) \o Dependencies(s)) \o FlattenSeq(L)) \o last,
             (((kept \union Grouped) \union {"dependencies"}) \union Listed) \union rest)
  BY ONLY <1>4, <1>8, <1>11, UnderJoined
<1>. QED
  BY <1>6, <1>12, Zenon DEF Under

-----------------------------------------------------------------------------
(* The walk.                                                               *)

\* Path p leads to what q leads to, or to something it is in.
Prefix(p, q) ==
    p \in Path /\ q \in Path /\ Len(p) <= Len(q) /\ \A i \in 1..Len(p) : p[i] = q[i]

Above(m, n) == m[1] = n[1] /\ Prefix(m[2], n[2])

\* A node of a document that there is.
IsNode(n) == n = <<n[1], n[2]>> /\ n[2] \in Path /\ Schema(n) \in Values

\* Its document is the caller's, or one that was loaded into the resources res.
Located(n, res) == n[1] \in {RootDocument} \union DOMAIN res

\* What is indexed, or is to be, has the root and the policy of its resource.
Held(t, res) ==
    t.base # NoUri =>
        /\ t.base \in DOMAIN res
        /\ res[t.base].root = t.root /\ res[t.base].policy = t.policy

\* No resource begins at a node that is still to visit or below it, unless that
\* node is the root of its own resource.
Foremost(v, res) ==
    \A b \in DOMAIN res : Above(v.node, res[b].root) =>
        /\ res[b].root = v.node /\ v.root = v.node
        /\ res[b].policy = v.policy

Expected(v, res) ==
    IsNode(v.node) /\ Located(v.node, res) /\ Held(v, res) /\ Foremost(v, res)

\* No visit is of a node below that of another.
Apart(vs) == \A i, j \in 1..Len(vs) : i # j => ~Above(vs[i].node, vs[j].node)

Walked(res, nodes, vs) ==
    /\ \A b \in DOMAIN res : Located(res[b].root, res)
    /\ \A n \in DOMAIN nodes : Held(nodes[n], res)
    /\ IsSequence(vs) /\ (\A i \in 1..Len(vs) : Expected(vs[i], res)) /\ Apart(vs)

Walkable(x) == {"resources", "nodeTargets"} \subseteq DOMAIN x

WalkInv ==
    /\ Walkable(index)
    /\ phase = "contract" => index = EmptyIndex /\ visits = <<>> /\ requested = <<>>
    /\ Walked(index.resources, index.nodeTargets, visits)

\* The resources r are those of res, and some whose root is n.
Grows(res, r, n) ==
    /\ DOMAIN res \subseteq DOMAIN r
    /\ \A b \in DOMAIN res : r[b].root = res[b].root /\ r[b].policy = res[b].policy
    /\ \A b \in DOMAIN r \ DOMAIN res : r[b].root = n

\* What is indexed stays in its resource when others begin.
LEMMA GrowsHeld ==
    ASSUME NEW res, NEW r, NEW n, Grows(res, r, n), NEW t, Held(t, res)
    PROVE  Held(t, r)
BY DEF Grows, Held

\* And in its document.
LEMMA GrowsLocated ==
    ASSUME NEW res, NEW r, NEW n, Grows(res, r, n), NEW m, Located(m, res)
    PROVE  Located(m, r)
BY DEF Grows, Located

\* A visit that is apart from the node that was visited.
LEMMA GrowsExpected ==
    ASSUME NEW res, NEW r, NEW n, Grows(res, r, n), NEW w, Expected(w, res), ~Above(w.node, n)
    PROVE  Expected(w, r)
<1>1. Foremost(w, r)
  <2>1. ASSUME NEW b \in DOMAIN r, Above(w.node, r[b].root)
        PROVE  r[b].root = w.node /\ w.root = w.node /\ r[b].policy = w.policy
    <3>1. b \in DOMAIN res
      BY <2>1 DEF Grows
    <3>. QED
      BY <2>1, <3>1 DEF Grows, Expected, Foremost
  <2>. QED
    BY <2>1 DEF Foremost
<1>. QED
  BY <1>1, GrowsHeld, GrowsLocated DEF Expected

\* A path has a length.
LEMMA PathIs ==
    ASSUME NEW p \in Path
    PROVE  Len(p) \in Nat
BY DEF Path

\* What is in something is in what that is in.
LEMMA PrefixTransitive ==
    ASSUME NEW p, NEW q, NEW r, Prefix(p, q), Prefix(q, r)
    PROVE  Prefix(p, r)
<1>1. /\ p \in Path /\ q \in Path /\ r \in Path
      /\ Len(p) \in Nat /\ Len(q) \in Nat /\ Len(r) \in Nat
  BY PathIs DEF Prefix
<1>2. Len(p) <= Len(q) /\ Len(q) <= Len(r)
  BY DEF Prefix
<1>3. Len(p) <= Len(r) /\ 1..Len(p) \subseteq 1..Len(q)
  BY <1>1, <1>2
<1>4. ASSUME NEW i \in 1..Len(p) PROVE p[i] = r[i]
  BY <1>3 DEF Prefix
<1>. QED
  BY <1>1, <1>3, <1>4 DEF Prefix

\* A path that goes on, step by step.
LEMMA PrefixJoined ==
    ASSUME NEW p \in Path, NEW q \in Path
    PROVE  /\ p \o q \in Path /\ Len(p \o q) = Len(p) + Len(q)
           /\ \A i \in 1..Len(p) : (p \o q)[i] = p[i]
           /\ \A i \in 1..Len(q) : (p \o q)[Len(p) + i] = q[i]
<1>0. PICK r : r = p \o q
  OBVIOUS
<1>1. PICK S : S = PathStep
  OBVIOUS
<1>2. p \in Seq(S) /\ q \in Seq(S)
  BY <1>1 DEF Path
<1>3. /\ r \in Seq(S) /\ Len(r) = Len(p) + Len(q) /\ Len(p) \in Nat /\ Len(q) \in Nat
      /\ \A i \in 1..(Len(p) + Len(q)) : r[i] = IF i <= Len(p) THEN p[i] ELSE q[i - Len(p)]
  BY <1>0, <1>2, ConcatProperties, LenProperties
<1>4. ASSUME NEW i \in 1..Len(q) PROVE r[Len(p) + i] = q[i]
  <2>1. PICK n : n = Len(p) + i
    OBVIOUS
  <2>2. n \in 1..(Len(p) + Len(q)) /\ ~(n <= Len(p)) /\ n - Len(p) = i
    BY <1>3, <2>1
  <2>. QED
    BY <1>3, <2>1, <2>2
<1>5. \A i \in 1..Len(p) : r[i] = p[i]
  BY <1>3
<1>6. r \in Path
  BY <1>1, <1>3 DEF Path
<1>. QED
  BY <1>0, <1>3, <1>4, <1>5, <1>6

\* A node and one below it.
LEMMA BelowIs ==
    ASSUME NEW n, IsNode(n), NEW p, Position(Schema(n), p)
    PROVE  /\ IsNode(Below(n, p)) /\ Below(n, p)[1] = n[1]
           /\ Below(n, p)[2] = n[2] \o p /\ Above(n, Below(n, p)) /\ ~Above(Below(n, p), n)
<1>1. p \in Path /\ Len(p) \in 1..2 /\ At(Schema(n), p) \in Values
  BY DEF Position
<1>2. n = <<n[1], n[2]>> /\ n[2] \in Path
  BY DEF IsNode
<1>3. PICK m : m = Below(n, p)
  OBVIOUS
<1>4. m = <<n[1], n[2] \o p>>
  BY <1>3 DEF Below
<1>5. m[1] = n[1] /\ m[2] = n[2] \o p /\ m = <<m[1], m[2]>>
  BY <1>4
<1>6. /\ m[2] \in Path /\ Len(m[2]) = Len(n[2]) + Len(p) /\ Len(n[2]) \in Nat
      /\ \A i \in 1..Len(n[2]) : m[2][i] = n[2][i]
  BY <1>1, <1>2, <1>5, PrefixJoined, PathIs
<1>7. Above(n, m) /\ ~Above(m, n)
  <2>1. PICK k, l, c : k = Len(n[2]) /\ l = Len(m[2]) /\ c = Len(p)
    OBVIOUS
  <2>2. k <= l /\ ~(l <= k)
    <3>1. k \in Nat /\ c \in 1..2 /\ l = k + c
      BY ONLY <1>1, <1>6, <2>1
    <3>. QED
      BY ONLY <3>1
  <2>3. Prefix(n[2], m[2]) /\ ~Prefix(m[2], n[2])
    BY <1>2, <1>6, <2>1, <2>2 DEF Prefix
  <2>. QED
    BY <1>5, <2>3 DEF Above
<1>8. Schema(m) \in Values
  <2>1. PICK x : x = IF n[1] = RootDocument THEN in.schema ELSE Answer(n[1]).value
    OBVIOUS
  <2>2. Schema(n) = At(x, n[2]) /\ Schema(m) = At(x, n[2] \o p)
    BY <1>5, <2>1, Zenon DEF Schema
  <2>3. PICK S : S = PathStep
    OBVIOUS
  <2>4. n[2] \in Seq(S) /\ p \in Seq(S)
    BY <1>1, <1>2, <2>3 DEF Path
  <2>5. At(x, n[2] \o p) = At(At(x, n[2]), p)
    BY <2>4, AtConcat
  <2>. QED
    BY <1>1, <2>2, <2>5
<1>9. IsNode(m)
  BY <1>5, <1>6, <1>8 DEF IsNode
<1>. QED
  BY <1>3, <1>5, <1>7, <1>9

\* A node below a node that is below another.
LEMMA AboveTransitive ==
    ASSUME NEW l, NEW m, NEW n, Above(l, m), Above(m, n)
    PROVE  Above(l, n)
BY PrefixTransitive DEF Above

\* A node below one that is visited, and a visit that is apart from that one.
LEMMA BelowApart ==
    ASSUME NEW n, IsNode(n), NEW p, Position(Schema(n), p), NEW m, IsNode(m),
           ~Above(n, m), ~Above(m, n)
    PROVE  ~Above(Below(n, p), m) /\ ~Above(m, Below(n, p))
<1>. DEFINE l == Below(n, p)
<1>1. /\ IsNode(l) /\ l[1] = n[1] /\ l[2] = n[2] \o p /\ Above(n, l)
  BY BelowIs
<1>. HIDE DEF l
<1>2. /\ n[2] \in Path /\ m[2] \in Path /\ p \in Path
  BY DEF IsNode, Position
<1>3. ~Above(l, m)
  BY <1>1, AboveTransitive
<1>4. ASSUME Above(m, l) PROVE FALSE
  <2>1. m[1] = n[1] /\ Prefix(m[2], l[2])
    BY <1>1, <1>4 DEF Above
  <2>2. PICK i, j : i = Len(m[2]) /\ j = Len(n[2]) /\ i \in Nat /\ j \in Nat
    BY <1>2, PathIs
  <2>3. \A k \in 1..j : l[2][k] = n[2][k]
    BY <1>1, <1>2, <2>2, PrefixJoined
  <2>4. \A k \in 1..i : m[2][k] = l[2][k]
    BY <2>1, <2>2 DEF Prefix
  <2>5. CASE i <= j
    <3>1. Prefix(m[2], n[2])
      BY <1>2, <2>2, <2>3, <2>4, <2>5 DEF Prefix
    <3>. QED
      BY <2>1, <3>1 DEF Above
  <2>6. CASE ~(i <= j)
    <3>1. Prefix(n[2], m[2])
      BY <1>2, <2>2, <2>3, <2>4, <2>6 DEF Prefix
    <3>. QED
      BY <2>1, <3>1 DEF Above
  <2>. QED
    BY <2>2, <2>5, <2>6
<1>. QED
  BY <1>3, <1>4 DEF l

\* Two nodes below one.
LEMMA BelowBoth ==
    ASSUME NEW n, IsNode(n), NEW p, Position(Schema(n), p), NEW q, Position(Schema(n), q),
           Separate(p, q)
    PROVE  ~Above(Below(n, p), Below(n, q))
<1>1. PICK l, m : l = Below(n, p) /\ m = Below(n, q)
  OBVIOUS
<1>2. l[2] = n[2] \o p /\ m[2] = n[2] \o q
  BY <1>1, BelowIs
<1>3. n[2] \in Path /\ p \in Path /\ q \in Path /\ Len(p) \in 1..2 /\ Len(q) \in 1..2
  BY DEF IsNode, Position
<1>4. PICK j : j = Len(n[2]) /\ j \in Nat
  BY <1>3, PathIs
<1>5. /\ Len(l[2]) = j + Len(p) /\ (\A i \in 1..Len(p) : l[2][j + i] = p[i])
      /\ Len(m[2]) = j + Len(q) /\ (\A i \in 1..Len(q) : m[2][j + i] = q[i])
  BY <1>2, <1>3, <1>4, PrefixJoined
<1>6. ASSUME Prefix(l[2], m[2]) PROVE FALSE
  <2>1. \A i \in 1..(j + Len(p)) : l[2][i] = m[2][i]
    BY <1>5, <1>6 DEF Prefix
  <2>2. 1 \in 1..Len(p) /\ 1 \in 1..Len(q) /\ j + 1 \in 1..(j + Len(p))
    BY <1>3, <1>4
  <2>3. p[1] = q[1]
    BY <1>5, <2>1, <2>2
  <2>4. Len(p) = 2 /\ Len(q) = 2 /\ p[2] # q[2]
    BY <2>3 DEF Separate
  <2>5. 2 \in 1..Len(p) /\ 2 \in 1..Len(q) /\ j + 2 \in 1..(j + Len(p))
    BY <1>4, <2>4
  <2>. QED
    BY <1>5, <2>1, <2>4, <2>5
<1>. QED
  BY <1>1, <1>6 DEF Above

\* A node below one that was visited is expected in the same resource.
LEMMA BelowExpected ==
    ASSUME NEW v, NEW res, Expected(v, res), NEW r, Grows(res, r, v.node),
           NEW p, Position(Schema(v.node), p),
           NEW w, w.node = Below(v.node, p), Held(w, r)
    PROVE  Expected(w, r)
<1>1. /\ IsNode(v.node) /\ Located(v.node, r) /\ Foremost(v, res)
  BY GrowsLocated DEF Expected
<1>2. /\ IsNode(w.node) /\ w.node[1] = v.node[1] /\ Above(v.node, w.node)
      /\ ~Above(w.node, v.node)
  BY <1>1, BelowIs
<1>3. Located(w.node, r)
  BY <1>1, <1>2 DEF Located
<1>4. ASSUME NEW b \in DOMAIN r, Above(w.node, r[b].root) PROVE FALSE
  <2>1. r[b].root # v.node
    BY <1>2, <1>4
  <2>2. b \in DOMAIN res /\ Above(w.node, res[b].root)
    BY <1>4, <2>1 DEF Grows
  <2>3. Above(v.node, res[b].root)
    BY <1>2, <2>2, AboveTransitive
  <2>4. res[b].root = v.node
    BY <1>1, <2>2, <2>3 DEF Foremost
  <2>. QED
    BY <2>1, <2>2, <2>4 DEF Grows
<1>5. Foremost(w, r)
  BY <1>4 DEF Foremost
<1>. QED
  BY <1>2, <1>3, <1>5 DEF Expected

\* The visits cs that a visit v adds.
Brood(v, cs, r) ==
    /\ IsSequence(cs) /\ Apart(cs)
    /\ \A i \in 1..Len(cs) :
          /\ Expected(cs[i], r)
          /\ \E p : Position(Schema(v.node), p) /\ cs[i].node = Below(v.node, p)

\* A visit that adds none.
LEMMA NoBrood == ASSUME NEW v, NEW r PROVE Brood(v, <<>>, r)
BY NoElements DEF Brood, Apart

\* The visits of the schemas below a node that was visited.
LEMMA ChildrenAreBrood ==
    ASSUME NEW v, NEW res, Expected(v, res), NEW r, Grows(res, r, v.node),
           NEW target, Held(target, r)
    PROVE  Brood(v, Children(v, target, Positions(Schema(v.node))), r)
<1>1. PICK P : P = Positions(Schema(v.node))
  OBVIOUS
<1>2. PICK cs : cs = Children(v, target, P)
  OBVIOUS
<1>3. IsNode(v.node) /\ Schema(v.node) \in Values
  BY DEF Expected, IsNode
<1>4. IsSequence(P) /\ (\A p \in Elements(P) : Position(Schema(v.node), p)) /\ Parted(P)
  <2>1. Placed(Schema(v.node), P)
    BY <1>1, <1>3, PositionsPlaced
  <2>. QED
    BY <2>1 DEF Placed
<1>5. PICK n \in Nat : n = Len(P) /\ DOMAIN P = 1..n
  BY <1>4 DEF IsSequence
<1>6. /\ cs = [i \in 1..n |-> cs[i]]
      /\ \A i \in 1..n : cs[i] = Visiting(Below(v.node, P[i]), target.root, target.base,
                                          target.policy, v.level + 1)
  BY <1>2, <1>5 DEF Children
<1>7. IsSequence(cs) /\ Len(cs) = n
  BY <1>6, FunctionSequence
<1>8. ASSUME NEW i \in 1..n
      PROVE  /\ cs[i].node = Below(v.node, P[i]) /\ Position(Schema(v.node), P[i])
             /\ Expected(cs[i], r)
  <2>1. PICK w : w = cs[i]
    OBVIOUS
  <2>2. /\ w.node = Below(v.node, P[i]) /\ w.root = target.root /\ w.base = target.base
        /\ w.policy = target.policy
    BY <1>6, <2>1 DEF Visiting
  <2>3. Position(Schema(v.node), P[i])
    BY <1>4, <1>5, ElementsOf
  <2>4. Held(w, r)
    BY <2>2 DEF Held
  <2>5. Expected(w, r)
    BY <2>2, <2>3, <2>4, BelowExpected
  <2>. QED
    BY <2>1, <2>2, <2>3, <2>5
<1>9. ASSUME NEW i \in 1..n, NEW j \in 1..n, i # j PROVE ~Above(cs[i].node, cs[j].node)
  <2>1. Separate(P[i], P[j])
    BY <1>4, <1>5, <1>9 DEF Parted
  <2>2. ~Above(Below(v.node, P[i]), Below(v.node, P[j]))
    BY <1>3, <1>8, <2>1, BelowBoth
  <2>. QED
    BY <1>8, <2>2
<1>10. Apart(cs)
  BY <1>7, <1>9 DEF Apart
<1>11. \A i \in 1..Len(cs) :
          /\ Expected(cs[i], r)
          /\ \E p : Position(Schema(v.node), p) /\ cs[i].node = Below(v.node, p)
  BY <1>7, <1>8
<1>12. Brood(v, cs, r)
  BY <1>7, <1>10, <1>11 DEF Brood
<1>. QED
  BY <1>1, <1>2, <1>12

\* The walk goes on with what a visit adds, in front of the rest.
LEMMA WalkGoesOn ==
    ASSUME NEW res, NEW nodes, NEW vs, Walked(res, nodes, vs), vs # <<>>,
           NEW r, Grows(res, r, Head(vs).node), NEW cs, Brood(Head(vs), cs, r),
           NEW held, \A n \in DOMAIN held : Held(held[n], r)
    PROVE  Walked(r, held, cs \o Tail(vs))
<1>1. /\ IsSequence(vs) /\ (\A i \in 1..Len(vs) : Expected(vs[i], res)) /\ Apart(vs)
      /\ \A b \in DOMAIN res : Located(res[b].root, res)
  BY DEF Walked
<1>2. /\ Len(vs) \in Nat \ {0} /\ IsSequence(Tail(vs)) /\ Len(Tail(vs)) = Len(vs) - 1
      /\ \A i \in 1..(Len(vs) - 1) : Tail(vs)[i] = vs[i + 1]
      /\ Head(vs) = vs[1]
  BY <1>1, TailSequence
<1>3. PICK v, ts, ws : v = Head(vs) /\ ts = Tail(vs) /\ ws = cs \o ts
  OBVIOUS
<1>4. v = vs[1] /\ Expected(v, res) /\ IsNode(v.node)
  BY <1>1, <1>2, <1>3 DEF Expected
<1>5. IsSequence(ts) /\ IsSequence(cs)
  BY <1>2, <1>3 DEF Brood
<1>6. ASSUME NEW i \in 1..Len(ts)
      PROVE  /\ ts[i] = vs[i + 1] /\ i + 1 \in 2..Len(vs)
             /\ Expected(ts[i], res) /\ IsNode(ts[i].node)
             /\ ~Above(ts[i].node, v.node) /\ ~Above(v.node, ts[i].node)
             /\ Expected(ts[i], r)
  <2>1. ts[i] = vs[i + 1] /\ i + 1 \in 2..Len(vs)
    BY <1>2, <1>3
  <2>2. PICK k : k = i + 1 /\ k \in 1..Len(vs) /\ k # 1 /\ 1 \in 1..Len(vs)
    BY <1>2, <2>1
  <2>3. Expected(ts[i], res) /\ ~Above(ts[i].node, v.node) /\ ~Above(v.node, ts[i].node)
    BY <1>1, <1>4, <2>1, <2>2 DEF Apart
  <2>4. Expected(ts[i], r)
    BY <1>3, <2>3, GrowsExpected
  <2>. QED
    BY <2>1, <2>3, <2>4 DEF Expected
<1>7. /\ IsSequence(ws) /\ Len(cs) \in Nat /\ Len(ts) \in Nat
      /\ \A i \in 1..Len(cs) : ws[i] = cs[i]
      /\ \A i \in 1..Len(ws) :
            i \in 1..Len(cs) \/ (i - Len(cs) \in 1..Len(ts) /\ ws[i] = ts[i - Len(cs)])
  <2>1. Joins(cs, ts, cs \o ts)
    BY <1>5, ConcatIs, Zenon
  <2>2. Joins(cs, ts, ws)
    BY <1>3, <2>1, Zenon
  <2>. QED
    BY <2>2, Zenon DEF Joins
<1>8. ASSUME NEW i \in 1..Len(cs)
      PROVE  Expected(cs[i], r) /\ \E p : Position(Schema(v.node), p)
                                          /\ cs[i].node = Below(v.node, p)
  BY <1>3 DEF Brood
<1>9. ASSUME NEW i \in 1..Len(cs), NEW j \in 1..Len(ts)
      PROVE  ~Above(cs[i].node, ts[j].node) /\ ~Above(ts[j].node, cs[i].node)
  <2>1. PICK p : Position(Schema(v.node), p) /\ cs[i].node = Below(v.node, p)
    BY <1>8
  <2>2. ~Above(Below(v.node, p), ts[j].node) /\ ~Above(ts[j].node, Below(v.node, p))
    BY <1>4, <1>6, <2>1, BelowApart
  <2>. QED
    BY <2>1, <2>2
<1>10. ASSUME NEW i \in 1..Len(ws) PROVE Expected(ws[i], r)
  <2>1. CASE i \in 1..Len(cs)
    BY <1>7, <1>8, <2>1
  <2>2. CASE i \notin 1..Len(cs)
    BY <1>6, <1>7, <2>2
  <2>. QED
    BY <2>1, <2>2
<1>11. ASSUME NEW i \in 1..Len(ws), NEW j \in 1..Len(ws), i # j
       PROVE  ~Above(ws[i].node, ws[j].node)
  <2>1. CASE i \in 1..Len(cs) /\ j \in 1..Len(cs)
    <3>1. Apart(cs)
      BY DEF Brood
    <3>. QED
      BY <1>7, <1>11, <2>1, <3>1 DEF Apart
  <2>2. CASE i \in 1..Len(cs) /\ j \notin 1..Len(cs)
    BY <1>7, <1>9, <2>2
  <2>3. CASE i \notin 1..Len(cs) /\ j \in 1..Len(cs)
    BY <1>7, <1>9, <2>3
  <2>4. CASE i \notin 1..Len(cs) /\ j \notin 1..Len(cs)
    <3>1. PICK k \in 1..Len(ts), l \in 1..Len(ts) :
             k = i - Len(cs) /\ l = j - Len(cs) /\ ws[i] = ts[k] /\ ws[j] = ts[l]
      BY <1>7, <2>4
    <3>2. k # l /\ k + 1 # l + 1
      BY <1>7, <1>11, <3>1
    <3>3. /\ ts[k] = vs[k + 1] /\ k + 1 \in 2..Len(vs)
          /\ ts[l] = vs[l + 1] /\ l + 1 \in 2..Len(vs)
      BY <1>6
    <3>4. PICK x, y : /\ x \in 1..Len(vs) /\ y \in 1..Len(vs)
                      /\ x # y /\ ts[k] = vs[x] /\ ts[l] = vs[y]
      <4>1. 2..Len(vs) \subseteq 1..Len(vs)
        BY <1>2
      <4>. QED
        BY <3>2, <3>3, <4>1
    <3>. QED
      BY <1>1, <3>1, <3>4 DEF Apart
  <2>. QED
    BY <2>1, <2>2, <2>3, <2>4
<1>12. \A b \in DOMAIN r : Located(r[b].root, r)
  <2>1. ASSUME NEW b \in DOMAIN r PROVE Located(r[b].root, r)
    <3>1. CASE b \in DOMAIN res
      BY <1>1, <1>3, <3>1, GrowsLocated DEF Grows
    <3>2. CASE b \notin DOMAIN res
      <4>1. r[b].root = v.node
        BY <1>3, <3>2 DEF Grows
      <4>. QED
        BY <1>3, <1>4, <4>1, GrowsLocated DEF Expected
    <3>. QED
      BY <3>1, <3>2
  <2>. QED
    BY <2>1
<1>13. Walked(r, held, ws)
  BY <1>7, <1>10, <1>11, <1>12 DEF Walked, Apart
<1>. QED
  BY <1>3, <1>13

\* Index y has the resources and the nodes of index x.
Leaves(x, y) == Walkable(y) /\ y.resources = x.resources /\ y.nodeTargets = x.nodeTargets

\* A dialect touches neither.
LEMMA ContractLeaves ==
    ASSUME NEW idx, Walkable(idx), NEW s, NEW errors
    PROVE  Leaves(idx, compileDialectContract(s, idx, errors).index)
<1>. DEFINE text == DialectOf(s)
            loaded == loadDialectDocument(text, idx, errors)
            c == compileDialectContract(s, idx, errors)
<1>1. Leaves(idx, idx)
  BY DEF Leaves
<1>2. PICK y : y = [idx EXCEPT !.dialectDocuments = Append(@, text),
                               !.resolvedBytes = @ + Answer(DialectUri(text)).bytes]
  OBVIOUS
<1>3. Leaves(idx, y)
  BY <1>2 DEF Leaves, Walkable
<1>4. \/ \E p, e : loaded = ContractOf(p, idx, e)
      \/ \E p, e : loaded = ContractOf(p, y, e)
  BY <1>2 DEF loadDialectDocument
<1>. HIDE DEF loaded
<1>5. DOMAIN loaded = {"policy", "index", "errors"} /\ loaded.index \in {idx, y}
  BY <1>4 DEF ContractOf
<1>6. \A declared, x : Declared(declared, x).index = x.index
  BY DEF Declared, ContractOf
<1>7. \A p, e : ContractOf(p, idx, e).index = idx
  BY DEF ContractOf
<1>8. \A e : [loaded EXCEPT !.errors = e].index = loaded.index
  BY <1>5
<1>9. \/ \E p, e : c = ContractOf(p, idx, e)
      \/ \E p, e, declared : c = Declared(declared, ContractOf(p, idx, e))
      \/ c = loaded
      \/ \E e : c = [loaded EXCEPT !.errors = e]
      \/ \E declared : c = Declared(declared, loaded)
  BY DEF compileDialectContract, loaded
<1>. HIDE DEF c
<1>10. c.index \in {idx, y}
  <2>1. CASE \E p, e : c = ContractOf(p, idx, e)
    BY <1>7, <2>1
  <2>2. CASE \E p, e, declared : c = Declared(declared, ContractOf(p, idx, e))
    <3>1. PICK p, e, declared : c = Declared(declared, ContractOf(p, idx, e))
      BY <2>2
    <3>2. c.index = ContractOf(p, idx, e).index
      BY <1>6, <3>1
    <3>. QED
      BY <1>7, <3>2
  <2>3. CASE \E e : c = [loaded EXCEPT !.errors = e]
    BY <1>5, <1>8, <2>3
  <2>4. CASE \E declared : c = Declared(declared, loaded)
    BY <1>5, <1>6, <2>4
  <2>. QED
    BY <1>5, <1>9, <2>1, <2>2, <2>3, <2>4
<1>. QED
  BY <1>1, <1>3, <1>10 DEF c

\* What a visit leaves of an index and of the walk.
Visited(v, x, left) ==
    /\ Walkable(left.index) /\ Grows(x.resources, left.index.resources, v.node)
    /\ \A n \in DOMAIN left.index.nodeTargets :
          Held(left.index.nodeTargets[n], left.index.resources)
    /\ Brood(v, left.children, left.index.resources)

AllHeld(x) == \A n \in DOMAIN x.nodeTargets : Held(x.nodeTargets[n], x.resources)

\* A visit that indexes nothing.
LEMMA NothingVisited ==
    ASSUME NEW v, NEW x, Walkable(x), AllHeld(x), NEW y, Leaves(x, y), NEW e
    PROVE  Visited(v, x, Left(y, e, <<>>))
<1>1. Left(y, e, <<>>).index = y /\ Left(y, e, <<>>).children = <<>>
  BY DEF Left
<1>2. Grows(x.resources, y.resources, v.node)
  BY DEF Leaves, Grows
<1>. QED
  BY <1>1, <1>2, NoBrood DEF Visited, Leaves, AllHeld

\* One that indexes the node v.node.
LEMMA NodePut ==
    ASSUME NEW v, NEW x, AllHeld(x), NEW r, Grows(x.resources, r, v.node), NEW t, Held(t, r),
           NEW held, held = Put(x.nodeTargets, v.node, t)
    PROVE  \A n \in DOMAIN held : Held(held[n], r)
<1>0. /\ DOMAIN held = DOMAIN x.nodeTargets \union {v.node} /\ held[v.node] = t
      /\ \A d \in DOMAIN x.nodeTargets \ {v.node} : held[d] = x.nodeTargets[d]
  BY DEF Put
<1>1. ASSUME NEW n \in DOMAIN held PROVE Held(held[n], r)
  <2>1. CASE n = v.node
    BY <1>0, <2>1
  <2>2. CASE n # v.node
    <3>1. n \in DOMAIN x.nodeTargets /\ held[n] = x.nodeTargets[n]
      BY <1>0, <2>2
    <3>2. Held(x.nodeTargets[n], x.resources)
      BY <3>1 DEF AllHeld
    <3>. QED
      BY <3>1, <3>2, GrowsHeld
  <2>. QED
    BY <2>1, <2>2
<1>. QED
  BY <1>1

\* The anchors and the references add the visits of the schemas below, or none.
LEMMA NamedLeaves ==
    ASSUME NEW v, NEW s, NEW target, NEW idx, Walkable(idx), NEW errors
    PROVE  /\ Leaves(idx, Named(v, s, target, idx, errors).index)
           /\ Named(v, s, target, idx, errors).children \in
                 {<<>>, Children(v, target, Positions(s))}
<1>. DEFINE left == Named(v, s, target, idx, errors)
            y == left.index
<1>1. \/ y = idx
      \/ \E a : y = [idx EXCEPT !.anchors = a]
      \/ \E a, d, p : y = [idx EXCEPT !.anchors = a, !.dynamicAnchors = d,
                                      !.pendingDocuments = p]
  BY DEF Named, Left
<1>2. left.children \in {<<>>, Children(v, target, Positions(s))}
  <2>. DEFINE cs == Children(v, target, Positions(s))
  <2>. HIDE DEF cs
  <2>1. \A x, e, c : Left(x, e, c).children = c
    BY DEF Left
  <2>2. \E x, e : left \in {Left(x, e, <<>>), Left(x, e, cs)}
    BY DEF Named, cs
  <2>. HIDE DEF left
  <2>. QED
    BY <2>1, <2>2 DEF cs
<1>. HIDE DEF y
<1>3. Leaves(idx, y)
  BY <1>1 DEF Leaves, Walkable
<1>. QED
  BY <1>2, <1>3 DEF y

\* An object goes on with the resource it is in or begins one; one that is the
\* root of its resource already keeps the policy.
Claims(v, root, base, policy) ==
    \/ root = v.root /\ base = v.base /\ policy = v.policy
    \/ root = v.node /\ (v.root = v.node => policy = v.policy)

\* A node is where it is.
LEMMA AboveItself == ASSUME NEW n, IsNode(n) PROVE Above(n, n)
<1>1. n[2] \in Path /\ Len(n[2]) \in Nat
  BY PathIs DEF IsNode
<1>. QED
  BY <1>1 DEF Above, Prefix

\* A URI that no other resource has.
LEMMA ClaimGrows ==
    ASSUME NEW v, NEW res, Expected(v, res), NEW root, NEW base, NEW policy,
           Claims(v, root, base, policy),
           base = NoUri \/ base \notin DOMAIN res \/ res[base].root = root,
           NEW r, r = IF base = NoUri THEN res
                      ELSE Put(res, base, Target(root, root, base, policy))
    PROVE  /\ Grows(res, r, v.node)
           /\ Held(Target(v.node, root, base, policy), r)
<1>1. IsNode(v.node) /\ Held(v, res) /\ Foremost(v, res) /\ Above(v.node, v.node)
  BY AboveItself DEF Expected
<1>2. PICK t : t = Target(root, root, base, policy) /\ t.root = root /\ t.policy = policy
  BY DEF Target
<1>3. PICK h : h = Target(v.node, root, base, policy)
  OBVIOUS
<1>. h.root = root /\ h.base = base /\ h.policy = policy
  BY <1>3 DEF Target
<1>4. CASE base = NoUri
  <2>1. Grows(res, r, v.node)
    BY <1>4 DEF Grows
  <2>2. Held(h, r)
    BY <1>3, <1>4 DEF Held
  <2>. QED
    BY <1>3, <2>1, <2>2
<1>5. CASE base # NoUri
  <2>1. /\ DOMAIN r = DOMAIN res \union {base} /\ r[base] = t
        /\ \A d \in DOMAIN res \ {base} : r[d] = res[d]
    BY <1>2, <1>5 DEF Put
  <2>2. ASSUME base \in DOMAIN res PROVE res[base].root = root /\ res[base].policy = policy
    <3>1. res[base].root = root
      BY <1>5, <2>2
    <3>2. CASE root = v.root /\ base = v.base /\ policy = v.policy
      BY <1>1, <1>5, <3>1, <3>2 DEF Held
    <3>3. CASE root = v.node /\ (v.root = v.node => policy = v.policy)
      <4>1. v.root = v.node /\ res[base].policy = v.policy
        BY <1>1, <2>2, <3>1, <3>3 DEF Foremost
      <4>. QED
        BY <3>1, <3>3, <4>1
    <3>. QED
      BY <3>2, <3>3 DEF Claims
  <2>3. ASSUME base \notin DOMAIN res PROVE root = v.node
    BY <1>1, <1>5, <2>3 DEF Claims, Held
  <2>4. \A b \in DOMAIN res : r[b].root = res[b].root /\ r[b].policy = res[b].policy
    BY <1>2, <2>1, <2>2
  <2>5. \A b \in DOMAIN r \ DOMAIN res : r[b].root = v.node
    BY <1>2, <2>1, <2>3
  <2>6. Grows(res, r, v.node)
    BY <2>1, <2>4, <2>5 DEF Grows
  <2>7. Held(h, r)
    BY <1>2, <1>3, <2>1 DEF Held
  <2>. QED
    BY <1>3, <2>6, <2>7
<1>. QED
  BY <1>4, <1>5

\* An object under the contract of its resource.
LEMMA InResourceVisits ==
    ASSUME NEW x, Walkable(x), AllHeld(x), NEW v, Expected(v, x.resources),
           NEW c, Leaves(x, c.index), NEW root, NEW base, Claims(v, root, base, c.policy)
    PROVE  Visited(v, x, InResource(v, Schema(v.node), root, base, c))
<1>. DEFINE s == Schema(v.node)
            left == InResource(v, s, root, base, c)
            target == Target(v.node, root, base, c.policy)
<1>1. CASE Occupied(c.index, base, root)
  <2>1. left = Left(c.index, Append(c.errors, "InvalidSchema"), <<>>)
    BY <1>1 DEF InResource
  <2>. QED
    BY <2>1, NothingVisited
<1>2. CASE ~Occupied(c.index, base, root)
  <2>1. PICK r : r = IF base = NoUri THEN x.resources
                     ELSE Put(x.resources, base, Target(root, root, base, c.policy))
    OBVIOUS
  <2>2. PICK held : held = Put(x.nodeTargets, v.node, target)
    OBVIOUS
  <2>3. c.index.resources = x.resources /\ c.index.nodeTargets = x.nodeTargets /\ Walkable(c.index)
    BY DEF Leaves
  <2>4. PICK y, e : /\ y = [c.index EXCEPT !.resources = r, !.nodeTargets = held]
                    /\ left = Named(v, s, target, y, e)
    BY <1>2, <2>1, <2>2, <2>3 DEF InResource
  <2>5. Walkable(y) /\ y.resources = r /\ y.nodeTargets = held
    BY <2>3, <2>4 DEF Walkable
  <2>6. base = NoUri \/ base \notin DOMAIN x.resources \/ x.resources[base].root = root
    BY <1>2, <2>3 DEF Occupied
  <2>7. Grows(x.resources, r, v.node) /\ Held(target, r)
    BY <2>1, <2>6, ClaimGrows
  <2>8. \A n \in DOMAIN held : Held(held[n], r)
    BY <2>2, <2>7, NodePut
  <2>. HIDE DEF left, target
  <2>9. Leaves(y, left.index) /\ left.children \in {<<>>, Children(v, target, Positions(s))}
    BY <2>4, <2>5, NamedLeaves
  <2>10. left.index.resources = r /\ left.index.nodeTargets = held /\ Walkable(left.index)
    BY <2>5, <2>9 DEF Leaves
  <2>11. Brood(v, left.children, r)
    <3>1. Brood(v, <<>>, r)
      BY NoBrood
    <3>2. Brood(v, Children(v, target, Positions(s)), r)
      BY <2>7, ChildrenAreBrood
    <3>. QED
      BY <2>9, <3>1, <3>2
  <2>12. Visited(v, x, left)
    BY <2>7, <2>8, <2>10, <2>11 DEF Visited
  <2>. QED
    BY <2>12 DEF left
<1>. QED
  BY <1>1, <1>2

\* An object, with or without an $id of its own.
LEMMA ObjectVisited ==
    ASSUME NEW x, Walkable(x), AllHeld(x), NEW v, Expected(v, x.resources)
    PROVE  Visited(v, x, VisitObject(v, Schema(v.node), x))
<1>. DEFINE s == Schema(v.node)
            id == find(s, "$id")
<1>1. Leaves(x, x)
  BY DEF Leaves
<1>2. CASE id.t \notin {"missing", "string"}
  <2>1. VisitObject(v, s, x) = Left(x, Append(schemaErrors, "InvalidSchema"), <<>>)
    BY <1>2 DEF VisitObject
  <2>. QED
    BY <1>1, <2>1, NothingVisited
<1>3. CASE id.t \in {"missing", "string"}
  <2>1. PICK root, base, c :
           /\ VisitObject(v, s, x) = InResource(v, s, root, base, c)
           /\ root = IF id.t = "missing" THEN v.root ELSE v.node
           /\ base = IF id.t = "missing" THEN v.base ELSE resolveUri(v.base, id.v)
           /\ c = IF id.t # "missing" /\ v.root # v.node /\ hasKey(s, "$schema")
                  THEN compileDialectContract(s, x, schemaErrors)
                  ELSE ContractOf(v.policy, x, schemaErrors)
    BY <1>3, Zenon DEF VisitObject
  <2>2. Leaves(x, c.index)
    <3>1. Leaves(x, compileDialectContract(s, x, schemaErrors).index)
      BY ContractLeaves
    <3>2. ContractOf(v.policy, x, schemaErrors).index = x
      BY DEF ContractOf
    <3>. QED
      BY <1>1, <2>1, <3>1, <3>2
  <2>3. Claims(v, root, base, c.policy)
    <3>1. ContractOf(v.policy, x, schemaErrors).policy = v.policy
      BY DEF ContractOf
    <3>2. CASE id.t = "missing"
      BY <2>1, <3>1, <3>2 DEF Claims
    <3>3. CASE id.t # "missing"
      BY <2>1, <3>1, <3>3 DEF Claims
    <3>. QED
      BY <3>2, <3>3
  <2>4. Visited(v, x, InResource(v, s, root, base, c))
    BY <2>2, <2>3, InResourceVisits
  <2>. QED
    BY <2>1, <2>4
<1>. QED
  BY <1>2, <1>3

\* A visit.
LEMMA NodeVisited ==
    ASSUME Walkable(index), AllHeld(index), NEW v, Expected(v, index.resources)
    PROVE  Visited(v, index, VisitNode(v))
<1>1. PICK x : x = [index EXCEPT !.workUsed = @ + 1]
  OBVIOUS
<1>2. Leaves(index, x) /\ Leaves(index, index)
  BY <1>1 DEF Leaves, Walkable
<1>3. /\ Walkable(x) /\ AllHeld(x) /\ Expected(v, x.resources)
      /\ x.resources = index.resources /\ x.nodeTargets = index.nodeTargets
  BY <1>2 DEF Leaves, AllHeld
<1>4. PICK target : target = Target(v.node, v.root, v.base, v.policy)
  OBVIOUS
<1>5. \/ \E e : VisitNode(v) = Left(index, e, <<>>)
      \/ VisitNode(v) = VisitObject(v, Schema(v.node), x)
      \/ \E e : VisitNode(v) =
                   Left([x EXCEPT !.nodeTargets = Put(@, v.node, target)], e, <<>>)
      \/ \E e : VisitNode(v) = Left(x, e, <<>>)
  BY <1>1, <1>4 DEF VisitNode
<1>6. CASE \E e : VisitNode(v) = Left(index, e, <<>>)
  BY <1>2, <1>6, NothingVisited
<1>7. CASE \E e : VisitNode(v) = Left(x, e, <<>>)
  BY <1>2, <1>7, NothingVisited
<1>8. CASE VisitNode(v) = VisitObject(v, Schema(v.node), x)
  <2>1. Visited(v, x, VisitObject(v, Schema(v.node), x))
    BY <1>3, ObjectVisited
  <2>. QED
    BY <1>3, <1>8, <2>1 DEF Visited
<1>9. CASE \E e : VisitNode(v) =
                     Left([x EXCEPT !.nodeTargets = Put(@, v.node, target)], e, <<>>)
  <2>1. PICK y, e : /\ y = [x EXCEPT !.nodeTargets = Put(@, v.node, target)]
                    /\ VisitNode(v) = Left(y, e, <<>>)
    BY <1>9
  <2>2. PICK left : left = VisitNode(v) /\ left.index = y /\ left.children = <<>>
    BY <2>1 DEF Left
  <2>3. /\ Walkable(y) /\ y.resources = index.resources
        /\ y.nodeTargets = Put(index.nodeTargets, v.node, target)
    BY <1>3, <2>1 DEF Walkable
  <2>4. Grows(index.resources, index.resources, v.node)
    BY DEF Grows
  <2>5. Held(target, index.resources)
    <3>1. Held(v, index.resources)
      BY DEF Expected
    <3>2. target.root = v.root /\ target.base = v.base /\ target.policy = v.policy
      BY <1>4 DEF Target
    <3>. QED
      BY <3>1, <3>2 DEF Held
  <2>6. \A n \in DOMAIN y.nodeTargets : Held(y.nodeTargets[n], index.resources)
    <3>1. PICK held : held = Put(index.nodeTargets, v.node, target)
      OBVIOUS
    <3>2. \A n \in DOMAIN held : Held(held[n], index.resources)
      BY <2>4, <2>5, <3>1, NodePut
    <3>. QED
      BY <2>3, <3>1, <3>2
  <2>7. Visited(v, index, left)
    BY <2>2, <2>3, <2>4, <2>6, NoBrood DEF Visited
  <2>. QED
    BY <2>2, <2>7
<1>. QED
  BY <1>5, <1>6, <1>7, <1>8, <1>9

-----------------------------------------------------------------------------
(* The documents of the walk.                                              *)

\* What a resolver or the bundle answers is a value.
LEMMA AnswersAreValues ==
    ASSUME ValidOptions, NEW uri
    PROVE  Answer(uri).value \in Values
<1>1. CASE uri \in DOMAIN Builtins
  BY <1>1, BuiltinsAssumption DEF Answer, IsAnswer
<1>2. CASE uri \notin DOMAIN Builtins /\ uri \in DOMAIN in.answers
  BY <1>2 DEF Answer, IsAnswer, ValidOptions
<1>3. CASE uri \notin DOMAIN Builtins /\ uri \notin DOMAIN in.answers
  BY <1>3, BuiltinsAssumption DEF Answer
<1>. QED
  BY <1>1, <1>2, <1>3

\* The root of a document is a node of it.
LEMMA RootIsNode ==
    ASSUME ValidOptions, NEW doc
    PROVE  IsNode(<<doc, <<>>>>)
<1>1. PICK n : n = <<doc, <<>>>> /\ n[1] = doc /\ n[2] = <<>>
  <2>1. PICK e, n : e = <<>> /\ n = <<doc, e>>
    OBVIOUS
  <2>2. n[1] = doc /\ n[2] = e
    BY ONLY <2>1
  <2>. QED
    BY <2>1, <2>2
<1>2. <<>> \in Path
  BY DEF Path
<1>3. PICK x : x = IF doc = RootDocument THEN in.schema ELSE Answer(doc).value
  OBVIOUS
<1>4. x \in Values
  BY <1>3, AnswersAreValues DEF ValidOptions
<1>5. Schema(n) = At(x, <<>>)
  BY <1>1, <1>3, Zenon DEF Schema
<1>6. At(x, <<>>) = x
  BY AtRoot
<1>. QED
  BY <1>1, <1>2, <1>4, <1>5, <1>6 DEF IsNode

\* A document is compiled that no resource is in.
LEMMA WalkBegins ==
    ASSUME ValidOptions, NEW res, NEW nodes, NEW vs, Walked(res, nodes, vs),
           NEW doc, NEW base, base \notin DOMAIN res, \A b \in DOMAIN res : res[b].root[1] # doc,
           doc \in {RootDocument, base}, NEW policy, NEW root, root = <<doc, <<>>>>,
           NEW r, r = Put(res, base, Target(root, root, base, policy))
    PROVE  Walked(r, nodes, <<Visiting(root, root, base, policy, 0)>>)
<1>1. root[1] = doc /\ IsNode(root)
  BY RootIsNode
<1>2. PICK t : t = Target(root, root, base, policy) /\ t.root = root /\ t.policy = policy
  BY DEF Target
<1>3. PICK v : v = Visiting(root, root, base, policy, 0)
  OBVIOUS
<1>4. v.node = root /\ v.root = root /\ v.base = base /\ v.policy = policy
  BY <1>3 DEF Visiting
<1>5. DOMAIN r = DOMAIN res \union {base} /\ r[base] = t /\ \A d \in DOMAIN res : r[d] = res[d]
  BY <1>2 DEF Put
<1>6. Grows(res, r, root)
  BY <1>2, <1>5 DEF Grows
<1>7. Located(root, r)
  BY <1>1, <1>5 DEF Located
<1>8. Held(v, r)
  BY <1>2, <1>4, <1>5 DEF Held
<1>9. Foremost(v, r)
  <2>1. ASSUME NEW b \in DOMAIN r, Above(v.node, r[b].root)
        PROVE  r[b].root = v.node /\ v.root = v.node /\ r[b].policy = v.policy
    <3>1. r[b].root[1] = doc
      BY <1>1, <1>4, <2>1 DEF Above
    <3>2. b \notin DOMAIN res
      BY <1>5, <3>1
    <3>3. r[b] = t
      BY <1>5, <3>2
    <3>. QED
      BY <1>2, <1>4, <3>3
  <2>. QED
    BY <2>1 DEF Foremost
<1>10. Expected(v, r)
  BY <1>1, <1>4, <1>7, <1>8, <1>9 DEF Expected
<1>11. PICK ws : ws = <<v>>
  OBVIOUS
<1>12. IsSequence(ws) /\ Len(ws) = 1 /\ ws[1] = v
  BY <1>11, OneElement
<1>13. \A b \in DOMAIN r : Located(r[b].root, r)
  <2>1. ASSUME NEW b \in DOMAIN r PROVE Located(r[b].root, r)
    <3>1. CASE b \in DOMAIN res
      BY <1>5, <1>6, <3>1, GrowsLocated DEF Walked
    <3>2. CASE b \notin DOMAIN res
      BY <1>2, <1>5, <1>7, <3>2
    <3>. QED
      BY <3>1, <3>2
  <2>. QED
    BY <2>1
<1>14. \A n \in DOMAIN nodes : Held(nodes[n], r)
  BY <1>6, GrowsHeld DEF Walked
<1>15. \A i \in 1..Len(ws) : Expected(ws[i], r)
  BY <1>10, <1>12
<1>16. Apart(ws)
  BY <1>12 DEF Apart
<1>17. Walked(r, nodes, ws)
  BY <1>12, <1>13, <1>14, <1>15, <1>16 DEF Walked
<1>. QED
  BY <1>3, <1>11, <1>17

\* The caller's schema and the answers stay what they are.
LEMMA WalkedNext ==
    ASSUME in' = in, NEW res, NEW nodes, NEW vs, Walked(res, nodes, vs)
    PROVE  Walked(res, nodes, vs)'
<1>1. ASSUME NEW n, IsNode(n) PROVE IsNode(n)'
  BY <1>1 DEF IsNode, Schema, Answer
<1>2. ASSUME NEW v, Expected(v, res) PROVE Expected(v, res)'
  BY <1>1, <1>2 DEF Expected
<1>. QED
  BY <1>2 DEF Walked

\* The invariant of the next state.
LEMMA WalkOf ==
    ASSUME in' = in, NEW res, NEW nodes, NEW vs, Walked(res, nodes, vs), Walkable(index'),
           index'.resources = res, index'.nodeTargets = nodes, visits' = vs,
           phase' = "contract" => index' = EmptyIndex /\ visits' = <<>> /\ requested' = <<>>
    PROVE  WalkInv'
BY WalkedNext DEF WalkInv

\* A step that leaves the resources and the nodes, and the visits or none.
LEMMA WalkStays ==
    ASSUME in' = in, WalkInv, Leaves(index, index'), visits' \in {visits, <<>>},
           phase' # "contract"
    PROVE  WalkInv'
<1>1. PICK res, nodes, vs : /\ res = index.resources /\ nodes = index.nodeTargets
                            /\ vs \in {visits, <<>>} /\ visits' = vs
  OBVIOUS
<1>2. Walked(res, nodes, visits)
  BY <1>1 DEF WalkInv
<1>3. Walked(res, nodes, <<>>)
  BY <1>2, NoElements DEF Walked, Apart
<1>4. Walked(res, nodes, vs)
  BY <1>1, <1>2, <1>3
<1>5. Walkable(index') /\ index'.resources = res /\ index'.nodeTargets = nodes
  BY <1>1 DEF Leaves
<1>. QED
  BY <1>1, <1>4, <1>5, WalkOf

\* One visit of the walk.
LEMMA WalkVisits ==
    ASSUME in' = in, WalkInv, Visit
    PROVE  WalkInv'
<1>1. /\ Walkable(index) /\ Walked(index.resources, index.nodeTargets, visits)
  BY DEF WalkInv
<1>2. PICK v, left : v = Head(visits) /\ left = VisitNode(v)
  OBVIOUS
<1>3. /\ visits # <<>> /\ index' = left.index /\ visits' = left.children \o Tail(visits)
      /\ phase' # "contract"
  BY <1>2 DEF Visit
<1>4. Expected(v, index.resources)
  <2>1. IsSequence(visits) /\ \A i \in 1..Len(visits) : Expected(visits[i], index.resources)
    BY <1>1 DEF Walked
  <2>2. Len(visits) \in Nat \ {0} /\ Head(visits) = visits[1]
    BY <1>3, <2>1, TailSequence
  <2>. QED
    BY <1>2, <2>1, <2>2
<1>5. AllHeld(index)
  BY <1>1 DEF Walked, AllHeld
<1>6. Visited(v, index, left)
  BY <1>1, <1>2, <1>4, <1>5, NodeVisited
<1>7. PICK r, held, cs : r = left.index.resources /\ held = left.index.nodeTargets
                         /\ cs = left.children
  OBVIOUS
<1>8. /\ Walkable(index') /\ index'.resources = r /\ index'.nodeTargets = held
      /\ Grows(index.resources, r, Head(visits).node) /\ Brood(Head(visits), cs, r)
      /\ \A n \in DOMAIN held : Held(held[n], r)
  BY <1>2, <1>3, <1>6, <1>7 DEF Visited
<1>9. PICK ws : ws = cs \o Tail(visits)
  OBVIOUS
<1>10. Walked(r, held, ws)
  BY <1>1, <1>3, <1>8, <1>9, WalkGoesOn
<1>11. visits' = ws
  BY <1>3, <1>7, <1>9
<1>. QED
  BY <1>3, <1>8, <1>10, <1>11, WalkOf

\* The caller's schema is the first document.
LEMMA WalkContracts ==
    ASSUME ValidOptions, in' = in, WalkInv, Contract
    PROVE  WalkInv'
<1>. DEFINE base == in.options.retrievalUri
            root == <<RootDocument, <<>>>>
            pending(c) == IF dialect' = SubsetDialect THEN c.index.pendingDocuments
                          ELSE c.index.pendingDocuments \union {DialectUri(dialect')}
            put(c) == Put(c.index.resources, base, Target(root, root, base, c.policy))
<1>1. /\ Walkable(index) /\ Walked(index.resources, index.nodeTargets, visits)
      /\ index = EmptyIndex /\ visits = <<>>
  BY DEF WalkInv, Contract
<1>2. PICK c : c = compileDialectContract(in.schema, index, schemaErrors)
  OBVIOUS
<1>3. \/ /\ phase' = "refused" /\ index' = c.index /\ visits' = <<>>
      \/ /\ phase' = "documents"
         /\ index' = [c.index EXCEPT !.resources = put(c), !.pendingDocuments = pending(c)]
         /\ visits' = <<Visiting(root, root, base, c.policy, 0)>>
  BY <1>2, Zenon DEF Contract
<1>4. Leaves(index, c.index)
  BY <1>1, <1>2, ContractLeaves
<1>5. CASE /\ phase' = "refused" /\ index' = c.index /\ visits' = <<>>
  BY <1>4, <1>5, WalkStays
<1>6. CASE /\ phase' = "documents"
           /\ index' = [c.index EXCEPT !.resources = put(c), !.pendingDocuments = pending(c)]
           /\ visits' = <<Visiting(root, root, base, c.policy, 0)>>
  <2>1. PICK r, p : /\ r = Put(c.index.resources, base, Target(root, root, base, c.policy))
                    /\ index' = [c.index EXCEPT !.resources = r, !.pendingDocuments = p]
    BY <1>6, Zenon
  <2>2. /\ Walkable(index') /\ index'.resources = r /\ index'.nodeTargets = index.nodeTargets
    BY <1>4, <2>1 DEF Walkable, Leaves
  <2>3. PICK res, nodes, policy :
           /\ res = index.resources /\ nodes = index.nodeTargets /\ policy = c.policy
           /\ r = Put(res, base, Target(root, root, base, policy))
    BY <1>4, <2>1 DEF Leaves
  <2>4. DOMAIN res = {}
    BY <1>1, <2>3 DEF EmptyIndex
  <2>5. PICK ws : ws = <<Visiting(root, root, base, policy, 0)>>
    OBVIOUS
  <2>. HIDE DEF base, root
  <2>6. /\ Walked(res, nodes, visits) /\ base \notin DOMAIN res
        /\ \A b \in DOMAIN res : res[b].root[1] # RootDocument
        /\ RootDocument \in {RootDocument, base} /\ root = <<RootDocument, <<>>>>
    BY <1>1, <2>3, <2>4 DEF root
  <2>7. Walked(r, nodes, ws)
    BY <2>3, <2>5, <2>6, WalkBegins
  <2>8. visits' = ws /\ phase' # "contract"
    BY <1>6, <2>3, <2>5 DEF base, root
  <2>9. index'.nodeTargets = nodes
    BY <2>2, <2>3
  <2>. QED
    BY <2>2, <2>7, <2>8, <2>9, WalkOf
<1>. QED
  BY <1>3, <1>5, <1>6

\* A document that was loaded is the next one.
LEMMA WalkLoads ==
    ASSUME ValidOptions, in' = in, WalkInv, Load
    PROVE  WalkInv'
<1>. DEFINE uri == requested[1]
            adopted == Adopted(uri, index)
            root == <<uri, <<>>>>
            answer == Answer(uri)
<1>1. /\ uri \notin DOMAIN index.resources /\ Refusal(uri) = "none" /\ requested # <<>>
  BY DEF Load
<1>2. /\ Walkable(index) /\ Walked(index.resources, index.nodeTargets, visits)
      /\ phase # "contract"
  BY <1>1 DEF WalkInv
<1>3. PICK taken : taken = IF adopted THEN index
                           ELSE [index EXCEPT !.documents = Append(@, uri)]
  OBVIOUS
<1>4. PICK c : /\ c = compileDialectContract(answer.value, taken, schemaErrors)
               /\ \/ /\ index' = Failed(uri, [c.index EXCEPT !.documents = index.documents])
                     /\ visits' = visits /\ phase' \in {phase, "references"}
                  \/ /\ phase' = phase
                     /\ visits' = <<Visiting(root, root, uri, c.policy, 0)>>
                     /\ index' = [c.index EXCEPT
                            !.resources = Put(@, uri, Target(root, root, uri, c.policy)),
                            !.resolvedBytes = @ + IF adopted THEN 0 ELSE answer.bytes]
  BY <1>3 DEF Load
<1>. HIDE DEF answer, adopted
<1>5. Leaves(index, taken)
  BY <1>2, <1>3 DEF Leaves, Walkable
<1>6. Leaves(index, c.index)
  <2>1. Leaves(taken, compileDialectContract(answer.value, taken, schemaErrors).index)
    BY <1>5, ContractLeaves DEF Leaves
  <2>. QED
    BY <1>4, <1>5, <2>1 DEF Leaves
<1>7. phase' # "contract"
  BY <1>2, <1>4
<1>8. CASE index' = Failed(uri, [c.index EXCEPT !.documents = index.documents])
           /\ visits' = visits
  <2>1. Leaves(index, index')
    BY <1>6, <1>8 DEF Failed, Leaves, Walkable
  <2>. QED
    BY <1>7, <1>8, <2>1, WalkStays
<1>9. CASE /\ visits' = <<Visiting(root, root, uri, c.policy, 0)>>
           /\ index' = [c.index EXCEPT
                  !.resources = Put(@, uri, Target(root, root, uri, c.policy)),
                  !.resolvedBytes = @ + IF adopted THEN 0 ELSE answer.bytes]
  <2>1. PICK res, nodes, policy, r :
           /\ res = index.resources /\ nodes = index.nodeTargets /\ policy = c.policy
           /\ r = Put(res, uri, Target(root, root, uri, policy))
    OBVIOUS
  <2>2. /\ Walkable(index') /\ index'.resources = r /\ index'.nodeTargets = nodes
    BY <1>6, <1>9, <2>1 DEF Walkable, Leaves
  <2>3. Walked(res, nodes, visits)
    BY <1>2, <2>1
  <2>4. uri # RootDocument
    <3>. HIDE DEF uri
    <3>1. uriHasScheme(uri)
      BY <1>1 DEF Refusal
    <3>2. ~uriHasScheme(RootDocument)
      BY DEF uriHasScheme, RootDocument
    <3>. QED
      BY ONLY <3>1, <3>2
  <2>5. \A b \in DOMAIN res : res[b].root[1] # uri
    BY <1>1, <2>1, <2>3, <2>4 DEF Walked, Located
  <2>6. PICK ws : ws = <<Visiting(root, root, uri, policy, 0)>>
    OBVIOUS
  <2>. HIDE DEF uri, root
  <2>7. uri \notin DOMAIN res /\ uri \in {RootDocument, uri} /\ root = <<uri, <<>>>>
    BY <1>1, <2>1 DEF root
  <2>8. Walked(r, nodes, ws)
    BY <2>1, <2>3, <2>5, <2>6, <2>7, WalkBegins
  <2>9. visits' = ws
    BY <1>9, <2>1, <2>6 DEF uri, root
  <2>. QED
    BY <1>7, <2>2, <2>8, <2>9, WalkOf
<1>. QED
  BY <1>4, <1>8, <1>9

\* The walk, in a step of the compilation.
LEMMA WalkKept ==
    ASSUME ValidOptions, WalkInv, in' = in, CompileNext
    PROVE  WalkInv'
<1>1. Leaves(index, index)
  BY DEF Leaves, WalkInv
<1>2. CASE VisitNothing
  <2>1. index' = index /\ visits' = <<>> /\ phase' # "contract"
    BY <1>2 DEF VisitNothing
  <2>. QED
    BY <1>1, <2>1, WalkStays
<1>3. CASE Take
  <2>1. visits' = visits /\ phase' # "contract"
    BY <1>3 DEF Take
  <2>2. PICK p : index' = [index EXCEPT !.pendingDocuments = p]
    BY <1>3 DEF Take, Taken
  <2>3. Leaves(index, index')
    BY <1>1, <2>2 DEF Leaves, Walkable
  <2>. QED
    BY <2>1, <2>3, WalkStays
<1>4. CASE Known
  <2>1. index' = index /\ visits' = visits /\ phase' # "contract"
    BY <1>4 DEF Known, WalkInv
  <2>. QED
    BY <1>1, <2>1, WalkStays
<1>5. CASE Refuse
  <2>1. visits' = visits /\ phase' # "contract"
    BY <1>5 DEF Refuse, WalkInv
  <2>2. PICK f : index' = [index EXCEPT !.failedDocuments = f]
    BY <1>5 DEF Refuse, Failed
  <2>3. Leaves(index, index')
    BY <1>1, <2>2 DEF Leaves, Walkable
  <2>. QED
    BY <2>1, <2>3, WalkStays
<1>6. CASE AllLoaded
  <2>1. index' = index /\ visits' = visits /\ phase' # "contract"
    BY <1>6 DEF AllLoaded
  <2>. QED
    BY <1>1, <2>1, WalkStays
<1>7. CASE CheckReferences
  <2>1. index' = index /\ visits' = visits /\ phase' # "contract"
    BY <1>7 DEF CheckReferences
  <2>. QED
    BY <1>1, <2>1, WalkStays
<1>. QED
  BY <1>2, <1>3, <1>4, <1>5, <1>6, <1>7, WalkContracts, WalkVisits, WalkLoads DEF CompileNext

-----------------------------------------------------------------------------
(* What follows.                                                           *)

\* Whatever budget runs out and wherever the errors of a branch are discarded,
\* validate returns true exactly when it reports nothing.
THEOREM VerdictsAreReported == Spec => []VerdictIsReported
<1>1. SchemaInv => VerdictIsReported
  BY DEF SchemaInv, ReportInv, Told, VerdictIsReported, Judged, Done
<1>. QED
  BY <1>1, Initially, SchemaInvIsKept, PTL DEF Spec

\* Schema recursion takes a level of the depth option for every call on the
\* native stack, and gives each level back.
THEOREM RecursionIsBounded == Spec => []RecursionBounded
<1>1. ASSUME SchemaInv PROVE RecursionBounded
  <2>1. Stacked(stack, depth)
    BY <1>1 DEF SchemaInv, RunInv
  <2>2. CASE stack = <<>>
    <3>1. SessionInv
      BY <1>1 DEF SchemaInv
    <3>. QED
      BY <2>2, <3>1, LimitsArePositive DEF RecursionBounded
  <2>3. CASE stack # <<>>
    <3>1. /\ Len(stack) \in Nat /\ Len(stack) <= Head(stack).entry + 1
          /\ depth = Head(stack).entry + Head(stack).levels /\ IsFrame(Head(stack))
      BY <2>1, <2>3, HeadFacts
    <3>2. depth <= validationDepthLimit(Options) /\ validationDepthLimit(Options) \in Nat
      BY <1>1, <2>3, LimitsArePositive DEF SchemaInv, RunInv
    <3>3. Len(stack) <= validationDepthLimit(Options) + 1
      <4>1. Head(stack).entry \in Nat /\ Head(stack).levels \in Nat
        BY <3>1 DEF IsFrame
      <4>. QED
        BY <3>1, <3>2, <4>1
    <3>4. ASSUME NEW i \in DOMAIN stack
          PROVE  stack[i].entry + stack[i].levels = IF i = 1 THEN depth ELSE stack[i - 1].entry
      <4>1. DOMAIN stack = 1..Len(stack)
        BY <2>1 DEF Stacked, IsSequence
      <4>2. CASE i = 1
        BY <2>1, <2>3, <4>2 DEF Stacked
      <4>3. CASE i # 1
        <5>1. i - 1 \in 1..(Len(stack) - 1) /\ (i - 1) + 1 = i
          BY <3>1, <3>4, <4>1, <4>3
        <5>2. CalledBy(stack[i - 1], stack[i])
          BY <2>1, <5>1 DEF Stacked
        <5>. QED
          BY <4>3, <5>2 DEF CalledBy
      <4>. QED
        BY <4>2, <4>3
    <3>5. stack[Len(stack)].entry = 0
      BY <2>1, <2>3 DEF Stacked
    <3>. QED
      BY <3>3, <3>4, <3>5 DEF RecursionBounded
  <2>. QED
    BY <2>2, <2>3
<1>. QED
  BY <1>1, Initially, SchemaInvIsKept, PTL DEF Spec

\* Whatever the references and the dialects name and the resolver answers,
\* loadDialectDocument and compileExternalResources keep no text twice, keep a
\* document only as the resource it is found by, and stay within both budgets.
THEOREM DocumentsAreBounded == Spec => []DocumentsBounded
<1>. DEFINE Inv == ValidOptions /\ StockInv
<1>1. Init => Inv
  <2>1. SUFFICES ASSUME Init PROVE Inv
    OBVIOUS
  <2>2. ValidOptions /\ index = EmptyIndex
    BY <2>1 DEF Init, CompileInit
  <2>3. IsSequence(<<>>) /\ Len(<<>>) = 0 /\ Distinct(<<>>) /\ Elements(<<>>) = {}
    BY DEF IsSequence, Distinct, Elements
  <2>4. /\ StockFields \subseteq DOMAIN index /\ index.documents = <<>>
        /\ index.dialectDocuments = <<>> /\ index.resolvedBytes = 0
    BY <2>2 DEF EmptyIndex, StockFields
  <2>5. Stocked(index)
    BY <2>2, <2>3, <2>4, StockLimits DEF Stocked
  <2>. QED
    BY <2>2, <2>3, <2>4, <2>5 DEF StockInv
<1>2. Inv /\ [Next]_vars => Inv'
  <2>1. SUFFICES ASSUME Inv, [Next]_vars PROVE Inv'
    OBVIOUS
  <2>2. in' = in /\ ValidOptions'
    BY <2>1 DEF Next, vars, ValidOptions
  <2>3. CASE UNCHANGED index
    <3>1. /\ IsSequence(index.documents) /\ Distinct(index.documents)
          /\ IsSequence(index.dialectDocuments) /\ Distinct(index.dialectDocuments)
          /\ Len(index.documents) + Len(index.dialectDocuments) <= resolvedDocumentLimit(in.options)
          /\ index.resolvedBytes \in Nat /\ index.resolvedBytes <= resolvedByteLimit(in.options)
          /\ StockFields \subseteq DOMAIN index
          /\ Elements(index.documents) \subseteq DOMAIN index.resources
      BY <2>1 DEF StockInv, Stocked
    <3>. QED
      BY <2>2, <2>3, <3>1, StockOf
  <2>4. CASE CompileNext
    BY <2>1, <2>2, <2>4, StockKept
  <2>. QED
    BY <2>1, <2>2, <2>3, <2>4
       DEF Next, vars, compileVars, ValidateSchema, MetaSchemaUnavailable, SchemaValidated, Validate,
           Refused
<1>3. Inv => DocumentsBounded
  BY DEF DocumentsBounded, StockInv, Stocked, Distinct
<1>. QED
  BY <1>1, <1>2, <1>3, PTL DEF Spec

\* Whatever $id's a document nests, whatever documents a resolver answers with
\* and whatever dialects they declare, compileSchemaResource indexes no schema
\* node under a base URI whose resource has another root or another policy.
THEOREM NodesKnowTheirResources == Spec => []NodesKnowTheirResource
<1>. DEFINE Inv == ValidOptions /\ WalkInv
<1>1. Init => Inv
  <2>1. SUFFICES ASSUME Init PROVE Inv
    OBVIOUS
  <2>2. ValidOptions /\ index = EmptyIndex /\ visits = <<>> /\ requested = <<>>
    BY <2>1 DEF Init, CompileInit
  <2>3. /\ Walkable(index) /\ index.resources = <<>> /\ index.nodeTargets = <<>>
        /\ DOMAIN index.resources = {} /\ DOMAIN index.nodeTargets = {}
    BY <2>2 DEF EmptyIndex, Walkable
  <2>4. Walked(index.resources, index.nodeTargets, visits)
    BY <2>2, <2>3, NoElements DEF Walked, Apart
  <2>. QED
    BY <2>2, <2>3, <2>4 DEF WalkInv
<1>2. Inv /\ [Next]_vars => Inv'
  <2>1. SUFFICES ASSUME Inv, [Next]_vars PROVE Inv'
    OBVIOUS
  <2>2. in' = in /\ ValidOptions'
    BY <2>1 DEF Next, vars, ValidOptions
  <2>3. CASE CompileNext
    BY <2>1, <2>2, <2>3, WalkKept
  <2>4. CASE UNCHANGED compileVars
    <3>1. PICK res, nodes, vs : /\ res = index.resources /\ nodes = index.nodeTargets
                                /\ vs = visits
      OBVIOUS
    <3>2. Walked(res, nodes, vs)
      BY <2>1, <3>1 DEF WalkInv
    <3>3. /\ index' = index /\ visits' = visits
          /\ phase' = "contract" => index = EmptyIndex /\ visits = <<>> /\ requested' = <<>>
      BY <2>1, <2>4 DEF compileVars, WalkInv
    <3>4. Walkable(index')
      BY <2>1, <3>3 DEF WalkInv
    <3>. QED
      BY <2>2, <3>1, <3>2, <3>3, <3>4, WalkOf
  <2>5. CASE index' = index /\ visits' = visits /\ phase' # "contract"
    <3>1. Leaves(index, index')
      BY <2>1, <2>5 DEF Leaves, WalkInv
    <3>. QED
      BY <2>1, <2>2, <2>5, <3>1, WalkStays
  <2>. QED
    BY <2>1, <2>2, <2>3, <2>4, <2>5
       DEF Next, vars, compileVars, ValidateSchema, MetaSchemaUnavailable, SchemaValidated, Validate,
           Refused
<1>3. Inv => NodesKnowTheirResource
  BY DEF NodesKnowTheirResource, WalkInv, Walked, Held
<1>. QED
  BY <1>1, <1>2, <1>3, PTL DEF Spec
=============================================================================
