---------------------------- MODULE ParserProofs ----------------------------
(***************************************************************************)
(* WithinLimits and EventsNest, for all options, all sets of lexemes and   *)
(* texts of any length.                                                    *)
(***************************************************************************)
EXTENDS ParserPair, WellFoundedInduction, SequenceTheorems, TLAPS

IsSequence(s) == Len(s) \in Nat /\ s = [i \in 1..Len(s) |-> s[i]]

\* What is known of the text: lexemes of which at least a byte exists.
TextInv ==
    /\ IsSequence(text)
    /\ \A i \in 1..Len(text) : /\ text[i].gap \in Nat /\ text[i].bytes \in Seq(ByteKinds)
                               /\ text[i].have \in 1..Len(text[i].bytes)

DomFields == {"pc", "at", "frames", "nodes", "code", "doc"}
SaxFields == {"pc", "at", "pos", "frames", "nodes", "code", "stopped", "built"}
DomShape(d) == DOMAIN d = DomFields /\ d = [k \in DomFields |-> d[k]]
SaxShape(s) == DOMAIN s = SaxFields /\ s = [k \in SaxFields |-> s[k]]

\* A parser within its depth and its nodes, somewhere in the text.
Limits(p) ==
    /\ p.at \in Nat /\ (p.pc # "done" => p.at # 0)
    /\ IsSequence(p.frames) /\ Len(p.frames) <= EffectiveDepth
    /\ p.nodes \in Nat /\ (options.maxNodes # 0 => p.nodes <= options.maxNodes)
BytesLeft(s) == s.pos \in Nat /\ (options.maxInputBytes # 0 => s.pos <= options.maxInputBytes)

DomWithin(d) == DomShape(d) /\ Limits(d)
SaxWithin(s) == SaxShape(s) /\ Limits(s) /\ BytesLeft(s)

ParserInv == options \in Configurations /\ TextInv /\ DomWithin(dom) /\ SaxWithin(sax)

-----------------------------------------------------------------------------
LEMMA DepthIsPositive ==
    ASSUME options \in Configurations
    PROVE  EffectiveDepth \in Nat \ {0}
BY ParserAssumption DEF EffectiveDepth, clampParseDepth

LEMMA SeqIsSequence ==
    ASSUME NEW S, NEW s \in Seq(S)
    PROVE  IsSequence(s)
<1>1. Len(s) \in Nat /\ s \in [1..Len(s) -> S]
  BY LenProperties
<1>. QED
  BY <1>1, Zenon DEF IsSequence

LEMMA AppendIsSequence ==
    ASSUME NEW s, IsSequence(s), NEW x
    PROVE  IsSequence(Append(s, x)) /\ Len(Append(s, x)) = Len(s) + 1
<1>. DEFINE S == {s[i] : i \in 1..Len(s)} \cup {x}
<1>1. s \in Seq(S) /\ x \in S
  BY DEF IsSequence
<1>2. Append(s, x) \in Seq(S) /\ Len(Append(s, x)) = Len(s) + 1
  BY <1>1, AppendProperties
<1>. QED
  BY <1>2, SeqIsSequence, Zenon

LEMMA FrontIsSequence ==
    ASSUME NEW s, IsSequence(s)
    PROVE  IsSequence(Front(s)) /\ Len(Front(s)) <= Len(s)
<1>. DEFINE S == {s[i] : i \in 1..Len(s)}
<1>1. s \in Seq(S) /\ Len(s) \in Nat
  BY DEF IsSequence
<1>2. SubSeq(s, 1, Len(s) - 1) \in Seq(S) /\ Len(SubSeq(s, 1, Len(s) - 1)) <= Len(s)
  BY <1>1, SubSeqProperties
<1>. QED
  BY <1>2, SeqIsSequence DEF Front

LEMMA ReplacedIsSequence ==
    ASSUME NEW s, IsSequence(s), NEW i, NEW x
    PROVE  IsSequence([s EXCEPT ![i] = x]) /\ Len([s EXCEPT ![i] = x]) = Len(s)
<1>. DEFINE S == {s[j] : j \in 1..Len(s)} \cup {x}
            r == [s EXCEPT ![i] = x]
<1>1. s \in Seq(S) /\ DOMAIN s = 1..Len(s)
  BY DEF IsSequence
<1>2. DOMAIN r = 1..Len(s) /\ \A j \in 1..Len(s) : r[j] \in S
  BY <1>1
<1>3. r = [j \in 1..Len(s) |-> r[j]]
  BY <1>1, <1>2
<1>. QED
  BY <1>2, <1>3 DEF IsSequence

\* A set of naturals has a least member.
LEMMA MinIsLeast ==
    ASSUME NEW S \in SUBSET Nat, S # {}
    PROVE  Min(S) \in S
<1>. DEFINE R == {ss \in Nat \X Nat : ss[1] < ss[2]}
<1>1. IsWellFoundedOn(R, Nat)
  BY NatLessThanWellFounded, Zenon DEF OpToRel
<1>2. PICK x \in S : \A y \in S : ~ (<<y, x>> \in R)
  BY <1>1, WFMin, Zenon
<1>3. ASSUME NEW y \in S PROVE x =< y
  <2>1. ~ (<<y, x>> \in R)
    BY <1>2
  <2>2. <<y, x>> \in Nat \X Nat /\ <<y, x>>[1] = y /\ <<y, x>>[2] = x
    OBVIOUS
  <2>3. ~ (y < x)
    BY <2>1, <2>2, Zenon
  <2>. QED
    BY <2>3
<1>. QED
  BY <1>3, Zenon DEF Min

\* No check has failed where the first failure is "None".
LEMMA NoneFailed ==
    ASSUME NEW checks, Len(checks) \in Nat, FirstOf(checks) = "None",
           NEW i \in 1..Len(checks)
    PROVE  checks[i] = "None"
<1>. DEFINE I == {j \in 1..Len(checks) : checks[j] # "None"}
<1>1. I # {} => Min(I) \in I
  <2>1. I \in SUBSET Nat
    OBVIOUS
  <2>. QED
    BY <2>1, MinIsLeast
<1>. QED
  BY <1>1 DEF FirstOf

-----------------------------------------------------------------------------
(* The DOM parser.                                                         *)
LEMMA DomGoesWithin ==
    ASSUME options \in Configurations, NEW code, NEW d,
           code = "None" => DomWithin(d), DomGoes(code, d)
    PROVE  DomWithin(dom')
<1>1. CASE code = "None"
  BY <1>1 DEF DomGoes
<1>2. CASE code # "None"
  <2>1. dom' = [pc |-> "done", at |-> 0, frames |-> <<>>, nodes |-> 0, code |-> code,
                doc |-> NoDocument]
    BY <1>2, Zenon DEF DomGoes, DomFails
  <2>. QED
    BY <2>1, DepthIsPositive, ParserAssumption
       DEF DomWithin, DomShape, DomFields, Limits, Active, IsSequence
<1>. QED
  BY <1>1, <1>2

\* What counts of a step that fails neither.
LEMMA DomMoves ==
    ASSUME options \in Configurations, NEW d, DomShape(d),
           d.at \in Nat \ {0}, IsSequence(d.frames), Len(d.frames) <= EffectiveDepth,
           \/ d.nodes = dom.nodes
           \/ d.nodes = dom.nodes + 1 /\ ~NodesSpent(dom.nodes),
           DomWithin(dom)
    PROVE  DomWithin(d)
BY ParserAssumption DEF DomWithin, Limits, NodesSpent

LEMMA DomReturnedWithin ==
    ASSUME NEW d, DomWithin(d), d.at # 0, NEW doc
    PROVE  DomWithin(Returned(d, doc))
<1>1. CASE d.frames = <<>>
  BY <1>1 DEF DomWithin, DomShape, DomFields, Limits, Returned
<1>2. CASE d.frames # <<>>
  <2>. DEFINE r == Returned(d, doc)
              f == [d.frames EXCEPT ![Len(d.frames)] = Attached(@, doc)]
  <2>1. r = [d EXCEPT !.pc = "frame", !.frames = f]
    BY <1>2 DEF Returned, DomWithin, DomShape, DomFields
  <2>2. IsSequence(f) /\ Len(f) = Len(d.frames)
    BY ReplacedIsSequence DEF DomWithin, Limits
  <2>. QED
    BY <2>1, <2>2 DEF DomWithin, DomShape, DomFields, Limits, Active
<1>. QED
  BY <1>1, <1>2

\* A step of the DOM parser stays within its limits.
LEMMA DomStepWithin ==
    ASSUME ParserInv, DomNext
    PROVE  DomWithin(dom')
<1>. USE DEF ParserInv
<1>a. /\ dom.at \in Nat /\ dom.nodes \in Nat /\ IsSequence(dom.frames) /\ Len(dom.frames) \in Nat
      /\ Len(dom.frames) <= EffectiveDepth /\ DomShape(dom) /\ EffectiveDepth \in Nat
  BY DepthIsPositive DEF DomWithin, Limits, IsSequence
<1>1. CASE DomStart
  <2>. DEFINE begun == [dom EXCEPT !.pc = "value"]
  <2>1. DomShape(begun) /\ begun.at = dom.at /\ begun.frames = dom.frames
        /\ begun.nodes = dom.nodes /\ dom.at # 0
    BY <1>1 DEF DomStart, DomWithin, DomShape, DomFields, Limits
  <2>2. DomWithin(begun)
    BY <1>a, <2>1, DomMoves
  <2>. QED
    BY <1>1, <2>2, DomGoesWithin DEF DomStart
<1>2. CASE DomScalar
  <2>. DEFINE x == Here(dom)
              checks == <<CutCode(x),
                          Check(x.fault = "encoding", "InvalidEncoding"),
                          Check(x.fault = "incomplete" \/ Unrepresentable(x), "NumberRange"),
                          Check(NodesSpent(dom.nodes), "NodeLimit")>>
              read == [dom EXCEPT !.at = @ + 1, !.nodes = @ + 1]
  <2>1. DomGoes(FirstOf(checks), Returned(read, Leaf(x)))
    BY <1>2, Zenon DEF DomScalar, DomScalarCode
  <2>2. FirstOf(checks) = "None" => ~NodesSpent(dom.nodes)
    <3>1. /\ checks[4] = Check(NodesSpent(dom.nodes), "NodeLimit")
          /\ Len(checks) \in Nat /\ 4 \in 1..Len(checks)
      OBVIOUS
    <3>. HIDE DEF checks
    <3>2. FirstOf(checks) = "None" => checks[4] = "None"
      BY <3>1, NoneFailed, Zenon
    <3>. QED
      BY <3>1, <3>2 DEF Check
  <2>3. DomShape(read) /\ read.at = dom.at + 1 /\ read.frames = dom.frames
        /\ read.nodes = dom.nodes + 1
    <3>1. DomShape(read)
      BY <1>a DEF DomShape
    <3>. QED
      BY <1>a, <3>1 DEF DomShape, DomFields
  <2>4. ~NodesSpent(dom.nodes) => DomWithin(Returned(read, Leaf(x)))
    <3>. HIDE DEF read
    <3>1. ~NodesSpent(dom.nodes) => DomWithin(read) /\ read.at # 0
      BY <1>a, <2>3, DomMoves
    <3>. QED
      BY <3>1, DomReturnedWithin
  <2>. QED
    BY <2>1, <2>2, <2>4, DomGoesWithin
<1>3. CASE DomOpen
  <2>. DEFINE frames == Append(dom.frames, DomFrame(Peek(dom)))
              open == [dom EXCEPT !.pc = "frame", !.at = @ + 1, !.nodes = @ + 1,
                                  !.frames = frames]
              checks == <<Check(Len(dom.frames) + 1 > EffectiveDepth, "DepthLimit"),
                          Check(NodesSpent(dom.nodes), "NodeLimit")>>
  <2>1. DomGoes(FirstOf(checks), open)
    BY <1>3, Zenon DEF DomOpen, DomOpenCode
  <2>2. FirstOf(checks) = "None" => /\ ~NodesSpent(dom.nodes)
                                    /\ ~(Len(dom.frames) + 1 > EffectiveDepth)
    <3>1. /\ Len(checks) = 2 /\ checks[2] = Check(NodesSpent(dom.nodes), "NodeLimit")
          /\ checks[1] = Check(Len(dom.frames) + 1 > EffectiveDepth, "DepthLimit")
      OBVIOUS
    <3>. QED
      BY <3>1, NoneFailed DEF Check
  <2>3. IsSequence(frames) /\ Len(frames) = Len(dom.frames) + 1
    BY <1>a, AppendIsSequence
  <2>4. DomShape(open) /\ open.at = dom.at + 1 /\ open.frames = frames
        /\ open.nodes = dom.nodes + 1
    <3>1. DomShape(open)
      BY <1>a DEF DomShape
    <3>. QED
      BY <1>a, <3>1 DEF DomShape, DomFields
  <2>5. /\ ~NodesSpent(dom.nodes) /\ ~(Len(dom.frames) + 1 > EffectiveDepth)
        => DomWithin(open)
    <3>. HIDE DEF open, frames
    <3>. QED
      BY <1>a, <2>3, <2>4, DomMoves
  <2>. QED
    BY <2>1, <2>2, <2>5, DomGoesWithin
<1>4. CASE DomComma
  <2>. DEFINE frames == [dom.frames EXCEPT ![Len(dom.frames)].expect = TRUE]
  <2>1. /\ DomShape(dom') /\ dom'.at = dom.at + 1 /\ dom'.frames = frames
        /\ dom'.nodes = dom.nodes
    BY <1>4, <1>a DEF DomComma, DomShape, DomFields
  <2>2. IsSequence(frames) /\ Len(frames) = Len(dom.frames)
    BY <1>a, ReplacedIsSequence
  <2>. QED
    BY <1>a, <2>1, <2>2, DomMoves
<1>5. CASE DomClose
  <2>. DEFINE popped == [dom EXCEPT !.at = @ + 1, !.frames = Front(@)]
  <2>1. dom' = Returned(popped, Inner(dom).doc)
    BY <1>5, Zenon DEF DomClose
  <2>2. DomShape(popped) /\ popped.at = dom.at + 1 /\ popped.frames = Front(dom.frames)
        /\ popped.nodes = dom.nodes
    <3>1. DomShape(popped)
      BY <1>a DEF DomShape
    <3>. QED
      BY <1>a, <3>1 DEF DomShape, DomFields
  <2>3. IsSequence(popped.frames) /\ Len(popped.frames) <= EffectiveDepth
    BY <1>a, <2>2, FrontIsSequence DEF IsSequence
  <2>4. DomWithin(popped) /\ popped.at # 0
    <3>. HIDE DEF popped
    <3>. QED
      BY <1>a, <2>2, <2>3, DomMoves
  <2>. QED
    BY <2>1, <2>4, DomReturnedWithin
<1>6. CASE DomKey
  <2>. DEFINE frames == [dom.frames EXCEPT ![Len(dom.frames)] = DomName(Here(dom))]
              named == [dom EXCEPT !.pc = "colon", !.at = @ + 1, !.frames = frames]
  <2>1. DomGoes(DomKeyCode(Here(dom)), named)
    BY <1>6, <1>a DEF DomKey, DomShape, DomFields
  <2>2. IsSequence(frames) /\ Len(frames) = Len(dom.frames)
    BY <1>a, ReplacedIsSequence
  <2>3. DomShape(named) /\ named.at = dom.at + 1 /\ named.frames = frames
        /\ named.nodes = dom.nodes
    <3>1. DomShape(named)
      BY <1>a DEF DomShape
    <3>. QED
      BY <1>a, <3>1 DEF DomShape, DomFields
  <2>. HIDE DEF named, frames
  <2>4. DomWithin(named)
    BY <1>a, <2>2, <2>3, DomMoves
  <2>. QED
    BY <2>1, <2>4, DomGoesWithin
<1>7. CASE DomColon
  <2>1. /\ DomShape(dom') /\ dom'.at = dom.at + 1 /\ dom'.frames = dom.frames
        /\ dom'.nodes = dom.nodes
    BY <1>7, <1>a DEF DomColon, DomShape, DomFields
  <2>. QED
    BY <1>a, <2>1, DomMoves
<1>8. CASE DomUnexpected \/ DomOutOfMemory
  BY <1>8, DomGoesWithin DEF DomUnexpected, DomOutOfMemory, DomGoes
<1>9. CASE DomReturns
  BY <1>9 DEF DomReturns, DomWithin, DomShape, DomFields, Limits
<1>. QED
  BY <1>1, <1>2, <1>3, <1>4, <1>5, <1>6, <1>7, <1>8, <1>9 DEF DomNext

-----------------------------------------------------------------------------
(* The SAX parser.                                                         *)
LEMMA HereIsLexeme ==
    ASSUME TextInv, NEW s, s.at \in Nat \ {0}, Peek(s) # "end"
    PROVE  /\ Here(s).bytes \in Seq(ByteKinds) /\ Here(s).have \in 1..Len(Here(s).bytes)
           /\ Gap(s) \in Nat
<1>1. s.at \in 1..Len(text)
  BY DEF Peek, TextInv, IsSequence
<1>. QED
  BY <1>1 DEF TextInv, Here, Gap

\* What getChar delivers lies within maxInputBytes.
LEMMA ReadFits ==
    ASSUME options \in Configurations,
           NEW x, x.bytes \in Seq(ByteKinds), x.have \in 1..Len(x.bytes),
           NEW from \in Nat, ReadCode(x, from) = "None"
    PROVE  options.maxInputBytes # 0 => from + x.have <= options.maxInputBytes
<1>. DEFINE refused == {b \in 1..Len(x.bytes) : b > x.have \/ Limited(from + b)}
<1>1. ASSUME refused # {} PROVE FALSE
  <2>1. refused \in SUBSET Nat
    BY LenProperties
  <2>2. Min(refused) \in refused
    BY <1>1, <2>1, MinIsLeast, Zenon
  <2>. DEFINE b == Min(refused)
  <2>3. b \in 1..Len(x.bytes) /\ b # 0 /\ Refused(x, from) = b
    <3>1. b \in 1..Len(x.bytes)
      BY <2>2
    <3>2. Refused(x, from) = b
      BY <1>1, Zenon DEF Refused
    <3>. QED
      BY <3>1, <3>2
  <2>. HIDE DEF b
  <2>4. ReadCode(x, from) = RefusalCode(x.bytes[b], WhyRefused(x, from, b))
    BY <2>3 DEF ReadCode
  <2>5. x.bytes[b] \in ByteKinds
    BY <2>3
  <2>6. \A byte \in ByteKinds : \A why : RefusalCode(byte, why) # "None"
    BY DEF RefusalCode, ByteKinds
  <2>. QED
    BY <2>4, <2>5, <2>6
<1>2. x.have \in 1..Len(x.bytes) /\ ~Limited(from + x.have)
  BY <1>1
<1>. QED
  BY <1>2, ParserAssumption DEF Limited

\* What counts of a step that goes on from s.
LEMMA SaxMoves ==
    ASSUME options \in Configurations, NEW s, SaxWithin(s), s.at # 0, NEW e, SaxShape(e),
           e.at = s.at, e.pos = s.pos, IsSequence(e.frames), Len(e.frames) <= EffectiveDepth,
           \/ e.nodes = s.nodes
           \/ e.nodes = s.nodes + 1 /\ ~NodesSpent(s.nodes)
    PROVE  SaxWithin(e)
BY ParserAssumption DEF SaxWithin, Limits, NodesSpent, BytesLeft

LEMMA StoppedWithin ==
    ASSUME options \in Configurations, NEW s, SaxWithin(s), NEW code, NEW why
    PROVE  SaxWithin(Stopped(s, code, why)) /\ Stopped(s, code, why).pc = "done"
<1>. DEFINE e == Stopped(s, code, why)
<1>1. SaxShape(e)
  BY DEF SaxWithin, SaxShape, Stopped
<1>2. /\ e.pc = "done" /\ e.at = 0 /\ e.frames = <<>> /\ e.nodes = s.nodes /\ e.pos = s.pos
  BY DEF SaxWithin, SaxShape, SaxFields, Stopped
<1>3. Len(<<>>) = 0 /\ IsSequence(<<>>)
  BY DEF IsSequence
<1>4. /\ s.nodes \in Nat /\ (options.maxNodes # 0 => s.nodes <= options.maxNodes)
      /\ BytesLeft(s) /\ EffectiveDepth \in Nat
  BY DepthIsPositive DEF SaxWithin, Limits
<1>. HIDE DEF e
<1>5. Limits(e) /\ BytesLeft(e)
  BY <1>2, <1>3, <1>4 DEF Limits, BytesLeft
<1>. QED
  BY <1>1, <1>2, <1>5 DEF SaxWithin, e

LEMMA PastWithin ==
    ASSUME options \in Configurations, TextInv, SaxWithin(sax), sax.at # 0,
           Peek(sax) # "end", ReadCode(Here(sax), From(sax)) = "None"
    PROVE  /\ SaxWithin(Past(sax, Here(sax))) /\ Past(sax, Here(sax)).at # 0
           /\ Past(sax, Here(sax)).frames = sax.frames
           /\ Past(sax, Here(sax)).nodes = sax.nodes
<1>. DEFINE x == Here(sax)
            e == Past(sax, x)
<1>1. From(sax) \in Nat /\ x.have \in Nat
      /\ (options.maxInputBytes # 0 => From(sax) + x.have <= options.maxInputBytes)
  <2>1. /\ x.bytes \in Seq(ByteKinds) /\ x.have \in 1..Len(x.bytes)
        /\ Gap(sax) \in Nat /\ sax.pos \in Nat
    BY HereIsLexeme DEF SaxWithin, Limits, BytesLeft
  <2>2. From(sax) \in Nat /\ x.have \in Nat
    BY <2>1 DEF From
  <2>. QED
    BY <2>1, <2>2, ReadFits
<1>2. SaxShape(e)
  BY DEF SaxWithin, SaxShape, Past
<1>3. /\ e.pc = sax.pc /\ e.at = sax.at + 1 /\ e.frames = sax.frames
      /\ e.nodes = sax.nodes /\ e.pos = From(sax) + x.have
  BY DEF SaxWithin, SaxShape, SaxFields, Past
<1>. HIDE DEF e, x
<1>. QED
  BY <1>1, <1>2, <1>3 DEF SaxWithin, Limits, BytesLeft, e, x

\* A callback is made or not; the parser is where it was, or has stopped.
LEMMA DispatchedWithin ==
    ASSUME options \in Configurations, NEW s, SaxWithin(s), s.at # 0, NEW emit, NEW event,
           NEW t \in Dispatched(s, emit, event)
    PROVE  /\ SaxWithin(t)
           /\ t.pc # "done" => t.at # 0 /\ t.at = s.at /\ t.pos = s.pos
                               /\ t.frames = s.frames /\ t.nodes = s.nodes
<1>. DEFINE told == [s EXCEPT !.built = Handled(@, event)]
<1>1. SaxShape(told) /\ told.at = s.at /\ told.pos = s.pos /\ told.frames = s.frames
      /\ told.nodes = s.nodes
  <2>1. SaxShape(told)
    BY DEF SaxWithin, SaxShape
  <2>. QED
    BY <2>1 DEF SaxWithin, SaxShape, SaxFields
<1>2. t \in {s, told, Stopped(told, "CallbackError", "none"),
             Stopped(told, "AllocationFailure", "none")}
  BY Zenon DEF Dispatched
<1>. HIDE DEF told
<1>3. SaxWithin(told)
  BY <1>1, SaxMoves DEF SaxWithin, Limits
<1>. QED
  BY <1>1, <1>2, <1>3, StoppedWithin

LEMMA SaxReturnedWithin ==
    ASSUME options \in Configurations, NEW s, SaxWithin(s), s.at # 0
    PROVE  SaxWithin(SaxReturned(s))
<1>. DEFINE any == [s.frames EXCEPT ![Len(s.frames)].any = TRUE]
            frames == [any EXCEPT ![Len(s.frames)].expect = FALSE]
            r == SaxReturned(s)
<1>a. IsSequence(s.frames) /\ Len(s.frames) <= EffectiveDepth /\ SaxShape(s)
  BY DEF SaxWithin, Limits
<1>1. CASE s.frames = <<>>
  <2>1. r = [s EXCEPT !.pc = "trail"]
    BY <1>1, Zenon DEF SaxReturned
  <2>2. SaxShape(r)
    BY <1>a, <2>1 DEF SaxShape
  <2>3. r.at = s.at /\ r.pos = s.pos /\ r.frames = s.frames /\ r.nodes = s.nodes
    BY <1>a, <2>1 DEF SaxShape, SaxFields
  <2>. HIDE DEF r
  <2>. QED
    BY <1>a, <2>2, <2>3, SaxMoves DEF r
<1>2. CASE s.frames # <<>>
  <2>1. IsSequence(any) /\ Len(any) = Len(s.frames)
    BY <1>a, ReplacedIsSequence
  <2>2. IsSequence(frames) /\ Len(frames) = Len(s.frames)
    BY <2>1, ReplacedIsSequence
  <2>3. r = [s EXCEPT !.pc = "frame", !.frames = frames]
    BY <1>2, <1>a DEF SaxReturned, SaxShape, SaxFields
  <2>4. SaxShape(r)
    BY <1>a, <2>3 DEF SaxShape
  <2>5. r.at = s.at /\ r.pos = s.pos /\ r.frames = frames /\ r.nodes = s.nodes
    BY <1>a, <2>3 DEF SaxShape, SaxFields
  <2>. HIDE DEF r, frames
  <2>. QED
    BY <1>a, <2>2, <2>4, <2>5, SaxMoves DEF r
<1>. QED
  BY <1>1, <1>2

\* A complete value, whose callback may have stopped the parser.
LEMMA ReportedWithin ==
    ASSUME options \in Configurations, NEW s, SaxWithin(s), s.at # 0, NEW emit, NEW event,
           NEW t \in Dispatched(s, emit, event)
    PROVE  SaxWithin(IF t.pc = "done" THEN t ELSE SaxReturned(t))
BY DispatchedWithin, SaxReturnedWithin

LEMMA SaxFailsWithin ==
    ASSUME options \in Configurations, SaxWithin(sax), NEW code, NEW why,
           SaxFails(code, why)
    PROVE  SaxWithin(sax')
BY StoppedWithin DEF SaxFails

\* A step of the SAX parser stays within its limits.
LEMMA SaxScalarWithin ==
    ASSUME ParserInv, SaxScalar
    PROVE  SaxWithin(sax')
<1>. USE DEF ParserInv
<1>. DEFINE x == Here(sax)
            code == SaxScalarCode(x)
            past == Past(sax, x)
            read == [past EXCEPT !.nodes = @ + 1]
<1>1. sax.at # 0 /\ Peek(sax) # "end" /\ x.kind \in Scalars
  BY DEF SaxScalar, SaxReady, Active, SaxWithin, Limits, Peek, Here, Scalars
<1>2. code = "None" => ReadCode(x, From(sax)) = "None" /\ ~NodesSpent(sax.nodes)
  <2>. DEFINE charge == Check(NodesSpent(sax.nodes), "NodeLimit")
              readCode == ReadCode(x, From(sax))
              strings == <<charge, readCode, Check(x.fault = "encoding", "InvalidEncoding")>>
              numbers == <<readCode, Check(x.fault = "incomplete", "NumberRange"), charge,
                           Check(Unrepresentable(x), "NumberRange")>>
              literals == <<readCode, charge>>
  <2>1. code \in {FirstOf(strings), FirstOf(numbers), FirstOf(literals)}
    BY <1>1, Zenon DEF SaxScalarCode, Scalars
  <2>2. /\ strings[1] = charge /\ strings[2] = readCode
        /\ Len(strings) \in Nat /\ 1 \in 1..Len(strings) /\ 2 \in 1..Len(strings)
    OBVIOUS
  <2>3. /\ numbers[1] = readCode /\ numbers[3] = charge
        /\ Len(numbers) \in Nat /\ 1 \in 1..Len(numbers) /\ 3 \in 1..Len(numbers)
    OBVIOUS
  <2>4. /\ literals[1] = readCode /\ literals[2] = charge
        /\ Len(literals) \in Nat /\ 1 \in 1..Len(literals) /\ 2 \in 1..Len(literals)
    OBVIOUS
  <2>. HIDE DEF code, charge, readCode, strings, numbers, literals
  <2>5. code = "None" => charge = "None" /\ readCode = "None"
    BY <2>1, <2>2, <2>3, <2>4, NoneFailed, Zenon
  <2>. QED
    BY <2>5 DEF charge, readCode, Check
<1>3. CASE code # "None"
  BY <1>3, SaxFailsWithin, Zenon DEF SaxScalar
<1>4. CASE code = "None"
  <2>1. PICK t \in Dispatched(read, Emitting(sax), Event("value", Leaf(x))) :
              sax' = IF t.pc = "done" THEN t ELSE SaxReturned(t)
    BY <1>4, Zenon DEF SaxScalar
  <2>2. SaxWithin(past) /\ past.at # 0 /\ past.nodes = sax.nodes
    BY <1>1, <1>2, <1>4, PastWithin
  <2>. HIDE DEF past
  <2>3. SaxShape(read) /\ read.at = past.at /\ read.pos = past.pos
        /\ read.frames = past.frames /\ read.nodes = past.nodes + 1
    <3>1. SaxShape(read)
      BY <2>2 DEF SaxWithin, SaxShape
    <3>. QED
      BY <2>2, <3>1 DEF SaxWithin, SaxShape, SaxFields
  <2>. HIDE DEF read
  <2>4. SaxWithin(read) /\ read.at # 0
    BY <1>2, <1>4, <2>2, <2>3, SaxMoves DEF SaxWithin, Limits
  <2>. QED
    BY <2>1, <2>4, ReportedWithin
<1>. QED
  BY <1>3, <1>4

LEMMA SaxOpenWithin ==
    ASSUME ParserInv, SaxOpen
    PROVE  SaxWithin(sax')
<1>. USE DEF ParserInv
<1>. DEFINE x == Here(sax)
            checks == <<Check(Len(sax.frames) + 1 > EffectiveDepth, "DepthLimit"),
                        Check(NodesSpent(sax.nodes), "NodeLimit"),
                        ReadCode(x, From(sax))>>
            code == FirstOf(checks)
            past == Past(sax, x)
            read == [past EXCEPT !.nodes = @ + 1]
            frame == SaxFrame(x.kind, Emitting(sax))
<1>1. sax.at # 0 /\ Peek(sax) # "end"
  BY DEF SaxOpen, SaxReady, Active, SaxWithin, Limits, Peek, Openers
<1>2. code = "None" => /\ ReadCode(x, From(sax)) = "None" /\ ~NodesSpent(sax.nodes)
                       /\ ~(Len(sax.frames) + 1 > EffectiveDepth)
  <2>1. /\ checks[1] = Check(Len(sax.frames) + 1 > EffectiveDepth, "DepthLimit")
        /\ checks[2] = Check(NodesSpent(sax.nodes), "NodeLimit")
        /\ checks[3] = ReadCode(x, From(sax))
        /\ Len(checks) \in Nat /\ 1..3 = 1..Len(checks)
    OBVIOUS
  <2>2. 1 \in 1..3 /\ 2 \in 1..3 /\ 3 \in 1..3
    OBVIOUS
  <2>. HIDE DEF checks
  <2>3. code = "None" => checks[1] = "None" /\ checks[2] = "None" /\ checks[3] = "None"
    BY <2>1, <2>2, NoneFailed, Zenon
  <2>. HIDE DEF code
  <2>. QED
    BY <2>1, <2>3 DEF Check
<1>3. CASE code # "None"
  BY <1>3, SaxFailsWithin, Zenon DEF SaxOpen, SaxOpenCode
<1>4. CASE code = "None"
  <2>1. PICK t \in Dispatched(read, Emitting(sax), Event("start", x.kind)) :
              sax' = IF t.pc = "done" THEN t
                     ELSE [t EXCEPT !.pc = "frame", !.frames = Append(@, frame)]
    BY <1>4, Zenon DEF SaxOpen, SaxOpenCode
  <2>2. /\ SaxWithin(past) /\ past.at # 0 /\ past.nodes = sax.nodes
        /\ past.frames = sax.frames
    BY <1>1, <1>2, <1>4, PastWithin
  <2>. HIDE DEF past
  <2>3. SaxShape(read) /\ read.at = past.at /\ read.pos = past.pos
        /\ read.frames = past.frames /\ read.nodes = past.nodes + 1
    <3>1. SaxShape(read)
      BY <2>2 DEF SaxWithin, SaxShape
    <3>. QED
      BY <2>2, <3>1 DEF SaxWithin, SaxShape, SaxFields
  <2>. HIDE DEF read
  <2>4. SaxWithin(read) /\ read.at # 0
    BY <1>2, <1>4, <2>2, <2>3, SaxMoves DEF SaxWithin, Limits
  <2>5. SaxWithin(t) /\ (t.pc # "done" => t.at # 0 /\ t.frames = sax.frames)
    BY <2>2, <2>3, <2>4, DispatchedWithin
  <2>6. CASE t.pc # "done"
    <3>. DEFINE open == [t EXCEPT !.pc = "frame", !.frames = Append(@, frame)]
    <3>. HIDE DEF frame
    <3>1. SaxShape(open)
      BY <2>5 DEF SaxWithin, SaxShape
    <3>2. /\ open.at = t.at /\ open.pos = t.pos /\ open.nodes = t.nodes
          /\ open.frames = Append(t.frames, frame)
      BY <2>5 DEF SaxWithin, SaxShape, SaxFields
    <3>3. IsSequence(t.frames) /\ Len(t.frames) + 1 <= EffectiveDepth
      <4>1. Len(sax.frames) \in Nat /\ EffectiveDepth \in Nat /\ IsSequence(sax.frames)
        BY DepthIsPositive DEF SaxWithin, Limits, IsSequence
      <4>. QED
        BY <1>2, <1>4, <2>5, <2>6, <4>1
    <3>4. IsSequence(open.frames) /\ Len(open.frames) <= EffectiveDepth
      BY <3>2, <3>3, AppendIsSequence
    <3>. HIDE DEF open
    <3>5. SaxWithin(open)
      BY <2>5, <2>6, <3>1, <3>2, <3>4, SaxMoves
    <3>. QED
      BY <2>1, <2>6, <3>5 DEF open
  <2>. QED
    BY <2>1, <2>5, <2>6
<1>. QED
  BY <1>3, <1>4

\* Steps that read punctuation or a name.
LEMMA SaxReadWithin ==
    ASSUME ParserInv, SaxComma \/ SaxClose \/ SaxKey \/ SaxColon
    PROVE  SaxWithin(sax')
<1>. USE DEF ParserInv
<1>. DEFINE x == Here(sax)
            past == Past(sax, x)
            readCode == ReadCode(x, From(sax))
<1>a. sax.at # 0 /\ Peek(sax) # "end"
  BY DEF SaxComma, SaxClose, SaxKey, SaxColon, SaxReady, Active, SaxWithin, Limits, Closer
<1>b. readCode = "None" => /\ SaxWithin(past) /\ past.at # 0 /\ past.frames = sax.frames
                           /\ past.nodes = sax.nodes /\ SaxShape(past)
  BY <1>a, PastWithin DEF SaxWithin
<1>c. IsSequence(sax.frames) /\ Len(sax.frames) <= EffectiveDepth /\ Len(sax.frames) \in Nat
      /\ EffectiveDepth \in Nat
  BY DepthIsPositive DEF SaxWithin, Limits, IsSequence
<1>1. CASE SaxComma
  <2>. DEFINE frames == [sax.frames EXCEPT ![Len(sax.frames)].expect = TRUE]
              read == [past EXCEPT !.frames[Len(sax.frames)].expect = TRUE]
  <2>1. CASE readCode # "None"
    BY <1>1, <2>1, SaxFailsWithin, Zenon DEF SaxComma, SaxPunctuation
  <2>2. CASE readCode = "None"
    <3>1. sax' = read
      BY <1>1, <2>2, Zenon DEF SaxComma, SaxPunctuation
    <3>. HIDE DEF past
    <3>2. SaxShape(read)
      BY <1>b, <2>2 DEF SaxShape
    <3>3. /\ read.at = past.at /\ read.pos = past.pos /\ read.nodes = past.nodes
          /\ read.frames = frames
      BY <1>b, <2>2 DEF SaxShape, SaxFields
    <3>4. IsSequence(frames) /\ Len(frames) = Len(sax.frames)
      BY <1>c, ReplacedIsSequence
    <3>. HIDE DEF read, frames
    <3>5. SaxWithin(read)
      BY <1>b, <1>c, <2>2, <3>2, <3>3, <3>4, SaxMoves
    <3>. QED
      BY <3>1, <3>5
  <2>. QED
    BY <2>1, <2>2
<1>2. CASE SaxClose
  <2>. DEFINE emit == Inner(sax).emit
              event == Event("end", Inner(sax).kind)
  <2>1. CASE readCode # "None"
    BY <1>2, <2>1, SaxFailsWithin, Zenon DEF SaxClose, SaxPunctuation
  <2>2. CASE readCode = "None"
    <3>1. PICK t \in Dispatched(past, emit, event) :
            sax' = IF t.pc = "done" THEN t ELSE SaxReturned([t EXCEPT !.frames = Front(@)])
      <4>1. sax' \in {IF t.pc = "done" THEN t ELSE SaxReturned([t EXCEPT !.frames = Front(@)]) :
                        t \in Dispatched(past, emit, event)}
        BY <1>2, <2>2, Zenon DEF SaxClose, SaxPunctuation
      <4>. QED
        BY <4>1, Zenon
    <3>. HIDE DEF past, emit, event
    <3>2. /\ SaxWithin(t)
          /\ t.pc # "done" => t.at # 0 /\ t.frames = sax.frames
      BY <1>b, <2>2, DispatchedWithin
    <3>3. CASE t.pc # "done"
      <4>. DEFINE popped == [t EXCEPT !.frames = Front(@)]
      <4>1. SaxShape(popped)
        BY <3>2 DEF SaxWithin, SaxShape
      <4>2. /\ popped.at = t.at /\ popped.pos = t.pos /\ popped.nodes = t.nodes
            /\ popped.frames = Front(sax.frames)
        BY <3>2, <3>3 DEF SaxWithin, SaxShape, SaxFields
      <4>3. IsSequence(popped.frames) /\ Len(popped.frames) <= EffectiveDepth
        BY <1>c, <4>2, FrontIsSequence DEF IsSequence
      <4>. HIDE DEF popped
      <4>4. SaxWithin(popped) /\ popped.at # 0
        BY <3>2, <3>3, <4>1, <4>2, <4>3, SaxMoves
      <4>. QED
        BY <3>1, <3>3, <4>4, SaxReturnedWithin DEF popped
    <3>. QED
      BY <3>1, <3>2, <3>3
  <2>. QED
    BY <2>1, <2>2
<1>3. CASE SaxKey
  <2>. DEFINE checks == <<readCode, Check(x.fault = "encoding", "InvalidEncoding")>>
              code == FirstOf(checks)
              frames == [sax.frames EXCEPT ![Len(sax.frames)].key = x.val]
              named == [past EXCEPT !.pc = "colon", !.frames[Len(sax.frames)].key = x.val]
  <2>1. CASE code # "None"
    BY <1>3, <2>1, SaxFailsWithin, Zenon DEF SaxKey
  <2>2. CASE code = "None"
    <3>1. sax' = named
      BY <1>3, <2>2, Zenon DEF SaxKey
    <3>2. readCode = "None"
      <4>1. checks[1] = readCode /\ Len(checks) \in Nat /\ 1 \in 1..Len(checks)
        OBVIOUS
      <4>. HIDE DEF checks
      <4>. QED
        BY <2>2, <4>1, NoneFailed, Zenon
    <3>. HIDE DEF past, x
    <3>3. SaxShape(named)
      BY <1>b, <3>2 DEF SaxShape
    <3>4. /\ named.at = past.at /\ named.pos = past.pos /\ named.nodes = past.nodes
          /\ named.frames = frames
      BY <1>b, <3>2 DEF SaxShape, SaxFields
    <3>5. IsSequence(frames) /\ Len(frames) = Len(sax.frames)
      BY <1>c, ReplacedIsSequence
    <3>. HIDE DEF named, frames
    <3>6. SaxWithin(named)
      BY <1>b, <1>c, <3>2, <3>3, <3>4, <3>5, SaxMoves
    <3>. QED
      BY <3>1, <3>6
  <2>. QED
    BY <2>1, <2>2
<1>4. CASE SaxColon
  <2>. DEFINE f == Inner(sax)
              reject == options.duplicateKeys = "RejectDuplicateKeys"
              checks == <<readCode, Check(Duplicate(f) /\ reject, "DuplicateKey")>>
              code == FirstOf(checks)
              frames == [sax.frames EXCEPT ![Len(sax.frames)] = Named(f)]
              read == [past EXCEPT !.frames[Len(sax.frames)] = Named(f), !.pc = "value"]
  <2>1. CASE code # "None"
    BY <1>4, <2>1, SaxFailsWithin, Zenon DEF SaxColon
  <2>2. CASE code = "None"
    <3>1. sax' \in Dispatched(read, Named(f).emitValue, Event("key", f.key))
      BY <1>4, <2>2, Zenon DEF SaxColon
    <3>2. readCode = "None"
      <4>1. checks[1] = readCode /\ Len(checks) \in Nat /\ 1 \in 1..Len(checks)
        OBVIOUS
      <4>. HIDE DEF checks
      <4>. QED
        BY <2>2, <4>1, NoneFailed, Zenon
    <3>. HIDE DEF past, f
    <3>3. SaxShape(read)
      BY <1>b, <3>2 DEF SaxShape
    <3>4. /\ read.at = past.at /\ read.pos = past.pos /\ read.nodes = past.nodes
          /\ read.frames = frames
      BY <1>b, <3>2 DEF SaxShape, SaxFields
    <3>5. IsSequence(frames) /\ Len(frames) = Len(sax.frames)
      BY <1>c, ReplacedIsSequence
    <3>. HIDE DEF read, frames
    <3>6. SaxWithin(read) /\ read.at # 0
      BY <1>b, <1>c, <3>2, <3>3, <3>4, <3>5, SaxMoves
    <3>. QED
      BY <3>1, <3>6, DispatchedWithin
  <2>. QED
    BY <2>1, <2>2
<1>. QED
  BY <1>1, <1>2, <1>3, <1>4

LEMMA SaxStepWithin ==
    ASSUME ParserInv, SaxNext
    PROVE  SaxWithin(sax')
<1>. USE DEF ParserInv
<1>1. CASE SaxStart
  <2>1. CASE sax' = [sax EXCEPT !.pc = "value"] /\ sax.at # 0
    <3>1. SaxShape(sax') /\ SaxShape(sax)
      BY <2>1 DEF SaxWithin, SaxShape
    <3>2. /\ sax'.at = sax.at /\ sax'.pos = sax.pos /\ sax'.frames = sax.frames
          /\ sax'.nodes = sax.nodes
      BY <2>1, <3>1 DEF SaxShape, SaxFields
    <3>. QED
      BY <2>1, <3>1, <3>2, SaxMoves DEF SaxWithin, Limits
  <2>. QED
    BY <1>1, <2>1, SaxFailsWithin DEF SaxStart, SaxWithin, Limits
<1>2. CASE SaxSpace \/ SaxUnexpected \/ SaxOutOfMemory
  BY <1>2, SaxFailsWithin DEF SaxSpace, SaxUnexpected, SaxOutOfMemory
<1>3. CASE SaxReturns
  <2>1. CASE sax' = [sax EXCEPT !.pc = "done", !.at = 0]
    <3>1. SaxShape(sax') /\ SaxShape(sax)
      BY <2>1 DEF SaxWithin, SaxShape
    <3>2. /\ sax'.pc = "done" /\ sax'.at = 0 /\ sax'.pos = sax.pos
          /\ sax'.frames = sax.frames /\ sax'.nodes = sax.nodes
      BY <2>1, <3>1 DEF SaxShape, SaxFields
    <3>. QED
      BY <3>1, <3>2 DEF SaxWithin, Limits, BytesLeft
  <2>. QED
    BY <1>3, <2>1, SaxFailsWithin DEF SaxReturns
<1>. QED
  BY <1>1, <1>2, <1>3, SaxScalarWithin, SaxOpenWithin, SaxReadWithin DEF SaxNext

-----------------------------------------------------------------------------
(* The text, and the theorem.                                              *)
LEMMA TextGrows ==
    ASSUME TextInv, Supply
    PROVE  TextInv'
<1>1. CASE Ends
  BY <1>1 DEF Ends, TextInv, IsSequence
<1>2. ASSUME NEW x \in Lexemes, NEW have \in 1..Len(x.bytes), Arrives(x, have)
      PROVE  TextInv'
  <2>. DEFINE S == {text[i] : i \in 1..Len(text)} \cup {Existing(x, have)}
  <2>1. text \in Seq(S) /\ Existing(x, have) \in S /\ text' = Append(text, Existing(x, have))
    BY <1>2 DEF TextInv, IsSequence, Arrives
  <2>2. /\ IsSequence(text') /\ Len(text') = Len(text) + 1 /\ Len(text) \in Nat
        /\ text'[Len(text) + 1] = Existing(x, have)
        /\ \A i \in 1..Len(text) : text'[i] = text[i]
    <3>. HIDE DEF S
    <3>. QED
      BY <2>1, AppendIsSequence, AppendProperties DEF TextInv, IsSequence
  <2>3. /\ Existing(x, have).gap \in Nat /\ Existing(x, have).bytes \in Seq(ByteKinds)
        /\ Existing(x, have).have \in 1..Len(Existing(x, have).bytes)
    BY ParserAssumption DEF Existing
  <2>. QED
    BY <2>2, <2>3 DEF TextInv
<1>. QED
  BY <1>1, <1>2 DEF Supply

LEMMA InitWithin == Init => ParserInv
<1>. SUFFICES ASSUME Init PROVE ParserInv
  OBVIOUS
<1>1. options \in Configurations /\ options.maxNodes \in Nat /\ options.maxInputBytes \in Nat
      /\ EffectiveDepth \in Nat \ {0}
  BY DepthIsPositive, ParserAssumption DEF Init, InputInit
<1>2. Len(<<>>) = 0 /\ IsSequence(<<>>)
  BY DEF IsSequence
<1>3. DomWithin(dom)
  <2>1. dom = [pc |-> "idle", at |-> 1, frames |-> <<>>, nodes |-> 0, code |-> "None",
               doc |-> NoDocument]
    BY Zenon DEF Init, DomInit
  <2>. QED
    BY <1>1, <1>2, <2>1 DEF DomWithin, DomShape, DomFields, Limits
<1>4. SaxWithin(sax)
  <2>1. sax = [pc |-> "idle", at |-> 1, pos |-> 0, frames |-> <<>>, nodes |-> 0,
               code |-> "None", stopped |-> "none", built |-> Nothing]
    BY Zenon DEF Init, SaxInit
  <2>. QED
    BY <1>1, <1>2, <2>1 DEF SaxWithin, SaxShape, SaxFields, Limits, BytesLeft
<1>5. TextInv
  BY <1>2 DEF Init, InputInit, TextInv
<1>. QED
  BY <1>1, <1>3, <1>4, <1>5 DEF ParserInv

LEMMA StepWithin == ParserInv /\ [Next]_vars => ParserInv'
<1>. SUFFICES ASSUME ParserInv, [Next]_vars PROVE ParserInv'
  OBVIOUS
<1>. USE DEF ParserInv
<1>1. options' = options
  BY DEF Next, vars, input, Arrival, Supply, ParseDom, DomNext, ParseSax, SaxNext, Finished
<1>2. EffectiveDepth' = EffectiveDepth
  BY <1>1 DEF EffectiveDepth, clampParseDepth
<1>3. TextInv'
  <2>1. text' = text \/ Supply
    BY DEF Next, vars, input, Arrival, ParseDom, DomNext, ParseSax, SaxNext, Finished
  <2>. QED
    BY <2>1, TextGrows DEF TextInv, IsSequence
<1>4. DomWithin(dom')
  <2>1. dom' = dom \/ DomNext
    BY DEF Next, vars, Arrival, ParseDom, ParseSax, Finished
  <2>. QED
    BY <2>1, DomStepWithin
<1>5. SaxWithin(sax')
  <2>1. sax' = sax \/ SaxNext
    BY DEF Next, vars, Arrival, ParseDom, ParseSax, Finished
  <2>. QED
    BY <2>1, SaxStepWithin
<1>6. DomWithin(dom)'
  BY <1>1, <1>2, <1>4 DEF DomWithin, DomShape, Limits
<1>7. SaxWithin(sax)'
  BY <1>1, <1>2, <1>5 DEF SaxWithin, SaxShape, Limits, BytesLeft
<1>. QED
  BY <1>1, <1>3, <1>6, <1>7

-----------------------------------------------------------------------------
(* What a handler hears.                                                    *)
FrameFields == {"kind", "expect", "any", "emit", "keys", "key", "emitValue"}
BuiltFields == {"open", "doc", "whole", "good"}
BuiltShape(b) == DOMAIN b = BuiltFields /\ b = [k \in BuiltFields |-> b[k]]

\* The containers that are reported are the outer ones, and they are open in
\* what the handler builds; it has heard names the parser knows.
FramesNest(f, b) ==
    /\ IsSequence(f) /\ IsSequence(b.open) /\ Len(b.open) <= Len(f)
    /\ Len(f) # 0 => Len(b.open) # 0
    /\ \A i \in 1..Len(f) :
        /\ DOMAIN f[i] = FrameFields /\ f[i].kind \in Openers
        /\ f[i].emit = (i <= Len(b.open)) /\ f[i].emitValue \in BOOLEAN
        /\ f[i].emitValue => f[i].emit
    /\ \A i \in 1..Len(b.open) :
        /\ b.open[i].kind = f[i].kind /\ b.open[i].named \in BOOLEAN
        /\ options.duplicateKeys = "KeepLastDuplicate" \/ b.open[i].names \subseteq f[i].keys

\* No name awaits its value.
Quiet(b) == Len(b.open) # 0 => Top(b).named = FALSE

\* The handler awaits a value where the parser will report one.
Nests(s) ==
    /\ BuiltShape(s.built) /\ s.built.good = TRUE
    /\ s.pc # "done" =>
        /\ FramesNest(s.frames, s.built)
        /\ Len(s.frames) = 0 => /\ s.pc \in {"idle", "value", "trail"}
                                /\ s.built.whole = (s.pc = "trail")
        /\ Len(s.frames) # 0 => /\ s.pc \in {"value", "frame", "colon"}
                                /\ s.pc # "frame" => Inner(s).kind = "{"
                                /\ Top(s.built).named = (s.pc = "value" /\ Inner(s).emitValue)
    /\ s.pc = "done" /\ s.code = "None" => s.built.whole = TRUE /\ s.built.open = <<>>

LEMMA EmptySequence ==
    ASSUME NEW s, IsSequence(s)
    PROVE  s = <<>> <=> Len(s) = 0
<1>1. s = <<>> => Len(s) = 0
  OBVIOUS
<1>2. ASSUME Len(s) = 0 PROVE s = <<>>
  <2>1. s = [i \in 1..0 |-> s[i]]
    BY <1>2 DEF IsSequence
  <2>. QED
    BY <2>1
<1>. QED
  BY <1>1, <1>2

LEMMA AppendedMembers ==
    ASSUME NEW s, IsSequence(s), NEW x
    PROVE  /\ Append(s, x)[Len(s) + 1] = x
           /\ \A i \in 1..Len(s) : Append(s, x)[i] = s[i]
<1>. DEFINE S == {s[i] : i \in 1..Len(s)} \cup {x}
<1>1. s \in Seq(S) /\ x \in S
  BY DEF IsSequence
<1>. QED
  BY <1>1, AppendProperties

LEMMA FrontMembers ==
    ASSUME NEW s, IsSequence(s), Len(s) # 0
    PROVE  /\ IsSequence(Front(s)) /\ Len(Front(s)) = Len(s) - 1
           /\ \A i \in 1..(Len(s) - 1) : Front(s)[i] = s[i]
<1>. DEFINE S == {s[i] : i \in 1..Len(s)}
<1>1. s \in Seq(S) /\ Len(s) \in Nat
  BY DEF IsSequence
<1>2. /\ Len(SubSeq(s, 1, Len(s) - 1)) = Len(s) - 1
      /\ \A i \in 1..(Len(s) - 1) : SubSeq(s, 1, Len(s) - 1)[i] = s[i]
  <2>1. /\ 1 \in Int /\ Len(s) - 1 \in Int /\ Len(s) - 1 \in Nat
        /\ \A i \in 1..(Len(s) - 1) : s[i] \in S
    BY <1>1
  <2>. HIDE DEF S
  <2>2. /\ Len(SubSeq(s, 1, Len(s) - 1)) = IF 1 <= Len(s) - 1 THEN Len(s) - 1 - 1 + 1 ELSE 0
        /\ \A i \in 1..(Len(s) - 1 - 1 + 1) : SubSeq(s, 1, Len(s) - 1)[i] = s[1 + i - 1]
    BY <2>1, SubSeqProperties
  <2>3. Len(s) - 1 - 1 + 1 = Len(s) - 1 /\ \A i \in 1..(Len(s) - 1) : 1 + i - 1 = i
    BY <1>1
  <2>. QED
    BY <1>1, <2>2, <2>3
<1>. QED
  BY <1>2, FrontIsSequence DEF Front

-----------------------------------------------------------------------------
(* What a handler builds.                                                   *)
LEMMA TopReplaced ==
    ASSUME NEW b, BuiltShape(b), IsSequence(b.open), Len(b.open) # 0, NEW x
    PROVE  LET w == WithTop(b, x)
           IN  /\ BuiltShape(w) /\ w.whole = b.whole /\ w.good = b.good
               /\ IsSequence(w.open) /\ Len(w.open) = Len(b.open) /\ Top(w) = x
               /\ \A i \in 1..Len(b.open) : i # Len(b.open) => w.open[i] = b.open[i]
<1>. DEFINE w == WithTop(b, x)
            open == [b.open EXCEPT ![Len(b.open)] = x]
<1>1. Len(b.open) \in 1..Len(b.open)
  BY DEF IsSequence
<1>2. w = [b EXCEPT !.open = open]
  BY Zenon DEF WithTop
<1>3. BuiltShape(w) /\ w.whole = b.whole /\ w.good = b.good /\ w.open = open
  BY <1>2 DEF BuiltShape, BuiltFields
<1>4. /\ IsSequence(open) /\ Len(open) = Len(b.open) /\ open[Len(b.open)] = x
      /\ \A i \in 1..Len(b.open) : i # Len(b.open) => open[i] = b.open[i]
  <2>. DEFINE s == b.open
              n == Len(s)
  <2>1. IsSequence(s) /\ n \in 1..Len(s)
    BY <1>1
  <2>. HIDE DEF s
  <2>2. IsSequence([s EXCEPT ![n] = x]) /\ Len([s EXCEPT ![n] = x]) = Len(s)
    BY <2>1, ReplacedIsSequence
  <2>3. /\ [s EXCEPT ![n] = x][n] = x
        /\ \A i \in 1..Len(s) : i # n => [s EXCEPT ![n] = x][i] = s[i]
    BY <2>1 DEF IsSequence
  <2>. QED
    BY <2>2, <2>3 DEF s
<1>. HIDE DEF w, open
<1>. QED
  BY <1>3, <1>4 DEF w, Top

\* A value is put into the innermost open container, or it is the document.
LEMMA PlacedNests ==
    ASSUME NEW f, NEW b, BuiltShape(b), FramesNest(f, b), NEW doc
    PROVE  LET w == Placed(b, doc)
           IN  /\ BuiltShape(w) /\ w.good = b.good /\ FramesNest(f, w) /\ Quiet(w)
               /\ Len(f) = 0 => w.whole = TRUE
<1>. DEFINE w == Placed(b, doc)
<1>0. IsSequence(b.open) /\ IsSequence(f) /\ Len(b.open) \in Nat /\ Len(f) \in Nat
  BY DEF FramesNest, IsSequence
<1>1. CASE Len(b.open) = 0
  <2>1. w = [b EXCEPT !.doc = doc, !.whole = TRUE]
    BY <1>0, <1>1, EmptySequence, Zenon DEF Placed
  <2>2. BuiltShape(w) /\ w.whole = TRUE /\ w.good = b.good /\ w.open = b.open
    BY <2>1 DEF BuiltShape, BuiltFields
  <2>. HIDE DEF w
  <2>3. FramesNest(f, w) /\ Quiet(w)
    BY <1>1, <2>2 DEF FramesNest, Quiet
  <2>. QED
    BY <2>2, <2>3 DEF w
<1>2. CASE Len(b.open) # 0
  <2>. DEFINE x == Filled(Top(b), doc)
  <2>1. w = WithTop(b, x)
    BY <1>0, <1>2, EmptySequence, Zenon DEF Placed
  <2>2. x.kind = Top(b).kind /\ x.named = FALSE /\ x.names = Top(b).names
    BY DEF Filled
  <2>. HIDE DEF w, x
  <2>3. /\ BuiltShape(w) /\ w.good = b.good /\ Len(w.open) = Len(b.open) /\ IsSequence(w.open)
        /\ w.open[Len(b.open)] = x /\ Top(w) = x
        /\ \A i \in 1..Len(b.open) : i # Len(b.open) => w.open[i] = b.open[i]
    BY <1>0, <1>2, <2>1, TopReplaced DEF Top
  <2>4. FramesNest(f, w)
    BY <1>0, <2>2, <2>3 DEF FramesNest, Top
  <2>5. Quiet(w) /\ Len(f) # 0
    BY <1>0, <1>2, <2>2, <2>3 DEF Quiet, FramesNest
  <2>. QED
    BY <2>3, <2>4, <2>5 DEF w
<1>. QED
  BY <1>1, <1>2

\* A container opens, and in what the handler builds if it is reported.
LEMMA OpenedNests ==
    ASSUME NEW f, NEW b, BuiltShape(b), FramesNest(f, b), NEW kind \in Openers, NEW emit \in BOOLEAN,
           emit => Len(b.open) = Len(f), Len(f) = 0 => emit, emit \/ Quiet(b)
    PROVE  LET w == IF emit THEN [b EXCEPT !.open = Append(@, Opened(kind))] ELSE b
           IN  /\ BuiltShape(w) /\ w.good = b.good
               /\ FramesNest(Append(f, SaxFrame(kind, emit)), w) /\ Quiet(w)
<1>. DEFINE x == SaxFrame(kind, emit)
            g == Append(f, x)
<1>0. IsSequence(b.open) /\ IsSequence(f) /\ Len(b.open) \in Nat /\ Len(f) \in Nat
  BY DEF FramesNest, IsSequence
<1>1. /\ IsSequence(g) /\ Len(g) = Len(f) + 1 /\ g[Len(f) + 1] = x
      /\ \A i \in 1..Len(f) : g[i] = f[i]
  BY <1>0, AppendIsSequence, AppendedMembers
<1>2. /\ DOMAIN x = FrameFields /\ x.kind = kind /\ x.emit = emit /\ x.emitValue = FALSE
      /\ x.keys = {}
  BY DEF SaxFrame, FrameFields
<1>. HIDE DEF x, g
<1>a. \A i \in 1..Len(g) : i \in 1..Len(f) \/ i = Len(f) + 1
  BY <1>0, <1>1
<1>3. CASE emit = FALSE
  <2>0. Len(g) # 0 /\ Len(b.open) # 0 /\ Len(b.open) <= Len(f)
    BY <1>0, <1>1, <1>3 DEF FramesNest
  <2>1. ASSUME NEW i \in 1..Len(g)
        PROVE  /\ DOMAIN g[i] = FrameFields /\ g[i].kind \in Openers
               /\ g[i].emit = (i <= Len(b.open)) /\ g[i].emitValue \in BOOLEAN
               /\ g[i].emitValue => g[i].emit
    <3>1. CASE i \in 1..Len(f)
      BY <1>1, <3>1 DEF FramesNest
    <3>2. CASE i = Len(f) + 1
      <4>1. g[i] = x /\ ~(i <= Len(b.open))
        BY <1>0, <1>1, <2>0, <3>2
      <4>2. x.emit = FALSE
        BY <1>2, <1>3
      <4>3. kind \in Openers /\ FALSE \in BOOLEAN /\ (i <= Len(b.open)) = FALSE
        BY <4>1
      <4>. QED
        BY <1>2, <4>1, <4>2, <4>3
    <3>. QED
      BY <1>a, <3>1, <3>2
  <2>2. ASSUME NEW i \in 1..Len(b.open)
        PROVE  /\ b.open[i].kind = g[i].kind /\ b.open[i].named \in BOOLEAN
               /\ options.duplicateKeys = "KeepLastDuplicate" \/ b.open[i].names \subseteq g[i].keys
    <3>1. i \in 1..Len(f)
      BY <1>0, <2>0
    <3>. QED
      BY <1>1, <3>1 DEF FramesNest
  <2>3. FramesNest(g, b)
    BY <1>0, <1>1, <2>0, <2>1, <2>2 DEF FramesNest
  <2>. QED
    BY <1>3, <2>3 DEF x, g
<1>4. CASE emit = TRUE
  <2>. DEFINE o == Opened(kind)
              open == Append(b.open, o)
              w == [b EXCEPT !.open = open]
  <2>1. /\ IsSequence(open) /\ Len(open) = Len(b.open) + 1 /\ open[Len(b.open) + 1] = o
        /\ \A i \in 1..Len(b.open) : open[i] = b.open[i]
    BY <1>0, AppendIsSequence, AppendedMembers
  <2>2. o.kind = kind /\ o.named = FALSE /\ o.names = {}
    BY DEF Opened
  <2>. HIDE DEF o, open
  <2>3. BuiltShape(w) /\ w.good = b.good /\ w.open = open
    BY DEF BuiltShape, BuiltFields
  <2>. HIDE DEF w
  <2>4. FramesNest(g, w)
    <3>1. Len(b.open) = Len(f)
      BY <1>4
    <3>2. /\ IsSequence(g) /\ IsSequence(w.open) /\ Len(w.open) = Len(g) /\ Len(g) # 0
      BY <1>0, <1>1, <2>1, <2>3, <3>1
    <3>3. ASSUME NEW i \in 1..Len(g)
          PROVE  /\ DOMAIN g[i] = FrameFields /\ g[i].kind \in Openers
                 /\ g[i].emit = (i <= Len(w.open)) /\ g[i].emitValue \in BOOLEAN
                 /\ g[i].emitValue => g[i].emit
      <4>1. CASE i \in 1..Len(f)
        BY <1>0, <1>1, <3>1, <3>2, <4>1 DEF FramesNest
      <4>2. CASE i = Len(f) + 1
        <5>1. g[i] = x /\ i <= Len(w.open)
          BY <1>0, <1>1, <3>2, <4>2
        <5>2. x.emit = TRUE
          BY <1>2, <1>4
        <5>. QED
          BY <1>2, <5>1, <5>2
      <4>. QED
        BY <1>a, <4>1, <4>2
    <3>4. ASSUME NEW i \in 1..Len(w.open)
          PROVE  /\ w.open[i].kind = g[i].kind /\ w.open[i].named \in BOOLEAN
                 /\ options.duplicateKeys = "KeepLastDuplicate" \/ w.open[i].names \subseteq g[i].keys
      <4>1. CASE i \in 1..Len(f)
        BY <1>0, <1>1, <2>1, <2>3, <3>1, <4>1 DEF FramesNest
      <4>2. CASE i = Len(f) + 1
        BY <1>0, <1>1, <1>2, <2>1, <2>2, <2>3, <3>1, <4>2
      <4>. QED
        BY <1>a, <3>2, <4>1, <4>2
    <3>. QED
      BY <3>2, <3>3, <3>4 DEF FramesNest
  <2>5. Quiet(w)
    BY <1>0, <2>1, <2>2, <2>3 DEF Quiet, Top
  <2>. QED
    BY <1>4, <2>3, <2>4, <2>5 DEF w, open, o, x, g
<1>. QED
  BY <1>3, <1>4

\* A container closes, and in what the handler builds if it was reported.
LEMMA ClosedNests ==
    ASSUME NEW f, NEW b, BuiltShape(b), FramesNest(f, b), Quiet(b), Len(f) # 0, NEW doc
    PROVE  LET w == IF f[Len(f)].emit THEN Placed([b EXCEPT !.open = Front(@)], doc) ELSE b
           IN  /\ BuiltShape(w) /\ w.good = b.good /\ FramesNest(Front(f), w) /\ Quiet(w)
               /\ Len(Front(f)) = 0 => w.whole = TRUE
<1>. DEFINE g == Front(f)
<1>0. /\ IsSequence(b.open) /\ IsSequence(f) /\ Len(b.open) \in Nat /\ Len(f) \in Nat
      /\ Len(f) \in 1..Len(f) /\ Len(b.open) # 0
  BY DEF FramesNest, IsSequence
<1>1. /\ IsSequence(g) /\ Len(g) = Len(f) - 1 /\ \A i \in 1..(Len(f) - 1) : g[i] = f[i]
  BY <1>0, FrontMembers
<1>. HIDE DEF g
<1>2. f[Len(f)].emit = (Len(f) <= Len(b.open)) /\ Len(b.open) <= Len(f)
  BY <1>0 DEF FramesNest
<1>3. CASE Len(f) <= Len(b.open)
  <2>. DEFINE open == Front(b.open)
              c == [b EXCEPT !.open = open]
  <2>1. /\ IsSequence(open) /\ Len(open) = Len(b.open) - 1
        /\ \A i \in 1..(Len(b.open) - 1) : open[i] = b.open[i]
    BY <1>0, FrontMembers
  <2>. HIDE DEF open
  <2>2. BuiltShape(c) /\ c.good = b.good /\ c.open = open
    BY DEF BuiltShape, BuiltFields
  <2>. HIDE DEF c
  <2>3. FramesNest(g, c)
    BY <1>0, <1>1, <1>2, <1>3, <2>1, <2>2 DEF FramesNest
  <2>4. LET w == Placed(c, doc)
        IN  /\ BuiltShape(w) /\ w.good = b.good /\ FramesNest(g, w) /\ Quiet(w)
            /\ Len(g) = 0 => w.whole = TRUE
    BY <2>2, <2>3, PlacedNests
  <2>. QED
    BY <1>2, <1>3, <2>4 DEF c, open, g
<1>4. CASE ~(Len(f) <= Len(b.open))
  <2>1. FramesNest(g, b) /\ Len(g) # 0
    BY <1>0, <1>1, <1>2, <1>4 DEF FramesNest
  <2>. QED
    BY <1>2, <1>4, <2>1 DEF g
<1>. QED
  BY <1>3, <1>4

\* The bookkeeping of a frame that is of no concern to a handler changes.
LEMMA SameFramesNest ==
    ASSUME NEW f, NEW b, FramesNest(f, b), NEW g, IsSequence(g), Len(g) = Len(f),
           \A i \in 1..Len(f) : i # Len(f) => g[i] = f[i],
           Len(f) # 0 =>
               LET x == g[Len(f)]
                   y == f[Len(f)]
               IN  /\ DOMAIN x = FrameFields /\ x.kind = y.kind /\ x.emit = y.emit
                   /\ x.emitValue = y.emitValue /\ x.keys = y.keys
    PROVE  FramesNest(g, b)
<1>0. IsSequence(b.open) /\ IsSequence(f) /\ Len(b.open) \in Nat /\ Len(f) \in Nat
      /\ Len(b.open) <= Len(f)
  BY DEF FramesNest, IsSequence
<1>1. ASSUME NEW i \in 1..Len(f)
      PROVE  /\ DOMAIN g[i] = FrameFields /\ g[i].kind = f[i].kind /\ g[i].emit = f[i].emit
             /\ g[i].emitValue = f[i].emitValue /\ g[i].keys = f[i].keys
  <2>1. CASE i = Len(f)
    BY <1>0, <2>1
  <2>2. CASE i # Len(f)
    BY <2>2 DEF FramesNest
  <2>. QED
    BY <2>1, <2>2
<1>2. 1..Len(b.open) \subseteq 1..Len(f)
  BY <1>0
<1>. QED
  BY <1>0, <1>1, <1>2 DEF FramesNest

\* A member has its name and its colon.
LEMMA NamedNests ==
    ASSUME NEW f, NEW b, BuiltShape(b), FramesNest(f, b), Quiet(b), Len(f) # 0
    PROVE  LET x == f[Len(f)]
               g == [f EXCEPT ![Len(f)] = Named(x)]
               w == IF Named(x).emitValue THEN WithTop(b, Keyed(Top(b), x.key)) ELSE b
           IN  /\ IsSequence(g) /\ Len(g) = Len(f) /\ g[Len(f)] = Named(x) /\ Named(x).kind = x.kind
               /\ BuiltShape(w) /\ w.good = b.good /\ FramesNest(g, w)
               /\ Top(w).named = Named(x).emitValue /\ Named(x).emitValue \in BOOLEAN
               /\ Named(x).emitValue => Len(b.open) = Len(f) /\ ~Duplicate(x)
<1>. DEFINE x == f[Len(f)]
            n == Named(x)
            g == [f EXCEPT ![Len(f)] = n]
            last == options.duplicateKeys = "KeepLastDuplicate"
<1>0. /\ IsSequence(b.open) /\ IsSequence(f) /\ Len(b.open) \in Nat /\ Len(f) \in Nat
      /\ Len(f) \in 1..Len(f) /\ Len(b.open) # 0 /\ Len(b.open) <= Len(f)
  BY DEF FramesNest, IsSequence
<1>1. /\ DOMAIN x = FrameFields /\ x.kind \in Openers /\ x.emit = (Len(f) <= Len(b.open))
      /\ x.emit \in BOOLEAN
  <2>1. /\ DOMAIN x = FrameFields /\ x.kind \in Openers
        /\ x.emit = (Len(f) <= Len(b.open))
    BY <1>0 DEF FramesNest
  <2>2. (Len(f) <= Len(b.open)) \in BOOLEAN
    OBVIOUS
  <2>. QED
    BY <2>1, <2>2
<1>2. /\ DOMAIN n = FrameFields /\ n.kind = x.kind /\ n.emit = x.emit
      /\ n.emitValue = (x.emit /\ ~Duplicate(x))
      /\ n.keys = IF last THEN x.keys ELSE x.keys \cup {x.key}
  BY <1>1 DEF Named, FrameFields
<1>3. /\ IsSequence(g) /\ Len(g) = Len(f) /\ g[Len(f)] = n
      /\ \A i \in 1..Len(f) : i # Len(f) => g[i] = f[i]
  <2>. HIDE DEF n
  <2>1. IsSequence(g) /\ Len(g) = Len(f)
    BY <1>0, ReplacedIsSequence
  <2>2. g[Len(f)] = n /\ \A i \in 1..Len(f) : i # Len(f) => g[i] = f[i]
    BY <1>0 DEF IsSequence
  <2>. QED
    BY <2>1, <2>2
<1>. HIDE DEF n, g
<1>4. ASSUME NEW i \in 1..Len(f)
      PROVE  /\ DOMAIN g[i] = FrameFields /\ g[i].kind = f[i].kind /\ g[i].emit = f[i].emit
             /\ f[i].keys \subseteq g[i].keys
             /\ g[i].emitValue \in BOOLEAN /\ (g[i].emitValue => g[i].emit)
  <2>1. CASE i = Len(f)
    <3>1. g[i] = n /\ f[i] = x
      BY <1>3, <2>1
    <3>2. n.emitValue \in BOOLEAN /\ (n.emitValue => n.emit)
      BY <1>2
    <3>3. x.keys \subseteq n.keys
      BY <1>2
    <3>. QED
      BY <1>2, <3>1, <3>2, <3>3
  <2>2. CASE i # Len(f)
    BY <1>3, <2>2 DEF FramesNest
  <2>. QED
    BY <2>1, <2>2
<1>5. FramesNest(g, b)
  <2>1. 1..Len(b.open) \subseteq 1..Len(f)
    BY <1>0
  <2>2. ASSUME NEW i \in 1..Len(f)
        PROVE  /\ DOMAIN g[i] = FrameFields /\ g[i].kind \in Openers
               /\ g[i].emit = (i <= Len(b.open)) /\ g[i].emitValue \in BOOLEAN
               /\ g[i].emitValue => g[i].emit
    BY <1>4 DEF FramesNest
  <2>3. ASSUME NEW i \in 1..Len(b.open)
        PROVE  /\ b.open[i].kind = g[i].kind /\ b.open[i].named \in BOOLEAN
               /\ options.duplicateKeys = "KeepLastDuplicate" \/ b.open[i].names \subseteq g[i].keys
    BY <1>4, <2>1 DEF FramesNest
  <2>. QED
    BY <1>0, <1>3, <2>2, <2>3 DEF FramesNest
<1>6. CASE n.emitValue = FALSE
  <2>1. Top(b).named = FALSE
    BY <1>0 DEF Quiet
  <2>. QED
    BY <1>2, <1>3, <1>5, <1>6, <2>1 DEF n, g
<1>7. CASE n.emitValue = TRUE
  <2>. DEFINE o == Keyed(Top(b), x.key)
              w == WithTop(b, o)
  <2>0. Len(b.open) = Len(f) /\ ~Duplicate(x)
    <3>1. x.emit = TRUE /\ ~Duplicate(x)
      BY <1>1, <1>2, <1>7
    <3>2. Len(f) <= Len(b.open)
      BY <1>1, <3>1
    <3>. QED
      BY <1>0, <3>1, <3>2
  <2>1. o.kind = Top(b).kind /\ o.named = TRUE /\ o.names = Top(b).names \cup {x.key}
    BY DEF Keyed
  <2>. HIDE DEF o, w
  <2>2. /\ BuiltShape(w) /\ w.good = b.good /\ IsSequence(w.open) /\ Len(w.open) = Len(b.open)
        /\ Top(w) = o /\ w.open[Len(b.open)] = o
        /\ \A i \in 1..Len(b.open) : i # Len(b.open) => w.open[i] = b.open[i]
    BY <1>0, TopReplaced DEF w, Top
  <2>3. ASSUME NEW i \in 1..Len(w.open)
        PROVE  /\ w.open[i].kind = g[i].kind /\ w.open[i].named \in BOOLEAN
               /\ options.duplicateKeys = "KeepLastDuplicate" \/ w.open[i].names \subseteq g[i].keys
    <3>1. CASE i = Len(f)
      <4>1. w.open[i] = o /\ g[i] = n /\ Top(b) = b.open[i]
        BY <1>3, <2>0, <2>2, <3>1 DEF Top
      <4>2. /\ b.open[i].kind = x.kind
            /\ options.duplicateKeys = "KeepLastDuplicate" \/ b.open[i].names \subseteq x.keys
        BY <2>0, <2>2, <3>1 DEF FramesNest
      <4>3. TRUE \in BOOLEAN
        OBVIOUS
      <4>. QED
        BY <1>2, <2>1, <4>1, <4>2, <4>3
    <3>2. CASE i # Len(f)
      BY <1>5, <2>0, <2>2, <3>2 DEF FramesNest
    <3>. QED
      BY <3>1, <3>2
  <2>4. FramesNest(g, w)
    <3>1. \A i \in 1..Len(g) :
            /\ DOMAIN g[i] = FrameFields /\ g[i].kind \in Openers
            /\ g[i].emit = (i <= Len(w.open)) /\ g[i].emitValue \in BOOLEAN
            /\ g[i].emitValue => g[i].emit
      BY <1>5, <2>2 DEF FramesNest
    <3>. QED
      BY <1>0, <1>3, <2>0, <2>2, <2>3, <3>1 DEF FramesNest
  <2>5. Top(w).named = n.emitValue
    BY <1>7, <2>1, <2>2
  <2>. QED
    BY <1>2, <1>3, <1>7, <2>0, <2>2, <2>4, <2>5 DEF n, g, w, o
<1>8. n.emitValue \in BOOLEAN
  BY <1>2
<1>. QED
  BY <1>6, <1>7, <1>8

\* Where the parser awaits a value, the handler awaits it if it is reported.
LEMMA ValueAwaited ==
    ASSUME NEW s, Nests(s), s.pc # "done", AwaitsValue(s)
    PROVE  /\ Emitting(s) \in BOOLEAN
           /\ Len(s.frames) = 0 => Emitting(s)
           /\ Emitting(s) => Len(s.built.open) = Len(s.frames)
           /\ Emitting(s) =>
                \A type \in {"value", "start"} : \A doc : Sensible(s.built, Event(type, doc))
           /\ ~Emitting(s) => Quiet(s.built)
<1>. DEFINE b == s.built
            f == s.frames
            n == Len(f)
<1>0. /\ FramesNest(f, b) /\ IsSequence(f) /\ IsSequence(b.open) /\ n \in Nat /\ Len(b.open) \in Nat
      /\ Len(b.open) <= n
  BY DEF Nests, FramesNest, IsSequence
<1>1. \A type \in {"value", "start"} : \A doc : Event(type, doc).type \in {"value", "start"}
  BY DEF Event
<1>2. CASE n = 0
  <2>1. f = <<>> /\ b.open = <<>> /\ Len(b.open) = 0
    BY <1>0, <1>2, EmptySequence
  <2>2. b.whole = FALSE
    <3>1. s.pc = "value"
      BY <1>2 DEF AwaitsValue, Nests
    <3>. QED
      BY <1>2, <3>1 DEF Nests
  <2>3. Emitting(s) = TRUE
    BY <2>1 DEF Emitting
  <2>. QED
    BY <1>1, <1>2, <2>1, <2>2, <2>3, Zenon DEF Sensible
<1>3. CASE n # 0
  <2>. DEFINE x == f[n]
              y == b.open[Len(b.open)]
  <2>1. f # <<>> /\ b.open # <<>> /\ Len(b.open) # 0 /\ n \in 1..n /\ Len(b.open) \in 1..Len(b.open)
    BY <1>0, <1>3, EmptySequence DEF FramesNest
  <2>2. /\ x.kind \in Openers /\ x.emit = (n <= Len(b.open)) /\ x.emitValue \in BOOLEAN
        /\ x.emitValue => x.emit
    BY <1>0, <2>1 DEF FramesNest
  <2>3. y.kind = f[Len(b.open)].kind
    BY <1>0, <2>1 DEF FramesNest
  <2>4. /\ s.pc \in {"value", "frame"} /\ y.named = (s.pc = "value" /\ x.emitValue)
        /\ s.pc = "value" => x.kind = "{"
        /\ s.pc = "frame" => x.kind = "["
    BY <1>3 DEF AwaitsValue, Nests, Inner, Top
  <2>5. Emitting(s) = IF x.kind = "[" THEN x.emit ELSE x.emitValue
    <3>1. x.emit \in BOOLEAN
      <4>1. (n <= Len(b.open)) \in BOOLEAN
        OBVIOUS
      <4>. QED
        BY <2>2, <4>1
    <3>. HIDE DEF x
    <3>2. Emitting(s) = (s.frames = <<>> \/ IF x.kind = "[" THEN x.emit ELSE x.emitValue)
      BY DEF Emitting, Inner, x
    <3>3. CASE x.kind = "["
      BY <2>1, <3>1, <3>2, <3>3
    <3>4. CASE x.kind # "["
      BY <2>1, <2>2, <3>2, <3>4 DEF x
    <3>. QED
      BY <3>3, <3>4
  <2>6. CASE Emitting(s) = TRUE
    <3>1. x.emit = TRUE
      BY <2>2, <2>5, <2>6
    <3>2. n <= Len(b.open)
      BY <2>2, <3>1
    <3>3. Len(b.open) = n /\ y.kind = x.kind
      BY <1>0, <2>3, <3>2
    <3>4. y.kind = "[" \/ y.named = TRUE
      BY <2>4, <2>5, <2>6, <3>3
    <3>5. \A type \in {"value", "start"} : \A doc : Sensible(b, Event(type, doc))
      BY <1>1, <2>1, <3>4, Zenon DEF Sensible, Top
    <3>. QED
      BY <1>3, <2>6, <3>3, <3>5
  <2>7. CASE Emitting(s) = FALSE
    <3>1. y.named = FALSE
      BY <2>4, <2>5, <2>7
    <3>. QED
      BY <1>3, <2>7, <3>1 DEF Quiet, Top
  <2>8. Emitting(s) \in BOOLEAN
    <3>1. x.emit \in BOOLEAN
      <4>1. (n <= Len(b.open)) \in BOOLEAN
        OBVIOUS
      <4>. QED
        BY <2>2, <4>1
    <3>. QED
      BY <2>2, <2>5, <3>1
  <2>. QED
    BY <2>6, <2>7, <2>8
<1>. QED
  BY <1>2, <1>3

\* The step that ends a value, or the parser.
LEMMA StoppedNests ==
    ASSUME NEW s, SaxShape(s), BuiltShape(s.built), s.built.good = TRUE,
           NEW code, code # "None", NEW why
    PROVE  Nests(Stopped(s, code, why))
<1>. DEFINE e == Stopped(s, code, why)
<1>1. e.pc = "done" /\ e.code = code /\ e.built = s.built
  BY DEF SaxShape, SaxFields, Stopped
<1>. HIDE DEF e
<1>. QED
  BY <1>1 DEF Nests, e

LEMMA ReturnedNests ==
    ASSUME NEW s, SaxShape(s), BuiltShape(s.built), s.built.good = TRUE,
           FramesNest(s.frames, s.built), Quiet(s.built),
           Len(s.frames) = 0 => s.built.whole = TRUE
    PROVE  Nests(SaxReturned(s))
<1>. DEFINE r == SaxReturned(s)
            f == s.frames
            n == Len(f)
<1>0. IsSequence(f) /\ n \in Nat /\ (n # 0 => n \in 1..n /\ Len(s.built.open) # 0)
  BY DEF FramesNest, IsSequence
<1>1. CASE n = 0
  <2>1. r = [s EXCEPT !.pc = "trail"]
    BY <1>0, <1>1, EmptySequence, Zenon DEF SaxReturned
  <2>2. r.pc = "trail" /\ r.frames = f /\ r.built = s.built
    BY <2>1 DEF SaxShape, SaxFields
  <2>. HIDE DEF r
  <2>. QED
    BY <1>1, <2>2 DEF Nests, r
<1>2. CASE n # 0
  <2>. DEFINE x == [[f[n] EXCEPT !.any = TRUE] EXCEPT !.expect = FALSE]
              g == [f EXCEPT ![n] = x]
  <2>1. f # <<>>
    BY <1>0, <1>2, EmptySequence
  <2>2. [[f EXCEPT ![n].any = TRUE] EXCEPT ![n].expect = FALSE] = g
    BY <1>0, <1>2 DEF IsSequence
  <2>3. r = [s EXCEPT !.pc = "frame", !.frames = [[f EXCEPT ![n].any = TRUE] EXCEPT ![n].expect = FALSE]]
    BY <2>1, Zenon DEF SaxReturned
  <2>4. r.pc = "frame" /\ r.frames = g /\ r.built = s.built
    BY <2>2, <2>3 DEF SaxShape, SaxFields
  <2>5. /\ DOMAIN f[n] = FrameFields
    BY <1>0, <1>2 DEF FramesNest
  <2>6. /\ DOMAIN x = FrameFields /\ x.kind = f[n].kind /\ x.emit = f[n].emit
        /\ x.emitValue = f[n].emitValue /\ x.keys = f[n].keys
    BY <2>5 DEF FrameFields
  <2>. HIDE DEF x
  <2>7. IsSequence(g) /\ Len(g) = n
    BY <1>0, ReplacedIsSequence
  <2>8. g[n] = x /\ \A i \in 1..n : i # n => g[i] = f[i]
    BY <1>0, <1>2 DEF IsSequence
  <2>. HIDE DEF g, r
  <2>9. FramesNest(g, s.built)
    BY <2>6, <2>7, <2>8, SameFramesNest
  <2>. QED
    BY <1>0, <1>2, <2>4, <2>7, <2>9 DEF Nests, Quiet, r
<1>. QED
  BY <1>1, <1>2

\* A callback is made or not.
LEMMA DispatchedHears ==
    ASSUME NEW s, SaxShape(s), s.pc # "done", NEW emit \in BOOLEAN, NEW event,
           NEW t \in Dispatched(s, emit, event)
    PROVE  /\ SaxShape(t) /\ t.built = IF emit THEN Handled(s.built, event) ELSE s.built
           /\ \/ t.pc = "done" /\ t.code # "None"
              \/ t.pc = s.pc /\ t.frames = s.frames
<1>. DEFINE built == Handled(s.built, event)
            told == [s EXCEPT !.built = built]
<1>0. /\ SaxShape(told) /\ told.built = built /\ told.pc = s.pc /\ told.frames = s.frames
  <2>1. SaxShape(told)
    BY DEF SaxShape
  <2>. QED
    BY <2>1 DEF SaxShape, SaxFields
<1>1. told = [s EXCEPT !.built = Handled(@, event)]
  BY DEF SaxShape, SaxFields
<1>. HIDE DEF told, built
<1>2. \A code, why : /\ SaxShape(Stopped(told, code, why)) /\ Stopped(told, code, why).pc = "done"
                     /\ Stopped(told, code, why).code = code
                     /\ Stopped(told, code, why).built = built
  <2>. SUFFICES ASSUME NEW code, NEW why
                PROVE  /\ SaxShape(Stopped(told, code, why))
                       /\ Stopped(told, code, why).pc = "done"
                       /\ Stopped(told, code, why).code = code
                       /\ Stopped(told, code, why).built = built
    OBVIOUS
  <2>1. SaxShape(Stopped(told, code, why))
    BY <1>0 DEF SaxShape, Stopped
  <2>. QED
    BY <1>0, <2>1 DEF SaxShape, SaxFields, Stopped
<1>3. CASE emit = FALSE
  <2>1. t = s
    BY <1>3, Zenon DEF Dispatched
  <2>. QED
    BY <1>3, <2>1
<1>4. CASE emit = TRUE
  <2>1. t \in {told, Stopped(told, "CallbackError", "none"), Stopped(told, "AllocationFailure", "none")}
    BY <1>1, <1>4, Zenon DEF Dispatched
  <2>2. CASE t = told
    BY <1>0, <1>4, <2>2 DEF built
  <2>3. CASE t = Stopped(told, "CallbackError", "none")
    BY <1>2, <1>4, <2>3 DEF built
  <2>4. CASE t = Stopped(told, "AllocationFailure", "none")
    BY <1>2, <1>4, <2>4 DEF built
  <2>. QED
    BY <2>1, <2>2, <2>3, <2>4
<1>. QED
  BY <1>3, <1>4

\* What a step keeps that neither fails nor reports anything.
LEMMA FailureNests ==
    ASSUME SaxShape(sax), Nests(sax), NEW code, code # "None", NEW why, SaxFails(code, why)
    PROVE  Nests(sax')
<1>1. sax' = Stopped(sax, code, why)
  BY DEF SaxFails
<1>2. BuiltShape(sax.built) /\ sax.built.good = TRUE
  BY DEF Nests
<1>3. Nests(Stopped(sax, code, why))
  BY <1>2, StoppedNests
<1>. QED
  BY <1>1, <1>3

LEMMA PastKeeps ==
    ASSUME SaxShape(sax), NEW x
    PROVE  LET e == Past(sax, x)
           IN  /\ SaxShape(e) /\ e.pc = sax.pc /\ e.frames = sax.frames
               /\ e.built = sax.built /\ e.code = sax.code
<1>. DEFINE e == Past(sax, x)
<1>1. SaxShape(e)
  BY DEF SaxShape, Past
<1>. QED
  BY <1>1 DEF SaxShape, SaxFields, Past

LEMMA SaxScalarNests ==
    ASSUME SaxShape(sax), Nests(sax), SaxScalar
    PROVE  Nests(sax')
<1>. DEFINE x == Here(sax)
            code == SaxScalarCode(x)
            read == [Past(sax, x) EXCEPT !.nodes = @ + 1]
            event == Event("value", Leaf(x))
            b == sax.built
<1>1. sax.pc # "done" /\ AwaitsValue(sax)
  BY DEF SaxScalar, SaxReady, Active
<1>2. CASE code # "None"
  <2>1. \E why : SaxFails(code, why)
    BY <1>2, Zenon DEF SaxScalar
  <2>. QED
    BY <1>2, <2>1, FailureNests
<1>3. CASE code = "None"
  <2>1. PICK t \in Dispatched(read, Emitting(sax), event) :
              sax' = IF t.pc = "done" THEN t ELSE SaxReturned(t)
    BY <1>3, Zenon DEF SaxScalar
  <2>2. /\ SaxShape(read) /\ read.pc = sax.pc /\ read.frames = sax.frames /\ read.built = b
    <3>1. SaxShape(read)
      BY PastKeeps DEF SaxShape
    <3>. QED
      BY <3>1, PastKeeps DEF SaxShape, SaxFields
  <2>. HIDE DEF read, event
  <2>3. /\ Emitting(sax) \in BOOLEAN /\ (Len(sax.frames) = 0 => Emitting(sax))
        /\ (Emitting(sax) => Sensible(b, event)) /\ (~Emitting(sax) => Quiet(b))
    BY <1>1, ValueAwaited DEF event
  <2>. DEFINE w == IF Emitting(sax) THEN Handled(b, event) ELSE b
  <2>4. /\ SaxShape(t) /\ t.built = w
        /\ \/ t.pc = "done" /\ t.code # "None"
           \/ t.pc = sax.pc /\ t.frames = sax.frames
    BY <1>1, <2>2, <2>3, DispatchedHears
  <2>5. /\ BuiltShape(b) /\ b.good = TRUE /\ FramesNest(sax.frames, b)
    BY <1>1 DEF Nests
  <2>6. /\ BuiltShape(w) /\ w.good = TRUE /\ FramesNest(sax.frames, w) /\ Quiet(w)
        /\ Len(sax.frames) = 0 => w.whole = TRUE
    <3>1. CASE Emitting(sax)
      <4>1. Handled(b, event) = Placed(b, event.doc)
        <5>1. event.type = "value"
          BY DEF event, Event
        <5>. QED
          BY <2>3, <3>1, <5>1, Zenon DEF Handled
      <4>2. w = Placed(b, event.doc)
        BY <3>1, <4>1
      <4>. HIDE DEF w
      <4>. QED
        BY <2>5, <4>2, PlacedNests
    <3>2. CASE ~Emitting(sax)
      BY <2>3, <2>5, <3>2
    <3>. QED
      BY <3>1, <3>2
  <2>. HIDE DEF w
  <2>7. CASE t.pc = "done"
    BY <1>1, <2>1, <2>4, <2>6, <2>7 DEF Nests
  <2>8. CASE t.pc # "done"
    <3>1. Nests(SaxReturned(t))
      BY <2>4, <2>6, <2>8, ReturnedNests
    <3>. QED
      BY <2>1, <2>8, <3>1
  <2>. QED
    BY <2>7, <2>8
<1>. QED
  BY <1>2, <1>3

LEMMA SaxOpenNests ==
    ASSUME SaxShape(sax), Nests(sax), SaxOpen
    PROVE  Nests(sax')
<1>. DEFINE x == Here(sax)
            code == SaxOpenCode(x)
            read == [Past(sax, x) EXCEPT !.nodes = @ + 1]
            event == Event("start", x.kind)
            emit == Emitting(sax)
            frame == SaxFrame(x.kind, emit)
            b == sax.built
<1>1. sax.pc # "done" /\ AwaitsValue(sax) /\ x.kind \in Openers
  BY DEF SaxOpen, SaxReady, Active, Peek, Here, Openers
<1>2. CASE code # "None"
  <2>1. \E why : SaxFails(code, why)
    BY <1>2, Zenon DEF SaxOpen
  <2>. QED
    BY <1>2, <2>1, FailureNests
<1>3. CASE code = "None"
  <2>1. PICK t \in Dispatched(read, emit, event) :
              sax' = IF t.pc = "done" THEN t
                     ELSE [t EXCEPT !.pc = "frame", !.frames = Append(@, frame)]
    BY <1>3, Zenon DEF SaxOpen
  <2>2. /\ SaxShape(read) /\ read.pc = sax.pc /\ read.frames = sax.frames /\ read.built = b
    <3>1. SaxShape(read)
      BY PastKeeps DEF SaxShape
    <3>. QED
      BY <3>1, PastKeeps DEF SaxShape, SaxFields
  <2>. HIDE DEF read, event
  <2>3. /\ emit \in BOOLEAN /\ (Len(sax.frames) = 0 => emit) /\ (emit => Len(b.open) = Len(sax.frames))
        /\ (emit => Sensible(b, event)) /\ (~emit => Quiet(b))
    BY <1>1, ValueAwaited DEF event
  <2>. HIDE DEF emit
  <2>. DEFINE w == IF emit THEN Handled(b, event) ELSE b
              g == Append(sax.frames, frame)
  <2>4. /\ SaxShape(t) /\ t.built = w
        /\ \/ t.pc = "done" /\ t.code # "None"
           \/ t.pc = sax.pc /\ t.frames = sax.frames
    BY <1>1, <2>2, <2>3, DispatchedHears
  <2>5. /\ BuiltShape(b) /\ b.good = TRUE /\ FramesNest(sax.frames, b)
    BY <1>1 DEF Nests
  <2>6. /\ BuiltShape(w) /\ w.good = TRUE /\ FramesNest(g, w) /\ Quiet(w)
    <3>1. event.type = "start" /\ event.doc = x.kind
      BY DEF event, Event
    <3>2. emit => Handled(b, event) = [b EXCEPT !.open = Append(@, Opened(x.kind))]
      BY <2>3, <3>1, Zenon DEF Handled
    <3>3. w = IF emit THEN [b EXCEPT !.open = Append(@, Opened(x.kind))] ELSE b
      BY <3>2
    <3>. HIDE DEF w
    <3>4. /\ BuiltShape(w) /\ w.good = b.good /\ Quiet(w)
          /\ FramesNest(Append(sax.frames, SaxFrame(x.kind, emit)), w)
      <4>. DEFINE kind == x.kind
                  f == sax.frames
      <4>1. kind \in Openers
        BY <1>1
      <4>2. /\ BuiltShape(b) /\ FramesNest(f, b) /\ emit \in BOOLEAN
            /\ emit => Len(b.open) = Len(f)
            /\ Len(f) = 0 => emit
            /\ emit \/ Quiet(b)
        BY <2>3, <2>5
      <4>3. w = IF emit THEN [b EXCEPT !.open = Append(@, Opened(kind))] ELSE b
        BY <3>3
      <4>. HIDE DEF kind, f, b
      <4>4. /\ BuiltShape(w) /\ w.good = b.good /\ Quiet(w)
            /\ FramesNest(Append(f, SaxFrame(kind, emit)), w)
        BY <4>1, <4>2, <4>3, OpenedNests
      <4>. QED
        BY <4>4 DEF kind, f, b
    <3>. QED
      BY <2>5, <3>4
  <2>. HIDE DEF w
  <2>7. CASE t.pc = "done"
    BY <1>1, <2>1, <2>4, <2>6, <2>7 DEF Nests
  <2>8. CASE t.pc # "done"
    <3>. HIDE DEF frame
    <3>1. sax'.pc = "frame" /\ sax'.frames = g /\ sax'.built = w
      BY <2>1, <2>4, <2>8 DEF SaxShape, SaxFields
    <3>2. Len(g) # 0 /\ Len(g) \in Nat
      <4>1. IsSequence(sax.frames) /\ Len(sax.frames) \in Nat
        BY <2>5 DEF FramesNest, IsSequence
      <4>. QED
        BY <4>1, AppendIsSequence
    <3>3. Top(w).named = FALSE
      BY <2>6, <3>2 DEF Quiet, FramesNest
    <3>. HIDE DEF g
    <3>. QED
      BY <2>6, <3>1, <3>2, <3>3 DEF Nests
  <2>. QED
    BY <2>7, <2>8
<1>. QED
  BY <1>2, <1>3

LEMMA SaxCommaNests ==
    ASSUME SaxShape(sax), Nests(sax), SaxComma
    PROVE  Nests(sax')
<1>. DEFINE x == Here(sax)
            code == ReadCode(x, From(sax))
            f == sax.frames
            n == Len(f)
            b == sax.built
<1>1. sax.pc = "frame"
  BY DEF SaxComma
<1>2. CASE code # "None"
  <2>1. \E why : SaxFails(code, why)
    BY <1>2, Zenon DEF SaxComma, SaxPunctuation
  <2>. QED
    BY <1>2, <2>1, FailureNests
<1>3. CASE code = "None"
  <2>. DEFINE past == Past(sax, x)
              y == [f[n] EXCEPT !.expect = TRUE]
              g == [f EXCEPT ![n] = y]
  <2>1. sax' = [past EXCEPT !.frames[n].expect = TRUE]
    BY <1>3, Zenon DEF SaxComma, SaxPunctuation
  <2>2. SaxShape(past) /\ past.pc = "frame" /\ past.frames = f /\ past.built = b
    BY <1>1, PastKeeps
  <2>3. FramesNest(f, b) /\ BuiltShape(b) /\ b.good = TRUE /\ n # 0 /\ Top(b).named = FALSE
    BY <1>1 DEF Nests
  <2>4. IsSequence(f) /\ n \in 1..n
    BY <2>3 DEF FramesNest, IsSequence
  <2>. HIDE DEF past
  <2>5. sax'.pc = "frame" /\ sax'.built = b /\ sax'.frames = g
    BY <2>1, <2>2, <2>4 DEF SaxShape, SaxFields, IsSequence
  <2>6. DOMAIN f[n] = FrameFields
    BY <2>3, <2>4 DEF FramesNest
  <2>7. /\ DOMAIN y = FrameFields /\ y.kind = f[n].kind /\ y.emit = f[n].emit
        /\ y.emitValue = f[n].emitValue /\ y.keys = f[n].keys
    BY <2>6 DEF FrameFields
  <2>. HIDE DEF y
  <2>8. IsSequence(g) /\ Len(g) = n
    BY <2>4, ReplacedIsSequence
  <2>9. g[n] = y /\ \A i \in 1..n : i # n => g[i] = f[i]
    BY <2>4 DEF IsSequence
  <2>. HIDE DEF g
  <2>10. FramesNest(g, b)
    BY <2>3, <2>7, <2>8, <2>9, SameFramesNest
  <2>. QED
    BY <2>3, <2>5, <2>8, <2>10 DEF Nests
<1>. QED
  BY <1>2, <1>3

LEMMA SaxCloseNests ==
    ASSUME SaxShape(sax), Nests(sax), SaxClose
    PROVE  Nests(sax')
<1>. DEFINE x == Here(sax)
            code == ReadCode(x, From(sax))
            f == sax.frames
            n == Len(f)
            b == sax.built
            emit == f[n].emit
            event == Event("end", f[n].kind)
<1>1. sax.pc = "frame"
  BY DEF SaxClose
<1>2. CASE code # "None"
  <2>1. \E why : SaxFails(code, why)
    BY <1>2, Zenon DEF SaxClose, SaxPunctuation
  <2>. QED
    BY <1>2, <2>1, FailureNests
<1>3. CASE code = "None"
  <2>. DEFINE past == Past(sax, x)
  <2>1. PICK t \in Dispatched(past, emit, event) :
            sax' = IF t.pc = "done" THEN t ELSE SaxReturned([t EXCEPT !.frames = Front(@)])
    <3>1. sax' \in {IF t.pc = "done" THEN t ELSE SaxReturned([t EXCEPT !.frames = Front(@)]) :
                        t \in Dispatched(past, emit, event)}
      BY <1>3, Zenon DEF SaxClose, SaxPunctuation, Inner
    <3>. QED
      BY <3>1, Zenon
  <2>2. SaxShape(past) /\ past.pc = "frame" /\ past.frames = f /\ past.built = b
    BY <1>1, PastKeeps
  <2>3. FramesNest(f, b) /\ BuiltShape(b) /\ b.good = TRUE /\ n # 0 /\ Top(b).named = FALSE /\ Quiet(b)
    BY <1>1 DEF Nests, Quiet
  <2>4. /\ IsSequence(f) /\ IsSequence(b.open) /\ n \in 1..n /\ Len(b.open) # 0
        /\ Len(b.open) \in 1..Len(b.open) /\ Len(b.open) <= n
    BY <2>3 DEF FramesNest, IsSequence
  <2>5. emit = (n <= Len(b.open)) /\ Top(b).kind = f[Len(b.open)].kind
    BY <2>3, <2>4 DEF FramesNest, Top
  <2>6. emit \in BOOLEAN
    <3>1. (n <= Len(b.open)) \in BOOLEAN
      OBVIOUS
    <3>. QED
      BY <2>5, <3>1
  <2>7. emit => Sensible(b, event)
    <3>1. event.type = "end" /\ event.doc = f[n].kind
      BY DEF Event
    <3>2. emit => Top(b).kind = f[n].kind
      <4> SUFFICES ASSUME emit PROVE Top(b).kind = f[n].kind
        OBVIOUS
      <4>1. n <= Len(b.open)
        BY <2>5
      <4>2. Len(b.open) = n
        BY <2>4, <4>1
      <4>. QED
        BY <2>5, <4>2
    <3>3. b.open # <<>>
      BY <2>4, EmptySequence
    <3>. HIDE DEF event, emit
    <3>. QED
      BY <2>3, <3>1, <3>2, <3>3, Zenon DEF Sensible
  <2>. DEFINE doc == Top(b).doc
              w == IF emit THEN Placed([b EXCEPT !.open = Front(@)], doc) ELSE b
  <2>8. w = IF emit THEN Handled(b, event) ELSE b
    <3>1. event.type = "end"
      BY DEF Event
    <3>. HIDE DEF event, emit
    <3>2. emit => Handled(b, event) = Placed([b EXCEPT !.open = Front(@)], doc)
      BY <2>7, <3>1, Zenon DEF Handled
    <3>. QED
      BY <3>2
  <2>9. /\ BuiltShape(w) /\ w.good = TRUE /\ FramesNest(Front(f), w) /\ Quiet(w)
        /\ Len(Front(f)) = 0 => w.whole = TRUE
    BY <2>3, ClosedNests
  <2>. HIDE DEF w, past, event, emit
  <2>10. /\ SaxShape(t) /\ t.built = w
         /\ \/ t.pc = "done" /\ t.code # "None"
            \/ t.pc = "frame" /\ t.frames = f
    BY <2>2, <2>6, <2>8, DispatchedHears
  <2>11. CASE t.pc = "done"
    BY <2>1, <2>9, <2>10, <2>11 DEF Nests
  <2>12. CASE t.pc # "done"
    <3>. DEFINE popped == [t EXCEPT !.frames = Front(@)]
    <3>1. SaxShape(popped)
      BY <2>10 DEF SaxShape
    <3>2. popped.frames = Front(f) /\ popped.built = w
      BY <2>10, <2>12 DEF SaxShape, SaxFields
    <3>. HIDE DEF popped
    <3>3. Nests(SaxReturned(popped))
      BY <2>9, <3>1, <3>2, ReturnedNests
    <3>. QED
      BY <2>1, <2>12, <3>3 DEF popped
  <2>. QED
    BY <2>11, <2>12
<1>. QED
  BY <1>2, <1>3

LEMMA SaxKeyNests ==
    ASSUME SaxShape(sax), Nests(sax), SaxKey
    PROVE  Nests(sax')
<1>. DEFINE x == Here(sax)
            code == FirstOf(<<ReadCode(x, From(sax)), Check(x.fault = "encoding", "InvalidEncoding")>>)
            f == sax.frames
            n == Len(f)
            b == sax.built
<1>1. sax.pc = "frame" /\ f[n].kind = "{"
  BY DEF SaxKey, AwaitsName, Inner
<1>2. CASE code # "None"
  <2>1. \E why : SaxFails(code, why)
    BY <1>2, Zenon DEF SaxKey
  <2>. QED
    BY <1>2, <2>1, FailureNests
<1>3. CASE code = "None"
  <2>. DEFINE past == Past(sax, x)
              y == [f[n] EXCEPT !.key = x.val]
              g == [f EXCEPT ![n] = y]
  <2>1. sax' = [past EXCEPT !.pc = "colon", !.frames[n].key = x.val]
    BY <1>3, Zenon DEF SaxKey
  <2>2. SaxShape(past) /\ past.pc = "frame" /\ past.frames = f /\ past.built = b
    BY <1>1, PastKeeps
  <2>3. FramesNest(f, b) /\ BuiltShape(b) /\ b.good = TRUE /\ n # 0 /\ Top(b).named = FALSE
    BY <1>1 DEF Nests
  <2>4. IsSequence(f) /\ n \in 1..n
    BY <2>3 DEF FramesNest, IsSequence
  <2>. HIDE DEF past, x
  <2>5. sax'.pc = "colon" /\ sax'.built = b /\ sax'.frames = g
    BY <2>1, <2>2, <2>4 DEF SaxShape, SaxFields, IsSequence
  <2>6. DOMAIN f[n] = FrameFields
    BY <2>3, <2>4 DEF FramesNest
  <2>7. /\ DOMAIN y = FrameFields /\ y.kind = f[n].kind /\ y.emit = f[n].emit
        /\ y.emitValue = f[n].emitValue /\ y.keys = f[n].keys
    BY <2>6 DEF FrameFields
  <2>. HIDE DEF y
  <2>8. IsSequence(g) /\ Len(g) = n
    BY <2>4, ReplacedIsSequence
  <2>9. g[n] = y /\ \A i \in 1..n : i # n => g[i] = f[i]
    BY <2>4 DEF IsSequence
  <2>. HIDE DEF g
  <2>10. FramesNest(g, b)
    BY <2>3, <2>7, <2>8, <2>9, SameFramesNest
  <2>11. Inner(sax').kind = "{"
    BY <1>1, <2>5, <2>7, <2>8, <2>9 DEF Inner
  <2>. QED
    BY <2>3, <2>5, <2>8, <2>10, <2>11 DEF Nests
<1>. QED
  BY <1>2, <1>3

LEMMA SaxColonNests ==
    ASSUME SaxShape(sax), Nests(sax), SaxColon
    PROVE  Nests(sax')
<1>. DEFINE x == Here(sax)
            f == sax.frames
            n == Len(f)
            y == Inner(sax)
            b == sax.built
            code == FirstOf(<<ReadCode(x, From(sax)),
                              Check(Duplicate(y) /\ options.duplicateKeys = "RejectDuplicateKeys",
                                    "DuplicateKey")>>)
            emit == Named(y).emitValue
            event == Event("key", y.key)
<1>1. sax.pc = "colon"
  BY DEF SaxColon
<1>2. CASE code # "None"
  <2>1. \E why : SaxFails(code, why)
    BY <1>2, Zenon DEF SaxColon
  <2>. QED
    BY <1>2, <2>1, FailureNests
<1>3. CASE code = "None"
  <2>. DEFINE past == Past(sax, x)
              g == [f EXCEPT ![n] = Named(y)]
              read == [past EXCEPT !.frames[n] = Named(y), !.pc = "value"]
  <2>1. sax' \in Dispatched(read, emit, event)
    BY <1>3, Zenon DEF SaxColon
  <2>2. SaxShape(past) /\ past.frames = f /\ past.built = b
    BY PastKeeps
  <2>3. /\ FramesNest(f, b) /\ BuiltShape(b) /\ b.good = TRUE /\ n # 0 /\ Quiet(b)
        /\ Top(b).named = FALSE /\ y.kind = "{"
    BY <1>1 DEF Nests, Quiet
  <2>. HIDE DEF past
  <2>4. SaxShape(read)
    BY <2>2 DEF SaxShape
  <2>5. read.pc = "value" /\ read.frames = g /\ read.built = b
    BY <2>2 DEF SaxShape, SaxFields
  <2>. HIDE DEF read, event
  <2>. DEFINE v == IF emit THEN WithTop(b, Keyed(Top(b), y.key)) ELSE b
  <2>6. /\ IsSequence(g) /\ Len(g) = n /\ g[n] = Named(y) /\ Named(y).kind = y.kind
        /\ BuiltShape(v) /\ v.good = b.good /\ FramesNest(g, v)
        /\ Top(v).named = emit /\ emit \in BOOLEAN
        /\ emit => Len(b.open) = n /\ ~Duplicate(y)
    BY <2>3, NamedNests DEF Inner
  <2>7. emit => Sensible(b, event)
    <3> SUFFICES ASSUME emit PROVE Sensible(b, event)
      OBVIOUS
    <3>1. event.type = "key" /\ event.doc = y.key
      BY DEF event, Event
    <3>2. IsSequence(b.open) /\ Len(b.open) = n /\ n \in 1..n
      <4>1. IsSequence(b.open) /\ IsSequence(f)
        BY <2>3 DEF FramesNest
      <4>2. Len(b.open) = n
        BY <2>6
      <4>3. n \in 1..n
        <5>1. n \in Nat
          BY <4>1 DEF IsSequence
        <5>2. n # 0
          BY <2>3
        <5>. HIDE DEF n
        <5>. QED
          BY <5>1, <5>2
      <4>. QED
        BY <4>1, <4>2, <4>3
    <3>3. b.open # <<>> /\ Top(b) = b.open[n] /\ y = f[n]
      BY <2>3, <3>2, EmptySequence DEF Top, Inner
    <3>4. /\ Top(b).kind = "{"
          /\ options.duplicateKeys = "KeepLastDuplicate" \/ Top(b).names \subseteq y.keys
      BY <2>3, <3>2, <3>3 DEF FramesNest
    <3>5. y.key \in Top(b).names => options.duplicateKeys = "KeepLastDuplicate"
      BY <2>6, <3>4 DEF Duplicate
    <3>. HIDE DEF y
    <3>. QED
      BY <2>3, <3>1, <3>3, <3>4, <3>5, Zenon DEF Sensible
  <2>. DEFINE w == IF emit THEN Handled(b, event) ELSE b
  <2>8. w = v
    <3>1. event.type = "key" /\ event.doc = y.key
      BY DEF event, Event
    <3>. HIDE DEF emit, y
    <3>2. emit => Handled(b, event) = WithTop(b, Keyed(Top(b), y.key))
      BY <2>7, <3>1, Zenon DEF Handled
    <3>. QED
      BY <3>2
  <2>. HIDE DEF w, v, emit, g, y
  <2>9. /\ SaxShape(sax') /\ sax'.built = v
        /\ \/ sax'.pc = "done" /\ sax'.code # "None"
           \/ sax'.pc = "value" /\ sax'.frames = g
    BY <2>1, <2>4, <2>5, <2>6, <2>8, DispatchedHears DEF w
  <2>10. CASE sax'.pc = "done"
    BY <2>3, <2>6, <2>9, <2>10 DEF Nests
  <2>11. CASE sax'.pc # "done"
    <3>1. sax'.pc = "value" /\ sax'.frames = g /\ Inner(sax') = Named(y)
      BY <2>6, <2>9, <2>11 DEF Inner
    <3>2. Inner(sax').kind = "{" /\ Inner(sax').emitValue = emit
      BY <2>3, <2>6, <3>1 DEF emit
    <3>. QED
      BY <2>3, <2>6, <2>9, <3>1, <3>2 DEF Nests
  <2>. QED
    BY <2>10, <2>11
<1>. QED
  BY <1>2, <1>3

LEMMA SaxReturnsNests ==
    ASSUME SaxShape(sax), Nests(sax), SaxReturns
    PROVE  Nests(sax')
<1>1. CASE SaxFails("StreamError", "failed")
  BY <1>1, FailureNests
<1>2. CASE sax' = [sax EXCEPT !.pc = "done", !.at = 0]
  <2>1. sax.pc = "trail"
    BY DEF SaxReturns
  <2>2. sax'.pc = "done" /\ sax'.built = sax.built
    BY <1>2 DEF SaxShape, SaxFields
  <2>3. BuiltShape(sax.built) /\ sax.built.good = TRUE /\ FramesNest(sax.frames, sax.built)
    BY <2>1 DEF Nests
  <2>4. Len(sax.frames) = 0 /\ sax.built.whole = TRUE
    BY <2>1 DEF Nests
  <2>5. sax.built.open = <<>>
    <3>1. IsSequence(sax.built.open) /\ Len(sax.built.open) = 0
      BY <2>3, <2>4 DEF FramesNest, IsSequence
    <3>. QED
      BY <3>1, EmptySequence
  <2>. QED
    BY <2>2, <2>3, <2>4, <2>5 DEF Nests
<1>. QED
  BY <1>1, <1>2 DEF SaxReturns

LEMMA SaxStartNests ==
    ASSUME SaxShape(sax), Nests(sax), SaxStart
    PROVE  Nests(sax')
<1>1. CASE SaxFails("InputLimit", "limit")
  BY <1>1, FailureNests
<1>2. CASE sax' = [sax EXCEPT !.pc = "value"]
  <2>1. sax.pc = "idle"
    BY DEF SaxStart
  <2>2. sax'.pc = "value" /\ sax'.built = sax.built /\ sax'.frames = sax.frames
    BY <1>2 DEF SaxShape, SaxFields
  <2>3. /\ BuiltShape(sax.built) /\ sax.built.good = TRUE /\ FramesNest(sax.frames, sax.built)
        /\ Len(sax.frames) = 0 /\ sax.built.whole = FALSE
    BY <2>1 DEF Nests
  <2>. QED
    BY <2>2, <2>3 DEF Nests
<1>. QED
  BY <1>1, <1>2 DEF SaxStart

LEMMA SaxStepNests ==
    ASSUME SaxShape(sax), Nests(sax), SaxNext
    PROVE  Nests(sax')
<1>1. CASE SaxSpace
  BY <1>1, FailureNests DEF SaxSpace
<1>2. CASE SaxUnexpected
  <2>1. PICK code \in {"StreamError", "InputLimit", "Syntax"} : \E why : SaxFails(code, why)
    BY <1>2, Zenon DEF SaxUnexpected
  <2>2. code # "None"
    OBVIOUS
  <2>. QED
    BY <2>1, <2>2, FailureNests
<1>3. CASE SaxOutOfMemory
  BY <1>3, FailureNests DEF SaxOutOfMemory
<1>. QED
  BY <1>1, <1>2, <1>3, SaxStartNests, SaxScalarNests, SaxOpenNests, SaxCommaNests, SaxCloseNests,
     SaxKeyNests, SaxColonNests, SaxReturnsNests DEF SaxNext

LEMMA InitNests == Init => Nests(sax)
<1>. SUFFICES ASSUME Init PROVE Nests(sax)
  OBVIOUS
<1>1. sax = [pc |-> "idle", at |-> 1, pos |-> 0, frames |-> <<>>, nodes |-> 0,
             code |-> "None", stopped |-> "none", built |-> Nothing]
  BY Zenon DEF Init, SaxInit
<1>2. sax.pc = "idle" /\ sax.frames = <<>> /\ sax.built = Nothing
  BY <1>1
<1>3. /\ BuiltShape(Nothing) /\ Nothing.open = <<>> /\ Nothing.whole = FALSE
      /\ Nothing.good = TRUE
  BY DEF Nothing, BuiltShape, BuiltFields
<1>4. FramesNest(<<>>, Nothing)
  BY <1>3 DEF FramesNest, IsSequence
<1>. QED
  BY <1>2, <1>3, <1>4 DEF Nests

LEMMA StepNests == ParserInv /\ Nests(sax) /\ [Next]_vars => Nests(sax)'
<1>. SUFFICES ASSUME ParserInv, Nests(sax), [Next]_vars PROVE Nests(sax)'
  OBVIOUS
<1>1. options' = options
  BY DEF Next, vars, input, Arrival, Supply, ParseDom, DomNext, ParseSax, SaxNext, Finished
<1>2. Nests(sax')
  <2>1. SaxShape(sax)
    BY DEF ParserInv, SaxWithin
  <2>2. sax' = sax \/ SaxNext
    BY DEF Next, vars, Arrival, ParseDom, ParseSax, Finished
  <2>. QED
    BY <2>1, <2>2, SaxStepNests
<1>3. FramesNest(sax.frames, sax.built)' <=> FramesNest(sax'.frames, sax'.built)
  BY <1>1 DEF FramesNest
<1>. QED
  BY <1>2, <1>3 DEF Nests, Inner, Top

\* Whatever the text, the options, the callbacks and the allocations: neither
\* parser goes deeper, makes more values or consumes more bytes than allowed
\* (reserveNode, newNode, getChar, the depth tests of parseArray and parseObject).
THEOREM LimitsHold == Spec => []WithinLimits
<1>1. ParserInv => WithinLimits
  BY DEF ParserInv, DomWithin, SaxWithin, Limits, BytesLeft, WithinLimits
<1>. QED
  BY <1>1, InitWithin, StepWithin, PTL DEF Spec

\* Whatever the text, the duplicate policy, the refusals of the callbacks and the
\* allocations that fail: what a handler hears nests, no name is heard without its
\* value, and a parse that succeeds has delivered one whole document
\* (SaxParser::dispatch, parseArray, parseObject, with emit and emitValue).
THEOREM EventsNestHold == Spec => []EventsNest
<1>1. Nests(sax) => EventsNest
  <2>. SUFFICES ASSUME Nests(sax) PROVE EventsNest
    OBVIOUS
  <2>1. sax.built.good
    BY DEF Nests
  <2>2. ASSUME Succeeded(sax) PROVE sax.built.whole /\ sax.built.open = <<>>
    BY <2>2 DEF Nests, Succeeded
  <2>. QED
    BY <2>1, <2>2 DEF EventsNest
<1>. QED
  BY <1>1, InitWithin, StepWithin, InitNests, StepNests, PTL DEF Spec
=============================================================================
