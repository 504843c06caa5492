-------------------------- MODULE SerializeProofs --------------------------
(***************************************************************************)
(* Theorems of Serialize, for every set of calls and all sizes.            *)
(***************************************************************************)
EXTENDS Serialize, SequenceTheorems, TLAPS

Phases == {"called", "counting", "counted", "emitting", "returned"}

\* Nothing is out before the second pass, a string is not touched before the
\* end, and what ends a call after that is no logical failure.
EmitInv ==
    /\ phase \in Phases
    /\ phase \in {"called", "counting", "counted"} => Unwritten
    /\ phase # "returned" /\ ~ToStream => Unwritten
    /\ LogicalFailureEmitsNothing
    /\ StringIsTransactional

\* What one run of the traversal may change.
LEMMA FeedEffect ==
    ASSUME NEW pieces, NEW rest, NEW running, Feed(pieces, rest, running)
    PROVE  /\ call' = call
           /\ dest' = dest \/ (Emitting /\ ToStream)
           /\ \/ phase' = running /\ frames' = rest /\ outcome' = outcome
              \/ /\ phase' = "returned" /\ frames' = <<>>
                 /\ Emitting /\ ToStream =>
                       \E code \in {"AllocationFailure", "StreamFailure"} :
                           outcome' = Reported(code)
<1>1. PICK n \in 0..Len(pieces) :
        /\ Deliver(SubSeq(pieces, 1, n))
        /\ \/ phase' = running /\ frames' = rest /\ outcome' = outcome
           \/ \E size : \E code \in Failures(pieces[n + 1], size) : Fail(code)
        /\ call' = call
  BY Zenon DEF Feed
<1>2. dest' = dest \/ (Emitting /\ ToStream)
  BY <1>1 DEF Deliver
<1>3. CASE phase' = running /\ frames' = rest /\ outcome' = outcome
  BY <1>1, <1>2, <1>3
<1>4. CASE \E size : \E code \in Failures(pieces[n + 1], size) : Fail(code)
  <2>1. PICK size : \E code \in Failures(pieces[n + 1], size) : Fail(code)
    BY <1>4
  <2>2. PICK code \in Failures(pieces[n + 1], size) : Fail(code)
    BY <2>1
  <2>3. Emitting /\ ToStream => code \in {"AllocationFailure", "StreamFailure"}
    BY <2>2 DEF Failures
  <2>. QED
    BY <1>1, <1>2, <2>2, <2>3 DEF Fail
<1>. QED
  BY <1>1, <1>3, <1>4

LEMMA EmitInit == Init => EmitInv
BY DEF Init, EmitInv, Phases, Unwritten, Returned, LogicalFailureEmitsNothing,
       StringIsTransactional

\* A traversal step keeps EmitInv: it writes only to the stream of the second
\* pass, where it fails with codes that are not logical ones.
LEMMA FeedKeeps ==
    ASSUME EmitInv, NEW pieces, NEW rest, NEW running, Feed(pieces, rest, running),
           \/ phase \in {"called", "counting"} /\ running = "counting"
           \/ phase \in {"counted", "emitting"} /\ running = "emitting"
    PROVE  EmitInv'
<1>1. CASE ~(Emitting /\ ToStream)
  <2>1. dest' = dest /\ Unwritten /\ Unwritten' /\ call' = call
    BY <1>1, FeedEffect DEF EmitInv, Emitting, Unwritten
  <2>2. phase' \in {running, "returned"}
    BY FeedEffect
  <2>. QED
    BY <2>1, <2>2 DEF EmitInv, Phases, LogicalFailureEmitsNothing, StringIsTransactional
<1>2. CASE Emitting /\ ToStream
  <2>1. call' = call /\ ToStream' /\ running = "emitting"
    BY <1>2, FeedEffect DEF Emitting, ToStream
  <2>2. CASE phase' = running
    BY <2>1, <2>2 DEF EmitInv, Phases, LogicalFailureEmitsNothing, StringIsTransactional,
                       Returned
  <2>3. CASE phase' = "returned"
    <3>1. \/ phase' = running
          \/ \E code \in {"AllocationFailure", "StreamFailure"} : outcome' = Reported(code)
      BY <1>2, FeedEffect
    <3>2. PICK code \in {"AllocationFailure", "StreamFailure"} : outcome' = Reported(code)
      BY <3>1, <2>1, <2>3
    <3>3. outcome' \in {"AllocationFailure", "StreamFailure", "bad_alloc", "failbit"}
      BY <1>2, <3>2 DEF Reported
    <3>4. outcome' \notin Logical
      BY <3>3 DEF Logical
    <3>. QED
      BY <2>1, <2>3, <3>4 DEF EmitInv, Phases, LogicalFailureEmitsNothing,
                               StringIsTransactional
  <2>. QED
    BY <2>2, <2>3, FeedEffect
<1>. QED
  BY <1>1, <1>2

LEMMA EmitStep == EmitInv /\ [Next]_vars => EmitInv'
<1>. SUFFICES ASSUME EmitInv, [Next]_vars PROVE EmitInv'
  OBVIOUS
<1>1. CASE Count
  BY <1>1, FeedKeeps DEF Count, Start
<1>2. CASE Child
  <2>1. PICK pieces, rest : Feed(pieces, rest, phase)
    BY <1>2, Zenon DEF Child
  <2>. QED
    BY <1>2, <2>1, FeedKeeps DEF Child, Running
<1>3. CASE Close
  <2>1. PICK pieces, rest : Feed(pieces, rest, phase)
    BY <1>3, Zenon DEF Close
  <2>. QED
    BY <1>3, <2>1, FeedKeeps DEF Close, Running
<1>4. CASE Counted
  BY <1>4 DEF Counted, EmitInv, Phases, Unwritten, ToStream, Returned,
              LogicalFailureEmitsNothing, StringIsTransactional
<1>5. CASE ReserveFails
  BY <1>5 DEF ReserveFails, Fail, EmitInv, Phases, Unwritten, ToStream, Returned,
              LogicalFailureEmitsNothing, StringIsTransactional
<1>6. CASE Emit
  BY <1>6, FeedKeeps DEF Emit, Start
<1>7. CASE Finish
  BY <1>7 DEF Finish, EmitInv, Phases, Unwritten, ToStream, Returned, Logical,
              LogicalFailureEmitsNothing, StringIsTransactional
<1>8. CASE UNCHANGED vars
  BY <1>8 DEF vars, EmitInv, Phases, Unwritten, ToStream, Returned,
              LogicalFailureEmitsNothing, StringIsTransactional
<1>. QED
  BY <1>1, <1>2, <1>3, <1>4, <1>5, <1>6, <1>7, <1>8 DEF Next

\* Invalid UTF-8, a non-finite number and the output limit are reported before a
\* byte is written, whatever the value, the options and the entry point.
THEOREM LogicalFailuresEmitNothing == Spec => []LogicalFailureEmitsNothing
<1>1. EmitInv => LogicalFailureEmitsNothing
  BY DEF EmitInv
<1>. QED
  BY EmitInit, EmitStep, <1>1, PTL DEF Spec

\* toString(out, error) replaces the caller's string as a whole or not at all.
THEOREM StringsAreTransactional == Spec => []StringIsTransactional
<1>1. EmitInv => StringIsTransactional
  BY DEF EmitInv
<1>. QED
  BY EmitInit, EmitStep, <1>1, PTL DEF Spec

-----------------------------------------------------------------------------
LEMMA FrontProperties ==
    ASSUME NEW S, NEW s \in Seq(S), s # <<>>
    PROVE  /\ Len(s) \in Nat \ {0} /\ DOMAIN s = 1..Len(s)
           /\ Front(s) \in Seq(S) /\ Len(Front(s)) = Len(s) - 1
           /\ DOMAIN Front(s) = 1..(Len(s) - 1)
           /\ \A i \in 1..(Len(s) - 1) : Front(s)[i] = s[i]
<1>1. Len(s) \in Nat \ {0} /\ DOMAIN s = 1..Len(s) /\ \A i \in 1..Len(s) : s[i] \in S
  BY EmptySeq, LenProperties
<1>. DEFINE m == Len(s) - 1
<1>2. \A i \in 1..m : s[i] \in S
  BY <1>1
<1>3. /\ SubSeq(s, 1, m) \in Seq(S)
      /\ Len(SubSeq(s, 1, m)) = IF 1 <= m THEN m - 1 + 1 ELSE 0
      /\ \A i \in 1..(m - 1 + 1) : SubSeq(s, 1, m)[i] = s[1 + i - 1]
  <2>1. 1 \in Int /\ m \in Int
    BY <1>1
  <2>. QED
    BY <1>2, <2>1, SubSeqProperties
<1>4. Len(Front(s)) = m /\ \A i \in 1..m : Front(s)[i] = s[i]
  BY <1>1, <1>3 DEF Front
<1>. QED
  BY <1>1, <1>3, <1>4, LenProperties DEF Front

LEMMA PushProperties ==
    ASSUME NEW S, NEW s \in Seq(S), NEW e
    PROVE  /\ Append(s, e) \in Seq(S \cup {e})
           /\ Len(Append(s, e)) = Len(s) + 1
           /\ DOMAIN Append(s, e) = 1..(Len(s) + 1)
           /\ \A i \in 1..Len(s) : Append(s, e)[i] = s[i]
           /\ Append(s, e)[Len(s) + 1] = e
<1>1. s \in Seq(S \cup {e}) /\ e \in S \cup {e}
  BY SeqMonotonic
<1>. QED
  BY <1>1

\* The stack is a sequence of frames, empty outside a traversal.
IsFrame(f) == f = [value |-> f.value, next |-> f.next, depth |-> f.depth] /\ f.next \in Nat

FrameInv ==
    /\ \E S : frames \in Seq(S)
    /\ \A i \in DOMAIN frames : IsFrame(frames[i])
    /\ phase \in {"called", "counted"} => frames = <<>>
    /\ FramesNest

LEMMA FrameInit == Init => FrameInv
<1>. SUFFICES ASSUME Init PROVE FrameInv
  OBVIOUS
<1>1. frames \in Seq({}) /\ DOMAIN frames = {}
  BY DEF Init
<1>. QED
  BY <1>1 DEF Init, FrameInv, FramesNest

\* Passing the top's child leaves a nest, onto which the child can be pushed.
LEMMA PushNests ==
    ASSUME FrameInv, frames # <<>>, NEW value, value = Top.value.kids[Top.next].value,
           NEW stack, stack = Append(Below, [Top EXCEPT !.next = @ + 1]),
           frames' = Pushed(value, Top.depth + 1, stack), call' = call,
           phase' \notin {"called", "counted"}
    PROVE  FrameInv'
<1>. DEFINE n == Len(frames)
            top == [Top EXCEPT !.next = @ + 1]
            new == Frame(value, Top.depth + 1)
<1>1. PICK S : frames \in Seq(S)
  BY DEF FrameInv
<1>2. n \in Nat \ {0} /\ DOMAIN frames = 1..n /\ Below \in Seq(S) /\ Len(Below) = n - 1
      /\ \A i \in 1..(n - 1) : Below[i] = frames[i]
  BY <1>1, FrontProperties DEF Below
<1>3. stack \in Seq(S \cup {top}) /\ Len(stack) = n
      /\ (\A i \in 1..(n - 1) : stack[i] = frames[i]) /\ stack[n] = top /\ DOMAIN stack = 1..n
  <2>1. stack = Append(Below, top) /\ n - 1 + 1 = n
    BY <1>2
  <2>. HIDE DEF top, n
  <2>2. /\ Append(Below, top) \in Seq(S \cup {top})
        /\ Len(Append(Below, top)) = Len(Below) + 1
        /\ DOMAIN Append(Below, top) = 1..(Len(Below) + 1)
        /\ \A i \in 1..Len(Below) : Append(Below, top)[i] = Below[i]
        /\ Append(Below, top)[Len(Below) + 1] = top
    BY <1>2, PushProperties
  <2>. QED
    BY <1>2, <2>1, <2>2
<1>4. IsFrame(Top) /\ Top.depth = n - 1
  BY <1>2 DEF FrameInv, FramesNest, Top
<1>5. IsFrame(top) /\ top.value = Top.value /\ top.depth = Top.depth /\ top.next = Top.next + 1
  BY <1>4 DEF IsFrame
<1>6. \A i \in 1..n : /\ IsFrame(stack[i]) /\ stack[i].depth = i - 1
                      /\ stack[i].value = frames[i].value
                      /\ i < n => stack[i].next = frames[i].next
  <2>. TAKE i \in 1..n
  <2>1. CASE i = n
    BY <1>3, <1>4, <1>5, <2>1 DEF Top
  <2>2. CASE i # n
    <3>1. i \in 1..(n - 1) /\ i \in DOMAIN frames
      <4>1. n \in Nat /\ DOMAIN frames = 1..n
        BY <1>2
      <4>. HIDE DEF n
      <4>. QED
        BY <2>2, <4>1
    <3>2. stack[i] = frames[i]
      BY <1>3, <3>1
    <3>. QED
      BY <2>2, <3>1, <3>2 DEF FrameInv, FramesNest
  <2>. QED
    BY <2>1, <2>2
<1>7. \A i \in 1..n : stack[i].value =
            IF i = 1 THEN call.value ELSE stack[i - 1].value.kids[stack[i - 1].next - 1].value
  <2>. TAKE i \in 1..n
  <2>1. CASE i = 1
    BY <1>2, <1>6, <2>1 DEF FrameInv, FramesNest
  <2>2. CASE i # 1
    <3>1. i - 1 \in 1..n /\ i - 1 < n
      BY <1>2, <2>2
    <3>2. frames[i].value = frames[i - 1].value.kids[frames[i - 1].next - 1].value
      BY <1>2, <2>2 DEF FrameInv, FramesNest
    <3>. QED
      BY <1>6, <3>1, <3>2, <2>2
  <2>. QED
    BY <2>1, <2>2
<1>8. CASE ~IsOpen(value)
  <2>1. frames' = stack /\ DOMAIN stack = 1..n
    BY <1>3, <1>8 DEF Pushed
  <2>2. FramesNest'
    BY <1>6, <1>7, <2>1 DEF FramesNest
  <2>. QED
    BY <1>3, <1>6, <2>1, <2>2 DEF FrameInv
<1>9. CASE IsOpen(value)
  <2>1. frames' = Append(stack, new)
    BY <1>9 DEF Pushed
  <2>2. /\ frames' \in Seq(S \cup {top} \cup {new}) /\ DOMAIN frames' = 1..(n + 1)
        /\ \A i \in 1..n : frames'[i] = stack[i]
        /\ frames'[n + 1] = new
    <3>. HIDE DEF top, new, n
    <3>1. /\ Append(stack, new) \in Seq(S \cup {top} \cup {new})
          /\ DOMAIN Append(stack, new) = 1..(Len(stack) + 1)
          /\ \A i \in 1..Len(stack) : Append(stack, new)[i] = stack[i]
          /\ Append(stack, new)[Len(stack) + 1] = new
      BY <1>3, PushProperties
    <3>. QED
      BY <1>3, <2>1, <3>1
  <2>3. IsFrame(new) /\ new.value = value /\ new.depth = n
    BY <1>2, <1>4 DEF IsFrame, Frame
  <2>4. new.value = stack[n].value.kids[stack[n].next - 1].value
    BY <1>3, <1>4, <1>5, <2>3 DEF IsFrame
  <2>5. FramesNest'
    <3>. SUFFICES ASSUME NEW i \in 1..(n + 1)
                  PROVE  /\ frames'[i].depth = i - 1
                         /\ frames'[i].value =
                               IF i = 1 THEN call.value
                               ELSE frames'[i - 1].value.kids[frames'[i - 1].next - 1].value
      BY <2>2 DEF FramesNest
    <3>. HIDE DEF top, new
    <3>1. CASE i \in 1..n
      <4>1. i # 1 => i - 1 \in 1..n
        BY <1>2, <3>1
      <4>2. frames'[i] = stack[i] /\ (i # 1 => frames'[i - 1] = stack[i - 1])
        BY <2>2, <3>1, <4>1
      <4>3. stack[i].depth = i - 1
        BY <1>6, <3>1
      <4>. QED
        BY <1>7, <3>1, <4>2, <4>3
    <3>2. CASE i = n + 1
      <4>1. n \in 1..n /\ i - 1 = n /\ i # 1
        BY <1>2, <3>2
      <4>. QED
        BY <2>2, <2>3, <2>4, <3>2, <4>1
    <3>3. i \in 1..n \/ i = n + 1
      BY <1>2
    <3>. QED
      BY <3>1, <3>2, <3>3
  <2>6. ASSUME NEW i \in DOMAIN frames' PROVE IsFrame(frames'[i])
    <3>. HIDE DEF top, new
    <3>1. i \in 1..n \/ i = n + 1
      BY <1>2, <2>2
    <3>. QED
      BY <1>6, <2>2, <2>3, <3>1
  <2>. QED
    BY <2>2, <2>5, <2>6 DEF FrameInv
<1>. QED
  BY <1>8, <1>9

LEMMA PopNests ==
    ASSUME FrameInv, frames # <<>>, frames' = Below, call' = call,
           phase' \notin {"called", "counted"}
    PROVE  FrameInv'
<1>1. PICK S : frames \in Seq(S)
  BY DEF FrameInv
<1>2. /\ Len(frames) \in Nat \ {0} /\ DOMAIN frames = 1..Len(frames)
      /\ frames' \in Seq(S) /\ DOMAIN frames' = 1..(Len(frames) - 1)
      /\ \A i \in DOMAIN frames' : frames'[i] = frames[i]
  BY <1>1, FrontProperties DEF Below
<1>3. \A i \in DOMAIN frames' : i \in DOMAIN frames /\ (i # 1 => i - 1 \in DOMAIN frames')
  BY <1>2
<1>. QED
  BY <1>2, <1>3 DEF FrameInv, FramesNest

LEMMA EmptyNests ==
    ASSUME frames' = <<>> PROVE FrameInv'
<1>1. frames' \in Seq({}) /\ DOMAIN frames' = {}
  OBVIOUS
<1>. QED
  BY <1>1 DEF FrameInv, FramesNest

LEMMA FrameStep == FrameInv /\ [Next]_vars => FrameInv'
<1>. SUFFICES ASSUME FrameInv, [Next]_vars PROVE FrameInv'
  OBVIOUS
<1>1. ASSUME NEW from, NEW running, Start(from, running), running \notin {"called", "counted"}
      PROVE  FrameInv'
  <2>1. call' = call /\ (frames' = <<>> \/
            (phase' = running /\ frames' = Pushed(call.value, 0, <<>>)))
    BY <1>1, FeedEffect DEF Start
  <2>2. CASE frames' = <<Frame(call.value, 0)>> /\ phase' = running
    <3>1. /\ frames' \in Seq({Frame(call.value, 0)}) /\ DOMAIN frames' = {1}
          /\ frames'[1] = Frame(call.value, 0)
      BY <2>2
    <3>2. IsFrame(frames'[1]) /\ frames'[1].depth = 0 /\ frames'[1].value = call'.value
      BY <2>1, <3>1 DEF IsFrame, Frame
    <3>3. FramesNest'
      BY <3>1, <3>2 DEF FramesNest
    <3>. QED
      BY <1>1, <2>2, <3>1, <3>2, <3>3 DEF FrameInv
  <2>. QED
    BY <2>1, <2>2, EmptyNests DEF Pushed
<1>2. CASE Child
  <2>. DEFINE kid == Top.value.kids[Top.next]
              stack == Append(Below, [Top EXCEPT !.next = @ + 1])
  <2>1. PICK pieces : Feed(pieces, Pushed(kid.value, Top.depth + 1, stack), phase)
    BY <1>2, Zenon DEF Child
  <2>2. call' = call /\ (frames' = <<>> \/
            (phase' = phase /\ frames' = Pushed(kid.value, Top.depth + 1, stack)))
    BY <2>1, FeedEffect
  <2>3. frames # <<>> /\ phase \notin {"called", "counted"}
    BY <1>2 DEF Child, Running
  <2>. QED
    BY <2>2, <2>3, PushNests, EmptyNests
<1>3. CASE Close
  <2>1. PICK pieces : Feed(pieces, Below, phase)
    BY <1>3, Zenon DEF Close
  <2>2. call' = call /\ (frames' = <<>> \/ (phase' = phase /\ frames' = Below))
    BY <2>1, FeedEffect
  <2>3. frames # <<>> /\ phase \notin {"called", "counted"}
    BY <1>3 DEF Close, Running
  <2>. QED
    BY <2>2, <2>3, PopNests, EmptyNests
<1>4. CASE Counted \/ ReserveFails \/ Finish
  BY <1>4, EmptyNests DEF Counted, ReserveFails, Fail, Finish
<1>5. CASE UNCHANGED vars
  BY <1>5 DEF vars, FrameInv, FramesNest
<1>. QED
  BY <1>1, <1>2, <1>3, <1>4, <1>5 DEF Next, Count, Emit

\* The explicit stack is at all times the path from the root to the open
\* container, each frame at its depth.
THEOREM FramesAlwaysNest == Spec => []FramesNest
<1>1. FrameInv => FramesNest
  BY DEF FrameInv
<1>. QED
  BY FrameInit, FrameStep, <1>1, PTL DEF Spec
=============================================================================
