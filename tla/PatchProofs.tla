---------------------------- MODULE PatchProofs ----------------------------
(***************************************************************************)
(* Theorems about Patch, for all documents, patches and limits.            *)
(***************************************************************************)
EXTENDS Patch, TreeTheorems

-----------------------------------------------------------------------------
(* The caller's PatchError.                                                 *)

\* An operation that is done leaves the call running.
LEMMA AdvanceRuns == ASSUME running, NEW t, NEW n, Advance(t, n) PROVE SuccessClearsError'
  BY DEF Advance, SuccessClearsError

\* An operation that is refused never carries the code of success.
LEMMA RefusalShows == ASSUME NEW code, code # "Ok", Refuse(code) PROVE SuccessClearsError'
  BY DEF Refuse, SuccessClearsError

\* A helper's code reaches the caller only when it is an error.
LEMMA FinishShows == ASSUME running, NEW r, NEW n, Finish(r, n) PROVE SuccessClearsError'
  BY AdvanceRuns, RefusalShows DEF Finish

\* SuccessClearsError is inductive as it stands.
LEMMA ErrorStep == SuccessClearsError /\ [Next]_vars => SuccessClearsError'
  <1> SUFFICES ASSUME SuccessClearsError, [Next]_vars PROVE SuccessClearsError'
    OBVIOUS
  <1>1. ASSUME Idle, NEW p \in Patches, Begin(p) PROVE SuccessClearsError'
    BY <1>1 DEF Begin, NoError, SuccessClearsError
  <1>2. CASE NotAnArray
    BY <1>2 DEF NotAnArray, SuccessClearsError
  <1>3. CASE Defect
    BY <1>3, RefusalShows DEF Defect, Malformed, Needs
  <1>4. CASE Add
    BY <1>4, FinishShows, AdvanceRuns, RefusalShows DEF Add, Applying
  <1>5. CASE Remove
    BY <1>5, FinishShows, AdvanceRuns, RefusalShows DEF Remove, Applying
  <1>6. CASE Replace
    BY <1>6, FinishShows, AdvanceRuns, RefusalShows DEF Replace, Applying
  <1>7. CASE Test
    BY <1>7, FinishShows, AdvanceRuns, RefusalShows DEF Test, Applying
  <1>8. CASE CopyOp
    BY <1>8, FinishShows, AdvanceRuns, RefusalShows DEF CopyOp, Applying
  <1>9. CASE Move
    BY <1>9, FinishShows, AdvanceRuns, RefusalShows DEF Move, Applying
  <1>10. CASE Publish
    BY <1>10 DEF Publish, NoError, SuccessClearsError
  <1>11. CASE OutOfMemory
    BY <1>11, RefusalShows DEF OutOfMemory
  <1>12. CASE Exhausted
    BY <1>12, RefusalShows DEF Exhausted
  <1>13. CASE UNCHANGED vars
    BY <1>13 DEF vars, SuccessClearsError
  <1> QED
    BY <1>1, <1>2, <1>3, <1>4, <1>5, <1>6, <1>7, <1>8, <1>9, <1>10, <1>11, <1>12, <1>13
    DEF Next

\* A call that succeeded leaves the PatchError of an untouched call, whatever
\* diagnostics its operations recorded on the way (the final *outError of
\* applyPatch).
THEOREM SuccessClearsErrorHolds == Spec => []SuccessClearsError
  <1>1. Init => SuccessClearsError
    BY DEF Init, SuccessClearsError
  <1> QED
    BY <1>1, ErrorStep, PTL DEF Spec

-----------------------------------------------------------------------------
(* Pointers.  Resolving tokens finds the one location they name, if any.    *)

\* r says which place S holds, or that it holds none.
Finds(r, S) ==
    /\ r.code = "Ok" => S = {r.path}
    /\ r.code # "Ok" => S = {}

\* Outcome has the fields it is given.
LEMMA OutcomeFields ==
    ASSUME NEW code, NEW path
    PROVE  Outcome(code, path).code = code /\ Outcome(code, path).path = path
  BY DEF Outcome

LEMMA FindsOne == ASSUME NEW path PROVE Finds(Outcome("Ok", path), {path})
  BY OutcomeFields DEF Finds

LEMMA FindsNone == ASSUME NEW code, NEW path, code # "Ok" PROVE Finds(Outcome(code, path), {})
  BY OutcomeFields DEF Finds

\* The beginning of a path that goes on by one slot.
LEMMA AppendPrefix ==
    ASSUME NEW p \in Path, NEW k \in Nat
    PROVE  /\ Append(p, k) \in Path /\ Len(Append(p, k)) = Len(p) + 1
           /\ Append(p, k)[Len(p) + 1] = k
           /\ SubSeq(Append(p, k), 1, Len(p)) = p
           /\ \A n \in 1..Len(p) : /\ Append(p, k)[n] = p[n]
                                   /\ SubSeq(Append(p, k), 1, n - 1) = SubSeq(p, 1, n - 1)
  <1> DEFINE y == Append(p, k)
  <1>1. /\ y \in Path /\ Len(y) = Len(p) + 1 /\ Len(p) \in Nat
        /\ y[Len(p) + 1] = k /\ \A n \in 1..Len(p) : y[n] = p[n]
    BY AppendProperties DEF Path
  <1>2. \A n \in 1..Len(y) : y[n] \in Nat
    BY <1>1, ElementOfSeq DEF Path
  <1>p. \A n \in 1..Len(p) : p[n] \in Nat
    BY ElementOfSeq DEF Path
  <1> HIDE DEF y
  <1>3. ASSUME NEW m \in 0..Len(p)
        PROVE  SubSeq(y, 1, m) = SubSeq(p, 1, m) /\ (m = Len(p) => SubSeq(y, 1, m) = p)
    <2>1. m \in Int /\ 1 \in Int /\ (\A i \in 1..m : y[i] \in Nat) /\ \A i \in 1..m : p[i] \in Nat
      BY <1>1, <1>2, <1>p
    <2>2. /\ SubSeq(y, 1, m) \in Seq(Nat)
          /\ Len(SubSeq(y, 1, m)) = IF 1 <= m THEN m - 1 + 1 ELSE 0
          /\ \A i \in 1..m - 1 + 1 : SubSeq(y, 1, m)[i] = y[1 + i - 1]
      BY <2>1, SubSeqProperties
    <2>3. /\ SubSeq(p, 1, m) \in Seq(Nat)
          /\ Len(SubSeq(p, 1, m)) = IF 1 <= m THEN m - 1 + 1 ELSE 0
          /\ \A i \in 1..m - 1 + 1 : SubSeq(p, 1, m)[i] = p[1 + i - 1]
      BY <2>1, SubSeqProperties
    <2>4. Len(SubSeq(y, 1, m)) = m /\ Len(SubSeq(p, 1, m)) = m
      BY <2>2, <2>3
    <2>5. \A i \in 1..m : SubSeq(y, 1, m)[i] = p[i] /\ SubSeq(p, 1, m)[i] = p[i]
      BY <1>1, <2>2, <2>3
    <2>6. SubSeq(y, 1, m) = SubSeq(p, 1, m)
      BY <2>2, <2>3, <2>4, <2>5, SeqEqual
    <2>7. m = Len(p) => SubSeq(y, 1, m) = p
      BY <2>2, <2>4, <2>5, SeqEqual DEF Path
    <2> QED
      BY <2>6, <2>7
  <1>4. SubSeq(y, 1, Len(p)) = p
    BY <1>1, <1>3
  <1>5. ASSUME NEW n \in 1..Len(p) PROVE SubSeq(y, 1, n - 1) = SubSeq(p, 1, n - 1)
    <2>1. n - 1 \in 0..Len(p)
      BY <1>1
    <2> QED
      BY <1>3, <2>1
  <1> QED
    BY <1>1, <1>4, <1>5 DEF y

\* A pointer that is not the root's is its parent's and a last token.
LEMMA FrontAndLast ==
    ASSUME NEW p \in Path, p # <<>>
    PROVE  /\ Front(p) \in Path /\ LastToken(p) \in Nat
           /\ p = Append(Front(p), LastToken(p)) /\ Len(p) = Len(Front(p)) + 1
  <1>1. Len(p) \in Nat \ {0}
    BY EmptySeq DEF Path
  <1>2. \A n \in 1..Len(p) : p[n] \in Nat
    BY ElementOfSeq DEF Path
  <1> DEFINE f == Front(p)
             k == LastToken(p)
             m == Len(p) - 1
  <1>3. /\ f \in Seq(Nat) /\ Len(f) = m
        /\ \A i \in 1..m : f[i] = p[i]
    <2>1. m \in Int /\ 1 \in Int /\ \A i \in 1..m : p[i] \in Nat
      BY <1>1, <1>2
    <2>f. f = SubSeq(p, 1, m)
      BY DEF Front
    <2>m. m \in Nat
      BY <1>1
    <2> HIDE DEF f, m
    <2>2. /\ SubSeq(p, 1, m) \in Seq(Nat)
          /\ Len(SubSeq(p, 1, m)) = IF 1 <= m THEN m - 1 + 1 ELSE 0
          /\ \A i \in 1..m - 1 + 1 : SubSeq(p, 1, m)[i] = p[1 + i - 1]
      BY ONLY <2>1, SubSeqProperties
    <2>3. Len(f) = m
      BY <2>2, <2>f, <2>m
    <2>4. \A i \in 1..m : f[i] = p[i]
      BY <2>2, <2>f, <2>m
    <2> QED
      BY <2>2, <2>3, <2>4, <2>f
  <1>4. k \in Nat /\ k = p[Len(p)]
    BY <1>1, <1>2 DEF LastToken
  <1> HIDE DEF f, k
  <1>5. /\ Append(f, k) \in Path /\ Len(Append(f, k)) = Len(f) + 1
        /\ Append(f, k)[Len(f) + 1] = k
        /\ \A n \in 1..Len(f) : Append(f, k)[n] = f[n]
    BY <1>3, <1>4, AppendPrefix DEF Path
  <1>6. \A i \in 1..Len(p) : Append(f, k)[i] = p[i]
    <2>1. \A i \in 1..Len(p) : i \in 1..m \/ i = Len(p)
      BY <1>1
    <2>2. Len(f) + 1 = Len(p)
      BY <1>1, <1>3
    <2> QED
      BY <1>3, <1>4, <1>5, <2>1, <2>2
  <1>7. p = Append(f, k)
    BY <1>1, <1>3, <1>5, <1>6, SeqEqual DEF Path
  <1> QED
    BY <1>1, <1>3, <1>4, <1>7 DEF f, k, Path

\* The type of the value at a place of a tree.
LEMMA TypeAt ==
    ASSUME NEW t, IsTree(t), NEW p \in DOMAIN t
    PROVE  Type(At(t, p)) = t[p].type
  <1>1. <<>> \in DOMAIN At(t, p) /\ p \o <<>> = p
    BY AtTree, RestOfConcat DEF IsTree
  <1>2. At(t, p)[<<>>] = t[p \o <<>>]
    BY <1>1, AtTree
  <1> QED
    BY <1>1, <1>2 DEF Type

\* No tokens name the root.
LEMMA RootLocation ==
    ASSUME NEW t, IsDocument(t)
    PROVE  Locations(t, <<>>) = {<<>>}
  <1>1. <<>> \in DOMAIN t /\ DOMAIN t \subseteq Path
    BY DocumentPlaces DEF IsTree
  <1>2. Len(<<>>) = 0 /\ \A p \in DOMAIN t : Len(p) = 0 => p = <<>>
    BY <1>1, EmptySeq DEF Path
  <1> QED
    BY <1>1, <1>2 DEF Locations

\* The token that names a slot of an array, and of an object.
LEMMA NamesAre ==
    ASSUME NEW token, NEW t, NEW y, NEW i, NEW type, Type(At(t, SubSeq(y, 1, i - 1))) = type
    PROVE  /\ type = "array" => (Names(token, t, y, i) <=> token \in Indexes /\ y[i] = token + 1)
           /\ type # "array" => (Names(token, t, y, i) <=> y[i] = token)
  BY DEF Names

\* One more token names a member of the place named so far.
LEMMA NextLocation ==
    ASSUME NEW t, IsDocument(t), NEW tokens \in Path, NEW token \in Nat, NEW y \in Path
    PROVE  y \in Locations(t, Append(tokens, token)) <=>
                \E p \in Locations(t, tokens), k \in Nat :
                    /\ y = Append(p, k) /\ y \in DOMAIN t
                    /\ IF t[p].type = "array" THEN token \in Indexes /\ k = token + 1 ELSE k = token
  <1>1. /\ IsTree(t) /\ DOMAIN t \subseteq Path
        /\ \A p \in DOMAIN t, q \in Path : Inside(p, q) => q \in DOMAIN t
    BY DocumentPlaces DEF IsTree
  <1> DEFINE more == Append(tokens, token)
             n == Len(tokens)
  <1>2. /\ more \in Path /\ Len(more) = n + 1 /\ more[n + 1] = token
        /\ \A i \in 1..n : more[i] = tokens[i]
    BY AppendPrefix
  <1>n. n \in Nat
    BY DEF Path
  <1> HIDE DEF more, n
  \* What it takes for a member of a place of the right length.
  <1>3. ASSUME NEW p \in DOMAIN t, NEW k \in Nat, y = Append(p, k), y \in DOMAIN t, Len(p) = n
        PROVE  y \in Locations(t, more) <=>
                    /\ p \in Locations(t, tokens)
                    /\ IF t[p].type = "array" THEN token \in Indexes /\ k = token + 1 ELSE k = token
    <2>1. p \in Path
      BY <1>1
    <2>2. /\ Len(y) = n + 1 /\ y[n + 1] = k /\ SubSeq(y, 1, n) = p
          /\ \A i \in 1..n : y[i] = p[i] /\ SubSeq(y, 1, i - 1) = SubSeq(p, 1, i - 1)
      BY <1>3, <2>1, AppendPrefix
    <2>3. \A i \in 1..n : Names(more[i], t, y, i) <=> Names(tokens[i], t, p, i)
      BY <1>2, <2>2 DEF Names
    <2>4. Names(more[n + 1], t, y, n + 1) <=>
            IF t[p].type = "array" THEN token \in Indexes /\ k = token + 1 ELSE k = token
      <3>2. Type(At(t, p)) = t[p].type
        BY <1>1, TypeAt
      <3>3. more[n + 1] = token /\ y[n + 1] = k
        BY <1>2, <2>2
      <3> DEFINE i == n + 1
                 type == t[p].type
      <3>1. i - 1 = n
        BY <1>n
      <3> HIDE DEF i, type
      <3>4. Type(At(t, SubSeq(y, 1, i - 1))) = type
        BY <2>2, <3>1, <3>2 DEF type
      <3>5. /\ type = "array" =>
                (Names(token, t, y, i) <=> token \in Indexes /\ y[i] = token + 1)
            /\ type # "array" => (Names(token, t, y, i) <=> y[i] = token)
        BY ONLY <3>4, NamesAre
      <3> QED
        BY <3>3, <3>5 DEF i, type
    <2>5. 1..n + 1 = 1..n \cup {n + 1}
      BY <1>n
    <2>6. y \in Locations(t, more) <=> \A i \in 1..n + 1 : Names(more[i], t, y, i)
      BY <1>2, <1>3, <2>2 DEF Locations
    <2>7. p \in Locations(t, tokens) <=> \A i \in 1..n : Names(tokens[i], t, p, i)
      BY <1>3 DEF Locations, n
    <2> QED
      BY <2>3, <2>4, <2>5, <2>6, <2>7
  <1>4. ASSUME y \in Locations(t, more)
        PROVE  \E p \in Locations(t, tokens), k \in Nat :
                    /\ y = Append(p, k) /\ y \in DOMAIN t
                    /\ IF t[p].type = "array" THEN token \in Indexes /\ k = token + 1 ELSE k = token
    <2>1. y \in DOMAIN t /\ Len(y) = n + 1
      BY <1>2, <1>4 DEF Locations
    <2>2. y # <<>>
      BY <1>n, <2>1
    <2> DEFINE p == Front(y)
               k == LastToken(y)
    <2>3. p \in Path /\ k \in Nat /\ y = Append(p, k) /\ Len(y) = Len(p) + 1
      BY <2>2, FrontAndLast
    <2> HIDE DEF p, k
    <2>4. Inside(Append(p, k), p)
      BY ONLY <2>3, InsideMember
    <2>5. p \in DOMAIN t
      BY <1>1, <2>1, <2>3, <2>4
    <2>6. Len(p) = n
      BY <1>n, <2>1, <2>3 DEF Path
    <2> QED
      BY <1>3, <1>4, <2>1, <2>3, <2>5, <2>6
  <1>5. ASSUME NEW p \in Locations(t, tokens), NEW k \in Nat, y = Append(p, k), y \in DOMAIN t,
               IF t[p].type = "array" THEN token \in Indexes /\ k = token + 1 ELSE k = token
        PROVE  y \in Locations(t, more)
    <2>1. p \in DOMAIN t /\ Len(p) = n
      BY DEF Locations, n
    <2> QED
      BY <1>3, <1>5, <2>1
  <1> QED
    BY <1>4, <1>5 DEF more

\* Nothing is below a place that is not named.
LEMMA NoLocation ==
    ASSUME NEW t, IsDocument(t), NEW tokens \in Path, NEW token \in Nat, Locations(t, tokens) = {}
    PROVE  Locations(t, Append(tokens, token)) = {}
  <1> DEFINE more == Locations(t, Append(tokens, token))
  <1>1. more \subseteq Path
    BY DocumentPlaces DEF Locations, IsTree
  <1>2. \A y \in Path : y \in more => \E p \in Locations(t, tokens) : TRUE
    BY NextLocation
  <1> QED
    BY <1>1, <1>2

\* What one token names below a place.
LEMMA OneToken ==
    ASSUME NEW t, IsDocument(t), NEW tokens \in Path, NEW token \in Nat,
           NEW p, Locations(t, tokens) = {p}, NEW S, S = Locations(t, Append(tokens, token))
    PROVE  /\ p \in DOMAIN t
           /\ Type(At(t, p)) = "object" =>
                S = IF token \in Slots(At(t, p)) THEN {Append(p, token)} ELSE {}
           /\ Type(At(t, p)) = "array" =>
                /\ Size(At(t, p)) \in Nat
                /\ S = IF token \in Indexes /\ token < Size(At(t, p))
                       THEN {Append(p, token + 1)} ELSE {}
           /\ Type(At(t, p)) \notin {"object", "array"} => S = {}
  <1>1. /\ IsTree(t) /\ DOMAIN t \subseteq Path
        /\ \A x \in DOMAIN t, q \in Path :
             Inside(x, q) => q \in DOMAIN t /\ (q # x => t[q].type \in {"object", "array"})
        /\ \A x \in DOMAIN t : t[x].type = "array" =>
             \E n \in Nat : /\ n = Size(At(t, x))
                            /\ \A k \in Nat : Append(x, k) \in DOMAIN t <=> k \in 1..n
    BY DocumentPlaces DEF IsTree
  <1>2. p \in DOMAIN t /\ p \in Path
    BY <1>1 DEF Locations
  <1>3. Type(At(t, p)) = t[p].type
    BY <1>1, <1>2, TypeAt
  <1>4. S \subseteq Path
    BY <1>1 DEF Locations
  <1>5. \A y \in Path : y \in S <=>
            \E k \in Nat :
                /\ y = Append(p, k) /\ y \in DOMAIN t
                /\ IF t[p].type = "array" THEN token \in Indexes /\ k = token + 1 ELSE k = token
    BY NextLocation
  <1>6. \A k \in Nat : Append(p, k) \in Path /\ Inside(Append(p, k), p) /\ Append(p, k) # p
    <2> SUFFICES ASSUME NEW k \in Nat
                 PROVE  Append(p, k) \in Path /\ Inside(Append(p, k), p) /\ Append(p, k) # p
      OBVIOUS
    <2>1. Append(p, k) \in Path /\ Inside(Append(p, k), p) /\ ~Inside(p, Append(p, k))
      BY ONLY <1>2, k \in Nat, InsideMember
    <2>2. Inside(p, p)
      BY <1>2, InsideOrder
    <2> QED
      BY <2>1, <2>2
  <1>7. CASE t[p].type = "object"
    <2>1. token \in Slots(At(t, p)) <=> Append(p, token) \in DOMAIN t
      BY <1>1, <1>2, SlotsAreMembers, MembersAreSlots
    <2>2. \A y \in Path : y \in S <=> y = Append(p, token) /\ y \in DOMAIN t
      BY <1>5, <1>7
    <2>3. S = IF token \in Slots(At(t, p)) THEN {Append(p, token)} ELSE {}
      BY <1>4, <1>6, <2>1, <2>2
    <2> QED
      BY <1>2, <1>3, <1>7, <2>3
  <1>8. CASE t[p].type = "array"
    <2> DEFINE n == Size(At(t, p))
    <2>1. n \in Nat /\ \A k \in Nat : Append(p, k) \in DOMAIN t <=> k \in 1..n
      BY <1>1, <1>2, <1>8
    <2> HIDE DEF n
    <2> DEFINE k == token + 1
    <2>2. k \in Nat /\ (Append(p, k) \in DOMAIN t <=> token < n)
      BY <2>1
    <2>3. \A y \in Path : y \in S <=> y = Append(p, k) /\ y \in DOMAIN t /\ token \in Indexes
      BY <1>5, <1>8, <2>2
    <2> HIDE DEF k
    <2>4. S = IF token \in Indexes /\ token < n THEN {Append(p, k)} ELSE {}
      BY <1>4, <1>6, <2>2, <2>3
    <2> QED
      BY <1>2, <1>3, <1>8, <2>1, <2>4 DEF n, k
  <1>9. CASE t[p].type \notin {"object", "array"}
    <2>1. \A k \in Nat : Append(p, k) \notin DOMAIN t
      BY <1>1, <1>2, <1>6, <1>9
    <2>2. S = {}
      BY <1>4, <1>5, <2>1
    <2> QED
      BY <1>2, <1>3, <1>9, <2>2
  <1> QED
    BY <1>7, <1>8, <1>9

\* One step of resolvePointerTokens.
LEMMA EnterFinds ==
    ASSUME NEW t, IsDocument(t), NEW tokens \in Path, NEW token \in Nat,
           NEW p, Locations(t, tokens) = {p}
    PROVE  Finds(Enter(t, p, token), Locations(t, Append(tokens, token)))
  <1> DEFINE here == At(t, p)
             S == Locations(t, Append(tokens, token))
             n == Size(here)
  <1>1. /\ Type(here) = "object" =>
             S = IF token \in Slots(here) THEN {Append(p, token)} ELSE {}
        /\ Type(here) = "array" =>
             /\ n \in Nat
             /\ S = IF token \in Indexes /\ token < n THEN {Append(p, token + 1)} ELSE {}
        /\ Type(here) \notin {"object", "array"} => S = {}
    BY OneToken
  <1>2. Enter(t, p, token) =
            CASE Type(here) = "object" ->
                    IF token \in Slots(here) THEN Outcome("Ok", Append(p, token))
                    ELSE Outcome("TargetMissing", p)
              [] Type(here) = "array" ->
                    IF token \notin Indexes THEN Outcome("InvalidArrayIndex", p)
                    ELSE IF token >= n THEN Outcome("ArrayIndexOutOfRange", p)
                    ELSE Outcome("Ok", Append(p, token + 1))
              [] OTHER -> Outcome("TargetMissing", p)
    BY DEF Enter
  <1> HIDE DEF here, S, n
  <1>3. CASE Type(here) = "object"
    <2>1. Enter(t, p, token) = IF token \in Slots(here) THEN Outcome("Ok", Append(p, token))
                               ELSE Outcome("TargetMissing", p)
      BY <1>2, <1>3
    <2>2. S = IF token \in Slots(here) THEN {Append(p, token)} ELSE {}
      BY <1>1, <1>3
    <2>3. Finds(Enter(t, p, token), S)
      BY <2>1, <2>2, FindsOne, FindsNone
    <2> QED
      BY <2>3 DEF S
  <1>4. CASE Type(here) = "array"
    <2>1. Enter(t, p, token) = IF token \notin Indexes THEN Outcome("InvalidArrayIndex", p)
                               ELSE IF token >= n THEN Outcome("ArrayIndexOutOfRange", p)
                               ELSE Outcome("Ok", Append(p, token + 1))
      BY <1>2, <1>4
    <2>2. token >= n <=> ~(token < n)
      BY <1>1, <1>4
    <2>3. S = IF token \in Indexes /\ token < n THEN {Append(p, token + 1)} ELSE {}
      BY <1>1, <1>4
    <2>4. Finds(Enter(t, p, token), S)
      BY <2>1, <2>2, <2>3, FindsOne, FindsNone
    <2> QED
      BY <2>4 DEF S
  <1>5. CASE Type(here) \notin {"object", "array"}
    <2>1. Enter(t, p, token) = Outcome("TargetMissing", p)
      BY <1>2, <1>5
    <2> QED
      BY <1>1, <1>5, <2>1, OutcomeFields DEF Finds, S
  <1> QED
    BY <1>3, <1>4, <1>5

\* resolvePointerTokens step by step.
Visits(w, t, tokens, n) ==
    w = [i \in 0..n |->
            IF i = 0 THEN Outcome("Ok", <<>>)
            ELSE IF w[i - 1].code = "Ok" THEN Enter(t, w[i - 1].path, tokens[i])
            ELSE w[i - 1]]

LEMMA VisitsExist ==
    ASSUME NEW t, NEW tokens, NEW n \in Nat
    PROVE  \E w : Visits(w, t, tokens, n)
  <1> DEFINE S == {k \in 0..n : \E w : Visits(w, t, tokens, k)}
  <1>1. 0 \in S
    <2> DEFINE w == [i \in 0..0 |-> Outcome("Ok", <<>>)]
    <2>1. Visits(w, t, tokens, 0)
      BY DEF Visits
    <2> QED
      BY <2>1
  <1>2. ASSUME NEW k \in 0..n, k \in S, k < n PROVE k + 1 \in S
    <2>1. PICK w : Visits(w, t, tokens, k)
      BY <1>2
    <2>2. /\ \A i \in 0..k : w[i] =
                IF i = 0 THEN Outcome("Ok", <<>>)
                ELSE IF w[i - 1].code = "Ok" THEN Enter(t, w[i - 1].path, tokens[i])
                ELSE w[i - 1]
      BY <2>1 DEF Visits
    <2> DEFINE body(v, i) ==
                IF i = 0 THEN Outcome("Ok", <<>>)
                ELSE IF v[i - 1].code = "Ok" THEN Enter(t, v[i - 1].path, tokens[i])
                ELSE v[i - 1]
               next == [i \in 0..k + 1 |-> IF i <= k THEN w[i] ELSE body(w, i)]
    <2>3. \A i \in 0..k + 1 : next[i] = IF i <= k THEN w[i] ELSE body(w, i)
      OBVIOUS
    <2>4. \A i \in 0..k : next[i] = w[i]
      BY <2>3
    <2>5. \A i \in 0..k + 1 : next[i] = body(w, i)
      BY <2>2, <2>3
    <2>6. \A i \in 0..k + 1 : i # 0 => i - 1 \in 0..k
      OBVIOUS
    <2>7. \A i \in 0..k + 1 : body(next, i) = body(w, i)
      BY <2>4, <2>6
    <2>8. next = [i \in 0..k + 1 |-> next[i]]
      OBVIOUS
    <2> HIDE DEF next
    <2>9. Visits(next, t, tokens, k + 1)
      BY <2>5, <2>7, <2>8 DEF Visits
    <2> QED
      BY <1>2, <2>9
  <1> HIDE DEF S
  <1>3. \A k \in 0..n : k \in S
    BY <1>1, <1>2, Climb
  <1> QED
    BY <1>3 DEF S

\* The walk is the function it is defined as.
LEMMA Resolves ==
    ASSUME NEW t, NEW tokens, NEW n \in Nat
    PROVE  \E w : Visits(w, t, tokens, n) /\ resolvePatchTokens(t, tokens, n) = w[n]
  <1> DEFINE w == CHOOSE w : Visits(w, t, tokens, n)
  <1>1. Visits(w, t, tokens, n)
    BY VisitsExist
  <1>2. resolvePatchTokens(t, tokens, n) = w[n]
    BY DEF resolvePatchTokens, Visits
  <1> QED
    BY <1>1, <1>2

\* The first n tokens of a pointer and the next.
LEMMA MoreTokens ==
    ASSUME NEW tokens \in Path, NEW n \in 1..Len(tokens)
    PROVE  /\ SubSeq(tokens, 1, n - 1) \in Path /\ tokens[n] \in Nat
           /\ SubSeq(tokens, 1, n) = Append(SubSeq(tokens, 1, n - 1), tokens[n])
  <1>1. Len(tokens) \in Nat /\ \A i \in 1..Len(tokens) : tokens[i] \in Nat
    BY ElementOfSeq DEF Path
  <1> DEFINE p == SubSeq(tokens, 1, n)
  <1>2. n \in Nat /\ 1 \in Int /\ \A i \in 1..n : tokens[i] \in Nat
    BY <1>1
  <1>3. /\ p \in Seq(Nat)
        /\ Len(p) = IF 1 <= n THEN n - 1 + 1 ELSE 0
        /\ \A i \in 1..n - 1 + 1 : p[i] = tokens[1 + i - 1]
    BY <1>2, SubSeqProperties
  <1>4. p \in Path /\ Len(p) = n /\ p[n] = tokens[n] /\ \A i \in 1..n : p[i] = tokens[i]
    BY <1>2, <1>3 DEF Path
  <1> HIDE DEF p
  <1>5. p # <<>>
    BY <1>4
  <1>6. Front(p) \in Path /\ LastToken(p) \in Nat /\ p = Append(Front(p), LastToken(p))
    BY <1>4, <1>5, FrontAndLast
  <1>7. LastToken(p) = tokens[n]
    BY <1>4 DEF LastToken
  <1>8. Front(p) = SubSeq(tokens, 1, n - 1)
    <2>1. Front(p) = SubSeq(p, 1, n - 1)
      BY <1>4 DEF Front
    <2> DEFINE m == n - 1
    <2>m. m \in Nat /\ m < n
      BY <1>2
    <2> HIDE DEF m
    <2>2. /\ SubSeq(p, 1, m) \in Seq(Nat)
          /\ Len(SubSeq(p, 1, m)) = IF 1 <= m THEN m - 1 + 1 ELSE 0
          /\ \A i \in 1..m - 1 + 1 : SubSeq(p, 1, m)[i] = p[1 + i - 1]
      <3>1. m \in Int /\ 1 \in Int /\ \A i \in 1..m : p[i] \in Nat
        BY <1>2, <1>4, <2>m
      <3> QED
        BY ONLY <3>1, SubSeqProperties
    <2>3. /\ SubSeq(tokens, 1, m) \in Seq(Nat)
          /\ Len(SubSeq(tokens, 1, m)) = IF 1 <= m THEN m - 1 + 1 ELSE 0
          /\ \A i \in 1..m - 1 + 1 : SubSeq(tokens, 1, m)[i] = tokens[1 + i - 1]
      <3>1. m \in Int /\ 1 \in Int /\ \A i \in 1..m : tokens[i] \in Nat
        BY <1>2, <2>m
      <3> QED
        BY ONLY <3>1, SubSeqProperties
    <2>4. Len(SubSeq(p, 1, m)) = m /\ Len(SubSeq(tokens, 1, m)) = m
      BY <2>2, <2>3, <2>m
    <2>5. \A i \in 1..m : SubSeq(p, 1, m)[i] = SubSeq(tokens, 1, m)[i]
      BY <1>2, <1>4, <2>2, <2>3, <2>m
    <2>6. SubSeq(p, 1, m) = SubSeq(tokens, 1, m)
      BY <2>2, <2>3, <2>4, <2>5, SeqEqual
    <2> QED
      BY <2>1, <2>6 DEF m
  <1> QED
    BY <1>1, <1>6, <1>7, <1>8 DEF p

\* resolvePatchTokens finds the location the first n tokens name.
LEMMA ResolveFinds ==
    ASSUME NEW t, IsDocument(t), NEW tokens \in Path, NEW n \in 0..Len(tokens)
    PROVE  Finds(resolvePatchTokens(t, tokens, n), Locations(t, SubSeq(tokens, 1, n)))
  <1>0. Len(tokens) \in Nat /\ n \in Nat
    BY DEF Path
  <1>1. PICK w : Visits(w, t, tokens, n) /\ resolvePatchTokens(t, tokens, n) = w[n]
    BY <1>0, Resolves
  <1>2. \A i \in 0..n : w[i] =
            IF i = 0 THEN Outcome("Ok", <<>>)
            ELSE IF w[i - 1].code = "Ok" THEN Enter(t, w[i - 1].path, tokens[i])
            ELSE w[i - 1]
    BY <1>1 DEF Visits
  <1> DEFINE S == {k \in 0..n : Finds(w[k], Locations(t, SubSeq(tokens, 1, k)))}
  <1>3. 0 \in S
    <2>1. SubSeq(tokens, 1, 0) = <<>>
      <3>1. /\ SubSeq(tokens, 1, 0) \in Seq(Nat)
            /\ Len(SubSeq(tokens, 1, 0)) = IF 1 <= 0 THEN 0 - 1 + 1 ELSE 0
        <4>1. 0 \in Int /\ 1 \in Int /\ \A i \in 1..0 : tokens[i] \in Nat
          OBVIOUS
        <4> QED
          BY ONLY <4>1, SubSeqProperties
      <3> QED
        BY <3>1, EmptySeq
    <2>2. w[0] = Outcome("Ok", <<>>)
      BY <1>0, <1>2
    <2>3. Finds(w[0], Locations(t, SubSeq(tokens, 1, 0)))
      BY <2>1, <2>2, RootLocation, FindsOne
    <2> QED
      BY <1>0, <2>3
  <1>4. ASSUME NEW k \in 0..n, k \in S, k < n PROVE k + 1 \in S
    <2> DEFINE i == k + 1
               front == SubSeq(tokens, 1, k)
    <2>1. i \in 0..n /\ i # 0 /\ i - 1 = k /\ i \in 1..Len(tokens)
      BY <1>0, <1>4
    <2>2. Finds(w[k], Locations(t, front))
      BY <1>4
    <2> HIDE DEF i, front
    <2>3. front \in Path /\ tokens[i] \in Nat /\ SubSeq(tokens, 1, i) = Append(front, tokens[i])
      BY <2>1, MoreTokens DEF front
    <2>4. w[i] = IF w[k].code = "Ok" THEN Enter(t, w[k].path, tokens[i]) ELSE w[k]
      BY <1>2, <2>1
    <2>5. CASE w[k].code = "Ok"
      <3> DEFINE p == w[k].path
      <3>1. Locations(t, front) = {p}
        BY <2>2, <2>5 DEF Finds
      <3>2. w[i] = Enter(t, p, tokens[i])
        BY <2>4, <2>5
      <3> HIDE DEF p
      <3>3. Finds(w[i], Locations(t, SubSeq(tokens, 1, i)))
        BY <2>3, <3>1, <3>2, EnterFinds
      <3> QED
        BY <2>1, <3>3 DEF i
    <2>6. CASE w[k].code # "Ok"
      <3>1. Locations(t, front) = {}
        BY <2>2, <2>6 DEF Finds
      <3>2. Locations(t, SubSeq(tokens, 1, i)) = {}
        BY <2>3, <3>1, NoLocation
      <3>3. Finds(w[i], Locations(t, SubSeq(tokens, 1, i)))
        BY <2>4, <2>6, <3>2 DEF Finds
      <3> QED
        BY <2>1, <3>3 DEF i
    <2> QED
      BY <2>5, <2>6
  <1> HIDE DEF S
  <1>5. \A k \in 0..n : k \in S
    BY <1>0, <1>3, <1>4, Climb
  <1>6. n \in S
    BY <1>0, <1>5
  <1> QED
    BY <1>1, <1>6 DEF S

\* patchArrayIndex.
LEMMA ArrayIndexIs ==
    ASSUME NEW size \in Nat, NEW token \in Nat
    PROVE  /\ LET i == patchArrayIndex(size, token, FALSE)
              IN  IF token \in Indexes /\ token < size
                  THEN i = Outcome("Ok", token + 1) ELSE i.code # "Ok"
           /\ LET i == patchArrayIndex(size, token, TRUE)
              IN  IF token = Dash THEN i = Outcome("Ok", size + 1)
                  ELSE IF token \in Indexes /\ token <= size
                  THEN i = Outcome("Ok", token + 1) ELSE i.code # "Ok"
  <1>1. Dash \notin Indexes
    BY PatchAssumption
  <1> QED
    BY <1>1, OutcomeFields DEF patchArrayIndex

\* The parent of the place a pointer names.
LEMMA ParentFinds ==
    ASSUME NEW t, IsDocument(t), NEW tokens \in Path, tokens # <<>>
    PROVE  Finds(Parent(t, tokens), Locations(t, Front(tokens)))
  <1>1. Len(tokens) \in Nat \ {0}
    BY EmptySeq DEF Path
  <1> DEFINE n == Len(tokens) - 1
  <1>2. n \in 0..Len(tokens)
    BY <1>1
  <1>3. Finds(resolvePatchTokens(t, tokens, n), Locations(t, SubSeq(tokens, 1, n)))
    BY <1>2, ResolveFinds
  <1> QED
    BY <1>3 DEF Parent, Front

\* The whole pointer.
LEMMA PointerFinds ==
    ASSUME NEW t, IsDocument(t), NEW tokens \in Path
    PROVE  Finds(resolvePatchTokens(t, tokens, Len(tokens)), Locations(t, tokens))
  <1>1. Len(tokens) \in 0..Len(tokens)
    BY DEF Path
  <1>2. SubSeq(tokens, 1, Len(tokens)) = tokens
    <2>1. Inside(tokens, tokens)
      BY InsideOrder
    <2> QED
      BY <2>1 DEF Inside
  <1> QED
    BY <1>1, <1>2, ResolveFinds

\* What replace and remove address is what the pointer names.
LEMMA ExistingFinds ==
    ASSUME NEW t, IsDocument(t), NEW tokens \in Path, tokens # <<>>
    PROVE  Finds(ExistingTarget(t, tokens), Locations(t, tokens))
  <1> DEFINE parent == Parent(t, tokens)
             p == parent.path
             here == At(t, p)
             token == LastToken(tokens)
             front == Front(tokens)
             n == Size(here)
             index == patchArrayIndex(n, token, FALSE)
             S == Locations(t, tokens)
             e == ExistingTarget(t, tokens)
  <1>1. Finds(parent, Locations(t, front))
    BY ParentFinds
  <1>2. front \in Path /\ token \in Nat /\ tokens = Append(front, token)
    BY FrontAndLast
  <1>3. e = IF parent.code # "Ok" THEN parent
            ELSE IF Type(here) = "object"
            THEN IF token \in Slots(here) THEN Outcome("Ok", Append(p, token))
                 ELSE Outcome("TargetMissing", <<>>)
            ELSE IF Type(here) # "array" THEN Outcome("TargetMissing", <<>>)
            ELSE IF index.code # "Ok" THEN Outcome(index.code, <<>>)
            ELSE Outcome("Ok", Append(p, index.path))
    BY DEF ExistingTarget
  <1>S. S = Locations(t, Append(front, token))
    BY <1>2
  <1> HIDE DEF parent, token, front, index, S, e
  <1>4. CASE parent.code # "Ok"
    <2>1. Locations(t, front) = {}
      BY <1>1, <1>4 DEF Finds
    <2>2. S = {}
      BY <1>2, <1>S, <2>1, NoLocation
    <2>3. Finds(e, S)
      BY <1>3, <1>4, <2>2 DEF Finds
    <2> QED
      BY <2>3 DEF e, S
  <1>5. CASE parent.code = "Ok"
    <2>1. Locations(t, front) = {p}
      BY <1>1, <1>5 DEF Finds
    <2>2. /\ Type(here) = "object" =>
               S = IF token \in Slots(here) THEN {Append(p, token)} ELSE {}
          /\ Type(here) = "array" =>
               /\ n \in Nat
               /\ S = IF token \in Indexes /\ token < n THEN {Append(p, token + 1)} ELSE {}
          /\ Type(here) \notin {"object", "array"} => S = {}
      <3> HIDE DEF p
      <3> QED
        BY <1>2, <1>S, <2>1, OneToken
    <2> HIDE DEF p, here, n
    <2>3. CASE Type(here) = "object"
      <3>1. e = IF token \in Slots(here) THEN Outcome("Ok", Append(p, token))
                ELSE Outcome("TargetMissing", <<>>)
        BY <1>3, <1>5, <2>3
      <3>2. S = IF token \in Slots(here) THEN {Append(p, token)} ELSE {}
        BY <2>2, <2>3
      <3> QED
        BY <3>1, <3>2, FindsOne, FindsNone DEF e, S
    <2>4. CASE Type(here) = "array"
      <3>1. e = IF index.code # "Ok" THEN Outcome(index.code, <<>>)
                ELSE Outcome("Ok", Append(p, index.path))
        BY <1>3, <1>5, <2>4
      <3>2. S = IF token \in Indexes /\ token < n THEN {Append(p, token + 1)} ELSE {}
        BY <2>2, <2>4
      <3>3. IF token \in Indexes /\ token < n
            THEN index = Outcome("Ok", token + 1) ELSE index.code # "Ok"
        BY <1>2, <2>2, <2>4, ArrayIndexIs DEF index
      <3>4. CASE token \in Indexes /\ token < n
        <4>1. index.code = "Ok" /\ index.path = token + 1
          BY <3>3, <3>4, OutcomeFields
        <4>2. e = Outcome("Ok", Append(p, token + 1)) /\ S = {Append(p, token + 1)}
          BY <3>1, <3>2, <3>4, <4>1
        <4> QED
          BY <4>2, FindsOne DEF e, S
      <3>5. CASE ~(token \in Indexes /\ token < n)
        <4>1. e = Outcome(index.code, <<>>) /\ S = {} /\ index.code # "Ok"
          BY <3>1, <3>2, <3>3, <3>5
        <4>2. Finds(e, S)
          BY <4>1, FindsNone
        <4> QED
          BY <4>2 DEF e, S
      <3> QED
        BY <3>4, <3>5
    <2>5. CASE Type(here) \notin {"object", "array"}
      <3>1. e = Outcome("TargetMissing", <<>>)
        BY <1>3, <1>5, <2>5
      <3>2. S = {}
        BY <2>2, <2>5
      <3> QED
        BY <3>1, <3>2, FindsNone DEF e, S
    <2> QED
      BY <2>3, <2>4, <2>5
  <1> QED
    BY <1>4, <1>5

-----------------------------------------------------------------------------
(* The operations leave what RFC 6902 says, or refuse what it refuses.      *)

\* r is what the documents S say: their only one, or an error and none.
Does(r, S) ==
    /\ r.code = "Ok" => S = {r.tree} /\ IsDocument(r.tree)
    /\ r.code # "Ok" => S = {}

LEMMA DoesOne == ASSUME NEW x, IsDocument(x) PROVE Does(Result("Ok", x), {x})
  BY DEF Does, Result

LEMMA DoesNone == ASSUME NEW code, NEW x, code # "Ok" PROVE Does(Result(code, x), {})
  BY DEF Does, Result

\* The null a removed document leaves is a document.
LEMMA NullDocument == IsDocument(Null)
  <1>1. <<>> \in Path
    BY EmptySeq DEF Path
  <1>2. DOMAIN Null = {<<>>} /\ Null = [p \in {<<>>} |-> Null[p]] /\ Null[<<>>].type = "null"
    BY DEF Null, Empty, Leaf
  <1>3. IsTree(Null) /\ IsMap(Null)
    BY <1>1, <1>2, FS_Singleton DEF IsTree, IsMap
  <1>4. \A p \in DOMAIN Null, q \in Path :
            Inside(p, q) /\ q # p => q \in DOMAIN Null /\ Null[q].type \in {"object", "array"}
    <2>1. \A q \in Path : Inside(<<>>, q) => q = <<>>
      <3>1. \A q \in Path : Inside(q, <<>>)
        BY <1>1, InsideSlots
      <3> QED
        BY <1>1, <3>1, InsideOrder
    <2> QED
      BY <1>2, <2>1
  <1>5. \A p \in DOMAIN Null : Null[p].type # "array"
    BY <1>2
  <1> QED
    BY <1>3, <1>4, <1>5, IsADocument

\* addOwnedAtPointer adds as RFC 6902 does.
LEMMA AddDoes ==
    ASSUME NEW t, IsDocument(t), NEW tokens \in Path, NEW x, IsDocument(x)
    PROVE  Does(addAtPointer(t, tokens, x), RfcAdd(t, tokens, x))
  <1>root. CASE tokens = <<>>
    <2>1. addAtPointer(t, tokens, x) = Result("Ok", x) /\ RfcAdd(t, tokens, x) = {x}
      BY <1>root DEF addAtPointer, RfcAdd
    <2> QED
      BY <2>1, DoesOne
  <1>below. CASE tokens # <<>>
    <2> DEFINE parent == Parent(t, tokens)
               p == parent.path
               here == At(t, p)
               token == LastToken(tokens)
               front == Front(tokens)
               n == Size(here)
               index == patchArrayIndex(n, token, TRUE)
               r == addAtPointer(t, tokens, x)
               S == RfcAdd(t, tokens, x)
    <2>1. Finds(parent, Locations(t, front))
      BY <1>below, ParentFinds
    <2>2. front \in Path /\ token \in Nat
      BY <1>below, FrontAndLast
    <2>3. r = IF parent.code # "Ok" THEN Result(parent.code, t)
              ELSE IF Type(here) = "object"
              THEN Result("Ok", With(t, Append(p, token), x))
              ELSE IF Type(here) # "array" THEN Result("TargetMissing", t)
              ELSE IF index.code # "Ok" THEN Result(index.code, t)
              ELSE Result("Ok", With(t, p, Spliced(here, index.path, x)))
      BY <1>below DEF addAtPointer
    <2>4. S = {With(t, Append(q, token), x) :
                    q \in {y \in Locations(t, front) : Type(At(t, y)) = "object"}}
              \cup {With(t, q, Spliced(At(t, q), token + 1, x)) :
                      q \in {y \in Locations(t, front) :
                                /\ Type(At(t, y)) = "array"
                                /\ token \in Indexes /\ token <= Size(At(t, y))}}
              \cup {With(t, q, Pushed(At(t, q), x)) :
                      q \in {y \in Locations(t, front) :
                                Type(At(t, y)) = "array" /\ token = Dash}}
      BY <1>below DEF RfcAdd
    <2> HIDE DEF parent, token, front, index, r, S
    <2>5. CASE parent.code # "Ok"
      <3>1. Locations(t, front) = {}
        BY <2>1, <2>5 DEF Finds
      <3>2. S = {}
        BY <2>4, <3>1
      <3>3. Does(r, S)
        BY <2>3, <2>5, <3>2, DoesNone
      <3> QED
        BY <3>3 DEF r, S
    <2>6. CASE parent.code = "Ok"
      <3>1. Locations(t, front) = {p}
        BY <2>1, <2>6 DEF Finds
      <3>2. p \in DOMAIN t /\ p \in Path /\ IsTree(t)
        BY <3>1, DocumentPlaces DEF Locations, IsTree
      <3>3. Type(here) = t[p].type /\ IsDocument(here)
        BY <3>2, TypeAt, AtDocument
      <3>4. S = (IF Type(here) = "object" THEN {With(t, Append(p, token), x)} ELSE {})
                \cup (IF Type(here) = "array" /\ token \in Indexes /\ token <= n
                      THEN {With(t, p, Spliced(here, token + 1, x))} ELSE {})
                \cup (IF Type(here) = "array" /\ token = Dash
                      THEN {With(t, p, Pushed(here, x))} ELSE {})
        <4> HIDE DEF p
        <4> QED
          BY <2>4, <3>1
      <3> HIDE DEF p, here, n
      <3>5. CASE Type(here) = "object"
        <4> DEFINE u == With(t, Append(p, token), x)
        <4>1. r = Result("Ok", u) /\ S = {u}
          BY <2>3, <2>6, <3>4, <3>5
        <4>2. Append(p, token) \in Path
          BY <2>2, <3>2, InsideMember
        <4>3. \E b \in DOMAIN t, k \in Nat : Append(p, token) = Append(b, k) /\ t[b].type = "object"
          BY <2>2, <3>2, <3>3, <3>5
        <4>4. IsDocument(u)
          BY <4>2, <4>3, WithDocument
        <4> HIDE DEF u
        <4>5. Does(r, S)
          BY <4>1, <4>4, DoesOne
        <4> QED
          BY <4>5 DEF r, S
      <3>6. CASE Type(here) = "array"
        <4>1. n \in Nat
          BY <3>3, <3>6, RootSlots DEF n
        <4>2. IF token = Dash THEN index = Outcome("Ok", n + 1)
              ELSE IF token \in Indexes /\ token <= n
              THEN index = Outcome("Ok", token + 1) ELSE index.code # "Ok"
          BY <2>2, <4>1, ArrayIndexIs DEF index
        <4>3. r = IF index.code # "Ok" THEN Result(index.code, t)
                  ELSE Result("Ok", With(t, p, Spliced(here, index.path, x)))
          BY <2>3, <2>6, <3>6
        <4>spliced. ASSUME NEW s \in 1..n + 1
                    PROVE  IsDocument(With(t, p, Spliced(here, s, x)))
          <5> DEFINE a == Spliced(here, s, x)
          <5>1. IsDocument(a)
            BY <3>3, <3>6, SplicedDocument DEF n
          <5> HIDE DEF a
          <5>2. IsDocument(With(t, p, a))
            BY <3>2, <5>1, WithDocument
          <5> QED
            BY <5>2 DEF a
        <4>4. CASE token = Dash
          <5> DEFINE u == With(t, p, Spliced(here, n + 1, x))
          <5>1. index.code = "Ok" /\ index.path = n + 1
            BY <4>2, <4>4, OutcomeFields
          <5>2. Pushed(here, x) = Spliced(here, n + 1, x)
            BY <3>3, <3>6, PushedIsSpliced, DocumentPlaces DEF n
          <5>3. token \notin Indexes
            BY <4>4, PatchAssumption
          <5>4. r = Result("Ok", u) /\ S = {u}
            BY <3>4, <3>6, <4>3, <4>4, <5>1, <5>2, <5>3
          <5>5. IsDocument(u)
            BY <4>1, <4>spliced
          <5> HIDE DEF u
          <5>6. Does(r, S)
            BY <5>4, <5>5, DoesOne
          <5> QED
            BY <5>6 DEF r, S
        <4>5. CASE token # Dash /\ token \in Indexes /\ token <= n
          <5> DEFINE u == With(t, p, Spliced(here, token + 1, x))
          <5>1. index.code = "Ok" /\ index.path = token + 1
            BY <4>2, <4>5, OutcomeFields
          <5>2. r = Result("Ok", u) /\ S = {u}
            BY <3>4, <3>6, <4>3, <4>5, <5>1
          <5>3. token + 1 \in 1..n + 1
            BY <2>2, <4>1, <4>5
          <5>4. IsDocument(u)
            BY <4>spliced, <5>3
          <5> HIDE DEF u
          <5>5. Does(r, S)
            BY <5>2, <5>4, DoesOne
          <5> QED
            BY <5>5 DEF r, S
        <4>6. CASE token # Dash /\ ~(token \in Indexes /\ token <= n)
          <5>1. r = Result(index.code, t) /\ S = {} /\ index.code # "Ok"
            BY <3>4, <3>6, <4>2, <4>3, <4>6
          <5>2. Does(r, S)
            BY <5>1, DoesNone
          <5> QED
            BY <5>2 DEF r, S
        <4> QED
          BY <4>4, <4>5, <4>6
      <3>7. CASE Type(here) \notin {"object", "array"}
        <4>1. r = Result("TargetMissing", t) /\ S = {}
          BY <2>3, <2>6, <3>4, <3>7
        <4>2. Does(r, S)
          BY <4>1, DoesNone
        <4> QED
          BY <4>2 DEF r, S
      <3> QED
        BY <3>5, <3>6, <3>7
    <2> QED
      BY <2>5, <2>6
  <1> QED
    BY <1>root, <1>below

\* A location other than the root is a slot of a container.
LEMMA LocationBelow ==
    ASSUME NEW t, IsDocument(t), NEW p \in DOMAIN t, p # <<>>
    PROVE  LET b == Front(p)
               k == LastToken(p)
           IN  /\ b \in DOMAIN t /\ k \in Nat /\ p = Append(b, k)
               /\ t[b].type \in {"object", "array"}
               /\ IsDocument(At(t, b)) /\ Type(At(t, b)) = t[b].type
               /\ <<k>> \in DOMAIN At(t, b) /\ At(At(t, b), <<k>>) = At(t, p)
  <1> DEFINE b == Front(p)
             k == LastToken(p)
  <1>1. /\ IsTree(t) /\ DOMAIN t \subseteq Path
        /\ \A y \in DOMAIN t, q \in Path :
             Inside(y, q) => q \in DOMAIN t /\ (q # y => t[q].type \in {"object", "array"})
    BY DocumentPlaces DEF IsTree
  <1>2. b \in Path /\ k \in Nat /\ p = Append(b, k)
    BY <1>1, FrontAndLast
  <1> HIDE DEF b, k
  <1>3. Inside(Append(b, k), b) /\ ~Inside(b, Append(b, k))
    BY ONLY <1>2, InsideMember
  <1>4. Inside(b, b)
    BY <1>2, InsideOrder
  <1>5. b \in DOMAIN t /\ t[b].type \in {"object", "array"}
    BY <1>1, <1>2, <1>3, <1>4
  <1>6. IsDocument(At(t, b)) /\ Type(At(t, b)) = t[b].type
    BY <1>1, <1>5, AtDocument, TypeAt
  <1>7. <<k>> \in Path /\ b \o <<k>> = Append(b, k)
    BY <1>2, AppendIsConcat DEF Path
  <1>8. <<k>> \in DOMAIN At(t, b)
    BY <1>1, <1>2, <1>5, <1>7, AtTree
  <1>9. At(At(t, b), <<k>>) = At(t, b \o <<k>>)
    BY <1>1, <1>5, <1>8, AtAt
  <1> QED
    BY <1>2, <1>5, <1>6, <1>7, <1>8, <1>9 DEF b, k

\* Only the root is named by no tokens.
LEMMA LocationLength ==
    ASSUME NEW t, IsDocument(t), NEW tokens \in Path, NEW p \in Locations(t, tokens)
    PROVE  p \in DOMAIN t /\ p \in Path /\ Len(p) = Len(tokens) /\ (p = <<>> <=> tokens = <<>>)
  <1>1. p \in DOMAIN t /\ p \in Path /\ Len(p) = Len(tokens)
    BY DocumentPlaces DEF Locations, IsTree
  <1> QED
    BY <1>1, EmptySeq DEF Path

\* What RFC 6902 makes of replace.
RfcReplace(t, tokens, x) ==
    IF tokens = <<>> THEN {x} ELSE {With(t, p, x) : p \in Locations(t, tokens)}

\* replaceAtPointer.
LEMMA ReplaceDoes ==
    ASSUME NEW t, IsDocument(t), NEW tokens \in Path, NEW x, IsDocument(x)
    PROVE  Does(replaceAtPointer(t, tokens, x), RfcReplace(t, tokens, x))
  <1>root. CASE tokens = <<>>
    <2>1. replaceAtPointer(t, tokens, x) = Result("Ok", x) /\ RfcReplace(t, tokens, x) = {x}
      BY <1>root DEF replaceAtPointer, RfcReplace
    <2> QED
      BY <2>1, DoesOne
  <1>below. CASE tokens # <<>>
    <2> DEFINE e == ExistingTarget(t, tokens)
               p == e.path
               r == replaceAtPointer(t, tokens, x)
               S == RfcReplace(t, tokens, x)
    <2>1. Finds(e, Locations(t, tokens))
      BY <1>below, ExistingFinds
    <2>2. r = Result(e.code, IF e.code = "Ok" THEN With(t, p, x) ELSE t)
      BY <1>below DEF replaceAtPointer
    <2>3. S = {With(t, q, x) : q \in Locations(t, tokens)}
      BY <1>below DEF RfcReplace
    <2> HIDE DEF e, r, S
    <2>4. CASE e.code = "Ok"
      <3>1. Locations(t, tokens) = {p}
        BY <2>1, <2>4 DEF Finds
      <3>2. p \in DOMAIN t /\ p \in Path
        BY <3>1, LocationLength
      <3> DEFINE u == With(t, p, x)
      <3>3. r = Result("Ok", u) /\ S = {u}
        BY <2>2, <2>3, <2>4, <3>1
      <3> HIDE DEF p
      <3>4. IsDocument(u)
        BY <3>2, WithDocument
      <3> HIDE DEF u
      <3>5. Does(r, S)
        BY <3>3, <3>4, DoesOne
      <3> QED
        BY <3>5 DEF r, S
    <2>5. CASE e.code # "Ok"
      <3>1. r = Result(e.code, t) /\ S = {}
        BY <2>1, <2>2, <2>3, <2>5 DEF Finds
      <3>2. Does(r, S)
        BY <2>5, <3>1, DoesNone
      <3> QED
        BY <3>2 DEF r, S
    <2> QED
      BY <2>4, <2>5
  <1> QED
    BY <1>root, <1>below

\* A document without one of its slots.
Without(t, p) == With(t, Front(p), Erased(At(t, Front(p)), LastToken(p)))

LEMMA WithoutDocument ==
    ASSUME NEW t, IsDocument(t), NEW p \in DOMAIN t, p # <<>>
    PROVE  IsDocument(Without(t, p))
  <1> DEFINE b == Front(p)
             k == LastToken(p)
             here == At(t, b)
             e == Erased(here, k)
  <1>1. b \in DOMAIN t /\ k \in Nat /\ IsDocument(here) /\ <<k>> \in DOMAIN here
    BY LocationBelow
  <1>2. b \in Path
    BY <1>1, DocumentPlaces DEF IsTree
  <1> HIDE DEF b, k, here
  <1>3. IsDocument(e)
    BY <1>1, ErasedDocument
  <1> HIDE DEF e
  <1>4. IsDocument(With(t, b, e))
    BY <1>1, <1>2, <1>3, WithDocument
  <1> QED
    BY <1>4 DEF Without, b, k, here, e

\* detachAtPointer.
LEMMA DetachDoes ==
    ASSUME NEW t, IsDocument(t), NEW tokens \in Path
    PROVE  Does(detachAtPointer(t, tokens), RfcRemove(t, tokens))
  <1>root. CASE tokens = <<>>
    <2>1. detachAtPointer(t, tokens) = Result("Ok", Null)
      BY <1>root DEF detachAtPointer
    <2>2. Locations(t, tokens) = {<<>>}
      BY <1>root, RootLocation
    <2>3. RfcRemove(t, tokens) = {Null}
      BY <2>2 DEF RfcRemove
    <2> QED
      BY <2>1, <2>3, NullDocument, DoesOne
  <1>below. CASE tokens # <<>>
    <2> DEFINE e == ExistingTarget(t, tokens)
               p == e.path
               r == detachAtPointer(t, tokens)
               S == RfcRemove(t, tokens)
    <2>1. Finds(e, Locations(t, tokens))
      BY <1>below, ExistingFinds
    <2>2. r = Result(e.code, IF e.code = "Ok" THEN Without(t, p) ELSE t)
      BY <1>below DEF detachAtPointer, Without
    <2>3. S = {IF q = <<>> THEN Null ELSE Without(t, q) : q \in Locations(t, tokens)}
      BY DEF RfcRemove, Without
    <2> HIDE DEF e, r, S
    <2>4. CASE e.code = "Ok"
      <3>1. Locations(t, tokens) = {p}
        BY <2>1, <2>4 DEF Finds
      <3>2. p \in DOMAIN t /\ p # <<>>
        BY <1>below, <3>1, LocationLength
      <3> DEFINE u == Without(t, p)
      <3>3. r = Result("Ok", u) /\ S = {u}
        BY <2>2, <2>3, <2>4, <3>1, <3>2
      <3> HIDE DEF p
      <3>4. IsDocument(u)
        BY <3>2, WithoutDocument
      <3> HIDE DEF u
      <3>5. Does(r, S)
        BY <3>3, <3>4, DoesOne
      <3> QED
        BY <3>5 DEF r, S
    <2>5. CASE e.code # "Ok"
      <3>1. r = Result(e.code, t) /\ S = {}
        BY <2>1, <2>2, <2>3, <2>5 DEF Finds
      <3>2. Does(r, S)
        BY <2>5, <3>1, DoesNone
      <3> QED
        BY <3>2 DEF r, S
    <2> QED
      BY <2>4, <2>5
  <1> QED
    BY <1>root, <1>below

\* Tokens name one place at most.
LEMMA OneLocation ==
    ASSUME NEW t, IsDocument(t), NEW tokens \in Path, NEW p \in Locations(t, tokens)
    PROVE  Locations(t, tokens) = {p}
  BY PointerFinds DEF Finds

\* What is erased below a place does not change the names on the way to it.
LEMMA SameWay ==
    ASSUME NEW t, IsDocument(t), NEW tokens \in Path, NEW b \in Locations(t, tokens),
           NEW e, IsDocument(e), NEW u, u = With(t, b, e)
    PROVE  IsDocument(u) /\ Locations(u, tokens) = {b}
  <1>1. b \in DOMAIN t /\ b \in Path /\ Len(b) = Len(tokens)
        /\ \A i \in 1..Len(b) : Names(tokens[i], t, b, i)
    BY LocationLength DEF Locations
  <1>2. IsDocument(u)
    BY <1>1, WithDocument
  <1>3. /\ IsTree(t) /\ \A q \in Path : Inside(b, q) => q \in DOMAIN t
    BY <1>1, DocumentPlaces
  <1>4. /\ IsTree(u) /\ \A y \in DOMAIN u, q \in Path : Inside(y, q) => q \in DOMAIN u
    BY <1>2, DocumentPlaces
  <1>5. b \in DOMAIN u
    BY <1>1, <1>3, DocumentPlaces, WithTree
  <1>6. ASSUME NEW i \in 1..Len(b) PROVE Names(tokens[i], u, b, i)
    <2> DEFINE q == SubSeq(b, 1, i - 1)
    <2>1. q \in Path /\ SubSeq(b, 1, i) = Append(q, b[i]) /\ b[i] \in Nat
      BY <1>1, MoreTokens
    <2>2. i - 1 \in 0..Len(b) /\ i \in 0..Len(b)
      BY <1>1 DEF Path
    <2>3. q \in Prefixes(b) /\ SubSeq(b, 1, i) \in Prefixes(b)
      BY <2>2 DEF Prefixes
    <2> HIDE DEF q
    <2>4. Inside(b, q) /\ Inside(b, Append(q, b[i]))
      BY <1>1, <2>1, <2>3, PrefixesAre
    <2>5. ~Inside(q, b)
      <3> DEFINE j == b[i]
      <3>1. j \in Nat /\ Inside(b, Append(q, j))
        BY <2>1, <2>4
      <3> HIDE DEF j
      <3>2. Append(q, j) \in Path /\ ~Inside(q, Append(q, j))
        BY ONLY <2>1, <3>1, InsideMember
      <3> QED
        BY <1>1, <2>1, <3>1, <3>2, InsideOrder
    <2>6. q \in DOMAIN t /\ q \in DOMAIN u
      BY <1>3, <1>4, <1>5, <2>1, <2>4
    <2>7. u[q] = t[q]
      BY <1>1, <1>3, <2>1, <2>5, <2>6, WithPlaces, DocumentPlaces DEF SameAt
    <2>8. Type(At(u, q)) = t[q].type /\ Type(At(t, q)) = t[q].type
      BY <1>3, <1>4, <2>6, <2>7, TypeAt
    <2> DEFINE type == t[q].type
    <2>9. /\ type = "array" =>
               (Names(tokens[i], t, b, i) <=> tokens[i] \in Indexes /\ b[i] = tokens[i] + 1)
          /\ type # "array" => (Names(tokens[i], t, b, i) <=> b[i] = tokens[i])
      BY <2>8, NamesAre DEF q
    <2>10. /\ type = "array" =>
                (Names(tokens[i], u, b, i) <=> tokens[i] \in Indexes /\ b[i] = tokens[i] + 1)
           /\ type # "array" => (Names(tokens[i], u, b, i) <=> b[i] = tokens[i])
      BY <2>8, NamesAre DEF q
    <2> QED
      BY <1>1, <2>9, <2>10
  <1>7. b \in Locations(u, tokens)
    BY <1>1, <1>5, <1>6 DEF Locations
  <1> QED
    BY <1>2, <1>7, OneLocation

\* What is removed and added at the same place leaves the document as it was:
\* a move to where the value is may stop before both.
LEMMA AddedBack ==
    ASSUME NEW t, IsDocument(t), NEW tokens \in Path, NEW p \in Locations(t, tokens),
           p # <<>>, NEW u, u = Without(t, p)
    PROVE  RfcAdd(u, tokens, At(t, p)) = {t}
  <1> DEFINE b == Front(p)
             k == LastToken(p)
             here == At(t, b)
             e == Erased(here, k)
             front == Front(tokens)
             token == LastToken(tokens)
             x == At(t, p)
  <1>1. p \in DOMAIN t /\ p \in Path /\ tokens # <<>>
    BY LocationLength
  <1>2. /\ b \in DOMAIN t /\ k \in Nat /\ p = Append(b, k)
        /\ t[b].type \in {"object", "array"}
        /\ IsDocument(here) /\ Type(here) = t[b].type
        /\ <<k>> \in DOMAIN here /\ At(here, <<k>>) = x
    BY <1>1, LocationBelow
  <1>3. front \in Path /\ token \in Nat /\ tokens = Append(front, token)
    BY <1>1, FrontAndLast
  <1>4. IsDocument(e) /\ Type(e) = Type(here)
    <2> HIDE DEF here, k
    <2> QED
      BY <1>2, ErasedDocument
  <1>u. u = With(t, b, e)
    BY DEF Without
  <1>add. RfcAdd(u, tokens, x) =
            {With(u, Append(q, token), x) :
                    q \in {y \in Locations(u, front) : Type(At(u, y)) = "object"}}
            \cup {With(u, q, Spliced(At(u, q), token + 1, x)) :
                    q \in {y \in Locations(u, front) :
                                /\ Type(At(u, y)) = "array"
                                /\ token \in Indexes /\ token <= Size(At(u, y))}}
            \cup {With(u, q, Pushed(At(u, q), x)) :
                    q \in {y \in Locations(u, front) :
                                Type(At(u, y)) = "array" /\ token = Dash}}
    BY <1>1 DEF RfcAdd
  <1>tree. IsTree(t) /\ IsMap(t) /\ IsTree(e) /\ IsMap(e) /\ b \in Path
    BY <1>2, <1>4, DocumentPlaces DEF IsTree
  <1> HIDE DEF b, k, front, token, x
  \* Where the tokens lead, and by which token.
  <1>5. /\ b \in Locations(t, front)
        /\ IF t[b].type = "array" THEN token \in Indexes /\ k = token + 1 ELSE k = token
    <2>1. p \in Locations(t, Append(front, token))
      BY <1>3
    <2>2. PICK b2 \in Locations(t, front), k2 \in Nat :
                /\ p = Append(b2, k2)
                /\ IF t[b2].type = "array" THEN token \in Indexes /\ k2 = token + 1 ELSE k2 = token
      BY <1>1, <1>3, <2>1, NextLocation
    <2>3. b2 \in Path
      BY <1>3, LocationLength
    <2>4. Append(b, k) = Append(b2, k2)
      BY <1>2, <2>2
    <2>5. b = b2 /\ k = k2
      BY ONLY <2>3, <2>4, <1>tree, <1>2, k2 \in Nat, AppendInjective DEF Path
    <2> QED
      BY <2>2, <2>5
  <1>6. IsDocument(u) /\ Locations(u, front) = {b}
    <2> HIDE DEF e
    <2> QED
      BY <1>3, <1>4, <1>5, <1>u, SameWay
  <1>7. At(u, b) = e
    <2> HIDE DEF e
    <2> QED
      BY <1>tree, <1>u, AtWith
  <1>8. RfcAdd(u, tokens, x) =
            (IF Type(e) = "object" THEN {With(u, Append(b, token), x)} ELSE {})
            \cup (IF Type(e) = "array" /\ token \in Indexes /\ token <= Size(e)
                  THEN {With(u, b, Spliced(e, token + 1, x))} ELSE {})
            \cup (IF Type(e) = "array" /\ token = Dash
                  THEN {With(u, b, Pushed(e, x))} ELSE {})
    <2> HIDE DEF e
    <2> QED
      BY <1>add, <1>6, <1>7
  <1>9. CASE t[b].type = "object"
    <2>1. k = token
      BY <1>5, <1>9
    <2>2. RfcAdd(u, tokens, x) = {With(u, Append(b, k), At(t, Append(b, k)))}
      <3> HIDE DEF e
      <3> QED
        BY <1>2, <1>4, <1>8, <1>9, <2>1 DEF x
    <2>3. Append(b, k) \in DOMAIN t
      BY <1>1, <1>2
    <2>4. u = With(t, b, Erased(At(t, b), k))
      BY <1>u
    <2>5. With(u, Append(b, k), At(t, Append(b, k))) = t
      BY ONLY <1>tree, <1>2, <1>9, <2>3, <2>4, MemberBack
    <2> QED
      BY <2>2, <2>5 DEF x
  <1>10. CASE t[b].type = "array"
    <2>1. token \in Indexes /\ k = token + 1 /\ token # Dash
      BY <1>5, <1>10, PatchAssumption
    <2>2. token <= Size(e)
      <3>1. Size(e) \in Nat /\ \A j \in Nat : <<j>> \in DOMAIN e <=> j \in 1..Size(e)
        <4> HIDE DEF e
        <4> QED
          BY <1>2, <1>4, <1>10, RootSlots
      <3>2. \A j \in Nat : <<j>> \in DOMAIN here <=> j \in 1..Size(here)
        <4> HIDE DEF here
        <4> QED
          BY <1>2, <1>10, RootSlots
      <3>3. Size(here) \in Nat
        <4> HIDE DEF here
        <4> QED
          BY <1>2, <1>10, RootSlots
      <3>4. CASE token = 0
        BY <3>1, <3>4
      <3>5. CASE token # 0
        <4>1. <<token>> \in DOMAIN here
          BY <1>2, <1>3, <2>1, <3>2, <3>3, <3>5
        <4>2. k \in Nat \ {0} /\ token < k
          BY <1>3, <2>1
        <4>3. SameAt(here, e, <<token>> \o <<>>)
          <5> PICK z \in Path : z = <<>>
            BY EmptySeq DEF Path
          <5>1. IsTree(here) /\ Type(here) = "array"
            BY <1>2, <1>10, DocumentPlaces
          <5> HIDE DEF here
          <5>2. \A j \in Nat, q \in Path : j < k => SameAt(here, e, <<j>> \o q)
            BY <4>2, <5>1, ErasedSlots
          <5>3. SameAt(here, e, <<token>> \o z)
            BY <1>3, <4>2, <5>2
          <5> QED
            BY <5>3
        <4>4. <<token>> \o <<>> = <<token>>
          BY <1>3, ConsPath, EmptySeq DEF Path
        <4>5. <<token>> \in DOMAIN e
          BY <4>1, <4>3, <4>4 DEF SameAt
        <4> QED
          BY <1>3, <3>1, <4>5
      <3> QED
        BY <3>4, <3>5
    <2>3. Spliced(e, k, x) = here
      <3> HIDE DEF here
      <3>1. Spliced(Erased(here, k), k, At(here, <<k>>)) = here
        BY <1>2, <1>10, SplicedBack
      <3> QED
        BY <1>2, <3>1
    <2>4. RfcAdd(u, tokens, x) = {With(u, b, here)}
      <3> HIDE DEF e, here
      <3> QED
        BY <1>2, <1>4, <1>8, <1>10, <2>1, <2>2, <2>3
    <2>5. With(u, b, At(t, b)) = t
      <3> HIDE DEF e
      <3> QED
        BY <1>tree, <1>2, <1>u, WrittenBack
    <2> QED
      BY <2>4, <2>5 DEF x
  <1> QED
    BY <1>2, <1>9, <1>10

\* What RFC 6902 makes of move.
RfcMove(t, from, path) ==
    IF isProperPointerAncestor(from, path) THEN {}
    ELSE UNION {RfcAdd(u, path, At(t, p)) : p \in Locations(t, from), u \in RfcRemove(t, from)}

\* A value that is moved to where it is.
LEMMA MoveNowhere ==
    ASSUME NEW t, IsDocument(t), NEW tokens \in Path, Locations(t, tokens) # {}
    PROVE  RfcMove(t, tokens, tokens) = {t}
  <1>1. PICK p \in Locations(t, tokens) : TRUE
    OBVIOUS
  <1>2. Locations(t, tokens) = {p} /\ p \in DOMAIN t /\ (p = <<>> <=> tokens = <<>>)
    BY OneLocation, LocationLength
  <1>3. ~isProperPointerAncestor(tokens, tokens)
    <2>1. Len(tokens) \in Nat
      BY DEF Path
    <2> QED
      BY <2>1 DEF isProperPointerAncestor
  <1>4. CASE p = <<>>
    <2>1. At(t, p) = t
      BY <1>4, AtRoot, DocumentPlaces
    <2>2. RfcRemove(t, tokens) = {Null}
      BY <1>2, <1>4 DEF RfcRemove
    <2>3. RfcAdd(Null, tokens, At(t, p)) = {t}
      BY <1>2, <1>4, <2>1 DEF RfcAdd
    <2> QED
      BY <1>2, <1>3, <2>2, <2>3 DEF RfcMove
  <1>5. CASE p # <<>>
    <2> DEFINE u == Without(t, p)
    <2>1. RfcRemove(t, tokens) = {u}
      BY <1>2, <1>5 DEF RfcRemove, Without
    <2>2. RfcAdd(u, tokens, At(t, p)) = {t}
      BY <1>5, AddedBack
    <2> HIDE DEF u
    <2> QED
      BY <1>2, <1>3, <2>1, <2>2 DEF RfcMove
  <1> QED
    BY <1>4, <1>5

-----------------------------------------------------------------------------
(* The documents the operations of a patch may leave, one after the other.  *)

\* The documents operation o may leave of t, none when o is malformed.
Allowed(t, o) == IF WellFormedOp(o) THEN Rfc(t, o) ELSE {}

\* Leaves, operation by operation.
Lists(w, t, operations, n) ==
    w = [k \in 0..n |->
            IF k = 0 THEN {t}
            ELSE UNION {Allowed(u, operations[k]) : u \in w[k - 1]}]

LEMMA ListsExist ==
    ASSUME NEW t, NEW operations, NEW n \in Nat
    PROVE  \E w : Lists(w, t, operations, n)
  <1> DEFINE S == {k \in 0..n : \E w : Lists(w, t, operations, k)}
  <1>1. 0 \in S
    <2> DEFINE w == [k \in 0..0 |-> {t}]
    <2>1. Lists(w, t, operations, 0)
      BY DEF Lists
    <2> QED
      BY <2>1
  <1>2. ASSUME NEW k \in 0..n, k \in S, k < n PROVE k + 1 \in S
    <2>1. PICK w : Lists(w, t, operations, k)
      BY <1>2
    <2> DEFINE body(v, i) == IF i = 0 THEN {t}
                             ELSE UNION {Allowed(u, operations[i]) : u \in v[i - 1]}
               next == [i \in 0..k + 1 |-> IF i <= k THEN w[i] ELSE body(w, i)]
    <2>2. \A i \in 0..k : w[i] = body(w, i)
      BY <2>1 DEF Lists
    <2>3. \A i \in 0..k + 1 : next[i] = IF i <= k THEN w[i] ELSE body(w, i)
      OBVIOUS
    <2>4. \A i \in 0..k : next[i] = w[i]
      BY <2>3
    <2>5. \A i \in 0..k + 1 : next[i] = body(w, i)
      <3> HIDE DEF body, next
      <3> SUFFICES ASSUME NEW i \in 0..k + 1 PROVE next[i] = body(w, i)
        OBVIOUS
      <3>1. CASE i <= k
        <4>1. i \in 0..k
          BY <3>1
        <4> QED
          BY <2>2, <2>4, <4>1
      <3>2. CASE ~(i <= k)
        BY <2>3, <3>2
      <3> QED
        BY <3>1, <3>2
    <2>6. \A i \in 0..k + 1 : i # 0 => i - 1 \in 0..k
      OBVIOUS
    <2>7. \A i \in 0..k + 1 : body(next, i) = body(w, i)
      BY <2>4, <2>6
    <2>8. next = [i \in 0..k + 1 |-> next[i]]
      OBVIOUS
    <2> HIDE DEF next
    <2>9. Lists(next, t, operations, k + 1)
      BY <2>5, <2>7, <2>8 DEF Lists
    <2> QED
      BY <1>2, <2>9
  <1> HIDE DEF S
  <1>3. \A k \in 0..n : k \in S
    BY <1>1, <1>2, Climb
  <1> QED
    BY <1>3 DEF S

LEMMA LeavesLists ==
    ASSUME NEW t, NEW operations, NEW n \in Nat
    PROVE  \E w : Lists(w, t, operations, n) /\ Leaves(t, operations, n) = w[n]
  <1> DEFINE w == CHOOSE w : Lists(w, t, operations, n)
  <1>1. Lists(w, t, operations, n)
    BY ListsExist
  <1>2. Leaves(t, operations, n) = w[n]
    BY DEF Leaves, Lists, Allowed
  <1> QED
    BY <1>1, <1>2

\* No operation leaves the document alone.
LEMMA LeavesNone == ASSUME NEW t, NEW operations PROVE Leaves(t, operations, 0) = {t}
  <1>1. PICK w : Lists(w, t, operations, 0) /\ Leaves(t, operations, 0) = w[0]
    BY LeavesLists
  <1> QED
    BY <1>1 DEF Lists

\* One more operation.
LEMMA LeavesMore ==
    ASSUME NEW t, NEW operations, NEW n \in Nat
    PROVE  Leaves(t, operations, n + 1) =
                UNION {Allowed(u, operations[n + 1]) : u \in Leaves(t, operations, n)}
  <1>1. PICK w : Lists(w, t, operations, n) /\ Leaves(t, operations, n) = w[n]
    BY LeavesLists
  <1>2. PICK v : Lists(v, t, operations, n + 1) /\ Leaves(t, operations, n + 1) = v[n + 1]
    BY LeavesLists
  <1>3. \A k \in 0..n : w[k] = IF k = 0 THEN {t}
                               ELSE UNION {Allowed(u, operations[k]) : u \in w[k - 1]}
    BY <1>1 DEF Lists
  <1>4. \A k \in 0..n + 1 : v[k] = IF k = 0 THEN {t}
                                   ELSE UNION {Allowed(u, operations[k]) : u \in v[k - 1]}
    BY <1>2 DEF Lists
  <1> DEFINE S == {k \in 0..n : w[k] = v[k]}
  <1>5. 0 \in S
    <2>1. 0 \in 0..n /\ 0 \in 0..n + 1
      OBVIOUS
    <2>2. w[0] = {t}
      BY <1>3, <2>1
    <2>3. v[0] = {t}
      BY <1>4, <2>1
    <2> QED
      BY <2>1, <2>2, <2>3
  <1>6. ASSUME NEW k \in 0..n, k \in S, k < n PROVE k + 1 \in S
    <2> DEFINE i == k + 1
    <2>1. i \in 0..n /\ i \in 0..n + 1 /\ i # 0 /\ i - 1 = k
      BY <1>6
    <2>2. w[k] = v[k]
      BY <1>6
    <2> HIDE DEF i
    <2>3. w[i] = UNION {Allowed(u, operations[i]) : u \in w[k]}
      BY <1>3, <2>1
    <2>4. v[i] = UNION {Allowed(u, operations[i]) : u \in v[k]}
      BY <1>4, <2>1
    <2> QED
      BY <2>1, <2>2, <2>3, <2>4 DEF i
  <1> HIDE DEF S
  <1>7. \A k \in 0..n : k \in S
    BY <1>5, <1>6, Climb
  <1>8. w[n] = v[n]
    BY <1>7 DEF S
  <1>9. v[n + 1] = UNION {Allowed(u, operations[n + 1]) : u \in v[n]}
    <2> DEFINE i == n + 1
    <2>1. i \in 0..n + 1 /\ i # 0 /\ i - 1 = n
      OBVIOUS
    <2> HIDE DEF i
    <2>2. v[i] = UNION {Allowed(u, operations[i]) : u \in v[i - 1]}
      BY <1>4, <2>1
    <2>3. v[i] = UNION {Allowed(u, operations[i]) : u \in v[n]}
      BY <2>1, <2>2
    <2> QED
      BY <2>3 DEF i
  <1> QED
    BY <1>1, <1>2, <1>8, <1>9

-----------------------------------------------------------------------------
(* All or nothing.  The clone is always the one document that RFC 6902      *)
(* makes of the operations done so far.                                     *)

DocInv ==
    /\ IsDocument(target)
    /\ Len(patch) \in Nat /\ \A n \in 1..Len(patch) : IsOperation(patch[n])
    /\ opIndex \in Nat
    /\ running => IsDocument(scratch) /\ opIndex <= Len(patch) /\ After(opIndex) = {scratch}

\* A step that does the current operation.
Goes ==
    /\ running /\ running' /\ target' = target /\ patch' = patch /\ before' = before
    /\ opIndex' = opIndex + 1
    /\ IsDocument(scratch')
    /\ OnTheWay /\ Allowed(scratch, Current) = {scratch'}

\* A step that leaves the call with an error.
Stops ==
    /\ ~running' /\ target' = target /\ patch' = patch /\ before' = before
    /\ opIndex' = opIndex
    /\ error'.code # "Ok" /\ error'.opIndex = opIndex
    /\ error'.code \notin {"ResourceLimit", "AllocationFailure"} =>
            OnTheWay /\ Allowed(scratch, Current) = {}

LEMMA AdvanceGoes ==
    ASSUME running, OnTheWay, NEW t, NEW n, IsDocument(t), Allowed(scratch, Current) = {t},
           Advance(t, n)
    PROVE  Goes
  BY DEF Goes, Advance

LEMMA RefuseStops ==
    ASSUME NEW code, code # "Ok",
           code \notin {"ResourceLimit", "AllocationFailure"} =>
                OnTheWay /\ Allowed(scratch, Current) = {},
           Refuse(code)
    PROVE  Stops
  BY DEF Stops, Refuse

LEMMA FinishDoes ==
    ASSUME running, OnTheWay, NEW r, NEW n, Does(r, Allowed(scratch, Current)), Finish(r, n)
    PROVE  Goes \/ Stops
  <1>1. CASE r.code = "Ok"
    <2>1. Advance(r.tree, n) /\ Allowed(scratch, Current) = {r.tree} /\ IsDocument(r.tree)
      BY <1>1 DEF Finish, Does
    <2> QED
      BY <2>1, AdvanceGoes
  <1>2. CASE r.code # "Ok"
    <2> DEFINE code == r.code
    <2>1. Refuse(code) /\ Allowed(scratch, Current) = {} /\ code # "Ok"
      BY <1>2 DEF Finish, Does
    <2> HIDE DEF code
    <2> QED
      BY <2>1, RefuseStops
  <1> QED
    BY <1>1, <1>2

LEMMA LimitStops == ASSUME Refuse("ResourceLimit") PROVE Stops
  BY RefuseStops

\* The operation being applied.
LEMMA CurrentIs ==
    ASSUME DocInv, NEW op, Applying(op)
    PROVE  /\ running /\ OnTheWay
           /\ IsDocument(scratch) /\ IsDocument(Current.value)
           /\ Current.path \in Path /\ Current.from \in Path
           /\ Current.op = op
           /\ Allowed(scratch, Current) = Rfc(scratch, Current)
  <1>1. running /\ OnTheWay /\ ~Malformed /\ Current.op = op
    BY DEF Applying
  <1>2. IsDocument(scratch)
    BY <1>1 DEF DocInv
  <1>3. IsOperation(Current)
    <2>1. opIndex + 1 \in 1..Len(patch)
      BY <1>1 DEF DocInv, OnTheWay
    <2> QED
      BY <2>1 DEF DocInv, Current
  <1> DEFINE o == Current
  <1>4. o.defect \in Defects \cup {"none"}
    BY <1>3 DEF IsOperation
  <1>5. o.defect \notin Needs
    BY <1>1 DEF Malformed
  <1>6. WellFormedOp(o)
    BY <1>4, <1>5 DEF Needs, Defects, WellFormedOp
  <1> QED
    BY <1>1, <1>2, <1>3, <1>6 DEF IsOperation, Allowed, Path

LEMMA DefectStops == ASSUME DocInv, Defect PROVE Stops
  <1>1. running /\ OnTheWay /\ Malformed /\ Refuse(Current.defect)
    BY DEF Defect
  <1>2. Current.defect \in Needs
    BY <1>1 DEF Malformed
  <1>3. ~WellFormedOp(Current) /\ Current.defect # "Ok"
    BY <1>2 DEF Needs, WellFormedOp
  <1>4. Allowed(scratch, Current) = {}
    BY <1>3 DEF Allowed
  <1> QED
    BY <1>1, <1>3, <1>4, RefuseStops

LEMMA AddStep == ASSUME DocInv, Add PROVE Goes \/ Stops
  <1>1. Applying("add")
    BY DEF Add
  <1>2. /\ running /\ OnTheWay
        /\ IsDocument(scratch) /\ IsDocument(Current.value) /\ Current.path \in Path
        /\ Current.op = "add" /\ Allowed(scratch, Current) = Rfc(scratch, Current)
    BY <1>1, CurrentIs
  <1>3. Allowed(scratch, Current) = RfcAdd(scratch, Current.path, Current.value)
    BY <1>2 DEF Rfc
  <1> DEFINE r == addAtPointer(scratch, Current.path, Current.value)
             n == NodeCount(Current.value)
  <1>4. Does(r, Allowed(scratch, Current))
    BY <1>2, <1>3, AddDoes
  <1>5. IF Affordable(n) THEN Finish(r, n) ELSE Refuse("ResourceLimit")
    BY DEF Add
  <1> HIDE DEF r, n
  <1> QED
    BY <1>2, <1>4, <1>5, FinishDoes, LimitStops

LEMMA RemoveStep == ASSUME DocInv, Remove PROVE Goes \/ Stops
  <1>1. Applying("remove")
    BY DEF Remove
  <1>2. /\ running /\ OnTheWay
        /\ IsDocument(scratch) /\ Current.path \in Path
        /\ Current.op = "remove" /\ Allowed(scratch, Current) = Rfc(scratch, Current)
    BY <1>1, CurrentIs
  <1>3. Allowed(scratch, Current) = RfcRemove(scratch, Current.path)
    BY <1>2 DEF Rfc
  <1>4. Does(detachAtPointer(scratch, Current.path), Allowed(scratch, Current))
    BY <1>2, <1>3, DetachDoes
  <1>5. CASE Current.path = <<>>
    <2>1. Allowed(scratch, Current) = {Null}
      BY <1>4, <1>5 DEF Does, detachAtPointer, Result
    <2>2. Advance(Null, 1) \/ Refuse("ResourceLimit")
      BY <1>5 DEF Remove
    <2> QED
      BY <1>2, <2>1, <2>2, NullDocument, AdvanceGoes, LimitStops
  <1>6. CASE Current.path # <<>>
    <2>1. Finish(detachAtPointer(scratch, Current.path), 0)
      BY <1>6 DEF Remove
    <2> QED
      BY <1>2, <1>4, <2>1, FinishDoes
  <1> QED
    BY <1>5, <1>6

LEMMA ReplaceStep == ASSUME DocInv, Replace PROVE Goes \/ Stops
  <1>1. Applying("replace")
    BY DEF Replace
  <1>2. /\ running /\ OnTheWay
        /\ IsDocument(scratch) /\ IsDocument(Current.value) /\ Current.path \in Path
        /\ Current.op = "replace" /\ Allowed(scratch, Current) = Rfc(scratch, Current)
    BY <1>1, CurrentIs
  <1>3. Allowed(scratch, Current) = RfcReplace(scratch, Current.path, Current.value)
    BY <1>2 DEF Rfc, RfcReplace
  <1> DEFINE r == replaceAtPointer(scratch, Current.path, Current.value)
             n == NodeCount(Current.value)
  <1>4. Does(r, Allowed(scratch, Current))
    BY <1>2, <1>3, ReplaceDoes
  <1>5. IF Affordable(n) THEN Finish(r, n) ELSE Refuse("ResourceLimit")
    BY DEF Replace
  <1> HIDE DEF r, n
  <1> QED
    BY <1>2, <1>4, <1>5, FinishDoes, LimitStops

LEMMA TestStep == ASSUME DocInv, Test PROVE Goes \/ Stops
  <1>1. Applying("test")
    BY DEF Test
  <1>2. /\ running /\ OnTheWay
        /\ IsDocument(scratch) /\ Current.path \in Path
        /\ Current.op = "test" /\ Allowed(scratch, Current) = Rfc(scratch, Current)
    BY <1>1, CurrentIs
  <1> DEFINE found == resolvePatchTokens(scratch, Current.path, Len(Current.path))
             p == found.path
             L == Locations(scratch, Current.path)
             S == Allowed(scratch, Current)
  <1>3. S = {scratch : q \in {y \in L : At(scratch, y) = Current.value}}
    BY <1>2 DEF Rfc
  <1>4. Finds(found, L)
    BY <1>2, PointerFinds
  <1>5. IF found.code # "Ok" THEN Refuse(found.code)
        ELSE IF At(scratch, p) # Current.value THEN Refuse("TestFailed")
        ELSE Advance(scratch, 0)
    BY DEF Test
  <1> HIDE DEF found, L, S
  <1>6. CASE found.code # "Ok"
    <2>1. S = {}
      BY <1>3, <1>4, <1>6 DEF Finds
    <2>2. Refuse(found.code)
      BY <1>5, <1>6
    <2> QED
      BY <1>2, <1>6, <2>1, <2>2, RefuseStops DEF S
  <1>7. CASE found.code = "Ok" /\ At(scratch, p) # Current.value
    <2>1. L = {p}
      BY <1>4, <1>7 DEF Finds
    <2>2. S = {}
      BY <1>3, <1>7, <2>1
    <2>3. Refuse("TestFailed")
      BY <1>5, <1>7
    <2> QED
      BY <1>2, <2>2, <2>3, RefuseStops DEF S
  <1>8. CASE found.code = "Ok" /\ At(scratch, p) = Current.value
    <2>1. L = {p}
      BY <1>4, <1>8 DEF Finds
    <2>2. S = {scratch}
      BY <1>3, <1>8, <2>1
    <2>3. Advance(scratch, 0)
      BY <1>5, <1>8
    <2> QED
      BY <1>2, <2>2, <2>3, AdvanceGoes DEF S
  <1> QED
    BY <1>6, <1>7, <1>8

LEMMA CopyStep == ASSUME DocInv, CopyOp PROVE Goes \/ Stops
  <1>1. Applying("copy")
    BY DEF CopyOp
  <1>2. /\ running /\ OnTheWay
        /\ IsDocument(scratch) /\ Current.path \in Path /\ Current.from \in Path
        /\ Current.op = "copy" /\ Allowed(scratch, Current) = Rfc(scratch, Current)
    BY <1>1, CurrentIs
  <1> DEFINE src == Source
             p == src.path
             x == At(scratch, p)
             L == Locations(scratch, Current.from)
             S == Allowed(scratch, Current)
             r == addAtPointer(scratch, Current.path, x)
             n == NodeCount(x)
  <1>3. S = UNION {RfcAdd(scratch, Current.path, At(scratch, q)) : q \in L}
    BY <1>2 DEF Rfc
  <1>4. Finds(src, L)
    BY <1>2, PointerFinds DEF Source
  <1>5. IF src.code # "Ok" THEN Refuse(src.code)
        ELSE IF Affordable(n) THEN Finish(r, n) ELSE Refuse("ResourceLimit")
    BY DEF CopyOp
  <1> HIDE DEF src, L, S, n, r
  <1>6. CASE src.code # "Ok"
    <2>1. S = {}
      BY <1>3, <1>4, <1>6 DEF Finds
    <2>2. Refuse(src.code)
      BY <1>5, <1>6
    <2> QED
      BY <1>2, <1>6, <2>1, <2>2, RefuseStops DEF S
  <1>7. CASE src.code = "Ok"
    <2>1. L = {p}
      BY <1>4, <1>7 DEF Finds
    <2> HIDE DEF p
    <2>2. S = RfcAdd(scratch, Current.path, x)
      BY <1>3, <2>1
    <2>3. p \in DOMAIN scratch
      BY <1>2, <2>1, LocationLength DEF L
    <2>4. IsDocument(x)
      BY <1>2, <2>3, AtDocument
    <2> HIDE DEF x
    <2>5. Does(r, Allowed(scratch, Current))
      BY <1>2, <2>2, <2>4, AddDoes DEF r, S
    <2> QED
      BY <1>2, <1>5, <1>7, <2>5, FinishDoes, LimitStops
  <1> QED
    BY <1>6, <1>7

LEMMA MoveStep == ASSUME DocInv, Move PROVE Goes \/ Stops
  <1>1. Applying("move")
    BY DEF Move
  <1>2. /\ running /\ OnTheWay
        /\ IsDocument(scratch) /\ Current.path \in Path /\ Current.from \in Path
        /\ Current.op = "move" /\ Allowed(scratch, Current) = Rfc(scratch, Current)
    BY <1>1, CurrentIs
  <1> DEFINE src == Source
             p == src.path
             x == At(scratch, p)
             from == Current.from
             path == Current.path
             L == Locations(scratch, from)
             S == Allowed(scratch, Current)
             left == detachAtPointer(scratch, from)
             r == addAtPointer(left.tree, path, x)
  <1>3. S = RfcMove(scratch, from, path)
    BY <1>2 DEF Rfc, RfcMove
  <1>4. Finds(src, L)
    BY <1>2, PointerFinds DEF Source
  <1>5. IF src.code # "Ok" THEN Refuse(src.code)
        ELSE IF from = path THEN Advance(scratch, 0)
        ELSE IF from = <<>> THEN Refuse("MoveRootNotAllowed")
        ELSE IF isProperPointerAncestor(from, path) THEN Refuse("MoveIntoDescendant")
        ELSE IF left.code # "Ok" THEN Refuse(left.code)
        ELSE Finish(r, 0)
    BY DEF Move
  <1>6. from \in Path /\ path \in Path
    BY <1>2
  <1>7. Does(left, RfcRemove(scratch, from))
    BY <1>2, DetachDoes
  <1> HIDE DEF src, from, path, left, r, S
  <1>8. CASE src.code # "Ok"
    <2>1. S = {}
      BY <1>3, <1>4, <1>8 DEF Finds, RfcMove
    <2>2. Refuse(src.code)
      BY <1>5, <1>8
    <2> QED
      BY <1>2, <1>8, <2>1, <2>2, RefuseStops DEF S
  <1>9. CASE src.code = "Ok" /\ from = path
    <2>1. L # {}
      BY <1>4, <1>9 DEF Finds
    <2>2. RfcMove(scratch, from, from) = {scratch}
      BY <1>2, <1>6, <2>1, MoveNowhere
    <2>3. S = {scratch} /\ Advance(scratch, 0)
      BY <1>3, <1>5, <1>9, <2>2
    <2> QED
      BY <1>2, <2>3, AdvanceGoes DEF S
  <1>10. CASE src.code = "Ok" /\ from # path /\ from = <<>>
    <2>1. isProperPointerAncestor(from, path)
      <3>1. Len(path) \in Nat \ {0} /\ Len(<<>>) = 0
        BY <1>6, <1>10, EmptySeq DEF Path
      <3>2. Inside(path, <<>>)
        <4>1. PICK e \in Path : e = <<>>
          BY EmptySeq DEF Path
        <4>2. Len(e) = 0
          BY <3>1, <4>1
        <4>3. Inside(path, e)
          <5>1. Len(e) <= Len(path) /\ \A n \in 1..Len(e) : path[n] = e[n]
            BY <3>1, <4>2
          <5> QED
            BY <1>6, <5>1, InsideSlots
        <4> QED
          BY <4>1, <4>3
      <3> QED
        BY <1>10, <3>1, <3>2 DEF isProperPointerAncestor, Inside
    <2>2. S = {} /\ Refuse("MoveRootNotAllowed")
      BY <1>3, <1>5, <1>10, <2>1 DEF RfcMove
    <2> QED
      BY <1>2, <2>2, RefuseStops DEF S
  <1>11. CASE src.code = "Ok" /\ from # path /\ from # <<>> /\ isProperPointerAncestor(from, path)
    <2>1. S = {} /\ Refuse("MoveIntoDescendant")
      BY <1>3, <1>5, <1>11 DEF RfcMove
    <2> QED
      BY <1>2, <2>1, RefuseStops DEF S
  <1>12. CASE src.code = "Ok" /\ from # path /\ from # <<>> /\ ~isProperPointerAncestor(from, path)
    <2>1. L = {p}
      BY <1>4, <1>12 DEF Finds
    <2> HIDE DEF p
    <2>2. S = UNION {RfcAdd(u, path, At(scratch, q)) : q \in L, u \in RfcRemove(scratch, from)}
      BY <1>3, <1>12 DEF RfcMove
    <2>3. CASE left.code # "Ok"
      <3>1. RfcRemove(scratch, from) = {}
        BY <1>7, <2>3 DEF Does
      <3>2. S = {} /\ Refuse(left.code)
        BY <1>5, <1>12, <2>2, <2>3, <3>1
      <3> QED
        BY <1>2, <2>3, <3>2, RefuseStops DEF S
    <2>4. CASE left.code = "Ok"
      <3> DEFINE v == left.tree
      <3>1. RfcRemove(scratch, from) = {v} /\ IsDocument(v)
        BY <1>7, <2>4 DEF Does
      <3>2. S = RfcAdd(v, path, x)
        <4> HIDE DEF L, v
        <4> QED
          BY <2>1, <2>2, <3>1
      <3>3. p \in DOMAIN scratch
        BY <1>2, <1>6, <2>1, LocationLength
      <3>4. IsDocument(x)
        BY <1>2, <3>3, AtDocument
      <3> HIDE DEF x
      <3>5. Does(r, S)
        <4>1. Does(addAtPointer(v, path, x), RfcAdd(v, path, x))
          <5> HIDE DEF v
          <5> QED
            BY <1>6, <3>1, <3>4, AddDoes
        <4> QED
          BY <3>2, <4>1 DEF r
      <3>6. Finish(r, 0)
        BY <1>5, <1>12, <2>4
      <3> QED
        BY <1>2, <3>5, <3>6, FinishDoes DEF S
    <2> QED
      BY <2>3, <2>4
  <1> QED
    BY <1>8, <1>9, <1>10, <1>11, <1>12

LEMMA DocInit == Init => DocInv
  <1> SUFFICES ASSUME Init PROVE DocInv
    OBVIOUS
  <1>1. IsDocument(target)
    BY DocumentAssumption DEF Init
  <1>2. Len(patch) = 0 /\ opIndex = 0 /\ ~running
    BY EmptySeq DEF Init
  <1> QED
    BY <1>1, <1>2 DEF DocInv

\* Taking the call on.
Starts ==
    /\ ~running
    /\ target' = target /\ before' = target /\ patch' \in Patches /\ opIndex' = 0
    /\ running' => scratch' = target

\* A call that is refused before its operations are read.
Declines ==
    /\ ~running /\ ~running'
    /\ target' = target /\ patch' = patch /\ opIndex' = opIndex

\* What the steps of the program do.
LEMMA StepIs ==
    ASSUME DocInv, Next
    PROVE  Starts \/ Declines \/ Goes \/ Stops \/ Publish
  <1>1. ASSUME NEW p \in Patches, Idle, Begin(p) PROVE Starts
    BY <1>1 DEF Idle, Begin, Starts
  <1>2. CASE NotAnArray
    BY <1>2 DEF NotAnArray, Idle, Declines
  <1>3. CASE Defect
    BY <1>3, DefectStops
  <1>4. CASE Add
    BY <1>4, AddStep
  <1>5. CASE Remove
    BY <1>5, RemoveStep
  <1>6. CASE Replace
    BY <1>6, ReplaceStep
  <1>7. CASE Test
    BY <1>7, TestStep
  <1>8. CASE CopyOp
    BY <1>8, CopyStep
  <1>9. CASE Move
    BY <1>9, MoveStep
  <1>10. CASE OutOfMemory
    <2>1. Refuse("AllocationFailure")
      BY <1>10 DEF OutOfMemory
    <2> QED
      BY <2>1, RefuseStops
  <1>11. CASE Exhausted
    BY <1>11, LimitStops DEF Exhausted
  <1> QED
    BY <1>1, <1>2, <1>3, <1>4, <1>5, <1>6, <1>7, <1>8, <1>9, <1>10, <1>11 DEF Next

\* The documents the operations up to the current one may leave.
LEMMA AfterCurrent ==
    ASSUME DocInv, running, OnTheWay
    PROVE  After(opIndex + 1) = Allowed(scratch, Current)
  <1>1. opIndex \in Nat /\ Leaves(before, patch, opIndex) = {scratch}
    BY DEF DocInv, After
  <1>2. Leaves(before, patch, opIndex + 1) =
            UNION {Allowed(u, patch[opIndex + 1]) : u \in Leaves(before, patch, opIndex)}
    BY <1>1, LeavesMore
  <1>3. Leaves(before, patch, opIndex + 1) = Allowed(scratch, patch[opIndex + 1])
    <2> DEFINE A(u) == Allowed(u, patch[opIndex + 1])
    <2> HIDE DEF A
    <2>1. UNION {A(u) : u \in {scratch}} = A(scratch)
      OBVIOUS
    <2> QED
      BY <1>1, <1>2, <2>1 DEF A
  <1> QED
    BY <1>3 DEF After, Current

LEMMA DocStep == DocInv /\ [Next]_vars => DocInv'
  <1> SUFFICES ASSUME DocInv, [Next]_vars PROVE DocInv'
    OBVIOUS
  <1>1. CASE Starts
    <2>1. Len(patch') \in Nat /\ \A n \in 1..Len(patch') : IsOperation(patch'[n])
      BY <1>1, DocumentAssumption DEF Starts
    <2>2. Leaves(before', patch', 0) = {target}
      BY <1>1, LeavesNone DEF Starts
    <2>3. opIndex' = 0 /\ target' = target /\ IsDocument(target) /\ (running' => scratch' = target)
      BY <1>1 DEF Starts, DocInv
    <2> QED
      BY <2>1, <2>2, <2>3 DEF DocInv, After
  <1>2. CASE Declines
    BY <1>2 DEF Declines, DocInv
  <1>3. CASE Goes
    <2>1. After(opIndex + 1) = {scratch'}
      BY <1>3, AfterCurrent DEF Goes, DocInv
    <2>2. opIndex' = opIndex + 1 /\ After(opIndex)' = After(opIndex + 1)
      BY <1>3 DEF Goes, After
    <2>3. opIndex + 1 \in Nat /\ opIndex + 1 <= Len(patch)
      BY <1>3 DEF Goes, DocInv, OnTheWay
    <2> QED
      BY <1>3, <2>1, <2>2, <2>3 DEF Goes, DocInv
  <1>4. CASE Stops
    BY <1>4 DEF Stops, DocInv
  <1>5. CASE Publish
    BY <1>5 DEF Publish, DocInv
  <1>6. CASE UNCHANGED vars
    BY <1>6 DEF vars, DocInv, After
  <1> QED
    BY <1>1, <1>2, <1>3, <1>4, <1>5, <1>6, StepIs

-----------------------------------------------------------------------------

\* Publishing makes the target what the whole patch makes of it; every other
\* step leaves the target alone.
LEMMA AllOrNothingStep ==
    ASSUME DocInv, [Next]_vars
    PROVE  IF running /\ ~running' /\ error'.code = "Ok"
           THEN {target'} = After(Len(patch))
           ELSE target' = target
  <1>1. CASE Starts
    BY <1>1 DEF Starts
  <1>2. CASE Declines
    BY <1>2 DEF Declines
  <1>3. CASE Goes
    BY <1>3 DEF Goes
  <1>4. CASE Stops
    BY <1>4 DEF Stops
  <1>5. CASE Publish
    <2>1. running /\ ~OnTheWay /\ target' = scratch /\ ~running' /\ error'.code = "Ok"
      BY <1>5 DEF Publish, NoError
    <2>2. opIndex = Len(patch)
      BY <2>1 DEF DocInv, OnTheWay
    <2>3. After(Len(patch)) = {scratch}
      BY <2>1, <2>2 DEF DocInv
    <2> QED
      BY <2>1, <2>3
  <1>6. CASE UNCHANGED vars
    BY <1>6 DEF vars
  <1> QED
    BY <1>1, <1>2, <1>3, <1>4, <1>5, <1>6, StepIs

\* A call ends with an error at the operation RFC 6902 refuses, or at one it
\* has come to without a refusal.
LEMMA BlameStep ==
    ASSUME DocInv, [Next]_vars
    PROVE  running /\ ~running' /\ error'.code # "Ok" =>
               /\ After(error'.opIndex) # {}
               /\ error'.code \notin {"ResourceLimit", "AllocationFailure"}
                    => After(error'.opIndex + 1) = {}
  <1> SUFFICES ASSUME running, ~running', error'.code # "Ok"
               PROVE  /\ After(error'.opIndex) # {}
                      /\ error'.code \notin {"ResourceLimit", "AllocationFailure"}
                            => After(error'.opIndex + 1) = {}
    OBVIOUS
  <1>1. Stops
    <2>1. ~Starts /\ ~Declines
      BY DEF Starts, Declines
    <2>2. ~Goes
      BY DEF Goes
    <2>3. ~Publish
      BY DEF Publish, NoError
    <2>4. ~UNCHANGED vars
      BY DEF vars
    <2> QED
      BY <2>1, <2>2, <2>3, <2>4, StepIs
  <1>2. error'.opIndex = opIndex
    BY <1>1 DEF Stops
  <1>3. After(opIndex) = {scratch}
    BY DEF DocInv
  <1>4. error'.code \notin {"ResourceLimit", "AllocationFailure"} => After(opIndex + 1) = {}
    <2> SUFFICES ASSUME error'.code \notin {"ResourceLimit", "AllocationFailure"}
                 PROVE  After(opIndex + 1) = {}
      OBVIOUS
    <2>1. OnTheWay /\ Allowed(scratch, Current) = {}
      BY <1>1 DEF Stops
    <2> QED
      BY <2>1, AfterCurrent
  <1> QED
    BY <1>2, <1>3, <1>4

\* applyPatch is all or nothing: whatever the documents, the patches and the
\* limits, a call that reports success has made the target the one document
\* RFC 6902 makes of it and the whole patch, and no other step of a call
\* touches the target.
THEOREM AllOrNothingHolds == Spec => AllOrNothing
  <1>1. DocInv /\ [Next]_vars =>
            [IF running /\ ~running' /\ error'.code = "Ok"
             THEN {target'} = After(Len(patch))
             ELSE target' = target]_vars
    BY AllOrNothingStep
  <1> QED
    BY <1>1, DocInit, DocStep, PTL DEF Spec, AllOrNothing

\* The opIndex that applyPatch writes into its PatchError is that of the first
\* operation RFC 6902 refuses; when a limit or an allocation failed, RFC 6902
\* refuses none of the operations before it.
THEOREM BlamesFirstBadOperationHolds == Spec => BlamesFirstBadOperation
  <1>1. DocInv /\ [Next]_vars =>
            [running /\ ~running' /\ error'.code # "Ok" =>
                /\ After(error'.opIndex) # {}
                /\ error'.code \notin {"ResourceLimit", "AllocationFailure"}
                    => After(error'.opIndex + 1) = {}]_vars
    BY BlameStep
  <1> QED
    BY <1>1, DocInit, DocStep, PTL DEF Spec, BlamesFirstBadOperation

-----------------------------------------------------------------------------
(* The clone budget.  Every operation leaves at most the nodes it found and *)
(* those it was charged for.                                                *)

LEMMA DocumentCount ==
    ASSUME NEW t, IsDocument(t)
    PROVE  IsFiniteSet(DOMAIN t) /\ NodeCount(t) \in Nat
  BY CountType DEF IsDocument

\* addOwnedAtPointer adds the nodes of the value it is given at most.
LEMMA CountAdd ==
    ASSUME NEW t, IsFiniteSet(DOMAIN t), NEW tokens, NEW x, IsFiniteSet(DOMAIN x),
           NEW u, u = addAtPointer(t, tokens, x).tree
    PROVE  NodeCount(u) \in Nat /\ NodeCount(u) <= NodeCount(t) + NodeCount(x)
  <1> DEFINE parent == Parent(t, tokens)
             b == parent.path
             here == At(t, b)
             token == LastToken(tokens)
             p == Append(b, token)
             index == patchArrayIndex(Size(here), token, TRUE)
             spliced == Spliced(here, index.path, x)
             member == With(t, p, x)
             element == With(t, b, spliced)
  <1>1. NodeCount(t) \in Nat /\ NodeCount(x) \in Nat
    BY CountType
  <1>2. u \in {x, t, member, element}
    BY DEF addAtPointer, Result
  <1>3. /\ NodeCount(member) \in Nat /\ NodeCount(At(t, p)) \in Nat
        /\ NodeCount(member) + NodeCount(At(t, p)) <= NodeCount(t) + NodeCount(x)
    <2> HIDE DEF p
    <2> QED
      BY CountReplaced, CountType, FiniteAt
  <1>4. /\ NodeCount(element) \in Nat
        /\ NodeCount(element) <= NodeCount(t) + NodeCount(x)
    <2> HIDE DEF b, index
    <2>1. IsFiniteSet(DOMAIN here)
      BY FiniteAt
    <2> HIDE DEF here
    <2>2. IsFiniteSet(DOMAIN spliced)
      BY <2>1, FiniteSpliced
    <2>3. NodeCount(spliced) <= NodeCount(here) + NodeCount(x)
      BY <2>1, CountSpliced
    <2> HIDE DEF spliced
    <2>4. /\ NodeCount(element) \in Nat
          /\ NodeCount(element) + NodeCount(here) <= NodeCount(t) + NodeCount(spliced)
      BY <2>2, CountReplaced DEF here
    <2>5. NodeCount(here) \in Nat /\ NodeCount(spliced) \in Nat
      BY <2>1, <2>2, CountType
    <2> HIDE DEF element
    <2> QED
      BY <1>1, <2>3, <2>4, <2>5
  <1> HIDE DEF member, element, p
  <1> QED
    BY <1>1, <1>2, <1>3, <1>4

\* replaceAtPointer.
LEMMA CountReplace ==
    ASSUME NEW t, IsFiniteSet(DOMAIN t), NEW tokens, NEW x, IsFiniteSet(DOMAIN x),
           NEW u, u = replaceAtPointer(t, tokens, x).tree
    PROVE  NodeCount(u) \in Nat /\ NodeCount(u) <= NodeCount(t) + NodeCount(x)
  <1> DEFINE p == ExistingTarget(t, tokens).path
             new == With(t, p, x)
  <1>1. NodeCount(t) \in Nat /\ NodeCount(x) \in Nat
    BY CountType
  <1>2. u \in {x, t, new}
    BY DEF replaceAtPointer, Result
  <1>3. /\ NodeCount(new) \in Nat /\ NodeCount(At(t, p)) \in Nat
        /\ NodeCount(new) + NodeCount(At(t, p)) <= NodeCount(t) + NodeCount(x)
    <2> HIDE DEF p
    <2> QED
      BY CountReplaced, CountType, FiniteAt
  <1> HIDE DEF new, p
  <1> QED
    BY <1>1, <1>2, <1>3

\* A slot that goes takes its nodes along.
LEMMA CountWithout ==
    ASSUME NEW t, IsDocument(t), NEW p \in DOMAIN t, p # <<>>
    PROVE  /\ NodeCount(Without(t, p)) \in Nat /\ NodeCount(At(t, p)) \in Nat
           /\ NodeCount(Without(t, p)) + NodeCount(At(t, p)) <= NodeCount(t)
  <1> DEFINE b == Front(p)
             k == LastToken(p)
             here == At(t, b)
             e == Erased(here, k)
             u == With(t, b, e)
  <1>1. k \in Nat /\ IsDocument(here) /\ At(here, <<k>>) = At(t, p)
    BY LocationBelow
  <1>2. IsFiniteSet(DOMAIN t) /\ NodeCount(t) \in Nat
    BY DocumentCount
  <1>3. u = Without(t, p)
    BY DEF Without
  <1>4. NodeCount(here) \in Nat /\ IsFiniteSet(DOMAIN here) /\ IsTree(here)
    BY <1>1, DocumentCount, DocumentPlaces
  <1>5. NodeCount(At(t, p)) \in Nat
    BY <1>2, FiniteAt, CountType
  <1> HIDE DEF b, k
  <1>6. IsFiniteSet(DOMAIN e)
    BY <1>4, FiniteErased
  <1>7. NodeCount(e) \in Nat /\ NodeCount(e) + NodeCount(At(t, p)) <= NodeCount(here)
    <2> HIDE DEF here
    <2> QED
      BY <1>1, <1>4, CountErased
  <1>8. NodeCount(u) \in Nat /\ NodeCount(u) + NodeCount(here) <= NodeCount(t) + NodeCount(e)
    <2> HIDE DEF e
    <2> QED
      BY <1>2, <1>6, CountReplaced
  <1> HIDE DEF u, e, here
  <1> QED
    BY <1>2, <1>3, <1>4, <1>5, <1>7, <1>8

\* What detachAtPointer leaves and what it takes out are the document.
LEMMA CountDetach ==
    ASSUME NEW t, IsDocument(t), NEW tokens \in Path, tokens # <<>>,
           NEW left, left = detachAtPointer(t, tokens), left.code = "Ok",
           NEW u, u = left.tree
    PROVE  \E p \in DOMAIN t :
                /\ Locations(t, tokens) = {p} /\ IsDocument(u)
                /\ NodeCount(u) + NodeCount(At(t, p)) <= NodeCount(t)
  <1> DEFINE e == ExistingTarget(t, tokens)
             p == e.path
  <1>1. Finds(e, Locations(t, tokens))
    BY ExistingFinds
  <1>2. left = Result(e.code, IF e.code = "Ok" THEN Without(t, p) ELSE t)
    BY DEF detachAtPointer, Without
  <1> HIDE DEF e
  <1>3. e.code = "Ok" /\ u = Without(t, p)
    BY <1>2 DEF Result
  <1>4. Locations(t, tokens) = {p}
    BY <1>1, <1>3 DEF Finds
  <1>5. p \in DOMAIN t /\ p # <<>>
    BY <1>4, LocationLength
  <1> HIDE DEF p
  <1> QED
    BY <1>3, <1>4, <1>5, CountWithout, WithoutDocument

CountInv == budget \in Nat /\ CloneBudget

\* A step that finishes an operation with a tree no larger than the nodes that
\* were there and an affordable number more, charged, keeps the invariant.
LEMMA AdvanceKeeps ==
    ASSUME CountInv, running, NodeCount(scratch) \in Nat,
           NEW n \in Nat, n = 0 \/ Affordable(n),
           NEW t, NodeCount(t) \in Nat, NodeCount(t) <= NodeCount(scratch) + n, Advance(t, n)
    PROVE  CountInv'
  <1>1. budget' = budget + n /\ scratch' = t
    BY DEF Advance
  <1>2. NodeCount(scratch)' = NodeCount(t)
    BY <1>1 DEF NodeCount
  <1>3. budget \in Nat /\ budget <= maxClonedNodes /\ NodeCount(scratch) <= budget
    BY DEF CountInv, CloneBudget
  <1>4. budget + n \in Nat /\ budget + n <= maxClonedNodes
    BY <1>3, PatchAssumption DEF Affordable
  <1>5. NodeCount(t) <= budget + n
    BY <1>3
  <1> QED
    BY <1>1, <1>2, <1>4, <1>5 DEF CountInv, CloneBudget

\* So does leaving the call with an error (failPatch).
LEMMA RefuseKeeps ==
    ASSUME CountInv, NEW code, Refuse(code)
    PROVE  CountInv'
  BY DEF CountInv, CloneBudget, Refuse

\* So does a helper's result, whether it succeeded or not.
LEMMA FinishKeeps ==
    ASSUME CountInv, running, NodeCount(scratch) \in Nat,
           NEW n \in Nat, n = 0 \/ Affordable(n),
           NEW r, Finish(r, n),
           NEW t, t = r.tree,
           r.code = "Ok" => NodeCount(t) \in Nat /\ NodeCount(t) <= NodeCount(scratch) + n
    PROVE  CountInv'
  <1>1. CASE r.code = "Ok"
    <2>1. Advance(t, n)
      BY <1>1 DEF Finish
    <2> QED
      BY <1>1, <2>1, AdvanceKeeps
  <1>2. CASE r.code # "Ok"
    <2> DEFINE code == r.code
    <2>1. Refuse(code)
      BY <1>2 DEF Finish
    <2> HIDE DEF code
    <2> QED
      BY <2>1, RefuseKeeps
  <1> QED
    BY <1>1, <1>2

\* Nothing is charged before the first call.
LEMMA CountInit == Init => CountInv
  BY PatchAssumption DEF Init, CountInv, CloneBudget

\* Operations that clone a value charge for it first.
LEMMA CountAddStep == ASSUME DocInv, CountInv, Add PROVE CountInv'
  <1> DEFINE x == Current.value
             n == NodeCount(x)
             r == addAtPointer(scratch, Current.path, x)
             t == r.tree
  <1>1. /\ running /\ IsFiniteSet(DOMAIN scratch) /\ NodeCount(scratch) \in Nat
        /\ IsFiniteSet(DOMAIN x) /\ n \in Nat
    BY CurrentIs, DocumentCount DEF Add
  <1>2. IF Affordable(n) THEN Finish(r, n) ELSE Refuse("ResourceLimit")
    BY DEF Add
  <1> HIDE DEF x
  <1>3. NodeCount(t) \in Nat /\ NodeCount(t) <= NodeCount(scratch) + n
    BY <1>1, CountAdd
  <1> HIDE DEF n, r
  <1> QED
    BY <1>1, <1>2, <1>3, FinishKeeps, RefuseKeeps

LEMMA CountReplaceStep == ASSUME DocInv, CountInv, Replace PROVE CountInv'
  <1> DEFINE x == Current.value
             n == NodeCount(x)
             r == replaceAtPointer(scratch, Current.path, x)
             t == r.tree
  <1>1. /\ running /\ IsFiniteSet(DOMAIN scratch) /\ NodeCount(scratch) \in Nat
        /\ IsFiniteSet(DOMAIN x) /\ n \in Nat
    BY CurrentIs, DocumentCount DEF Replace
  <1>2. IF Affordable(n) THEN Finish(r, n) ELSE Refuse("ResourceLimit")
    BY DEF Replace
  <1> HIDE DEF x
  <1>3. NodeCount(t) \in Nat /\ NodeCount(t) <= NodeCount(scratch) + n
    BY <1>1, CountReplace
  <1> HIDE DEF n, r
  <1> QED
    BY <1>1, <1>2, <1>3, FinishKeeps, RefuseKeeps

LEMMA CountCopyStep == ASSUME DocInv, CountInv, CopyOp PROVE CountInv'
  <1> DEFINE src == Source
             p == src.path
             x == At(scratch, p)
             n == NodeCount(x)
             r == addAtPointer(scratch, Current.path, x)
             t == r.tree
  <1>1. running /\ IsFiniteSet(DOMAIN scratch) /\ NodeCount(scratch) \in Nat
    BY CurrentIs, DocumentCount DEF CopyOp
  <1>2. IF src.code # "Ok" THEN Refuse(src.code)
        ELSE IF Affordable(n) THEN Finish(r, n) ELSE Refuse("ResourceLimit")
    BY DEF CopyOp
  <1> HIDE DEF src, p
  <1>3. IsFiniteSet(DOMAIN x) /\ n \in Nat
    BY <1>1, FiniteAt, CountType
  <1> HIDE DEF x
  <1>4. NodeCount(t) \in Nat /\ NodeCount(t) <= NodeCount(scratch) + n
    BY <1>1, <1>3, CountAdd
  <1> HIDE DEF n, r
  <1> QED
    BY <1>1, <1>2, <1>3, <1>4, FinishKeeps, RefuseKeeps

\* remove only charges for the null that takes the place of the root.
LEMMA CountRemoveStep == ASSUME DocInv, CountInv, Remove PROVE CountInv'
  <1> DEFINE tokens == Current.path
             r == detachAtPointer(scratch, tokens)
             t == r.tree
  <1>1. /\ running /\ NodeCount(scratch) \in Nat
        /\ IsDocument(scratch) /\ tokens \in Path
    BY CurrentIs, DocumentCount DEF Remove
  <1>2. CASE tokens = <<>>
    <2>1. NodeCount(Null) = 1
      BY FS_Singleton DEF NodeCount, Null, Empty, Leaf
    <2>2. (Affordable(1) /\ Advance(Null, 1)) \/ Refuse("ResourceLimit")
      BY <1>2 DEF Remove
    <2>3. 1 \in Nat /\ NodeCount(Null) \in Nat /\ NodeCount(Null) <= NodeCount(scratch) + 1
      BY <1>1, <2>1
    <2> QED
      BY <1>1, <2>2, <2>3, AdvanceKeeps, RefuseKeeps
  <1>3. CASE tokens # <<>>
    <2>1. Finish(r, 0)
      BY <1>3 DEF Remove
    <2>2. ASSUME r.code = "Ok"
          PROVE  NodeCount(t) \in Nat /\ NodeCount(t) <= NodeCount(scratch) + 0
      <3> HIDE DEF tokens
      <3>1. PICK p : /\ IsDocument(t)
                     /\ NodeCount(t) + NodeCount(At(scratch, p)) <= NodeCount(scratch)
        BY <1>1, <1>3, <2>2, CountDetach
      <3>2. IsFiniteSet(DOMAIN scratch)
        BY <1>1, DocumentCount
      <3>3. NodeCount(t) \in Nat /\ NodeCount(At(scratch, p)) \in Nat
        BY <3>1, <3>2, DocumentCount, FiniteAt, CountType
      <3> HIDE DEF t
      <3> QED
        BY <1>1, <3>1, <3>3
    <2> HIDE DEF r
    <2> QED
      BY <1>1, <2>1, <2>2, FinishKeeps
  <1> QED
    BY <1>2, <1>3

\* move takes out as much as it puts in.
LEMMA CountMoveStep == ASSUME DocInv, CountInv, Move PROVE CountInv'
  <1> DEFINE src == Source
             p == src.path
             x == At(scratch, p)
             from == Current.from
             path == Current.path
             left == detachAtPointer(scratch, from)
             v == left.tree
             r == addAtPointer(v, path, x)
             t == r.tree
  <1>1. /\ running /\ IsFiniteSet(DOMAIN scratch) /\ NodeCount(scratch) \in Nat
        /\ IsDocument(scratch) /\ from \in Path
    BY CurrentIs, DocumentCount DEF Move
  <1>2. Finds(src, Locations(scratch, from))
    BY <1>1, PointerFinds DEF Source
  <1>3. \/ \E code : Refuse(code)
        \/ Advance(scratch, 0)
        \/ src.code = "Ok" /\ from # <<>> /\ left.code = "Ok" /\ Finish(r, 0)
    BY DEF Move
  <1> HIDE DEF src, from, path
  <1>4. CASE \E code : Refuse(code)
    BY <1>4, RefuseKeeps
  <1>5. CASE Advance(scratch, 0)
    BY <1>1, <1>5, AdvanceKeeps
  <1>6. CASE src.code = "Ok" /\ from # <<>> /\ left.code = "Ok" /\ Finish(r, 0)
    <2>1. Locations(scratch, from) = {p}
      BY <1>2, <1>6 DEF Finds
    <2>2. IsDocument(v) /\ NodeCount(v) + NodeCount(x) <= NodeCount(scratch)
      <3> HIDE DEF p
      <3>1. PICK q : /\ Locations(scratch, from) = {q} /\ IsDocument(v)
                     /\ NodeCount(v) + NodeCount(At(scratch, q)) <= NodeCount(scratch)
        BY <1>1, <1>6, CountDetach
      <3>2. q = p
        BY <2>1, <3>1
      <3> QED
        BY <3>1, <3>2
    <2> HIDE DEF p
    <2>3. /\ IsFiniteSet(DOMAIN v) /\ NodeCount(v) \in Nat
          /\ IsFiniteSet(DOMAIN x) /\ NodeCount(x) \in Nat
      BY <1>1, <2>2, DocumentCount, FiniteAt, CountType
    <2> HIDE DEF x, v
    <2>4. NodeCount(t) \in Nat /\ NodeCount(t) <= NodeCount(v) + NodeCount(x)
      BY <2>3, CountAdd
    <2> HIDE DEF r
    <2>5. NodeCount(t) <= NodeCount(scratch) + 0
      <3> HIDE DEF t
      <3> QED
        BY <1>1, <2>2, <2>3, <2>4
    <2> QED
      BY <1>1, <1>6, <2>4, <2>5, FinishKeeps
  <1> QED
    BY <1>3, <1>4, <1>5, <1>6

\* The invariant is inductive where the clone is known to be a document.
LEMMA CountStep == DocInv /\ CountInv /\ [Next]_vars => CountInv'
  <1> SUFFICES ASSUME DocInv, CountInv, [Next]_vars PROVE CountInv'
    OBVIOUS
  <1>1. ASSUME Idle, NEW p \in Patches, Begin(p) PROVE CountInv'
    <2>1. NodeCount(target) \in Nat
      BY DocumentCount DEF DocInv
    <2>2. CASE Len(p) > maxOperations \/ NodeCount(target) > maxClonedNodes
      BY <1>1, <2>2, PatchAssumption DEF Begin, Idle, CountInv, CloneBudget
    <2>3. CASE ~(Len(p) > maxOperations \/ NodeCount(target) > maxClonedNodes)
      <3>1. budget' = NodeCount(target) /\ scratch' = target
        BY <1>1, <2>3 DEF Begin
      <3>2. NodeCount(scratch)' = NodeCount(target)
        BY <3>1 DEF NodeCount
      <3> QED
        BY <2>1, <2>3, <3>1, <3>2, PatchAssumption DEF CountInv, CloneBudget
    <2> QED
      BY <2>2, <2>3
  <1>2. CASE NotAnArray
    BY <1>2 DEF NotAnArray, Idle, CountInv, CloneBudget
  <1>3. CASE Defect
    BY <1>3, RefuseKeeps DEF Defect
  <1>4. CASE Add
    BY <1>4, CountAddStep
  <1>5. CASE Remove
    BY <1>5, CountRemoveStep
  <1>6. CASE Replace
    BY <1>6, CountReplaceStep
  <1>7. CASE Test
    <2>1. running /\ NodeCount(scratch) \in Nat
      BY <1>7, CurrentIs, DocumentCount DEF Test
    <2>2. Advance(scratch, 0) \/ \E code : Refuse(code)
      BY <1>7 DEF Test
    <2> QED
      BY <2>1, <2>2, AdvanceKeeps, RefuseKeeps
  <1>8. CASE CopyOp
    BY <1>8, CountCopyStep
  <1>9. CASE Move
    BY <1>9, CountMoveStep
  <1>10. CASE Publish
    BY <1>10 DEF Publish, CountInv, CloneBudget
  <1>11. CASE OutOfMemory
    BY <1>11, RefuseKeeps DEF OutOfMemory
  <1>12. CASE Exhausted
    BY <1>12, RefuseKeeps DEF Exhausted
  <1>13. CASE UNCHANGED vars
    <2>1. NodeCount(scratch)' = NodeCount(scratch)
      BY <1>13 DEF vars, NodeCount
    <2> QED
      BY <1>13, <2>1 DEF vars, CountInv, CloneBudget
  <1> QED
    BY <1>1, <1>2, <1>3, <1>4, <1>5, <1>6, <1>7, <1>8, <1>9, <1>10, <1>11, <1>12, <1>13
    DEF Next

\* However a patch copies a document into itself or moves its parts about, and
\* whatever limits the caller sets, the clone never has more nodes than the
\* call was charged, nor is it charged more than maxClonedNodes (chargePatch
\* runs before each clone of pjson_patch.cpp).
THEOREM CloneBudgetHolds == Spec => []CloneBudget
  <1>1. CountInv => CloneBudget
    BY DEF CountInv
  <1> QED
    BY <1>1, DocInit, DocStep, CountInit, CountStep, PTL DEF Spec
=============================================================================
