--------------------------- MODULE DisposeProofs ---------------------------
(***************************************************************************)
(* The safety of teardown, for any number of threads and any forest: what  *)
(* is released, once and by whom, what the lists hold and their links.     *)
(***************************************************************************)
EXTENDS Dispose, TLAPS

TypeInv ==
    /\ kids \in [Parents -> SUBSET Nodes]
    /\ nulls \in SUBSET Nodes
    /\ disposeNext \in [Nodes \cup {NullCell} -> Nodes \cup {Nil}]
    /\ frees \in [Nodes -> Nat]
    /\ pending \in [Threads -> Nodes \cup {Nil}]
    /\ cur \in [Threads -> Parents \cup {Nil}]
    /\ todo \in [Threads -> SUBSET Nodes]
    /\ state \in [Threads -> {"live", "busy", "done"}]

\* A thread walks its own root or a node, and has nothing left to walk
\* when it walks nothing.
WalkInv ==
    \A t \in Threads :
        /\ cur[t] \in Nodes \cup {t, Nil}
        /\ state[t] = "live" => cur[t] = Nil
        /\ cur[t] = Nil => todo[t] = {}

\* A null value has no children and stays out of every list, so that the
\* storage it shares is not written.
NullInv ==
    /\ disposeNext[NullCell] = Nil
    /\ \A n \in nulls : kids[n] = {}
    /\ \A t \in Threads : pending[t] \notin nulls
    /\ \A c \in Nodes : disposeNext[c] \notin nulls

\* A node with a link is in a list.
LinkInv ==
    \A n \in Nodes : disposeNext[n] # Nil =>
        \/ \E t \in Threads : pending[t] = n
        \/ \E m \in Nodes : disposeNext[m] = n

\* OneHolder, without pairs.
HolderInv ==
    \A n \in Nodes :
        /\ frees[n] \in {0, 1}
        /\ frees[n] = 0 => \E place \in Places, x \in Parents : Held(place, x, n)
        /\ \A place \in Places, x \in Parents : Held(place, x, n) => frees[n] = 0
        /\ \A here, there \in Places, x, y \in Parents :
               Held(here, x, n) /\ Held(there, y, n) => here = there /\ x = y

DisposeInv == TypeInv /\ WalkInv /\ NullInv /\ LinkInv /\ HolderInv

-----------------------------------------------------------------------------
(* Where nodes are held.                                                    *)

LEMMA HolderInvIsOneHolder == HolderInv => OneHolder
  <1> SUFFICES ASSUME HolderInv, NEW n \in Nodes
               PROVE  LET holders == {h \in Places \X Parents : Held(h[1], h[2], n)}
                      IN  /\ frees[n] \in {0, 1}
                          /\ frees[n] = 0 <=> holders # {}
                          /\ \A g, h \in holders : g = h
    BY DEF OneHolder
  <1> DEFINE holders == {h \in Places \X Parents : Held(h[1], h[2], n)}
  <1>1. frees[n] \in {0, 1}
    BY DEF HolderInv
  <1>2. ASSUME frees[n] = 0 PROVE holders # {}
    <2>1. PICK place \in Places, x \in Parents : Held(place, x, n)
      BY <1>2 DEF HolderInv
    <2>2. <<place, x>> \in Places \X Parents /\ <<place, x>>[1] = place /\ <<place, x>>[2] = x
      OBVIOUS
    <2>3. <<place, x>> \in holders
      BY <2>1, <2>2
    <2>. QED BY <2>3
  <1>3. ASSUME holders # {} PROVE frees[n] = 0
    <2>1. PICK h \in Places \X Parents : Held(h[1], h[2], n)
      BY <1>3
    <2>2. h[1] \in Places /\ h[2] \in Parents
      OBVIOUS
    <2>. QED BY <2>1, <2>2 DEF HolderInv
  <1>4. ASSUME NEW g \in holders, NEW h \in holders PROVE g = h
    <2>1. /\ g \in Places \X Parents /\ Held(g[1], g[2], n)
          /\ h \in Places \X Parents /\ Held(h[1], h[2], n)
      OBVIOUS
    <2>2. g[1] = h[1] /\ g[2] = h[2]
      BY <2>1 DEF HolderInv
    <2>. QED BY <2>1, <2>2
  <1>. QED BY <1>1, <1>2, <1>3, <1>4

-----------------------------------------------------------------------------
(* The initial states.                                                      *)

LEMMA InitiallyDispose == Init => DisposeInv
  <1> SUFFICES ASSUME Init PROVE DisposeInv
    OBVIOUS
  <1> USE DisposeAssumption
  <1>1. PICK parent \in [Nodes -> Parents] : kids = [p \in Parents |-> {n \in Nodes : parent[n] = p}]
    BY DEF Init
  <1>2. TypeInv
    BY <1>1 DEF Init, TypeInv, Parents
  <1>3. WalkInv
    BY DEF Init, WalkInv
  <1>4. NullInv
    BY DEF Init, NullInv, Parents, Nodes
  <1>5. LinkInv
    BY DEF Init, LinkInv
  <1>6. HolderInv
    <2> SUFFICES ASSUME NEW n \in Nodes
                 PROVE  /\ frees[n] = 0
                        /\ \E place \in Places, x \in Parents : Held(place, x, n)
                        /\ \A here, there \in Places, x, y \in Parents :
                              Held(here, x, n) /\ Held(there, y, n) => here = there /\ x = y
      BY DEF HolderInv
    <2>1. frees[n] = 0
      BY DEF Init
    <2>2. n # Nil /\ \A x \in Parents : Nil # x
      BY DEF Parents
    <2>3. \A place \in Places, x \in Parents :
             Held(place, x, n) <=> place = "kids" /\ x = parent[n]
      BY <1>1, <2>2 DEF Held, Init, Places, Parents
    <2>4. "kids" \in Places /\ parent[n] \in Parents
      BY DEF Places
    <2>. QED BY <2>1, <2>3, <2>4
  <1>. QED BY <1>2, <1>3, <1>4, <1>5, <1>6 DEF DisposeInv

-----------------------------------------------------------------------------
(* The steps of a thread.                                                   *)

\* Held, for a node, at once in all its places.
LEMMA NodesAreNotNil == ASSUME NEW n \in Nodes PROVE n # Nil /\ n \notin Threads /\ n # NullCell
  BY DisposeAssumption DEF Parents

LEMMA BeginKeeps == ASSUME DisposeInv, NEW t \in Threads, Begin(t) PROVE DisposeInv'
  <1> USE DEF Set
  <1>1. TypeInv'
    BY DEF DisposeInv, TypeInv, Begin, Parents
  <1>2. WalkInv' /\ NullInv' /\ LinkInv'
    BY DisposeAssumption DEF DisposeInv, TypeInv, WalkInv, NullInv, LinkInv, Begin, Parents
  <1>3. HolderInv'
    <2>1. cur[t] = Nil /\ todo[t] = {} /\ \A u \in Threads : cur[u] # t
      BY DisposeAssumption DEF DisposeInv, WalkInv, Begin, Parents
    <2>2. ASSUME NEW n \in Nodes, NEW place \in Places, NEW x \in Parents
          PROVE  Held(place, x, n)' <=>
                    \/ place = "todo" /\ x = t /\ Held("kids", t, n)
                    \/ ~(place = "kids" /\ x = t) /\ Held(place, x, n)
      BY <2>1, NodesAreNotNil, DisposeAssumption
      DEF DisposeInv, TypeInv, Begin, Held, Places, Parents
    <2>3. "todo" \in Places /\ "kids" \in Places /\ t \in Parents /\ frees' = frees
      BY DEF Places, Parents, Begin
    <2>4. \A n \in Nodes : ~Held("todo", t, n)
      BY <2>1 DEF Held
    <2>. QED BY <2>2, <2>3, <2>4 DEF HolderInv, DisposeInv
  <1>. QED BY <1>1, <1>2, <1>3 DEF DisposeInv

LEMMA DropNullKeeps == ASSUME DisposeInv, NEW t \in Threads, DropNull(t) PROVE DisposeInv'
  <1> USE DEF Set
  <1>0. PICK c \in todo[t] \cap nulls :
            /\ frees' = [frees EXCEPT ![c] = @ + 1]
            /\ todo' = [todo EXCEPT ![t] = todo[t] \ {c}]
    BY DEF DropNull, Free
  <1>a. /\ UNCHANGED <<kids, nulls, disposeNext, family, pending, cur, state>>
        /\ state[t] = "busy" /\ cur[t] # Nil /\ c \in Nodes
    BY DEF DropNull, Walking, DisposeInv, TypeInv
  <1>1. TypeInv'
    BY <1>0, <1>a DEF DisposeInv, TypeInv
  <1>2. WalkInv' /\ NullInv' /\ LinkInv'
    BY <1>0, <1>a DEF DisposeInv, TypeInv, WalkInv, NullInv, LinkInv
  <1>3. HolderInv'
    <2>1. "todo" \in Places /\ t \in Parents /\ Held("todo", t, c)
      BY <1>0 DEF Places, Parents, Held
    <2>2. ASSUME NEW n \in Nodes, NEW place \in Places, NEW x \in Parents
          PROVE  Held(place, x, n)' <=> n # c /\ Held(place, x, n)
      <3>1. Held(place, x, n)' <=> ~(place = "todo" /\ x = t /\ n = c) /\ Held(place, x, n)
        BY <1>0, <1>a DEF DisposeInv, TypeInv, Held, Places
      <3>2. n = c /\ Held(place, x, n) => place = "todo" /\ x = t
        BY <2>1 DEF DisposeInv, HolderInv
      <3>. QED BY <3>1, <3>2
    <2>3. frees[c] = 0
      BY <1>a, <2>1 DEF DisposeInv, HolderInv
    <2>4. \A n \in Nodes : frees'[n] = IF n = c THEN 1 ELSE frees[n]
      BY <1>0, <1>a, <2>3 DEF DisposeInv, TypeInv
    <2>. QED BY <2>2, <2>4 DEF HolderInv, DisposeInv
  <1>. QED BY <1>1, <1>2, <1>3 DEF DisposeInv

LEMMA PushKeeps == ASSUME DisposeInv, NEW t \in Threads, Push(t) PROVE DisposeInv'
  <1> USE DEF Set
  <1>0. PICK c \in todo[t] \ nulls :
            /\ disposeNext' = [disposeNext EXCEPT ![c] = pending[t]]
            /\ pending' = [pending EXCEPT ![t] = c]
            /\ todo' = [todo EXCEPT ![t] = todo[t] \ {c}]
    BY DEF Push, Link
  <1>a. /\ UNCHANGED <<kids, nulls, frees, family, cur, state>>
        /\ state[t] = "busy" /\ cur[t] # Nil /\ c \in Nodes /\ c # NullCell
    BY NodesAreNotNil DEF Push, Walking, DisposeInv, TypeInv
  <1>b. "todo" \in Places /\ t \in Parents /\ Held("todo", t, c)
    BY <1>0 DEF Places, Parents, Held
  <1>c. \A place \in Places, x \in Parents : Held(place, x, c) => place = "todo" /\ x = t
    BY <1>a, <1>b DEF DisposeInv, HolderInv
  <1>d. disposeNext[c] = Nil
    BY <1>a, <1>c DEF DisposeInv, LinkInv, Held, Places, Parents
  <1>1. TypeInv'
    BY <1>0, <1>a DEF DisposeInv, TypeInv
  <1>2. WalkInv' /\ NullInv'
    BY <1>0, <1>a DEF DisposeInv, TypeInv, WalkInv, NullInv
  <1>3. LinkInv'
    <2> SUFFICES ASSUME NEW n \in Nodes, disposeNext'[n] # Nil
                 PROVE  \/ \E u \in Threads : pending'[u] = n
                        \/ \E m \in Nodes : disposeNext'[m] = n
      BY DEF LinkInv
    <2>1. /\ pending'[t] = c /\ disposeNext'[c] = pending[t]
          /\ \A u \in Threads \ {t} : pending'[u] = pending[u]
          /\ \A m \in Nodes \ {c} : disposeNext'[m] = disposeNext[m]
      BY <1>0, <1>a DEF DisposeInv, TypeInv
    <2>2. CASE n = c \/ n = pending[t]
      BY <1>a, <2>1, <2>2
    <2>3. CASE n # c /\ n # pending[t]
      <3>1. disposeNext[n] # Nil
        BY <2>1, <2>3
      <3>2. CASE \E u \in Threads : pending[u] = n
        BY <2>1, <2>3, <3>2
      <3>3. CASE \E m \in Nodes : disposeNext[m] = n
        BY <1>d, <2>1, <3>3, NodesAreNotNil
      <3>. QED BY <3>1, <3>2, <3>3 DEF DisposeInv, LinkInv
    <2>. QED BY <2>2, <2>3
  <1>4. HolderInv'
    <2>1. ASSUME NEW n \in Nodes, NEW place \in Places, NEW x \in Parents
          PROVE  Held(place, x, n)' <=>
                    \/ n = c /\ place = "pending" /\ x = t
                    \/ n = pending[t] /\ place = "link" /\ x = c
                    \/ n # c /\ n # pending[t] /\ Held(place, x, n)
      <3>1. Held(place, x, n)' <=>
                    \/ n = c /\ place = "pending" /\ x = t
                    \/ n = pending[t] /\ place = "link" /\ x = c
                    \/ /\ ~(place = "pending" /\ x = t) /\ ~(place = "link" /\ x = c)
                       /\ ~(place = "todo" /\ x = t /\ n = c)
                       /\ Held(place, x, n)
        BY <1>0, <1>a DEF DisposeInv, TypeInv, Held, Places
      <3>2. Held("pending", t, pending[t]) /\ "pending" \in Places
        BY DEF Held, Places
      <3>3. Held(place, x, n) /\ n = pending[t] => place = "pending" /\ x = t
        BY <3>2, <1>b DEF DisposeInv, HolderInv
      <3>4. Held(place, x, n) /\ place = "pending" /\ x = t => n = pending[t]
        BY DEF Held
      <3>5. ~(Held(place, x, n) /\ place = "link" /\ x = c)
        BY <1>d, NodesAreNotNil DEF Held
      <3>. QED BY <3>1, <3>3, <3>4, <3>5, <1>c
    <2>2. pending[t] # c
      BY <1>b, <1>c DEF Held, Places
    <2>3. c \in Parents /\ "pending" \in Places /\ "link" \in Places /\ frees' = frees
      BY <1>a DEF Parents, Places
    <2>4. frees[c] = 0 /\ (pending[t] \in Nodes => frees[pending[t]] = 0)
      <3>1. Held("pending", t, pending[t])
        BY DEF Held
      <3>. QED BY <3>1, <1>a, <1>b, <2>3 DEF DisposeInv, HolderInv
    <2>. QED BY <1>a, <1>b, <2>1, <2>2, <2>3, <2>4 DEF HolderInv, DisposeInv
  <1>. QED BY <1>1, <1>2, <1>3, <1>4 DEF DisposeInv

LEMMA EmptiedKeeps == ASSUME DisposeInv, NEW t \in Threads, Emptied(t) PROVE DisposeInv'
  <1> USE DEF Set
  <1> DEFINE p == cur[t]
  <1>0. /\ state[t] = "busy" /\ p # Nil /\ todo[t] = {}
        /\ kids' = [kids EXCEPT ![p] = {}]
        /\ cur' = [cur EXCEPT ![t] = Nil]
        /\ UNCHANGED <<nulls, disposeNext, family, pending, todo, state>>
    BY DEF Emptied, Walking
  <1>a. p \in Nodes \cup {t} /\ p \in Parents /\ t \in Parents
    BY <1>0 DEF DisposeInv, WalkInv, Parents
  <1>b. frees' = IF p \in Nodes THEN [frees EXCEPT ![p] = @ + 1] ELSE frees
    BY DEF Emptied, Free
  <1>1. TypeInv'
    BY <1>0, <1>a, <1>b DEF DisposeInv, TypeInv
  <1>2. WalkInv' /\ LinkInv'
    BY <1>0 DEF DisposeInv, TypeInv, WalkInv, LinkInv
  <1>3. NullInv'
    BY <1>0, <1>a DEF DisposeInv, TypeInv, NullInv, Parents
  <1>4. HolderInv'
    <2>1. Held("cur", t, p) /\ "cur" \in Places
      BY DEF Held, Places
    <2>2. ASSUME NEW n \in Nodes, NEW place \in Places, NEW x \in Parents
          PROVE  Held(place, x, n)' <=> n # p /\ Held(place, x, n)
      <3>1. \A u \in Threads \ {t} : cur[u] # p
        <4> SUFFICES ASSUME NEW u \in Threads, u # t, cur[u] = p PROVE FALSE
          OBVIOUS
        <4>1. p \in Nodes
          BY <1>a, DisposeAssumption DEF DisposeInv, WalkInv, Parents
        <4>2. Held("cur", u, p) /\ u \in Parents
          BY DEF Held, Parents
        <4>. QED BY <1>a, <2>1, <4>1, <4>2 DEF DisposeInv, HolderInv
      <3>2. place # "kids" =>
               (Held(place, x, n)' <=> ~(place = "cur" /\ x = t) /\ Held(place, x, n))
        BY <1>0, NodesAreNotNil DEF DisposeInv, TypeInv, Held, Places
      <3>3. place = "kids" => (Held(place, x, n)' <=> Held(place, x, n))
        <4>1. kids'[x] = IF x = p THEN {} ELSE kids[x]
          BY <1>0, <1>a DEF DisposeInv, TypeInv
        <4>2. x # p => ((\A u \in Threads : cur'[u] # x) <=> (\A u \in Threads : cur[u] # x))
          BY <1>0, DisposeAssumption DEF DisposeInv, TypeInv
        <4>. QED BY <4>1, <4>2 DEF Held
      <3>4. Held(place, x, n) /\ n = p => place = "cur" /\ x = t
        BY <1>a, <2>1 DEF DisposeInv, HolderInv
      <3>5. Held(place, x, n) /\ place = "cur" /\ x = t => n = p
        BY DEF Held
      <3>. QED BY <3>2, <3>3, <3>4, <3>5
    <2>3. \A n \in Nodes : frees'[n] = IF n = p THEN 1 ELSE frees[n]
      <3>1. p \in Nodes => frees[p] = 0
        BY <1>a, <2>1 DEF DisposeInv, HolderInv
      <3>. QED BY <1>b, <3>1 DEF DisposeInv, TypeInv
    <2>. QED BY <2>2, <2>3 DEF HolderInv, DisposeInv
  <1>. QED BY <1>1, <1>2, <1>3, <1>4 DEF DisposeInv

LEMMA PopKeeps == ASSUME DisposeInv, NEW t \in Threads, Pop(t) PROVE DisposeInv'
  <1> USE DEF Set
  <1> DEFINE p == pending[t]
             q == disposeNext[p]
  <1>0. state[t] = "busy" /\ cur[t] = Nil /\ p # Nil
    BY DEF Pop
  <1>a. p \in Nodes /\ p \notin nulls /\ t \in Parents /\ p \in Parents /\ p # NullCell
    BY <1>0, NodesAreNotNil DEF DisposeInv, TypeInv, NullInv, Parents
  <1>b. /\ pending' = [pending EXCEPT ![t] = q]
        /\ disposeNext' = [disposeNext EXCEPT ![p] = Nil]
        /\ cur' = [cur EXCEPT ![t] = p]
        /\ todo' = [todo EXCEPT ![t] = kids[p]]
        /\ UNCHANGED <<kids, nulls, frees, family, state>>
    BY <1>a DEF Pop, Link
  <1>c. /\ "pending" \in Places /\ "link" \in Places /\ "todo" \in Places
        /\ "kids" \in Places /\ "cur" \in Places
    BY DEF Places
  <1>d. Held("pending", t, p)
    BY DEF Held
  <1>e. \A place \in Places, x \in Parents : Held(place, x, p) => place = "pending" /\ x = t
    BY <1>a, <1>c, <1>d DEF DisposeInv, HolderInv
  <1>f. \A u \in Threads : cur[u] # p
    BY <1>c, <1>e DEF Held, Parents
  <1>1. TypeInv'
    BY <1>a, <1>b DEF DisposeInv, TypeInv
  <1>2. WalkInv' /\ NullInv'
    BY <1>0, <1>a, <1>b, NodesAreNotNil DEF DisposeInv, TypeInv, WalkInv, NullInv
  <1>3. LinkInv'
    <2> SUFFICES ASSUME NEW n \in Nodes, disposeNext'[n] # Nil
                 PROVE  \/ \E u \in Threads : pending'[u] = n
                        \/ \E m \in Nodes : disposeNext'[m] = n
      BY DEF LinkInv
    <2>1. /\ pending'[t] = q /\ disposeNext'[p] = Nil
          /\ \A u \in Threads \ {t} : pending'[u] = pending[u]
          /\ \A m \in Nodes \ {p} : disposeNext'[m] = disposeNext[m]
      BY <1>a, <1>b DEF DisposeInv, TypeInv
    <2>2. n # p /\ disposeNext[n] # Nil
      BY <2>1
    <2>3. CASE \E u \in Threads : pending[u] = n
      BY <2>1, <2>2, <2>3
    <2>4. CASE \E m \in Nodes : disposeNext[m] = n
      BY <2>1, <2>4
    <2>. QED BY <2>2, <2>3, <2>4 DEF DisposeInv, LinkInv
  <1>4. HolderInv'
    <2>1. ASSUME NEW n \in Nodes, NEW place \in Places, NEW x \in Parents
          PROVE  Held(place, x, n)' <=>
                    \/ place = "cur" /\ x = t /\ n = p
                    \/ place = "pending" /\ x = t /\ n = q
                    \/ place = "todo" /\ x = t /\ n \in kids[p]
                    \/ /\ ~(place = "pending" /\ x = t) /\ ~(place = "link" /\ x = p)
                       /\ ~(place = "kids" /\ x = p)
                       /\ Held(place, x, n)
      <3>1. place # "kids" =>
               (Held(place, x, n)' <=>
                    \/ place = "cur" /\ x = t /\ n = p
                    \/ place = "pending" /\ x = t /\ n = q
                    \/ place = "todo" /\ x = t /\ n \in kids[p]
                    \/ /\ ~(place = "pending" /\ x = t) /\ ~(place = "link" /\ x = p)
                       /\ Held(place, x, n))
        BY <1>0, <1>a, <1>b, NodesAreNotNil DEF DisposeInv, TypeInv, WalkInv, Held, Places
      <3>2. place = "kids" => (Held(place, x, n)' <=> x # p /\ Held(place, x, n))
        <4>1. x # Nil
          BY DisposeAssumption
        <4>2. (\A u \in Threads : cur'[u] # x) <=> (x # p /\ \A u \in Threads : cur[u] # x)
          BY <1>0, <1>b, <4>1 DEF DisposeInv, TypeInv
        <4>. QED BY <1>b, <4>2 DEF Held
      <3>. QED BY <3>1, <3>2
    <2>2. \A n \in Nodes : n \in kids[p] => Held("kids", p, n)
      BY <1>a, <1>f DEF Held
    <2>3. Held("link", p, q)
      BY <1>a DEF Held
    <2>4. \A n \in Nodes : Held("link", p, n) => n = q
      BY DEF Held
    <2>5. \A n \in Nodes : Held("kids", p, n) => n \in kids[p]
      BY DEF Held
    <2>6. \A n \in Nodes : Held("pending", t, n) => n = p
      BY DEF Held
    <2>7. \A n \in Nodes : ~Held("todo", t, n) /\ ~Held("cur", t, n)
      BY <1>0, NodesAreNotNil DEF DisposeInv, WalkInv, Held
    <2>8. frees' = frees
      BY <1>b
    <2>9. ASSUME NEW n \in Nodes
          PROVE  (\E place \in Places, x \in Parents : Held(place, x, n))
                    => \E place \in Places, x \in Parents : Held(place, x, n)'
      BY <1>a, <1>c, <2>1, <2>4, <2>5, <2>6
    <2>10. ASSUME NEW n \in Nodes, NEW place \in Places, NEW x \in Parents, Held(place, x, n)'
           PROVE  frees[n] = 0
      BY <1>a, <1>c, <1>d, <2>1, <2>2, <2>3, <2>10 DEF DisposeInv, HolderInv
    <2>11. ASSUME NEW n \in Nodes, NEW here \in Places, NEW there \in Places,
                  NEW x \in Parents, NEW y \in Parents,
                  Held(here, x, n)', Held(there, y, n)'
           PROVE  here = there /\ x = y
      <3>1. n = p => \A place \in Places, z \in Parents :
               Held(place, z, n)' => place = "cur" /\ z = t
        <4>1. p # q /\ p \notin kids[p]
          BY <1>a, <1>c, <1>e, <2>2, <2>3
        <4>. QED BY <1>e, <2>1, <4>1
      <3>2. n = q => \A place \in Places, z \in Parents :
               Held(place, z, n)' => place = "pending" /\ z = t
        <4>1. n = q => \A place \in Places, z \in Parents :
                 Held(place, z, n) => place = "link" /\ z = p
          BY <1>a, <1>c, <2>3 DEF DisposeInv, HolderInv
        <4>2. n = q => n # p /\ n \notin kids[p]
          BY <1>a, <1>c, <1>e, <2>2, <2>3, <4>1
        <4>. QED BY <2>1, <4>1, <4>2
      <3>3. n \in kids[p] => \A place \in Places, z \in Parents :
               Held(place, z, n)' => place = "todo" /\ z = t
        <4>1. n \in kids[p] => \A place \in Places, z \in Parents :
                 Held(place, z, n) => place = "kids" /\ z = p
          BY <1>a, <1>c, <2>2 DEF DisposeInv, HolderInv
        <4>2. n \in kids[p] => n # p /\ n # q
          BY <1>a, <1>c, <1>e, <2>2, <2>3, <4>1
        <4>. QED BY <2>1, <4>1, <4>2
      <3>4. n # p /\ n # q /\ n \notin kids[p] => Held(here, x, n) /\ Held(there, y, n)
        BY <2>1, <2>11
      <3>5. CASE n = p
        BY <2>11, <3>1, <3>5
      <3>6. CASE n = q \/ n \in kids[p]
        BY <2>11, <3>2, <3>3, <3>6
      <3>7. CASE n # p /\ n # q /\ n \notin kids[p]
        BY <3>4, <3>7 DEF DisposeInv, HolderInv
      <3>. QED BY <3>5, <3>6, <3>7
    <2>. QED BY <2>8, <2>9, <2>10, <2>11 DEF DisposeInv, HolderInv
  <1>. QED BY <1>1, <1>2, <1>3, <1>4 DEF DisposeInv

LEMMA FinishKeeps == ASSUME DisposeInv, NEW t \in Threads, Finish(t) PROVE DisposeInv'
  <1>1. UNCHANGED <<kids, nulls, disposeNext, frees, family, pending, cur, todo>>
    BY DEF Finish
  <1>2. state' = [state EXCEPT ![t] = "done"]
    BY DEF Finish, Set
  <1>3. TypeInv' /\ WalkInv'
    BY <1>1, <1>2 DEF DisposeInv, TypeInv, WalkInv
  <1>4. NullInv' /\ LinkInv'
    BY <1>1 DEF DisposeInv, NullInv, LinkInv
  <1>5. HolderInv'
    BY <1>1 DEF DisposeInv, HolderInv, Held
  <1>. QED BY <1>3, <1>4, <1>5 DEF DisposeInv

LEMMA DisposeInvIsKept == DisposeInv /\ [Next]_vars => DisposeInv'
  <1> SUFFICES ASSUME DisposeInv, [Next]_vars PROVE DisposeInv'
    OBVIOUS
  <1>1. CASE UNCHANGED vars
    BY <1>1 DEF vars, DisposeInv, TypeInv, WalkInv, NullInv, LinkInv, HolderInv, Held
  <1>2. CASE Next
    <2>1. PICK t \in Threads : Step(t)
      BY <1>2 DEF Next
    <2>. QED BY <2>1, BeginKeeps, DropNullKeeps, PushKeeps, EmptiedKeeps, PopKeeps, FinishKeeps
         DEF Step
  <1>. QED BY <1>1, <1>2

LEMMA DisposeInvHolds == Spec => []DisposeInv
  <1>1. Init /\ [][Next]_vars => []DisposeInv
    BY InitiallyDispose, DisposeInvIsKept, PTL
  <1>. QED BY <1>1, PTL DEF Spec

-----------------------------------------------------------------------------
(* What a teardown reaches, and what is left of it.                          *)

\* A node has one parent at the start, and containers only lose children.  The
\* container of what was released, and of a root whose walk is over, is empty.
FamilyInv ==
    /\ family \in [Parents -> SUBSET Nodes]
    /\ \A p, q \in Parents : \A n \in family[p] \cap family[q] : p = q
    /\ \A p \in Parents : kids[p] \subseteq family[p]
    /\ \A n \in Nodes : frees[n] # 0 => kids[n] = {}
    /\ \A t \in Threads :
        /\ state[t] = "live" => kids[t] = family[t] /\ pending[t] = Nil
        /\ state[t] # "live" /\ cur[t] # t => kids[t] = {}
        /\ state[t] = "done" => cur[t] = Nil /\ pending[t] = Nil

\* What a thread holds is below its root, the links lead to, and nothing
\* there is released before the thread begins.
OwnInv ==
    \A t \in Threads :
        /\ cur[t] \in Descendants(t) \cup {t, Nil}
        /\ todo[t] \subseteq Descendants(t)
        /\ pending[t] \in Descendants(t) \cup {Nil}
        /\ \A n \in Descendants(t) : disposeNext[n] \in Descendants(t) \cup {Nil}
        /\ state[t] = "live" => \A n \in Descendants(t) : frees[n] = 0

\* S has the nodes that t holds, and with a node those that it leads to.
Follows(t, S) ==
    /\ \A n \in Nodes :
        Held("pending", t, n) \/ Held("todo", t, n) \/ Held("cur", t, n) \/ Held("kids", t, n)
            => n \in S
    /\ \A m \in S, n \in Nodes : Held("link", m, n) \/ Held("kids", m, n) => n \in S

\* From what a thread holds it gets to whatever is not released below its root.
ReachInv ==
    \A t \in Threads : \A S \in SUBSET Nodes :
        Follows(t, S) => \A n \in Descendants(t) : frees[n] = 0 => n \in S

\* From the heads of the lists one gets to every node with a link.
ListInv ==
    \A S \in SUBSET Nodes :
        /\ \A t \in Threads : pending[t] \in S \cup {Nil}
        /\ \A m \in S : disposeNext[m] \in S \cup {Nil}
        => \A n \in Nodes : disposeNext[n] # Nil => n \in S

TeardownInv == DisposeInv /\ FamilyInv /\ OwnInv /\ ReachInv /\ ListInv

-----------------------------------------------------------------------------
(* The nodes below a root.                                                  *)

LEMMA DescendantsAreNodes == ASSUME NEW t \in Threads PROVE Descendants(t) \in SUBSET Nodes
  BY DEF Descendants

LEMMA DescendantsAreLeast ==
  ASSUME NEW t \in Threads, NEW S \in SUBSET Nodes,
         family[t] \subseteq S, \A m \in S : family[m] \subseteq S
  PROVE  Descendants(t) \subseteq S
  BY DEF Descendants

LEMMA DescendantsAreClosed ==
  ASSUME FamilyInv, NEW t \in Threads
  PROVE  family[t] \subseteq Descendants(t) /\ \A n \in Descendants(t) : family[n] \subseteq Descendants(t)
  <1>1. family[t] \subseteq Nodes
    BY DEF FamilyInv, Parents
  <1>2. ASSUME NEW n \in Descendants(t), NEW m \in family[n] PROVE m \in Descendants(t)
    <2>1. n \in Nodes /\ m \in Nodes
      BY DEF FamilyInv, Parents, Descendants
    <2>. QED BY <1>2, <2>1 DEF Descendants
  <1>. QED BY <1>1, <1>2 DEF Descendants

LEMMA DescendantHasParent ==
  ASSUME FamilyInv, NEW t \in Threads, NEW n \in Descendants(t)
  PROVE  n \in family[t] \/ \E m \in Descendants(t) : n \in family[m]
  <1> SUFFICES ASSUME n \notin family[t], \A m \in Descendants(t) : n \notin family[m]
               PROVE  FALSE
    OBVIOUS
  <1> DEFINE S == Descendants(t) \ {n}
  <1>1. S \in SUBSET Nodes
    BY DescendantsAreNodes
  <1>2. family[t] \subseteq S /\ \A m \in S : family[m] \subseteq S
    BY DescendantsAreClosed
  <1>. QED BY <1>1, <1>2, DescendantsAreLeast

LEMMA DescendantsAreApart ==
  ASSUME FamilyInv, NEW t \in Threads, NEW u \in Threads, t # u
  PROVE  Descendants(t) \cap Descendants(u) = {}
  <1> DEFINE S == Descendants(t) \ Descendants(u)
  <1>0. t \in Parents /\ u \in Parents /\ Nodes \subseteq Parents /\ t \notin Nodes /\ u \notin Nodes
    BY DisposeAssumption DEF Parents
  <1>1. S \in SUBSET Nodes
    BY DescendantsAreNodes
  <1>2. ASSUME NEW p \in S \cup {t}, NEW n \in family[p] PROVE n \notin Descendants(u)
    <2> SUFFICES ASSUME n \in Descendants(u) PROVE FALSE
      OBVIOUS
    <2>1. PICK q \in Descendants(u) \cup {u} : n \in family[q]
      BY DescendantHasParent
    <2>2. p \in Parents /\ q \in Parents
      BY <1>0, DescendantsAreNodes
    <2>3. p = q
      BY <1>2, <2>1, <2>2 DEF FamilyInv
    <2>. QED BY <1>0, <2>3, DescendantsAreNodes
  <1>3. family[t] \subseteq S /\ \A m \in S : family[m] \subseteq S
    BY <1>2, DescendantsAreClosed
  <1>4. Descendants(t) \subseteq S
    BY <1>1, <1>3, DescendantsAreLeast
  <1>. QED BY <1>4

LEMMA DescendantsStay == ASSUME family' = family, NEW t \in Threads PROVE Descendants(t)' = Descendants(t)
  BY DEF Descendants

-----------------------------------------------------------------------------
(* The initial states.                                                      *)

LEMMA InitiallyTeardown == Init => TeardownInv
  <1> SUFFICES ASSUME Init PROVE TeardownInv
    OBVIOUS
  <1> USE DisposeAssumption
  <1>1. PICK parent \in [Nodes -> Parents] : kids = [p \in Parents |-> {n \in Nodes : parent[n] = p}]
    BY DEF Init
  <1>2. family = kids /\ \A p \in Parents : kids[p] = {n \in Nodes : parent[n] = p}
    BY <1>1 DEF Init
  <1>3. FamilyInv
    BY <1>1, <1>2 DEF Init, FamilyInv, Parents
  <1>4. OwnInv
    BY DescendantsAreNodes DEF Init, OwnInv
  <1>5. ReachInv
    <2> SUFFICES ASSUME NEW t \in Threads, NEW S \in SUBSET Nodes, Follows(t, S)
                 PROVE  Descendants(t) \subseteq S
      BY DEF ReachInv
    <2>1. \A x \in Parents, n \in Nodes : n \in family[x] => Held("kids", x, n)
      BY <1>2 DEF Held, Init, Parents
    <2>2. family[t] \subseteq S /\ \A m \in S : family[m] \subseteq S
      BY <1>3, <2>1 DEF Follows, FamilyInv, Parents
    <2>. QED BY <2>2, DescendantsAreLeast
  <1>6. ListInv
    BY DEF Init, ListInv
  <1>. QED BY <1>3, <1>4, <1>5, <1>6, InitiallyDispose DEF TeardownInv

-----------------------------------------------------------------------------
(* The steps of a thread.                                                   *)

LEMMA BeginGoesOn ==
  ASSUME TeardownInv, NEW t \in Threads, Begin(t)
  PROVE  (FamilyInv /\ OwnInv /\ ReachInv /\ ListInv)'
  <1> USE DisposeAssumption DEF Set
  <1>1. /\ UNCHANGED <<kids, nulls, disposeNext, frees, family, pending>>
        /\ state' = [state EXCEPT ![t] = "busy"] /\ state[t] = "live"
        /\ cur' = [cur EXCEPT ![t] = t] /\ cur[t] = Nil
        /\ todo' = [todo EXCEPT ![t] = kids[t]] /\ todo[t] = {}
    BY DEF Begin, TeardownInv, DisposeInv, WalkInv
  <1>2. FamilyInv'
    BY <1>1 DEF TeardownInv, DisposeInv, TypeInv, FamilyInv
  <1>3. OwnInv'
    <2>1. kids[t] \subseteq Descendants(t)
      BY DescendantsAreClosed DEF TeardownInv, FamilyInv, Parents
    <2>. QED BY <1>1, <2>1, DescendantsStay DEF TeardownInv, DisposeInv, TypeInv, OwnInv
  <1>4. ReachInv'
    <2> SUFFICES ASSUME NEW u \in Threads, NEW S \in SUBSET Nodes, Follows(u, S)'
                 PROVE  \A n \in Descendants(u) : frees[n] = 0 => n \in S
      BY <1>1, DescendantsStay DEF ReachInv
    <2>1. \A m \in Nodes, n \in Nodes :
             /\ Held("link", m, n)' <=> Held("link", m, n)
             /\ Held("kids", m, n)' <=> Held("kids", m, n)
      BY <1>1, NodesAreNotNil DEF TeardownInv, DisposeInv, TypeInv, Held, Parents
    <2>2. \A n \in Nodes :
             Held("pending", u, n) \/ Held("todo", u, n) \/ Held("cur", u, n) \/ Held("kids", u, n)
               => \/ Held("pending", u, n)' \/ Held("todo", u, n)'
                  \/ Held("cur", u, n)' \/ Held("kids", u, n)'
      BY <1>1, NodesAreNotNil DEF TeardownInv, DisposeInv, TypeInv, Held, Parents
    <2>3. Follows(u, S)
      BY <2>1, <2>2 DEF Follows
    <2>. QED BY <2>3 DEF TeardownInv, ReachInv
  <1>5. ListInv'
    BY <1>1 DEF TeardownInv, ListInv
  <1>. QED BY <1>2, <1>3, <1>4, <1>5

LEMMA DropNullGoesOn ==
  ASSUME TeardownInv, NEW t \in Threads, DropNull(t)
  PROVE  (FamilyInv /\ OwnInv /\ ReachInv /\ ListInv)'
  <1> USE DisposeAssumption DEF Set
  <1>0. PICK c \in todo[t] \cap nulls :
            /\ frees' = [frees EXCEPT ![c] = @ + 1]
            /\ todo' = [todo EXCEPT ![t] = todo[t] \ {c}]
    BY DEF DropNull, Free
  <1>1. /\ UNCHANGED <<kids, nulls, disposeNext, family, pending, cur, state>>
        /\ state[t] = "busy" /\ c \in Nodes /\ kids[c] = {}
    BY DEF DropNull, Walking, TeardownInv, DisposeInv, TypeInv, NullInv
  <1>2. disposeNext[c] = Nil /\ frees[c] = 0
    <2>1. Held("todo", t, c) /\ "todo" \in Places /\ "pending" \in Places /\ "link" \in Places
      BY <1>0 DEF Held, Places
    <2>2. frees[c] = 0
      BY <1>1, <2>1 DEF TeardownInv, DisposeInv, HolderInv, Parents
    <2>. QED BY <1>0, <1>1, <2>2 DEF TeardownInv, DisposeInv, LinkInv, NullInv
  <1>3. FamilyInv'
    BY <1>0, <1>1 DEF TeardownInv, DisposeInv, TypeInv, FamilyInv
  <1>4. OwnInv'
    <2>1. c \in Descendants(t) /\ \A u \in Threads \ {t} : c \notin Descendants(u)
      BY <1>0, DescendantsAreApart DEF TeardownInv, OwnInv
    <2>2. \A u \in Threads : Descendants(u) \subseteq Nodes
      BY DescendantsAreNodes
    <2>3. \A n \in Nodes \ {c} : frees'[n] = frees[n]
      BY <1>0 DEF TeardownInv, DisposeInv, TypeInv
    <2>. QED BY <1>0, <1>1, <2>1, <2>2, <2>3, DescendantsStay DEF TeardownInv, DisposeInv, TypeInv, OwnInv
  <1>5. ReachInv'
    <2> SUFFICES ASSUME NEW u \in Threads, NEW S \in SUBSET Nodes, Follows(u, S)'
                 PROVE  \A n \in Descendants(u) : frees'[n] = 0 => n \in S
      BY <1>1, DescendantsStay DEF ReachInv
    <2> DEFINE R == S \cup {c}
    <2>1. \A m \in Nodes, n \in Nodes :
             /\ Held("link", m, n)' <=> Held("link", m, n)
             /\ Held("kids", m, n)' <=> Held("kids", m, n)
      BY <1>1 DEF Held
    <2>2. \A n \in Nodes : ~Held("link", c, n) /\ ~Held("kids", c, n)
      BY <1>1, <1>2, NodesAreNotNil DEF Held
    <2>3. \A n \in Nodes \ {c} :
             Held("pending", u, n) \/ Held("todo", u, n) \/ Held("cur", u, n) \/ Held("kids", u, n)
               => \/ Held("pending", u, n)' \/ Held("todo", u, n)'
                  \/ Held("cur", u, n)' \/ Held("kids", u, n)'
      BY <1>0, <1>1 DEF TeardownInv, DisposeInv, TypeInv, Held
    <2>4. Follows(u, R)
      BY <1>1, <2>1, <2>2, <2>3 DEF Follows
    <2>5. \A n \in Descendants(u) : frees[n] = 0 => n \in R
      BY <1>1, <2>4 DEF TeardownInv, ReachInv
    <2>6. \A n \in Nodes : frees'[n] = 0 => n # c /\ frees[n] = 0
      BY <1>0, <1>1, <1>2 DEF TeardownInv, DisposeInv, TypeInv
    <2>. QED BY <2>5, <2>6, DescendantsAreNodes
  <1>6. ListInv'
    BY <1>1 DEF TeardownInv, ListInv
  <1>. QED BY <1>3, <1>4, <1>5, <1>6

LEMMA PushGoesOn ==
  ASSUME TeardownInv, NEW t \in Threads, Push(t)
  PROVE  (FamilyInv /\ OwnInv /\ ReachInv /\ ListInv)'
  <1> USE DisposeAssumption DEF Set
  <1>0. PICK c \in todo[t] \ nulls :
            /\ disposeNext' = [disposeNext EXCEPT ![c] = pending[t]]
            /\ pending' = [pending EXCEPT ![t] = c]
            /\ todo' = [todo EXCEPT ![t] = todo[t] \ {c}]
    BY DEF Push, Link
  <1>1. /\ UNCHANGED <<kids, nulls, frees, family, cur, state>>
        /\ state[t] = "busy" /\ c \in Nodes /\ c # NullCell
    BY NodesAreNotNil DEF Push, Walking, TeardownInv, DisposeInv, TypeInv
  <1>2. disposeNext[c] = Nil
    <2>1. Held("todo", t, c) /\ "todo" \in Places /\ "pending" \in Places /\ "link" \in Places
      BY <1>0 DEF Held, Places
    <2>2. \A u \in Threads : ~Held("pending", u, c)
      BY <1>1, <2>1 DEF TeardownInv, DisposeInv, HolderInv, Parents
    <2>3. \A m \in Nodes : ~Held("link", m, c)
      BY <1>1, <2>1 DEF TeardownInv, DisposeInv, HolderInv, Parents
    <2>. QED BY <1>1, <2>2, <2>3 DEF TeardownInv, DisposeInv, LinkInv, Held
  <1>3. /\ disposeNext'[c] = pending[t] /\ pending'[t] = c
        /\ \A m \in Nodes \ {c} : disposeNext'[m] = disposeNext[m]
        /\ \A u \in Threads \ {t} : pending'[u] = pending[u]
    BY <1>0, <1>1 DEF TeardownInv, DisposeInv, TypeInv
  <1>4. FamilyInv'
    BY <1>0, <1>1 DEF TeardownInv, DisposeInv, TypeInv, FamilyInv
  <1>5. OwnInv'
    <2>1. c \in Descendants(t) /\ \A u \in Threads \ {t} : c \notin Descendants(u)
      BY <1>0, DescendantsAreApart DEF TeardownInv, OwnInv
    <2>2. \A u \in Threads : Descendants(u) \subseteq Nodes
      BY DescendantsAreNodes
    <2>3. \A u \in Threads : todo'[u] \subseteq todo[u]
      BY <1>0 DEF TeardownInv, DisposeInv, TypeInv
    <2>. QED BY <1>1, <1>3, <2>1, <2>2, <2>3, DescendantsStay DEF TeardownInv, OwnInv
  <1>6. ReachInv'
    <2> SUFFICES ASSUME NEW u \in Threads, NEW S \in SUBSET Nodes, Follows(u, S)'
                 PROVE  \A n \in Descendants(u) : frees[n] = 0 => n \in S
      BY <1>1, DescendantsStay DEF ReachInv
    <2>1. \A m \in Nodes, n \in Nodes :
             /\ Held("link", m, n) => Held("link", m, n)'
             /\ Held("kids", m, n) => Held("kids", m, n)'
      BY <1>1, <1>2, <1>3, NodesAreNotNil DEF Held
    <2>2. \A n \in Nodes :
             Held("pending", u, n) \/ Held("todo", u, n) \/ Held("cur", u, n) \/ Held("kids", u, n)
               => \/ Held("pending", u, n)' \/ Held("todo", u, n)'
                  \/ Held("cur", u, n)' \/ Held("kids", u, n)'
                  \/ u = t /\ n = pending[t]
      BY <1>0, <1>1, <1>3 DEF TeardownInv, DisposeInv, TypeInv, Held
    <2>3. Held("pending", t, c)' /\ \A n \in Nodes : n = pending[t] => Held("link", c, n)'
      BY <1>1, <1>3 DEF Held
    <2>4. u = t /\ pending[t] \in Nodes => c \in S /\ pending[t] \in S
      BY <1>1, <2>3 DEF Follows
    <2>5. Follows(u, S)
      BY <2>1, <2>2, <2>4 DEF Follows
    <2>. QED BY <2>5 DEF TeardownInv, ReachInv
  <1>7. ListInv'
    <2> SUFFICES ASSUME NEW S \in SUBSET Nodes,
                        \A u \in Threads : pending'[u] \in S \cup {Nil},
                        \A m \in S : disposeNext'[m] \in S \cup {Nil}
                 PROVE  \A n \in Nodes : disposeNext'[n] # Nil => n \in S
      BY DEF ListInv
    <2>1. c \in S
      BY <1>1, <1>3, NodesAreNotNil
    <2>2. pending[t] \in S \cup {Nil}
      BY <1>3, <2>1
    <2>3. \A u \in Threads : pending[u] \in S \cup {Nil}
      BY <1>3, <2>2
    <2>4. \A m \in S : disposeNext[m] \in S \cup {Nil}
      BY <1>2, <1>3
    <2>. QED BY <1>3, <2>1, <2>3, <2>4 DEF TeardownInv, ListInv
  <1>. QED BY <1>4, <1>5, <1>6, <1>7

LEMMA EmptiedGoesOn ==
  ASSUME TeardownInv, NEW t \in Threads, Emptied(t)
  PROVE  (FamilyInv /\ OwnInv /\ ReachInv /\ ListInv)'
  <1> USE DisposeAssumption DEF Set
  <1> DEFINE p == cur[t]
  <1>0. /\ state[t] = "busy" /\ p # Nil /\ todo[t] = {}
        /\ kids' = [kids EXCEPT ![p] = {}]
        /\ cur' = [cur EXCEPT ![t] = Nil]
        /\ UNCHANGED <<nulls, disposeNext, family, pending, todo, state>>
    BY DEF Emptied, Walking
  <1>1. p \in Nodes \cup {t} /\ p \in Parents /\ t \in Parents
    BY <1>0 DEF TeardownInv, DisposeInv, WalkInv, Parents
  <1>2. frees' = IF p \in Nodes THEN [frees EXCEPT ![p] = @ + 1] ELSE frees
    BY DEF Emptied, Free
  <1>3. p \in Nodes => disposeNext[p] = Nil /\ frees[p] = 0
    <2> SUFFICES ASSUME p \in Nodes PROVE disposeNext[p] = Nil /\ frees[p] = 0
      OBVIOUS
    <2>1. Held("cur", t, p) /\ "cur" \in Places /\ "pending" \in Places /\ "link" \in Places
      BY DEF Held, Places
    <2>2. \A u \in Threads : ~Held("pending", u, p)
      BY <2>1 DEF TeardownInv, DisposeInv, HolderInv, Parents
    <2>3. \A m \in Nodes : ~Held("link", m, p)
      BY <2>1 DEF TeardownInv, DisposeInv, HolderInv, Parents
    <2>4. frees[p] = 0
      BY <1>1, <2>1 DEF TeardownInv, DisposeInv, HolderInv
    <2>. QED BY <2>2, <2>3, <2>4 DEF TeardownInv, DisposeInv, LinkInv, Held
  <1>4. /\ \A x \in Parents : kids'[x] = IF x = p THEN {} ELSE kids[x]
        /\ \A u \in Threads : cur'[u] = IF u = t THEN Nil ELSE cur[u]
        /\ \A n \in Nodes \ {p} : frees'[n] = frees[n]
        /\ p \in Nodes => frees'[p] = 1
    BY <1>0, <1>1, <1>2, <1>3 DEF TeardownInv, DisposeInv, TypeInv
  <1>5. FamilyInv'
    <2>1. /\ family' \in [Parents -> SUBSET Nodes]
          /\ \A x, y \in Parents : \A n \in family'[x] \cap family'[y] : x = y
          /\ \A x \in Parents : kids'[x] \subseteq family'[x]
      BY <1>0, <1>4 DEF TeardownInv, FamilyInv
    <2>2. \A n \in Nodes : frees'[n] # 0 => kids'[n] = {}
      BY <1>4 DEF TeardownInv, FamilyInv, Parents
    <2>3. \A u \in Threads :
            /\ state'[u] = "live" => kids'[u] = family'[u] /\ pending'[u] = Nil
            /\ state'[u] = "done" => cur'[u] = Nil /\ pending'[u] = Nil
      BY <1>0, <1>1, <1>4 DEF TeardownInv, FamilyInv, Parents
    <2>4. ASSUME NEW u \in Threads, state'[u] # "live", cur'[u] # u PROVE kids'[u] = {}
      BY <1>0, <1>4, <2>4 DEF TeardownInv, FamilyInv, Parents
    <2>. QED BY <2>1, <2>2, <2>3, <2>4 DEF FamilyInv
  <1>6. OwnInv'
    <2>1. \A u \in Threads \ {t} : p \in Nodes => p \notin Descendants(u)
      BY DescendantsAreApart, NodesAreNotNil DEF TeardownInv, OwnInv
    <2>2. \A u \in Threads : Descendants(u) \subseteq Nodes
      BY DescendantsAreNodes
    <2>. QED BY <1>0, <1>4, <2>1, <2>2, DescendantsStay DEF TeardownInv, OwnInv
  <1>7. ReachInv'
    <2> SUFFICES ASSUME NEW u \in Threads, NEW S \in SUBSET Nodes, Follows(u, S)'
                 PROVE  \A n \in Descendants(u) : frees'[n] = 0 => n \in S
      BY <1>0, DescendantsStay DEF ReachInv
    <2> DEFINE R == S \cup ({p} \cap Nodes)
    <2>1. \A m \in Nodes, n \in Nodes : Held("link", m, n) => m # p /\ Held("link", m, n)'
      BY <1>0, <1>3, NodesAreNotNil DEF Held
    <2>2. ASSUME NEW x \in Parents, NEW n \in Nodes, Held("kids", x, n)
          PROVE  x # p /\ Held("kids", x, n)'
      BY <1>0, <1>4, <2>2 DEF Held
    <2>3. \A n \in Nodes :
             Held("pending", u, n) \/ Held("todo", u, n) \/ Held("cur", u, n)
               => Held("pending", u, n)' \/ Held("todo", u, n)' \/ Held("cur", u, n)' \/ n = p
      BY <1>0, <1>4 DEF Held
    <2>4. Follows(u, R)
      <3>1. R \in SUBSET Nodes /\ u \in Parents /\ Nodes \subseteq Parents
        BY DEF Parents
      <3>. QED BY <2>1, <2>2, <2>3, <3>1 DEF Follows
    <2>5. \A n \in Descendants(u) : frees[n] = 0 => n \in R
      BY <2>4 DEF TeardownInv, ReachInv
    <2>6. \A n \in Nodes : frees'[n] = 0 => n # p /\ frees[n] = 0
      BY <1>4
    <2>. QED BY <2>5, <2>6, DescendantsAreNodes
  <1>8. ListInv'
    BY <1>0 DEF TeardownInv, ListInv
  <1>. QED BY <1>5, <1>6, <1>7, <1>8

LEMMA PopGoesOn ==
  ASSUME TeardownInv, NEW t \in Threads, Pop(t)
  PROVE  (FamilyInv /\ OwnInv /\ ReachInv /\ ListInv)'
  <1> USE DisposeAssumption DEF Set
  <1> DEFINE p == pending[t]
             q == disposeNext[p]
  <1>0. state[t] = "busy" /\ cur[t] = Nil /\ p # Nil /\ todo[t] = {}
    BY DEF Pop, TeardownInv, DisposeInv, WalkInv
  <1>1. p \in Nodes /\ p \notin nulls /\ t \in Parents /\ p \in Parents /\ p # NullCell
    BY <1>0, NodesAreNotNil DEF TeardownInv, DisposeInv, TypeInv, NullInv, Parents
  <1>2. /\ pending' = [pending EXCEPT ![t] = q]
        /\ disposeNext' = [disposeNext EXCEPT ![p] = Nil]
        /\ cur' = [cur EXCEPT ![t] = p]
        /\ todo' = [todo EXCEPT ![t] = kids[p]]
        /\ UNCHANGED <<kids, nulls, frees, family, state>>
    BY <1>1 DEF Pop, Link
  <1>3. /\ \A u \in Threads : /\ pending'[u] = IF u = t THEN q ELSE pending[u]
                              /\ cur'[u] = IF u = t THEN p ELSE cur[u]
                              /\ todo'[u] = IF u = t THEN kids[p] ELSE todo[u]
        /\ \A m \in Nodes : disposeNext'[m] = IF m = p THEN Nil ELSE disposeNext[m]
    BY <1>1, <1>2 DEF TeardownInv, DisposeInv, TypeInv
  <1>4. FamilyInv'
    BY <1>0, <1>1, <1>2, <1>3, NodesAreNotNil DEF TeardownInv, FamilyInv
  <1>5. OwnInv'
    <2>1. p \in Descendants(t) /\ q \in Descendants(t) \cup {Nil}
      BY <1>0 DEF TeardownInv, OwnInv
    <2>2. kids[p] \subseteq Descendants(t)
      BY <1>1, <2>1, DescendantsAreClosed DEF TeardownInv, FamilyInv
    <2>3. \A u \in Threads : Descendants(u) \subseteq Nodes
      BY DescendantsAreNodes
    <2>. QED BY <1>0, <1>2, <1>3, <2>1, <2>2, <2>3, DescendantsStay DEF TeardownInv, OwnInv
  <1>6. ReachInv'
    <2> SUFFICES ASSUME NEW u \in Threads, NEW S \in SUBSET Nodes, Follows(u, S)'
                 PROVE  \A n \in Descendants(u) : frees[n] = 0 => n \in S
      BY <1>2, DescendantsStay DEF ReachInv
    <2>1. \A m \in Nodes, n \in Nodes : Held("link", m, n) /\ m # p => Held("link", m, n)'
      BY <1>3 DEF Held
    <2>2. \A x \in Parents, n \in Nodes : Held("kids", x, n) /\ x # p => Held("kids", x, n)'
      BY <1>2, <1>3 DEF Held
    <2>3. \A n \in Nodes : Held("link", p, n) => n = q
      BY DEF Held
    <2>4. \A n \in Nodes : Held("kids", p, n) => n \in kids[p]
      BY DEF Held
    <2>5. CASE u = t
      <3>1. p \in S /\ (q \in Nodes => q \in S) /\ kids[p] \subseteq S
        <4>1. kids[p] \subseteq Nodes
          BY <1>1 DEF TeardownInv, DisposeInv, TypeInv
        <4>2. \A n \in Nodes :
                 Held("pending", u, n)' \/ Held("todo", u, n)' \/ Held("cur", u, n)' => n \in S
          BY DEF Follows
        <4>3. \A n \in Nodes : n = p \/ n = q \/ n \in kids[p] => n \in S
          BY <1>3, <2>5, <4>2 DEF Held
        <4>. QED BY <1>1, <4>1, <4>3
      <3>2. \A n \in Nodes : ~Held("todo", t, n) /\ ~Held("cur", t, n) /\ (Held("pending", t, n) => n = p)
        BY <1>0, NodesAreNotNil DEF Held
      <3>3. Follows(t, S)
        <4>1. t \in Parents /\ t # p /\ Nodes \subseteq Parents
          BY <1>1, NodesAreNotNil DEF Parents
        <4>. QED BY <1>1, <2>1, <2>2, <2>3, <2>4, <2>5, <3>1, <3>2, <4>1 DEF Follows
      <3>. QED BY <2>5, <3>3 DEF TeardownInv, ReachInv
    <2>6. CASE u # t
      <3> DEFINE R == S \ {p}
      <3>1. \A place \in Places, x \in Parents : Held(place, x, p) => place = "pending" /\ x = t
        <4>1. Held("pending", t, p) /\ "pending" \in Places
          BY DEF Held, Places
        <4>. QED BY <1>1, <4>1 DEF TeardownInv, DisposeInv, HolderInv
      <3>2. /\ ~Held("pending", u, p) /\ ~Held("todo", u, p) /\ ~Held("cur", u, p) /\ ~Held("kids", u, p)
            /\ \A m \in Nodes : ~Held("link", m, p) /\ ~Held("kids", m, p)
        BY <2>6, <3>1 DEF Places, Parents
      <3>3. \A n \in Nodes :
               Held("pending", u, n) \/ Held("todo", u, n) \/ Held("cur", u, n)
                 => Held("pending", u, n)' \/ Held("todo", u, n)' \/ Held("cur", u, n)'
        BY <1>3, <2>6 DEF Held
      <3>4. u \in Parents /\ u # p /\ Nodes \subseteq Parents
        BY <1>1, NodesAreNotNil DEF Parents
      <3>5. Follows(u, R)
        BY <2>1, <2>2, <3>2, <3>3, <3>4 DEF Follows
      <3>. QED BY <3>5 DEF TeardownInv, ReachInv
    <2>. QED BY <2>5, <2>6
  <1>7. ListInv'
    <2> SUFFICES ASSUME NEW S \in SUBSET Nodes,
                        \A u \in Threads : pending'[u] \in S \cup {Nil},
                        \A m \in S : disposeNext'[m] \in S \cup {Nil}
                 PROVE  \A n \in Nodes : disposeNext'[n] # Nil => n \in S
      BY DEF ListInv
    <2> DEFINE R == S \cup {p}
    <2>1. q \in S \cup {Nil}
      BY <1>3
    <2>2. \A u \in Threads : pending[u] \in R \cup {Nil}
      BY <1>3
    <2>3. \A m \in R : disposeNext[m] \in R \cup {Nil}
      BY <1>3, <2>1
    <2>4. \A n \in Nodes : disposeNext[n] # Nil => n \in R
      <3>1. R \in SUBSET Nodes
        BY <1>1
      <3> HIDE DEF R
      <3>. QED BY <2>2, <2>3, <3>1 DEF TeardownInv, ListInv
    <2>. QED BY <1>3, <2>4
  <1>. QED BY <1>4, <1>5, <1>6, <1>7

LEMMA FinishGoesOn ==
  ASSUME TeardownInv, NEW t \in Threads, Finish(t)
  PROVE  (FamilyInv /\ OwnInv /\ ReachInv /\ ListInv)'
  <1>1. /\ UNCHANGED <<kids, nulls, disposeNext, frees, family, pending, cur, todo>>
        /\ state' = [state EXCEPT ![t] = "done"]
        /\ state[t] = "busy" /\ cur[t] = Nil /\ pending[t] = Nil
    BY DEF Finish, Set
  <1>2. \A u \in Threads : state'[u] = IF u = t THEN "done" ELSE state[u]
    BY <1>1 DEF TeardownInv, DisposeInv, TypeInv
  <1>3. FamilyInv'
    BY <1>1, <1>2 DEF TeardownInv, FamilyInv
  <1>4. OwnInv'
    BY <1>1, <1>2, DescendantsStay DEF TeardownInv, OwnInv
  <1>5. ReachInv'
    BY <1>1, DescendantsStay DEF TeardownInv, ReachInv, Follows, Held
  <1>6. ListInv'
    BY <1>1 DEF TeardownInv, ListInv
  <1>. QED BY <1>3, <1>4, <1>5, <1>6

LEMMA TeardownInvIsKept == TeardownInv /\ [Next]_vars => TeardownInv'
  <1> SUFFICES ASSUME TeardownInv, [Next]_vars PROVE TeardownInv'
    OBVIOUS
  <1>1. DisposeInv'
    BY DisposeInvIsKept DEF TeardownInv
  <1>2. CASE UNCHANGED vars
    <2>1. FamilyInv' /\ ListInv'
      BY <1>2 DEF vars, TeardownInv, FamilyInv, ListInv
    <2>2. OwnInv'
      BY <1>2, DescendantsStay DEF vars, TeardownInv, OwnInv
    <2>3. ReachInv'
      BY <1>2, DescendantsStay DEF vars, TeardownInv, ReachInv, Follows, Held
    <2>. QED BY <1>1, <2>1, <2>2, <2>3 DEF TeardownInv
  <1>3. CASE Next
    <2>1. PICK t \in Threads : Step(t)
      BY <1>3 DEF Next
    <2>2. (FamilyInv /\ OwnInv /\ ReachInv /\ ListInv)'
      BY <2>1, BeginGoesOn, DropNullGoesOn, PushGoesOn, EmptiedGoesOn, PopGoesOn, FinishGoesOn
      DEF Step
    <2>. QED BY <1>1, <2>2 DEF TeardownInv
  <1>. QED BY <1>2, <1>3

LEMMA TeardownInvHolds == Spec => []TeardownInv
  <1>1. Init /\ [][Next]_vars => []TeardownInv
    BY InitiallyTeardown, TeardownInvIsKept, PTL
  <1>. QED BY <1>1, PTL DEF Spec

-----------------------------------------------------------------------------
(* What the invariant says of the lists.                                    *)

LEMMA ListsAreLeast ==
  ASSUME NEW t \in Threads, NEW S \in SUBSET Nodes, NullInv,
         pending[t] \in S \cup {Nil}, \A m \in S : disposeNext[m] \in S \cup {Nil}
  PROVE  Listed(t) \subseteq S
  <1>1. \A m \in S : disposeNext[Link(m)] \in S \cup {Nil}
    BY DEF Link, NullInv
  <1>. QED BY <1>1 DEF Listed

LEMMA ListsAreClosed ==
  ASSUME NEW t \in Threads, TypeInv
  PROVE  /\ pending[t] \in Listed(t) \cup {Nil}
         /\ \A m \in Listed(t) : disposeNext[Link(m)] \in Listed(t) \cup {Nil}
  <1>1. pending[t] \in Listed(t) \cup {Nil}
    BY DEF Listed, TypeInv
  <1>2. ASSUME NEW m \in Listed(t), disposeNext[Link(m)] # Nil
        PROVE  disposeNext[Link(m)] \in Listed(t)
    <2>1. m \in Nodes /\ disposeNext[Link(m)] \in Nodes
      BY <1>2 DEF Listed, TypeInv, Link
    <2>. QED BY <1>2, <2>1 DEF Listed
  <1>. QED BY <1>1, <1>2

LEMMA HeldIsOwnAndLive == TeardownInv => HoldsOnlyLive
  <1> SUFFICES ASSUME TeardownInv, NEW t \in Threads
               PROVE  LET held == Listed(t) \cup todo[t] \cup ({cur[t]} \ {Nil, t})
                      IN  (\A n \in held : frees[n] = 0) /\ held \subseteq Descendants(t)
    BY DEF HoldsOnlyLive
  <1> DEFINE Live == {n \in Nodes : frees[n] = 0}
  <1>0. "pending" \in Places /\ "link" \in Places /\ "todo" \in Places /\ "cur" \in Places
        /\ t \in Parents /\ Nodes \subseteq Parents
    BY DEF Places, Parents
  <1>1. \A place \in Places, x \in Parents, n \in Nodes : Held(place, x, n) => n \in Live
    BY DEF TeardownInv, DisposeInv, HolderInv
  <1>2. pending[t] \in Live \cup {Nil}
    BY <1>0, <1>1 DEF Held, TeardownInv, DisposeInv, TypeInv
  <1>3. \A m \in Live : disposeNext[m] \in Live \cup {Nil}
    BY <1>0, <1>1 DEF Held, TeardownInv, DisposeInv, TypeInv
  <1>4. Listed(t) \subseteq Live
    BY <1>2, <1>3, ListsAreLeast DEF TeardownInv, DisposeInv
  <1>5. Listed(t) \subseteq Descendants(t)
    BY ListsAreLeast, DescendantsAreNodes DEF TeardownInv, DisposeInv, OwnInv
  <1>6. todo[t] \subseteq Live /\ {cur[t]} \ {Nil, t} \subseteq Live
    BY <1>0, <1>1 DEF Held, TeardownInv, DisposeInv, TypeInv, WalkInv
  <1>7. todo[t] \subseteq Descendants(t) /\ {cur[t]} \ {Nil, t} \subseteq Descendants(t)
    BY DEF TeardownInv, OwnInv
  <1>. QED BY <1>4, <1>5, <1>6, <1>7

LEMMA DoneReleasesAll ==
  ASSUME TeardownInv, NEW t \in Threads, state[t] = "done", NEW n \in Descendants(t)
  PROVE  frees[n] = 1
  <1>1. cur[t] = Nil /\ pending[t] = Nil /\ todo[t] = {} /\ kids[t] = {}
    BY DisposeAssumption DEF TeardownInv, FamilyInv, DisposeInv, WalkInv, Parents
  <1>2. Follows(t, {})
    BY <1>1, NodesAreNotNil DEF Follows, Held
  <1>3. n \in Nodes /\ frees[n] # 0
    BY <1>2, DescendantsAreNodes DEF TeardownInv, ReachInv
  <1>. QED BY <1>3 DEF TeardownInv, DisposeInv, HolderInv

LEMMA UnlistedHasNoLink ==
  ASSUME TeardownInv, NEW n \in Nodes, \A t \in Threads : n \notin Listed(t)
  PROVE  disposeNext[n] = Nil
  <1> DEFINE S == {m \in Nodes : \E t \in Threads : m \in Listed(t)}
  <1>1. \A t \in Threads : pending[t] \in S \cup {Nil}
    BY ListsAreClosed DEF TeardownInv, DisposeInv, TypeInv
  <1>2. ASSUME NEW m \in S, m \notin nulls PROVE disposeNext[m] \in S \cup {Nil}
    BY <1>2, ListsAreClosed DEF Link, TeardownInv, DisposeInv, TypeInv
  <1>3. ASSUME NEW m \in nulls PROVE disposeNext[m] = Nil
    <2>1. m \in Nodes /\ (\A t \in Threads : pending[t] # m) /\ \A c \in Nodes : disposeNext[c] # m
      BY DEF TeardownInv, DisposeInv, TypeInv, NullInv
    <2>. QED BY <2>1 DEF TeardownInv, DisposeInv, LinkInv
  <1>4. S \in SUBSET Nodes /\ \A m \in S : disposeNext[m] \in S \cup {Nil}
    BY <1>2, <1>3
  <1>. QED BY <1>1, <1>4 DEF TeardownInv, ListInv

-----------------------------------------------------------------------------
(* Theorems.                                                                *)

\* At every moment of every teardown, by any number of threads at once, a node is
\* reached from exactly one place until it is released, which happens once
\* (_disposeChildren).
THEOREM OneHolderHolds == Spec => []OneHolder
  <1>1. DisposeInv => OneHolder
    BY HolderInvIsOneHolder DEF DisposeInv
  <1>. QED BY <1>1, DisposeInvHolds, PTL

\* No teardown writes the storage that all null values share: null children are
\* released instead of being linked (_disposeChildren, nullImpl).
THEOREM NullStorageIsKept == Spec => []NullStorageKept
  <1>1. DisposeInv => NullStorageKept
    BY DEF DisposeInv, NullInv, NullStorageKept
  <1>. QED BY <1>1, DisposeInvHolds, PTL

\* Whatever is released has an empty container, so that no destructor descends
\* (reset, _disposeChildren).
THEOREM StackSafeHolds == Spec => StackSafe
  <1> DEFINE Safe == \A n \in Nodes : frees'[n] # frees[n] => kids'[n] = {}
  <1>1. ASSUME DisposeInv, [Next]_vars PROVE [Safe]_vars
    <2>1. CASE UNCHANGED vars
      BY <2>1
    <2>2. ASSUME NEW t \in Threads, Begin(t) \/ Push(t) \/ Pop(t) \/ Finish(t) PROVE Safe
      BY <2>2 DEF Begin, Push, Pop, Finish
    <2>3. ASSUME NEW t \in Threads, DropNull(t) PROVE Safe
      BY <1>1, <2>3 DEF DropNull, Free, DisposeInv, TypeInv, NullInv
    <2>4. ASSUME NEW t \in Threads, Emptied(t) PROVE Safe
      BY <1>1, <2>4 DEF Emptied, Free, Set, DisposeInv, TypeInv, Parents
    <2>. QED BY <1>1, <2>1, <2>2, <2>3, <2>4 DEF Next, Step
  <1>. QED BY <1>1, DisposeInvHolds, PTL DEF Spec, StackSafe

\* A teardown that is finished has released each node below its root exactly once,
\* one that has not begun none of them, and what one under way may still touch is
\* alive and belongs to no other (_disposeChildren, reset), whatever the forest and
\* however many threads tear down at once.
THEOREM AllReleasedHolds == Spec => []AllReleased
  <1>1. TeardownInv => AllReleased
    BY HolderInvIsOneHolder, HeldIsOwnAndLive, DoneReleasesAll
    DEF AllReleased, TeardownInv, DisposeInv, OwnInv
  <1>. QED BY <1>1, TeardownInvHolds, PTL

\* A link field is written only while its node is in a list, and is null again
\* when the node leaves it; that of the shared null storage is never written
\* (_disposeChildren, _disposeNext).
THEOREM LinksAreCleanHolds == Spec => []LinksAreClean
  <1>1. TeardownInv => LinksAreClean
    BY UnlistedHasNoLink DEF LinksAreClean, NullStorageKept, TeardownInv, DisposeInv, NullInv
  <1>. QED BY <1>1, TeardownInvHolds, PTL
=============================================================================
