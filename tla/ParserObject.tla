---------------------------- MODULE ParserObject ----------------------------
(***************************************************************************)
(* The life of pJsonParser objects (pjsonlib/src/pjson_parser.cpp): a      *)
(* parser owns a heap object with a copy of its options, or owns nothing   *)
(* once it was moved from.                                                 *)
(***************************************************************************)
EXTENDS Naturals, FiniteSets

CONSTANTS
    Parsers,         \* places a parser can live in
    Impls,           \* heap objects there can be
    Configurations,  \* pairs of options and an allocator
    Defaults         \* the default options with the default allocator

VARIABLES
    impl,   \* the _impl of each parser, NullPtr, or Unborn
    heap,   \* the configuration a heap object holds, or Free
    used    \* the configuration of the latest parse

objectVars == <<impl, heap, used>>

Free == "free"
NullPtr == "nullptr"
Unborn == "unborn"

Alive(p) == impl[p] # Unborn
Holds(p) == impl[p] \notin {Unborn, NullPtr}

\* effectiveOptions and effectiveAllocator.
Effective(p) == IF Holds(p) THEN heap[impl[p]] ELSE Defaults

Deleted(p) == IF Holds(p) THEN [heap EXCEPT ![impl[p]] = Free] ELSE heap

-----------------------------------------------------------------------------
(* The operations.  Every new may throw, which leaves all as it was.        *)

Construct(p, c) ==
    /\ ~Alive(p)
    /\ \E i \in Impls : /\ heap[i] = Free
                        /\ heap' = [heap EXCEPT ![i] = c]
                        /\ impl' = [impl EXCEPT ![p] = i]
    /\ UNCHANGED used

Destroy(p) ==
    /\ Alive(p)
    /\ heap' = Deleted(p)
    /\ impl' = [impl EXCEPT ![p] = Unborn]
    /\ UNCHANGED used

CopyConstruct(p, from) == Alive(from) /\ Construct(p, Effective(from))

MoveConstruct(p, from) ==
    /\ ~Alive(p) /\ Alive(from)
    /\ impl' = [impl EXCEPT ![p] = impl[from], ![from] = NullPtr]
    /\ UNCHANGED <<heap, used>>

\* operator=(const pJsonParser&): the copy is made before anything is deleted.
CopyAssign(p, from) ==
    /\ Alive(p) /\ Alive(from)
    /\ \/ p = from /\ UNCHANGED <<impl, heap>>
       \/ /\ p # from
          /\ \E i \in Impls : /\ heap[i] = Free
                              /\ heap' = [Deleted(p) EXCEPT ![i] = Effective(from)]
                              /\ impl' = [impl EXCEPT ![p] = i]
    /\ UNCHANGED used

\* Mutant: the moved-from parser keeps its pointer.
MoveAssign_Shares(p, from) ==
    /\ Alive(p) /\ Alive(from) /\ p # from
    /\ heap' = Deleted(p)
    /\ impl' = [impl EXCEPT ![p] = impl[from]]
    /\ UNCHANGED used

\* operator=(pJsonParser&&)
MoveAssign(p, from) ==
    /\ Alive(p) /\ Alive(from)
    /\ \/ p = from /\ UNCHANGED <<impl, heap>>
       \/ /\ p # from
          /\ heap' = Deleted(p)
          /\ impl' = [impl EXCEPT ![p] = impl[from], ![from] = NullPtr]
    /\ UNCHANGED used

\* parse, parseStream, parseSax and parseSaxStream.
Parse(p) ==
    /\ Alive(p)
    /\ used' = Effective(p)
    /\ UNCHANGED <<impl, heap>>

ObjectInit ==
    /\ impl = [p \in Parsers |-> Unborn]
    /\ heap = [i \in Impls |-> Free]
    /\ used = Defaults

ObjectNext ==
    \E p \in Parsers :
        \/ \E c \in Configurations : Construct(p, c)
        \/ Destroy(p)
        \/ Parse(p)
        \/ \E from \in Parsers : \/ CopyConstruct(p, from) \/ MoveConstruct(p, from)
                                 \/ CopyAssign(p, from) \/ MoveAssign(p, from)

-----------------------------------------------------------------------------
(* Properties.                                                              *)

\* What the callers see of a parser: nothing, or its configuration.
Values == INSTANCE ParserValues WITH
    shown <- [p \in Parsers |-> IF Alive(p) THEN <<Effective(p)>> ELSE <<>>]

\* Every heap object has one owner and nothing else is on the heap.
OwnedOnce ==
    /\ \A p \in Parsers : Holds(p) => heap[impl[p]] # Free
    /\ \A i \in Impls : heap[i] # Free => Cardinality({p \in Parsers : impl[p] = i}) = 1

\* Parsers are values that a move leaves usable with the defaults, as
\* pjson_parser.h promises, whatever order objects are copied, moved, assigned
\* to themselves and destroyed in; and no configuration leaks, is deleted twice
\* or is shared (pjson_parser.cpp, the pJsonParser constructors and operator=).
ParsersAreValues == Values!Init /\ [][Values!Next /\ OwnedOnce']_objectVars
=============================================================================
