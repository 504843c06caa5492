---------------------------- MODULE DomRefineMC ----------------------------
(* DomRefine on small sets of nodes, allocators and member names.          *)
EXTENDS DomRefine, TLC

CONSTANTS r1, r2, n1, n2, n3, a1, a2

\* Nothing tells two free pool nodes, two roots or two allocators apart.
Interchangeable ==
    Permutations(Pool) \cup Permutations(Roots) \cup Permutations(Allocs)
=============================================================================
