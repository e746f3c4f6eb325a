--------------------------- MODULE MCVasIfHandler ---------------------------
(* Instance of VasIfHandler for TLC. *)
EXTENDS VasIfHandler, TLC

CONSTANTS m1, m2, m3, p1, p2, f1, f2

\* Events, producers and PFS threads are interchangeable.  Symmetry is used in
\* runs that check invariants only.
Symmetry == Permutations(Messages) \cup Permutations(Producers) \cup Permutations(Pfs)
=============================================================================
