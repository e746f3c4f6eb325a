----------------------------- MODULE MCVasExtra -----------------------------
(* Instance of VasExtra for TLC.  No symmetry: the run checks liveness. *)
EXTENDS VasExtra

CONSTANTS m1, m2, p1, p2, f1, f2
=============================================================================
