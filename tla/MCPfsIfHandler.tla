--------------------------- MODULE MCPfsIfHandler ---------------------------
(* Instance of PfsIfHandler for TLC.  No symmetry: the run checks liveness. *)
EXTENDS PfsIfHandler

CONSTANTS c1, c2
=============================================================================
