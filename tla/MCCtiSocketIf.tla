--------------------------- MODULE MCCtiSocketIf ----------------------------
(* Instance of CtiSocketIf for TLC. *)
EXTENDS CtiSocketIf
=============================================================================
