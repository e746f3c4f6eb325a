----------------------------- MODULE MCCtiQueue -----------------------------
(* Instance of CtiQueue for TLC: two producers, as a VAS queue has with two  *)
(* CTI servers; the CTI queue itself has one.                               *)
EXTENDS CtiQueue

CONSTANTS p1, p2, m1, m2
=============================================================================
