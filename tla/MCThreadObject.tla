--------------------------- MODULE MCThreadObject ---------------------------
(* Instances of ThreadObject for TLC. *)
EXTENDS ThreadObject

CONSTANTS a1, r1, r2, d1
=============================================================================
