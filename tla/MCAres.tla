------------------------------- MODULE MCAres -------------------------------
(* Instances of Ares for TLC. *)
EXTENDS Ares

\* Two servers that are tried once each, or one that is tried twice.
TwoSizes == {<<2, 1>>, <<1, 2>>}
=============================================================================
