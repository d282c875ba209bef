---------------------------- MODULE MCServerLoop ----------------------------
(* Instances of ServerLoop for TLC: see MCServerLoop.cfg. *)
EXTENDS ServerLoop
=============================================================================
