---------------------------- MODULE MCUdpChannel ----------------------------
(* Instances of UdpChannel for TLC: see the two .cfg files. *)
EXTENDS UdpChannel

CONSTANTS d1, d2, e1
=============================================================================
