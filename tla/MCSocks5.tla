------------------------------ MODULE MCSocks5 ------------------------------
(* One session with any command, two packages each way. *)
EXTENDS Socks5
=============================================================================
