----------------------------- MODULE MCTcpRecv -----------------------------
(* Instances of TcpRecv for TLC. *)
EXTENDS TcpRecv

\* A polite peer gets one, two or three of these into a ::recv of 4 bytes; an
\* impolite one cuts them anywhere and needs up to three ::recv.
FivePackages == <<1, 2, 1, 3, 2>>
=============================================================================
