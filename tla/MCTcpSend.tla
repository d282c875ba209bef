----------------------------- MODULE MCTcpSend -----------------------------
(* Instances of TcpSend for TLC. *)
EXTENDS TcpSend

CONSTANTS b1, b2, b3

\* One package of one byte and one of two: some fit the kernel's buffer, some do
\* not, and every byte is recognisable.
MCPackages == {<<b1>>, <<b2, b3>>}
=============================================================================
