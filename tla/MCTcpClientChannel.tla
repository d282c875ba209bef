------------------------- MODULE MCTcpClientChannel -------------------------
(* Instances of TcpClientChannel for TLC. *)
EXTENDS TcpClientChannel

CONSTANTS f1, f2 \* two descriptors: a leaked one shows, a closed one may be reused

\* Every configuration but one: without assertions no connect succeeds at once.
TameConfigs == {c \in AllConfigs : c.asserts \/ ~c.immediate}
=============================================================================
