----------------------------- MODULE ByteStream -----------------------------
(***************************************************************************)
(* What the sending half of a TCP channel promises: the bytes of the       *)
(* packages it accepts reach the peer in order, none lost, none twice,     *)
(* none invented, until the channel is closed; what a close cuts off is a  *)
(* tail.  TcpSend implements this.                                         *)
(***************************************************************************)
EXTENDS Naturals, Sequences

CONSTANT
  Packages \* the packages that may be sent, sequences of bytes

VARIABLES
  pipe, \* accepted, and not yet with the peer
  open  \* the channel accepts packages

Init == pipe = << >> /\ open = TRUE

Accept(p) ==
  /\ open
  /\ pipe' = pipe \o p
  /\ UNCHANGED open

\* The peer takes what comes first.
Take ==
  /\ pipe # << >>
  /\ pipe' = Tail(pipe)
  /\ UNCHANGED open

\* The channel or its connection ends; a tail of the stream is lost, and more of
\* it may be lost later.
End ==
  /\ open' = FALSE
  /\ \E n \in 0 .. Len(pipe) : pipe' = SubSeq(pipe, 1, n)

Next == (\E p \in Packages : Accept(p)) \/ Take \/ End

Spec == Init /\ [][Next]_<<pipe, open>>
=============================================================================
