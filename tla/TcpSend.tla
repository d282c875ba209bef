------------------------------ MODULE TcpSend ------------------------------
(***************************************************************************)
(* The sending half of a TCP channel: send_raw, do_send and send_alone of  *)
(* tcp/tcp_channel_base.cpp, the write event of the channels, and the      *)
(* edge-triggered poller beneath (reactor/epoll_imp.cpp).                  *)
(*                                                                         *)
(* Everything runs in the channel's loop.  A package goes to the kernel at *)
(* once as far as the kernel takes it, the rest to _write_thunk, which the *)
(* next write event sends.  The poller reports a write event once each     *)
(* time the socket becomes writable again: a channel that stopped sending  *)
(* without having met EAGAIN would wait for ever.                          *)
(***************************************************************************)
EXTENDS Naturals, Sequences

CONSTANTS
  Packages, \* the packages the application sends, sequences of bytes
  Room,     \* what the kernel's send buffer holds
  MaxSent   \* bound: number of packages sent

Bytes == UNION {{p[i] : i \in 1 .. Len(p)} : p \in Packages}

ASSUME SendAssumption ==
  /\ Room \in Nat \ {0}
  /\ MaxSent \in Nat
  /\ Packages \subseteq Seq(Bytes) \ {<< >>}

VARIABLES
  writeThunk, \* _write_thunk
  pc,         \* "idle"; in do_send of "direct" (the argument of send_raw),
              \* "flush" (the thunk, from send_raw), "event" (send_alone) or
              \* "last" (send_alone, called by close)
  src,        \* what this do_send is sending
  realWrite,  \* how much of it the kernel has taken
  open,       \* _fd is valid
  reset,      \* the connection is broken: ::send fails
  kernel,     \* external: bytes in the kernel's send buffer
  nospace,    \* external: ::send met a full buffer, an edge will follow
  edge,       \* external: a write event is waiting in the poller
  sent        \* number of packages send_raw was called with

sendVars == <<writeThunk, pc, src, realWrite, open, reset, kernel, nospace, edge, sent>>

\* A connected socket is writable when it is added to the poller.
SendInit ==
  /\ writeThunk = << >>
  /\ pc = "idle"
  /\ src = << >>
  /\ realWrite = 0
  /\ open = TRUE
  /\ reset = FALSE
  /\ kernel = << >>
  /\ nospace = FALSE
  /\ edge = TRUE
  /\ sent = 0

\* pop_front(n) of a thunk; ptr() + n of a package.
From(s, n) == SubSeq(s, n + 1, Len(s))

-----------------------------------------------------------------------------
(* Calls                                                                   *)

\* send_raw with nothing buffered: send the argument itself.
SendDirect(p) ==
  /\ pc = "idle" /\ open /\ sent < MaxSent
  /\ writeThunk = << >>
  /\ pc' = "direct"
  /\ src' = p
  /\ realWrite' = 0
  /\ sent' = sent + 1
  /\ UNCHANGED <<writeThunk, open, reset, kernel, nospace, edge>>

\* push_back
Buffered(p) == writeThunk \o p

\* send_raw with bytes waiting: append, and then either return, when errno holds
\* EAGAIN (of this or of any earlier system call of the thread), or try again.
SendBuffered(p) ==
  /\ pc = "idle" /\ open /\ sent < MaxSent
  /\ writeThunk # << >>
  /\ writeThunk' = Buffered(p)
  /\ \/ pc' = "idle" /\ UNCHANGED src
     \/ pc' = "flush" /\ src' = Buffered(p)
  /\ realWrite' = 0
  /\ sent' = sent + 1
  /\ UNCHANGED <<open, reset, kernel, nospace, edge>>

\* on_sockio_write: for a write event, and after every read event too
\* (sockio_helper::action calls both).
WriteEvent ==
  /\ pc = "idle" /\ open /\ edge
  /\ edge' = FALSE
  /\ pc' = "event"
  /\ src' = writeThunk
  /\ realWrite' = 0
  /\ UNCHANGED <<writeThunk, open, reset, kernel, nospace, sent>>

AfterRead ==
  /\ pc = "idle" /\ open
  /\ pc' = "event"
  /\ src' = writeThunk
  /\ realWrite' = 0
  /\ UNCHANGED <<writeThunk, open, reset, kernel, nospace, edge, sent>>

\* close: send_alone once more, then ::close.
SendClose ==
  /\ pc = "idle" /\ open
  /\ pc' = "last"
  /\ src' = writeThunk
  /\ realWrite' = 0
  /\ UNCHANGED <<writeThunk, open, reset, kernel, nospace, edge, sent>>

-----------------------------------------------------------------------------
(* do_send: ::send until everything is sent, EAGAIN or an error            *)

Sending == pc # "idle"

\* ::send takes some of the rest.
KernelTakes ==
  /\ Sending /\ ~reset
  /\ realWrite < Len(src)
  /\ \E n \in 1 .. Len(src) - realWrite :
       /\ Len(kernel) + n <= Room
       /\ kernel' = kernel \o SubSeq(src, realWrite + 1, realWrite + n)
       /\ realWrite' = realWrite + n
  /\ UNCHANGED <<writeThunk, pc, src, open, reset, nospace, edge, sent>>

\* Mutant: the bytes the kernel has taken are not popped.
ThunkUnpopped == IF pc = "direct" THEN From(src, realWrite) ELSE writeThunk

\* What is buffered after do_send: the rest of the argument, or what is left of
\* the thunk.
ThunkAfter == IF pc = "direct" THEN From(src, realWrite) ELSE From(writeThunk, realWrite)

\* Mutant: the count of bytes sent outlives the call.
ReturnKeepsCount ==
  /\ writeThunk' = ThunkAfter
  /\ open' = (pc # "last")
  /\ pc' = "idle"
  /\ src' = << >>
  /\ UNCHANGED <<realWrite, reset, kernel, sent>>

\* do_send is through; close closes the socket whatever is left.
Return ==
  /\ writeThunk' = ThunkAfter
  /\ open' = (pc # "last")
  /\ pc' = "idle"
  /\ src' = << >>
  /\ realWrite' = 0
  /\ UNCHANGED <<reset, kernel, sent>>

SentAll ==
  /\ Sending /\ realWrite = Len(src)
  /\ Return
  /\ UNCHANGED <<nospace, edge>>

\* Mutant: do_send gives up after one short ::send.
ShortSend == realWrite > 0 \/ Len(kernel) = Room

\* The kernel has no room at all.
Full == Len(kernel) = Room

\* ::send fails with EAGAIN.
WouldBlock ==
  /\ Sending /\ ~reset
  /\ realWrite < Len(src)
  /\ Full
  /\ Return
  /\ nospace' = (Len(kernel) = Room)
  /\ UNCHANGED edge

\* ::send fails for good: send_raw returns the error, on_sockio_write calls
\* on_error, and the application closes the channel or not; close closes it.
Failed ==
  /\ Sending /\ reset
  /\ realWrite < Len(src)
  /\ open' \in {FALSE, pc # "last"}
  /\ pc' = "idle"
  /\ src' = << >>
  /\ realWrite' = 0
  /\ UNCHANGED <<writeThunk, reset, kernel, nospace, edge, sent>>

-----------------------------------------------------------------------------
(* The peer and the kernel (external)                                      *)

\* The peer takes bytes; a buffer that was found full becomes writable.
PeerTakes ==
  /\ kernel # << >> /\ ~reset
  /\ kernel' = Tail(kernel)
  /\ nospace' = FALSE
  /\ edge' = (edge \/ (nospace /\ open))
  /\ UNCHANGED <<writeThunk, pc, src, realWrite, open, reset, sent>>

\* The connection breaks: what is on its way is gone, an event is raised.
PeerResets ==
  /\ ~reset
  /\ reset' = TRUE
  /\ kernel' = << >>
  /\ edge' = (edge \/ open)
  /\ UNCHANGED <<writeThunk, pc, src, realWrite, open, nospace, sent>>

-----------------------------------------------------------------------------
(* The specification                                                       *)

DoSend == KernelTakes \/ SentAll \/ WouldBlock \/ Failed

SendNext ==
  \/ \E p \in Packages : SendDirect(p)
  \/ \E p \in Packages : SendBuffered(p)
  \/ WriteEvent
  \/ AfterRead
  \/ SendClose
  \/ KernelTakes
  \/ SentAll
  \/ WouldBlock
  \/ Failed
  \/ PeerTakes
  \/ PeerResets

SendSpec == SendInit /\ [][SendNext]_sendVars

\* The loop polls, do_send runs to its end, and the peer keeps reading.
SendFairSpec == SendSpec /\ SF_sendVars(WriteEvent) /\ WF_sendVars(DoSend) /\ WF_sendVars(PeerTakes)

-----------------------------------------------------------------------------
(* Properties                                                              *)

SendTypeOK ==
  /\ writeThunk \in Seq(Bytes)
  /\ pc \in {"idle", "direct", "flush", "event", "last"}
  /\ src \in Seq(Bytes)
  /\ realWrite \in 0 .. Len(src)
  /\ open \in BOOLEAN /\ reset \in BOOLEAN
  /\ kernel \in Seq(Bytes)
  /\ nospace \in BOOLEAN /\ edge \in BOOLEAN
  /\ sent \in 0 .. MaxSent

\* Bytes never wait in _write_thunk without a write event to come: either one is
\* pending or the socket was found full and the next free byte raises one.  In
\* edge-triggered mode this is all that keeps the channel alive
\* (tcp_channel_base.cpp:65-88, epoll_imp.cpp:106-109).
BufferedIsArmed ==
  pc = "idle" /\ open /\ ~reset /\ writeThunk # << >> => edge \/ (nospace /\ kernel # << >>)

\* Everything that is accepted leaves the channel while the connection lives.
Drains == (writeThunk # << >>) ~> (writeThunk = << >> \/ ~open \/ reset)

\* The bytes that were accepted and that the peer has not taken yet, in order.
Pending ==
  LET rest == IF pc = "direct" THEN From(src, realWrite) ELSE From(writeThunk, realWrite)
  IN  IF reset THEN << >> ELSE IF open THEN kernel \o rest ELSE kernel

Stream == INSTANCE ByteStream WITH pipe <- Pending, open <- open /\ ~reset

\* The channel is the stream that ByteStream describes.
ImplementsStream == Stream!Spec
=============================================================================
