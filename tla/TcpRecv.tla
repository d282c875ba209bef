------------------------------ MODULE TcpRecv ------------------------------
(***************************************************************************)
(* The receiving half of a TCP channel: do_recv of tcp_channel_base.cpp,   *)
(* on_recv_buff of tcp_client_channel.cpp and tcp_server_channel.cpp, and  *)
(* the edge-triggered read event.                                          *)
(*                                                                         *)
(* The peer's stream is the bytes 1, 2, ... Total, cut into packages; a    *)
(* byte in a buffer is its place in the stream, or Junk when nobody ever   *)
(* wrote it.  The application's on_recv_split recognises the first byte of *)
(* a package and knows the package's length.                               *)
(***************************************************************************)
EXTENDS Naturals, Sequences

CONSTANTS
  Lengths,  \* the lengths of the packages the peer sends, in order
  RecvSize, \* DEFAULT_ONCERECV_SIZE: what one ::recv may return
  Polite,   \* the values polite may have
  Junk      \* a byte of the buffer that was never written

ASSUME RecvAssumption ==
  /\ Lengths \in Seq(Nat \ {0})
  /\ RecvSize \in Nat \ {0}
  /\ Polite \subseteq BOOLEAN
  /\ Junk \notin Nat

\* Where package k begins; the end of the last one for k = Len(Lengths) + 1.
First[k \in 1 .. Len(Lengths) + 1] == IF k = 1 THEN 1 ELSE First[k - 1] + Lengths[k - 1]

Total == First[Len(Lengths) + 1] - 1

Heads == {First[k] : k \in 1 .. Len(Lengths)}

\* The bytes of package k.
Package(k) == [i \in 1 .. Lengths[k] |-> First[k] + i - 1]

\* The package that begins with byte b.
PackageFrom(b) == CHOOSE k \in 1 .. Len(Lengths) : First[k] = b

VARIABLES
  polite,     \* external: the peer sends whole packages, no more than RecvSize
              \* bytes, and waits until the channel has read them
  arrived,    \* external: bytes 1 .. arrived have reached the kernel
  taken,      \* external: bytes 1 .. taken have been read by ::recv
  peerClosed, \* external: the peer has closed after what it has sent
  broken,     \* external: the connection is broken, ::recv fails
  readable,   \* external: a read event is waiting in the poller
  normal,     \* is_normal, and _fd is valid
  at,         \* "idle", "recv" (::recv loop), "split" (on_recv_buff's loop),
              \* "pkg" (in on_recv_pkg), "finish" (back in do_recv)
  buf,        \* what _read_thunk holds
  realRead,   \* real_read: bytes read by this turn of do_recv
  size,       \* size: bytes on_recv_buff has popped
  package,    \* the package on_recv_pkg is called with
  sawClose,   \* peer_close
  expect,     \* history: the next package of the stream
  closeTold   \* history: on_error(CEC_CLOSE_BY_PEER) was called

recvVars == <<polite, arrived, taken, peerClosed, broken, readable, normal, at, buf, realRead, size, package,
          sawClose, expect, closeTold>>

RecvInit ==
  /\ polite \in Polite
  /\ arrived = 0 /\ taken = 0 /\ peerClosed = FALSE /\ broken = FALSE /\ readable = FALSE
  /\ normal = TRUE
  /\ at = "idle"
  /\ buf = << >>
  /\ realRead = 0
  /\ size = 0
  /\ package = << >>
  /\ sawClose = FALSE
  /\ expect = 1
  /\ closeTold = FALSE

-----------------------------------------------------------------------------
(* The peer (external)                                                     *)

\* A polite peer sends whole packages that fit one ::recv, and not before the
\* channel has dealt with the last ones.
Courteous(n) ==
  /\ at = "idle" /\ ~readable /\ taken = arrived
  /\ n <= RecvSize
  /\ arrived + n + 1 \in Heads \cup {Total + 1}

Arrive(n) ==
  /\ ~peerClosed /\ ~broken
  /\ arrived + n <= Total
  /\ polite => Courteous(n)
  /\ arrived' = arrived + n
  /\ readable' = TRUE
  /\ UNCHANGED <<polite, taken, peerClosed, broken, normal, at, buf, realRead, size, package, sawClose, expect, closeTold>>

PeerCloses ==
  /\ ~peerClosed /\ ~broken
  /\ peerClosed' = TRUE
  /\ readable' = TRUE
  /\ UNCHANGED <<polite, arrived, taken, broken, normal, at, buf, realRead, size, package, sawClose, expect, closeTold>>

\* The connection breaks: what the kernel still holds is gone.
PeerBreaks ==
  /\ ~broken
  /\ broken' = TRUE
  /\ arrived' = taken
  /\ readable' = TRUE
  /\ UNCHANGED <<polite, taken, peerClosed, normal, at, buf, realRead, size, package, sawClose, expect, closeTold>>

-----------------------------------------------------------------------------
(* do_recv                                                                 *)

\* on_sockio_read
ReadEvent ==
  /\ at = "idle" /\ normal /\ readable
  /\ readable' = FALSE
  /\ at' = "recv"
  /\ realRead' = 0
  /\ sawClose' = FALSE
  /\ UNCHANGED <<polite, arrived, taken, peerClosed, broken, normal, buf, size, package, expect, closeTold>>

\* The buffer after ::recv wrote n bytes: prepare makes room behind the bytes in
\* use, but the bytes go to ptr(), where those in use begin; incr counts them at
\* the end, over whatever lies there.
Received(n) ==
  [i \in 1 .. Len(buf) + n |->
     IF i <= n THEN taken + i ELSE IF i <= Len(buf) THEN buf[i] ELSE Junk]

\* Mutant: the size asked for is taken for the size read.
OneRecvAsked == RecvSize

\* What one ::recv returns.
OneRecv == IF arrived - taken < RecvSize THEN arrived - taken ELSE RecvSize

Recv ==
  /\ at = "recv"
  /\ taken < arrived
  /\ buf' = Received(OneRecv)
  /\ taken' = taken + OneRecv
  /\ realRead' = realRead + OneRecv
  /\ UNCHANGED <<polite, arrived, peerClosed, broken, readable, normal, at, size, package, sawClose, expect, closeTold>>

\* Something was read: on_recv_buff; nothing: do_recv is through.
AfterRecv == IF realRead > 0 THEN "split" ELSE "finish"

\* Mutant: a first read is taken for all there is.
DrainedByOne == taken = arrived \/ realRead > 0

\* The kernel holds nothing more.
Drained == taken = arrived

\* ::recv finds nothing (EAGAIN) or the end of the stream.
RecvEnd ==
  /\ at = "recv"
  /\ Drained /\ ~broken
  /\ sawClose' = peerClosed
  /\ at' = AfterRecv
  /\ size' = 0
  /\ UNCHANGED <<polite, arrived, taken, peerClosed, broken, readable, normal, buf, realRead, package, expect, closeTold>>

\* ::recv fails: do_recv returns at once, without a look at what it has read;
\* on_error decides whether the channel is closed.
RecvFails ==
  /\ at = "recv"
  /\ taken = arrived /\ broken
  /\ normal' \in BOOLEAN
  /\ at' = "idle"
  /\ UNCHANGED <<polite, arrived, taken, peerClosed, broken, readable, buf, realRead, size, package, sawClose, expect, closeTold>>

-----------------------------------------------------------------------------
(* on_recv_buff                                                            *)

AtHead == buf # << >> /\ buf[1] \in Heads

\* on_recv_split finds a complete package: on_recv_pkg gets it.
SplitPackage ==
  /\ at = "split"
  /\ AtHead
  /\ LET n == Lengths[PackageFrom(buf[1])]
     IN  n <= Len(buf) /\ package' = SubSeq(buf, 1, n)
  /\ at' = "pkg"
  /\ UNCHANGED <<polite, arrived, taken, peerClosed, broken, readable, normal, buf, realRead, size, sawClose, expect, closeTold>>

\* on_recv_split returns 0, or nothing is left: leave the loop.
SplitPartial ==
  /\ at = "split"
  /\ buf = << >> \/ (AtHead /\ Lengths[PackageFrom(buf[1])] > Len(buf))
  /\ at' = "finish"
  /\ UNCHANGED <<polite, arrived, taken, peerClosed, broken, readable, normal, buf, realRead, size, package, sawClose, expect, closeTold>>

\* The bytes begin no package: on_recv_split returns an error and on_error
\* decides whether the channel is closed.
SplitFails ==
  /\ at = "split"
  /\ buf # << >> /\ ~AtHead
  /\ normal' \in BOOLEAN
  /\ at' = "finish"
  /\ UNCHANGED <<polite, arrived, taken, peerClosed, broken, readable, buf, realRead, size, package, sawClose, expect, closeTold>>

\* Mutant: on_recv_buff handles one package per call.
AfterPackageOnce == "finish"

\* Where on_recv_buff goes after a package.
AfterPackage == "split"

\* Mutant: the package is not popped.
RestUnpopped == buf

\* What pop_front(ret) leaves.
Rest == SubSeq(buf, Len(package) + 1, Len(buf))

\* on_recv_pkg returns and its package is popped; when it closed the channel,
\* on_recv_buff returns an error and do_recv pops nothing.
EndPackage ==
  /\ at = "pkg"
  /\ buf' = Rest
  /\ package' = << >>
  /\ expect' = expect + 1
  /\ normal' \in BOOLEAN
  /\ at' = IF normal' THEN AfterPackage ELSE "finish"
  /\ size' = IF normal' THEN size + Len(package) ELSE 0
  /\ UNCHANGED <<polite, arrived, taken, peerClosed, broken, readable, realRead, sawClose, closeTold>>

\* Back in do_recv: pop_front of all that on_recv_buff popped itself.  Then the
\* peer's close is reported, and on_error decides whether to close.
Finish ==
  /\ at = "finish"
  /\ buf' = IF size >= Len(buf) /\ size > 0 THEN << >> ELSE SubSeq(buf, size + 1, Len(buf))
  /\ at' = "idle"
  /\ IF sawClose /\ normal
       THEN closeTold' = TRUE /\ normal' \in BOOLEAN
       ELSE UNCHANGED <<polite, closeTold, normal>>
  /\ UNCHANGED <<polite, arrived, taken, peerClosed, broken, readable, realRead, size, package, sawClose, expect>>

-----------------------------------------------------------------------------
(* The specification                                                       *)

RecvNext ==
  \/ \E n \in 1 .. Total : Arrive(n)
  \/ PeerCloses
  \/ PeerBreaks
  \/ ReadEvent
  \/ Recv
  \/ RecvEnd
  \/ RecvFails
  \/ SplitPackage
  \/ SplitPartial
  \/ SplitFails
  \/ EndPackage
  \/ Finish

RecvSpec == RecvInit /\ [][RecvNext]_recvVars

-----------------------------------------------------------------------------
(* Properties                                                              *)

ThunkBytes == Nat \cup {Junk}

RecvTypeOK ==
  /\ polite \in BOOLEAN
  /\ arrived \in 0 .. Total /\ taken \in 0 .. arrived
  /\ peerClosed \in BOOLEAN /\ broken \in BOOLEAN /\ readable \in BOOLEAN /\ normal \in BOOLEAN
  /\ at \in {"idle", "recv", "split", "pkg", "finish"}
  /\ buf \in Seq(ThunkBytes)
  /\ realRead \in 0 .. Total /\ size \in Nat
  /\ package \in Seq(ThunkBytes)
  /\ sawClose \in BOOLEAN /\ closeTold \in BOOLEAN
  /\ expect \in Nat \ {0}

\* on_recv_pkg is called with the next package of the peer's stream, whole and
\* unchanged, and with nothing else (tcp_client_channel.h:55).
PackagesIntact == at = "pkg" => expect <= Len(Lengths) /\ package = Package(expect)

\* So it is with a polite peer, whatever packages share one ::recv and whatever
\* on_recv_pkg does (tcp_client_channel.cpp:476-512, tcp_channel_base.cpp:210-221).
PoliteIntact == polite => PackagesIntact

\* When a channel with a polite peer rests, all that has arrived has been handed
\* to on_recv_pkg: no byte waits for an event that has already been consumed
\* (tcp_channel_base.cpp:168-221, epoll_imp.cpp:106-109).
NothingLeftWaiting ==
  polite /\ at = "idle" /\ normal /\ ~readable /\ ~broken => First[expect] = arrived + 1

\* A consumed event was made full use of, whatever the peer sent and whatever
\* became of the packages: nothing is left in the kernel, and a close of the peer
\* has been told (tcp_channel_base.cpp:168-226, epoll_imp.cpp:106-109).
EventConsumed ==
  at = "idle" /\ normal /\ ~readable /\ ~broken => taken = arrived /\ (peerClosed => closeTold)

\* The bytes of an incomplete package stay in the buffer until the rest arrives.
PartialKept == [][Finish /\ normal => buf' = buf]_recvVars
=============================================================================
