----------------------------- MODULE UdpChannel -----------------------------
(***************************************************************************)
(* A UDP channel: udp/udp_channel_base.cpp with the origin and terminal    *)
(* of udp/udp_server_channel.cpp and udp/udp_client_channel.cpp, which     *)
(* differ only in the terminal's start.                                    *)
(*                                                                         *)
(* Its loop turns through events and tasks; datagrams arrive while it      *)
(* reads, and other threads post calls to it.  Descriptors are watched     *)
(* edge triggered: an event says that something has arrived since the last *)
(* one.  The channel lives as long as its loop.                            *)
(***************************************************************************)
EXTENDS Naturals, Sequences

CONSTANTS
  Packets,   \* what peers send, each once
  Empties,   \* those of them that have no bytes
  MaxTasks   \* bound: tasks waiting in the loop's queue

ASSUME UdpAssumption == Empties \subseteq Packets /\ MaxTasks \in Nat

VARIABLES
  role,    \* "server" or "client"
  phase,   \* where the loop is: "poll", "recv" (in do_recv) or "tasks"
  state,   \* "prepare", "normal" or "release"
  bound,   \* _sockio_helper has its reactor
  fdOpen,  \* _fd is a socket
  watched, \* _sockio_helper is started
  inbox,   \* external: datagrams the socket holds
  edge,    \* external: an event is due
  thunk,   \* the datagrams whose bytes _read_thunk counts in used()
  tasks,   \* the calls posted to the loop
  sent,    \* external: datagrams sent so far
  asserts, \* assert is compiled in
  failure, \* the assertion that ended the process, or "none"
  handed,  \* history: what on_recv_pkg was given, a sequence of datagrams each time
  closed,  \* history: how often on_closed was called
  cutShort \* history: the last do_recv ended before the socket was empty

loopVars == <<phase, tasks>>
sockVars == <<fdOpen, watched, inbox, edge>>
histVars == <<handed, cutShort>>
channelVars == <<role, phase, state, bound, fdOpen, watched, inbox, edge, thunk, tasks, sent, asserts, failure,
          handed, closed, cutShort>>

UdpInit ==
  /\ role \in {"server", "client"}
  /\ phase = "poll" /\ tasks = << >>
  /\ state = "prepare" /\ bound = FALSE
  /\ fdOpen = FALSE /\ watched = FALSE /\ inbox = << >> /\ edge = FALSE
  /\ thunk = << >>
  /\ sent = {}
  /\ asserts \in BOOLEAN /\ failure = "none"
  /\ handed = << >> /\ closed = 0 /\ cutShort = FALSE

Alive == failure = "none"

Fail(what) ==
  /\ asserts /\ failure' = what
  /\ UNCHANGED <<state, bound, sockVars, closed>>

-----------------------------------------------------------------------------
(* Starting and closing, in the loop                                       *)

\* The calls left in q when stop_async_task(origin) has withdrawn the origin's own.
Withdrawn(q) == SelectSeq(q, LAMBDA k : k \notin {"start", "originClose"})

\* Mutant: set_release without its check.
AlwaysReleases == TRUE

\* set_release goes on only once.
Releases == state # "release"

\* What set_release does to the channel; q is the loop's queue.
UdpRelease(q) ==
  /\ Releases
  /\ state' = "release"
  /\ fdOpen' = FALSE /\ watched' = FALSE /\ inbox' = << >> /\ edge' = FALSE
  /\ tasks' = Withdrawn(q)
  /\ closed' = closed + 1
  /\ UNCHANGED <<bound, failure>>

\* A task that leaves the channel as it is.
Unmoved(q) == tasks' = q /\ UNCHANGED <<state, bound, sockVars, closed, failure>>

\* close in the loop.
Close(q) ==
  \/ UdpRelease(q)
  \/ ~Releases /\ tasks' = q /\ Fail("close")
  \/ ~Releases /\ ~asserts /\ Unmoved(q)

\* start in the loop: nothing unless prepared; a socket that cannot be made leaves it
\* prepared, with a helper that has its reactor; on_ready may close.
Start(q) ==
  \/ state # "prepare" /\ Unmoved(q)
  \/ state = "prepare" /\ bound /\ tasks' = q /\ Fail("reactor")
  \/ /\ state = "prepare" /\ (bound => ~asserts)
     /\ bound' = TRUE
     /\ UNCHANGED failure
     /\ \/ tasks' = q /\ UNCHANGED <<state, sockVars, closed>>
        \/ /\ state' = "normal" /\ fdOpen' = TRUE /\ watched' = TRUE
           /\ inbox' = << >> /\ edge' = FALSE
           /\ tasks' = q /\ UNCHANGED closed
        \/ state' = "release" /\ tasks' = Withdrawn(q) /\ closed' = closed + 1 /\ UNCHANGED sockVars

-----------------------------------------------------------------------------
(* Receiving                                                               *)

\* epoll_wait returns the channel's event, or none.
Poll ==
  /\ phase = "poll"
  /\ phase' = IF watched /\ edge THEN "recv" ELSE "tasks"
  /\ edge' = FALSE
  /\ UNCHANGED <<role, state, bound, fdOpen, watched, inbox, thunk, tasks, sent, asserts, failure, histVars, closed>>

\* Mutant: one recvfrom per event.
RecvOnce == "tasks"

\* Where a recvfrom that brought bytes leads: to the next one.
AfterOne == "recv"

\* recvfrom brings bytes; on_recv_pkg is given the whole thunk.  The application may
\* empty it, and may close the channel.
RecvOne ==
  /\ phase = "recv" /\ fdOpen /\ inbox # << >> /\ Head(inbox) \notin Empties
  /\ handed' = Append(handed, Append(thunk, Head(inbox)))
  /\ thunk' \in {<< >>, Append(thunk, Head(inbox))}
  /\ phase' = AfterOne
  /\ \/ UdpRelease(tasks)
     \/ inbox' = Tail(inbox) /\ UNCHANGED <<state, bound, fdOpen, watched, edge, tasks, closed, failure>>
  /\ UNCHANGED <<role, sent, asserts, cutShort>>

\* recvfrom returns 0, which ends the loop although more may have come.
RecvEmpty ==
  /\ phase = "recv" /\ fdOpen /\ inbox # << >> /\ Head(inbox) \in Empties
  /\ inbox' = Tail(inbox)
  /\ cutShort' = TRUE /\ phase' = "tasks"
  /\ UNCHANGED <<role, state, bound, fdOpen, watched, edge, thunk, tasks, sent, asserts, failure, handed, closed>>

\* recvfrom finds nothing, or a socket that on_recv_pkg has closed.
RecvDone ==
  /\ phase = "recv" /\ (~fdOpen \/ inbox = << >>)
  /\ cutShort' = FALSE /\ phase' = "tasks"
  /\ UNCHANGED <<role, state, bound, sockVars, thunk, tasks, sent, asserts, failure, handed, closed>>

\* recvfrom fails; on_error says whether to close.
RecvError ==
  /\ phase = "recv" /\ fdOpen
  /\ cutShort' = TRUE /\ phase' = "tasks"
  /\ Close(tasks) \/ Unmoved(tasks)
  /\ UNCHANGED <<role, thunk, sent, asserts, handed>>

-----------------------------------------------------------------------------
(* Tasks                                                                   *)

\* send_async: an error of send, or of a channel that is not normal, closes.
SendAsync(q) ==
  \/ state = "normal" /\ (Close(q) \/ Unmoved(q))
  \/ state # "normal" /\ tasks' = q /\ Fail("send")
  \/ state # "normal" /\ ~asserts /\ Close(q)

RunTask ==
  /\ phase = "tasks" /\ tasks # << >>
  /\ LET q == Tail(tasks)
     IN  \/ Head(tasks) = "start" /\ Start(q)
         \/ Head(tasks) \in {"originClose", "close"} /\ Close(q)
         \/ Head(tasks) = "send" /\ SendAsync(q)
  /\ UNCHANGED <<role, phase, thunk, sent, asserts, histVars>>

TasksEnd ==
  /\ phase = "tasks" /\ tasks = << >>
  /\ phase' = "poll"
  /\ UNCHANGED <<role, state, bound, sockVars, thunk, tasks, sent, asserts, failure, histVars, closed>>

-----------------------------------------------------------------------------
(* Other threads, and the network                                          *)

\* udp_server and udp_client with threads of their own start the channel in the loop.
StartInLoop ==
  /\ phase = "poll" /\ ~bound
  /\ Start(tasks)
  /\ UNCHANGED <<role, phase, thunk, sent, asserts, histVars>>

\* The terminal's start reaches the origin of a server only; the origin posts itself
\* if it is prepared.  The handlers' close, called on the origin, and the terminal's
\* close and send post themselves.
Post(call) ==
  /\ phase # "tasks" /\ Len(tasks) < MaxTasks
  /\ call \in {"start", "originClose", "close", "send"}
  /\ call = "start" => role = "server" /\ state = "prepare"
  /\ tasks' = Append(tasks, call)
  /\ UNCHANGED <<role, phase, state, bound, sockVars, thunk, sent, asserts, failure, histVars, closed>>

Arrive(d) ==
  /\ fdOpen /\ d \in Packets \ sent
  /\ sent' = sent \cup {d}
  /\ inbox' = Append(inbox, d)
  /\ edge' = watched
  /\ UNCHANGED <<role, loopVars, state, bound, fdOpen, watched, thunk, asserts, failure, histVars, closed>>

-----------------------------------------------------------------------------
UdpNext ==
  /\ Alive
  /\ \/ Poll \/ RecvOne \/ RecvEmpty \/ RecvDone \/ RecvError
     \/ RunTask \/ TasksEnd \/ StartInLoop
     \/ \E call \in {"start", "originClose", "close", "send"} : Post(call)
     \/ \E d \in Packets : Arrive(d)

UdpSpec == UdpInit /\ [][UdpNext]_channelVars

-----------------------------------------------------------------------------
(* Properties                                                              *)

UdpTypeOK ==
  /\ role \in {"server", "client"} /\ phase \in {"poll", "recv", "tasks"}
  /\ state \in {"prepare", "normal", "release"}
  /\ bound \in BOOLEAN /\ fdOpen \in BOOLEAN /\ watched \in BOOLEAN /\ edge \in BOOLEAN
  /\ inbox \in Seq(Packets) /\ thunk \in Seq(Packets) /\ handed \in Seq(Seq(Packets))
  /\ tasks \in Seq({"start", "originClose", "close", "send"})
  /\ sent \subseteq Packets
  /\ asserts \in BOOLEAN /\ failure \in {"none", "close", "reactor", "send"}
  /\ closed \in Nat /\ cutShort \in BOOLEAN

\* However many closes, errors and failing sends meet, on_closed is called once, and
\* the socket and its registration go with it (udp_server_channel.cpp, set_release).
ClosedOnce ==
  /\ closed = (IF state = "release" THEN 1 ELSE 0)
  /\ fdOpen <=> state = "normal"
  /\ watched <=> state = "normal"

\* What has arrived is never left in the socket without an event due, but after an
\* empty datagram or an error has ended do_recv early (udp_channel_base.cpp:230).
NothingStranded == inbox # << >> /\ phase # "recv" => edge \/ cutShort

\* on_recv_pkg is called with one complete package (udp_client_channel.cpp:57).
\* It is not: the thunk still counts the datagrams before.
PackageIsComplete == \A i \in 1 .. Len(handed) : Len(handed[i]) = 1
=============================================================================
