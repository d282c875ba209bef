-------------------------- MODULE TcpClientChannel --------------------------
(***************************************************************************)
(* The connection of a TCP client channel: tcp_client_handler_origin and   *)
(* the thread hops of tcp_client_handler_terminal                          *)
(* (tcp/tcp_client_channel.cpp), with its two timers and two sockio        *)
(* helpers.  What travels over the connection is in TcpSend and TcpRecv.   *)
(*                                                                         *)
(* The handlers run one at a time in the channel's loop.  Other threads    *)
(* post their calls to the loop's task queue.  on_connected and on_closed  *)
(* are the last thing a handler does, so a call the application makes in   *)
(* them is one more handler of the loop.                                   *)
(*                                                                         *)
(* The server's address is taken to parse.  set_release is left out:       *)
(* nothing in the repository calls it for a client.                        *)
(***************************************************************************)
EXTENDS Naturals, Sequences

CONSTANTS
  Sockets,  \* the descriptors the process may get
  NoSocket, \* INVALID_SOCKET
  Configs,  \* the configurations of channel, build and system considered
  MaxTasks  \* bound: tasks waiting in the loop's queue

\* timeout:   _connect_timeout is not 0
\* retry:     _connect_retry_wait is not -1
\* asserts:   assert is compiled in (the default, Debug, build)
\* immediate: ::connect of a non-blocking socket may succeed at once
AllConfigs == [timeout : BOOLEAN, retry : BOOLEAN, asserts : BOOLEAN, immediate : BOOLEAN]

ASSUME ClientAssumption ==
  /\ NoSocket \notin Sockets
  /\ Configs \subseteq AllConfigs
  /\ MaxTasks \in Nat

VARIABLES
  config,    \* the configuration, which never changes
  objState,  \* _obj_state: "prepare" or "normal"
  connState, \* _conn_state
  connFd,    \* _conn_fd, the socket that is connecting
  fd,        \* _fd, the connected socket
  connWatch, \* the socket _sockio_helper_connect watches
  ioWatch,   \* the socket _sockio_helper watches
  timeoutOn, \* _timer_connect_timeout is started
  retryOn,   \* _timer_connect_retry_wait is started
  bound,     \* the helpers have their _reactor
  tasks,     \* the calls posted by other threads
  sockets,   \* external: the descriptors that are open
  up,        \* history: on_connected was called, and on_closed not since
  failure    \* the assertion that ended the process, or "none"

sockVars == <<connFd, fd, connWatch, ioWatch, sockets>>
vars == <<config, objState, connState, connFd, fd, connWatch, ioWatch, timeoutOn, retryOn, bound, tasks,
          sockets, up, failure>>

Init ==
  /\ config \in Configs
  /\ objState = "prepare"
  /\ connState = "closed"
  /\ connFd = NoSocket /\ fd = NoSocket
  /\ connWatch = NoSocket /\ ioWatch = NoSocket
  /\ timeoutOn = FALSE /\ retryOn = FALSE
  /\ bound = FALSE
  /\ tasks = << >>
  /\ sockets = {}
  /\ up = FALSE
  /\ failure = "none"

Alive == failure = "none"

\* assert(false), or an assertion whose condition does not hold.
Abort(what) ==
  /\ config.asserts
  /\ failure' = what
  /\ UNCHANGED <<objState, connState, sockVars, timeoutOn, retryOn, bound, up>>

Ignore == UNCHANGED <<objState, connState, sockVars, timeoutOn, retryOn, bound, up, failure>>

-----------------------------------------------------------------------------
(* connect                                                                 *)

\* What is open after ::close(s).
Closed(s) == sockets \ {s}

\* create_tcp_socket fails: the retry timer starts, whatever is configured.
CreateFails ==
  /\ retryOn' = TRUE
  /\ UNCHANGED <<objState, connState, sockVars, timeoutOn, up>>

\* ::connect fails with another error than EINPROGRESS.
ConnectFails ==
  /\ retryOn' = config.retry
  /\ UNCHANGED <<objState, connState, sockVars, timeoutOn, up>>

\* Mutant: the channel is connected before it is normal.
EstablishUnprepared(s) ==
  /\ fd' = s /\ ioWatch' = s
  /\ connFd' = NoSocket /\ connWatch' = NoSocket
  /\ connState' = "connected"
  /\ up' = TRUE
  /\ UNCHANGED objState

\* set_fd, the helper, set_normal and on_connected.
Establish(s) ==
  /\ fd' = s /\ ioWatch' = s
  /\ connFd' = NoSocket /\ connWatch' = NoSocket
  /\ connState' = "connected"
  /\ objState' = "normal"
  /\ up' = TRUE

ConnectAtOnce(s) ==
  /\ config.immediate
  /\ Establish(s)
  /\ sockets' = sockets \cup {s}
  /\ retryOn' = FALSE
  /\ UNCHANGED timeoutOn

\* Mutant: the timeout is not started.
TimeoutNotArmed == timeoutOn

\* The timeout timer after start, which does nothing to a started timer.
TimeoutArmed == timeoutOn \/ config.timeout

\* EINPROGRESS: the write event will bring the result, the timeout its absence.
ConnectWaits(s) ==
  /\ connFd' = s /\ connWatch' = s
  /\ connState' = "connecting"
  /\ sockets' = sockets \cup {s}
  /\ timeoutOn' = TimeoutArmed
  /\ retryOn' = FALSE
  /\ UNCHANGED <<objState, fd, ioWatch, up>>

\* connect returns early when this does not hold.
Due == objState = "prepare" /\ connState = "closed"

\* connect beyond its early returns.  The second time it binds the helpers to the
\* loop again, which they assert against.
ConnectDue ==
  \/ bound /\ Abort("rebind")
  \/ /\ bound => ~config.asserts
     /\ bound' = TRUE
     /\ UNCHANGED failure
     /\ \/ CreateFails
        \/ ConnectFails
        \/ \E s \in Sockets \ sockets : ConnectAtOnce(s) \/ ConnectWaits(s)

Connect == IF Due THEN ConnectDue ELSE Ignore

-----------------------------------------------------------------------------
(* close and send                                                          *)

\* Mutant: set_prepare is lost, _obj_state is what the constructor of its class
\* left.
IdleNone == "none"

\* set_prepare
Idle == "prepare"

\* Mutant: the socket that is still connecting is forgotten.
LeftOpen == Closed(fd)

\* What close leaves open of the channel's two sockets.
ClosedBoth == Closed(fd) \ {connFd}

\* Mutant: the helper of the connecting socket goes on watching.
CloseBodyWatching ==
  /\ connFd' = NoSocket /\ fd' = NoSocket
  /\ ioWatch' = NoSocket
  /\ sockets' = ClosedBoth
  /\ connState' = "closed"
  /\ objState' = Idle
  /\ up' = FALSE
  /\ UNCHANGED <<connWatch, timeoutOn, retryOn, bound, failure>>

\* Everything close does when the channel is not closed.  It stops no timer.
CloseBody ==
  /\ connFd' = NoSocket /\ fd' = NoSocket
  /\ connWatch' = NoSocket /\ ioWatch' = NoSocket
  /\ sockets' = ClosedBoth
  /\ connState' = "closed"
  /\ objState' = Idle
  /\ up' = FALSE
  /\ UNCHANGED <<timeoutOn, retryOn, bound, failure>>

\* Mutant: a channel that is normal cannot be closed.
CloseUnlessNormal == IF connState = "closed" \/ objState = "normal" THEN Ignore ELSE CloseBody

Close == IF connState = "closed" THEN Ignore ELSE CloseBody

\* send_async: sending asserts that the channel is normal; when it fails the
\* channel is closed.
SendAsync ==
  IF objState # "normal"
    THEN Abort("send") \/ (~config.asserts /\ Close)
    ELSE Ignore \/ Close

-----------------------------------------------------------------------------
(* The handlers of the loop                                                *)

\* thread_init of tcp_client: the first connect.
FirstConnect ==
  /\ Alive /\ ~bound
  /\ Connect
  /\ UNCHANGED tasks

\* A call from another thread becomes a task.  The application sends only after
\* on_connected and before on_closed.
Post(call) ==
  /\ Alive /\ bound
  /\ call = "send" => up
  /\ Len(tasks) < MaxTasks
  /\ tasks' = Append(tasks, call)
  /\ Ignore

RunSend ==
  /\ Alive /\ tasks # << >> /\ Head(tasks) = "send"
  /\ tasks' = Tail(tasks)
  /\ SendAsync

RunClose ==
  /\ Alive /\ tasks # << >> /\ Head(tasks) = "close"
  /\ tasks' = Tail(tasks)
  /\ Close

RunConnect ==
  /\ Alive /\ tasks # << >> /\ Head(tasks) = "connect"
  /\ tasks' = Tail(tasks)
  /\ Connect

\* Mutant: the timeout timer goes on when the result is there.
TimeoutKept == timeoutOn

\* The timeout timer after the result.
TimeoutStopped == FALSE

\* on_sockio_write_connect, with an error: the socket is closed, and that is all.
AsyncFails ==
  /\ connState' = "closed"
  /\ connFd' = NoSocket /\ connWatch' = NoSocket
  /\ sockets' = Closed(connFd)
  /\ UNCHANGED <<objState, fd, ioWatch, up>>

AsyncConnects ==
  /\ Establish(connFd)
  /\ UNCHANGED sockets

\* on_sockio_write_connect: the connecting socket has a result.
ConnectResult ==
  /\ Alive /\ connWatch # NoSocket
  /\ UNCHANGED tasks
  /\ IF objState = "prepare" /\ connState = "connecting"
       THEN /\ timeoutOn' = TimeoutStopped
            /\ UNCHANGED <<retryOn, bound, failure>>
            /\ AsyncFails \/ AsyncConnects
       ELSE Abort("event") \/ (~config.asserts /\ Ignore)

\* on_sockio_read and on_sockio_write: an error, the peer's close or the
\* application closes the channel; an event without any of these changes nothing.
SockioEvent ==
  /\ Alive /\ ioWatch # NoSocket
  /\ UNCHANGED tasks
  /\ IF objState = "normal" /\ connState = "connected"
       THEN CloseBody
       ELSE Abort("event") \/ (~config.asserts /\ Ignore)

\* on_timer_connect_timeout.  It looks at no state.
TimeoutFires ==
  /\ Alive /\ timeoutOn
  /\ timeoutOn' = FALSE
  /\ retryOn' = TRUE
  /\ connFd' = NoSocket /\ connWatch' = NoSocket
  /\ sockets' = Closed(connFd)
  /\ connState' = "closed"
  /\ UNCHANGED <<objState, fd, ioWatch, bound, tasks, up, failure>>

\* on_timer_connect_retry_wait: stop the timer and connect, which stops it too when
\* it does not return early.
RetryFires ==
  /\ Alive /\ retryOn
  /\ UNCHANGED tasks
  /\ IF Due
       THEN ConnectDue
       ELSE /\ retryOn' = FALSE
            /\ UNCHANGED <<objState, connState, sockVars, timeoutOn, bound, up, failure>>

-----------------------------------------------------------------------------
(* The specification                                                       *)

Calls == {"send", "close", "connect"}

Next ==
  /\ UNCHANGED config
  /\ \/ FirstConnect
     \/ \E call \in Calls : Post(call)
     \/ RunSend
     \/ RunClose
     \/ RunConnect
     \/ ConnectResult
     \/ SockioEvent
     \/ TimeoutFires
     \/ RetryFires

Spec == Init /\ [][Next]_vars

RunTask == UNCHANGED config /\ (RunSend \/ RunClose \/ RunConnect)
OnTimeout == UNCHANGED config /\ TimeoutFires

\* The loop ticks and runs its tasks; nothing is assumed of the network.
FairSpec == Spec /\ WF_vars(RunTask) /\ WF_vars(OnTimeout)

-----------------------------------------------------------------------------
(* Properties                                                              *)

Holders == Sockets \cup {NoSocket}

TypeOK ==
  /\ config \in Configs
  /\ objState \in {"prepare", "normal"}
  /\ connState \in {"closed", "connecting", "connected"}
  /\ connFd \in Holders /\ fd \in Holders /\ connWatch \in Holders /\ ioWatch \in Holders
  /\ timeoutOn \in BOOLEAN /\ retryOn \in BOOLEAN /\ bound \in BOOLEAN /\ up \in BOOLEAN
  /\ tasks \in Seq(Calls) /\ Len(tasks) <= MaxTasks
  /\ sockets \subseteq Sockets
  /\ failure \in {"none", "rebind", "send", "event"}

\* The two state machines of the channel, its two sockets and the two helpers in
\* the poller tell the same story: a socket is connecting, watched by the one
\* helper, or connected, watched by the other, or there is none.
Consistent ==
  /\ connState = "connecting" <=> connFd # NoSocket
  /\ connState = "connected" <=> fd # NoSocket
  /\ objState = "normal" <=> connState = "connected"
  /\ connWatch = connFd
  /\ ioWatch = fd

\* Every descriptor the channel opened is in one of its two fields until it is
\* closed: none leaks over failed, timed out, closed and repeated connects.
NoSocketLeaks == sockets = {connFd, fd} \ {NoSocket}

\* What the application was told last is what is: on_connected for each connection,
\* and on_closed when it ends (tcp_client_channel.cpp:228, 304, 395).
ToldTheTruth == up <=> connState = "connected"

\* No event of the poller reaches the channel in a state that asserts against it
\* (tcp_client_channel.cpp:359-369, 401-411).
NoLateEvent == failure # "event"

\* With a connect timeout no connection attempt is waited for for ever, whatever
\* the network does.
ConnectingEnds == config.timeout /\ connState = "connecting" ~> connState # "connecting" \/ ~Alive

\* A close that another thread has posted closes the channel.
PostedCloseCloses ==
  (\E i \in 1 .. Len(tasks) : tasks[i] = "close") ~> (connState = "closed" \/ ~Alive)

\* The retry timer runs once the connect has failed (tcp_client_channel.h:99).
FailureStartsRetry ==
  [][config.retry /\ connState = "connecting" /\ ConnectResult /\ connState' = "closed" => retryOn']_vars
=============================================================================
