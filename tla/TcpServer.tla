----------------------------- MODULE TcpServer -----------------------------
(***************************************************************************)
(* tcp_server<uint16_t> (tcp/tcp_server.h) with more than one worker: the  *)
(* start-up of the listen thread and the workers, the registration of the  *)
(* workers with the listener (tcp/tcp_listen.cpp), the accepting of        *)
(* connections and their way to the creators                               *)
(* (tcp/tcp_server_channel_creator.cpp), and the destructor.               *)
(*                                                                         *)
(* One thread starts and destroys the server.  A thread_object runs its    *)
(* init task, then turns of its loop until it is told to quit, then its    *)
(* exit task (ThreadObject); the tasks a loop runs in one turn are one     *)
(* step, since nobody can post meanwhile (TaskQueue).  What becomes of a   *)
(* connection in its worker is in ServerLoop.                              *)
(***************************************************************************)
EXTENDS Naturals, Sequences, FiniteSets

CONSTANTS
  ThreadNum, \* _thread_num
  Conns,     \* connections clients may make
  Nobody     \* no worker

Workers == 1 .. ThreadNum

\* With one thread there are no workers: the listen thread has the creator.
ASSUME ServerAssumption == ThreadNum \in Nat /\ ThreadNum > 1 /\ Nobody \notin Workers

VARIABLES
  main,       \* where start or the destructor is
  listener,   \* where the listen thread is
  worker,     \* where each worker is
  quit,       \* the threads (0 is the listen thread) that were told to quit
  initDone,   \* _is_listen_init
  notReady,   \* _num_worker_ready
  listen,     \* _alone_listen: "null", "live" or "deleted"
  socket,     \* its descriptor: "none", "listening", or "zero" after a failed bind
  handlers,   \* _handler_list, of workers' creators
  lastPos,    \* _last_pos
  posts,      \* add_accept_handler posted to the listen loop
  backlog,    \* external: connections the kernel holds for accept
  edge,       \* external: epoll has an event for the listening socket
  handed,     \* on_newfd posted to each worker's loop
  channels,   \* _channel_list of each creator
  closed,     \* external: connections the server has closed
  lost,       \* external: descriptors that are open and that nobody knows
  gaveUp,     \* history: accept failed since the last event
  skipped,    \* history: the listener was there before the number it waits for
  broken      \* a deleted tcp_listen was used

connVars == <<handed, channels, closed, lost>>
listenVars == <<listen, socket, handlers, lastPos, posts, backlog, edge, gaveUp>>
startVars == <<initDone, notReady, skipped>>
vars == <<main, listener, worker, quit, startVars, listenVars, connVars, broken>>

Init ==
  /\ main = "new" /\ listener = "none" /\ worker = [w \in Workers |-> "none"]
  /\ quit = {}
  /\ initDone = FALSE /\ notReady = 0 /\ skipped = FALSE
  /\ listen = "null" /\ socket = "none"
  /\ handlers = << >> /\ lastPos = 0 /\ posts = << >>
  /\ backlog = << >> /\ edge = FALSE /\ gaveUp = FALSE
  /\ handed = [w \in Workers |-> << >>]
  /\ channels = [w \in Workers |-> {}]
  /\ closed = {} /\ lost = {}
  /\ broken = FALSE

-----------------------------------------------------------------------------
(* start, in the owner's thread                                            *)

StartListener ==
  /\ main = "new"
  /\ main' = "await" /\ listener' = "init"
  /\ UNCHANGED <<worker, quit, startVars, listenVars, connVars, broken>>

\* Mutant: the listen thread is counted too.
AllThreads == ThreadNum + 1

\* How many threads will count themselves off.
ToWaitFor == ThreadNum

\* _is_listen_init is true, and the number of workers to wait for is set; not under
\* the same mutex, and not at once.
SetCount ==
  /\ main = "await" /\ initDone
  /\ main' = "spawn"
  /\ notReady' = ToWaitFor
  /\ UNCHANGED <<listener, worker, quit, initDone, skipped, listenVars, connVars, broken>>

StartWorker(w) ==
  /\ main = "spawn"
  /\ worker[w] = "none" /\ \A v \in Workers : v < w => worker[v] # "none"
  /\ worker' = [worker EXCEPT ![w] = "init"]
  /\ main' = IF w = ThreadNum THEN "up" ELSE "spawn"
  /\ UNCHANGED <<listener, quit, startVars, listenVars, connVars, broken>>

-----------------------------------------------------------------------------
(* The listen thread                                                       *)

ListenInit ==
  /\ listener = "init"
  /\ listen' = "live"
  /\ initDone' = TRUE
  /\ listener' = "await"
  /\ UNCHANGED <<main, worker, quit, notReady, skipped, socket, handlers, lastPos, posts, backlog, edge, gaveUp,
                 connVars, broken>>

\* Mutant: the wait is left when any worker is ready.
SomeReady == notReady < ThreadNum

\* while (_num_worker_ready) is over.
AllReady == notReady = 0

\* The end of the init task.  A failing bind or listen gives descriptor 0, which
\* start takes for a listening socket.
ListenStart ==
  /\ listener = "await" /\ AllReady
  /\ socket' \in {"none", "listening", "zero"}
  /\ skipped' = (main = "await")
  /\ listener' = "poll"
  /\ UNCHANGED <<main, worker, quit, initDone, notReady, listen, handlers, lastPos, posts, backlog, edge, gaveUp,
                 connVars, broken>>

ListenVarsButQueue == <<listen, socket, handlers, posts>>

\* A turn of the loop begins: poll reports the event, or times out.
Poll ==
  /\ listener = "poll" /\ 0 \notin quit
  /\ listener' = IF edge THEN "accept" ELSE "tasks"
  /\ edge' = FALSE
  /\ gaveUp' = (gaveUp /\ ~edge)
  /\ UNCHANGED <<main, worker, quit, startVars, ListenVarsButQueue, lastPos, backlog, connVars, broken>>

Accepting == listener = "accept" /\ backlog # << >>

\* accept4 succeeds, and no worker has registered.
AcceptRefused ==
  /\ Accepting /\ handlers = << >>
  /\ closed' = closed \cup {Head(backlog)}
  /\ backlog' = Tail(backlog)
  /\ UNCHANGED <<main, listener, worker, quit, startVars, ListenVarsButQueue, lastPos, edge, gaveUp, handed, channels,
                 lost, broken>>

\* accept4 succeeds, and the next handler's creator posts the descriptor to its loop.
AcceptOne ==
  /\ Accepting /\ handlers # << >>
  /\ LET pos == lastPos % Len(handlers)
         w == handlers[pos + 1]
     IN  /\ handed' = [handed EXCEPT ![w] = Append(@, Head(backlog))]
         /\ lastPos' = pos + 1
  /\ backlog' = Tail(backlog)
  /\ UNCHANGED <<main, listener, worker, quit, startVars, ListenVarsButQueue, edge, gaveUp, channels, closed, lost,
                 broken>>

\* accept4 fails, for lack of descriptors say: the loop is left.
AcceptFails ==
  /\ Accepting
  /\ listener' = "tasks" /\ gaveUp' = TRUE
  /\ UNCHANGED <<main, worker, quit, startVars, ListenVarsButQueue, lastPos, backlog, edge, connVars, broken>>

\* Mutant: one connection for an event.
AcceptOverEarly == TRUE

\* accept4 says EAGAIN.
AcceptOver == backlog = << >>

AcceptEnd ==
  /\ listener = "accept" /\ AcceptOver
  /\ listener' = "tasks"
  /\ UNCHANGED <<main, worker, quit, startVars, listenVars, connVars, broken>>

\* The posted add_accept_handler calls run.
AddHandlers ==
  /\ listener = "tasks"
  /\ handlers' = handlers \o posts
  /\ posts' = << >>
  /\ listener' = "poll"
  /\ UNCHANGED <<main, worker, quit, startVars, listen, socket, lastPos, backlog, edge, gaveUp, connVars, broken>>

\* listen_thread_exit: the tcp_listen withdraws its posts and closes its descriptor;
\* what is left in the backlog is reset by the kernel.
ListenExit ==
  /\ listener = "poll" /\ 0 \in quit
  /\ listener' = "done"
  /\ listen' = "deleted" /\ socket' = "none"
  /\ handlers' = << >> /\ posts' = << >>
  /\ closed' = closed \cup {backlog[i] : i \in 1 .. Len(backlog)}
  /\ backlog' = << >> /\ edge' = FALSE
  /\ UNCHANGED <<main, worker, quit, startVars, lastPos, gaveUp, handed, channels, lost, broken>>

-----------------------------------------------------------------------------
(* The workers                                                             *)

\* common_thread_init: the creator is registered with the tcp_listen.
WorkerInit(w) ==
  /\ worker[w] = "init"
  /\ worker' = [worker EXCEPT ![w] = "ready"]
  /\ IF listen = "live"
     THEN posts' = Append(posts, w) /\ UNCHANGED broken
     ELSE broken' = TRUE /\ UNCHANGED posts
  /\ UNCHANGED <<main, listener, quit, startVars, listen, socket, handlers, lastPos, backlog, edge, gaveUp, connVars>>

WorkerReady(w) ==
  /\ worker[w] = "ready"
  /\ worker' = [worker EXCEPT ![w] = "loop"]
  /\ notReady' = notReady - 1
  /\ UNCHANGED <<main, listener, quit, initDone, skipped, listenVars, connVars, broken>>

\* Mutant: the descriptor stays posted.
RestKept(w) == handed

\* What is posted to the workers after w has run its first post.
Rest(w) == [handed EXCEPT ![w] = Tail(@)]

Handing(w) == worker[w] = "loop" /\ handed[w] # << >>

\* on_newfd in the worker's loop: a channel is created for the descriptor.
NewChannel(w) ==
  /\ Handing(w)
  /\ channels' = [channels EXCEPT ![w] = @ \cup {Head(handed[w])}]
  /\ handed' = Rest(w)
  /\ UNCHANGED <<main, listener, worker, quit, startVars, listenVars, closed, lost, broken>>

\* set_nonblock_sock fails.
NewRefused(w) ==
  /\ Handing(w)
  /\ closed' = closed \cup {Head(handed[w])}
  /\ handed' = Rest(w)
  /\ UNCHANGED <<main, listener, worker, quit, startVars, listenVars, channels, lost, broken>>

\* A channel closes its descriptor.
ChannelCloses(w, c) ==
  /\ worker[w] = "loop" /\ c \in channels[w]
  /\ channels' = [channels EXCEPT ![w] = @ \ {c}]
  /\ closed' = closed \cup {c}
  /\ UNCHANGED <<main, listener, worker, quit, startVars, listenVars, handed, lost, broken>>

\* common_thread_exit: ~tcp_server_channel_creator withdraws the posted descriptors
\* and drops the channels, whose destructors close nothing.
WorkerExit(w) ==
  /\ worker[w] = "loop" /\ w \in quit
  /\ worker' = [worker EXCEPT ![w] = "done"]
  /\ lost' = lost \cup channels[w] \cup {handed[w][i] : i \in 1 .. Len(handed[w])}
  /\ handed' = [handed EXCEPT ![w] = << >>]
  /\ channels' = [channels EXCEPT ![w] = {}]
  /\ UNCHANGED <<main, listener, quit, startVars, listenVars, closed, broken>>

-----------------------------------------------------------------------------
(* The destructor, in the owner's thread                                   *)

\* Mutant: the workers go first.
WorkersFirstOut == Workers

\* The listen thread is the first to go.
FirstOut == {0}

Destroy ==
  /\ main = "up"
  /\ main' = "stopListener"
  /\ quit' = quit \cup FirstOut
  /\ UNCHANGED <<listener, worker, startVars, listenVars, connVars, broken>>

Done(t) == IF t = 0 THEN listener = "done" ELSE worker[t] = "done"

\* A join returns, and the next thread is told to quit.
StopNext(w) ==
  /\ main = "stopListener" /\ \A t \in quit : Done(t)
  /\ w \notin quit /\ \A v \in 0 .. ThreadNum : v < w => v \in quit
  /\ quit' = quit \cup {w}
  /\ UNCHANGED <<main, listener, worker, startVars, listenVars, connVars, broken>>

Destroyed ==
  /\ main = "stopListener" /\ 0 .. ThreadNum \subseteq quit /\ \A t \in quit : Done(t)
  /\ main' = "gone"
  /\ UNCHANGED <<listener, worker, quit, startVars, listenVars, connVars, broken>>

-----------------------------------------------------------------------------
(* Clients                                                                 *)

Used ==
  {backlog[i] : i \in 1 .. Len(backlog)} \cup closed \cup lost
    \cup UNION {channels[w] \cup {handed[w][i] : i \in 1 .. Len(handed[w])} : w \in Workers}

Connect(c) ==
  /\ socket = "listening" /\ c \notin Used
  /\ backlog' = Append(backlog, c)
  /\ edge' = TRUE
  /\ UNCHANGED <<main, listener, worker, quit, startVars, ListenVarsButQueue, lastPos, gaveUp, connVars, broken>>

-----------------------------------------------------------------------------
OwnerStep == StartListener \/ SetCount \/ (\E w \in Workers : StartWorker(w) \/ StopNext(w)) \/ Destroyed

ListenerStep == ListenInit \/ ListenStart \/ Poll \/ AcceptRefused \/ AcceptOne \/ AcceptFails \/ AcceptEnd
                  \/ AddHandlers \/ ListenExit

HandOverStep(w) == NewChannel(w) \/ NewRefused(w)

WorkerStep(w) == WorkerInit(w) \/ WorkerReady(w) \/ WorkerExit(w)

\* After the use of a deleted object anything may happen; nothing more is said.
Next ==
  /\ ~broken
  /\ \/ OwnerStep \/ Destroy
     \/ ListenerStep
     \/ \E w \in Workers : WorkerStep(w) \/ HandOverStep(w) \/ \E c \in Conns : ChannelCloses(w, c)
     \/ \E c \in Conns : Connect(c)

Spec == Init /\ [][Next]_vars

\* The threads run.  Nobody has to destroy the server, connect to it or close.
FairSpec ==
  /\ Spec
  /\ WF_vars(~broken /\ OwnerStep)
  /\ WF_vars(~broken /\ ListenerStep)
  /\ \A w \in Workers : WF_vars(~broken /\ WorkerStep(w)) /\ WF_vars(~broken /\ HandOverStep(w))

-----------------------------------------------------------------------------
(* Properties                                                              *)

TypeOK ==
  /\ main \in {"new", "await", "spawn", "up", "stopListener", "gone"}
  /\ listener \in {"none", "init", "await", "poll", "accept", "tasks", "done"}
  /\ worker \in [Workers -> {"none", "init", "ready", "loop", "done"}]
  /\ quit \subseteq 0 .. ThreadNum
  /\ initDone \in BOOLEAN /\ notReady \in 0 .. ThreadNum /\ skipped \in BOOLEAN
  /\ listen \in {"null", "live", "deleted"} /\ socket \in {"none", "listening", "zero"}
  /\ handlers \in Seq(Workers) /\ posts \in Seq(Workers) /\ lastPos \in 0 .. ThreadNum
  /\ backlog \in Seq(Conns) /\ edge \in BOOLEAN /\ gaveUp \in BOOLEAN
  /\ handed \in [Workers -> Seq(Conns)] /\ channels \in [Workers -> SUBSET Conns]
  /\ closed \subseteq Conns /\ lost \subseteq Conns
  /\ broken \in BOOLEAN

\* A listener that did wait for the workers (tcp_server.h:181) is safe: none of them
\* calls it after it was deleted, and each is registered, or about to be, when the
\* first connection can come.
WaitProtects ==
  ~skipped =>
    /\ ~broken
    /\ listener \in {"poll", "accept", "tasks"} =>
         Workers = {handlers[i] : i \in 1 .. Len(handlers)} \cup {posts[i] : i \in 1 .. Len(posts)}

\* A listener that can still accept hands nothing to a worker that has gone: the
\* destructor's order is all that sees to it (tcp_server.h:50-57).
OwnersOutliveListener ==
  \A i \in 1 .. Len(handlers) : worker[handlers[i]] # "done"

\* The listening socket is edge-triggered: a connection that nobody is about to
\* accept, and for which no event is to come, would wait for the next client.  Only a
\* failing accept leaves one (tcp_listen.cpp:112-116).
NoneForgotten ==
  backlog # << >> => edge \/ listener = "accept" \/ gaveUp

\* tcp_server.h:181 says the listen thread waits until the workers are initialised,
\* before it listens.  It does not when it comes first.
ListensWhenReady == socket = "listening" => \A w \in Workers : worker[w] \notin {"none", "init"}

\* A destructor that has begun returns: the listen thread does not wait for workers
\* that never come.
DestructorReturns == (main = "stopListener") ~> (main = "gone" \/ broken)

Within(c, s) == \E i \in 1 .. Len(s) : s[i] = c

HeldBy(c) == {w \in Workers : Within(c, handed[w]) \/ c \in channels[w]}

PlaceOf(c) ==
  IF c \in lost THEN "lost"
  ELSE IF c \in closed THEN "closed"
  ELSE IF Within(c, backlog) THEN "waiting"
  ELSE IF \E w \in Workers : Within(c, handed[w]) THEN "handed"
  ELSE IF \E w \in Workers : c \in channels[w] THEN "served"
  ELSE "away"

OwnerOf(c) == IF HeldBy(c) = {} THEN Nobody ELSE CHOOSE w \in Workers : HeldBy(c) = {w}

Promise == INSTANCE HandOver WITH
  Owners <- Workers,
  place <- [c \in Conns |-> PlaceOf(c)],
  owner <- [c \in Conns |-> OwnerOf(c)],
  stopping <- main \in {"stopListener", "gone"}

\* Every connection has one owner, until it is closed (tcp_listen.cpp:77-119,
\* tcp_server_channel_creator.cpp:23-56).
HandsOver == Promise!Spec
=============================================================================
