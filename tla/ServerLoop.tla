----------------------------- MODULE ServerLoop -----------------------------
(***************************************************************************)
(* The life of the channels of a TCP server in the loop they belong to:    *)
(* the creator's list and its scan (tcp/tcp_server_channel_creator.cpp),   *)
(* the channels (tcp/tcp_server_channel.cpp), the batch of raw pointers    *)
(* that one epoll_wait returns (reactor/epoll_imp.cpp), and the turn of    *)
(* the loop, which runs events, tasks and idle callbacks in this order     *)
(* (reactor/reactor_loop.cpp).                                             *)
(*                                                                         *)
(* A channel is its chain: origin and terminal live and die together, when *)
(* the last reference to the terminal goes.  One reference is the list's,  *)
(* one may be the application's, which calls from another thread.  Calls   *)
(* of other threads wait for the queue's mutex while tasks run.            *)
(***************************************************************************)
EXTENDS Naturals, Sequences, SequencesExt

CONSTANTS
  Fds,         \* descriptor numbers the kernel may give
  MaxChannels, \* bound: channels created
  MaxTasks     \* bound: tasks waiting in the loop's queue

\* Channels are numbered in the order of their creation.
Channels == 1 .. MaxChannels
NoChannel == 0

\* Descriptor 0 is standard input; the scan would pass it over while there are others.
ASSUME ServerLoopAssumption == Fds \subseteq Nat \ {0} /\ Fds # {} /\ MaxChannels \in Nat /\ MaxTasks \in Nat

VARIABLES
  phase,    \* where the turn is: "poll", "events", "tasks" or "idle"
  batch,    \* the rest of _epoll_event, the channels whose helpers it points to
  state,    \* of each channel: "none", "normal", "release", or "gone" when it is deleted
  fdOf,     \* the descriptor a channel was created for
  watched,  \* the channels whose _sockio_helper is registered
  list,     \* _channel_list
  lastScan, \* _last_recover_scan_fd
  idleOn,   \* _idle_helper is started
  tasks,    \* the calls posted to the loop
  held,     \* the channels the application has a reference to
  open,     \* external: open descriptors of connections
  asserts,  \* assert is compiled in
  failure,  \* the assertion that ended the process, or "none"
  broken,   \* a deleted channel was used
  careless  \* history: the application let a channel go with calls still posted

vars == <<phase, batch, state, fdOf, watched, list, lastScan, idleOn, tasks, held, open, asserts, failure, broken,
          careless>>
appVars == <<held, careless>>
scanVars == <<lastScan, idleOn>>
faultVars == <<failure, broken>>

Init ==
  /\ phase = "poll" /\ batch = << >>
  /\ state = [c \in Channels |-> "none"]
  /\ fdOf \in [Channels -> {CHOOSE f \in Fds : TRUE}]
  /\ watched = {}
  /\ list = [f \in Fds |-> NoChannel]
  /\ lastScan = 0 /\ idleOn = FALSE
  /\ tasks = << >>
  /\ held = {} /\ open = {}
  /\ asserts \in BOOLEAN
  /\ failure = "none" /\ broken = FALSE /\ careless = FALSE

Alive == failure = "none" /\ ~broken

Normal == {c \in Channels : state[c] = "normal"}
Listed == {list[f] : f \in Fds} \ {NoChannel}
Posted(c) == \E i \in 1 .. Len(tasks) : tasks[i].kind # "newfd" /\ tasks[i].what = c

-----------------------------------------------------------------------------
(* Closing                                                                 *)

\* Mutant: the channels stay registered.
StillWatched(S) == watched

\* _sockio_helper.clear() of the channels in S.
Unwatched(S) == watched \ S

\* close of the channels in S, each in the loop: set_release.  A channel that is
\* released already goes through it again and only calls on_closed once more.
Close(S) ==
  /\ state' = [c \in Channels |-> IF c \in S THEN "release" ELSE state[c]]
  /\ watched' = Unwatched(S)
  /\ open' = open \ {fdOf[c] : c \in S \cap Normal}

\* assert(false), and what follows it when assertions are not compiled in.
Fails(what, Otherwise) ==
  \/ /\ asserts
     /\ failure' = what
     /\ UNCHANGED <<state, watched, open, broken>>
  \/ ~asserts /\ Otherwise /\ UNCHANGED faultVars

UseAfterDelete == broken' = TRUE /\ UNCHANGED <<state, watched, open, failure>>

-----------------------------------------------------------------------------
(* Events                                                                  *)

\* epoll_wait returns registered helpers, each once, in any order; or none.
Poll ==
  /\ phase = "poll"
  /\ \E S \in SUBSET watched : batch' \in SetToSeqs(S)
  /\ phase' = "events"
  /\ UNCHANGED <<state, fdOf, watched, list, scanVars, tasks, appVars, open, asserts, faultVars>>

\* sockio_helper::action of the next one.  A handler reads, writes and calls the
\* application, which may close any channels of this loop; an error closes its own.
Event ==
  /\ phase = "events" /\ batch # << >>
  /\ LET c == Head(batch)
     IN  \/ state[c] = "gone" /\ UseAfterDelete
         \/ /\ state[c] # "gone" /\ c \notin watched
            /\ UNCHANGED <<state, watched, open, faultVars>>
         \/ /\ c \in watched /\ state[c] # "normal"
            /\ Fails("event", UNCHANGED <<state, watched, open>>)
         \/ /\ c \in watched /\ state[c] = "normal"
            /\ \E S \in SUBSET Normal : Close(S)
            /\ UNCHANGED faultVars
  /\ batch' = Tail(batch)
  /\ UNCHANGED <<phase, fdOf, list, scanVars, tasks, appVars, asserts>>

EventsEnd ==
  /\ phase = "events" /\ batch = << >>
  /\ phase' = "tasks"
  /\ UNCHANGED <<batch, state, fdOf, watched, list, scanVars, tasks, appVars, open, asserts, faultVars>>

-----------------------------------------------------------------------------
(* Tasks                                                                   *)

\* Mutant: the list's reference is taken for the only one.
LetGoAll(S, st) == [c \in Channels |-> IF c \in S THEN "gone" ELSE st[c]]

\* What the state becomes when the list lets go of the channels in S.
LetGo(S, st) == [c \in Channels |-> IF c \in S \ held THEN "gone" ELSE st[c]]

\* on_newfd: a chain is built, takes the descriptor's place in the list, and starts.
\* The application may keep a reference, and may close the channel in on_accept.
NewChannel(f) ==
  /\ \E c \in Channels :
       /\ state[c] = "none" /\ \A d \in Channels : d < c => state[d] # "none"
       /\ fdOf' = [fdOf EXCEPT ![c] = f]
       /\ list' = [list EXCEPT ![f] = c]
       /\ held' \in {held, held \cup {c}}
       /\ \/ /\ state' = LetGo({list[f]}, [state EXCEPT ![c] = "normal"])
             /\ watched' = (watched \ ({list[f]} \ held)) \cup {c}
             /\ UNCHANGED open
          \/ /\ state' = LetGo({list[f]}, [state EXCEPT ![c] = "release"])
             /\ watched' = watched \ ({list[f]} \ held)
             /\ open' = open \ {f}
  /\ idleOn' = TRUE
  /\ UNCHANGED <<faultVars, careless>>

\* on_newfd when set_nonblock_sock fails.
NewRefused(f) ==
  /\ open' = open \ {f}
  /\ idleOn' = (idleOn \/ Listed # {})
  /\ UNCHANGED <<state, fdOf, watched, list, appVars, faultVars>>

\* The task of the terminal's send: origin sends, or asserts; a failing send closes.
RunSend(c) ==
  /\ \/ state[c] = "gone" /\ UseAfterDelete
     \/ state[c] = "normal" /\ (Close({c}) \/ UNCHANGED <<state, watched, open>>) /\ UNCHANGED faultVars
     \/ state[c] = "release" /\ Fails("send", Close({c}))
  /\ UNCHANGED <<fdOf, list, idleOn, appVars>>

\* The task of the terminal's close.
RunClose(c) ==
  /\ \/ state[c] = "gone" /\ UseAfterDelete
     \/ state[c] # "gone" /\ Close({c}) /\ UNCHANGED faultVars
  /\ UNCHANGED <<fdOf, list, idleOn, appVars>>

RunTask ==
  /\ phase = "tasks" /\ tasks # << >>
  /\ LET t == Head(tasks)
     IN  \/ t.kind = "newfd" /\ (NewChannel(t.what) \/ NewRefused(t.what))
         \/ t.kind = "send" /\ RunSend(t.what)
         \/ t.kind = "close" /\ RunClose(t.what)
  /\ tasks' = Tail(tasks)
  /\ UNCHANGED <<phase, batch, lastScan, asserts>>

TasksEnd ==
  /\ phase = "tasks" /\ tasks = << >>
  /\ phase' = "idle"
  /\ UNCHANGED <<batch, state, fdOf, watched, list, scanVars, tasks, appVars, open, asserts, faultVars>>

-----------------------------------------------------------------------------
(* The scan                                                                *)

Entries == {f \in Fds : list[f] # NoChannel}

\* The entries from upper_bound(lastScan), or all; the loop counts no steps and so
\* goes to the end of the list.
Scanned == LET ahead == {f \in Entries : f > lastScan} IN IF ahead = {} THEN Entries ELSE ahead

\* Mutant: asks for is_dead, which nobody sets.
DeadOnly == {f \in Scanned : state[list[f]] = "dead"}

\* The entries the scan erases.
Dead == {f \in Scanned : state[list[f]] = "release"}

\* on_idle_recover, called if the idle helper is started.
Idle ==
  /\ phase = "idle"
  /\ phase' = "poll"
  /\ \/ ~idleOn /\ UNCHANGED <<list, state, watched, idleOn, lastScan>>
     \/ /\ idleOn
        /\ list' = [f \in Fds |-> IF f \in Dead THEN NoChannel ELSE list[f]]
        /\ state' = LetGo({list[f] : f \in Dead}, state)
        /\ watched' = watched \ ({list[f] : f \in Dead} \ held)
        /\ idleOn' = (Entries # Dead)
        /\ lastScan' = 0
  /\ UNCHANGED <<batch, fdOf, tasks, appVars, open, asserts, faultVars>>

-----------------------------------------------------------------------------
(* Other threads                                                           *)

CanPost == phase # "tasks" /\ Len(tasks) < MaxTasks

\* on_newfd of the creator, called in the listen thread.  The kernel gives any number
\* that is free.
Accept(f) ==
  /\ CanPost /\ f \notin open
  /\ \E c \in Channels : state[c] = "none"
  /\ open' = open \cup {f}
  /\ tasks' = Append(tasks, [kind |-> "newfd", what |-> f])
  /\ UNCHANGED <<phase, batch, state, fdOf, watched, list, scanVars, appVars, asserts, faultVars>>

\* send and close of the terminal, by who has a reference.
Post(kind, c) ==
  /\ CanPost /\ c \in held
  /\ kind \in {"send", "close"}
  /\ tasks' = Append(tasks, [kind |-> kind, what |-> c])
  /\ UNCHANGED <<phase, batch, state, fdOf, watched, list, scanVars, appVars, open, asserts, faultVars>>

\* The application drops its reference; the last one deletes the channel.
Drop(c) ==
  /\ c \in held
  /\ held' = held \ {c}
  /\ state' = [state EXCEPT ![c] = IF c \in Listed THEN @ ELSE "gone"]
  /\ careless' = (careless \/ Posted(c))
  /\ UNCHANGED <<phase, batch, fdOf, watched, list, scanVars, tasks, open, asserts, faultVars>>

-----------------------------------------------------------------------------
LoopStep == Poll \/ Event \/ EventsEnd \/ RunTask \/ TasksEnd \/ Idle

Next ==
  /\ Alive
  /\ \/ LoopStep
     \/ \E f \in Fds : Accept(f)
     \/ \E c \in Channels : Drop(c) \/ \E kind \in {"send", "close"} : Post(kind, c)

Spec == Init /\ [][Next]_vars

\* The loop turns.
FairSpec == Spec /\ WF_vars(Alive /\ LoopStep)

-----------------------------------------------------------------------------
(* Properties                                                              *)

TypeOK ==
  /\ phase \in {"poll", "events", "tasks", "idle"}
  /\ batch \in Seq(Channels)
  /\ state \in [Channels -> {"none", "normal", "release", "gone"}]
  /\ fdOf \in [Channels -> Fds]
  /\ watched \subseteq Channels
  /\ list \in [Fds -> Channels \cup {NoChannel}]
  /\ lastScan \in Fds \cup {0} /\ idleOn \in BOOLEAN
  /\ \A i \in 1 .. Len(tasks) :
       \/ tasks[i].kind = "newfd" /\ tasks[i].what \in Fds
       \/ tasks[i].kind \in {"send", "close"} /\ tasks[i].what \in Channels
  /\ held \subseteq Channels /\ open \subseteq Fds
  /\ asserts \in BOOLEAN /\ failure \in {"none", "event", "send"} /\ broken \in BOOLEAN /\ careless \in BOOLEAN

\* A deleted channel is used neither by the rest of a batch nor by a posted call,
\* unless the application lets the channel go with its own calls still posted: they
\* hold a bare pointer (tcp_server_channel.cpp:427-446, epoll_imp.cpp:34).
AliveWhenUsed == broken => careless

\* Every open descriptor of a connection is on its way to the creator or has one
\* channel, which is in the list, registered and normal; one that is on its way has
\* none, whatever stale entry its number has (tcp_server_channel_creator.cpp:43).
DescriptorsAccounted ==
  /\ watched = Normal
  /\ \A c \in Normal : list[fdOf[c]] = c /\ fdOf[c] \in open
  /\ \A f \in open :
       \/ list[f] \in Normal
       \/ \E i \in 1 .. Len(tasks) : tasks[i] = [kind |-> "newfd", what |-> f]

\* Closed channels leave the list (tcp_server_channel_creator.cpp:68-94).
ClosedIsRecovered == \A c \in Channels : (state[c] = "release") ~> (c \notin Listed \/ ~Alive)
=============================================================================
