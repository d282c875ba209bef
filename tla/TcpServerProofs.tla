--------------------------- MODULE TcpServerProofs ---------------------------
(***************************************************************************)
(* Proofs about TcpServer, for any number of workers and connections.      *)
(*                                                                         *)
(* WaitProtects is not inductive: that the listener has waited is seen     *)
(* only in a counter, so the counter has to be the number of the workers   *)
(* that are not ready (Counted), from when it is set.  That the handlers   *)
(* have not gone rests on the order of the destructor (Stopping).  The     *)
(* refinement of HandOver needs that a connection is in one place at a     *)
(* time, and once (OneHome).                                               *)
(***************************************************************************)
EXTENDS TcpServer, FiniteSetTheorems, SequenceTheorems, TLAPS

\* The types the argument needs.
ThreadsTyped ==
  /\ main \in {"new", "await", "spawn", "up", "stopListener", "gone"}
  /\ listener \in {"none", "init", "await", "poll", "accept", "tasks", "done"}
  /\ worker \in [Workers -> {"none", "init", "ready", "loop", "done"}]
  /\ handlers \in Seq(Workers) /\ posts \in Seq(Workers) /\ lastPos \in Nat

\* The threads come up in this order: the listener, the number to wait for, the workers.
Starting ==
  /\ main = "new" <=> listener = "none"
  /\ initDone <=> listener \notin {"none", "init"}
  /\ main \notin {"new", "await"} => initDone
  /\ main \in {"new", "await"} => \A w \in Workers : worker[w] = "none"
  /\ main \in {"up", "stopListener", "gone"} => \A w \in Workers : worker[w] # "none"
  /\ listen = "live" <=> listener \in {"await", "poll", "accept", "tasks"}

Unready == {w \in Workers : worker[w] \in {"none", "init", "ready"}}

\* Once it is set, the number to wait for is that of the workers that are not ready.
Counted == notReady = IF main \in {"new", "await"} THEN 0 ELSE Cardinality(Unready)

Listed(s) == {s[i] : i \in 1 .. Len(s)}

\* A worker that has called the tcp_listen is known to it, or will be.
Registered ==
  listen = "live" => \A w \in Workers \ (Listed(handlers) \cup Listed(posts)) : worker[w] \in {"none", "init"}

\* Who has waited is alone with workers that are ready.
Waited ==
  ~skipped =>
    /\ ~broken
    /\ listener \in {"poll", "accept", "tasks", "done"} => main \notin {"new", "await"} /\ Unready = {}

\* The destructor's order: the listener, then one worker after the other.
Stopping ==
  /\ quit # {} <=> main \in {"stopListener", "gone"}
  /\ quit # {} => 0 \in quit
  /\ \A w \in Workers : w \in quit => listener = "done"
  /\ \A w \in Workers : worker[w] = "done" => w \in quit
  /\ listener = "done" => handlers = << >> /\ 0 \in quit

Threads == ThreadsTyped /\ Starting /\ Counted /\ Registered /\ Waited /\ Stopping

-----------------------------------------------------------------------------
(* Where a connection is                                                    *)

ConnsTyped ==
  /\ backlog \in Seq(Conns) /\ handed \in [Workers -> Seq(Conns)] /\ channels \in [Workers -> SUBSET Conns]

NoTwice(s) == \A i, j \in 1 .. Len(s) : s[i] = s[j] => i = j

\* The connections a worker has, and those that are over for the server.
Has(w) == Listed(handed[w]) \cup channels[w]
Gone   == closed \cup lost

OneHome ==
  /\ closed \cap lost = {}
  /\ NoTwice(backlog) /\ Listed(backlog) \cap Gone = {}
  /\ \A w \in Workers :
       /\ NoTwice(handed[w]) /\ Listed(handed[w]) \cap channels[w] = {}
       /\ Has(w) \cap (Listed(backlog) \cup Gone) = {}
  /\ \A v, w \in Workers : v # w => Has(v) \cap Has(w) = {}

Homes == ConnsTyped /\ OneHome

-----------------------------------------------------------------------------
(* The threads                                                              *)

LEMMA WorkersFinite ==
  /\ IsFiniteSet(Workers) /\ Cardinality(Workers) = ThreadNum
  /\ 0 \notin Workers /\ ThreadNum \in Workers
  /\ \A S \in SUBSET Workers : IsFiniteSet(S)
<1>1. ThreadNum \in Nat /\ ThreadNum > 1
  BY ServerAssumption
<1>2. IsFiniteSet(Workers) /\ Cardinality(Workers) = ThreadNum
  BY <1>1, FS_Interval DEF Workers
<1>3. 0 \notin Workers /\ ThreadNum \in Workers
  BY <1>1 DEF Workers
<1> QED
  BY <1>2, <1>3, FS_Subset

LEMMA InitThreads == Init => Threads
<1> SUFFICES ASSUME Init
             PROVE  Threads
  OBVIOUS
<1>1. handlers = << >> /\ posts = << >> /\ quit = {} /\ worker = [w \in Workers |-> "none"]
  BY DEF Init
<1>2. << >> \in Seq(Workers)
  BY EmptySeq
<1> QED
  BY <1>1, <1>2 DEF Init, Threads, ThreadsTyped, Starting, Counted, Registered, Waited, Stopping

\* The threads stay where they are, but for a turn of the listener's loop.
LEMMA TurnKeeps ==
  ASSUME Threads, UNCHANGED <<main, worker, quit, startVars, listen, handlers, posts, broken>>,
         listener' = listener \/ {listener, listener'} \subseteq {"poll", "accept", "tasks"},
         lastPos' \in Nat
  PROVE  Threads'
<1>1. Unready' = Unready
  BY DEF Unready
<1>2. Counted'
  BY <1>1 DEF Threads, Counted, startVars
<1>3. Waited'
  BY <1>1 DEF Threads, Waited, startVars
<1> QED
  BY <1>2, <1>3 DEF Threads, ThreadsTyped, Starting, Registered, Stopping, startVars

\* What the listener hands goes on from the last position.
LEMMA NextHandler ==
  ASSUME ThreadsTyped, handlers # << >>
  PROVE  /\ lastPos % Len(handlers) \in Nat
         /\ (lastPos % Len(handlers)) + 1 \in 1 .. Len(handlers)
         /\ handlers[(lastPos % Len(handlers)) + 1] \in Workers
<1>1. Len(handlers) \in Nat /\ Len(handlers) > 0 /\ lastPos \in Nat
  BY EmptySeq, LenProperties DEF ThreadsTyped
<1>2. \A x \in Nat, n \in Nat \ {0} : x % n \in 0 .. n - 1
  OBVIOUS
<1>3. lastPos % Len(handlers) \in 0 .. Len(handlers) - 1
  BY <1>1, <1>2
<1>4. (lastPos % Len(handlers)) + 1 \in 1 .. Len(handlers)
  BY <1>1, <1>3
<1> QED
  BY <1>1, <1>3, <1>4, ElementOfSeq DEF ThreadsTyped

LEMMA TurnStep ==
  ASSUME Threads,
         \/ Poll \/ AcceptRefused \/ AcceptOne \/ AcceptFails \/ AcceptEnd
         \/ \E w \in Workers : HandOverStep(w) \/ \E c \in Conns : ChannelCloses(w, c)
         \/ \E c \in Conns : Connect(c)
         \/ UNCHANGED vars
  PROVE  Threads'
<1>1. UNCHANGED <<main, worker, quit, startVars, listen, handlers, posts, broken>>
  BY DEF Poll, AcceptRefused, AcceptOne, AcceptFails, AcceptEnd, HandOverStep, NewChannel, NewRefused, ChannelCloses,
         Connect, vars, ListenVarsButQueue, listenVars
<1>2. listener' = listener \/ {listener, listener'} \subseteq {"poll", "accept", "tasks"}
  BY DEF Poll, AcceptRefused, AcceptOne, AcceptFails, AcceptEnd, Accepting, HandOverStep, NewChannel, NewRefused,
         ChannelCloses, Connect, vars
<1>3. lastPos' \in Nat
  <2>1. CASE AcceptOne
    BY <2>1, NextHandler DEF AcceptOne, Threads
  <2>2. CASE lastPos' = lastPos
    BY <2>2 DEF Threads, ThreadsTyped
  <2> QED
    BY <2>1, <2>2 DEF Poll, AcceptRefused, AcceptFails, AcceptEnd, HandOverStep, NewChannel, NewRefused, ChannelCloses,
                      Connect, vars, listenVars
<1> QED
  BY <1>1, <1>2, <1>3, TurnKeeps

LEMMA StartStep ==
  ASSUME Threads, StartListener \/ SetCount \/ \E w \in Workers : StartWorker(w)
  PROVE  Threads'
<1> USE DEF Threads
<1>1. CASE StartListener
  <2>1. /\ main = "new" /\ main' = "await" /\ listener = "none" /\ listener' = "init"
        /\ UNCHANGED <<worker, quit, initDone, notReady, skipped, listen, handlers, posts, lastPos, broken>>
    BY <1>1 DEF StartListener, startVars, listenVars, Starting
  <2>2. Unready' = Unready
    BY <2>1 DEF Unready
  <2> QED
    BY <2>1, <2>2 DEF ThreadsTyped, Starting, Counted, Registered, Waited, Stopping
<1>2. CASE SetCount
  <2>1. /\ main = "await" /\ main' = "spawn" /\ initDone /\ notReady' = ThreadNum
        /\ UNCHANGED <<listener, worker, quit, initDone, skipped, listen, handlers, posts, lastPos, broken>>
    BY <1>2 DEF SetCount, ToWaitFor, listenVars
  <2>2. Unready' = Workers
    BY <2>1 DEF Unready, Starting
  <2>3. Counted'
    BY <2>1, <2>2, WorkersFinite DEF Counted
  <2>4. Waited'
    BY <2>1 DEF Waited
  <2> QED
    BY <2>1, <2>3, <2>4 DEF ThreadsTyped, Starting, Registered, Stopping
<1>3. ASSUME NEW w \in Workers, StartWorker(w)
      PROVE  Threads'
  <2>1. /\ main = "spawn" /\ worker[w] = "none" /\ worker' = [worker EXCEPT ![w] = "init"]
        /\ \A v \in Workers : v < w => worker[v] # "none"
        /\ main' = IF w = ThreadNum THEN "up" ELSE "spawn"
        /\ UNCHANGED <<listener, quit, initDone, notReady, skipped, listen, handlers, posts, lastPos, broken>>
    BY <1>3 DEF StartWorker, startVars, listenVars
  <2>2. ThreadsTyped'
    BY <2>1 DEF ThreadsTyped
  <2>3. /\ worker'[w] = "init" /\ \A v \in Workers \ {w} : worker'[v] = worker[v]
    BY <2>1 DEF ThreadsTyped
  <2>4. main' = "up" => \A v \in Workers : worker'[v] # "none"
    <3> SUFFICES ASSUME w = ThreadNum, NEW v \in Workers, v # w
                 PROVE  worker'[v] # "none"
      BY <2>1, <2>3
    <3>1. v < w
      BY ServerAssumption DEF Workers
    <3> QED
      BY <2>1, <2>3, <3>1
  <2>5. Starting'
    BY <2>1, <2>4 DEF Starting
  <2>6. Unready' = Unready
    BY <2>1, <2>3 DEF Unready
  <2>7. Counted'
    BY <2>1, <2>6 DEF Counted
  <2>8. Registered'
    BY <2>1, <2>3 DEF Registered
  <2>9. Waited'
    BY <2>1, <2>6 DEF Waited
  <2>10. Stopping'
    BY <2>1, <2>3 DEF Stopping
  <2> QED
    BY <2>2, <2>5, <2>7, <2>8, <2>9, <2>10
<1> QED
  BY <1>1, <1>2, <1>3

LEMMA ListenerStarts ==
  ASSUME Threads, ~broken, ListenInit \/ ListenStart
  PROVE  Threads'
<1> USE DEF Threads
<1>1. UNCHANGED <<main, worker, quit, notReady, handlers, posts, lastPos, broken>>
  BY DEF ListenInit, ListenStart
<1>2. Unready' = Unready
  BY <1>1 DEF Unready
<1>3. Counted'
  BY <1>1, <1>2 DEF Counted
<1>4. CASE ListenInit
  <2>1. listener = "init" /\ listener' = "await" /\ listen' = "live" /\ initDone' = TRUE /\ skipped' = skipped
    BY <1>4 DEF ListenInit
  <2>2. ~initDone /\ main \in {"new", "await"} /\ \A w \in Workers : worker[w] = "none"
    BY <2>1 DEF Starting, ThreadsTyped
  <2> QED
    BY <1>1, <1>3, <2>1, <2>2 DEF ThreadsTyped, Starting, Registered, Waited, Stopping
<1>5. CASE ListenStart
  <2>1. /\ listener = "await" /\ listener' = "poll" /\ notReady = 0 /\ skipped' = (main = "await")
        /\ UNCHANGED <<listen, initDone>>
    BY <1>5 DEF ListenStart, AllReady
  <2>2. main # "new"
    BY <2>1 DEF Starting
  <2>3. ~skipped' => Unready = {} /\ main \notin {"new", "await"}
    <3> SUFFICES ASSUME main # "await"
                 PROVE  Unready = {}
      BY <2>1, <2>2
    <3>1. Cardinality(Unready) = 0
      BY <2>1, <2>2 DEF Counted
    <3>2. IsFiniteSet(Unready)
      BY WorkersFinite DEF Unready
    <3> QED
      BY <3>1, <3>2, FS_EmptySet
  <2>4. Waited'
    BY <1>1, <1>2, <2>3 DEF Waited
  <2> QED
    BY <1>1, <1>3, <2>1, <2>4 DEF ThreadsTyped, Starting, Registered, Stopping
<1> QED
  BY <1>4, <1>5

LEMMA ListedAppend ==
  ASSUME NEW S, NEW s \in Seq(S), NEW x \in S
  PROVE  Listed(Append(s, x)) = Listed(s) \cup {x}
<1>1. /\ Len(Append(s, x)) = Len(s) + 1 /\ Len(s) \in Nat
      /\ \A i \in 1 .. Len(s) : Append(s, x)[i] = s[i]
      /\ Append(s, x)[Len(s) + 1] = x
  BY AppendProperties, LenProperties
<1>2. 1 .. Len(s) + 1 = (1 .. Len(s)) \cup {Len(s) + 1}
  BY <1>1
<1> QED
  BY <1>1, <1>2 DEF Listed

LEMMA ListedConcat ==
  ASSUME NEW S, NEW s \in Seq(S), NEW t \in Seq(S)
  PROVE  s \o t \in Seq(S) /\ Listed(s \o t) = Listed(s) \cup Listed(t)
<1>1. /\ s \o t \in Seq(S) /\ Len(s \o t) = Len(s) + Len(t) /\ Len(s) \in Nat /\ Len(t) \in Nat
      /\ \A i \in 1 .. Len(s) + Len(t) : (s \o t)[i] = IF i <= Len(s) THEN s[i] ELSE t[i - Len(s)]
  BY ConcatProperties, LenProperties
<1>2. Listed(s) \subseteq Listed(s \o t)
  BY <1>1 DEF Listed
<1>3. Listed(t) \subseteq Listed(s \o t)
  <2> SUFFICES ASSUME NEW i \in 1 .. Len(t)
               PROVE  t[i] \in Listed(s \o t)
    BY DEF Listed
  <2>1. /\ i + Len(s) \in 1 .. Len(s) + Len(t) /\ ~(i + Len(s) <= Len(s)) /\ (i + Len(s)) - Len(s) = i
    BY <1>1
  <2>2. (s \o t)[i + Len(s)] = t[i]
    BY <1>1, <2>1
  <2> QED
    BY <1>1, <2>1, <2>2 DEF Listed
<1>4. Listed(s \o t) \subseteq Listed(s) \cup Listed(t)
  <2> SUFFICES ASSUME NEW i \in 1 .. Len(s) + Len(t)
               PROVE  (s \o t)[i] \in Listed(s) \cup Listed(t)
    BY <1>1 DEF Listed
  <2>1. CASE i <= Len(s)
    BY <1>1, <2>1 DEF Listed
  <2>2. CASE ~(i <= Len(s))
    <3>1. i - Len(s) \in 1 .. Len(t)
      BY <1>1, <2>2
    <3> QED
      BY <1>1, <2>2, <3>1 DEF Listed
  <2> QED
    BY <2>1, <2>2
<1> QED
  BY <1>1, <1>2, <1>3, <1>4

LEMMA ListenerRuns ==
  ASSUME Threads, AddHandlers \/ ListenExit
  PROVE  Threads'
<1> USE DEF Threads
<1>1. UNCHANGED <<main, worker, quit, initDone, notReady, skipped, lastPos, broken>> /\ listener \in {"tasks", "poll"}
  BY DEF AddHandlers, ListenExit, startVars
<1>2. Unready' = Unready
  BY <1>1 DEF Unready
<1>3. Counted'
  BY <1>1, <1>2 DEF Counted
<1>4. Waited'
  BY <1>1, <1>2 DEF Waited, AddHandlers, ListenExit
<1>5. << >> \in Seq(Workers) /\ Listed(<< >>) = {}
  BY EmptySeq DEF Listed
<1>6. CASE AddHandlers
  <2>1. listener = "tasks" /\ listener' = "poll" /\ handlers' = handlers \o posts /\ posts' = << >> /\ listen' = listen
    BY <1>6 DEF AddHandlers
  <2>2. handlers' \in Seq(Workers) /\ Listed(handlers') \cup Listed(posts') = Listed(handlers) \cup Listed(posts)
    BY <1>5, <2>1, ListedConcat DEF ThreadsTyped
  <2>3. Registered'
    BY <1>1, <2>1, <2>2 DEF Registered
  <2>4. ThreadsTyped'
    BY <1>1, <1>5, <2>1, <2>2 DEF ThreadsTyped
  <2> QED
    BY <1>1, <1>3, <1>4, <2>1, <2>3, <2>4 DEF Starting, Stopping
<1>7. CASE ListenExit
  <2>1. /\ listener = "poll" /\ 0 \in quit /\ listener' = "done" /\ listen' = "deleted"
        /\ handlers' = << >> /\ posts' = << >>
    BY <1>7 DEF ListenExit
  <2> QED
    BY <1>1, <1>3, <1>4, <1>5, <2>1 DEF ThreadsTyped, Starting, Registered, Stopping
<1> QED
  BY <1>6, <1>7

LEMMA WorkerRuns ==
  ASSUME Threads, ~broken, NEW w \in Workers, WorkerStep(w)
  PROVE  Threads'
<1> USE DEF Threads
<1>1. CASE WorkerInit(w)
  <2>1. /\ worker[w] = "init" /\ worker' = [worker EXCEPT ![w] = "ready"]
        /\ UNCHANGED <<main, listener, quit, initDone, notReady, skipped, listen, handlers, lastPos>>
        /\ \/ listen = "live" /\ posts' = Append(posts, w) /\ broken' = broken
           \/ listen # "live" /\ posts' = posts /\ broken'
    BY <1>1 DEF WorkerInit, startVars
  <2>2. worker'[w] = "ready" /\ \A v \in Workers \ {w} : worker'[v] = worker[v]
    BY <2>1 DEF ThreadsTyped
  <2>3. Unready' = Unready /\ w \in Unready
    BY <2>1, <2>2 DEF Unready
  <2>4. posts' \in Seq(Workers) /\ (listen = "live" => Listed(posts') = Listed(posts) \cup {w})
    <3>1. Append(posts, w) \in Seq(Workers)
      BY AppendProperties DEF ThreadsTyped
    <3>2. Listed(Append(posts, w)) = Listed(posts) \cup {w}
      BY ListedAppend DEF ThreadsTyped
    <3> QED
      BY <2>1, <3>1, <3>2 DEF ThreadsTyped
  <2>5. ThreadsTyped' /\ Starting' /\ Stopping'
    BY <2>1, <2>2, <2>4 DEF ThreadsTyped, Starting, Stopping
  <2>6. Counted'
    BY <2>1, <2>3 DEF Counted
  <2>7. Registered'
    BY <2>1, <2>2, <2>4 DEF Registered
  <2>8. Waited'
    <3>1. main \notin {"new", "await"}
      BY <2>1 DEF Starting
    <3>2. ~skipped => listener \in {"await"}
      BY <2>1, <2>3, <3>1 DEF Starting, Waited, ThreadsTyped
    <3>3. ~skipped => listen = "live" /\ listener' = "await"
      BY <2>1, <3>2 DEF Starting
    <3> QED
      BY <2>1, <3>3 DEF Waited
  <2> QED
    BY <2>5, <2>6, <2>7, <2>8
<1>2. CASE WorkerReady(w)
  <2>1. /\ worker[w] = "ready" /\ worker' = [worker EXCEPT ![w] = "loop"] /\ notReady' = notReady - 1
        /\ UNCHANGED <<main, listener, quit, initDone, skipped, listen, handlers, posts, lastPos, broken>>
    BY <1>2 DEF WorkerReady, listenVars
  <2>2. worker'[w] = "loop" /\ \A v \in Workers \ {w} : worker'[v] = worker[v]
    BY <2>1 DEF ThreadsTyped
  <2>3. Unready' = Unready \ {w} /\ w \in Unready
    BY <2>1, <2>2 DEF Unready
  <2>4. ThreadsTyped' /\ Starting' /\ Stopping'
    BY <2>1, <2>2 DEF ThreadsTyped, Starting, Stopping
  <2>5. Counted'
    <3>1. IsFiniteSet(Unready)
      BY WorkersFinite DEF Unready
    <3>2. Cardinality(Unready') = Cardinality(Unready) - 1
      BY <2>3, <3>1, FS_RemoveElement
    <3>3. main \notin {"new", "await"}
      BY <2>1 DEF Starting
    <3> QED
      BY <2>1, <3>2, <3>3 DEF Counted
  <2>6. Registered'
    BY <2>1, <2>2 DEF Registered
  <2>7. Waited'
    BY <2>1, <2>3 DEF Waited
  <2> QED
    BY <2>4, <2>5, <2>6, <2>7
<1>3. CASE WorkerExit(w)
  <2>1. /\ worker[w] = "loop" /\ w \in quit /\ worker' = [worker EXCEPT ![w] = "done"]
        /\ UNCHANGED <<main, listener, quit, initDone, notReady, skipped, listen, handlers, posts, lastPos, broken>>
    BY <1>3 DEF WorkerExit, startVars, listenVars
  <2>2. worker'[w] = "done" /\ \A v \in Workers \ {w} : worker'[v] = worker[v]
    BY <2>1 DEF ThreadsTyped
  <2>3. Unready' = Unready
    BY <2>1, <2>2 DEF Unready
  <2>4. ThreadsTyped' /\ Starting' /\ Stopping'
    BY <2>1, <2>2 DEF ThreadsTyped, Starting, Stopping
  <2>5. Counted' /\ Waited'
    BY <2>1, <2>3 DEF Counted, Waited
  <2>6. Registered'
    BY <2>1, <2>2 DEF Registered
  <2> QED
    BY <2>4, <2>5, <2>6
<1> QED
  BY <1>1, <1>2, <1>3 DEF WorkerStep

LEMMA DestructorStep ==
  ASSUME Threads, Destroy \/ Destroyed \/ \E w \in Workers : StopNext(w)
  PROVE  Threads'
<1> USE DEF Threads
<1>1. UNCHANGED <<listener, worker, initDone, notReady, skipped, listen, handlers, posts, lastPos, broken>>
  BY DEF Destroy, Destroyed, StopNext, startVars, listenVars
<1>2. main \in {"up", "stopListener"} /\ main' \in {"stopListener", "gone"}
  BY DEF Destroy, Destroyed, StopNext
<1>3. Unready' = Unready
  BY <1>1 DEF Unready
<1>4. ThreadsTyped' /\ Starting' /\ Counted' /\ Registered' /\ Waited'
  BY <1>1, <1>2, <1>3 DEF ThreadsTyped, Starting, Counted, Registered, Waited
<1>5. CASE Destroy
  <2>1. quit = {} /\ quit' = {0} /\ main' = "stopListener"
    BY <1>5 DEF Destroy, FirstOut, Stopping
  <2> QED
    BY <1>1, <1>4, <2>1, WorkersFinite DEF Stopping
<1>6. CASE Destroyed
  <2>1. quit' = quit /\ main = "stopListener" /\ main' = "gone"
    BY <1>6 DEF Destroyed
  <2> QED
    BY <1>1, <1>4, <2>1 DEF Stopping
<1>7. ASSUME NEW w \in Workers, StopNext(w)
      PROVE  Threads'
  <2>1. main = "stopListener" /\ main' = main /\ quit' = quit \cup {w} /\ \A t \in quit : Done(t)
    BY <1>7 DEF StopNext
  <2>2. 0 \in quit /\ listener = "done"
    BY <2>1 DEF Stopping, Done
  <2> QED
    BY <1>1, <1>4, <2>1, <2>2 DEF Stopping
<1> QED
  BY <1>5, <1>6, <1>7

LEMMA ThreadsStep == Threads /\ [Next]_vars => Threads'
<1> SUFFICES ASSUME Threads, [Next]_vars
             PROVE  Threads'
  OBVIOUS
<1>1. CASE UNCHANGED vars
  BY <1>1, TurnStep
<1>2. CASE ~broken /\ (OwnerStep \/ Destroy)
  BY <1>2, StartStep, DestructorStep DEF OwnerStep
<1>3. CASE ~broken /\ ListenerStep
  BY <1>3, ListenerStarts, ListenerRuns, TurnStep DEF ListenerStep
<1>4. CASE ~broken /\ \E w \in Workers : WorkerStep(w) \/ HandOverStep(w) \/ \E c \in Conns : ChannelCloses(w, c)
  BY <1>4, WorkerRuns, TurnStep
<1>5. CASE \E c \in Conns : Connect(c)
  BY <1>5, TurnStep
<1> QED
  BY <1>1, <1>2, <1>3, <1>4, <1>5 DEF Next

LEMMA ThreadsHold == Spec => []Threads
BY InitThreads, ThreadsStep, PTL DEF Spec

\* A listener that did wait is never called after it was deleted, and every worker is
\* registered, or about to be, before the first connection can come.
THEOREM WaitProtectsHolds == Spec => []WaitProtects
<1>1. Threads => WaitProtects
  <2> SUFFICES ASSUME Threads, ~skipped, listener \in {"poll", "accept", "tasks"}
               PROVE  Workers = Listed(handlers) \cup Listed(posts)
    BY DEF Threads, Waited, WaitProtects, Listed
  <2>1. Unready = {} /\ listen = "live"
    BY DEF Threads, Waited, Starting
  <2>2. Workers \subseteq Listed(handlers) \cup Listed(posts)
    BY <2>1 DEF Threads, Registered, Unready
  <2>3. Listed(handlers) \subseteq Workers /\ Listed(posts) \subseteq Workers
    BY ElementOfSeq DEF Threads, ThreadsTyped, Listed
  <2> QED
    BY <2>2, <2>3
<1> QED
  BY <1>1, ThreadsHold, PTL

\* No worker that a listener can still hand a connection to has gone.
THEOREM OwnersOutliveListenerHolds == Spec => []OwnersOutliveListener
<1>1. Threads => OwnersOutliveListener
  <2> SUFFICES ASSUME Threads, NEW i \in 1 .. Len(handlers), worker[handlers[i]] = "done"
               PROVE  FALSE
    BY DEF OwnersOutliveListener
  <2>1. handlers[i] \in Workers
    BY ElementOfSeq DEF Threads, ThreadsTyped
  <2>2. handlers = << >>
    BY <2>1 DEF Threads, Stopping
  <2> QED
    BY <2>2, EmptySeq
<1> QED
  BY <1>1, ThreadsHold, PTL

\* A connection in the backlog has an event to come or an accepting listener, unless an
\* accept has failed.
THEOREM NoneForgottenHolds == Spec => []NoneForgotten
<1>1. Init => NoneForgotten
  BY DEF Init, NoneForgotten
<1>2. Threads /\ NoneForgotten /\ [Next]_vars => NoneForgotten'
  <2> SUFFICES ASSUME Threads, NoneForgotten, [Next]_vars
               PROVE  NoneForgotten'
    OBVIOUS
  <2> USE DEF NoneForgotten
  <2>1. CASE OwnerStep \/ Destroy \/ UNCHANGED vars
    BY <2>1 DEF OwnerStep, StartListener, SetCount, StartWorker, StopNext, Destroyed, Destroy, vars, listenVars,
                Threads, Starting
  <2>2. CASE ListenInit \/ ListenStart \/ Poll
    BY <2>2 DEF ListenInit, ListenStart, Poll
  <2>3. CASE AcceptRefused \/ AcceptOne
    BY <2>3 DEF AcceptRefused, AcceptOne, Accepting
  <2>4. CASE AcceptFails \/ AcceptEnd
    BY <2>4 DEF AcceptFails, AcceptEnd, AcceptOver, listenVars
  <2>5. CASE AddHandlers \/ ListenExit
    BY <2>5 DEF AddHandlers, ListenExit
  <2>6. CASE \E w \in Workers : WorkerStep(w) \/ HandOverStep(w) \/ \E c \in Conns : ChannelCloses(w, c)
    BY <2>6 DEF WorkerStep, WorkerInit, WorkerReady, WorkerExit, HandOverStep, NewChannel, NewRefused, ChannelCloses,
                listenVars
  <2>7. CASE \E c \in Conns : Connect(c)
    BY <2>7 DEF Connect
  <2> QED
    BY <2>1, <2>2, <2>3, <2>4, <2>5, <2>6, <2>7 DEF Next, ListenerStep
<1> QED
  BY <1>1, <1>2, ThreadsHold, PTL DEF Spec

-----------------------------------------------------------------------------
(* The connections                                                          *)

LEMMA FirstOfMany ==
  ASSUME NEW S, NEW s \in Seq(S), s # << >>, NoTwice(s)
  PROVE  /\ Head(s) \in S /\ Tail(s) \in Seq(S)
         /\ Head(s) \in Listed(s) /\ Listed(Tail(s)) = Listed(s) \ {Head(s)}
         /\ NoTwice(Tail(s))
<1>1. /\ Head(s) \in S /\ Tail(s) \in Seq(S) /\ Len(Tail(s)) = Len(s) - 1
      /\ \A i \in 1 .. Len(Tail(s)) : Tail(s)[i] = s[i + 1]
  BY HeadTailProperties
<1>2. Len(s) \in Nat /\ Len(s) >= 1 /\ Head(s) = s[1]
  BY EmptySeq
<1>3. Head(s) \in Listed(s)
  BY <1>2 DEF Listed
<1>4. Listed(Tail(s)) \subseteq Listed(s) \ {Head(s)}
  <2> SUFFICES ASSUME NEW i \in 1 .. Len(Tail(s))
               PROVE  Tail(s)[i] \in Listed(s) /\ Tail(s)[i] # Head(s)
    BY DEF Listed
  <2>1. i + 1 \in 1 .. Len(s) /\ i + 1 # 1 /\ 1 \in 1 .. Len(s) /\ Tail(s)[i] = s[i + 1]
    BY <1>1, <1>2
  <2> QED
    BY <1>2, <2>1 DEF Listed, NoTwice
<1>5. Listed(s) \ {Head(s)} \subseteq Listed(Tail(s))
  <2> SUFFICES ASSUME NEW i \in 1 .. Len(s), s[i] # Head(s)
               PROVE  s[i] \in Listed(Tail(s))
    BY DEF Listed
  <2>1. i - 1 \in 1 .. Len(Tail(s)) /\ (i - 1) + 1 = i
    BY <1>1, <1>2
  <2> QED
    BY <1>1, <2>1 DEF Listed
<1>6. NoTwice(Tail(s))
  <2> SUFFICES ASSUME NEW i \in 1 .. Len(Tail(s)), NEW j \in 1 .. Len(Tail(s)), Tail(s)[i] = Tail(s)[j]
               PROVE  i = j
    BY DEF NoTwice
  <2>1. i + 1 \in 1 .. Len(s) /\ j + 1 \in 1 .. Len(s) /\ s[i + 1] = s[j + 1]
    BY <1>1, <1>2
  <2>2. i + 1 = j + 1
    BY <2>1 DEF NoTwice
  <2> QED
    BY <2>2
<1> QED
  BY <1>1, <1>3, <1>4, <1>5, <1>6

LEMMA OneMore ==
  ASSUME NEW S, NEW s \in Seq(S), NEW x \in S, x \notin Listed(s), NoTwice(s)
  PROVE  /\ Append(s, x) \in Seq(S) /\ NoTwice(Append(s, x))
         /\ Listed(Append(s, x)) = Listed(s) \cup {x}
<1>1. /\ Append(s, x) \in Seq(S) /\ Len(Append(s, x)) = Len(s) + 1 /\ Len(s) \in Nat
      /\ \A i \in 1 .. Len(s) : Append(s, x)[i] = s[i]
      /\ Append(s, x)[Len(s) + 1] = x
  BY AppendProperties, LenProperties
<1>2. ASSUME NEW i \in 1 .. Len(s) + 1, NEW j \in 1 .. Len(s) + 1, Append(s, x)[i] = Append(s, x)[j]
      PROVE  i = j
  <2>1. ASSUME NEW k \in 1 .. Len(s)
        PROVE  Append(s, x)[k] = s[k] /\ s[k] # x
    BY <1>1 DEF Listed
  <2>2. CASE i \in 1 .. Len(s) /\ j \in 1 .. Len(s)
    BY <1>2, <2>1, <2>2 DEF NoTwice
  <2>3. CASE i = Len(s) + 1 /\ j \in 1 .. Len(s)
    BY <1>1, <1>2, <2>1, <2>3
  <2>4. CASE i \in 1 .. Len(s) /\ j = Len(s) + 1
    BY <1>1, <1>2, <2>1, <2>4
  <2> QED
    BY <1>1, <2>2, <2>3, <2>4
<1> QED
  BY <1>1, <1>2, ListedAppend DEF NoTwice

LEMMA NoneListed == NoTwice(<< >>) /\ Listed(<< >>) = {}
BY EmptySeq DEF NoTwice, Listed

LEMMA InitHomes == Init => Homes
<1> SUFFICES ASSUME Init
             PROVE  Homes
  OBVIOUS
<1>1. /\ backlog = << >> /\ closed = {} /\ lost = {}
      /\ handed = [w \in Workers |-> << >>] /\ channels = [w \in Workers |-> {}]
  BY DEF Init
<1>2. \A w \in Workers : handed[w] = << >> /\ channels[w] = {} /\ Has(w) = {}
  BY <1>1, NoneListed DEF Has
<1>3. << >> \in Seq(Conns)
  BY EmptySeq
<1> QED
  BY <1>1, <1>2, <1>3, NoneListed DEF Homes, ConnsTyped, OneHome, Gone

\* A step of one worker's connections: what it has comes from there or from the backlog,
\* what it has no more is over.
LEMMA HomeOfOne ==
  ASSUME Homes, NEW w \in Workers,
         NEW h \in Seq(Conns), NEW cs \in SUBSET Conns,
         handed' = [handed EXCEPT ![w] = h], channels' = [channels EXCEPT ![w] = cs],
         backlog' \in Seq(Conns), NoTwice(backlog'), Listed(backlog') \subseteq Listed(backlog),
         NoTwice(h), Listed(h) \cap cs = {},
         Listed(h) \cup cs \subseteq Has(w) \cup (Listed(backlog) \ Listed(backlog')),
         closed \subseteq closed', closed' \subseteq closed \cup (Has(w) \ (Listed(h) \cup cs)),
         lost \subseteq lost', lost' \subseteq lost \cup (Has(w) \ (Listed(h) \cup cs)),
         closed' = closed \/ lost' = lost
  PROVE  Homes'
<1>1. handed' \in [Workers -> Seq(Conns)] /\ channels' \in [Workers -> SUBSET Conns]
  BY DEF Homes, ConnsTyped
<1>2. handed'[w] = h /\ channels'[w] = cs
  BY DEF Homes, ConnsTyped
<1>3. \A v \in Workers \ {w} : handed'[v] = handed[v] /\ channels'[v] = channels[v]
  BY DEF Homes, ConnsTyped
<1>4. Has(w)' = Listed(h) \cup cs /\ \A v \in Workers \ {w} : Has(v)' = Has(v)
  BY <1>2, <1>3 DEF Has
<1>5. closed' \cap lost' = {}
  BY DEF Homes, OneHome, Gone
<1>6. Listed(backlog') \cap Gone' = {}
  BY DEF Homes, OneHome, Gone
<1>7. Has(w)' \cap (Listed(backlog') \cup Gone') = {}
  BY <1>4 DEF Homes, OneHome, Gone
<1>8. ASSUME NEW v \in Workers \ {w}
      PROVE  /\ NoTwice(handed'[v]) /\ Listed(handed'[v]) \cap channels'[v] = {}
             /\ Has(v)' \cap (Listed(backlog') \cup Gone') = {}
             /\ Has(v)' \cap Has(w)' = {}
  <2>1. Has(v) \cap Has(w) = {} /\ Has(v) \cap (Listed(backlog) \cup Gone) = {}
    BY DEF Homes, OneHome
  <2>2. Has(v)' \cap (Listed(backlog') \cup Gone') = {}
    BY <1>4, <2>1 DEF Gone
  <2>3. Has(v)' \cap Has(w)' = {}
    BY <1>4, <2>1
  <2> QED
    BY <1>3, <2>2, <2>3 DEF Homes, OneHome
<1>9. ASSUME NEW u \in Workers, NEW v \in Workers, u # v
      PROVE  Has(u)' \cap Has(v)' = {}
  <2>1. CASE u # w /\ v # w
    BY <1>4, <1>9, <2>1 DEF Homes, OneHome
  <2>2. CASE u = w \/ v = w
    BY <1>8, <1>9, <2>2
  <2> QED
    BY <2>1, <2>2
<1>10. OneHome'
  BY <1>2, <1>5, <1>6, <1>7, <1>8, <1>9 DEF OneHome
<1> QED
  BY <1>1, <1>10 DEF Homes, ConnsTyped

\* A step of the backlog: what leaves it is closed, what comes is new.
LEMMA HomeOfBacklog ==
  ASSUME Homes, UNCHANGED <<handed, channels, lost>>,
         backlog' \in Seq(Conns), NoTwice(backlog'),
         closed \subseteq closed', closed' \subseteq closed \cup (Listed(backlog) \ Listed(backlog')),
         \A c \in Listed(backlog') \ Listed(backlog) : c \notin Gone /\ \A w \in Workers : c \notin Has(w)
  PROVE  Homes'
<1>1. \A w \in Workers : Has(w)' = Has(w)
  BY DEF Has
<1>2. closed' \cap lost' = {} /\ Listed(backlog') \cap Gone' = {}
  BY DEF Homes, OneHome, Gone
<1>3. ASSUME NEW w \in Workers
      PROVE  Has(w)' \cap (Listed(backlog') \cup Gone') = {}
  <2>1. Has(w) \cap (Listed(backlog) \cup Gone) = {}
    BY DEF Homes, OneHome
  <2> QED
    BY <1>1, <2>1 DEF Gone
<1> QED
  BY <1>1, <1>2, <1>3 DEF Homes, ConnsTyped, OneHome

LEMMA HomesStep ==
  ASSUME Threads, Homes, [Next]_vars
  PROVE  Homes'
<1>1. ASSUME UNCHANGED <<backlog, connVars>>
      PROVE  Homes'
  <2>1. \A w \in Workers : Has(w)' = Has(w)
    BY <1>1 DEF Has, connVars
  <2> QED
    BY <1>1, <2>1 DEF Homes, ConnsTyped, OneHome, Gone, connVars
<1>2. CASE OwnerStep \/ Destroy \/ UNCHANGED vars
  BY <1>1, <1>2 DEF OwnerStep, StartListener, SetCount, StartWorker, StopNext, Destroyed, Destroy, vars, listenVars
<1>3. CASE ListenInit \/ ListenStart \/ Poll \/ AcceptFails \/ AcceptEnd \/ AddHandlers
  BY <1>1, <1>3 DEF ListenInit, ListenStart, Poll, AcceptFails, AcceptEnd, AddHandlers, listenVars
<1>4. CASE \E w \in Workers : WorkerInit(w) \/ WorkerReady(w)
  BY <1>1, <1>4 DEF WorkerInit, WorkerReady, listenVars
<1>5. backlog \in Seq(Conns) /\ NoTwice(backlog)
  BY DEF Homes, ConnsTyped, OneHome
<1>6. CASE AcceptRefused
  <2>1. backlog # << >> /\ backlog' = Tail(backlog) /\ closed' = closed \cup {Head(backlog)}
    BY <1>6 DEF AcceptRefused, Accepting
  <2>2. UNCHANGED <<handed, channels, lost>>
    BY <1>6 DEF AcceptRefused
  <2> QED
    BY <1>5, <2>1, <2>2, FirstOfMany, HomeOfBacklog
<1>7. CASE ListenExit
  <2>1. backlog' = << >> /\ closed' = closed \cup Listed(backlog) /\ UNCHANGED <<handed, channels, lost>>
    BY <1>7 DEF ListenExit, Listed
  <2>2. << >> \in Seq(Conns)
    BY EmptySeq
  <2> QED
    BY <2>1, <2>2, NoneListed, HomeOfBacklog
<1>8. ASSUME NEW c \in Conns, Connect(c)
      PROVE  Homes'
  <2>1. backlog' = Append(backlog, c) /\ UNCHANGED <<handed, channels, lost, closed>>
    BY <1>8 DEF Connect, connVars
  <2>2. c \notin Listed(backlog) /\ c \notin Gone /\ \A w \in Workers : c \notin Has(w)
    BY <1>8 DEF Connect, Used, Listed, Gone, Has
  <2>3. backlog' \in Seq(Conns) /\ NoTwice(backlog') /\ Listed(backlog') = Listed(backlog) \cup {c}
    BY <1>5, <2>1, <2>2, OneMore
  <2> QED
    BY <2>1, <2>2, <2>3, HomeOfBacklog
<1>9. CASE AcceptOne
  <2> DEFINE w == handlers[(lastPos % Len(handlers)) + 1]
             x == Head(backlog)
  <2>1. /\ backlog # << >> /\ handlers # << >> /\ backlog' = Tail(backlog)
        /\ handed' = [handed EXCEPT ![w] = Append(handed[w], x)]
        /\ UNCHANGED <<channels, closed, lost>>
    BY <1>9 DEF AcceptOne, Accepting
  <2>2. w \in Workers
    BY <2>1, NextHandler DEF Threads
  <2> HIDE DEF w
  <2>3. /\ backlog' \in Seq(Conns) /\ NoTwice(backlog') /\ Listed(backlog') = Listed(backlog) \ {x}
        /\ x \in Listed(backlog) /\ x \in Conns
    BY <1>5, <2>1, FirstOfMany
  <2> HIDE DEF x
  <2>4. /\ handed[w] \in Seq(Conns) /\ NoTwice(handed[w]) /\ channels[w] \in SUBSET Conns
        /\ Listed(handed[w]) \cap channels[w] = {} /\ x \notin Has(w)
    BY <2>2, <2>3 DEF Homes, ConnsTyped, OneHome
  <2>5. /\ Append(handed[w], x) \in Seq(Conns) /\ NoTwice(Append(handed[w], x))
        /\ Listed(Append(handed[w], x)) = Listed(handed[w]) \cup {x}
    BY <2>3, <2>4, OneMore DEF Has
  <2>6. channels' = [channels EXCEPT ![w] = channels[w]]
    BY <2>1 DEF Homes, ConnsTyped
  <2>7. /\ Listed(Append(handed[w], x)) \cap channels[w] = {}
        /\ Listed(Append(handed[w], x)) \cup channels[w] \subseteq Has(w) \cup (Listed(backlog) \ Listed(backlog'))
    BY <2>3, <2>4, <2>5 DEF Has
  <2> QED
    BY <2>1, <2>2, <2>3, <2>4, <2>5, <2>6, <2>7, HomeOfOne
<1>10. ASSUME NEW w \in Workers, NewChannel(w) \/ NewRefused(w)
       PROVE  Homes'
  <2> DEFINE x == Head(handed[w])
  <2>1. handed[w] # << >> /\ handed' = [handed EXCEPT ![w] = Tail(handed[w])] /\ UNCHANGED <<backlog, lost>>
    BY <1>10 DEF NewChannel, NewRefused, Handing, Rest, listenVars
  <2>2. handed[w] \in Seq(Conns) /\ NoTwice(handed[w]) /\ channels[w] \in SUBSET Conns
    BY DEF Homes, ConnsTyped, OneHome
  <2>3. /\ Tail(handed[w]) \in Seq(Conns) /\ NoTwice(Tail(handed[w]))
        /\ Listed(Tail(handed[w])) = Listed(handed[w]) \ {x} /\ x \in Listed(handed[w]) /\ x \in Conns
    BY <2>1, <2>2, FirstOfMany
  <2>4. Listed(handed[w]) \cap channels[w] = {}
    BY DEF Homes, OneHome
  <2>5. CASE NewChannel(w)
    <3>1. channels' = [channels EXCEPT ![w] = channels[w] \cup {x}] /\ closed' = closed
      BY <2>5 DEF NewChannel
    <3> HIDE DEF x
    <3>2. /\ channels[w] \cup {x} \in SUBSET Conns
          /\ Listed(Tail(handed[w])) \cap (channels[w] \cup {x}) = {}
          /\ Listed(Tail(handed[w])) \cup (channels[w] \cup {x}) \subseteq Has(w)
      BY <2>2, <2>3, <2>4 DEF Has
    <3> QED
      BY <1>5, <2>1, <2>3, <3>1, <3>2, HomeOfOne
  <2>6. CASE NewRefused(w)
    <3>1. channels' = [channels EXCEPT ![w] = channels[w]] /\ closed' = closed \cup {x}
      BY <2>6 DEF NewRefused, Homes, ConnsTyped
    <3> HIDE DEF x
    <3>2. /\ Listed(Tail(handed[w])) \cap channels[w] = {}
          /\ Listed(Tail(handed[w])) \cup channels[w] \subseteq Has(w)
          /\ x \in Has(w) \ (Listed(Tail(handed[w])) \cup channels[w])
      BY <2>3, <2>4 DEF Has
    <3> QED
      BY <1>5, <2>1, <2>2, <2>3, <3>1, <3>2, HomeOfOne
  <2> QED
    BY <1>10, <2>5, <2>6
<1>11. ASSUME NEW w \in Workers, NEW c \in Conns, ChannelCloses(w, c)
       PROVE  Homes'
  <2>1. /\ channels' = [channels EXCEPT ![w] = channels[w] \ {c}] /\ closed' = closed \cup {c} /\ c \in channels[w]
        /\ UNCHANGED <<backlog, lost>> /\ handed' = [handed EXCEPT ![w] = handed[w]]
    BY <1>11 DEF ChannelCloses, listenVars, Homes, ConnsTyped
  <2>2. /\ handed[w] \in Seq(Conns) /\ NoTwice(handed[w]) /\ channels[w] \ {c} \in SUBSET Conns
        /\ Listed(handed[w]) \cap channels[w] = {}
    BY DEF Homes, ConnsTyped, OneHome
  <2>3. /\ Listed(handed[w]) \cap (channels[w] \ {c}) = {}
        /\ Listed(handed[w]) \cup (channels[w] \ {c}) \subseteq Has(w)
        /\ c \in Has(w) \ (Listed(handed[w]) \cup (channels[w] \ {c}))
    BY <2>1, <2>2 DEF Has
  <2>4. /\ closed \subseteq closed' /\ lost \subseteq lost' /\ lost' = lost /\ backlog' = backlog
        /\ closed' \subseteq closed \cup (Has(w) \ (Listed(handed[w]) \cup (channels[w] \ {c})))
        /\ lost' \subseteq lost \cup (Has(w) \ (Listed(handed[w]) \cup (channels[w] \ {c})))
        /\ Listed(handed[w]) \cup (channels[w] \ {c}) \subseteq Has(w) \cup (Listed(backlog) \ Listed(backlog'))
    BY <2>1, <2>3
  <2>5. backlog' \in Seq(Conns) /\ NoTwice(backlog') /\ Listed(backlog') \subseteq Listed(backlog)
    BY <1>5, <2>4
  <2> QED
    BY <2>1, <2>2, <2>3, <2>4, <2>5, HomeOfOne
<1>12. ASSUME NEW w \in Workers, WorkerExit(w)
       PROVE  Homes'
  <2>1. /\ channels' = [channels EXCEPT ![w] = {}] /\ handed' = [handed EXCEPT ![w] = << >>]
        /\ lost' = lost \cup Has(w) /\ UNCHANGED <<backlog, closed>>
    BY <1>12 DEF WorkerExit, listenVars, Has, Listed
  <2>2. << >> \in Seq(Conns) /\ {} \in SUBSET Conns
    BY EmptySeq
  <2>3. Listed(<< >>) \cup {} = {} /\ Listed(<< >>) \cap {} = {}
    BY NoneListed
  <2> QED
    BY <1>5, <2>1, <2>2, <2>3, NoneListed, HomeOfOne
<1> QED
  BY <1>2, <1>3, <1>4, <1>6, <1>7, <1>8, <1>9, <1>10, <1>11, <1>12 DEF Next, ListenerStep, WorkerStep, HandOverStep

-----------------------------------------------------------------------------
(* TcpServer implements HandOver                                            *)

\* The abstract state of a connection is that of its one home.
Placed ==
  \A c \in Conns :
    /\ c \in lost => PlaceOf(c) = "lost"
    /\ c \in closed => PlaceOf(c) = "closed"
    /\ c \in Listed(backlog) => PlaceOf(c) = "waiting"
    /\ \A w \in Workers :
         /\ c \in Listed(handed[w]) => PlaceOf(c) = "handed"
         /\ c \in channels[w] => PlaceOf(c) = "served"
         /\ c \in Has(w) => OwnerOf(c) = w
    /\ (\A w \in Workers : c \notin Has(w)) =>
         /\ OwnerOf(c) = Nobody
         /\ c \notin Listed(backlog) \cup Gone => PlaceOf(c) = "away"

LEMMA WithinIs ==
  ASSUME NEW c, NEW s
  PROVE  Within(c, s) <=> c \in Listed(s)
BY DEF Within, Listed

LEMMA HomesPlaced == Homes => Placed
<1> SUFFICES ASSUME Homes, NEW c \in Conns
             PROVE  /\ c \in lost => PlaceOf(c) = "lost"
                    /\ c \in closed => PlaceOf(c) = "closed"
                    /\ c \in Listed(backlog) => PlaceOf(c) = "waiting"
                    /\ \A w \in Workers :
                         /\ c \in Listed(handed[w]) => PlaceOf(c) = "handed"
                         /\ c \in channels[w] => PlaceOf(c) = "served"
                         /\ c \in Has(w) => OwnerOf(c) = w
                    /\ (\A w \in Workers : c \notin Has(w)) =>
                         /\ OwnerOf(c) = Nobody
                         /\ c \notin Listed(backlog) \cup Gone => PlaceOf(c) = "away"
  BY DEF Placed
<1>1. /\ Within(c, backlog) <=> c \in Listed(backlog)
      /\ \A w \in Workers : Within(c, handed[w]) <=> c \in Listed(handed[w])
  BY WithinIs
<1>2. HeldBy(c) = {w \in Workers : c \in Has(w)}
  BY <1>1 DEF HeldBy, Has
<1>3. closed \cap lost = {} /\ Listed(backlog) \cap Gone = {}
  BY DEF Homes, OneHome
<1>4. c \in lost => PlaceOf(c) = "lost"
  BY DEF PlaceOf
<1>5. c \in closed => PlaceOf(c) = "closed"
  BY <1>3 DEF PlaceOf
<1>6. c \in Listed(backlog) => PlaceOf(c) = "waiting"
  BY <1>1, <1>3 DEF PlaceOf, Gone
<1>7. ASSUME NEW w \in Workers, c \in Has(w)
      PROVE  /\ c \in Listed(handed[w]) => PlaceOf(c) = "handed"
             /\ c \in channels[w] => PlaceOf(c) = "served"
             /\ OwnerOf(c) = w
  <2>1. c \notin lost /\ c \notin closed /\ ~Within(c, backlog)
    BY <1>1, <1>7 DEF Homes, OneHome, Gone
  <2>2. \A v \in Workers \ {w} : c \notin Has(v)
    BY <1>7 DEF Homes, OneHome
  <2>3. ~(c \in Listed(handed[w]) /\ c \in channels[w])
    BY DEF Homes, OneHome
  <2>4. c \in Listed(handed[w]) => PlaceOf(c) = "handed"
    BY <1>1, <2>1 DEF PlaceOf
  <2>5. c \in channels[w] => PlaceOf(c) = "served"
    BY <1>1, <2>1, <2>2, <2>3 DEF PlaceOf, Has
  <2>6. HeldBy(c) = {w}
    BY <1>2, <1>7, <2>2
  <2>7. HeldBy(c) # {} /\ \A v \in Workers : HeldBy(c) = {v} <=> v = w
    BY <2>6
  <2>8. OwnerOf(c) = w
    BY <2>7 DEF OwnerOf
  <2> QED
    BY <2>4, <2>5, <2>8
<1>8. ASSUME \A w \in Workers : c \notin Has(w)
      PROVE  /\ OwnerOf(c) = Nobody
             /\ c \notin Listed(backlog) \cup Gone => PlaceOf(c) = "away"
  BY <1>1, <1>2, <1>8 DEF OwnerOf, PlaceOf, Has, Gone
<1> QED
  BY <1>4, <1>5, <1>6, <1>7, <1>8 DEF Has

\* Nothing has happened to a connection.
Unmoved(c) ==
  /\ c \in lost' <=> c \in lost
  /\ c \in closed' <=> c \in closed
  /\ c \in Listed(backlog') <=> c \in Listed(backlog)
  /\ \A w \in Workers :
       /\ c \in Listed(handed'[w]) <=> c \in Listed(handed[w])
       /\ c \in channels'[w] <=> c \in channels[w]

LEMMA UnmovedStays ==
  ASSUME NEW c \in Conns, Unmoved(c)
  PROVE  PlaceOf(c)' = PlaceOf(c) /\ OwnerOf(c)' = OwnerOf(c)
<1>1. /\ Within(c, backlog') <=> Within(c, backlog)
      /\ \A w \in Workers : Within(c, handed'[w]) <=> Within(c, handed[w])
  BY WithinIs DEF Unmoved
<1>2. HeldBy(c)' = HeldBy(c)
  BY <1>1 DEF Unmoved, HeldBy
<1>3. OwnerOf(c)' = OwnerOf(c)
  BY <1>2 DEF OwnerOf
<1>4. PlaceOf(c)' = PlaceOf(c)
  BY <1>1 DEF Unmoved, PlaceOf
<1> QED
  BY <1>3, <1>4

place == [c \in Conns |-> PlaceOf(c)]
owner == [c \in Conns |-> OwnerOf(c)]
stopping == main \in {"stopListener", "gone"}

LEMMA MovesNone ==
  ASSUME \A c \in Conns : Unmoved(c)
  PROVE  UNCHANGED <<place, owner>>
BY UnmovedStays DEF place, owner

LEMMA MovesOne ==
  ASSUME NEW x \in Conns, \A c \in Conns \ {x} : Unmoved(c)
  PROVE  /\ place' = [place EXCEPT ![x] = PlaceOf(x)'] /\ place[x] = PlaceOf(x)
         /\ owner' = [owner EXCEPT ![x] = OwnerOf(x)'] /\ owner[x] = OwnerOf(x)
<1>1. \A c \in Conns \ {x} : PlaceOf(c)' = PlaceOf(c) /\ OwnerOf(c)' = OwnerOf(c)
  BY UnmovedStays
<1> QED
  BY <1>1 DEF place, owner

\* A step of one worker and of the backlog moves at most the connections of X.
LEMMA UnmovedBut ==
  ASSUME ConnsTyped, NEW X, NEW w \in Workers, NEW h \in Seq(Conns), NEW cs \in SUBSET Conns,
         handed' = [handed EXCEPT ![w] = h], channels' = [channels EXCEPT ![w] = cs],
         Listed(h) \ X = Listed(handed[w]) \ X, cs \ X = channels[w] \ X,
         Listed(backlog') \ X = Listed(backlog) \ X, closed' \ X = closed \ X, lost' \ X = lost \ X
  PROVE  \A c \in Conns \ X : Unmoved(c)
<1>1. handed'[w] = h /\ channels'[w] = cs
  BY DEF ConnsTyped
<1>2. \A v \in Workers \ {w} : handed'[v] = handed[v] /\ channels'[v] = channels[v]
  BY DEF ConnsTyped
<1> SUFFICES ASSUME NEW c \in Conns \ X
             PROVE  Unmoved(c)
  OBVIOUS
<1>3. (c \in lost' <=> c \in lost) /\ (c \in closed' <=> c \in closed)
  OBVIOUS
<1>4. c \in Listed(backlog') <=> c \in Listed(backlog)
  OBVIOUS
<1>5. (c \in Listed(handed'[w]) <=> c \in Listed(handed[w])) /\ (c \in channels'[w] <=> c \in channels[w])
  BY <1>1
<1> QED
  BY <1>2, <1>3, <1>4, <1>5 DEF Unmoved

\* And a step of the backlog alone.
LEMMA UnmovedBack ==
  ASSUME NEW X, UNCHANGED <<handed, channels>>,
         Listed(backlog') \ X = Listed(backlog) \ X, closed' \ X = closed \ X, lost' = lost
  PROVE  \A c \in Conns \ X : Unmoved(c)
BY DEF Unmoved

LEMMA ListenerMaps ==
  ASSUME Threads, Homes, Placed, Placed', AcceptRefused \/ AcceptOne \/ ListenExit
  PROVE  Promise!Next
<1>1. backlog \in Seq(Conns) /\ NoTwice(backlog) /\ ConnsTyped
  BY DEF Homes, ConnsTyped, OneHome
<1>2. stopping' = stopping
  BY DEF AcceptRefused, AcceptOne, ListenExit, stopping
<1>9. PICK x : x = Head(backlog)
  OBVIOUS
<1>3. CASE AcceptRefused
  <2>1. /\ backlog # << >> /\ backlog' = Tail(backlog) /\ closed' = closed \cup {x}
        /\ UNCHANGED <<handed, channels, lost>>
    BY <1>3, <1>9 DEF AcceptRefused, Accepting
  <2>2. x \in Conns /\ x \in Listed(backlog) /\ Listed(backlog') = Listed(backlog) \ {x}
    BY <1>1, <1>9, <2>1, FirstOfMany
  <2>3. \A c \in Conns \ {x} : Unmoved(c)
    <3>1. Listed(backlog') \ {x} = Listed(backlog) \ {x} /\ closed' \ {x} = closed \ {x}
      BY <2>1, <2>2
    <3> QED
      BY <2>1, <3>1, UnmovedBack
  <2>4. PlaceOf(x) = "waiting" /\ PlaceOf(x)' = "closed"
    BY <2>1, <2>2 DEF Placed
  <2>5. \A w \in Workers : x \notin Has(w)
    BY <2>2 DEF Homes, OneHome
  <2>6. \A w \in Workers : x \notin Has(w)'
    BY <2>1, <2>5 DEF Has
  <2>7. OwnerOf(x)' = Nobody
    BY <2>2, <2>6 DEF Placed
  <2>8. Promise!Close(x)
    BY <1>2, <2>2, <2>3, <2>4, <2>7, MovesOne DEF Promise!Close, Promise!Move, place, owner, stopping
  <2> QED
    BY <2>2, <2>8 DEF Promise!Next
<1>4. CASE AcceptOne
  <2>9. PICK w : w = handlers[(lastPos % Len(handlers)) + 1]
    OBVIOUS
  <2>1. /\ backlog # << >> /\ handlers # << >> /\ backlog' = Tail(backlog)
        /\ handed' = [handed EXCEPT ![w] = Append(handed[w], x)]
        /\ UNCHANGED <<channels, closed, lost>>
    BY <1>4, <1>9, <2>9 DEF AcceptOne, Accepting
  <2>2. w \in Workers
    BY <2>9, <2>1, NextHandler DEF Threads
  <2>3. x \in Conns /\ x \in Listed(backlog) /\ Listed(backlog') = Listed(backlog) \ {x}
    BY <1>1, <1>9, <2>1, FirstOfMany
  <2>4. /\ handed[w] \in Seq(Conns) /\ channels[w] \in SUBSET Conns /\ channels' = [channels EXCEPT ![w] = channels[w]]
        /\ Append(handed[w], x) \in Seq(Conns)
        /\ handed'[w] = Append(handed[w], x)
    BY <2>1, <2>2, <2>3, AppendProperties DEF Homes, ConnsTyped
  <2>5. Listed(handed'[w]) = Listed(handed[w]) \cup {x}
    BY <2>3, <2>4, ListedAppend
  <2>6. \A c \in Conns \ {x} : Unmoved(c)
    <3>1. /\ Listed(backlog') \ {x} = Listed(backlog) \ {x} /\ closed' \ {x} = closed \ {x} /\ lost' \ {x} = lost \ {x}
          /\ Listed(Append(handed[w], x)) \ {x} = Listed(handed[w]) \ {x}
          /\ channels[w] \ {x} = channels[w] \ {x}
      BY <2>1, <2>3, <2>4, <2>5
    <3> QED
      BY <1>1, <2>1, <2>2, <2>4, <3>1, UnmovedBut
  <2>7. PlaceOf(x) = "waiting" /\ PlaceOf(x)' = "handed" /\ OwnerOf(x)' = w
    BY <2>2, <2>3, <2>5 DEF Placed, Has
  <2>8. Promise!Hand(x, w)
    BY <1>2, <2>3, <2>6, <2>7, MovesOne DEF Promise!Hand, Promise!Move, place, owner, stopping
  <2> QED
    BY <2>2, <2>3, <2>8 DEF Promise!Next
<1>5. CASE ListenExit
  <2> DEFINE S == Listed(backlog)
  <2>1. /\ listener = "poll" /\ 0 \in quit /\ backlog' = << >> /\ closed' = closed \cup S
        /\ UNCHANGED <<handed, channels, lost>>
    BY <1>5 DEF ListenExit, Listed
  <2>2. S \in SUBSET Conns
    BY <1>1, ElementOfSeq DEF Listed
  <2> HIDE DEF S
  <2>3. \A c \in Conns \ S : Unmoved(c)
    <3>1. Listed(backlog') \ S = Listed(backlog) \ S /\ closed' \ S = closed \ S
      BY <2>1, NoneListed DEF S
    <3> QED
      BY <2>1, <3>1, UnmovedBack
  <2>4. stopping
    BY <2>1 DEF Threads, Stopping, stopping
  <2>5. ASSUME NEW c \in S
        PROVE  PlaceOf(c) = "waiting" /\ PlaceOf(c)' = "closed" /\ OwnerOf(c)' = Nobody
    <3>1. c \in Listed(backlog) /\ c \in Conns /\ c \in closed'
      BY <2>1, <2>2 DEF S
    <3>2. \A w \in Workers : c \notin Has(w)'
      BY <2>1, <3>1 DEF Has, Homes, OneHome
    <3> QED
      BY <3>1, <3>2 DEF Placed
  <2>6. /\ place' = [c \in Conns |-> IF c \notin S THEN place[c] ELSE IF place[c] = "waiting" THEN "closed" ELSE "lost"]
        /\ owner' = [c \in Conns |-> IF c \in S THEN Nobody ELSE owner[c]]
    BY <2>2, <2>3, <2>5, UnmovedStays DEF place, owner
  <2>7. \A c \in S : place[c] \in {"waiting", "handed", "served"}
    BY <2>2, <2>5 DEF place
  <2>8. Promise!Abandon(S)
    BY <1>2, <2>4, <2>6, <2>7 DEF Promise!Abandon, place, owner, stopping
  <2> QED
    BY <2>2, <2>8 DEF Promise!Next
<1> QED
  BY <1>3, <1>4, <1>5

LEMMA ClientMaps ==
  ASSUME Homes, Placed, Placed', NEW c \in Conns, Connect(c)
  PROVE  Promise!Next
<1>1. /\ c \notin Used /\ backlog' = Append(backlog, c)
      /\ UNCHANGED <<main, handed, channels, closed, lost>>
  BY DEF Connect, connVars
<1>2. c \notin Listed(backlog) \cup Gone /\ \A w \in Workers : c \notin Has(w)
  BY <1>1 DEF Used, Listed, Has, Gone
<1>3. Listed(backlog') = Listed(backlog) \cup {c}
  BY <1>1, ListedAppend DEF Homes, ConnsTyped
<1>4. \A d \in Conns \ {c} : Unmoved(d)
  <2>1. Listed(backlog') \ {c} = Listed(backlog) \ {c} /\ closed' \ {c} = closed \ {c}
    BY <1>1, <1>3
  <2> QED
    BY <1>1, <2>1, UnmovedBack
<1>5. PlaceOf(c) = "away" /\ OwnerOf(c) = Nobody
  BY <1>2 DEF Placed
<1>6. PlaceOf(c)' = "waiting"
  BY <1>3 DEF Placed
<1>7. \A w \in Workers : c \notin Has(w)'
  BY <1>1, <1>2 DEF Has
<1>8. OwnerOf(c)' = Nobody
  BY <1>7 DEF Placed
<1>9. stopping' = stopping
  BY <1>1 DEF stopping
<1>10. place' = [place EXCEPT ![c] = "waiting"] /\ place[c] = "away" /\ owner' = owner
  <2>1. place' = [place EXCEPT ![c] = "waiting"] /\ place[c] = "away"
    BY <1>4, <1>5, <1>6, MovesOne
  <2>2. owner' = [owner EXCEPT ![c] = Nobody] /\ owner[c] = Nobody
    BY <1>4, <1>5, <1>8, MovesOne
  <2> QED
    BY <2>1, <2>2 DEF owner
<1>11. Promise!Arrive(c)
  BY <1>9, <1>10 DEF Promise!Arrive, Promise!Move, place, owner, stopping
<1> QED
  BY <1>11 DEF Promise!Next

LEMMA WorkerMaps ==
  ASSUME Threads, Homes, Placed, Placed', NEW w \in Workers,
         NewChannel(w) \/ NewRefused(w) \/ (\E c \in Conns : ChannelCloses(w, c)) \/ WorkerExit(w)
  PROVE  Promise!Next
<1>1. /\ handed[w] \in Seq(Conns) /\ NoTwice(handed[w]) /\ channels[w] \in SUBSET Conns /\ ConnsTyped
      /\ Listed(handed[w]) \cap channels[w] = {}
  BY DEF Homes, ConnsTyped, OneHome
<1>2. stopping' = stopping
  BY DEF NewChannel, NewRefused, ChannelCloses, WorkerExit, stopping
<1>3. PICK x : x = Head(handed[w])
  OBVIOUS
<1>4. CASE NewChannel(w)
  <2>1. /\ handed[w] # << >> /\ handed' = [handed EXCEPT ![w] = Tail(handed[w])]
        /\ channels' = [channels EXCEPT ![w] = channels[w] \cup {x}]
        /\ UNCHANGED <<backlog, closed, lost>>
    BY <1>3, <1>4 DEF NewChannel, Handing, Rest, listenVars
  <2>2. /\ Tail(handed[w]) \in Seq(Conns) /\ Listed(Tail(handed[w])) = Listed(handed[w]) \ {x}
        /\ x \in Conns /\ x \in Listed(handed[w])
    BY <1>1, <1>3, <2>1, FirstOfMany
  <2>3. \A c \in Conns \ {x} : Unmoved(c)
    <3>1. /\ Listed(Tail(handed[w])) \ {x} = Listed(handed[w]) \ {x}
          /\ (channels[w] \cup {x}) \ {x} = channels[w] \ {x}
          /\ channels[w] \cup {x} \in SUBSET Conns
          /\ Listed(backlog') \ {x} = Listed(backlog) \ {x} /\ closed' \ {x} = closed \ {x} /\ lost' \ {x} = lost \ {x}
      BY <1>1, <2>1, <2>2
    <3> QED
      BY <1>1, <2>1, <2>2, <3>1, UnmovedBut
  <2>4. x \in channels'[w]
    BY <1>1, <2>1 DEF ConnsTyped
  <2>5. PlaceOf(x) = "handed" /\ OwnerOf(x) = w
    BY <2>2 DEF Placed, Has
  <2>6. PlaceOf(x)' = "served" /\ OwnerOf(x)' = w
    BY <2>2, <2>4 DEF Placed, Has
  <2>7. place' = [place EXCEPT ![x] = "served"] /\ place[x] = "handed" /\ owner' = owner
    <3>1. place' = [place EXCEPT ![x] = "served"] /\ place[x] = "handed"
      BY <2>2, <2>3, <2>5, <2>6, MovesOne
    <3>2. owner' = [owner EXCEPT ![x] = w] /\ owner[x] = w
      BY <2>2, <2>3, <2>5, <2>6, MovesOne
    <3> QED
      BY <3>1, <3>2 DEF owner
  <2>8. Promise!Serve(x)
    BY <1>2, <2>7 DEF Promise!Serve, Promise!Move, place, owner, stopping
  <2> QED
    BY <2>2, <2>8 DEF Promise!Next
<1>5. CASE NewRefused(w)
  <2>1. /\ handed[w] # << >> /\ handed' = [handed EXCEPT ![w] = Tail(handed[w])]
        /\ channels' = [channels EXCEPT ![w] = channels[w]] /\ closed' = closed \cup {x}
        /\ UNCHANGED <<backlog, lost, channels>>
    BY <1>1, <1>3, <1>5 DEF NewRefused, Handing, Rest, listenVars, ConnsTyped
  <2>2. /\ Tail(handed[w]) \in Seq(Conns) /\ Listed(Tail(handed[w])) = Listed(handed[w]) \ {x}
        /\ x \in Conns /\ x \in Listed(handed[w])
    BY <1>1, <1>3, <2>1, FirstOfMany
  <2>3. \A c \in Conns \ {x} : Unmoved(c)
    <3>1. /\ Listed(Tail(handed[w])) \ {x} = Listed(handed[w]) \ {x}
          /\ Listed(backlog') \ {x} = Listed(backlog) \ {x} /\ closed' \ {x} = closed \ {x} /\ lost' \ {x} = lost \ {x}
      BY <1>1, <2>1, <2>2
    <3> QED
      BY <1>1, <2>1, <2>2, <3>1, UnmovedBut
  <2>4. /\ handed'[w] = Tail(handed[w]) /\ \A v \in Workers \ {w} : handed'[v] = handed[v]
        /\ channels' = channels
    BY <1>1, <2>1 DEF ConnsTyped
  <2>5. PlaceOf(x) = "handed"
    BY <2>2 DEF Placed
  <2>6. PlaceOf(x)' = "closed"
    BY <2>1, <2>2 DEF Placed
  <2>7. \A v \in Workers \ {w} : x \notin Has(v)
    BY <2>2 DEF Homes, OneHome, Has
  <2>8. \A v \in Workers : x \notin Has(v)'
    BY <1>1, <2>2, <2>4, <2>7 DEF Has
  <2>9. OwnerOf(x)' = Nobody
    BY <2>2, <2>8 DEF Placed
  <2>10. Promise!Close(x)
    BY <1>2, <2>2, <2>3, <2>5, <2>6, <2>9, MovesOne DEF Promise!Close, Promise!Move, place, owner, stopping
  <2> QED
    BY <2>2, <2>10 DEF Promise!Next
<1>6. ASSUME NEW c \in Conns, ChannelCloses(w, c)
      PROVE  Promise!Next
  <2>1. /\ channels' = [channels EXCEPT ![w] = channels[w] \ {c}] /\ handed' = [handed EXCEPT ![w] = handed[w]]
        /\ closed' = closed \cup {c} /\ c \in channels[w]
        /\ UNCHANGED <<backlog, lost, handed>>
    BY <1>1, <1>6 DEF ChannelCloses, listenVars, ConnsTyped
  <2>2. \A d \in Conns \ {c} : Unmoved(d)
    <3>1. /\ (channels[w] \ {c}) \ {c} = channels[w] \ {c} /\ channels[w] \ {c} \in SUBSET Conns
          /\ Listed(handed[w]) \ {c} = Listed(handed[w]) \ {c}
          /\ Listed(backlog') \ {c} = Listed(backlog) \ {c} /\ closed' \ {c} = closed \ {c} /\ lost' \ {c} = lost \ {c}
      BY <1>1, <2>1
    <3> QED
      BY <1>1, <2>1, <3>1, UnmovedBut
  <2>3. channels'[w] = channels[w] \ {c} /\ \A v \in Workers \ {w} : channels'[v] = channels[v]
    BY <1>1, <2>1 DEF ConnsTyped
  <2>4. PlaceOf(c) = "served"
    BY <2>1 DEF Placed
  <2>5. PlaceOf(c)' = "closed"
    BY <2>1 DEF Placed
  <2>6. \A v \in Workers \ {w} : c \notin Has(v)
    BY <2>1 DEF Homes, OneHome, Has
  <2>7. \A v \in Workers : c \notin Has(v)'
    BY <1>1, <2>1, <2>3, <2>6 DEF Has
  <2>8. OwnerOf(c)' = Nobody
    BY <2>7 DEF Placed
  <2>9. Promise!Close(c)
    BY <1>2, <2>2, <2>4, <2>5, <2>8, MovesOne DEF Promise!Close, Promise!Move, place, owner, stopping
  <2> QED
    BY <2>9 DEF Promise!Next
<1>7. CASE WorkerExit(w)
  <2>1. PICK S : S = Has(w)
    OBVIOUS
  <2>2. /\ handed' = [handed EXCEPT ![w] = << >>] /\ channels' = [channels EXCEPT ![w] = {}]
        /\ lost' = lost \cup S /\ w \in quit /\ UNCHANGED <<backlog, closed>>
    BY <1>7, <2>1 DEF WorkerExit, listenVars, Has, Listed
  <2>3. S \in SUBSET Conns
    BY <1>1, <2>1, ElementOfSeq DEF Has, Listed
  <2>4. \A c \in Conns \ S : Unmoved(c)
    <3>1. << >> \in Seq(Conns) /\ {} \in SUBSET Conns
      BY EmptySeq
    <3>2. /\ Listed(<< >>) \ S = Listed(handed[w]) \ S /\ {} \ S = channels[w] \ S
          /\ Listed(backlog') \ S = Listed(backlog) \ S /\ closed' \ S = closed \ S /\ lost' \ S = lost \ S
      BY <2>1, <2>2, NoneListed DEF Has
    <3> QED
      BY <1>1, <2>2, <3>1, <3>2, UnmovedBut
  <2>5. stopping
    BY <2>2 DEF Threads, Stopping, stopping
  <2>6. \A v \in Workers \ {w} : handed'[v] = handed[v] /\ channels'[v] = channels[v]
    BY <1>1, <2>2 DEF ConnsTyped
  <2>7. handed'[w] = << >> /\ channels'[w] = {}
    BY <1>1, <2>2 DEF ConnsTyped
  <2>8. ASSUME NEW c \in S
        PROVE  PlaceOf(c) \in {"handed", "served"} /\ PlaceOf(c)' = "lost" /\ OwnerOf(c)' = Nobody
    <3>1. c \in Conns /\ c \in Has(w) /\ c \in lost'
      BY <2>1, <2>2, <2>3
    <3>2. \A v \in Workers \ {w} : c \notin Has(v)
      BY <3>1 DEF Homes, OneHome
    <3>3. \A v \in Workers : c \notin Has(v)'
      BY <2>6, <2>7, <3>2, NoneListed DEF Has
    <3>4. OwnerOf(c)' = Nobody /\ PlaceOf(c)' = "lost"
      BY <3>1, <3>3 DEF Placed
    <3>5. PlaceOf(c) \in {"handed", "served"}
      BY <3>1 DEF Placed, Has
    <3> QED
      BY <3>4, <3>5
  <2>9. /\ place' = [c \in Conns |-> IF c \notin S THEN place[c] ELSE IF place[c] = "waiting" THEN "closed" ELSE "lost"]
        /\ owner' = [c \in Conns |-> IF c \in S THEN Nobody ELSE owner[c]]
    <3>1. /\ \A c \in Conns \ S : PlaceOf(c)' = PlaceOf(c) /\ OwnerOf(c)' = OwnerOf(c)
          /\ \A c \in S : PlaceOf(c) # "waiting"
      BY <2>4, <2>8, UnmovedStays
    <3> QED
      BY <2>3, <2>8, <3>1 DEF place, owner
  <2>10. \A c \in S : place[c] \in {"waiting", "handed", "served"}
    BY <2>3, <2>8 DEF place
  <2>11. Promise!Abandon(S)
    BY <1>2, <2>5, <2>9, <2>10 DEF Promise!Abandon, place, owner, stopping
  <2> QED
    BY <2>3, <2>11 DEF Promise!Next
<1> QED
  BY <1>4, <1>5, <1>6, <1>7

LEMMA InitMaps == Init => Promise!Init
<1> SUFFICES ASSUME Init
             PROVE  Promise!Init
  OBVIOUS
<1>1. Homes
  BY InitHomes
<1>2. Placed
  BY <1>1, HomesPlaced
<1>3. backlog = << >> /\ closed = {} /\ lost = {} /\ main = "new"
  BY DEF Init
<1>4. \A w \in Workers : handed[w] = << >> /\ channels[w] = {}
  BY DEF Init
<1>5. \A w \in Workers : Has(w) = {}
  BY <1>4, NoneListed DEF Has
<1>6. Listed(backlog) \cup Gone = {}
  BY <1>3, NoneListed DEF Gone
<1>7. \A c \in Conns : PlaceOf(c) = "away" /\ OwnerOf(c) = Nobody
  BY <1>2, <1>5, <1>6 DEF Placed
<1> QED
  BY <1>3, <1>7 DEF Promise!Init

\* Every step of the server is one of the promise, or none.
LEMMA NextMaps ==
  ASSUME Threads, Homes, Placed, Placed', [Next]_vars
  PROVE  [Promise!Next]_(Promise!vars)
<1>1. ASSUME UNCHANGED <<backlog, connVars>>, stopping' = stopping
      PROVE  UNCHANGED Promise!vars
  <2>1. \A c \in Conns : Unmoved(c)
    BY <1>1 DEF Unmoved, connVars
  <2>2. UNCHANGED <<place, owner>>
    BY <2>1, MovesNone
  <2> QED
    BY <1>1, <2>2 DEF Promise!vars, place, owner, stopping
<1>2. CASE UNCHANGED vars
  BY <1>1, <1>2 DEF vars, listenVars, connVars, stopping
<1>3. CASE AcceptRefused \/ AcceptOne \/ ListenExit
  BY <1>3, ListenerMaps
<1>4. ASSUME NEW w \in Workers,
             NewChannel(w) \/ NewRefused(w) \/ (\E c \in Conns : ChannelCloses(w, c)) \/ WorkerExit(w)
      PROVE  Promise!Next
  BY <1>4, WorkerMaps
<1>5. ASSUME NEW c \in Conns, Connect(c)
      PROVE  Promise!Next
  BY <1>5, ClientMaps
<1>6. CASE Destroy
  <2>1. ~stopping /\ stopping' /\ UNCHANGED <<backlog, connVars>>
    BY <1>6 DEF Destroy, stopping, listenVars
  <2>2. \A c \in Conns : Unmoved(c)
    BY <2>1 DEF Unmoved, connVars
  <2>3. UNCHANGED <<place, owner>>
    BY <2>2, MovesNone
  <2>4. Promise!Stop
    BY <2>1, <2>3 DEF Promise!Stop, place, owner, stopping
  <2> QED
    BY <2>4 DEF Promise!Next
<1>7. CASE OwnerStep
  <2>1. UNCHANGED <<backlog, connVars>>
    BY <1>7 DEF OwnerStep, StartListener, SetCount, StartWorker, StopNext, Destroyed, listenVars
  <2>2. stopping' = stopping
    BY <1>7 DEF OwnerStep, StartListener, SetCount, StartWorker, StopNext, Destroyed, stopping
  <2> QED
    BY <1>1, <2>1, <2>2
<1>8. CASE ListenInit \/ ListenStart \/ Poll \/ AcceptFails \/ AcceptEnd \/ AddHandlers
  <2>1. UNCHANGED <<backlog, connVars, main>>
    BY <1>8 DEF ListenInit, ListenStart, Poll, AcceptFails, AcceptEnd, AddHandlers, listenVars
  <2> QED
    BY <1>1, <2>1 DEF stopping
<1>9. ASSUME NEW w \in Workers, WorkerInit(w) \/ WorkerReady(w)
       PROVE  UNCHANGED Promise!vars
  <2>1. UNCHANGED <<backlog, connVars, main>>
    BY <1>9 DEF WorkerInit, WorkerReady, listenVars
  <2> QED
    BY <1>1, <2>1 DEF stopping
<1> QED
  BY <1>2, <1>3, <1>4, <1>5, <1>6, <1>7, <1>8, <1>9 DEF Next, ListenerStep, WorkerStep, HandOverStep

\* A connection has one owner at a time, from the hand-over until it is closed, and no
\* descriptor is lost before the server is told to stop (tcp_listen.cpp:77-119,
\* tcp_server_channel_creator.cpp:23-56): whatever the order in which the threads run.
THEOREM HandsOverHolds == Spec => HandsOver
<1>1. Init => Threads /\ Homes /\ Promise!Init
  BY InitThreads, InitHomes, InitMaps
<1>2. Threads /\ [Next]_vars => Threads'
  BY ThreadsStep
<1>3. Threads /\ Homes /\ [Next]_vars => Homes'
  BY HomesStep
<1>4. Threads /\ Homes /\ Placed /\ Placed' /\ [Next]_vars => [Promise!Next]_(Promise!vars)
  BY NextMaps
<1> QED
  BY <1>1, <1>2, <1>3, <1>4, HomesPlaced, PTL DEF HandsOver, Promise!Spec, Spec
-----------------------------------------------------------------------------
(* Types                                                                    *)

Registrants == {w \in Workers : worker[w] \notin {"none", "init"}}

\* No worker registers twice, which bounds where the next connection can go.
OncePerWorker == Len(handlers) + Len(posts) <= Cardinality(Registrants)

LEMMA WorkersBound ==
  /\ IsFiniteSet(Registrants) /\ Cardinality(Registrants) \in Nat /\ Cardinality(Registrants) <= ThreadNum
  /\ IsFiniteSet(Unready) /\ Cardinality(Unready) \in Nat /\ Cardinality(Unready) <= ThreadNum
<1>1. Registrants \in SUBSET Workers /\ Unready \in SUBSET Workers
  BY DEF Registrants, Unready
<1> QED
  BY <1>1, WorkersFinite, FS_Subset, FS_CardinalityType

LEMMA InitOncePerWorker == Init => OncePerWorker
<1> SUFFICES ASSUME Init
             PROVE  OncePerWorker
  OBVIOUS
<1>1. handlers = << >> /\ posts = << >>
  BY DEF Init
<1>2. Len(<< >>) = 0
  BY EmptySeq
<1>3. Len(handlers) + Len(posts) = 0
  BY <1>1, <1>2
<1> QED
  BY <1>3, WorkersBound DEF OncePerWorker

LEMMA NextOncePerWorker ==
  ASSUME Threads, OncePerWorker, [Next]_vars
  PROVE  OncePerWorker'
<1>0. /\ handlers \in Seq(Workers) /\ posts \in Seq(Workers)
      /\ worker \in [Workers -> {"none", "init", "ready", "loop", "done"}]
  BY DEF Threads, ThreadsTyped
<1>1. ASSUME UNCHANGED <<handlers, posts>>, Registrants' = Registrants
      PROVE  OncePerWorker'
  BY <1>1 DEF OncePerWorker
<1>2. ASSUME UNCHANGED <<handlers, posts, worker>>
      PROVE  OncePerWorker'
  <2>1. Registrants' = Registrants
    BY <1>2 DEF Registrants
  <2> QED
    BY <1>1, <1>2, <2>1
<1>3. CASE \/ StartListener \/ SetCount \/ Destroy \/ Destroyed \/ ListenInit \/ ListenStart \/ Poll
           \/ AcceptRefused \/ AcceptOne \/ AcceptFails \/ AcceptEnd \/ UNCHANGED vars
  BY <1>2, <1>3 DEF StartListener, SetCount, Destroy, Destroyed, ListenInit, ListenStart, Poll, AcceptRefused,
                    AcceptOne, AcceptFails, AcceptEnd, ListenVarsButQueue, listenVars, vars
<1>4. CASE \/ \E w \in Workers : StopNext(w) \/ HandOverStep(w) \/ \E c \in Conns : ChannelCloses(w, c)
           \/ \E c \in Conns : Connect(c)
  BY <1>2, <1>4 DEF StopNext, HandOverStep, NewChannel, NewRefused, ChannelCloses, Connect, ListenVarsButQueue,
                    listenVars
<1>5. CASE AddHandlers
  <2>1. handlers' = handlers \o posts /\ posts' = << >> /\ worker' = worker
    BY <1>5 DEF AddHandlers
  <2>2. Len(handlers \o posts) = Len(handlers) + Len(posts) /\ Len(<< >>) = 0
    BY <1>0, ConcatProperties, EmptySeq
  <2>3. Len(handlers') + Len(posts') = Len(handlers) + Len(posts)
    BY <1>0, <2>1, <2>2, LenProperties
  <2>4. Registrants' = Registrants
    BY <2>1 DEF Registrants
  <2> QED
    BY <2>3, <2>4 DEF OncePerWorker
<1>6. CASE ListenExit
  <2>1. handlers' = << >> /\ posts' = << >>
    BY <1>6 DEF ListenExit
  <2>2. Len(<< >>) = 0
    BY EmptySeq
  <2>3. Len(handlers') + Len(posts') = 0
    BY <2>1, <2>2
  <2>4. Registrants' = Registrants
    BY <1>6 DEF ListenExit, Registrants
  <2> QED
    BY <2>3, <2>4, WorkersBound DEF OncePerWorker
<1>7. ASSUME NEW w \in Workers, WorkerInit(w)
      PROVE  OncePerWorker'
  <2>1. /\ worker[w] = "init" /\ worker' = [worker EXCEPT ![w] = "ready"] /\ handlers' = handlers
        /\ posts' = posts \/ posts' = Append(posts, w)
    BY <1>7 DEF WorkerInit
  <2>2. w \notin Registrants /\ Registrants' = Registrants \cup {w}
    BY <1>0, <2>1 DEF Registrants
  <2>3. Cardinality(Registrants') = Cardinality(Registrants) + 1
    BY <2>2, WorkersBound, FS_AddElement
  <2>4. Len(posts') <= Len(posts) + 1 /\ Len(posts') \in Nat
    BY <1>0, <2>1, AppendProperties, LenProperties
  <2> QED
    BY <1>0, <2>1, <2>3, <2>4, LenProperties, WorkersBound DEF OncePerWorker
<1>8. ASSUME NEW w \in Workers, StartWorker(w) \/ WorkerReady(w) \/ WorkerExit(w)
      PROVE  OncePerWorker'
  <2>1. UNCHANGED <<handlers, posts>>
    BY <1>8 DEF StartWorker, WorkerReady, WorkerExit, listenVars
  <2>2. CASE worker[w] = "none" /\ worker' = [worker EXCEPT ![w] = "init"]
    <3>1. Registrants' = Registrants
      BY <1>0, <2>2 DEF Registrants
    <3> QED
      BY <1>1, <2>1, <3>1
  <2>3. CASE worker[w] \in {"ready", "loop"} /\ \E at \in {"loop", "done"} : worker' = [worker EXCEPT ![w] = at]
    <3>1. Registrants' = Registrants
      BY <1>0, <2>3 DEF Registrants
    <3> QED
      BY <1>1, <2>1, <3>1
  <2> QED
    BY <1>8, <2>2, <2>3 DEF StartWorker, WorkerReady, WorkerExit
<1> QED
  BY <1>3, <1>4, <1>5, <1>6, <1>7, <1>8 DEF Next, OwnerStep, ListenerStep, WorkerStep

\* The types that are neither in Threads nor in Homes.
OtherTypes ==
  /\ quit \subseteq 0 .. ThreadNum /\ lastPos \in 0 .. ThreadNum
  /\ initDone \in BOOLEAN /\ skipped \in BOOLEAN /\ edge \in BOOLEAN /\ gaveUp \in BOOLEAN /\ broken \in BOOLEAN
  /\ listen \in {"null", "live", "deleted"} /\ socket \in {"none", "listening", "zero"}
  /\ closed \subseteq Conns /\ lost \subseteq Conns

LEMMA InitOtherTypes == Init => OtherTypes
<1> SUFFICES ASSUME Init
             PROVE  OtherTypes
  OBVIOUS
<1>1. quit = {} /\ lastPos = 0 /\ closed = {} /\ lost = {}
  BY DEF Init
<1>2. initDone = FALSE /\ skipped = FALSE /\ edge = FALSE /\ gaveUp = FALSE /\ broken = FALSE
  BY DEF Init
<1>3. listen = "null" /\ socket = "none"
  BY DEF Init
<1>4. 0 \in 0 .. ThreadNum
  BY ServerAssumption
<1> QED
  BY <1>1, <1>2, <1>3, <1>4 DEF OtherTypes

LEMMA ListedIn ==
  ASSUME NEW S, NEW s \in Seq(S)
  PROVE  Listed(s) \subseteq S /\ (s # << >> => Head(s) \in S)
BY ElementOfSeq, HeadTailProperties DEF Listed

LEMMA NextOtherTypes ==
  ASSUME Threads, Homes, OncePerWorker, OtherTypes, [Next]_vars
  PROVE  OtherTypes'
<1>1. (quit \subseteq 0 .. ThreadNum)'
  <2>1. 0 \in 0 .. ThreadNum /\ \A w \in Workers : w \in 0 .. ThreadNum
    BY ServerAssumption DEF Workers
  <2>2. quit' = quit \/ quit' = quit \cup FirstOut \/ \E w \in Workers : quit' = quit \cup {w}
    BY DEF Next, OwnerStep, StartListener, SetCount, StartWorker, StopNext, Destroyed, Destroy, ListenerStep,
           ListenInit, ListenStart, Poll, AcceptRefused, AcceptOne, AcceptFails, AcceptEnd, AddHandlers, ListenExit,
           WorkerStep, WorkerInit, WorkerReady, WorkerExit, HandOverStep, NewChannel, NewRefused, ChannelCloses,
           Connect, vars
  <2> QED
    BY <2>1, <2>2 DEF OtherTypes, FirstOut
<1>2. (lastPos \in 0 .. ThreadNum)'
  <2>1. ASSUME AcceptOne
        PROVE  lastPos' \in 0 .. ThreadNum
    <3>1. handlers # << >> /\ lastPos' = (lastPos % Len(handlers)) + 1
      BY <2>1 DEF AcceptOne
    <3>2. lastPos' \in 1 .. Len(handlers)
      BY <3>1, NextHandler DEF Threads
    <3>3. Len(handlers) \in Nat /\ Len(posts) \in Nat
      BY LenProperties DEF Threads, ThreadsTyped
    <3> QED
      BY <3>2, <3>3, WorkersBound, ServerAssumption DEF OncePerWorker
  <2>2. AcceptOne \/ lastPos' = lastPos
    BY DEF Next, OwnerStep, StartListener, SetCount, StartWorker, StopNext, Destroyed, Destroy, ListenerStep,
           ListenInit, ListenStart, Poll, AcceptRefused, AcceptFails, AcceptEnd, AddHandlers, ListenExit,
           WorkerStep, WorkerInit, WorkerReady, WorkerExit, HandOverStep, NewChannel, NewRefused, ChannelCloses,
           Connect, vars, listenVars
  <2> QED
    BY <2>1, <2>2 DEF OtherTypes
<1>3. initDone' \in BOOLEAN /\ skipped' \in BOOLEAN
  BY DEF OtherTypes, Next, OwnerStep, StartListener, SetCount, StartWorker, StopNext, Destroyed, Destroy,
         ListenerStep, ListenInit, ListenStart, Poll, AcceptRefused, AcceptOne, AcceptFails, AcceptEnd, AddHandlers,
         ListenExit, WorkerStep, WorkerInit, WorkerReady, WorkerExit, HandOverStep, NewChannel, NewRefused,
         ChannelCloses, Connect, vars, startVars
<1>4. edge' \in BOOLEAN /\ gaveUp' \in BOOLEAN
  BY DEF OtherTypes, Next, OwnerStep, StartListener, SetCount, StartWorker, StopNext, Destroyed, Destroy,
         ListenerStep, ListenInit, ListenStart, Poll, AcceptRefused, AcceptOne, AcceptFails, AcceptEnd, AddHandlers,
         ListenExit, WorkerStep, WorkerInit, WorkerReady, WorkerExit, HandOverStep, NewChannel, NewRefused,
         ChannelCloses, Connect, vars, listenVars
<1>5. broken' \in BOOLEAN
  BY DEF OtherTypes, Next, OwnerStep, StartListener, SetCount, StartWorker, StopNext, Destroyed, Destroy,
         ListenerStep, ListenInit, ListenStart, Poll, AcceptRefused, AcceptOne, AcceptFails, AcceptEnd, AddHandlers,
         ListenExit, WorkerStep, WorkerInit, WorkerReady, WorkerExit, HandOverStep, NewChannel, NewRefused,
         ChannelCloses, Connect, vars
<1>6. listen' \in {"null", "live", "deleted"} /\ socket' \in {"none", "listening", "zero"}
  BY DEF OtherTypes, Next, OwnerStep, StartListener, SetCount, StartWorker, StopNext, Destroyed, Destroy,
         ListenerStep, ListenInit, ListenStart, Poll, AcceptRefused, AcceptOne, AcceptFails, AcceptEnd, AddHandlers,
         ListenExit, WorkerStep, WorkerInit, WorkerReady, WorkerExit, HandOverStep, NewChannel, NewRefused,
         ChannelCloses, Connect, vars, listenVars, ListenVarsButQueue
<1>7. closed' \subseteq Conns /\ lost' \subseteq Conns
  <2>1. Listed(backlog) \subseteq Conns /\ (backlog # << >> => Head(backlog) \in Conns)
    BY ListedIn DEF Homes, ConnsTyped
  <2>2. \A w \in Workers : Listed(handed[w]) \subseteq Conns /\ (handed[w] # << >> => Head(handed[w]) \in Conns)
    BY ListedIn DEF Homes, ConnsTyped
  <2>3. \A w \in Workers : channels[w] \subseteq Conns
    BY DEF Homes, ConnsTyped
  <2>4. closed \subseteq Conns /\ lost \subseteq Conns
    BY DEF OtherTypes
  <2>5. CASE AcceptRefused
    BY <2>1, <2>4, <2>5 DEF AcceptRefused, Accepting
  <2>6. CASE ListenExit
    BY <2>1, <2>4, <2>6 DEF ListenExit, Listed
  <2>7. ASSUME NEW w \in Workers, NewRefused(w)
        PROVE  closed' \subseteq Conns /\ lost' \subseteq Conns
    BY <2>2, <2>4, <2>7 DEF NewRefused, Handing
  <2>8. ASSUME NEW w \in Workers, WorkerExit(w)
        PROVE  closed' \subseteq Conns /\ lost' \subseteq Conns
    <3>1. lost' = lost \cup channels[w] \cup Listed(handed[w]) /\ closed' = closed
      BY <2>8 DEF WorkerExit, Listed
    <3> QED
      BY <2>2, <2>3, <2>4, <3>1
  <2>9. ASSUME NEW w \in Workers, NEW c \in Conns, ChannelCloses(w, c)
        PROVE  closed' \subseteq Conns /\ lost' \subseteq Conns
    BY <2>4, <2>9 DEF ChannelCloses
  <2>10. CASE UNCHANGED <<closed, lost>>
    BY <2>4, <2>10
  <2> QED
    BY <2>5, <2>6, <2>7, <2>8, <2>9, <2>10
    DEF Next, OwnerStep, StartListener, SetCount, StartWorker, StopNext, Destroyed, Destroy, ListenerStep, ListenInit,
        ListenStart, Poll, AcceptOne, AcceptFails, AcceptEnd, AddHandlers, WorkerStep, WorkerInit, WorkerReady,
        HandOverStep, NewChannel, Connect, vars, connVars
<1> QED
  BY <1>1, <1>2, <1>3, <1>4, <1>5, <1>6, <1>7 DEF OtherTypes

\* The fields of the server and of its threads keep their types; among them the counter
\* of the workers that are not ready never goes below zero, and the position of the next
\* handler never beyond the number of workers, since no worker registers twice.
THEOREM TypeCorrect == Spec => []TypeOK
<1>1. Init => Threads /\ Homes /\ OncePerWorker /\ OtherTypes
  BY InitThreads, InitHomes, InitOncePerWorker, InitOtherTypes
<1>2. Threads /\ Homes /\ OncePerWorker /\ OtherTypes /\ [Next]_vars => (Threads /\ Homes /\ OncePerWorker /\ OtherTypes)'
  BY ThreadsStep, HomesStep, NextOncePerWorker, NextOtherTypes
<1>3. Threads /\ Homes /\ OtherTypes => TypeOK
  <2> SUFFICES ASSUME Threads, Homes, OtherTypes
               PROVE  TypeOK
    OBVIOUS
  <2>1. notReady \in 0 .. ThreadNum
    BY WorkersBound, ServerAssumption DEF Threads, Counted
  <2> QED
    BY <2>1 DEF Threads, ThreadsTyped, Homes, ConnsTyped, OtherTypes, TypeOK
<1> QED
  BY <1>1, <1>2, <1>3, PTL DEF Spec

-----------------------------------------------------------------------------
(* Who waits for whom                                                       *)

\* Every wait is for a thread that runs and has still to take the step that ends it:
\* start waits for a listen thread in its init task, not for one that already waits for
\* workers (tcp_server.h:91); the listener for a worker that is to be started or has
\* still to count itself off (185); the destructor for threads it has started and
\* told to quit (50-57).  So no two of them wait for each other.
WaitEnds ==
  /\ main = "await" /\ ~initDone => listener = "init"
  /\ listener = "await" /\ ~AllReady => main = "spawn" \/ \E w \in Workers : worker[w] \in {"init", "ready"}
  /\ main = "stopListener" => \A t \in quit : IF t = 0 THEN listener # "none" ELSE worker[t] # "none"

\* Safety half of DestructorReturns, and the absence of a deadlock between the owner, the
\* listen thread and the workers, for any number of workers.
THEOREM WaitEndsHolds == Spec => []WaitEnds
<1>1. Threads /\ TypeOK => WaitEnds
  <2> SUFFICES ASSUME Threads, TypeOK
               PROVE  WaitEnds
    OBVIOUS
  <2>1. main = "await" /\ ~initDone => listener = "init"
    BY DEF Threads, ThreadsTyped, Starting
  <2>2. ASSUME listener = "await", ~AllReady, main # "spawn"
        PROVE  \E w \in Workers : worker[w] \in {"init", "ready"}
    <3>1. notReady # 0 /\ main \in {"up", "stopListener", "gone"} /\ notReady = Cardinality(Unready)
      BY <2>2 DEF AllReady, Threads, ThreadsTyped, Counted
    <3>2. Unready # {}
      BY <3>1, FS_EmptySet
    <3>3. \A w \in Workers : worker[w] # "none"
      BY <3>1 DEF Threads, Starting
    <3> QED
      BY <3>2, <3>3 DEF Unready
  <2>3. ASSUME main = "stopListener", NEW t \in quit
        PROVE  IF t = 0 THEN listener # "none" ELSE worker[t] # "none"
    <3>1. t = 0 \/ t \in Workers
      BY ServerAssumption DEF TypeOK, Workers
    <3>2. listener # "none" /\ \A w \in Workers : worker[w] # "none"
      BY <2>3 DEF Threads, Starting
    <3> QED
      BY <3>1, <3>2
  <2> QED
    BY <2>1, <2>2, <2>3 DEF WaitEnds
<1> QED
  BY <1>1, ThreadsHold, TypeCorrect, PTL
=============================================================================
