----------------------------- MODULE TaskQueue -----------------------------
(***************************************************************************)
(* The task queue of the reactor loops: util/task_queue.cpp as             *)
(* reactor_loop.cpp uses it (persistence = false, nolock = true, which     *)
(* unique_optional_lock reads as "take the mutex").                        *)
(*                                                                         *)
(* Every loop owns one queue and one thread.  Any thread may post a task   *)
(* (start_async_task -> task_queue::add); only the loop's own thread       *)
(* executes it and withdraws the tasks of an owner (stop_async_task ->     *)
(* task_queue::del).  add and execute hold the queue's recursive mutex,    *)
(* execute for the whole pass, the callbacks included; del takes no lock.  *)
(*                                                                         *)
(* One action is one stretch of code between two points where another      *)
(* thread can be seen: taking a mutex, leaving the maps, calling back.     *)
(***************************************************************************)
EXTENDS Naturals, FiniteSets

CONSTANTS
  Loops,       \* the reactor loops; a loop also names its thread
  Users,       \* threads that run no loop and post tasks
  Owners,      \* task owners: channels, listeners, creators
  NullOwner,   \* null_owner: a task nobody will withdraw
  Absent,      \* no entry of _task_list under this sequence number
  NoThread,    \* nobody holds the mutex
  MaxSeq,      \* bound: the highest sequence number a queue hands out
  TaskPosts    \* pairs <<l, m>>: tasks of loop l may post to another loop m

ASSUME QueueAssumption ==
  /\ Loops \cap Users = {}
  /\ NoThread \notin Loops \cup Users
  /\ NullOwner \notin Owners
  /\ Absent \notin Owners \cup {NullOwner}
  /\ MaxSeq \in Nat
  /\ TaskPosts \subseteq Loops \X Loops

Threads == Loops \cup Users
Seqs    == 1 .. MaxSeq

VARIABLES
  seq,       \* task_queue::_seq of every loop
  tasks,     \* _task_list: sequence number -> owner of the task, or Absent
  index,     \* _owner_list: owner -> sequence numbers of its queued tasks
  mutex,     \* holder of task_queue::_mutex
  pc,        \* where a loop's thread is: "poll", "scan" or "run"
  call,      \* the queue operation a thread is inside
  cursor,    \* seq_cursor of the current pass
  seqOld,    \* seq_old of the current pass
  lastRun,   \* history: the last task a loop started
  withdrawn, \* history: the tasks del removed
  broken     \* two threads were inside the maps of one queue: undefined

vars == <<seq, tasks, index, mutex, pc, call, cursor, seqOld, lastRun,
          withdrawn, broken>>

NoCall == [op |-> "none"]

Calls ==
  {NoCall}
    \cup [op : {"lock", "adding"}, loop : Loops, owner : Owners \cup {NullOwner}]
    \cup [op : {"deleting"}, owner : Owners]

Present(l) == {s \in Seqs : tasks[l][s] # Absent}

\* Mutant: the cursor is stepped over the next entry as well.
AheadPlusOne(l) == {s \in Present(l) : s > cursor[l] + 1}

\* upper_bound(seq_cursor): the entries the pass has still to look at.
Ahead(l) == {s \in Present(l) : s > cursor[l]}

Init ==
  /\ seq = [l \in Loops |-> 0]
  /\ tasks = [l \in Loops |-> [s \in Seqs |-> Absent]]
  /\ index = [l \in Loops |-> [o \in Owners |-> {}]]
  /\ mutex = [l \in Loops |-> NoThread]
  /\ pc = [l \in Loops |-> "poll"]
  /\ call = [t \in Threads |-> NoCall]
  /\ cursor = [l \in Loops |-> 0]
  /\ seqOld = [l \in Loops |-> 0]
  /\ lastRun = [l \in Loops |-> 0]
  /\ withdrawn = [l \in Loops |-> {}]
  /\ broken = FALSE

-----------------------------------------------------------------------------
(* Posting a task                                                          *)

\* A thread runs code of its own: a user at any time, a loop in a poll, timer
\* or idle callback ("poll") or in a task ("run").
InCallback(t) == call[t] = NoCall /\ (t \in Loops => pc[t] \in {"poll", "run"})

\* A task posts to its own loop or along TaskPosts; other code posts anywhere.
MayPost(t, l) == (t \in Loops /\ pc[t] = "run") => (t = l \/ <<t, l>> \in TaskPosts)

\* Bound: a post is begun only while the queue has a number left for it.
HasRoom(l) ==
  seq[l] + Cardinality({t \in Threads : call[t].op \in {"lock", "adding"} /\ call[t].loop = l})
    < MaxSeq

\* Mutant: the mutex is not recursive.
LockFreePlain(l, t) == mutex[l] = NoThread

\* The mutex is recursive: its holder gets it again at once.
LockFree(l, t) == mutex[l] \in {NoThread, t}

\* Leaving add gives the mutex back unless execute holds it further up.
ReleasedBy(l, t) == IF t = l /\ pc[l] # "poll" THEN t ELSE NoThread

\* start_async_task: the loop is valid, so the call goes on to task_queue::add.
CallAdd(t, l, o) ==
  /\ ~broken
  /\ InCallback(t)
  /\ MayPost(t, l)
  /\ HasRoom(l)
  /\ call' = [call EXCEPT ![t] = [op |-> "lock", loop |-> l, owner |-> o]]
  /\ UNCHANGED <<seq, tasks, index, mutex, pc, cursor, seqOld, lastRun, withdrawn, broken>>

\* unique_optional_lock: the caller blocks until the mutex is free.
AddLock(t) ==
  /\ ~broken
  /\ call[t].op = "lock"
  /\ LockFree(call[t].loop, t)
  /\ mutex' = [mutex EXCEPT ![call[t].loop] = t]
  /\ call' = [call EXCEPT ![t].op = "adding"]
  /\ UNCHANGED <<seq, tasks, index, pc, cursor, seqOld, lastRun, withdrawn, broken>>

\* The body of add: number the task, store it, index it under its owner.
AddTask(t) ==
  LET l == call[t].loop
      o == call[t].owner
      s == seq[l] + 1
  IN  /\ ~broken
      /\ call[t].op = "adding"
      /\ s \in Seqs
      /\ seq' = [seq EXCEPT ![l] = s]
      /\ tasks' = [tasks EXCEPT ![l][s] = o]
      /\ index' = IF o = NullOwner THEN index
                  ELSE [index EXCEPT ![l][o] = @ \cup {s}]
      /\ mutex' = [mutex EXCEPT ![l] = ReleasedBy(l, t)]
      /\ call' = [call EXCEPT ![t] = NoCall]
      /\ UNCHANGED <<pc, cursor, seqOld, lastRun, withdrawn, broken>>

-----------------------------------------------------------------------------
(* Withdrawing the tasks of an owner                                       *)

\* stop_async_task, called by the loop's own thread: set_release of a channel,
\* the destructors of tcp_listen and tcp_server_channel_creator.
CallDel(l, o) ==
  /\ ~broken
  /\ InCallback(l)
  /\ call' = [call EXCEPT ![l] = [op |-> "deleting", owner |-> o]]
  /\ UNCHANGED <<seq, tasks, index, mutex, pc, cursor, seqOld, lastRun, withdrawn, broken>>

\* Mutant: del erases the oldest task of the owner only.
ListWithoutFirst(l, o) ==
  [s \in Seqs |-> IF s \in index[l][o] /\ \A r \in index[l][o] : s <= r
                    THEN Absent ELSE tasks[l][s]]

\* Erase every task the owner's index lists.
ListWithout(l, o) == [s \in Seqs |-> IF s \in index[l][o] THEN Absent ELSE tasks[l][s]]

\* The body of del, without the mutex.
DelTasks(l) ==
  LET o == call[l].owner
  IN  /\ ~broken
      /\ call[l].op = "deleting"
      /\ tasks' = [tasks EXCEPT ![l] = ListWithout(l, o)]
      /\ index' = [index EXCEPT ![l][o] = {}]
      /\ withdrawn' = [withdrawn EXCEPT ![l] =
                         @ \cup {s \in Seqs : tasks[l][s] = o}]
      /\ call' = [call EXCEPT ![l] = NoCall]
      /\ UNCHANGED <<seq, mutex, pc, cursor, seqOld, lastRun, broken>>

\* Two threads inside the maps of one queue: undefined, the process may die.
Overlap(l) ==
  /\ call[l].op = "deleting"
  /\ \E t \in Threads \ {l} : call[t].op = "adding" /\ call[t].loop = l

Break(l) ==
  /\ ~broken
  /\ Overlap(l)
  /\ broken' = TRUE
  /\ UNCHANGED <<seq, tasks, index, mutex, pc, call, cursor, seqOld, lastRun, withdrawn>>

-----------------------------------------------------------------------------
(* task_queue::execute, called once per turn of the loop                   *)

\* Mutant: the pass is bounded by the next number instead of the newest.
NewestPlusOne(l) == seq[l] + 1

\* seq_old: the newest task when the pass begins.
Newest(l) == seq[l]

\* Take the mutex for the whole pass.
BeginPass(l) ==
  /\ ~broken
  /\ pc[l] = "poll"
  /\ call[l] = NoCall
  /\ LockFree(l, l)
  /\ mutex' = [mutex EXCEPT ![l] = l]
  /\ pc' = [pc EXCEPT ![l] = "scan"]
  /\ cursor' = [cursor EXCEPT ![l] = 0]
  /\ seqOld' = [seqOld EXCEPT ![l] = Newest(l)]
  /\ UNCHANGED <<seq, tasks, index, call, lastRun, withdrawn, broken>>

\* Mutant: the newest entry comes first.
IsLast(l, s) == s \in Ahead(l) /\ \A r \in Ahead(l) : s >= r

\* The entry upper_bound returns.
IsNext(l, s) == s \in Ahead(l) /\ \A r \in Ahead(l) : s <= r

\* Mutant: tasks posted during the pass are taken as well.
InAnyPass(l, s) == s \in Seqs

\* The entry was queued when the pass began.
InPass(l, s) == s <= seqOld[l]

\* Mutant: the owner's index keeps the number of a task that is gone.
IndexKept(l, s) == index

\* The index without a task that leaves the list.
IndexWithout(l, s) ==
  IF tasks[l][s] = NullOwner THEN index ELSE [index EXCEPT ![l][tasks[l][s]] = @ \ {s}]

\* The next entry is newer than the pass: step over it.
SkipTask(l) ==
  /\ ~broken
  /\ pc[l] = "scan"
  /\ \E s \in Seqs :
       /\ IsNext(l, s)
       /\ ~InPass(l, s)
       /\ cursor' = [cursor EXCEPT ![l] = s]
  /\ UNCHANGED <<seq, tasks, index, mutex, pc, call, seqOld, lastRun, withdrawn, broken>>

\* Take the next entry out of the list and of its owner's index, and call it.
TakeTask(l) ==
  /\ ~broken
  /\ pc[l] = "scan"
  /\ \E s \in Seqs :
       /\ IsNext(l, s)
       /\ InPass(l, s)
       /\ cursor' = [cursor EXCEPT ![l] = s]
       /\ lastRun' = [lastRun EXCEPT ![l] = s]
       /\ tasks' = [tasks EXCEPT ![l][s] = Absent]
       /\ index' = IndexWithout(l, s)
  /\ pc' = [pc EXCEPT ![l] = "run"]
  /\ UNCHANGED <<seq, mutex, call, seqOld, withdrawn, broken>>

\* The callback returns to the pass.
EndTask(l) ==
  /\ ~broken
  /\ pc[l] = "run"
  /\ call[l] = NoCall
  /\ pc' = [pc EXCEPT ![l] = "scan"]
  /\ UNCHANGED <<seq, tasks, index, mutex, call, cursor, seqOld, lastRun, withdrawn, broken>>

\* Nothing ahead of the cursor: leave execute and give the mutex back.
EndPass(l) ==
  /\ ~broken
  /\ pc[l] = "scan"
  /\ Ahead(l) = {}
  /\ pc' = [pc EXCEPT ![l] = "poll"]
  /\ mutex' = [mutex EXCEPT ![l] = NoThread]
  /\ UNCHANGED <<seq, tasks, index, call, cursor, seqOld, lastRun, withdrawn, broken>>

-----------------------------------------------------------------------------
(* The specification                                                       *)

\* The steps of a thread that wait for nobody.
OwnStep(t) == AddTask(t) \/ (t \in Loops /\ (SkipTask(t) \/ TakeTask(t) \/ EndPass(t) \/ DelTasks(t)))

\* A loop's thread leaves its callbacks.
Return(l) == BeginPass(l) \/ EndTask(l)

Next ==
  \/ \E t \in Threads, l \in Loops, o \in Owners \cup {NullOwner} : CallAdd(t, l, o)
  \/ \E t \in Threads : AddLock(t)
  \/ \E t \in Threads : AddTask(t)
  \/ \E l \in Loops, o \in Owners : CallDel(l, o)
  \/ \E l \in Loops : DelTasks(l)
  \/ \E l \in Loops : Break(l)
  \/ \E l \in Loops : BeginPass(l)
  \/ \E l \in Loops : SkipTask(l)
  \/ \E l \in Loops : TakeTask(l)
  \/ \E l \in Loops : EndTask(l)
  \/ \E l \in Loops : EndPass(l)

Spec == Init /\ [][Next]_vars

\* The threads are scheduled, and reactor_loop::run or the resident task that
\* calls run_once keeps turning the loop.  Strong fairness says two things: a
\* callback calls the queue finitely often and then returns (Return), and a
\* thread that waits for a mutex which is free again and again, here for the
\* whole epoll_wait of every turn, gets it in the end (AddLock, BeginPass).
FairSpec ==
  /\ Spec
  /\ \A t \in Threads : WF_vars(OwnStep(t)) /\ SF_vars(AddLock(t))
  /\ \A l \in Loops : SF_vars(Return(l))

-----------------------------------------------------------------------------
(* Properties                                                              *)

TypeOK ==
  /\ seq \in [Loops -> 0 .. MaxSeq]
  /\ tasks \in [Loops -> [Seqs -> Owners \cup {NullOwner, Absent}]]
  /\ index \in [Loops -> [Owners -> SUBSET Seqs]]
  /\ mutex \in [Loops -> Threads \cup {NoThread}]
  /\ pc \in [Loops -> {"poll", "scan", "run"}]
  /\ call \in [Threads -> Calls]
  /\ cursor \in [Loops -> 0 .. MaxSeq]
  /\ seqOld \in [Loops -> 0 .. MaxSeq]
  /\ lastRun \in [Loops -> 0 .. MaxSeq]
  /\ withdrawn \in [Loops -> SUBSET Seqs]
  /\ broken \in BOOLEAN

\* The owner index lists exactly the queued tasks of every owner: del erases
\* all of them and nothing else, and execute's assert that the owner of a task
\* it takes is indexed (task_queue.cpp:77) cannot fail.
OwnerIndexExact ==
  \A l \in Loops, o \in Owners : index[l][o] = {s \in Seqs : tasks[l][s] = o}

\* A task withdrawn by its owner never starts afterwards: set_release and the
\* destructors count on it, because the task holds a bare pointer to the owner
\* (reactor_loop.cpp:119, called from tcp_server_channel.cpp:271).
WithdrawnNeverRuns ==
  [][\A l \in Loops : TakeTask(l) => lastRun'[l] \notin withdrawn[l]]_vars

\* The tasks of a loop start in the order they were posted, each at most once,
\* over all passes (task_queue.cpp:58-89).
RunsInOrder ==
  [][\A l \in Loops : TakeTask(l) => lastRun'[l] > lastRun[l]]_vars

\* A pass starts only what was queued when it began: a task that posts to its
\* own loop cannot keep the pass, and with it the queue's mutex, for ever.
PassIsBounded ==
  \A l \in Loops : pc[l] # "poll" => lastRun[l] <= seqOld[l]

\* No set of loops waits for one another: each holds its own queue's mutex in a
\* task and wants the mutex of another (or, were it not recursive, its own).
NoLockCycle ==
  \A S \in (SUBSET Loops) \ {{}} :
    \E l \in S : ~ /\ call[l].op = "lock"
                   /\ ~LockFree(call[l].loop, l)
                   /\ mutex[call[l].loop] \in S

\* Every posted task is started or withdrawn in the end.
PostedRuns ==
  \A l \in Loops, s \in Seqs : (tasks[l][s] # Absent) ~> (tasks[l][s] = Absent \/ broken)
=============================================================================
