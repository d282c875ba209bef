---------------------------- MODULE ThreadObject ----------------------------
(***************************************************************************)
(* A worker thread and its tasks: thread/thread_object.h and .cpp.         *)
(*                                                                         *)
(* The owner makes the object, adds init tasks, starts the thread and      *)
(* destroys the object.  The worker runs the init tasks, then turns        *)
(* through the resident tasks (which stay) and the disposable ones (which  *)
(* go), sleeps on a condition variable when there are none, and runs the   *)
(* exit tasks when it is told to quit.  Tasks, and in principle any other  *)
(* thread, add tasks.                                                      *)
(*                                                                         *)
(* The queues have no lock of their own here (nolock = false, which        *)
(* unique_optional_lock reads as "take no mutex"): the adders and clear    *)
(* hold _mutex_taskempty, execute and is_empty hold nothing.               *)
(***************************************************************************)
EXTENDS Naturals, FiniteSets

CONSTANTS
  Resident,   \* tasks that are added as resident tasks, each at most once
  Disposible, \* tasks that are added as disposable tasks, each at most once
  Adders,     \* threads that add tasks, besides the owner and the worker
  LateAdds,   \* the values lateAdds may have
  NoTask,
  NoThread

Owner  == "owner"
Worker == "worker"
Tasks  == Resident \cup Disposible
Threads == Adders \cup {Owner, Worker}

ASSUME ThreadAssumption ==
  /\ Resident \cap Disposible = {}
  /\ NoTask \notin Tasks
  /\ Adders \cap {Owner, Worker} = {}
  /\ NoThread \notin Adders \cup {Owner, Worker}
  /\ LateAdds \subseteq BOOLEAN

VARIABLES
  lateAdds,    \* how the object is used: do threads add tasks while the worker
               \* runs, or only the owner before start and the worker's own tasks?
  owner,       \* "new", "starting" (in _cond_start.wait), "ready", "clearing",
               \* "joining", "gone"
  worker,      \* "none", "boot", "init", "check", "store", "lock", "waiting",
               \* "woken", "go", "resident", "disposible", "exit", "done"
  isStart,     \* _is_start
  isQuit,      \* _is_quit
  isTaskEmpty, \* _is_taskempty
  seenEmpty,   \* what the worker has read of the two queues
  mutex,       \* holder of _mutex_taskempty
  queued,      \* tasks in _resident_task_queue and _disposible_task_queue
  turn,        \* tasks of the queue being executed that this turn has yet to run
  copied,      \* the task execute has copied from the queue and not called yet
  running,     \* the task whose callback the worker is in
  call,        \* per thread: "none", "lock", "adding", "notify"
  arg,         \* per thread: the task it is adding
  added,       \* history: tasks that were added
  runs,        \* history: disposable tasks that were started
  lateStarts,  \* history: how often a resident task was started after the order to quit
  broken       \* two threads were inside one queue: undefined

vars == <<lateAdds, owner, worker, isStart, isQuit, isTaskEmpty, seenEmpty, mutex, queued,
          turn, copied, running, call, arg, added, runs, lateStarts, broken>>

Init ==
  /\ lateAdds \in LateAdds
  /\ owner = "new"
  /\ worker = "none"
  /\ isStart = FALSE
  /\ isQuit = FALSE
  /\ isTaskEmpty = TRUE
  /\ seenEmpty = FALSE
  /\ mutex = NoThread
  /\ queued = {}
  /\ turn = {}
  /\ copied = NoTask
  /\ running = NoTask
  /\ call = [t \in Threads |-> "none"]
  /\ arg = [t \in Threads |-> NoTask]
  /\ added = {}
  /\ runs = {}
  /\ lateStarts = 0
  /\ broken = FALSE

-----------------------------------------------------------------------------
(* Adding tasks: add_task_helper                                           *)

\* The worker is in code of a task: an init or exit task, or a regular one.
InTask == running # NoTask \/ worker \in {"init", "exit"}

\* Where a thread may add tasks: the worker in its tasks, the owner before start
\* and, with late adds, until it destroys the object; the others, with late adds,
\* while the object lives.
MayAdd(t) ==
  /\ call[t] = "none"
  /\ t = Worker => InTask
  /\ t = Owner => owner = "new" \/ (lateAdds /\ owner = "ready")
  /\ t \in Adders => lateAdds /\ owner \in {"new", "starting", "ready"}

CallAdd(t, x) ==
  /\ ~broken
  /\ MayAdd(t)
  /\ x \notin added
  /\ call' = [call EXCEPT ![t] = "lock"]
  /\ arg' = [arg EXCEPT ![t] = x]
  /\ added' = added \cup {x}
  /\ UNCHANGED <<lateAdds, owner, worker, isStart, isQuit, isTaskEmpty, seenEmpty, mutex, queued,
                 turn, copied, running, runs, lateStarts, broken>>

AddLock(t) ==
  /\ ~broken
  /\ call[t] = "lock"
  /\ mutex = NoThread
  /\ mutex' = t
  /\ call' = [call EXCEPT ![t] = "adding"]
  /\ UNCHANGED <<lateAdds, owner, worker, isStart, isQuit, isTaskEmpty, seenEmpty, queued, turn,
                 copied, running, arg, added, runs, lateStarts, broken>>

\* Where add_task_helper goes once it has unlocked.
AfterAdd == IF isTaskEmpty THEN "notify" ELSE "none"

\* Store the task; when the flag says the worker has nothing to do, reset it
\* and notify after unlocking.
AddTask(t) ==
  /\ ~broken
  /\ call[t] = "adding"
  /\ queued' = queued \cup {arg[t]}
  /\ isTaskEmpty' = FALSE
  /\ mutex' = NoThread
  /\ call' = [call EXCEPT ![t] = AfterAdd]
  /\ arg' = [arg EXCEPT ![t] = NoTask]
  /\ UNCHANGED <<lateAdds, owner, worker, isStart, isQuit, seenEmpty, turn, copied, running,
                 added, runs, lateStarts, broken>>

\* What notify_one makes of the worker.
Notified == IF worker = "waiting" THEN "woken" ELSE worker

Notify(t) ==
  /\ ~broken
  /\ call[t] = "notify"
  /\ worker' = Notified
  /\ call' = [call EXCEPT ![t] = "none"]
  /\ UNCHANGED <<lateAdds, owner, isStart, isQuit, isTaskEmpty, seenEmpty, mutex, queued, turn,
                 copied, running, arg, added, runs, lateStarts, broken>>

\* clear_regual_task, called by tasks (tcp_client_domain.h:129, 141): empty both
\* queues under the mutex.  The notify finds no one waiting, the worker is here.
ClearRegular ==
  /\ ~broken
  /\ InTask
  /\ call[Worker] = "none"
  /\ mutex = NoThread
  /\ queued' = {}
  /\ UNCHANGED <<lateAdds, owner, worker, isStart, isQuit, isTaskEmpty, seenEmpty, mutex, turn,
                 copied, running, call, arg, added, runs, lateStarts, broken>>

-----------------------------------------------------------------------------
(* The owner: start and the destructor                                     *)

Start ==
  /\ ~broken
  /\ owner = "new"
  /\ call[Owner] = "none"
  /\ owner' = "starting"
  /\ worker' = "boot"
  /\ UNCHANGED <<lateAdds, isStart, isQuit, isTaskEmpty, seenEmpty, mutex, queued, turn, copied,
                 running, call, arg, added, runs, lateStarts, broken>>

\* The wait on _cond_start is over once the worker has set _is_start.
Started ==
  /\ ~broken
  /\ owner = "starting"
  /\ isStart
  /\ owner' = "ready"
  /\ UNCHANGED <<lateAdds, worker, isStart, isQuit, isTaskEmpty, seenEmpty, mutex, queued, turn,
                 copied, running, call, arg, added, runs, lateStarts, broken>>

\* clear: the object is destroyed by the thread that made it, when nobody else
\* is inside it.
Destroy ==
  /\ ~broken
  /\ owner \in {"new", "ready"}
  /\ \A t \in Threads \ {Worker} : call[t] = "none"
  /\ mutex = NoThread
  /\ mutex' = Owner
  /\ owner' = "clearing"
  /\ UNCHANGED <<lateAdds, worker, isStart, isQuit, isTaskEmpty, seenEmpty, queued, turn, copied,
                 running, call, arg, added, runs, lateStarts, broken>>

\* Under the mutex: quit, empty both queues, notify.
Clear ==
  /\ ~broken
  /\ owner = "clearing"
  /\ owner' = "joining"
  /\ isQuit' = TRUE
  /\ queued' = {}
  /\ worker' = Notified
  /\ mutex' = NoThread
  /\ UNCHANGED <<lateAdds, isStart, isTaskEmpty, seenEmpty, turn, copied, running, call, arg,
                 added, runs, lateStarts, broken>>

\* join: at once when the thread was never started.
Joined ==
  /\ ~broken
  /\ owner = "joining"
  /\ worker \in {"none", "done"}
  /\ owner' = "gone"
  /\ UNCHANGED <<lateAdds, worker, isStart, isQuit, isTaskEmpty, seenEmpty, mutex, queued, turn,
                 copied, running, call, arg, added, runs, lateStarts, broken>>

-----------------------------------------------------------------------------
(* The worker: thread_routine                                              *)

Boot ==
  /\ ~broken
  /\ worker = "boot"
  /\ isStart' = TRUE
  /\ worker' = "init"
  /\ UNCHANGED <<lateAdds, owner, isQuit, isTaskEmpty, seenEmpty, mutex, queued, turn, copied,
                 running, call, arg, added, runs, lateStarts, broken>>

\* The init tasks return; the exit tasks return.
EndInit ==
  /\ ~broken
  /\ worker = "init"
  /\ call[Worker] = "none"
  /\ worker' = "check"
  /\ UNCHANGED <<lateAdds, owner, isStart, isQuit, isTaskEmpty, seenEmpty, mutex, queued, turn,
                 copied, running, call, arg, added, runs, lateStarts, broken>>

EndExit ==
  /\ ~broken
  /\ worker = "exit"
  /\ call[Worker] = "none"
  /\ worker' = "done"
  /\ UNCHANGED <<lateAdds, owner, isStart, isQuit, isTaskEmpty, seenEmpty, mutex, queued, turn,
                 copied, running, call, arg, added, runs, lateStarts, broken>>

\* Mutant: only one of the queues is asked.
DisposibleEmpty == queued \cap Disposible = {}

\* is_empty of both queues
QueuesEmpty == queued = {}

\* _is_taskempty = both queues are empty, without the mutex: a read ...
ReadQueues ==
  /\ ~broken
  /\ worker = "check"
  /\ seenEmpty' = QueuesEmpty
  /\ worker' = "store"
  /\ UNCHANGED <<lateAdds, owner, isStart, isQuit, isTaskEmpty, mutex, queued, turn, copied,
                 running, call, arg, added, runs, lateStarts, broken>>

\* ... and a write.
StoreFlag ==
  /\ ~broken
  /\ worker = "store"
  /\ isTaskEmpty' = seenEmpty
  /\ worker' = "lock"
  /\ UNCHANGED <<lateAdds, owner, isStart, isQuit, seenEmpty, mutex, queued, turn, copied,
                 running, call, arg, added, runs, lateStarts, broken>>

\* Mutant: the worker looks at the flag only, not at the order to quit.
AfterLockNoQuit == IF isTaskEmpty THEN "waiting" ELSE "go"

\* What the worker finds when it holds the mutex, at first or after a wait.
AfterLock ==
  IF isQuit THEN "exit" ELSE IF isTaskEmpty THEN "waiting" ELSE "go"

Decide ==
  /\ ~broken
  /\ worker \in {"lock", "woken"}
  /\ mutex = NoThread
  /\ worker' = AfterLock
  /\ UNCHANGED <<lateAdds, owner, isStart, isQuit, isTaskEmpty, seenEmpty, mutex, queued, turn,
                 copied, running, call, arg, added, runs, lateStarts, broken>>

\* A condition variable may wake its waiter for no reason.
SpuriousWakeup ==
  /\ ~broken
  /\ worker = "waiting"
  /\ worker' = "woken"
  /\ UNCHANGED <<lateAdds, owner, isStart, isQuit, isTaskEmpty, seenEmpty, mutex, queued, turn,
                 copied, running, call, arg, added, runs, lateStarts, broken>>

\* Begin the turn through the resident tasks that are queued now.
BeginResident ==
  /\ ~broken
  /\ worker = "go"
  /\ worker' = "resident"
  /\ turn' = queued \cap Resident
  /\ UNCHANGED <<lateAdds, owner, isStart, isQuit, isTaskEmpty, seenEmpty, mutex, queued, copied,
                 running, call, arg, added, runs, lateStarts, broken>>

\* Mutant: a task cleared since the turn began is still called.
ToRunCached == turn

\* The tasks this turn has still to run: clear may have removed some.
ToRun == turn \cap queued

\* What stays queued when a task is copied.
Left(x) == IF x \in Disposible THEN queued \ {x} ELSE queued

\* Copy the next task: a resident one stays queued, a disposable one goes.
Take(x) ==
  /\ ~broken
  /\ worker \in {"resident", "disposible"}
  /\ copied = NoTask /\ running = NoTask
  /\ x \in ToRun
  /\ copied' = x
  /\ turn' = turn \ {x}
  /\ queued' = Left(x)
  /\ UNCHANGED <<lateAdds, owner, worker, isStart, isQuit, isTaskEmpty, seenEmpty, mutex, running,
                 call, arg, added, runs, lateStarts, broken>>

\* item.task(): call the copy, whatever has become of the queue.
CallTask ==
  /\ ~broken
  /\ copied # NoTask
  /\ copied' = NoTask
  /\ running' = copied
  /\ runs' = runs \cup ({copied} \cap Disposible)
  /\ lateStarts' = IF isQuit /\ copied \in Resident THEN lateStarts + 1 ELSE lateStarts
  /\ UNCHANGED <<lateAdds, owner, worker, isStart, isQuit, isTaskEmpty, seenEmpty, mutex, queued,
                 turn, call, arg, added, broken>>

EndTask ==
  /\ ~broken
  /\ running # NoTask
  /\ call[Worker] = "none"
  /\ running' = NoTask
  /\ UNCHANGED <<lateAdds, owner, worker, isStart, isQuit, isTaskEmpty, seenEmpty, mutex, queued,
                 turn, copied, call, arg, added, runs, lateStarts, broken>>

\* The resident tasks are through, the disposable ones follow.
EndResident ==
  /\ ~broken
  /\ worker = "resident"
  /\ copied = NoTask /\ running = NoTask
  /\ ToRun = {}
  /\ worker' = "disposible"
  /\ turn' = queued \cap Disposible
  /\ UNCHANGED <<lateAdds, owner, isStart, isQuit, isTaskEmpty, seenEmpty, mutex, queued, copied,
                 running, call, arg, added, runs, lateStarts, broken>>

EndDisposible ==
  /\ ~broken
  /\ worker = "disposible"
  /\ copied = NoTask /\ running = NoTask
  /\ ToRun = {}
  /\ worker' = "check"
  /\ turn' = {}
  /\ UNCHANGED <<lateAdds, owner, isStart, isQuit, isTaskEmpty, seenEmpty, mutex, queued, copied,
                 running, call, arg, added, runs, lateStarts, broken>>

\* The queues the worker is inside of, and those another thread is changing.
Reading ==
  CASE copied # NoTask \/ running # NoTask -> {}
    [] worker = "check"         -> Tasks
    [] worker = "resident"      -> Resident
    [] worker = "disposible"    -> Disposible
    [] OTHER                    -> {}

Changing ==
  {x \in Tasks : owner = "clearing" \/ \E t \in Threads \ {Worker} : call[t] = "adding" /\ arg[t] = x}

\* Both at once on one queue: undefined, the process may die.
Overlap == Reading \cap Changing # {}

Break ==
  /\ ~broken
  /\ Overlap
  /\ broken' = TRUE
  /\ UNCHANGED <<lateAdds, owner, worker, isStart, isQuit, isTaskEmpty, seenEmpty, mutex, queued,
                 turn, copied, running, call, arg, added, runs, lateStarts>>

-----------------------------------------------------------------------------
(* The specification                                                       *)

\* Steps that wait for nobody.
OwnStep ==
  \/ Boot \/ ReadQueues \/ StoreFlag \/ BeginResident \/ (\E x \in Tasks : Take(x))
  \/ CallTask \/ EndResident \/ EndDisposible

Next ==
  \/ \E t \in Threads, x \in Tasks : CallAdd(t, x)
  \/ \E t \in Threads : AddLock(t)
  \/ \E t \in Threads : AddTask(t)
  \/ \E t \in Threads : Notify(t)
  \/ ClearRegular
  \/ Start \/ Started \/ Destroy \/ Clear \/ Joined
  \/ Boot \/ EndInit \/ EndExit \/ ReadQueues \/ StoreFlag \/ Decide \/ SpuriousWakeup
  \/ BeginResident \/ (\E x \in Tasks : Take(x)) \/ CallTask \/ EndTask
  \/ EndResident \/ EndDisposible
  \/ Break

Spec == Init /\ [][Next]_vars

\* The threads are scheduled, tasks return, and a mutex that is free again and
\* again is obtained.
FairSpec ==
  /\ Spec
  /\ WF_vars(OwnStep)
  /\ WF_vars(Started) /\ WF_vars(Clear) /\ WF_vars(Joined)
  /\ SF_vars(EndInit) /\ SF_vars(EndTask) /\ SF_vars(EndExit) /\ SF_vars(Decide)
  /\ \A t \in Threads : SF_vars(AddLock(t)) /\ WF_vars(AddTask(t)) /\ WF_vars(Notify(t))

-----------------------------------------------------------------------------
(* Properties                                                              *)

TypeOK ==
  /\ lateAdds \in BOOLEAN
  /\ owner \in {"new", "starting", "ready", "clearing", "joining", "gone"}
  /\ worker \in {"none", "boot", "init", "check", "store", "lock", "waiting", "woken",
                 "go", "resident", "disposible", "exit", "done"}
  /\ isStart \in BOOLEAN /\ isQuit \in BOOLEAN /\ isTaskEmpty \in BOOLEAN
  /\ seenEmpty \in BOOLEAN
  /\ mutex \in Threads \cup {NoThread}
  /\ queued \subseteq Tasks
  /\ turn \subseteq Tasks
  /\ copied \in Tasks \cup {NoTask}
  /\ running \in Tasks \cup {NoTask}
  /\ call \in [Threads -> {"none", "lock", "adding", "notify"}]
  /\ arg \in [Threads -> Tasks \cup {NoTask}]
  /\ added \subseteq Tasks
  /\ runs \subseteq Disposible
  /\ lateStarts \in Nat
  /\ broken \in BOOLEAN

\* A worker that sleeps has not been told to quit, and when somebody has reset
\* the flag, his notify is still to come: no wakeup is lost between the test of
\* the flag under the mutex and the wait (thread_object.cpp:58-66, .h:71-81).
SleeperWillWake ==
  worker = "waiting" => ~isQuit /\ (isTaskEmpty \/ \E t \in Threads : call[t] = "notify")

\* Once the destructor has told the worker to quit and cleared the queues, at most one
\* more resident task starts, that is one turn of a reactor loop: the one execute had
\* copied before and calls without looking again (thread_object.cpp:82-88,
\* task_queue.cpp:71 and :88).  No second one does, wherever the worker was.
OneResidentAfterQuit == lateStarts <= 1

\* A disposable task is called at most once (task_queue.cpp:72-88).
DisposibleOnce == [][\A x \in Disposible : CallTask /\ copied = x => x \notin runs]_vars

\* The worker sleeps only while there is no task (thread_object.h:53).
SleepsOnlyIdle == worker = "waiting" /\ isTaskEmpty => queued = {}

\* The destructor returns: the worker is woken, leaves its loop, runs its exit
\* tasks and is joined.
JoinReturns == (owner = "clearing") ~> (owner = "gone" \/ broken)

\* Once the thread is started, a resident task is called again and again until it
\* is cleared or the worker is told to quit: the reactor loop keeps turning, as
\* long as nobody adds tasks late (see SleepsOnlyIdle).
ResidentKeepsRunning ==
  \A x \in Resident :
    (x \in queued /\ worker # "none" /\ ~lateAdds)
      ~> (running = x \/ x \notin queued \/ isQuit \/ broken)
=============================================================================
