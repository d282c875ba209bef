------------------------- MODULE ThreadObjectProofs -------------------------
(***************************************************************************)
(* Proofs about ThreadObject, for any tasks, any adding threads and both   *)
(* ways of using the object: a sleeping worker will be woken for what the  *)
(* flag or the order to quit says, at most one resident task, the one that *)
(* was copied before, starts after the destructor has cleared the queues,  *)
(* and a disposable task starts once.                                      *)
(***************************************************************************)
EXTENDS ThreadObject, TLAPS

\* A thread has been called to add a task and has not stored it yet.
Pending(t) == call[t] \in {"lock", "adding"}

\* Where a task may be: only tasks that were added are queued, called or in a turn;
\* one that is on its way into the queue is in none of these, and nobody else
\* brings it; a disposable one that was copied or called is no longer queued.
Flight ==
  /\ queued \subseteq added /\ runs \subseteq added /\ turn \subseteq added
  /\ runs \cap queued = {}
  /\ copied # NoTask => copied \in added
  /\ copied \in Disposible => copied \notin queued \cup runs
  /\ \A t \in Threads : Pending(t) =>
       arg[t] \in added /\ arg[t] \notin queued \cup runs \cup turn \cup {copied}
  /\ \A t, u \in Threads : Pending(t) /\ Pending(u) /\ t # u => arg[t] # arg[u]

\* Where the threads are: the worker adds and runs tasks in its tasks only, nobody
\* else is inside the object from the destructor's clear on.
Places ==
  /\ owner = "new" => worker = "none"
  /\ running # NoTask => worker \in {"resident", "disposible"}
  /\ copied # NoTask => worker \in {"resident", "disposible"} /\ running = NoTask
  /\ call[Worker] # "none" => InTask
  /\ isQuit => owner \in {"joining", "gone"}
  /\ owner \in {"clearing", "joining", "gone"} =>
       \A t \in Threads \ {Worker} : call[t] = "none"
  /\ worker = "disposible" => turn \subseteq Disposible

\* Once the worker has been told to quit no resident task is left to copy; the one
\* that was copied before starts, if there is one, and no other.
Quiet ==
  /\ isQuit =>
       /\ worker = "go" => queued \cap Resident = {}
       /\ worker = "resident" => turn \cap queued = {}
  /\ ~isQuit => lateStarts = 0
  /\ copied \in Resident => lateStarts = 0
  /\ lateStarts <= 1

IInv == TypeOK /\ SleeperWillWake /\ Flight /\ Places /\ Quiet

-----------------------------------------------------------------------------
\* A new object has no tasks and no thread (thread_object's constructor).
LEMMA InitIInv == Init => IInv
<1> SUFFICES ASSUME Init PROVE IInv
  OBVIOUS
<1> USE ThreadAssumption DEF Init, Threads, Tasks, Owner, Worker
<1>1. TypeOK
  BY DEF TypeOK
<1>2. SleeperWillWake
  BY DEF SleeperWillWake
<1>3. Flight
  BY DEF Flight, Pending
<1>4. Places
  BY DEF Places
<1>5. Quiet
  BY DEF Quiet
<1> QED
  BY <1>1, <1>2, <1>3, <1>4, <1>5 DEF IInv

\* The fields keep their types; the task a thread stores is one it was called with.
LEMMA TypeOKStep == IInv /\ [Next]_vars => TypeOK'
<1> SUFFICES ASSUME IInv, [Next]_vars PROVE TypeOK'
  OBVIOUS
<1> USE ThreadAssumption DEF IInv, TypeOK, Threads, Tasks, Owner, Worker
<1>1. ASSUME NEW t \in Threads, NEW x \in Tasks, CallAdd(t, x) PROVE TypeOK'
  BY <1>1 DEF CallAdd, MayAdd, InTask
<1>2. ASSUME NEW t \in Threads, AddLock(t) PROVE TypeOK'
  BY <1>2 DEF AddLock
<1>3. ASSUME NEW t \in Threads, AddTask(t) PROVE TypeOK'
  <2>1. arg[t] \in Tasks
    BY <1>3 DEF AddTask, Flight, Pending
  <2>2. call' \in [Threads -> {"none", "lock", "adding", "notify"}]
    BY <1>3 DEF AddTask, AfterAdd
  <2>3. queued' \subseteq Tasks /\ arg' \in [Threads -> Tasks \cup {NoTask}]
    BY <1>3, <2>1 DEF AddTask
  <2>4. /\ mutex' = NoThread
        /\ UNCHANGED <<lateAdds, owner, worker, isStart, isQuit, seenEmpty, turn, copied, running,
                       added, runs, lateStarts, broken>>
    BY <1>3 DEF AddTask
  <2>5. isTaskEmpty' \in BOOLEAN
    BY <1>3 DEF AddTask
  <2> QED
    BY <2>2, <2>3, <2>4, <2>5
<1>4. ASSUME NEW t \in Threads, Notify(t) PROVE TypeOK'
  BY <1>4 DEF Notify, Notified
<1>5. CASE ClearRegular
  BY <1>5 DEF ClearRegular, InTask
<1>6. CASE Start
  BY <1>6 DEF Start
<1>7. CASE Destroy
  BY <1>7 DEF Destroy
<1>8. CASE Clear
  BY <1>8 DEF Clear, Notified
<1>9. CASE ReadQueues
  BY <1>9 DEF ReadQueues, QueuesEmpty
<1>10. CASE StoreFlag
  BY <1>10 DEF StoreFlag
<1>11. CASE Decide
  BY <1>11 DEF Decide, AfterLock
<1>12. CASE BeginResident
  BY <1>12 DEF BeginResident
<1>13. ASSUME NEW x \in Tasks, Take(x) PROVE TypeOK'
  BY <1>13 DEF Take, Left, ToRun
<1>25. CASE CallTask
  BY <1>25 DEF CallTask
<1>14. CASE EndTask
  BY <1>14 DEF EndTask
<1>15. CASE EndResident
  BY <1>15 DEF EndResident, ToRun
<1>16. CASE EndDisposible
  BY <1>16 DEF EndDisposible, ToRun
<1>17. CASE Break
  BY <1>17 DEF Break
<1>18. CASE Started
  BY <1>18 DEF Started
<1>19. CASE Joined
  BY <1>19 DEF Joined
<1>20. CASE Boot
  BY <1>20 DEF Boot
<1>21. CASE EndInit
  BY <1>21 DEF EndInit
<1>22. CASE EndExit
  BY <1>22 DEF EndExit
<1>23. CASE SpuriousWakeup
  BY <1>23 DEF SpuriousWakeup
<1>24. CASE UNCHANGED vars
  BY <1>24 DEF vars
<1> QED
  BY <1>1, <1>2, <1>3, <1>4, <1>5, <1>6, <1>7, <1>8, <1>9, <1>10, <1>11, <1>12, <1>13, <1>14, <1>15, <1>16, <1>17, <1>18, <1>19, <1>20, <1>21, <1>22, <1>23, <1>24, <1>25 DEF Next

\* A worker goes to sleep holding the mutex and the flag (Decide); whoever resets the
\* flag has yet to notify (AddTask), and to quit is said together with a notify (Clear).
LEMMA SleeperWillWakeStep == IInv /\ [Next]_vars => SleeperWillWake'
<1> SUFFICES ASSUME IInv, [Next]_vars PROVE SleeperWillWake'
  OBVIOUS
<1> USE ThreadAssumption DEF IInv, TypeOK, SleeperWillWake, Threads, Tasks, Owner, Worker
<1>1. ASSUME NEW t \in Threads, NEW x \in Tasks, CallAdd(t, x) PROVE SleeperWillWake'
  BY <1>1 DEF CallAdd, MayAdd, InTask
<1>2. ASSUME NEW t \in Threads, AddLock(t) PROVE SleeperWillWake'
  BY <1>2 DEF AddLock
<1>3. ASSUME NEW t \in Threads, AddTask(t) PROVE SleeperWillWake'
  BY <1>3 DEF AddTask, AfterAdd
<1>4. ASSUME NEW t \in Threads, Notify(t) PROVE SleeperWillWake'
  BY <1>4 DEF Notify, Notified
<1>5. CASE Clear
  BY <1>5 DEF Clear, Notified
<1>6. CASE Decide
  BY <1>6 DEF Decide, AfterLock
<1>7. CASE \/ ClearRegular \/ Start \/ Started \/ Destroy \/ Joined \/ Boot
           \/ EndInit \/ EndExit \/ ReadQueues \/ StoreFlag \/ SpuriousWakeup
           \/ BeginResident \/ (\E x \in Tasks : Take(x)) \/ CallTask \/ EndTask
           \/ EndResident \/ EndDisposible \/ Break
  BY <1>7 DEF ClearRegular, InTask, Start, Started, Destroy, Joined, Boot, EndInit,
    EndExit, ReadQueues, QueuesEmpty, StoreFlag, SpuriousWakeup, BeginResident, Take,
    Left, ToRun, CallTask, EndTask, EndResident, EndDisposible, Break
<1>8. CASE UNCHANGED vars
  BY <1>8 DEF vars
<1> QED
  BY <1>1, <1>2, <1>3, <1>4, <1>5, <1>6, <1>7, <1>8 DEF Next

\* A task is added once (CallAdd), stored once (AddTask), and leaves the queue when it
\* is called if it is disposable (Take).
LEMMA FlightStep == IInv /\ [Next]_vars => Flight'
<1> SUFFICES ASSUME IInv, [Next]_vars PROVE Flight'
  OBVIOUS
<1> USE ThreadAssumption DEF IInv, TypeOK, Flight, Pending, Threads, Tasks, Owner, Worker
<1>1. ASSUME NEW t \in Threads, NEW x \in Tasks, CallAdd(t, x) PROVE Flight'
  BY <1>1 DEF CallAdd, MayAdd, InTask
<1>2. ASSUME NEW t \in Threads, AddLock(t) PROVE Flight'
  BY <1>2 DEF AddLock
<1>3. ASSUME NEW t \in Threads, AddTask(t) PROVE Flight'
  BY <1>3 DEF AddTask, AfterAdd
<1>4. ASSUME NEW t \in Threads, Notify(t) PROVE Flight'
  BY <1>4 DEF Notify, Notified
<1>5. CASE BeginResident
  BY <1>5 DEF BeginResident
<1>6. ASSUME NEW x \in Tasks, Take(x) PROVE Flight'
  BY <1>6 DEF Take, Left, ToRun
<1>10. CASE CallTask
  BY <1>10 DEF CallTask
<1>7. CASE EndResident
  BY <1>7 DEF EndResident, ToRun
<1>8. CASE \/ ClearRegular \/ Start \/ Started \/ Destroy \/ Clear \/ Joined \/ Boot
           \/ EndInit \/ EndExit \/ ReadQueues \/ StoreFlag \/ Decide
           \/ SpuriousWakeup \/ EndTask \/ EndDisposible \/ Break
  BY <1>8 DEF ClearRegular, InTask, Start, Started, Destroy, Clear, Notified, Joined,
    Boot, EndInit, EndExit, ReadQueues, QueuesEmpty, StoreFlag, Decide, AfterLock,
    SpuriousWakeup, EndTask, EndDisposible, ToRun, Break
<1>9. CASE UNCHANGED vars
  BY <1>9 DEF vars
<1> QED
  BY <1>1, <1>2, <1>3, <1>4, <1>5, <1>6, <1>7, <1>8, <1>9, <1>10 DEF Next

\* Where the threads are goes together with what they have done.
LEMMA PlacesStep == IInv /\ [Next]_vars => Places'
<1> SUFFICES ASSUME IInv, [Next]_vars PROVE Places'
  OBVIOUS
<1> USE ThreadAssumption DEF IInv, TypeOK, Places, InTask, Threads, Tasks, Owner, Worker
<1>1. ASSUME NEW t \in Threads, NEW x \in Tasks, CallAdd(t, x) PROVE Places'
  BY <1>1 DEF CallAdd, MayAdd
<1>2. ASSUME NEW t \in Threads, AddLock(t) PROVE Places'
  BY <1>2 DEF AddLock
<1>3. ASSUME NEW t \in Threads, AddTask(t) PROVE Places'
  BY <1>3 DEF AddTask, AfterAdd
<1>4. ASSUME NEW t \in Threads, Notify(t) PROVE Places'
  BY <1>4 DEF Notify, Notified
<1>5. CASE Start
  BY <1>5 DEF Start
<1>6. CASE Destroy
  BY <1>6 DEF Destroy
<1>7. CASE Clear
  BY <1>7 DEF Clear, Notified
<1>8. ASSUME NEW x \in Tasks, Take(x) PROVE Places'
  BY <1>8 DEF Take, Left, ToRun
<1>12. CASE CallTask
  BY <1>12 DEF CallTask
<1>9. CASE EndResident
  BY <1>9 DEF EndResident, ToRun
<1>10. CASE \/ ClearRegular \/ Started \/ Joined \/ Boot \/ EndInit \/ EndExit
           \/ ReadQueues \/ StoreFlag \/ Decide \/ SpuriousWakeup \/ BeginResident
           \/ EndTask \/ EndDisposible \/ Break
  BY <1>10 DEF ClearRegular, Started, Joined, Boot, EndInit, EndExit, ReadQueues,
    QueuesEmpty, StoreFlag, Decide, AfterLock, SpuriousWakeup, BeginResident, EndTask,
    EndDisposible, ToRun, Break
<1>11. CASE UNCHANGED vars
  BY <1>11 DEF vars
<1> QED
  BY <1>1, <1>2, <1>3, <1>4, <1>5, <1>6, <1>7, <1>8, <1>9, <1>10, <1>11, <1>12 DEF Next

\* Clear empties the queues; afterwards only the worker's own tasks add, and what they
\* add is in no turn that has begun.
LEMMA QuietStep == IInv /\ [Next]_vars => Quiet'
<1> SUFFICES ASSUME IInv, [Next]_vars PROVE Quiet'
  OBVIOUS
<1> USE ThreadAssumption DEF IInv, TypeOK, Quiet, Pending, Places, InTask, Flight, Threads, Tasks, Owner, Worker
<1>1. ASSUME NEW t \in Threads, AddTask(t) PROVE Quiet'
  BY <1>1 DEF AddTask, AfterAdd
<1>2. ASSUME NEW t \in Threads, Notify(t) PROVE Quiet'
  BY <1>2 DEF Notify, Notified
<1>3. CASE Clear
  BY <1>3 DEF Clear, Notified
<1>4. CASE Decide
  BY <1>4 DEF Decide, AfterLock
<1>5. CASE BeginResident
  BY <1>5 DEF BeginResident
<1>6. ASSUME NEW x \in Tasks, Take(x) PROVE Quiet'
  BY <1>6 DEF Take, Left, ToRun
<1>9. CASE CallTask
  BY <1>9 DEF CallTask
<1>7. CASE \/ (\E t \in Threads, x \in Tasks : CallAdd(t, x))
           \/ (\E t \in Threads : AddLock(t)) \/ ClearRegular \/ Start \/ Started
           \/ Destroy \/ Joined \/ Boot \/ EndInit \/ EndExit \/ ReadQueues
           \/ StoreFlag \/ SpuriousWakeup \/ EndTask \/ EndResident \/ EndDisposible
           \/ Break
  BY <1>7 DEF CallAdd, MayAdd, AddLock, ClearRegular, Start, Started, Destroy, Joined,
    Boot, EndInit, EndExit, ReadQueues, QueuesEmpty, StoreFlag, SpuriousWakeup,
    EndTask, EndResident, ToRun, EndDisposible, Break
<1>8. CASE UNCHANGED vars
  BY <1>8 DEF vars
<1> QED
  BY <1>1, <1>2, <1>3, <1>4, <1>5, <1>6, <1>7, <1>8, <1>9 DEF Next

\* Every step of the owner, the worker and the adders keeps the invariant.
LEMMA Invariant == Spec => []IInv
<1>1. IInv /\ [Next]_vars => IInv'
  BY TypeOKStep, SleeperWillWakeStep, FlightStep, PlacesStep, QuietStep DEF IInv
<1> QED
  BY InitIInv, <1>1, PTL DEF Spec

-----------------------------------------------------------------------------
\* The fields of the object and the places of its threads have their types.
THEOREM TypeCorrect == Spec => []TypeOK
<1>1. IInv => TypeOK
  BY DEF IInv
<1> QED
  BY <1>1, Invariant, PTL

\* No wakeup is lost between the test of the flag under the mutex and the wait: a
\* worker that waits has not been told to quit, and when the flag is reset a
\* notify is still to come (thread_object.cpp:58-66, thread_object.h:71-81).
THEOREM SleeperWillWakeCorrect == Spec => []SleeperWillWake
<1>1. IInv => SleeperWillWake
  BY DEF IInv
<1> QED
  BY <1>1, Invariant, PTL

\* At most one resident task starts after the destructor has cleared the queues: the
\* one whose copy the worker held then (thread_object.cpp:82-88, task_queue.cpp:71, 88).
THEOREM OneResidentAfterQuitCorrect == Spec => []OneResidentAfterQuit
<1>1. IInv => OneResidentAfterQuit
  BY DEF IInv, Quiet, OneResidentAfterQuit
<1> QED
  BY <1>1, Invariant, PTL

\* A disposable task is called at most once, though tasks and other threads add
\* and clear while the worker goes through the queue (task_queue.cpp:72-88).
THEOREM DisposibleOnceCorrect == Spec => DisposibleOnce
<1>1. IInv /\ [Next]_vars => [\A x \in Disposible : CallTask /\ copied = x => x \notin runs]_vars
  BY DEF IInv, Flight
<1> QED
  BY <1>1, Invariant, PTL DEF Spec, DisposibleOnce

-----------------------------------------------------------------------------
(* The worker of a loop, to which nobody adds tasks late                    *)

\* Besides the tasks only the owner adds, before it starts the worker.
Alone == ~lateAdds => \A t \in Threads \ {Worker} : call[t] # "none" => t = Owner /\ owner = "new"

\* From the look at the queues to the end of the sleep: when both were found empty
\* they still are.
EmptyWhenSeen ==
  ~lateAdds =>
    /\ worker = "store" /\ seenEmpty => queued = {}
    /\ worker \in {"lock", "waiting", "woken"} /\ isTaskEmpty => queued = {}

LEMMA AloneStep == IInv /\ Alone /\ [Next]_vars => Alone'
<1> SUFFICES ASSUME IInv, Alone, [Next]_vars PROVE Alone'
  OBVIOUS
<1> USE ThreadAssumption DEF IInv, TypeOK, Alone, Threads, Tasks, Owner, Worker
<1>1. ASSUME NEW t \in Threads, NEW x \in Tasks, CallAdd(t, x) PROVE Alone'
  BY <1>1 DEF CallAdd, MayAdd
<1>2. ASSUME NEW t \in Threads, AddLock(t) \/ AddTask(t) \/ Notify(t) PROVE Alone'
  BY <1>2 DEF AddLock, AddTask, AfterAdd, Notify
<1>3. CASE Start
  BY <1>3 DEF Start
<1>4. CASE Destroy
  BY <1>4 DEF Destroy
<1>5. CASE Clear \/ Started \/ Joined
  BY <1>5 DEF Clear, Started, Joined
<1>6. CASE UNCHANGED <<lateAdds, owner, call>>
  BY <1>6
<1>7. CASE \/ ClearRegular \/ Boot \/ EndInit \/ EndExit \/ ReadQueues \/ StoreFlag \/ Decide
           \/ SpuriousWakeup \/ BeginResident \/ (\E x \in Tasks : Take(x)) \/ CallTask
           \/ EndTask \/ EndResident \/ EndDisposible \/ Break
  BY <1>6, <1>7 DEF ClearRegular, Boot, EndInit, EndExit, ReadQueues, StoreFlag, Decide,
    SpuriousWakeup, BeginResident, Take, CallTask, EndTask, EndResident, EndDisposible, Break
<1>8. CASE UNCHANGED vars
  BY <1>6, <1>8 DEF vars
<1> QED
  BY <1>1, <1>2, <1>3, <1>4, <1>5, <1>7, <1>8 DEF Next

\* Nobody adds between the look and the sleep, since whoever could is the worker itself.
LEMMA EmptyWhenSeenStep == IInv /\ Alone /\ EmptyWhenSeen /\ [Next]_vars => EmptyWhenSeen'
<1> SUFFICES ASSUME IInv, Alone, EmptyWhenSeen, [Next]_vars PROVE EmptyWhenSeen'
  OBVIOUS
<1> USE ThreadAssumption DEF IInv, TypeOK, EmptyWhenSeen, Threads, Tasks, Owner, Worker
<1>1. ASSUME NEW t \in Threads, AddTask(t) PROVE EmptyWhenSeen'
  <2>1. lateAdds \/ worker \notin {"store", "lock", "waiting", "woken"}
    BY <1>1 DEF AddTask, Alone, Places, InTask
  <2> QED
    BY <1>1, <2>1 DEF AddTask
<1>2. ASSUME NEW t \in Threads, Notify(t) PROVE EmptyWhenSeen'
  BY <1>2 DEF Notify, Notified
<1>3. CASE Clear
  BY <1>3 DEF Clear
<1>4. CASE ReadQueues
  BY <1>4 DEF ReadQueues, QueuesEmpty
<1>5. CASE StoreFlag
  BY <1>5 DEF StoreFlag
<1>6. CASE Decide
  BY <1>6 DEF Decide, AfterLock
<1>7. ASSUME NEW x \in Tasks, Take(x) PROVE EmptyWhenSeen'
  BY <1>7 DEF Take
<1>8. CASE \/ (\E t \in Threads, x \in Tasks : CallAdd(t, x))
           \/ (\E t \in Threads : AddLock(t)) \/ ClearRegular \/ Start \/ Started
           \/ Destroy \/ Joined \/ Boot \/ EndInit \/ EndExit \/ SpuriousWakeup
           \/ BeginResident \/ CallTask \/ EndTask \/ EndResident \/ EndDisposible \/ Break
  BY <1>8 DEF CallAdd, AddLock, ClearRegular, Start, Started, Destroy, Joined, Boot,
    EndInit, EndExit, SpuriousWakeup, BeginResident, CallTask, EndTask, EndResident, EndDisposible, Break
<1>9. CASE UNCHANGED vars
  BY <1>9 DEF vars
<1> QED
  BY <1>1, <1>2, <1>3, <1>4, <1>5, <1>6, <1>7, <1>8, <1>9 DEF Next

\* The worker of a loop sleeps only when it has no task: the read of the two queues and
\* the store of the flag are apart and hold no lock (thread_object.cpp:57), which does no
\* harm as long as all tasks are added before the start or by tasks, as the repository does.
\* With late adds it is false.
THEOREM SleepsOnlyIdleCorrect == Spec => [](~lateAdds => SleepsOnlyIdle)
<1>1. Init => Alone /\ EmptyWhenSeen
  BY DEF Init, Alone, EmptyWhenSeen
<1>2. EmptyWhenSeen => (~lateAdds => SleepsOnlyIdle)
  BY DEF EmptyWhenSeen, SleepsOnlyIdle
<1> QED
  BY <1>1, <1>2, AloneStep, EmptyWhenSeenStep, Invariant, PTL DEF Spec
=============================================================================
