-------------------------- MODULE TaskQueueProofs --------------------------
(***************************************************************************)
(* Proofs about TaskQueue, for any number of loops, user threads and       *)
(* owners and any bound on the sequence numbers.                           *)
(***************************************************************************)
EXTENDS TaskQueue, TLAPS

(* The strengthening.  OwnerIndexExact alone is inductive only together    *)
(* with the typing of the calls; the order of the runs also needs that     *)
(* numbers are fresh and what a pass has left behind.                      *)

\* A queued or withdrawn task bears a number that add has handed out.
NumbersHandedOut ==
  \A l \in Loops :
    /\ lastRun[l] <= seq[l]
    /\ \A s \in Seqs : (tasks[l][s] # Absent \/ s \in withdrawn[l]) => s <= seq[l]

\* What is still queued was posted after everything that has started.
QueuedAfterRun ==
  \A l \in Loops, s \in Seqs : tasks[l][s] # Absent => s > lastRun[l]

\* Behind the cursor of a pass only tasks newer than the pass are left.
NothingLeftBehind ==
  \A l \in Loops : pc[l] # "poll" =>
    /\ seqOld[l] <= seq[l]
    /\ \A s \in Seqs : tasks[l][s] # Absent /\ s <= cursor[l] => s > seqOld[l]

\* del leaves nothing of what it withdrew in the list.
WithdrawnStaysOut ==
  \A l \in Loops : \A s \in withdrawn[l] : tasks[l][s] = Absent

IInv ==
  /\ TypeOK
  /\ OwnerIndexExact
  /\ NumbersHandedOut
  /\ QueuedAfterRun
  /\ NothingLeftBehind
  /\ WithdrawnStaysOut
  /\ PassIsBounded

-----------------------------------------------------------------------------
\* A thread inside add knows the loop and the owner it was called with, and a
\* loop inside del the owner (the records of start_async_task and del).
LEMMA CallFields ==
  ASSUME TypeOK, NEW t \in Threads
  PROVE  /\ call[t].op \in {"lock", "adding"} =>
              /\ call[t].loop \in Loops
              /\ call[t].owner \in Owners \cup {NullOwner}
              /\ [call[t] EXCEPT !.op = "adding"] \in Calls
         /\ call[t].op = "deleting" => call[t].owner \in Owners
<1>1. call[t] \in Calls
  BY DEF TypeOK
<1>2. CASE call[t] = NoCall
  BY <1>2 DEF NoCall
<1>3. CASE call[t] \in [op : {"lock", "adding"}, loop : Loops, owner : Owners \cup {NullOwner}]
  <2>1. [call[t] EXCEPT !.op = "adding"]
          \in [op : {"lock", "adding"}, loop : Loops, owner : Owners \cup {NullOwner}]
    BY <1>3
  <2> QED
    BY <1>3, <2>1 DEF Calls
<1>4. CASE call[t] \in [op : {"deleting"}, owner : Owners]
  BY <1>4
<1> QED
  BY <1>1, <1>2, <1>3, <1>4 DEF Calls

\* The initial queues are empty: every conjunct holds (task_queue's
\* constructor).
LEMMA InitIInv == Init => IInv
<1> SUFFICES ASSUME Init PROVE IInv
  OBVIOUS
<1>1. TypeOK
  <2>1. call \in [Threads -> Calls]
    BY DEF Init, Calls
  <2>2. /\ tasks \in [Loops -> [Seqs -> Owners \cup {NullOwner, Absent}]]
        /\ index \in [Loops -> [Owners -> SUBSET Seqs]]
        /\ withdrawn \in [Loops -> SUBSET Seqs]
    BY DEF Init
  <2>3. /\ seq \in [Loops -> 0 .. MaxSeq]
        /\ cursor \in [Loops -> 0 .. MaxSeq]
        /\ seqOld \in [Loops -> 0 .. MaxSeq]
        /\ lastRun \in [Loops -> 0 .. MaxSeq]
    BY QueueAssumption DEF Init
  <2>4. /\ mutex \in [Loops -> Threads \cup {NoThread}]
        /\ pc \in [Loops -> {"poll", "scan", "run"}]
        /\ broken \in BOOLEAN
    BY DEF Init
  <2> QED
    BY <2>1, <2>2, <2>3, <2>4 DEF TypeOK
<1>2. OwnerIndexExact
  BY QueueAssumption DEF Init, OwnerIndexExact
<1>3. NumbersHandedOut /\ QueuedAfterRun /\ NothingLeftBehind /\ WithdrawnStaysOut
  BY DEF Init, NumbersHandedOut, QueuedAfterRun, NothingLeftBehind, WithdrawnStaysOut
<1>4. PassIsBounded
  BY DEF Init, PassIsBounded
<1> QED
  BY <1>1, <1>2, <1>3, <1>4 DEF IInv

\* Steps that leave the queues and the pass alone keep everything but the
\* typing, which is shown at each of them (CallAdd, AddLock, CallDel, Break).
LEMMA SameQueues ==
  ASSUME IInv, TypeOK',
         UNCHANGED <<seq, tasks, index, pc, cursor, seqOld, lastRun, withdrawn>>
  PROVE  IInv'
BY DEF IInv, OwnerIndexExact, NumbersHandedOut, QueuedAfterRun, NothingLeftBehind,
       WithdrawnStaysOut, PassIsBounded

\* add numbers the task above everything handed out so far and indexes it
\* (task_queue.cpp:15-34).
LEMMA AddKeeps ==
  ASSUME IInv, NEW t \in Threads, AddTask(t)
  PROVE  IInv'
<1> DEFINE l == call[t].loop
           o == call[t].owner
           s == seq[l] + 1
<1> USE DEF IInv
<1>1. l \in Loops /\ o \in Owners \cup {NullOwner}
  BY CallFields DEF AddTask
<1>2. /\ s \in Seqs /\ seq[l] \in Nat
      /\ seq' = [seq EXCEPT ![l] = s]
      /\ tasks' = [tasks EXCEPT ![l] = [tasks[l] EXCEPT ![s] = o]]
      /\ index' = IF o = NullOwner THEN index
                  ELSE [index EXCEPT ![l] = [index[l] EXCEPT ![o] = index[l][o] \cup {s}]]
      /\ UNCHANGED <<pc, cursor, seqOld, lastRun, withdrawn, broken>>
  BY <1>1 DEF AddTask, TypeOK
<1>3. tasks[l][s] = Absent /\ s \notin withdrawn[l]
  BY <1>1, <1>2 DEF NumbersHandedOut, TypeOK, Seqs
<1>4. TypeOK'
  <2>1. call' \in [Threads -> Calls]
    BY DEF AddTask, TypeOK, Calls
  <2>2. mutex' \in [Loops -> Threads \cup {NoThread}]
    BY <1>1 DEF AddTask, TypeOK, ReleasedBy, Threads
  <2>3. seq' \in [Loops -> 0 .. MaxSeq] /\ tasks' \in [Loops -> [Seqs -> Owners \cup {NullOwner, Absent}]]
    BY <1>1, <1>2 DEF TypeOK, Seqs
  <2>4. index' \in [Loops -> [Owners -> SUBSET Seqs]]
    BY <1>1, <1>2 DEF TypeOK
  <2> QED
    BY <1>2, <2>1, <2>2, <2>3, <2>4 DEF TypeOK
<1>5. OwnerIndexExact'
  <2> SUFFICES ASSUME NEW k \in Loops, NEW p \in Owners
               PROVE  index'[k][p] = {r \in Seqs : tasks'[k][r] = p}
    BY DEF OwnerIndexExact
  <2>1. index[k][p] = {r \in Seqs : tasks[k][r] = p}
    BY DEF OwnerIndexExact
  <2>2. CASE k = l /\ p = o
    <3>1. index'[k][p] = index[k][p] \cup {s}
      BY <1>1, <1>2, <2>2, QueueAssumption DEF TypeOK
    <3>2. {r \in Seqs : tasks'[k][r] = p} = {r \in Seqs : tasks[k][r] = p} \cup {s}
      BY <1>1, <1>2, <2>2 DEF TypeOK
    <3> QED
      BY <3>1, <3>2, <2>1
  <2>3. CASE k # l \/ p # o
    <3>1. index'[k][p] = index[k][p]
      BY <1>1, <1>2, <2>3 DEF TypeOK
    <3>2. \A r \in Seqs : (tasks'[k][r] = p) <=> (tasks[k][r] = p)
      BY <1>1, <1>2, <1>3, <2>3, QueueAssumption DEF TypeOK
    <3> QED
      BY <3>1, <3>2, <2>1
  <2> QED
    BY <2>2, <2>3
<1>6. NumbersHandedOut' /\ QueuedAfterRun' /\ NothingLeftBehind' /\ WithdrawnStaysOut'
  <2>1. \A k \in Loops, r \in Seqs :
          /\ tasks'[k][r] # Absent => tasks[k][r] # Absent \/ (k = l /\ r = s)
          /\ r \in withdrawn[k] => tasks'[k][r] = tasks[k][r]
          /\ seq'[k] >= seq[k]
          /\ k = l => seq'[k] = s
    BY <1>1, <1>2, <1>3 DEF TypeOK, Seqs
  <2>2. NumbersHandedOut'
    BY <1>1, <1>2, <2>1 DEF NumbersHandedOut, TypeOK, Seqs
  <2>3. QueuedAfterRun'
    BY <1>1, <1>2, <2>1 DEF QueuedAfterRun, NumbersHandedOut, TypeOK, Seqs
  <2>4. NothingLeftBehind'
    BY <1>1, <1>2, <2>1 DEF NothingLeftBehind, TypeOK, Seqs
  <2>5. WithdrawnStaysOut'
    BY <1>2, <2>1 DEF WithdrawnStaysOut, TypeOK
  <2> QED
    BY <2>2, <2>3, <2>4, <2>5
<1>7. PassIsBounded'
  BY <1>2 DEF PassIsBounded
<1> QED
  BY <1>4, <1>5, <1>6, <1>7

\* del empties the owner's index and erases exactly the tasks it listed
\* (task_queue.cpp:36-51).
LEMMA DelKeeps ==
  ASSUME IInv, NEW l \in Loops, DelTasks(l)
  PROVE  IInv'
<1> DEFINE o == call[l].owner
<1> USE DEF IInv
<1>1. o \in Owners
  BY CallFields DEF DelTasks, Threads
<1>2. /\ tasks' = [tasks EXCEPT ![l] =
                     [s \in Seqs |-> IF s \in index[l][o] THEN Absent ELSE tasks[l][s]]]
      /\ index' = [index EXCEPT ![l] = [index[l] EXCEPT ![o] = {}]]
      /\ withdrawn' = [withdrawn EXCEPT ![l] =
                         withdrawn[l] \cup {s \in Seqs : tasks[l][s] = o}]
      /\ call' = [call EXCEPT ![l] = NoCall]
      /\ UNCHANGED <<seq, mutex, pc, cursor, seqOld, lastRun, broken>>
  BY DEF DelTasks, ListWithout, TypeOK
<1>3. index[l][o] = {s \in Seqs : tasks[l][s] = o}
  BY <1>1 DEF OwnerIndexExact
<1>4. TypeOK'
  <2>1. call' \in [Threads -> Calls]
    BY <1>2 DEF TypeOK, Calls
  <2>2. tasks' \in [Loops -> [Seqs -> Owners \cup {NullOwner, Absent}]]
    BY <1>2 DEF TypeOK
  <2>3. index' \in [Loops -> [Owners -> SUBSET Seqs]] /\ withdrawn' \in [Loops -> SUBSET Seqs]
    BY <1>1, <1>2 DEF TypeOK
  <2> QED
    BY <1>2, <2>1, <2>2, <2>3 DEF TypeOK
<1>5. \A k \in Loops, r \in Seqs :
        tasks'[k][r] = IF k = l /\ tasks[k][r] = o THEN Absent ELSE tasks[k][r]
  BY <1>2, <1>3 DEF TypeOK
<1>6. OwnerIndexExact'
  <2> SUFFICES ASSUME NEW k \in Loops, NEW p \in Owners
               PROVE  index'[k][p] = {r \in Seqs : tasks'[k][r] = p}
    BY DEF OwnerIndexExact
  <2>1. index[k][p] = {r \in Seqs : tasks[k][r] = p}
    BY DEF OwnerIndexExact
  <2>2. CASE k = l /\ p = o
    <3>1. index'[k][p] = {}
      BY <1>1, <1>2, <2>2 DEF TypeOK
    <3>2. \A r \in Seqs : tasks'[k][r] # p
      BY <1>1, <1>5, <2>2, QueueAssumption
    <3> QED
      BY <3>1, <3>2
  <2>3. CASE k # l \/ p # o
    <3>1. index'[k][p] = index[k][p]
      BY <1>1, <1>2, <2>3 DEF TypeOK
    <3>2. \A r \in Seqs : (tasks'[k][r] = p) <=> (tasks[k][r] = p)
      BY <1>1, <1>5, <2>3, QueueAssumption
    <3> QED
      BY <3>1, <3>2, <2>1
  <2> QED
    BY <2>2, <2>3
<1>7. NumbersHandedOut'
  <2> SUFFICES ASSUME NEW k \in Loops
               PROVE  /\ lastRun'[k] <= seq'[k]
                      /\ \A s \in Seqs : (tasks'[k][s] # Absent \/ s \in withdrawn'[k]) => s <= seq'[k]
    BY DEF NumbersHandedOut
  <2>1. \A s \in Seqs : s \in withdrawn'[k] => s \in withdrawn[k] \/ tasks[k][s] = o
    BY <1>2 DEF TypeOK
  <2>2. o # Absent
    BY <1>1, QueueAssumption
  <2> QED
    BY <1>2, <1>5, <2>1, <2>2 DEF NumbersHandedOut
<1>8. QueuedAfterRun' /\ NothingLeftBehind'
  BY <1>2, <1>5 DEF QueuedAfterRun, NothingLeftBehind
<1>9. WithdrawnStaysOut'
  <2> SUFFICES ASSUME NEW k \in Loops, NEW s \in withdrawn'[k]
               PROVE  tasks'[k][s] = Absent
    BY DEF WithdrawnStaysOut
  <2>1. s \in Seqs /\ (s \in withdrawn[k] \/ (k = l /\ tasks[k][s] = o))
    BY <1>2 DEF TypeOK
  <2> QED
    BY <1>5, <2>1 DEF WithdrawnStaysOut
<1>10. PassIsBounded'
  BY <1>2 DEF PassIsBounded
<1> QED
  BY <1>4, <1>6, <1>7, <1>8, <1>9, <1>10

\* execute takes the oldest entry ahead of the cursor out of the list and out
\* of its owner's index (task_queue.cpp:60-86).
LEMMA TakeKeeps ==
  ASSUME IInv, NEW l \in Loops, TakeTask(l)
  PROVE  /\ IInv'
         /\ lastRun'[l] > lastRun[l]
         /\ lastRun'[l] \notin withdrawn[l]
<1> USE DEF IInv
<1>1. PICK s \in Seqs :
        /\ IsNext(l, s)
        /\ s <= seqOld[l]
        /\ cursor' = [cursor EXCEPT ![l] = s]
        /\ lastRun' = [lastRun EXCEPT ![l] = s]
        /\ tasks' = [tasks EXCEPT ![l][s] = Absent]
        /\ index' = IF tasks[l][s] = NullOwner THEN index
                    ELSE [index EXCEPT ![l][tasks[l][s]] = @ \ {s}]
  BY DEF TakeTask, InPass, IndexWithout
<1> DEFINE o == tasks[l][s]
<1>2. /\ pc[l] = "scan" /\ pc' = [pc EXCEPT ![l] = "run"]
      /\ UNCHANGED <<seq, mutex, call, seqOld, withdrawn, broken>>
  BY DEF TakeTask
<1>3. /\ o \in Owners \cup {NullOwner}
      /\ s > cursor[l]
      /\ \A r \in Seqs : tasks[l][r] # Absent /\ r > cursor[l] => s <= r
  BY <1>1 DEF IsNext, Ahead, Present, TypeOK
<1>4. \A k \in Loops, r \in Seqs :
        tasks'[k][r] = IF k = l /\ r = s THEN Absent ELSE tasks[k][r]
  BY <1>1 DEF TypeOK
<1>5. /\ lastRun' \in [Loops -> 0 .. MaxSeq] /\ cursor' \in [Loops -> 0 .. MaxSeq]
      /\ \A k \in Loops : /\ lastRun'[k] = IF k = l THEN s ELSE lastRun[k]
                          /\ cursor'[k] = IF k = l THEN s ELSE cursor[k]
  BY <1>1 DEF TypeOK, Seqs
<1>6. TypeOK'
  <2>1. tasks' \in [Loops -> [Seqs -> Owners \cup {NullOwner, Absent}]]
    BY <1>1 DEF TypeOK
  <2>2. index' \in [Loops -> [Owners -> SUBSET Seqs]]
    BY <1>1, <1>3 DEF TypeOK
  <2> QED
    BY <1>2, <1>5, <2>1, <2>2 DEF TypeOK
<1>7. OwnerIndexExact'
  <2> SUFFICES ASSUME NEW k \in Loops, NEW p \in Owners
               PROVE  index'[k][p] = {r \in Seqs : tasks'[k][r] = p}
    BY DEF OwnerIndexExact
  <2>1. index[k][p] = {r \in Seqs : tasks[k][r] = p}
    BY DEF OwnerIndexExact
  <2>2. CASE k = l /\ p = o
    <3>1. index'[k][p] = index[k][p] \ {s}
      BY <1>1, <2>2, QueueAssumption DEF TypeOK
    <3>2. \A r \in Seqs : (tasks'[k][r] = p) <=> (tasks[k][r] = p /\ r # s)
      BY <1>4, <2>2, QueueAssumption
    <3> QED
      BY <3>1, <3>2, <2>1
  <2>3. CASE k # l \/ p # o
    <3>1. index'[k][p] = index[k][p]
      BY <1>1, <1>3, <2>3 DEF TypeOK
    <3>2. \A r \in Seqs : (tasks'[k][r] = p) <=> (tasks[k][r] = p)
      BY <1>4, <2>3, QueueAssumption
    <3> QED
      BY <3>1, <3>2, <2>1
  <2> QED
    BY <2>2, <2>3
<1>8. s <= seq[l] /\ s > lastRun[l] /\ s \notin withdrawn[l]
  BY <1>3, QueueAssumption DEF NumbersHandedOut, QueuedAfterRun, WithdrawnStaysOut
<1>9. NumbersHandedOut'
  BY <1>2, <1>4, <1>5, <1>8 DEF NumbersHandedOut
<1>10. \A r \in Seqs : tasks'[l][r] # Absent => r > s
  <2> SUFFICES ASSUME NEW r \in Seqs, tasks'[l][r] # Absent PROVE r > s
    OBVIOUS
  <2>1. tasks[l][r] # Absent /\ r # s
    BY <1>4
  <2>2. CASE r > cursor[l]
    BY <1>3, <2>1, <2>2 DEF Seqs
  <2>3. CASE r <= cursor[l]
    <3>1. r > seqOld[l]
      BY <1>2, <2>1, <2>3 DEF NothingLeftBehind
    <3> QED
      BY <1>1, <3>1 DEF TypeOK, Seqs
  <2> QED
    BY <2>2, <2>3 DEF TypeOK, Seqs
<1>11. QueuedAfterRun'
  BY <1>4, <1>5, <1>10 DEF QueuedAfterRun
<1>12. NothingLeftBehind'
  <2> SUFFICES ASSUME NEW k \in Loops, pc'[k] # "poll"
               PROVE  /\ seqOld'[k] <= seq'[k]
                      /\ \A r \in Seqs : tasks'[k][r] # Absent /\ r <= cursor'[k] => r > seqOld'[k]
    BY DEF NothingLeftBehind
  <2>1. CASE k = l
    <3>1. pc[l] # "poll" /\ seqOld[l] <= seq[l]
      BY <1>2 DEF NothingLeftBehind
    <3>2. \A r \in Seqs : tasks'[l][r] # Absent => ~(r <= cursor'[l])
      BY <1>5, <1>10 DEF Seqs
    <3> QED
      BY <1>2, <2>1, <3>1, <3>2
  <2>2. CASE k # l
    BY <1>2, <1>4, <1>5, <2>2 DEF NothingLeftBehind, TypeOK
  <2> QED
    BY <2>1, <2>2
<1>13. WithdrawnStaysOut'
  BY <1>2, <1>4 DEF WithdrawnStaysOut, TypeOK
<1>14. PassIsBounded'
  BY <1>1, <1>2, <1>5 DEF PassIsBounded, TypeOK
<1> QED
  BY <1>5, <1>6, <1>7, <1>8, <1>9, <1>11, <1>12, <1>13, <1>14

\* The other steps of execute move the cursor or the pass only.
LEMMA PassKeeps ==
  ASSUME IInv, NEW l \in Loops,
         BeginPass(l) \/ SkipTask(l) \/ EndTask(l) \/ EndPass(l)
  PROVE  IInv'
<1> USE DEF IInv
<1>1. CASE BeginPass(l)
  <2>1. TypeOK'
    BY <1>1, QueueAssumption DEF BeginPass, Newest, TypeOK, Threads
  <2>2. OwnerIndexExact' /\ NumbersHandedOut' /\ QueuedAfterRun' /\ WithdrawnStaysOut'
    BY <1>1 DEF BeginPass, OwnerIndexExact, NumbersHandedOut, QueuedAfterRun, WithdrawnStaysOut
  <2>3. NothingLeftBehind'
    BY <1>1 DEF BeginPass, Newest, NothingLeftBehind, TypeOK, Seqs
  <2>4. PassIsBounded'
    BY <1>1 DEF BeginPass, Newest, PassIsBounded, NumbersHandedOut, TypeOK
  <2> QED
    BY <2>1, <2>2, <2>3, <2>4
<1>2. CASE SkipTask(l)
  <2>1. PICK s \in Seqs : IsNext(l, s) /\ s > seqOld[l] /\ cursor' = [cursor EXCEPT ![l] = s]
    <3>1. PICK s \in Seqs : IsNext(l, s) /\ ~(s <= seqOld[l]) /\ cursor' = [cursor EXCEPT ![l] = s]
      BY <1>2 DEF SkipTask, InPass
    <3>2. seqOld[l] \in 0 .. MaxSeq
      BY DEF TypeOK
    <3>3. s \in Nat /\ seqOld[l] \in Nat
      BY <3>2, QueueAssumption DEF Seqs
    <3>4. s > seqOld[l]
      BY <3>1, <3>3
    <3> QED
      BY <3>1, <3>4
  <2>2. pc[l] = "scan" /\ UNCHANGED <<seq, tasks, index, mutex, pc, call, seqOld, lastRun, withdrawn, broken>>
    BY <1>2 DEF SkipTask
  <2>3. TypeOK'
    BY <2>1, <2>2 DEF TypeOK, Seqs
  <2>4. OwnerIndexExact' /\ NumbersHandedOut' /\ QueuedAfterRun' /\ WithdrawnStaysOut' /\ PassIsBounded'
    BY <2>2 DEF OwnerIndexExact, NumbersHandedOut, QueuedAfterRun, WithdrawnStaysOut, PassIsBounded
  <2>5. \A r \in Seqs : tasks[l][r] # Absent /\ r <= s => r > seqOld[l]
    <3> SUFFICES ASSUME NEW r \in Seqs, tasks[l][r] # Absent, r <= s PROVE r > seqOld[l]
      OBVIOUS
    <3>1. CASE r <= cursor[l]
      BY <2>2, <3>1 DEF NothingLeftBehind
    <3>2. CASE r > cursor[l]
      BY <2>1, <3>2 DEF IsNext, Ahead, Present, TypeOK, Seqs
    <3> QED
      BY <3>1, <3>2 DEF TypeOK, Seqs
  <2>6. NothingLeftBehind'
    BY <2>1, <2>2, <2>5 DEF NothingLeftBehind, TypeOK
  <2> QED
    BY <2>3, <2>4, <2>6
<1>3. CASE EndTask(l)
  <2>1. TypeOK'
    BY <1>3 DEF EndTask, TypeOK
  <2>2. OwnerIndexExact' /\ NumbersHandedOut' /\ QueuedAfterRun' /\ WithdrawnStaysOut'
    BY <1>3 DEF EndTask, OwnerIndexExact, NumbersHandedOut, QueuedAfterRun, WithdrawnStaysOut
  <2>3. NothingLeftBehind' /\ PassIsBounded'
    BY <1>3 DEF EndTask, NothingLeftBehind, PassIsBounded, TypeOK
  <2> QED
    BY <2>1, <2>2, <2>3
<1>4. CASE EndPass(l)
  <2>1. TypeOK'
    BY <1>4 DEF EndPass, TypeOK
  <2>2. OwnerIndexExact' /\ NumbersHandedOut' /\ QueuedAfterRun' /\ WithdrawnStaysOut'
    BY <1>4 DEF EndPass, OwnerIndexExact, NumbersHandedOut, QueuedAfterRun, WithdrawnStaysOut
  <2>3. NothingLeftBehind' /\ PassIsBounded'
    BY <1>4 DEF EndPass, NothingLeftBehind, PassIsBounded, TypeOK
  <2> QED
    BY <2>1, <2>2, <2>3
<1> QED
  BY <1>1, <1>2, <1>3, <1>4

-----------------------------------------------------------------------------
\* Every step of every thread keeps the invariant.
LEMMA NextIInv == IInv /\ [Next]_vars => IInv'
<1> SUFFICES ASSUME IInv, [Next]_vars PROVE IInv'
  OBVIOUS
<1>1. ASSUME NEW t \in Threads, NEW l \in Loops, NEW o \in Owners \cup {NullOwner}, CallAdd(t, l, o)
      PROVE  IInv'
  <2>1. TypeOK'
    BY <1>1 DEF IInv, TypeOK, CallAdd, Calls
  <2> QED
    BY <1>1, <2>1, SameQueues DEF CallAdd
<1>2. ASSUME NEW t \in Threads, AddLock(t) PROVE IInv'
  <2>1. call[t].loop \in Loops /\ [call[t] EXCEPT !.op = "adding"] \in Calls
    BY <1>2, CallFields DEF IInv, AddLock
  <2>2. TypeOK'
    BY <1>2, <2>1 DEF IInv, TypeOK, AddLock
  <2> QED
    BY <1>2, <2>2, SameQueues DEF AddLock
<1>3. ASSUME NEW t \in Threads, AddTask(t) PROVE IInv'
  BY <1>3, AddKeeps
<1>4. ASSUME NEW l \in Loops, NEW o \in Owners, CallDel(l, o) PROVE IInv'
  <2>1. TypeOK'
    BY <1>4 DEF IInv, TypeOK, CallDel, Calls
  <2> QED
    BY <1>4, <2>1, SameQueues DEF CallDel
<1>5. ASSUME NEW l \in Loops, DelTasks(l) PROVE IInv'
  BY <1>5, DelKeeps
<1>6. ASSUME NEW l \in Loops, Break(l) PROVE IInv'
  <2>1. TypeOK'
    BY <1>6 DEF IInv, TypeOK, Break
  <2> QED
    BY <1>6, <2>1, SameQueues DEF Break
<1>7. ASSUME NEW l \in Loops, BeginPass(l) \/ SkipTask(l) \/ EndTask(l) \/ EndPass(l) PROVE IInv'
  BY <1>7, PassKeeps
<1>8. ASSUME NEW l \in Loops, TakeTask(l) PROVE IInv'
  BY <1>8, TakeKeeps
<1>9. CASE UNCHANGED vars
  BY <1>9, SameQueues DEF vars, IInv, TypeOK
<1> QED
  BY <1>1, <1>2, <1>3, <1>4, <1>5, <1>6, <1>7, <1>8, <1>9 DEF Next

LEMMA IInvAlways == Spec => []IInv
BY InitIInv, NextIInv, PTL DEF Spec

\* The state of the queues stays within the declared types.
THEOREM TypeCorrect == Spec => []TypeOK
<1>1. IInv => TypeOK
  BY DEF IInv
<1> QED
  BY <1>1, IInvAlways, PTL

\* The owner index is exact in every reachable state, whatever the threads
\* interleave: execute's assert cannot fail and del forgets nothing.
THEOREM OwnerIndexCorrect == Spec => []OwnerIndexExact
<1>1. IInv => OwnerIndexExact
  BY DEF IInv
<1> QED
  BY <1>1, IInvAlways, PTL

\* A pass never starts a task posted after it began.
THEOREM PassBounded == Spec => []PassIsBounded
<1>1. IInv => PassIsBounded
  BY DEF IInv
<1> QED
  BY <1>1, IInvAlways, PTL

\* Tasks start in the order they were posted and at most once.
THEOREM RunsInOrderCorrect == Spec => RunsInOrder
<1>1. IInv /\ [Next]_vars => [\A l \in Loops : TakeTask(l) => lastRun'[l] > lastRun[l]]_vars
  BY TakeKeeps
<1> QED
  BY <1>1, IInvAlways, PTL DEF Spec, RunsInOrder

\* What an owner withdrew never starts.
THEOREM WithdrawnNeverRunsCorrect == Spec => WithdrawnNeverRuns
<1>1. IInv /\ [Next]_vars => [\A l \in Loops : TakeTask(l) => lastRun'[l] \notin withdrawn[l]]_vars
  BY TakeKeeps
<1> QED
  BY <1>1, IInvAlways, PTL DEF Spec, WithdrawnNeverRuns

-----------------------------------------------------------------------------
(* Two results about the mutex and the pass: why a loop that posts cannot  *)
(* wait for ever, and what a pass has done when it ends.                   *)

\* When a pass ends, every task that was queued at its beginning has been
\* started or withdrawn: what the pass leaves is newer than the pass
\* (task_queue.cpp:58-89, the seq_old test against the cursor).
PassLeavesNothing ==
  [][\A l \in Loops : EndPass(l) => \A s \in 1 .. seqOld[l] : tasks[l][s] = Absent]_vars

\* A pass cannot step over a task it should have started: no addition during
\* the pass and no withdrawal moves the cursor past one.
THEOREM PassLeavesNothingHolds == Spec => PassLeavesNothing
<1>1. ASSUME IInv, NEW l \in Loops, EndPass(l), NEW s \in 1 .. seqOld[l]
      PROVE  tasks[l][s] = Absent
  <2>1. /\ pc[l] = "scan" /\ s \in Seqs /\ s <= seqOld[l] /\ seqOld[l] \in Nat
        /\ ~(s > cursor[l] /\ tasks[l][s] # Absent)
    <3>1. seqOld[l] \in 0 .. MaxSeq /\ MaxSeq \in Nat
      BY <1>1, QueueAssumption DEF IInv, TypeOK
    <3>2. s \in Seqs /\ s <= seqOld[l] /\ seqOld[l] \in Nat
      BY <1>1, <3>1 DEF Seqs
    <3> QED
      BY <1>1, <3>2 DEF EndPass, Ahead, Present
  <2>2. s <= cursor[l] \/ s > cursor[l]
    BY <1>1, <2>1, QueueAssumption DEF IInv, TypeOK, Seqs
  <2>3. tasks[l][s] # Absent /\ s <= cursor[l] => s > seqOld[l]
    BY <1>1, <2>1 DEF IInv, NothingLeftBehind
  <2>4. ~(s > seqOld[l])
    BY <2>1 DEF Seqs
  <2> QED
    BY <2>1, <2>2, <2>3, <2>4
<1>2. IInv /\ [Next]_vars
        => [\A l \in Loops : EndPass(l) => \A s \in 1 .. seqOld[l] : tasks[l][s] = Absent]_vars
  BY <1>1
<1> QED
  BY <1>2, IInvAlways, PTL DEF Spec, PassLeavesNothing

\* The tasks of the loops post to one another along no cycle: of any loops
\* there is one whose tasks post to none of the others.  A task may always
\* post to its own loop.
PostsAcyclic ==
  \A S \in (SUBSET Loops) \ {{}} : \E l \in S : \A m \in S \ {l} : <<l, m>> \notin TaskPosts

\* Whoever holds the mutex of a queue is the loop in a pass or a thread in the
\* body of add.
HolderInside ==
  \A l \in Loops, t \in Threads :
    mutex[l] = t => (t = l /\ pc[l] # "poll") \/ (call[t].op = "adding" /\ call[t].loop = l)

\* A loop that waits in a task waits for a queue its tasks may post to, and a
\* loop between two tasks is in no call.
WaitsAlongPosts ==
  \A l \in Loops :
    /\ call[l].op = "lock" /\ pc[l] = "run" => MayPost(l, call[l].loop)
    /\ pc[l] = "scan" => call[l] = NoCall

LockInv == IInv /\ HolderInside /\ WaitsAlongPosts

\* The steps that take, hold and give back the mutex keep LockInv.
LEMMA NextLockInv == LockInv /\ [Next]_vars => LockInv'
<1> SUFFICES ASSUME LockInv, [Next]_vars PROVE HolderInside' /\ WaitsAlongPosts'
  BY NextIInv DEF LockInv
<1> USE DEF NoCall
<1>a. TypeOK
  BY DEF LockInv, IInv
<1>b. /\ mutex \in [Loops -> Threads \cup {NoThread}]
      /\ pc \in [Loops -> {"poll", "scan", "run"}]
      /\ DOMAIN call = Threads
      /\ Loops \subseteq Threads
      /\ NoThread \notin Threads
  BY <1>a, QueueAssumption DEF TypeOK, Threads
<1>c. \A l \in Loops, t \in Threads :
        mutex[l] = t => (t = l /\ pc[l] # "poll") \/ (call[t].op = "adding" /\ call[t].loop = l)
  BY DEF LockInv, HolderInside
<1>d. \A l \in Loops :
        /\ call[l].op = "lock" /\ pc[l] = "run" => l = call[l].loop \/ <<l, call[l].loop>> \in TaskPosts
        /\ pc[l] = "scan" => call[l] = NoCall
  BY DEF LockInv, WaitsAlongPosts, MayPost
<1>1. ASSUME NEW t \in Threads, NEW l \in Loops, NEW o \in Owners \cup {NullOwner}, CallAdd(t, l, o)
      PROVE  HolderInside' /\ WaitsAlongPosts'
  <2>1. /\ call[t] = NoCall /\ (t \in Loops => pc[t] \in {"poll", "run"})
        /\ (t \in Loops /\ pc[t] = "run" => t = l \/ <<t, l>> \in TaskPosts)
        /\ call' = [call EXCEPT ![t] = [op |-> "lock", loop |-> l, owner |-> o]]
        /\ mutex' = mutex /\ pc' = pc
    BY <1>1 DEF CallAdd, InCallback, MayPost
  <2>2. HolderInside'
    BY <1>b, <1>c, <2>1 DEF HolderInside
  <2>3. WaitsAlongPosts'
    BY <1>b, <1>d, <2>1 DEF WaitsAlongPosts, MayPost
  <2> QED
    BY <2>2, <2>3
<1>2. ASSUME NEW t \in Threads, AddLock(t) PROVE HolderInside' /\ WaitsAlongPosts'
  <2>1. /\ call[t].op = "lock"
        /\ mutex' = [mutex EXCEPT ![call[t].loop] = t]
        /\ call' = [call EXCEPT ![t] = [call[t] EXCEPT !.op = "adding"]]
        /\ pc' = pc
    BY <1>2 DEF AddLock
  <2>2. call[t] \in [op : {"lock", "adding"}, loop : Loops, owner : Owners \cup {NullOwner}]
    BY <1>a, <2>1 DEF TypeOK, Calls
  <2>3. call'[t].op = "adding" /\ call'[t].loop = call[t].loop
    BY <1>b, <2>1, <2>2
  <2>4. HolderInside'
    BY <1>b, <1>c, <2>1, <2>3 DEF HolderInside
  <2>5. WaitsAlongPosts'
    BY <1>b, <1>d, <2>1, <2>3 DEF WaitsAlongPosts, MayPost
  <2> QED
    BY <2>4, <2>5
<1>3. ASSUME NEW t \in Threads, AddTask(t) PROVE HolderInside' /\ WaitsAlongPosts'
  <2>1. /\ call[t].op = "adding"
        /\ mutex' = [mutex EXCEPT ![call[t].loop] =
                       IF t = call[t].loop /\ pc[call[t].loop] # "poll" THEN t ELSE NoThread]
        /\ call' = [call EXCEPT ![t] = NoCall]
        /\ pc' = pc
    BY <1>3 DEF AddTask, ReleasedBy
  <2>2. HolderInside'
    BY <1>b, <1>c, <2>1 DEF HolderInside
  <2>3. WaitsAlongPosts'
    BY <1>b, <1>d, <2>1 DEF WaitsAlongPosts, MayPost
  <2> QED
    BY <2>2, <2>3
<1>4. ASSUME NEW l \in Loops, NEW o \in Owners, CallDel(l, o) PROVE HolderInside' /\ WaitsAlongPosts'
  <2>1. /\ call[l] = NoCall /\ pc[l] \in {"poll", "run"}
        /\ call' = [call EXCEPT ![l] = [op |-> "deleting", owner |-> o]]
        /\ mutex' = mutex /\ pc' = pc
    BY <1>4 DEF CallDel, InCallback
  <2> QED
    BY <1>b, <1>c, <1>d, <2>1 DEF HolderInside, WaitsAlongPosts, MayPost
<1>5. ASSUME NEW l \in Loops, DelTasks(l) PROVE HolderInside' /\ WaitsAlongPosts'
  <2>1. /\ call[l].op = "deleting"
        /\ call' = [call EXCEPT ![l] = NoCall]
        /\ mutex' = mutex /\ pc' = pc
    BY <1>5 DEF DelTasks
  <2> QED
    BY <1>b, <1>c, <1>d, <2>1 DEF HolderInside, WaitsAlongPosts, MayPost
<1>6. ASSUME NEW l \in Loops, BeginPass(l) PROVE HolderInside' /\ WaitsAlongPosts'
  <2>1. /\ pc[l] = "poll" /\ call[l] = NoCall
        /\ mutex' = [mutex EXCEPT ![l] = l]
        /\ pc' = [pc EXCEPT ![l] = "scan"]
        /\ call' = call
    BY <1>6 DEF BeginPass
  <2> QED
    BY <1>b, <1>c, <1>d, <2>1 DEF HolderInside, WaitsAlongPosts, MayPost
<1>7. ASSUME NEW l \in Loops, TakeTask(l) \/ EndTask(l) PROVE HolderInside' /\ WaitsAlongPosts'
  <2>1. /\ pc[l] # "poll" /\ call[l] = NoCall
        /\ mutex' = mutex /\ call' = call
        /\ pc' = [pc EXCEPT ![l] = "run"] \/ pc' = [pc EXCEPT ![l] = "scan"]
    BY <1>7, <1>d DEF TakeTask, EndTask
  <2> QED
    BY <1>b, <1>c, <1>d, <2>1 DEF HolderInside, WaitsAlongPosts, MayPost
<1>8. ASSUME NEW l \in Loops, EndPass(l) PROVE HolderInside' /\ WaitsAlongPosts'
  <2>1. /\ pc[l] = "scan" /\ call' = call
        /\ mutex' = [mutex EXCEPT ![l] = NoThread]
        /\ pc' = [pc EXCEPT ![l] = "poll"]
    BY <1>8 DEF EndPass
  <2> QED
    BY <1>b, <1>c, <1>d, <2>1 DEF HolderInside, WaitsAlongPosts, MayPost
<1>9. ASSUME UNCHANGED <<mutex, pc, call>> PROVE HolderInside' /\ WaitsAlongPosts'
  BY <1>c, <1>d, <1>9 DEF HolderInside, WaitsAlongPosts, MayPost
<1>10. ASSUME NEW l \in Loops, Break(l) \/ SkipTask(l) PROVE UNCHANGED <<mutex, pc, call>>
  BY <1>10 DEF Break, SkipTask
<1> QED
  BY <1>1, <1>2, <1>3, <1>4, <1>5, <1>6, <1>7, <1>8, <1>9, <1>10 DEF Next, vars

\* A set of loops that wait for one another would be a cycle of posts: each
\* waits in a task of its own, for the next one's mutex.
LEMMA LockInvNoCycle == ASSUME PostsAcyclic PROVE LockInv => NoLockCycle
<1> SUFFICES ASSUME LockInv, NEW S \in (SUBSET Loops) \ {{}},
                    \A l \in S : /\ call[l].op = "lock"
                                 /\ ~LockFree(call[l].loop, l)
                                 /\ mutex[call[l].loop] \in S
             PROVE  FALSE
  BY DEF NoLockCycle
<1>1. \A l \in S :
        LET k == call[l].loop
        IN  k \in S /\ k # l /\ pc[k] = "run"
  <2> SUFFICES ASSUME NEW l \in S
               PROVE  call[l].loop \in S /\ call[l].loop # l /\ pc[call[l].loop] = "run"
    OBVIOUS
  <2> DEFINE k == call[l].loop
             t == mutex[k]
  <2>1. k \in Loops /\ t \in S /\ t # l
    BY CallFields DEF LockInv, IInv, Threads, LockFree
  <2>2. (t = k /\ pc[k] # "poll") \/ call[t].op = "adding"
    BY <2>1 DEF LockInv, HolderInside, Threads
  <2>3. t = k /\ pc[k] # "poll"
    BY <2>1, <2>2
  <2>4. pc[k] # "scan"
    BY <2>1, <2>3 DEF LockInv, WaitsAlongPosts, NoCall
  <2> QED
    BY <2>1, <2>3, <2>4 DEF LockInv, IInv, TypeOK
<1> DEFINE R == {l \in S : pc[l] = "run"}
<1>2. R \in (SUBSET Loops) \ {{}}
  BY <1>1
<1>3. PICK l \in R : \A m \in R \ {l} : <<l, m>> \notin TaskPosts
  BY <1>2 DEF PostsAcyclic
<1>4. call[l].loop \in R \ {l}
  BY <1>1
<1>5. MayPost(l, call[l].loop)
  BY DEF LockInv, WaitsAlongPosts
<1> QED
  BY <1>3, <1>4, <1>5 DEF MayPost

\* Loops whose tasks post to one another along no cycle never wait for one
\* another: the recursive mutex, the pass that holds it over its callbacks and
\* the posts of a task to its own loop or to another one cannot lock.
THEOREM NoLockCycleHolds == ASSUME PostsAcyclic PROVE Spec => []NoLockCycle
<1>1. Init => LockInv
  <2>1. Init => HolderInside /\ WaitsAlongPosts
    BY QueueAssumption DEF Init, HolderInside, WaitsAlongPosts, Threads, NoCall
  <2> QED
    BY <2>1, InitIInv DEF LockInv
<1>2. LockInv => NoLockCycle
  BY LockInvNoCycle
<1> QED
  BY <1>1, <1>2, NextLockInv, PTL DEF Spec
=============================================================================
