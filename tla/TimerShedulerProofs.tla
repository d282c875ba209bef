------------------------ MODULE TimerShedulerProofs ------------------------
(***************************************************************************)
(* Proofs about TimerSheduler, for any timers, delays and periods, and     *)
(* whatever the lag.                                                       *)
(*                                                                         *)
(* Two timers due at one instant may lose one entry of the list            *)
(* (TimerTie).  What is proved is that the damage ends there: what is left *)
(* in the list is still its owner's, so tick never calls a timer that its  *)
(* owner has stopped or destroyed, and none twice.  And that a tie is the  *)
(* only damage: until one happens every started timer has its entry, as    *)
(* its owner asked for, and none is called early (Untied).                 *)
(***************************************************************************)
EXTENDS TimerSheduler, TLAPS

\* A key in _object_list is a started timer's, until stop's assert ends the
\* process, and what the histories know of an owner's wish goes together.
KeyIsStarted ==
  \A x \in Timers :
    /\ objectList[x] # None /\ ~aborted => isStart[x]
    /\ due[x] # None => asked[x] # None

\* During a tick, what is left of a timer that it has called is fresh.
CalledIsFresh ==
  pc # "poll" => \A e \in timerList : e.id \in firedNow => e.fresh

IInv ==
  /\ TypeOK
  /\ KeyIsStarted
  /\ EntryIsOwned
  /\ CalledIsFresh

-----------------------------------------------------------------------------
(* The operators                                                           *)

\* start_timer arms a timer with a period that is no zero.
LEMMA ArmedType ==
  ASSUME NEW i \in Nat
  PROVE  Armed(i) \in Nat \ {0}
BY TimerAssumption DEF Armed

\* Inserting under a time keeps the list a map: the ids and times of the entries
\* that were there stay, the new one is added only where its time was free.
LEMMA PutList ==
  ASSUME NEW list, list \subseteq Entries, NEW e \in Entries,
         \A c, d \in list : c.triggle = d.triggle => c = d
  PROVE  /\ Put(list, e) \subseteq Entries
         /\ \A c, d \in Put(list, e) : c.triggle = d.triggle => c = d
         /\ \A d \in Put(list, e) :
              \/ d = e
              \/ \E c \in list : c.id = d.id /\ c.triggle = d.triggle /\ c.fresh = d.fresh
<1>1. CASE Taken(list, e.triggle)
  <2> DEFINE Merge(d) == IF d.triggle = e.triggle THEN [d EXCEPT !.interval = e.interval] ELSE d
  <2>1. Put(list, e) = {Merge(d) : d \in list}
    BY <1>1 DEF Put
  <2>2. \A d \in list :
          /\ Merge(d) \in Entries
          /\ Merge(d).id = d.id /\ Merge(d).triggle = d.triggle /\ Merge(d).fresh = d.fresh
    BY DEF Entries
  <2> HIDE DEF Merge
  <2> QED
    BY <2>1, <2>2
<1>2. CASE ~Taken(list, e.triggle)
  BY <1>2 DEF Put, Taken
<1> QED
  BY <1>1, <1>2

\* An entry that is left after an erase was there, under another time.
LEMMA WithoutList ==
  ASSUME NEW t, NEW e \in Without(t)
  PROVE  e \in timerList /\ e.triggle # t
BY DEF Without

LEMMA WithoutIsMap ==
  ASSUME TypeOK, EntryIsOwned, NEW t
  PROVE  /\ Without(t) \subseteq Entries
         /\ \A c, d \in Without(t) : c.triggle = d.triggle => c = d
BY DEF Without, TypeOK, EntryIsOwned
-----------------------------------------------------------------------------
(* One lemma for each action                                               *)

LEMMA InitIInv == Init => IInv
<1> SUFFICES ASSUME Init
             PROVE  IInv
  OBVIOUS
<1>1. TypeOK
  <2>1. isStart \in [Timers -> BOOLEAN] /\ objectList \in [Timers -> Int \cup {None}]
    BY DEF Init
  <2>2. asked \in [Timers -> Nat \cup {None}] /\ due \in [Timers -> Int \cup {None}]
    BY DEF Init
  <2>3. timerList \subseteq Entries /\ firedNow \subseteq Timers
    BY DEF Init
  <2>4. cursor \in Int \cup {None} /\ nowId \in Int /\ pc \in {"poll", "scan", "action"}
    BY DEF Init
  <2>5. aborted \in BOOLEAN /\ met \in BOOLEAN
    BY DEF Init
  <2> QED
    BY <2>1, <2>2, <2>3, <2>4, <2>5 DEF TypeOK
<1>2. KeyIsStarted
  BY DEF Init, KeyIsStarted
<1>3. EntryIsOwned /\ CalledIsFresh
  BY DEF Init, EntryIsOwned, CalledIsFresh
<1> QED
  BY <1>1, <1>2, <1>3 DEF IInv

LEMMA StartStep ==
  ASSUME IInv, NEW x \in Timers, NEW b \in Begins, NEW i \in Intervals, Start(x, b, i)
  PROVE  IInv'
<1> DEFINE e == [triggle |-> b, id |-> x, interval |-> Armed(i), fresh |-> TRUE]
<1>1. b \in Int /\ b # None /\ i \in Nat /\ i # None
  BY TimerAssumption
<1>2. e \in Entries
  BY <1>1, ArmedType DEF Entries
<1>3. timerList' = Put(timerList, e)
  BY DEF Start
<1>4. /\ timerList' \subseteq Entries
      /\ \A c, d \in timerList' : c.triggle = d.triggle => c = d
      /\ \A d \in timerList' :
           \/ d = e
           \/ \E c \in timerList : c.id = d.id /\ c.triggle = d.triggle /\ c.fresh = d.fresh
  <2>1. timerList \subseteq Entries /\ \A c, d \in timerList : c.triggle = d.triggle => c = d
    BY DEF IInv, TypeOK, EntryIsOwned
  <2> HIDE DEF e
  <2> QED
    BY <1>2, <1>3, <2>1, PutList
<1>5. \A c \in timerList : c.id # x
  <2>1. objectList[x] = None
    BY DEF IInv, KeyIsStarted, Start, InCallback
  <2>2. \A c \in timerList : objectList[c.id] \in Int
    BY DEF IInv, TypeOK, EntryIsOwned, Entries
  <2> QED
    BY <2>1, <2>2, TimerAssumption
<1>6. TypeOK'
  BY <1>1, <1>4 DEF IInv, TypeOK, Start
<1>7. KeyIsStarted'
  BY <1>1 DEF IInv, TypeOK, KeyIsStarted, Start
<1>8. EntryIsOwned'
  <2>1. \A d \in timerList' : objectList'[d.id] = d.triggle
    <3> TAKE d \in timerList'
    <3>1. CASE d = e
      BY <3>1 DEF IInv, TypeOK, Start
    <3>2. CASE \E c \in timerList : c.id = d.id /\ c.triggle = d.triggle
      <4>1. d.id # x /\ objectList[d.id] = d.triggle
        BY <3>2, <1>5 DEF IInv, EntryIsOwned
      <4> QED
        BY <4>1 DEF IInv, TypeOK, Start
    <3> QED
      BY <3>1, <3>2, <1>4
  <2> QED
    BY <2>1, <1>4 DEF EntryIsOwned
<1>9. CalledIsFresh'
  <2>1. e.fresh
    OBVIOUS
  <2> HIDE DEF e
  <2> SUFFICES ASSUME pc' # "poll", NEW d \in timerList', d.id \in firedNow'
               PROVE  d.fresh
    BY DEF CalledIsFresh
  <2>2. pc # "poll" /\ d.id \in firedNow
    BY DEF Start
  <2>3. CASE d = e
    BY <2>1, <2>3
  <2>4. ASSUME NEW c \in timerList, c.id = d.id, c.fresh = d.fresh
        PROVE  d.fresh
    <3>1. c.fresh
      BY <2>2, <2>4 DEF IInv, CalledIsFresh
    <3> QED
      BY <2>4, <3>1
  <2> QED
    BY <1>4, <2>3, <2>4
<1> QED
  BY <1>6, <1>7, <1>8, <1>9 DEF IInv

LEMMA StopStep ==
  ASSUME IInv, NEW x \in Timers, Stop(x)
  PROVE  IInv'
<1>1. CASE aborted'
  BY <1>1, TimerAssumption DEF IInv, TypeOK, KeyIsStarted, EntryIsOwned, CalledIsFresh, Stop, InCallback
<1>2. CASE ~aborted'
  <2>1. objectList' = [objectList EXCEPT ![x] = None]
    BY <1>2 DEF Stop
  <2>2. timerList' \subseteq timerList /\ \A e \in timerList' : e.id # x
    BY <1>2, TimerAssumption DEF Stop, Without, IInv, TypeOK, EntryIsOwned, Entries
  <2>3. TypeOK'
    BY <1>2, <2>1, <2>2 DEF IInv, TypeOK, Stop
  <2>4. KeyIsStarted'
    BY <2>1 DEF IInv, TypeOK, KeyIsStarted, Stop, InCallback
  <2>5. EntryIsOwned'
    BY <2>1, <2>2 DEF IInv, TypeOK, EntryIsOwned, Entries
  <2>6. CalledIsFresh'
    BY <2>2 DEF IInv, CalledIsFresh, Stop
  <2> QED
    BY <2>3, <2>4, <2>5, <2>6 DEF IInv
<1> QED
  BY <1>1, <1>2

LEMMA BeginTickStep ==
  ASSUME IInv, BeginTick
  PROVE  IInv'
<1>1. timerList' = {Settled(e) : e \in timerList}
  BY DEF BeginTick
<1>2. \A e \in timerList :
        Settled(e) \in Entries /\ Settled(e).id = e.id /\ Settled(e).triggle = e.triggle
  BY DEF IInv, TypeOK, Entries, Settled
<1>3. TypeOK'
  BY <1>1, <1>2 DEF IInv, TypeOK, BeginTick
<1>4. EntryIsOwned'
  BY <1>1, <1>2 DEF IInv, EntryIsOwned, BeginTick
<1> QED
  BY <1>3, <1>4 DEF IInv, KeyIsStarted, CalledIsFresh, BeginTick

\* What the owner expects next is a time.
LEMMA DueType ==
  ASSUME IInv, NEW x \in Timers, Fire(x)
  PROVE  due' \in [Timers -> Int \cup {None}]
<1>1. due[x] # None => due[x] \in Int /\ Armed(asked[x]) \in Nat
  BY ArmedType DEF IInv, TypeOK, KeyIsStarted
<1> QED
  BY <1>1 DEF IInv, TypeOK, Fire

LEMMA FireStep ==
  ASSUME IInv, NEW x \in Timers, Fire(x)
  PROVE  IInv'
<1>0. met' \in BOOLEAN
  BY DEF IInv, TypeOK, Fire
<1>1. PICK e \in timerList :
        /\ Ripe(e)
        /\ e.id = x
        /\ cursor' = e.triggle
        /\ IF e.interval = 0
             THEN /\ objectList' = [objectList EXCEPT ![x] = None]
                  /\ timerList' = Without(objectList[x])
             ELSE /\ objectList' = [objectList EXCEPT ![x] = e.triggle + e.interval]
                  /\ timerList' = Put(Without(objectList[x]),
                                      [e EXCEPT !.triggle = e.triggle + e.interval, !.fresh = TRUE])
  BY DEF Fire
<1> DEFINE again == [e EXCEPT !.triggle = e.triggle + e.interval, !.fresh = TRUE]
<1> DEFINE rest == Without(objectList[x])
<1>2. e \in Entries /\ e.triggle \in Int /\ e.interval \in Nat
  BY DEF IInv, TypeOK, Entries
<1>3. /\ again \in Entries
      /\ again.id = x /\ again.triggle = e.triggle + e.interval /\ again.fresh
  <2>1. e.triggle + e.interval \in Int
    BY <1>2
  <2>2. \A t \in Int : /\ [e EXCEPT !.triggle = t, !.fresh = TRUE] \in Entries
                       /\ [e EXCEPT !.triggle = t, !.fresh = TRUE].id = e.id
                       /\ [e EXCEPT !.triggle = t, !.fresh = TRUE].triggle = t
                       /\ [e EXCEPT !.triggle = t, !.fresh = TRUE].fresh = TRUE
    BY <1>2 DEF Entries
  <2> QED
    BY <1>1, <2>1, <2>2
<1>4. objectList[x] = e.triggle
  BY <1>1 DEF IInv, EntryIsOwned
<1>5. \A d \in rest : d \in timerList /\ d.id # x
  BY <1>4, WithoutList DEF IInv, EntryIsOwned
<1>6. rest \subseteq Entries /\ \A c, d \in rest : c.triggle = d.triggle => c = d
  BY WithoutIsMap DEF IInv
<1> HIDE DEF rest, again
<1>7. CASE e.interval = 0
  <2>1. objectList' = [objectList EXCEPT ![x] = None] /\ timerList' = rest
    BY <1>1, <1>7 DEF rest
  <2>2. TypeOK'
    BY <1>0, <1>1, <1>2, <1>6, <2>1, DueType DEF IInv, TypeOK, Fire
  <2>3. KeyIsStarted'
    BY <2>1 DEF IInv, TypeOK, KeyIsStarted, Fire
  <2>4. EntryIsOwned'
    BY <2>1, <1>5, <1>6 DEF IInv, TypeOK, EntryIsOwned, Entries
  <2>5. CalledIsFresh'
    BY <2>1, <1>5 DEF IInv, CalledIsFresh, Fire
  <2> QED
    BY <2>2, <2>3, <2>4, <2>5 DEF IInv
<1>8. CASE e.interval # 0
  <2>1. objectList' = [objectList EXCEPT ![x] = e.triggle + e.interval] /\ timerList' = Put(rest, again)
    BY <1>1, <1>8 DEF rest, again
  <2>2. /\ timerList' \subseteq Entries
        /\ \A c, d \in timerList' : c.triggle = d.triggle => c = d
        /\ \A d \in timerList' :
             \/ d = again
             \/ \E c \in rest : c.id = d.id /\ c.triggle = d.triggle /\ c.fresh = d.fresh
    BY <2>1, <1>3, <1>6, PutList
  <2>3. TypeOK'
    <3>1. objectList' \in [Timers -> Int \cup {None}] /\ cursor' \in Int \cup {None}
      BY <1>1, <1>2, <2>1 DEF IInv, TypeOK
    <3>2. firedNow' \subseteq Timers /\ pc' \in {"poll", "scan", "action"}
      BY DEF IInv, TypeOK, Fire
    <3> QED
      BY <1>0, <2>2, <3>1, <3>2, DueType DEF IInv, TypeOK, Fire
  <2>4. isStart[x]
    BY <1>2, <1>4, TimerAssumption DEF IInv, KeyIsStarted, Fire
  <2>5. KeyIsStarted'
    BY <2>1, <2>4 DEF IInv, TypeOK, KeyIsStarted, Fire
  <2>6. EntryIsOwned'
    <3>1. \A d \in timerList' : objectList'[d.id] = d.triggle
      BY <1>3, <1>5, <2>1, <2>2 DEF IInv, TypeOK, EntryIsOwned, Entries
    <3> QED
      BY <2>2, <3>1 DEF EntryIsOwned
  <2>7. CalledIsFresh'
    BY <1>3, <1>5, <2>2 DEF IInv, CalledIsFresh, Fire
  <2> QED
    BY <2>3, <2>5, <2>6, <2>7 DEF IInv
<1> QED
  BY <1>7, <1>8

LEMMA AdvanceStep ==
  ASSUME IInv, Advance
  PROVE  IInv'
<1> DEFINE Shifted(e) == [e EXCEPT !.triggle = @ - 1]
<1>1. timerList' = {Shifted(e) : e \in timerList}
  BY DEF Advance
<1>2. \A e \in timerList :
        /\ Shifted(e) \in Entries
        /\ Shifted(e).id = e.id /\ Shifted(e).triggle = e.triggle - 1 /\ Shifted(e).fresh = e.fresh
        /\ e.triggle \in Int /\ e.triggle # None /\ e.id \in Timers
  BY TimerAssumption DEF IInv, TypeOK, Entries
<1> HIDE DEF Shifted
<1>3. TypeOK'
  BY <1>1, <1>2 DEF IInv, TypeOK, Advance, Earlier
<1>4. KeyIsStarted'
  BY TimerAssumption DEF IInv, TypeOK, KeyIsStarted, Advance, Earlier
<1>5. EntryIsOwned'
  <2>1. \A e \in timerList : objectList'[e.id] = e.triggle - 1
    BY <1>2 DEF IInv, EntryIsOwned, Advance, Earlier
  <2>2. \A c, d \in timerList : c.triggle - 1 = d.triggle - 1 => c = d
    BY <1>2 DEF IInv, EntryIsOwned
  <2> QED
    BY <1>1, <1>2, <2>1, <2>2 DEF EntryIsOwned
<1>6. CalledIsFresh'
  BY <1>1, <1>2 DEF IInv, CalledIsFresh, Advance
<1> QED
  BY <1>3, <1>4, <1>5, <1>6 DEF IInv

LEMMA NextStep == IInv /\ [Next]_vars => IInv'
<1> SUFFICES ASSUME IInv, [Next]_vars
             PROVE  IInv'
  OBVIOUS
<1>1. CASE EndAction
  BY <1>1 DEF EndAction, IInv, TypeOK, KeyIsStarted, EntryIsOwned, CalledIsFresh
<1>2. CASE EndTick
  BY <1>2 DEF EndTick, IInv, TypeOK, KeyIsStarted, EntryIsOwned, CalledIsFresh
<1>3. CASE UNCHANGED vars
  BY <1>3 DEF vars, IInv, TypeOK, KeyIsStarted, EntryIsOwned, CalledIsFresh
<1> QED
  BY <1>1, <1>2, <1>3, StartStep, StopStep, BeginTickStep, FireStep, AdvanceStep DEF Next

-----------------------------------------------------------------------------
(* The theorems                                                            *)

LEMMA Invariance == Spec => []IInv
BY InitIInv, NextStep, PTL DEF Spec

\* Every field has its type; in particular no timer is ever armed with a negative
\* period and no key is left undefined.
THEOREM TypeCorrect == Spec => []TypeOK
<1>1. IInv => TypeOK
  BY DEF IInv
<1> QED
  BY <1>1, Invariance, PTL

\* The list holds only entries of their owners, one for each time, even when
\* timers tie.
THEOREM EntryIsOwnedCorrect == Spec => []EntryIsOwned
<1>1. IInv => EntryIsOwned
  BY DEF IInv
<1> QED
  BY <1>1, Invariance, PTL

\* tick never calls a timer that is stopped or destroyed: what it finds in the
\* list has a key in _object_list, and a timer with a key is started.
THEOREM StoppedNeverFiresCorrect == Spec => StoppedNeverFires
<1>1. IInv /\ [Next]_vars => [\A x \in Timers : Fire(x) => isStart[x]]_vars
  <2> SUFFICES ASSUME IInv, NEW x \in Timers, Fire(x)
               PROVE  isStart[x]
    OBVIOUS
  <2>1. PICK e \in timerList : e.id = x
    BY DEF Fire
  <2>2. objectList[x] = e.triggle /\ e.triggle # None
    BY <2>1, TimerAssumption DEF IInv, TypeOK, EntryIsOwned, Entries
  <2> QED
    BY <2>2 DEF IInv, KeyIsStarted, Fire
<1> QED
  BY <1>1, Invariance, PTL DEF Spec, StoppedNeverFires

\* tick calls no timer twice: what a called timer has left in the list, its next
\* period or what a callback started, is newer than the tick.
THEOREM OncePerTickCorrect == Spec => OncePerTick
<1>1. IInv /\ [Next]_vars => [\A x \in Timers : Fire(x) => x \notin firedNow]_vars
  <2> SUFFICES ASSUME IInv, NEW x \in Timers, Fire(x)
               PROVE  x \notin firedNow
    OBVIOUS
  <2>1. PICK e \in timerList : e.id = x /\ Ripe(e)
    BY DEF Fire
  <2> QED
    BY <2>1 DEF IInv, CalledIsFresh, Ripe, Fire
<1> QED
  BY <1>1, Invariance, PTL DEF Spec, OncePerTick

-----------------------------------------------------------------------------
(* Until two timers meet                                                    *)

\* What an entry says is what its owner asked for.
AsAsked(e) ==
  /\ asked[e.id] \in Nat
  /\ due[e.id] = e.triggle
  /\ e.interval = Armed(asked[e.id])

\* As long as no two timers meet, each started timer has its entry, as it was asked for.
Untied ==
  ~met =>
    /\ ~aborted
    /\ \A x \in Timers : isStart[x] => \E e \in timerList : e.id = x
    /\ \A e \in timerList : AsAsked(e)

\* The time that tick compares with is never ahead of the clock.
ClockRead == nowId <= 0

UInv == IInv /\ Untied /\ ClockRead

\* Two entries of one owner or of one time are the same.
LEMMA OneEntry ==
  ASSUME IInv, NEW c \in timerList, NEW d \in timerList, c.id = d.id \/ c.triggle = d.triggle
  PROVE  c = d
BY DEF IInv, EntryIsOwned

\* A time that is free is simply taken.
LEMMA PutFree ==
  ASSUME NEW list, NEW e, ~Taken(list, e.triggle)
  PROVE  Put(list, e) = list \cup {e}
BY DEF Put

\* An entry keeps its word when its owner's wish and its own three fields stay.
LEMMA AsAskedStays ==
  ASSUME NEW c, NEW d, AsAsked(c), c.id = d.id, c.triggle = d.triggle, c.interval = d.interval,
         asked'[c.id] = asked[c.id], due'[c.id] = due[c.id]
  PROVE  /\ asked'[d.id] \in Nat
         /\ due'[d.id] = d.triggle
         /\ d.interval = Armed(asked'[d.id])
BY DEF AsAsked

LEMMA StartUntied ==
  ASSUME UInv, NEW x \in Timers, NEW b \in Begins, NEW i \in Intervals, Start(x, b, i)
  PROVE  Untied' /\ ClockRead'
<1> DEFINE e == [triggle |-> b, id |-> x, interval |-> Armed(i), fresh |-> TRUE]
<1>1. ClockRead'
  BY DEF UInv, ClockRead, Start
<1> SUFFICES ASSUME ~met'
             PROVE  Untied'
  BY <1>1 DEF Untied
<1>2. /\ ~met /\ ~Taken(timerList, b) /\ UNCHANGED aborted /\ isStart' = [isStart EXCEPT ![x] = TRUE]
      /\ timerList' = Put(timerList, e)
      /\ asked' = [asked EXCEPT ![x] = i] /\ due' = [due EXCEPT ![x] = b]
  BY DEF Start
<1>3. e.triggle = b /\ e.id = x /\ e.interval = Armed(i)
  OBVIOUS
<1> HIDE DEF e
<1>4. timerList' = timerList \cup {e}
  BY <1>2, <1>3, PutFree
<1>5. /\ ~aborted /\ \A c \in timerList : AsAsked(c)
      /\ \A y \in Timers : isStart[y] => \E c \in timerList : c.id = y
  BY <1>2 DEF UInv, Untied
<1>6. \A c \in timerList : c.id \in Timers /\ c.id # x
  <2>1. objectList[x] = None
    BY DEF UInv, IInv, KeyIsStarted, Start, InCallback
  <2> QED
    BY <2>1, TimerAssumption DEF UInv, IInv, TypeOK, EntryIsOwned, Entries
<1>7. \A y \in Timers : isStart'[y] => \E c \in timerList' : c.id = y
  BY <1>2, <1>3, <1>4, <1>5 DEF UInv, IInv, TypeOK
<1>8. \A y \in Timers \ {x} : asked'[y] = asked[y] /\ due'[y] = due[y]
  BY <1>2 DEF UInv, IInv, TypeOK
<1>9. asked'[x] = i /\ due'[x] = b /\ i \in Nat
  BY <1>2, TimerAssumption DEF UInv, IInv, TypeOK
<1>10. AsAsked(e)'
  BY <1>3, <1>9 DEF AsAsked
<1>11. ASSUME NEW c \in timerList
       PROVE  AsAsked(c)'
  BY <1>5, <1>6, <1>8, AsAskedStays DEF AsAsked
<1> QED
  BY <1>2, <1>4, <1>5, <1>7, <1>10, <1>11 DEF Untied

LEMMA StopUntied ==
  ASSUME UInv, NEW x \in Timers, Stop(x)
  PROVE  Untied' /\ ClockRead'
<1>1. ClockRead'
  BY DEF UInv, ClockRead, Stop
<1> SUFFICES ASSUME ~met'
             PROVE  Untied'
  BY <1>1 DEF Untied
<1>2. /\ ~met /\ ~aborted /\ \A c \in timerList : AsAsked(c)
      /\ \A y \in Timers : isStart[y] => \E c \in timerList : c.id = y
  BY DEF UInv, Untied, Stop
<1>3. PICK e \in timerList : e.id = x /\ objectList[x] = e.triggle /\ e.triggle # None
  BY <1>2, TimerAssumption DEF Stop, UInv, IInv, TypeOK, EntryIsOwned, Entries
<1>4. ~aborted' /\ timerList' = Without(e.triggle) /\ isStart' = [isStart EXCEPT ![x] = FALSE]
  BY <1>2, <1>3 DEF Stop
<1>5. timerList' = timerList \ {e}
  BY <1>3, <1>4, OneEntry DEF Without, UInv
<1>6. \A c \in timerList' : c \in timerList /\ c.id # x /\ c.id \in Timers
  BY <1>3, <1>5, OneEntry DEF UInv, IInv, TypeOK, Entries
<1>7. \A y \in Timers : isStart'[y] => \E c \in timerList' : c.id = y
  BY <1>2, <1>3, <1>4, <1>5 DEF UInv, IInv, TypeOK
<1>8. \A y \in Timers \ {x} : asked'[y] = asked[y] /\ due'[y] = due[y]
  BY DEF Stop, UInv, IInv, TypeOK
<1>9. ASSUME NEW c \in timerList'
      PROVE  AsAsked(c)'
  BY <1>2, <1>6, <1>8, AsAskedStays DEF AsAsked
<1> QED
  BY <1>4, <1>7, <1>9 DEF Untied

LEMMA BeginTickUntied ==
  ASSUME UInv, BeginTick
  PROVE  Untied' /\ ClockRead'
<1>1. ClockRead'
  BY DEF ClockRead, BeginTick
<1> SUFFICES ASSUME ~met'
             PROVE  Untied'
  BY <1>1 DEF Untied
<1>2. /\ ~met /\ ~aborted /\ \A c \in timerList : AsAsked(c)
      /\ \A y \in Timers : isStart[y] => \E c \in timerList : c.id = y
  BY DEF UInv, Untied, BeginTick
<1>3. timerList' = {Settled(c) : c \in timerList} /\ UNCHANGED <<isStart, aborted, asked, due>>
  BY DEF BeginTick
<1>4. \A c \in timerList :
        Settled(c).id = c.id /\ Settled(c).triggle = c.triggle /\ Settled(c).interval = c.interval
  BY DEF UInv, IInv, TypeOK, Entries, Settled
<1>5. \A c \in timerList' : AsAsked(c)'
  BY <1>2, <1>3, <1>4 DEF AsAsked
<1>6. \A y \in Timers : isStart'[y] => \E c \in timerList' : c.id = y
  BY <1>2, <1>3, <1>4
<1> QED
  BY <1>2, <1>3, <1>5, <1>6 DEF Untied

LEMMA FireUntied ==
  ASSUME UInv, NEW x \in Timers, Fire(x)
  PROVE  Untied' /\ ClockRead'
<1>1. ClockRead'
  BY DEF UInv, ClockRead, Fire
<1> SUFFICES ASSUME ~met'
             PROVE  Untied'
  BY <1>1 DEF Untied
<1>2. PICK e \in timerList :
        /\ e.id = x
        /\ IF e.interval = 0
             THEN UNCHANGED met
             ELSE /\ timerList' = Put(Without(objectList[x]),
                                      [e EXCEPT !.triggle = e.triggle + e.interval, !.fresh = TRUE])
                  /\ met' = (met \/ Taken(Without(objectList[x]), e.triggle + e.interval))
  BY DEF Fire
<1>3. ~met /\ ~aborted'
  BY <1>2 DEF Fire
<1>4. /\ \A c \in timerList : AsAsked(c)
      /\ \A y \in Timers : isStart[y] => \E c \in timerList : c.id = y
  BY <1>3 DEF UInv, Untied
<1>5. e.triggle \in Int /\ objectList[x] = e.triggle /\ e \in Entries
  BY <1>2 DEF UInv, IInv, TypeOK, EntryIsOwned, Entries
<1>6. asked[x] \in Nat /\ due[x] = e.triggle /\ e.interval = Armed(asked[x])
  BY <1>2, <1>4 DEF AsAsked
<1>7. e.interval \in Nat \ {0} /\ due[x] # None
  BY <1>5, <1>6, ArmedType, TimerAssumption
<1>8. PICK again :
        /\ again.id = x /\ again.triggle = e.triggle + e.interval /\ again.interval = e.interval
        /\ timerList' = Put(Without(objectList[x]), again)
  <2>1. e.triggle + e.interval \in Int
    BY <1>5, <1>7
  <2>2. \A t \in Int : /\ [e EXCEPT !.triggle = t, !.fresh = TRUE].id = e.id
                       /\ [e EXCEPT !.triggle = t, !.fresh = TRUE].triggle = t
                       /\ [e EXCEPT !.triggle = t, !.fresh = TRUE].interval = e.interval
    BY <1>5 DEF Entries
  <2> QED
    BY <1>2, <1>7, <2>1, <2>2
<1>9. ~Taken(Without(objectList[x]), again.triggle)
  BY <1>2, <1>7, <1>8
<1>10. timerList' = (timerList \ {e}) \cup {again}
  <2>1. Without(objectList[x]) = timerList \ {e}
    BY <1>5, OneEntry DEF Without, UInv
  <2> QED
    BY <1>8, <1>9, <2>1, PutFree
<1>11. \A c \in timerList \ {e} : c.id # x /\ c.id \in Timers
  BY <1>2, OneEntry DEF UInv, IInv, TypeOK, Entries
<1>12. /\ asked' = asked /\ isStart' = isStart /\ due'[x] = e.triggle + e.interval
       /\ \A y \in Timers \ {x} : due'[y] = due[y]
  BY <1>6, <1>7 DEF Fire, UInv, IInv, TypeOK
<1>13. AsAsked(again)'
  BY <1>6, <1>8, <1>12 DEF AsAsked
<1>14. ASSUME NEW c \in timerList \ {e}
       PROVE  AsAsked(c)'
  BY <1>4, <1>11, <1>12, AsAskedStays DEF AsAsked
<1>15. \A y \in Timers : isStart'[y] => \E c \in timerList' : c.id = y
  BY <1>2, <1>4, <1>8, <1>10, <1>12
<1> QED
  BY <1>3, <1>10, <1>13, <1>14, <1>15 DEF Untied

LEMMA AdvanceUntied ==
  ASSUME UInv, Advance
  PROVE  Untied' /\ ClockRead'
<1>1. ClockRead'
  BY DEF UInv, IInv, TypeOK, ClockRead, Advance
<1> SUFFICES ASSUME ~met'
             PROVE  Untied'
  BY <1>1 DEF Untied
<1>2. /\ ~met /\ ~aborted /\ \A c \in timerList : AsAsked(c)
      /\ \A y \in Timers : isStart[y] => \E c \in timerList : c.id = y
  BY DEF UInv, Untied, Advance
<1> DEFINE Shifted(c) == [c EXCEPT !.triggle = @ - 1]
<1>3. timerList' = {Shifted(c) : c \in timerList} /\ UNCHANGED <<isStart, aborted, asked>>
  BY DEF Advance
<1>4. \A c \in timerList :
        /\ Shifted(c).id = c.id /\ Shifted(c).triggle = c.triggle - 1 /\ Shifted(c).interval = c.interval
        /\ c.id \in Timers /\ c.triggle # None
  BY TimerAssumption DEF UInv, IInv, TypeOK, Entries
<1> HIDE DEF Shifted
<1>5. \A c \in timerList : due'[c.id] = c.triggle - 1
  BY <1>2, <1>4 DEF AsAsked, Advance, Earlier
<1>6. \A c \in timerList' : AsAsked(c)'
  BY <1>2, <1>3, <1>4, <1>5 DEF AsAsked
<1>7. \A y \in Timers : isStart'[y] => \E c \in timerList' : c.id = y
  BY <1>2, <1>3, <1>4
<1> QED
  BY <1>2, <1>3, <1>6, <1>7 DEF Untied

LEMMA InitUInv == Init => UInv
<1>1. Init => Untied /\ ClockRead
  BY DEF Init, Untied, ClockRead
<1> QED
  BY <1>1, InitIInv DEF UInv

LEMMA NextUInv == UInv /\ [Next]_vars => UInv'
<1> SUFFICES ASSUME UInv, [Next]_vars
             PROVE  UInv'
  OBVIOUS
<1>1. IInv'
  BY NextStep DEF UInv
<1>2. ASSUME UNCHANGED <<met, aborted, isStart, timerList, asked, due>>, nowId' \in {0, nowId}
      PROVE  Untied' /\ ClockRead'
  BY <1>2 DEF UInv, Untied, AsAsked, ClockRead
<1>3. CASE EndAction \/ EndTick \/ UNCHANGED vars
  <2>1. UNCHANGED <<met, aborted, isStart, timerList, asked, due>> /\ nowId' \in {0, nowId}
    BY <1>3 DEF EndAction, EndTick, vars
  <2> QED
    BY <1>1, <1>2, <2>1 DEF UInv
<1>4. ASSUME NEW x \in Timers,
             Stop(x) \/ Fire(x) \/ \E b \in Begins, i \in Intervals : Start(x, b, i)
      PROVE  Untied' /\ ClockRead'
  BY <1>4, StartUntied, StopUntied, FireUntied
<1>5. CASE BeginTick \/ Advance
  BY <1>1, <1>5, BeginTickUntied, AdvanceUntied DEF UInv
<1> QED
  BY <1>1, <1>3, <1>4, <1>5 DEF Next, UInv

LEMMA UntiedInvariance == Spec => []UInv
BY InitUInv, NextUInv, PTL DEF Spec

\* A timer is not called before the time its owner asked for, as long as no two timers
\* meet: its entry is what the owner asked for, and what is taken is due
\* (timer_sheduler.cpp:47, 64-66).
THEOREM NeverEarlyCorrect == Spec => NeverEarly
<1>1. UInv /\ [Next]_vars => [\A x \in Timers : Fire(x) /\ ~met => due[x] # None /\ due[x] <= 0]_vars
  <2> SUFFICES ASSUME UInv, NEW x \in Timers, Fire(x), ~met
               PROVE  due[x] # None /\ due[x] <= 0
    OBVIOUS
  <2>1. PICK e \in timerList : e.id = x /\ e.triggle <= nowId
    BY DEF Fire, Ripe
  <2>2. due[x] = e.triggle /\ e.triggle \in Int
    BY <2>1 DEF UInv, Untied, AsAsked, IInv, TypeOK, Entries
  <2>3. nowId \in Int /\ nowId <= 0
    BY DEF UInv, IInv, TypeOK, ClockRead
  <2> QED
    BY <2>1, <2>2, <2>3, TimerAssumption
<1> QED
  BY <1>1, UntiedInvariance, PTL DEF Spec, NeverEarly

\* Only timers that meet are lost, and only they end the process in stop's assert
\* (timer_sheduler.cpp:118-119, 127).
THEOREM ListedUntilTieCorrect == Spec => []ListedUntilTie
<1>1. UInv => ListedUntilTie
  <2> SUFFICES ASSUME UInv, ~met
               PROVE  StartedIsListed /\ ~aborted
    BY DEF ListedUntilTie
  <2> QED
    BY DEF UInv, Untied, StartedIsListed, IInv, EntryIsOwned
<1> QED
  BY <1>1, UntiedInvariance, PTL
=============================================================================
