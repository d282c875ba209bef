--------------------------- MODULE TimerSheduler ---------------------------
(***************************************************************************)
(* The timers of a reactor loop: reactor/timer_sheduler.cpp, driven by the *)
(* timer_helper objects of channels and applications.                      *)
(*                                                                         *)
(* Everything here runs in the loop's thread: callbacks (of the poller, of *)
(* a task, of another timer) start and stop timers, and once per turn the  *)
(* loop calls tick.  _timer_list is a map whose keys compare by their      *)
(* trigger time alone, so it holds one entry per time; _object_list finds  *)
(* the key of a started timer.                                             *)
(*                                                                         *)
(* Times are relative to the clock: 0 is now, what is overdue is negative, *)
(* and Advance shifts them.  unique_seq is only compared with the value it *)
(* had when tick began, so an entry carries that bit: fresh.               *)
(***************************************************************************)
EXTENDS Integers, FiniteSets

CONSTANTS
  Timers,          \* the timer_helper objects of the loop
  Begins,          \* the delays timers are started with
  Intervals,       \* the periods they are started with, 0 for none
  DefaultInterval, \* the 1000 ms that start_timer puts for a period of 0
  MaxLag,          \* bound: how far behind the clock a turn of the loop can be
  None             \* no key, no timer

ASSUME TimerAssumption ==
  /\ Begins \subseteq Nat
  /\ DefaultInterval \in Nat \ {0}
  /\ Intervals \subseteq Nat
  /\ MaxLag \in Nat
  /\ None \notin Int
  /\ None \notin Timers

VARIABLES
  isStart,    \* timer_helper::_is_start
  objectList, \* _object_list: the trigger time of a timer's key, or None
  timerList,  \* _timer_list, a set of entries with the id its key was made with
  pc,         \* "poll" outside tick, "scan" in its loop, "action" in a callback
  cursor,     \* cursor_id: trigger time of the last entry taken, or None
  nowId,      \* now_id: the time at which tick began
  aborted,    \* the assert of stop_timer_inlock failed
  asked,      \* history: the period the owner of a started timer asked for
  due,        \* history: when the owner of a started timer expects it next
  met,        \* history: two timers have been due at the same instant
  firedNow    \* history: the timers that fired in this tick

vars == <<isStart, objectList, timerList, pc, cursor, nowId, aborted, asked,
          due, met, firedNow>>

Entries == [triggle : Int, id : Timers, interval : Nat, fresh : BOOLEAN]

Init ==
  /\ isStart = [x \in Timers |-> FALSE]
  /\ objectList = [x \in Timers |-> None]
  /\ timerList = {}
  /\ pc = "poll"
  /\ cursor = None
  /\ nowId = 0
  /\ aborted = FALSE
  /\ asked = [x \in Timers |-> None]
  /\ due = [x \in Timers |-> None]
  /\ met = FALSE
  /\ firedNow = {}

\* Mutant: the period is one short.
ArmedShort(i) == i - 1

\* The period start_timer really arms a timer with.
Armed(i) == IF i = 0 THEN DefaultInterval ELSE i

\* Mutant: everything up to that time goes.
WithoutUpTo(t) == {e \in timerList : e.triggle > t}

\* Mutant: the entry stays.
WithoutNothing(t) == timerList

\* _timer_list.erase(key): whichever entry has that trigger time goes.
Without(t) == {e \in timerList : e.triggle # t}

\* The list has an entry for that time.
Taken(list, t) == \E d \in list : d.triggle = t

\* _timer_list[key] = item: an entry already there keeps its key, and with it
\* its id and sequence number, and gets the new period.
Put(list, e) ==
  IF Taken(list, e.triggle)
    THEN {IF d.triggle = e.triggle THEN [d EXCEPT !.interval = e.interval] ELSE d : d \in list}
    ELSE list \cup {e}

InCallback == ~aborted /\ pc \in {"poll", "action"}

-----------------------------------------------------------------------------
(* timer_helper: start and stop                                            *)

\* start does nothing for a timer that is started already.  The stop that
\* start_timer_inlock begins with finds nothing: only started timers have a key.
Start(x, b, i) ==
  /\ InCallback
  /\ ~isStart[x]
  /\ isStart' = [isStart EXCEPT ![x] = TRUE]
  /\ objectList' = [objectList EXCEPT ![x] = b]
  /\ timerList' = Put(timerList, [triggle |-> b, id |-> x, interval |-> Armed(i), fresh |-> TRUE])
  /\ asked' = [asked EXCEPT ![x] = i]
  /\ due' = [due EXCEPT ![x] = b]
  /\ met' = (met \/ Taken(timerList, b))
  /\ UNCHANGED <<pc, cursor, nowId, aborted, firedNow>>

\* stop, the destructor's clear, and stop_timer_inlock with its assert that the
\* key of a known timer is in the list.
Stop(x) ==
  /\ InCallback
  /\ isStart[x]
  /\ isStart' = [isStart EXCEPT ![x] = FALSE]
  /\ IF objectList[x] # None /\ \A e \in timerList : e.triggle # objectList[x]
       THEN /\ aborted' = TRUE
            /\ UNCHANGED <<objectList, timerList>>
       ELSE /\ objectList' = [objectList EXCEPT ![x] = None]
            /\ timerList' = IF objectList[x] = None THEN timerList ELSE Without(objectList[x])
            /\ UNCHANGED aborted
  /\ asked' = [asked EXCEPT ![x] = None]
  /\ due' = [due EXCEPT ![x] = None]
  /\ UNCHANGED <<pc, cursor, nowId, met, firedNow>>

-----------------------------------------------------------------------------
(* timer_sheduler::tick                                                    *)

\* Mutant: old_seq is not brought up to date, so every entry seems new.
SettledNever(e) == e

\* old_seq covers the entries that are in the list when tick begins.
Settled(e) == [e EXCEPT !.fresh = FALSE]

\* Remember the time and the newest sequence number: what is in the list now is
\* not fresh.
BeginTick ==
  /\ ~aborted
  /\ pc = "poll"
  /\ pc' = "scan"
  /\ nowId' = 0
  /\ cursor' = None
  /\ timerList' = {Settled(e) : e \in timerList}
  /\ firedNow' = {}
  /\ UNCHANGED <<isStart, objectList, aborted, asked, due, met>>

\* upper_bound(cursor_id)
Ahead == {e \in timerList : cursor = None \/ e.triggle > cursor}

IsNext(e) == e \in Ahead /\ \A d \in Ahead : e.triggle <= d.triggle

\* Mutant: the clock is not looked at.
RipeAnyTime(e) == IsNext(e) /\ ~e.fresh

\* Mutant: entries started during the tick are taken as well.
RipeFresh(e) == IsNext(e) /\ e.triggle <= nowId

\* The next entry is due and was there when tick began.
Ripe(e) == IsNext(e) /\ e.triggle <= nowId /\ ~e.fresh

\* Take the next ripe entry: stop its timer, start it again one period after the
\* time it was due, and call it.  Its id is in _object_list under this very
\* time (EntryIsOwned), so the assert of stop_timer_inlock cannot fail here.
Fire(x) ==
  /\ ~aborted
  /\ pc = "scan"
  /\ \E e \in timerList :
       LET next == e.triggle + e.interval
           rest == Without(objectList[x])
       IN  /\ Ripe(e)
           /\ e.id = x
           /\ cursor' = e.triggle
           /\ IF e.interval = 0
                THEN /\ objectList' = [objectList EXCEPT ![x] = None]
                     /\ timerList' = rest
                     /\ UNCHANGED met
                ELSE /\ objectList' = [objectList EXCEPT ![x] = next]
                     /\ timerList' = Put(rest, [e EXCEPT !.triggle = next, !.fresh = TRUE])
                     /\ met' = (met \/ Taken(rest, next))
  /\ pc' = "action"
  /\ due' = [due EXCEPT ![x] = IF @ = None THEN None ELSE @ + Armed(asked[x])]
  /\ firedNow' = firedNow \cup {x}
  /\ UNCHANGED <<isStart, nowId, aborted, asked>>

\* The callback returns to tick.
EndAction ==
  /\ ~aborted
  /\ pc = "action"
  /\ pc' = "scan"
  /\ UNCHANGED <<isStart, objectList, timerList, cursor, nowId, aborted, asked, due, met, firedNow>>

\* Nothing is ahead, or the next entry is not due yet or was started during this
\* tick: leave, even when older entries that are due follow it.
EndTick ==
  /\ ~aborted
  /\ pc = "scan"
  /\ \A e \in timerList : ~Ripe(e)
  /\ pc' = "poll"
  /\ cursor' = None
  /\ nowId' = 0
  /\ UNCHANGED <<isStart, objectList, timerList, aborted, asked, due, met, firedNow>>

-----------------------------------------------------------------------------
(* The clock                                                               *)

Earlier(t) == IF t = None THEN None ELSE t - 1

\* Bound: the loop is never more than MaxLag behind a timer.
InReach == \A x \in Timers : objectList[x] # None => objectList[x] > -MaxLag

\* Time passes, in the poll as well as in the callbacks.
Advance ==
  /\ ~aborted
  /\ InReach
  /\ pc # "poll" => nowId > -MaxLag
  /\ objectList' = [x \in Timers |-> Earlier(objectList[x])]
  /\ timerList' = {[e EXCEPT !.triggle = @ - 1] : e \in timerList}
  /\ due' = [x \in Timers |-> Earlier(due[x])]
  /\ cursor' = Earlier(cursor)
  /\ nowId' = IF pc = "poll" THEN 0 ELSE nowId - 1
  /\ UNCHANGED <<isStart, pc, aborted, asked, met, firedNow>>

-----------------------------------------------------------------------------
(* The specification                                                       *)

TickStep == BeginTick \/ (\E x \in Timers : Fire(x)) \/ EndTick

Next ==
  \/ \E x \in Timers, b \in Begins, i \in Intervals : Start(x, b, i)
  \/ \E x \in Timers : Stop(x)
  \/ BeginTick
  \/ \E x \in Timers : Fire(x)
  \/ EndAction
  \/ EndTick
  \/ Advance

Spec == Init /\ [][Next]_vars

\* Every turn of the loop ticks, callbacks return (after finitely many starts and
\* stops, hence the strong fairness) and the clock runs.
FairSpec == Spec /\ WF_vars(TickStep) /\ SF_vars(BeginTick) /\ SF_vars(EndAction) /\ SF_vars(Advance)

-----------------------------------------------------------------------------
(* Properties                                                              *)

TypeOK ==
  /\ isStart \in [Timers -> BOOLEAN]
  /\ objectList \in [Timers -> Int \cup {None}]
  /\ timerList \subseteq Entries
  /\ pc \in {"poll", "scan", "action"}
  /\ cursor \in Int \cup {None}
  /\ nowId \in Int
  /\ aborted \in BOOLEAN
  /\ asked \in [Timers -> Nat \cup {None}]
  /\ due \in [Timers -> Int \cup {None}]
  /\ met \in BOOLEAN
  /\ firedNow \subseteq Timers

\* The entry of a timer is found through _object_list, at the one time both maps
\* agree on, and no two entries share a time: tick stops the timer it is about
\* to call, never another one (timer_sheduler.cpp:40-50).
EntryIsOwned ==
  /\ \A e \in timerList : objectList[e.id] = e.triggle
  /\ \A d, e \in timerList : d.triggle = e.triggle => d = e

\* A timer_helper that is stopped, or destroyed, is never called again: tick
\* holds a bare pointer to it (timer_sheduler.cpp:50).  This holds even if a
\* callback of the same tick stops the timer, and even when timers tie.
StoppedNeverFires == [][\A x \in Timers : Fire(x) => isStart[x]]_vars

\* No timer is called twice in one tick, though callbacks start timers that are
\* due at once and a late periodic timer is due again (timer_sheduler.cpp:22).
OncePerTick == [][\A x \in Timers : Fire(x) => x \notin firedNow]_vars

\* Every started timer has an entry under its own time, so that tick will reach
\* it; stop's assert cannot fail (timer_sheduler.cpp:118-119, 127).
StartedIsListed ==
  \A x \in Timers : isStart[x] =>
    \E e \in timerList : e.id = x /\ e.triggle = objectList[x]

\* It holds, and the assert with it, as long as no two timers meet.
ListedUntilTie == ~met => StartedIsListed /\ ~aborted

\* As long as no two timers meet, a timer is never called before the time its
\* owner asked for, periods included (timer_sheduler.cpp:47, 64-66).
NeverEarly == [][\A x \in Timers : Fire(x) /\ ~met => due[x] # None /\ due[x] <= 0]_vars

\* As long as no two timers meet, a started timer is called again and again until
\* it is stopped: neither late turns, nor timers that others start during a tick,
\* starve it.
StartedKeepsFiring == \A x \in Timers : isStart[x] ~> (x \in firedNow \/ ~isStart[x] \/ met)
=============================================================================
