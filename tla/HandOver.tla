------------------------------ MODULE HandOver ------------------------------
(***************************************************************************)
(* What a TCP server promises of the connections it accepts: each is given *)
(* to one worker, which serves it until it is closed.  It never has two    *)
(* owners, never moves from one to another, is not served before it is     *)
(* handed over and not after it was closed; and no descriptor is lost      *)
(* before the server is told to stop.  TcpServer implements this.          *)
(***************************************************************************)
CONSTANTS
  Conns,  \* connections
  Owners, \* workers
  Nobody  \* no worker

VARIABLES
  place,   \* "away", "waiting", "handed", "served", "closed" or "lost", for each connection
  owner,   \* the worker a connection is handed to or served by, or Nobody
  stopping \* the server was told to stop

vars == <<place, owner, stopping>>

Init ==
  /\ place = [c \in Conns |-> "away"]
  /\ owner = [c \in Conns |-> Nobody]
  /\ stopping = FALSE

Move(c, from, to) ==
  /\ place[c] \in from
  /\ place' = [place EXCEPT ![c] = to]
  /\ UNCHANGED stopping

Arrive(c) == Move(c, {"away"}, "waiting") /\ UNCHANGED owner

Hand(c, w) == Move(c, {"waiting"}, "handed") /\ owner' = [owner EXCEPT ![c] = w]

Serve(c) == Move(c, {"handed"}, "served") /\ UNCHANGED owner

Close(c) == Move(c, {"waiting", "handed", "served"}, "closed") /\ owner' = [owner EXCEPT ![c] = Nobody]

Stop == ~stopping /\ stopping' = TRUE /\ UNCHANGED <<place, owner>>

\* The kernel refuses what waits when the listening socket goes, and a worker that
\* ends leaves its connections open with nobody to close them.
Abandon(S) ==
  /\ stopping
  /\ \A c \in S : place[c] \in {"waiting", "handed", "served"}
  /\ place' = [c \in Conns |->
                 IF c \notin S THEN place[c] ELSE IF place[c] = "waiting" THEN "closed" ELSE "lost"]
  /\ owner' = [c \in Conns |-> IF c \in S THEN Nobody ELSE owner[c]]
  /\ UNCHANGED stopping

Next ==
  \/ \E c \in Conns : Arrive(c) \/ Serve(c) \/ Close(c) \/ \E w \in Owners : Hand(c, w)
  \/ Stop
  \/ \E S \in SUBSET Conns : Abandon(S)

Spec == Init /\ [][Next]_vars
=============================================================================
