---------------------------- MODULE DomainResolve ----------------------------
(***************************************************************************)
(* A TCP client that is given a domain name: tcp_client_domain of a loop   *)
(* (exts/domain/tcp_client_domain.h), the helper that drives c-ares from   *)
(* the loop (domain_async_resolve_helper.cpp) and the cache of answers     *)
(* (domain_cache_mgr.cpp).                                                 *)
(*                                                                         *)
(* c-ares owns its sockets and opens and closes them as it likes; once a   *)
(* turn, in an idle callback, the helper asks which there are and brings   *)
(* its registrations into line.  Other code of the same loop opens and     *)
(* registers sockets too, and descriptor numbers are used again.           *)
(***************************************************************************)
EXTENDS Naturals, FiniteSets, Functions

CONSTANTS
  Fds,         \* descriptor numbers
  NameServers, \* how many name servers c-ares knows: 1 or 2
  MaxAsks,     \* bound: questions c-ares sends in a query
  NoFd         \* INVALID_SOCKET

ASSUME DomainAssumption == NoFd \notin Fds /\ NameServers \in 1 .. 2 /\ MaxAsks \in Nat \ {0}

\* The name the client was given, and another the answer may be given under.
Names == {"asked", "canonical"}

VARIABLES
  phase,      \* where the loop is: "turn" (events, timers and tasks) or "idle"
  client,     \* _native_tcp_client is made
  resolve,    \* _resolve: "none", "made" or "deleted"
  slots,      \* the descriptors that _sockio_helper[] have
  fdsNum,     \* _fds_num
  cache,      \* per name: "none", "fresh" or "old" (more than RECORD_TIMEOUT)
  owner,      \* external: whose socket a number is: "free", "ares" or "other"
  registered, \* external: whose helper epoll has for a number: "none", "resolve" or "other"
  talk,       \* external: per socket of c-ares, "waits" or what has arrived
  active,     \* external: c-ares has a query that is not ended
  asks,       \* external: questions sent in it
  asserts,    \* assert is compiled in
  failure,    \* what ended the process, or "none"
  lately,     \* history: numbers c-ares closed since the last look at its sockets
  mishaps     \* history: "reused", a number of lately went to another socket meanwhile;
              \* "renumbered", a new socket of c-ares got a number of lately, or the
              \* number of the socket it has just closed;
              \* "garbled", the helper read a number that c-ares had not given

helperVars == <<slots, fdsNum>>
aresVars == <<talk, active, asks>>
domainVars == <<phase, client, resolve, slots, fdsNum, cache, owner, registered, talk, active, asks, asserts, failure,
          lately, mishaps>>

DomainInit ==
  /\ phase = "turn" /\ client = FALSE /\ resolve = "none"
  /\ slots = {} /\ fdsNum = 0
  /\ cache \in [Names -> {"none", "fresh", "old"}]
  /\ owner = [f \in Fds |-> "free"] /\ registered = [f \in Fds |-> "none"]
  /\ talk = [f \in Fds |-> "none"] /\ active = FALSE /\ asks = 0
  /\ asserts \in BOOLEAN /\ failure = "none"
  /\ lately = {} /\ mishaps = {}

Alive == failure = "none"

FreeNumbers(o) == {f \in Fds : o[f] = "free"}
Sockets(o) == {f \in Fds : o[f] = "ares"}

\* What is left of g when the numbers in S are closed.
Without(g, S, value) == [f \in Fds |-> IF f \in S THEN value ELSE g[f]]

-----------------------------------------------------------------------------
(* The cache                                                               *)

\* ip_by_domain: an old record is erased, a fresh one gives an address.
Hit(n, c) == c[n] = "fresh"
Erased(n, c) == IF c[n] = "old" THEN [c EXCEPT ![n] = "none"] ELSE c

\* Mutant: on_inner_resolve looks up the name that was asked for.
LooksUpAsked(n) == "asked"

\* The name under which on_inner_resolve looks up what it has just stored.
LooksUp(n) == n

\* on_inner_resolve and on_resolve_result of an answer under the name n.
Resolved(n) ==
  /\ cache' = [cache EXCEPT ![n] = "fresh"]
  /\ client' = (client \/ Hit(LooksUp(n), cache'))

-----------------------------------------------------------------------------
(* on_idle_cmp                                                             *)

\* Mutant: a helper that is stopped keeps its descriptor.
KeptSlots(given) == slots \cup given

\* The descriptors the helpers have after the look.
NextSlots(given) == given

\* epoll's registrations r when the helpers of stale numbers have stopped and new ones
\* started: epoll_ctl knows the number only, and adds none that is closed or there.
Relisted(given, r, o) ==
  LET stopped == [f \in Fds |-> IF f \in slots \ given THEN "none" ELSE r[f]]
  IN  [f \in Fds |-> IF f \in given \ slots /\ stopped[f] = "none" /\ o[f] # "free" THEN "resolve" ELSE stopped[f]]

\* ares_getsock gives a bit per socket that can be read, and the helper takes the bits
\* for the number of sockets: 0 or 1 is right, for two it is 3, and a third number is
\* read from the stack.  o, r: owners and registrations when it looks.
Look(o, r, act) ==
  LET ours == IF act THEN Sockets(o) ELSE {}
  IN  /\ lately' = {}
      /\ \/ /\ Cardinality(ours) < 2
            /\ slots' = NextSlots(ours) /\ registered' = Relisted(ours, r, o)
            /\ UNCHANGED <<failure, mishaps>>
            /\ fdsNum' = IF Cardinality(ours) > fdsNum THEN Cardinality(ours) ELSE fdsNum
         \/ /\ Cardinality(ours) = 2
            /\ \E stray \in Fds \cup {NoFd} :
                 LET given == ours \cup ({stray} \ {NoFd})
                 IN  /\ slots' = NextSlots(given) /\ registered' = Relisted(given, r, o)
                     /\ mishaps' = mishaps \cup (IF stray \in ours THEN {} ELSE {"garbled"})
                     \* starting a helper without a descriptor
                     /\ failure' = IF stray = NoFd /\ fdsNum <= 2 /\ asserts THEN "start" ELSE failure
                     /\ fdsNum' = IF fdsNum < 3 /\ stray \notin ours THEN 3 ELSE IF fdsNum < 2 THEN 2 ELSE fdsNum

OnIdle ==
  /\ phase = "idle"
  /\ phase' = "turn"
  /\ \/ fdsNum = 0 /\ UNCHANGED <<helperVars, registered, failure, lately, mishaps>>
     \/ fdsNum > 0 /\ Look(owner, registered, active)
  /\ UNCHANGED <<client, resolve, cache, owner, aresVars, asserts>>

TurnEnds ==
  /\ phase = "turn"
  /\ phase' = "idle"
  /\ UNCHANGED <<client, resolve, helperVars, cache, owner, registered, aresVars, asserts, failure, lately, mishaps>>

-----------------------------------------------------------------------------
(* The application                                                         *)

\* Mutant: start does not look at the sockets.
NoLook(o) == UNCHANGED <<helperVars, registered, failure, lately, mishaps>>

\* Step 3 of start.
FirstLook(o) == Look(o, registered, TRUE)

\* start of the client: from the cache, or by the first query.  A second start asks the
\* cache only.
StartClient ==
  /\ phase = "turn" /\ resolve # "deleted"
  /\ \/ /\ Hit("asked", cache)
        /\ client' = TRUE
        /\ UNCHANGED <<resolve, helperVars, cache, owner, registered, aresVars, failure, lately, mishaps>>
     \/ /\ ~Hit("asked", cache) /\ resolve = "made"
        /\ cache' = Erased("asked", cache)
        /\ UNCHANGED <<client, resolve, helperVars, owner, registered, aresVars, failure, lately, mishaps>>
     \/ /\ ~Hit("asked", cache) /\ resolve = "none"
        /\ resolve' = "made"
        /\ \* c-ares cannot start, or the query ends at once: nothing to listen to
           \/ /\ cache' = Erased("asked", cache)
              /\ UNCHANGED <<client, helperVars, owner, registered, aresVars, failure, lately, mishaps>>
           \/ /\ \E n \in Names : Resolved(n)
              /\ UNCHANGED <<helperVars, owner, registered, aresVars, failure, lately, mishaps>>
           \* the question is sent
           \/ \E f \in FreeNumbers(owner) :
                /\ owner' = [owner EXCEPT ![f] = "ares"]
                /\ talk' = [talk EXCEPT ![f] = "waits"]
                /\ active' = TRUE /\ asks' = 1
                /\ cache' = Erased("asked", cache)
                /\ FirstLook(owner')
                /\ UNCHANGED client
  /\ UNCHANGED <<phase, asserts>>

\* The destructor of the client: c-ares cancels, which closes its sockets, and then the
\* helpers stop.
Destroy ==
  /\ phase = "turn" /\ resolve # "deleted"
  /\ resolve' = "deleted" /\ client' = FALSE
  /\ owner' = Without(owner, Sockets(owner), "free")
  /\ registered' = Without(registered, Sockets(owner) \cup slots, "none")
  /\ talk' = Without(talk, Sockets(owner), "none") /\ active' = FALSE
  /\ slots' = {} /\ fdsNum' = 0
  /\ UNCHANGED <<phase, cache, asks, asserts, failure, lately, mishaps>>

\* Other code of the loop opens a socket and registers it, or closes one.
OtherOpens(f) ==
  /\ phase = "turn" /\ owner[f] = "free"
  /\ owner' = [owner EXCEPT ![f] = "other"]
  /\ registered' = [registered EXCEPT ![f] = "other"]
  /\ mishaps' = mishaps \cup (IF f \in lately THEN {"reused"} ELSE {})
  /\ UNCHANGED <<phase, client, resolve, helperVars, cache, aresVars, asserts, failure, lately>>

OtherCloses(f) ==
  /\ phase = "turn" /\ owner[f] = "other"
  /\ owner' = [owner EXCEPT ![f] = "free"]
  /\ registered' = [registered EXCEPT ![f] = "none"]
  /\ UNCHANGED <<phase, client, resolve, helperVars, cache, aresVars, asserts, failure, lately, mishaps>>

\* Two hours pass; clients of other loops store their answers.
Ages(n) ==
  /\ cache[n] = "fresh"
  /\ cache' = [cache EXCEPT ![n] = "old"]
  /\ UNCHANGED <<phase, client, resolve, helperVars, owner, registered, aresVars, asserts, failure, lately, mishaps>>

OtherStores(n) ==
  /\ cache[n] # "fresh"
  /\ cache' = [cache EXCEPT ![n] = "fresh"]
  /\ UNCHANGED <<phase, client, resolve, helperVars, owner, registered, aresVars, asserts, failure, lately, mishaps>>

-----------------------------------------------------------------------------
(* c-ares and the network                                                  *)

\* What a name server or the network sends back: an answer under either name, a failure
\* that ends the query, a refusal, an ICMP error, or an answer too long for UDP.
Answers == Names \cup {"fails", "refused", "error", "truncated"}

Arrive(f, what) ==
  /\ owner[f] = "ares" /\ talk[f] = "waits"
  /\ talk' = [talk EXCEPT ![f] = what]
  /\ UNCHANGED <<phase, client, resolve, helperVars, cache, owner, registered, active, asks, asserts, failure, lately,
                 mishaps>>

\* The query ends; then c-ares closes its sockets.
QueryEnds ==
  /\ active' = FALSE
  /\ owner' = Without(owner, Sockets(owner), "free")
  /\ registered' = Without(registered, Sockets(owner), "none")
  /\ talk' = Without(talk, Sockets(owner), "none")
  /\ lately' = lately \cup Sockets(owner)
  /\ UNCHANGED asks

\* The question goes to the next server, when f has been read and the sockets in S have
\* been closed: by a socket that is open, or by a new one, which may take a number of S.
AskNext(f, S) ==
  LET o == Without(owner, S, "free")
  IN  /\ asks < MaxAsks /\ asks' = asks + 1
      /\ \E g \in Sockets(o) \cup (IF Cardinality(Sockets(o)) < NameServers THEN FreeNumbers(o) ELSE {}) :
           /\ owner' = [o EXCEPT ![g] = "ares"]
           /\ talk' = [Without(talk, S \cup {f}, "none") EXCEPT ![g] = "waits"]
           /\ lately' = lately \cup (S \ {g})
           /\ mishaps' = mishaps \cup (IF g \in S \cup lately THEN {"renumbered"} ELSE {})
      /\ registered' = Without(registered, S, "none")
      /\ UNCHANGED active

\* on_sockio_read of a helper: ares_process_fd.
Event(f) ==
  /\ phase = "turn" /\ registered[f] = "resolve" /\ owner[f] = "ares" /\ talk[f] \in Answers
  /\ \/ talk[f] \in Names /\ Resolved(talk[f]) /\ QueryEnds /\ UNCHANGED <<failure, mishaps>>
     \* resolve_callback returns without a word
     \/ talk[f] \in Answers \ Names /\ QueryEnds /\ UNCHANGED <<client, cache, failure, mishaps>>
     \/ talk[f] = "refused" /\ AskNext(f, {}) /\ UNCHANGED <<client, cache, failure>>
     \/ talk[f] = "error" /\ AskNext(f, {f}) /\ UNCHANGED <<client, cache, failure>>
     \* a TCP socket waits to be written: its bit makes the number exceed the array
     \/ /\ talk[f] = "truncated" /\ failure' = "getsock"
        /\ UNCHANGED <<client, cache, owner, registered, aresVars, lately, mishaps>>
  /\ UNCHANGED <<phase, resolve, helperVars, asserts>>

-----------------------------------------------------------------------------
DomainNext ==
  /\ Alive
  /\ \/ StartClient \/ Destroy \/ TurnEnds \/ OnIdle
     \/ \E f \in Fds :
          \/ OtherOpens(f) \/ OtherCloses(f) \/ Event(f)
          \/ \E what \in Answers : Arrive(f, what)
     \/ \E n \in Names : Ages(n) \/ OtherStores(n)

DomainSpec == DomainInit /\ [][DomainNext]_domainVars

\* The loop turns, and every turn polls for the events that are due.
DomainFairSpec ==
  /\ DomainSpec
  /\ WF_domainVars(Alive /\ (TurnEnds \/ OnIdle))
  /\ SF_domainVars(Alive /\ \E f \in Fds : Event(f))

-----------------------------------------------------------------------------
(* Properties                                                              *)

DomainTypeOK ==
  /\ phase \in {"turn", "idle"} /\ client \in BOOLEAN /\ resolve \in {"none", "made", "deleted"}
  /\ slots \subseteq Fds /\ fdsNum \in 0 .. 3
  /\ cache \in [Names -> {"none", "fresh", "old"}]
  /\ owner \in [Fds -> {"free", "ares", "other"}]
  /\ registered \in [Fds -> {"none", "resolve", "other"}]
  /\ talk \in [Fds -> {"none", "waits"} \cup Answers]
  /\ active \in BOOLEAN /\ asks \in 0 .. MaxAsks
  /\ asserts \in BOOLEAN /\ failure \in {"none", "start", "getsock"}
  /\ lately \subseteq Fds /\ mishaps \subseteq {"reused", "renumbered", "garbled"}

\* The helper takes no registration from another socket of the loop, as long as no
\* number changes hands within a turn and c-ares has one socket at most
\* (domain_async_resolve_helper.cpp:203-253).
OthersKeepTheirs ==
  \A f \in Fds : owner[f] = "other" /\ registered[f] # "other" => mishaps \cap {"reused", "garbled"} # {}

\* An answer that has come makes the client, under whichever name it is given, unless
\* the helper has lost track of the sockets or the client is destroyed
\* (domain_async_resolve_helper.cpp:109-127).
AnswerMakesClient ==
  (\E f \in Fds : talk[f] \in Names) ~> (client \/ resolve = "deleted" \/ mishaps # {} \/ ~Alive)
=============================================================================
