-------------------------------- MODULE Ares --------------------------------
(* The channel of c-ares (thirdparty/c-ares-master), by which DomainResolve *)
(* asks: lookups of names (ares_gethostbyname, ares_search), the queries    *)
(* they send (ares_send, ares__send_query), the servers and their sockets   *)
(* (ares_process), and ares_cancel.                                         *)
(*                                                                          *)
(* There is one thread, but a call nests: an error of a socket moves every  *)
(* query of its server on, a query that has no server left ends, its        *)
(* callback asks for the next name of its lookup, and that query may fail   *)
(* and end in turn.  stack holds the calls under way, the innermost first,  *)
(* and every action is a piece of the innermost one.                        *)
EXTENDS Naturals, Sequences, FiniteSets

CONSTANTS
  Sizes,    \* pairs of channel->nservers and channel->tries, of which ares_init finds one
  Domains,  \* channel->ndomains
  Searched, \* lookups whose name is completed by the domains
  Lookups,  \* bound: calls of ares_gethostbyname
  Queries   \* bound: struct query's that exist at a time, as numbers

ASSUME AresAssumption ==
  /\ Sizes \subseteq (Nat \ {0}) \X (Nat \ {0})
  /\ Domains \in Nat /\ Searched \subseteq Lookups /\ (Searched # {} => Domains > 0)
  /\ IsFiniteSet(Queries) /\ Queries \subseteq Nat

VARIABLES
  size,   \* the pair of Sizes
  lookup, \* struct host_query and search_query, per lookup
  query,  \* struct query, per number
  server, \* struct server_state, per server
  all,    \* channel->all_queries
  stack,  \* the calls under way
  loose   \* history: the callback of a cancelled query has asked again

vars == <<size, lookup, query, server, all, stack, loose>>

N       == size[1]
Tries   == size[2]
Servers == 0 .. N - 1

\* queries_to_server of a query: a server's list, the list handle_error has taken,
\* or none.
Stolen  == N
Nowhere == N + 1

NoLookup == [started |-> FALSE, next |-> 0, asIs |-> FALSE, triedAsIs |-> FALSE, answers |-> 0]

NoQuery ==
  [live |-> FALSE, lookup |-> "none", server |-> 0, tries |-> 0, tcp |-> FALSE, skip |-> {},
   over |-> {}, armed |-> FALSE, place |-> Nowhere]

\* asked and written are external: the queries that the server may answer, over this UDP
\* socket and this TCP connection.
NewServer ==
  [udp |-> FALSE, tcp |-> FALSE, queue |-> << >>, broken |-> FALSE, asked |-> {}, written |-> {}]

Init ==
  /\ size \in Sizes
  /\ lookup = [l \in Lookups |-> NoLookup]
  /\ query = [q \in Queries |-> NoQuery]
  /\ server = [s \in Servers |-> NewServer]
  /\ all = {} /\ stack = << >> /\ loose = FALSE

-----------------------------------------------------------------------------
(* Servers                                                                  *)

\* ares__close_sockets.  over: the servers over whose present connection a query was sent,
\* of which tcp_connection_generation keeps count.
Closed(v, s) == [v EXCEPT !.over = @ \ {s}]

\* ares__close_sockets of every server, the queries being queries.
CloseAll(queries) ==
  /\ server' = [s \in Servers |-> NewServer]
  /\ query' = [q \in Queries |-> [queries[q] EXCEPT !.over = {}]]

\* A struct send_request points into its query's buffer, or has a copy ("copy"), nothing
\* ("blank"), or what is left of a query that has been freed ("freed").
Theirs(q) == [data |-> "theirs", q |-> q]

\* The requests of q in a queue become data.
Replaced(queue, q, data) == [i \in 1 .. Len(queue) |-> IF queue[i] = Theirs(q) THEN [data |-> data] ELSE queue[i]]

\* Mutant: only a query that is in no list is put into a server's.
SentOnce(v, s) == [v EXCEPT !.armed = TRUE, !.place = IF @ = Nowhere THEN s ELSE @]

\* The last lines of ares__send_query: v is in the lists of its timeout and of s.
Sent(v, s) == [v EXCEPT !.armed = TRUE, !.place = s]

\* skip_server
Skip(v, s) == IF N > 1 THEN [v EXCEPT !.skip = @ \cup {s}] ELSE v

At(s) == {q \in Queries : query[q].live /\ query[q].place = s}

\* Mutant: the queries of the server are left where they are.
CloseOnly(s, rest) ==
  /\ server' = [server EXCEPT ![s] = NewServer]
  /\ query' = [q \in Queries |-> Closed(query[q], s)]
  /\ stack' = rest

\* handle_error, up to its loop: the sockets are closed, the queries at the server taken.
HandleError(s, rest) ==
  /\ server' = [server EXCEPT ![s] = NewServer]
  /\ query' = [q \in Queries |-> [Closed(query[q], s) EXCEPT !.place = IF q \in At(s) THEN Stolen ELSE @]]
  /\ stack' = <<[op |-> "errors", s |-> s, set |-> At(s)]>> \o rest

-----------------------------------------------------------------------------
(* Lookups                                                                  *)

\* The number of the struct query that malloc gives.
Unused == {q \in Queries : ~query[q].live}
New    == CHOOSE q \in Unused : \A p \in Unused : q <= p

\* ares_query and ares_send of lookup l, the lookups being looks; rest: what the caller
\* does then.
Ask(looks, l, rest) ==
  /\ Unused # {}
  /\ lookup' = looks
  /\ query' = [query EXCEPT ![New] = [NoQuery EXCEPT !.live = TRUE, !.lookup = l]]
  /\ all' = all \cup {New}
  /\ stack' = <<[op |-> "send", q |-> New]>> \o rest
  /\ UNCHANGED server

\* ares_search: a name that needs no search, or the name as it is first, or last.
Begun(l) ==
  LET new == [NoLookup EXCEPT !.started = TRUE]
  IN  IF l \in Searched THEN {[new EXCEPT !.asIs = TRUE], [new EXCEPT !.next = 1]}
      ELSE {[new EXCEPT !.next = Domains, !.triedAsIs = TRUE]}

\* ares_gethostbyname of lookup l; the hosts file may know the name.
GetHostByName(looks, l, rest) ==
  /\ ~looks[l].started
  /\ \/ /\ lookup' = [looks EXCEPT ![l].started = TRUE, ![l].answers = 1]
        /\ stack' = rest
        /\ UNCHANGED <<query, server, all>>
     \/ \E v \in Begun(l) : Ask([looks EXCEPT ![l] = v], l, rest)

\* search_callback: there is no such name.
Noted(v)     == [v EXCEPT !.triedAsIs = @ \/ v.asIs]
MoreNames(v) == v.next < Domains \/ ~Noted(v).triedAsIs

NextName(v) ==
  IF v.next < Domains THEN [Noted(v) EXCEPT !.asIs = FALSE, !.next = @ + 1] ELSE [Noted(v) EXCEPT !.asIs = TRUE]

\* end_hquery: the callback of the application, which may begin another lookup.
Answer(l, rest) ==
  LET looks == [lookup EXCEPT ![l] = [NoLookup EXCEPT !.started = TRUE, !.answers = lookup[l].answers + 1]]
  IN  \/ /\ lookup' = looks /\ stack' = rest
         /\ UNCHANGED <<query, server, all>>
      \/ \E m \in Lookups : GetHostByName(looks, m, rest)

-----------------------------------------------------------------------------
(* The calls under way                                                      *)

Idle == stack = << >>
Top  == Head(stack)
Rest == Tail(stack)
In(op) == ~Idle /\ Top.op = op

\* The next server is tried, or q ends.
GoOn(q) == [op |-> "next", q |-> q]

\* ares__send_query
SendQuery ==
  /\ In("send")
  /\ LET q == Top.q
         v == query[q]
         s == v.server
         \* the socket cannot be opened, or written
         Fails == query' = [query EXCEPT ![q] = Skip(v, s)] /\ stack' = <<GoOn(q)>> \o Rest
     IN  \/ v.tcp /\ ~server[s].tcp /\ Fails /\ UNCHANGED server
         \/ /\ v.tcp
            /\ server' = [server EXCEPT ![s].tcp = TRUE, ![s].queue = Append(@, Theirs(q))]
            /\ query' = [query EXCEPT ![q] = Sent([v EXCEPT !.over = @ \cup {s}], s)]
            /\ stack' = Rest
         \/ ~v.tcp /\ ~server[s].udp /\ Fails /\ UNCHANGED server
         \/ ~v.tcp /\ Fails /\ server' = [server EXCEPT ![s].udp = TRUE]
         \/ /\ ~v.tcp
            /\ server' = [server EXCEPT ![s].udp = TRUE, ![s].asked = @ \cup {q}]
            /\ query' = [query EXCEPT ![q] = Sent(v, s)]
            /\ stack' = Rest
  /\ UNCHANGED <<lookup, all, loose, size>>

\* Mutant: the connection is not looked at.
NotSkipped(v, s) == ~server[s].broken /\ s \notin v.skip

\* Whether next_server takes server s for v.
Usable(v, s) ==
  /\ ~server[s].broken
  /\ s \notin v.skip
  /\ ~(v.tcp /\ s \in v.over)

\* next_server: the first of the tries that are left and take a usable server.
NextServer ==
  /\ In("next")
  /\ LET q == Top.q
         v == query[q]
         After(n) == (v.server + n) % N
         good == {n \in 1 .. N * Tries - 1 - v.tries : Usable(v, After(n))}
     IN  \/ /\ good = {}
            /\ stack' = <<[op |-> "end", q |-> q, how |-> "failed"]>> \o Rest
            /\ UNCHANGED query
         \/ \E n \in good :
              /\ \A k \in good : n <= k
              /\ query' = [query EXCEPT ![q].tries = @ + n, ![q].server = After(n)]
              /\ stack' = <<[op |-> "send", q |-> q]>> \o Rest
  /\ UNCHANGED <<lookup, server, all, loose, size>>

\* Mutant: the requests of q stay as they are.
Attached(v, q, how) == v

\* The first part of end_query: requests of q that are still queued are copied after an
\* answer; after an error their connection is given up.
Detached(v, q, how) ==
  [v EXCEPT !.queue  = Replaced(@, q, IF how = "failed" THEN "blank" ELSE "copy"),
            !.broken = @ \/ (how = "failed" /\ \E i \in 1 .. Len(v.queue) : v.queue[i] = Theirs(q))]

EndQuery ==
  /\ In("end")
  /\ server' = [s \in Servers |-> Detached(server[s], Top.q, Top.how)]
  /\ stack' = <<[op |-> "callback", q |-> Top.q, how |-> Top.how], [op |-> "free", q |-> Top.q]>> \o Rest
  /\ UNCHANGED <<lookup, query, all, loose, size>>

\* qcallback, and search_callback or host_callback.
Callback ==
  /\ In("callback")
  /\ LET l == query[Top.q].lookup
     IN  IF Top.how = "missing" /\ MoreNames(lookup[l])
         THEN Ask([lookup EXCEPT ![l] = NextName(lookup[l])], l, Rest)
         ELSE Answer(l, Rest)
  /\ loose' = (loose \/ (Top.how = "cancelled" /\ all' # all))
  /\ UNCHANGED size

\* ares__free_query; what the servers answer to q then is for nobody.
Freed(q) == [query EXCEPT ![q] = NoQuery]
Free(q) ==
  /\ query' = Freed(q)
  /\ server' = [s \in Servers |-> [server[s] EXCEPT !.asked = @ \ {q}, !.written = @ \ {q},
                                                   !.queue = Replaced(@, q, "freed")]]

\* The last part of end_query: without a query no socket stays open.
FreeQuery ==
  /\ In("free")
  /\ IF all = {Top.q} THEN CloseAll(Freed(Top.q)) ELSE Free(Top.q)
  /\ all' = all \ {Top.q}
  /\ stack' = Rest
  /\ UNCHANGED <<lookup, loose, size>>

-----------------------------------------------------------------------------
(* ares_process_fd                                                          *)

\* The loop of handle_error.
ErrorNext ==
  /\ In("errors")
  /\ \/ /\ Top.set = {} /\ stack' = Rest
        /\ UNCHANGED query
     \/ \E q \in Top.set :
          /\ query' = [query EXCEPT ![q] = Skip(query[q], Top.s)]
          /\ stack' = <<GoOn(q), [Top EXCEPT !.set = @ \ {q}]>> \o Rest
  /\ UNCHANGED <<lookup, server, all, loose, size>>

\* A call for a socket, or for the time only.
Process ==
  /\ Idle
  /\ \E first \in {<< >>} \cup {<<[op |-> op, s |-> s]>> : op \in {"write", "tcp", "udp"}, s \in Servers} :
       /\ \A i \in 1 .. Len(first) :
            LET v == server[first[i].s]
            IN  /\ ~v.broken
                /\ IF first[i].op = "udp" THEN v.udp ELSE v.tcp
                /\ first[i].op = "write" => v.queue # << >>
       /\ stack' = first \o <<[op |-> "timeouts"], [op |-> "broken", s |-> 0]>>
  /\ UNCHANGED <<lookup, query, server, all, loose, size>>

\* write_tcp_data: some of the queue is sent, none, or the socket has failed.
WriteTcp ==
  /\ In("write")
  /\ \/ /\ \E n \in 0 .. Len(server[Top.s].queue) :
             server' = [server EXCEPT ![Top.s].queue = SubSeq(@, n + 1, Len(@)),
                                      ![Top.s].written = @ \cup {q \in Queries : \E i \in 1 .. n : server[Top.s].queue[i] = Theirs(q)}]
        /\ stack' = Rest
        /\ UNCHANGED query
     \/ HandleError(Top.s, Rest)
  /\ UNCHANGED <<lookup, all, loose, size>>

\* process_answer: q is the query of the answer of server s.
ProcessAnswer(q, s, tcp, rest) ==
  \/ \E how \in {"found", "missing"} :
       /\ stack' = <<[op |-> "end", q |-> q, how |-> how]>> \o rest
       /\ UNCHANGED query
  \* SERVFAIL, NOTIMP or REFUSED
  \/ /\ query' = [query EXCEPT ![q] = Skip(query[q], s)]
     /\ stack' = IF query[q].server = s THEN <<GoOn(q)>> \o rest ELSE rest
  \* truncated
  \/ /\ ~tcp /\ ~query[q].tcp
     /\ query' = [query EXCEPT ![q].tcp = TRUE]
     /\ stack' = <<[op |-> "send", q |-> q]>> \o rest

\* read_tcp_data: nothing or a part of an answer, an answer, or the end.
ReadTcp ==
  /\ In("tcp")
  /\ \/ stack' = Rest /\ UNCHANGED <<query, server>>
     \/ \E q \in server[Top.s].written : ProcessAnswer(q, Top.s, TRUE, Rest) /\ UNCHANGED server
     \/ HandleError(Top.s, Rest)
  /\ UNCHANGED <<lookup, all, loose, size>>

\* A turn of the loop of read_udp_packets: no more, an answer, or an error.  A socket that
\* the last answer has closed counts as one.
ReadUdp ==
  /\ In("udp")
  /\ \/ server[Top.s].udp /\ stack' = Rest /\ UNCHANGED <<query, server>>
     \/ \E q \in server[Top.s].asked : ProcessAnswer(q, Top.s, FALSE, stack) /\ UNCHANGED server
     \/ HandleError(Top.s, Rest)
  /\ UNCHANGED <<lookup, all, loose, size>>

\* process_timeouts: the time of the queries in due has come.
Timeouts(due) ==
  /\ In("timeouts")
  /\ \A q \in due : query[q].live /\ query[q].armed
  /\ stack' = (IF due = {} THEN << >> ELSE <<[op |-> "due", set |-> due]>>) \o Rest
  /\ UNCHANGED <<lookup, query, server, all, loose, size>>

TimeoutNext ==
  /\ In("due")
  /\ \/ Top.set = {} /\ stack' = Rest
     \/ \E q \in Top.set : stack' = <<GoOn(q), [Top EXCEPT !.set = @ \ {q}]>> \o Rest
  /\ UNCHANGED <<lookup, query, server, all, loose, size>>

\* process_broken_connections
BrokenNext ==
  /\ In("broken")
  /\ LET broken == {s \in Servers : s >= Top.s /\ server[s].broken}
         first  == CHOOSE s \in broken : \A r \in broken : s <= r
     IN  IF broken = {}
         THEN stack' = Rest /\ UNCHANGED <<query, server>>
         ELSE HandleError(first, <<[Top EXCEPT !.s = first + 1]>> \o Rest)
  /\ UNCHANGED <<lookup, all, loose, size>>

-----------------------------------------------------------------------------
(* The application                                                          *)

Start(l) ==
  /\ Idle
  /\ GetHostByName(lookup, l, << >>)
  /\ UNCHANGED <<loose, size>>

\* ares_cancel takes the list of all queries.
Cancel ==
  /\ Idle
  /\ stack' = <<[op |-> "cancel", set |-> all]>>
  /\ all' = {}
  /\ UNCHANGED <<lookup, query, server, loose, size>>

CancelNext ==
  /\ In("cancel")
  /\ \/ /\ Top.set = {} /\ stack' = Rest
        /\ IF all = {} THEN CloseAll(query) ELSE UNCHANGED <<server, query>>
     \/ \E q \in Top.set :
          /\ stack' = <<[op |-> "callback", q |-> q, how |-> "cancelled"], [op |-> "drop", q |-> q],
                        [Top EXCEPT !.set = @ \ {q}]>> \o Rest
          /\ UNCHANGED <<server, query>>
  /\ UNCHANGED <<lookup, all, loose, size>>

DropQuery ==
  /\ In("drop")
  /\ Free(Top.q)
  /\ stack' = Rest
  /\ UNCHANGED <<lookup, all, loose, size>>

-----------------------------------------------------------------------------
\* A request is queued whose query has been freed: what is sent next is undefined.
Dangling == Idle /\ \E s \in Servers : \E i \in 1 .. Len(server[s].queue) : server[s].queue[i].data = "freed"

Next ==
  /\ ~Dangling
  /\ \/ SendQuery \/ NextServer \/ EndQuery \/ Callback \/ FreeQuery
     \/ ErrorNext \/ Process \/ WriteTcp \/ ReadTcp \/ ReadUdp \/ TimeoutNext \/ BrokenNext
     \/ Cancel \/ CancelNext \/ DropQuery
     \/ \E due \in SUBSET Queries : Timeouts(due)
     \/ \E l \in Lookups : Start(l)

Spec == Init /\ [][Next]_vars

-----------------------------------------------------------------------------
TypeOK ==
  /\ size \in Sizes
  /\ lookup \in [Lookups -> [started : BOOLEAN, next : 0 .. Domains, asIs : BOOLEAN, triedAsIs : BOOLEAN, answers : Nat]]
  /\ \A q \in Queries : query[q].server \in Servers /\ query[q].tries \in 0 .. N * Tries - 1
  /\ DOMAIN server = Servers
  /\ all \subseteq {q \in Queries : query[q].live}
  /\ loose \in BOOLEAN

\* No request in a server's queue points into a query that is gone, unless the callback of
\* a cancelled query has asked again: ares_cancel frees what it cancels without end_query.
NoDangling == Dangling => loose

\* No query is queued or sent twice over one TCP connection (next_server compares
\* tcp_connection_generation).
OncePerConnection ==
  \A s \in Servers : LET queue == server[s].queue IN
    \A q \in Queries, i \in 1 .. Len(queue) : queue[i] = Theirs(q) =>
      q \notin server[s].written /\ \A j \in 1 .. i - 1 : queue[j] # Theirs(q)

\* The asserts of handle_error, and what its loop and those of process_timeouts and
\* ares_cancel rely on: the queries they have still to visit exist, those handle_error has
\* taken are at its server, and each has left its list when the next is visited.
ListsExact ==
  \A i \in 1 .. Len(stack) :
    /\ stack[i].op \in {"errors", "due", "cancel"} => \A q \in stack[i].set : query[q].live
    /\ stack[i].op = "errors" => \A q \in stack[i].set : query[q].server = stack[i].s
    /\ stack[i].op = "errors" /\ i = 1 => At(Stolen) = stack[i].set

\* No lookup is lost, and none is answered twice.  Between two calls a lookup that has begun
\* is answered once, or it has one query; the query is in the lists by which a timeout and an
\* error of its server find it, and its request is queued at that server or has been sent
\* over the socket that is still open; and without a query no socket is open.
Settled ==
  Idle =>
    /\ \A l \in Lookups :
         LET mine == {q \in Queries : query[q].live /\ query[q].lookup = l}
         IN  lookup[l].answers + Cardinality(mine) = IF lookup[l].started THEN 1 ELSE 0
    /\ \A q \in Queries : query[q].live =>
         LET v == query[q]
             s == server[v.server]
         IN  /\ q \in all /\ v.armed /\ v.place = v.server
             /\ IF v.tcp THEN s.tcp /\ (q \in s.written \/ \E i \in 1 .. Len(s.queue) : s.queue[i] = Theirs(q))
                ELSE s.udp /\ q \in s.asked
    /\ all = {} => \A s \in Servers : ~server[s].udp /\ ~server[s].tcp
=============================================================================
