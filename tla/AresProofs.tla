------------------------------ MODULE AresProofs ------------------------------
(***************************************************************************)
(* Proofs about Ares, for any numbers of servers, tries, domains, lookups  *)
(* and queries, and, at the end, about DomainResolve, which asks by it.    *)
(*                                                                         *)
(* A call of c-ares goes through states in which little holds: queries are *)
(* in no list, or in that of a server they have left, lookups wait for the *)
(* callback of a query that has ended.  Inv says what holds in them:       *)
(*                                                                         *)
(*   Typed       every field has its type, every call its arguments;       *)
(*   Framed      the calls under way nest by what they do, no two of them  *)
(*               have the same query in hands, and what one has is what it *)
(*               takes it for: so a loop finds the queries it has still to *)
(*               visit as it left them, whatever the callbacks did;        *)
(*   Held        every query that no call has in hands is in the lists of  *)
(*               its timeout and server, and waits at an open socket;      *)
(*   Known       a query knows the connections it is queued at or was sent *)
(*               over, so next_server can avoid them;                      *)
(*   Cancelling  a request is left behind by ares_cancel only, which       *)
(*               closes the sockets when it ends;                          *)
(*   Answering   a lookup that has begun is answered or has one query,     *)
(*               those whose callback has been called not counted;         *)
(*   Quiet       without a query no socket is open.                        *)
(*                                                                         *)
(* The properties of Ares are Inv between two calls, or parts of it.       *)
(***************************************************************************)
EXTENDS Ares, DomainResolve, FiniteSetTheorems, SequenceTheorems, WellFoundedInduction, TLAPS

-----------------------------------------------------------------------------
(* Types                                                                    *)

Calls ==
  [op : {"send", "next", "free", "drop"}, q : Queries]
    \cup [op : {"end"}, q : Queries, how : {"found", "missing", "failed"}]
    \cup [op : {"callback"}, q : Queries, how : {"found", "missing", "failed", "cancelled"}]
    \cup [op : {"errors"}, s : Servers, set : SUBSET Queries]
    \cup [op : {"due", "cancel"}, set : SUBSET Queries]
    \cup [op : {"write", "tcp", "udp"}, s : Servers]
    \cup [op : {"timeouts"}]
    \cup [op : {"broken"}, s : Nat]

LookupType ==
  [started : BOOLEAN, next : 0 .. Domains, asIs : BOOLEAN, triedAsIs : BOOLEAN, answers : Nat]

QueryType ==
  [live : BOOLEAN, lookup : Lookups \cup {"none"}, server : Servers, tries : 0 .. N * Tries - 1, tcp : BOOLEAN,
   skip : SUBSET Servers, over : SUBSET Servers, armed : BOOLEAN, place : 0 .. N + 1]

Requests == [data : {"theirs"}, q : Queries] \cup [data : {"copy", "blank", "freed"}]

ServerType ==
  [udp : BOOLEAN, tcp : BOOLEAN, queue : Seq(Requests), broken : BOOLEAN, asked : SUBSET Queries,
   written : SUBSET Queries]

Typed ==
  /\ size \in Sizes
  /\ lookup \in [Lookups -> LookupType]
  /\ query \in [Queries -> QueryType]
  /\ server \in [Servers -> ServerType]
  /\ all \subseteq Queries
  /\ stack \in Seq(Calls)
  /\ loose \in BOOLEAN

Live == {q \in Queries : query[q].live}

-----------------------------------------------------------------------------
(* The calls under way                                                      *)

Frames(s) == {s[i] : i \in 1 .. Len(s)}

Active  == {"send", "next", "end", "callback"}
Ending  == {"free", "drop"}
Visits  == {"errors", "due", "cancel"}
Streams == {"write", "tcp", "udp"}

\* How far out a call is.
Rank(f) ==
  CASE f.op \in Active -> 0
    [] f.op \in Ending -> 1
    [] f.op \in Visits -> 2
    [] f.op \in Streams -> 3
    [] f.op = "timeouts" -> 4
    [] OTHER -> 5

\* The queries a call has in its hands.
Claim(f) ==
  CASE f.op \in {"send", "next", "end"} \cup Ending -> {f.q}
    [] f.op \in Visits -> f.set
    [] OTHER -> {}

Claimed(s) == UNION {Claim(f) : f \in Frames(s)}

\* Only the calls that free queries nest, and no two have the same query.
Above(f, g) == Rank(f) <= Rank(g) /\ (Rank(f) = Rank(g) => Rank(f) = 1) /\ Claim(f) \cap Claim(g) = {}

Nested(s) == \A i, j \in 1 .. Len(s) : i < j => Above(s[i], s[j])

-----------------------------------------------------------------------------
LEMMA NoFrames == Frames(<< >>) = {} /\ Nested(<< >>) /\ Claimed(<< >>) = {} /\ << >> \in Seq(Calls)
<1>1. Len(<< >>) = 0 /\ << >> \in Seq(Calls)
  BY EmptySeq
<1>2. Frames(<< >>) = {}
  BY <1>1 DEF Frames
<1> QED
  BY <1>1, <1>2 DEF Nested, Claimed

\* The innermost call, and the others.
LEMMA Innermost ==
  ASSUME NEW s \in Seq(Calls), s # << >>
  PROVE  /\ Head(s) \in Calls /\ Tail(s) \in Seq(Calls)
         /\ Frames(s) = {Head(s)} \cup Frames(Tail(s))
         /\ Nested(s) => Nested(Tail(s)) /\ \A g \in Frames(Tail(s)) : Above(Head(s), g)
         /\ Claimed(s) = Claim(Head(s)) \cup Claimed(Tail(s))
<1>1. /\ Head(s) \in Calls /\ Tail(s) \in Seq(Calls) /\ Len(Tail(s)) = Len(s) - 1
      /\ \A i \in 1 .. Len(Tail(s)) : Tail(s)[i] = s[i + 1]
  BY HeadTailProperties
<1>2. Len(s) \in Nat /\ Len(s) >= 1 /\ Head(s) = s[1]
  BY EmptySeq
<1>3. Frames(s) = {Head(s)} \cup Frames(Tail(s))
  <2>1. ASSUME NEW i \in 1 .. Len(s), i # 1
        PROVE  s[i] \in Frames(Tail(s))
    <3>1. i - 1 \in 1 .. Len(Tail(s)) /\ Tail(s)[i - 1] = s[(i - 1) + 1]
      BY <1>1, <1>2, <2>1
    <3>2. (i - 1) + 1 = i
      OBVIOUS
    <3> QED
      BY <3>1, <3>2 DEF Frames
  <2>2. ASSUME NEW i \in 1 .. Len(Tail(s))
        PROVE  Tail(s)[i] \in Frames(s)
    <3>1. i + 1 \in 1 .. Len(s) /\ Tail(s)[i] = s[i + 1]
      BY <1>1, <1>2
    <3> QED
      BY <3>1 DEF Frames
  <2>3. s[1] \in Frames(s)
    BY <1>2 DEF Frames
  <2> QED
    BY <1>2, <2>1, <2>2, <2>3 DEF Frames
<1>4. ASSUME Nested(s)
      PROVE  Nested(Tail(s)) /\ \A g \in Frames(Tail(s)) : Above(Head(s), g)
  <2>1. ASSUME NEW i \in 1 .. Len(Tail(s)), NEW j \in 1 .. Len(Tail(s)), i < j
        PROVE  Above(Tail(s)[i], Tail(s)[j])
    <3>1. /\ i + 1 \in 1 .. Len(s) /\ j + 1 \in 1 .. Len(s) /\ i + 1 < j + 1
          /\ Tail(s)[i] = s[i + 1] /\ Tail(s)[j] = s[j + 1]
      BY <1>1, <1>2, <2>1
    <3> QED
      BY <1>4, <3>1 DEF Nested
  <2>2. ASSUME NEW i \in 1 .. Len(Tail(s))
        PROVE  Above(Head(s), Tail(s)[i])
    <3>1. 1 \in 1 .. Len(s) /\ i + 1 \in 1 .. Len(s) /\ 1 < i + 1 /\ Tail(s)[i] = s[i + 1]
      BY <1>1, <1>2
    <3> QED
      BY <1>2, <1>4, <3>1 DEF Nested
  <2> QED
    BY <2>1, <2>2 DEF Nested, Frames
<1>5. Claimed(s) = Claim(Head(s)) \cup Claimed(Tail(s))
  BY <1>3 DEF Claimed
<1> QED
  BY <1>1, <1>3, <1>4, <1>5

LEMMA Push ==
  ASSUME NEW s \in Seq(Calls), NEW f \in Calls
  PROVE  /\ <<f>> \o s \in Seq(Calls)
         /\ Frames(<<f>> \o s) = {f} \cup Frames(s)
         /\ Nested(s) /\ (\A g \in Frames(s) : Above(f, g)) => Nested(<<f>> \o s)
         /\ Claimed(<<f>> \o s) = Claim(f) \cup Claimed(s)
         /\ <<f>> \o s # << >> /\ Head(<<f>> \o s) = f /\ Tail(<<f>> \o s) = s
<1> DEFINE t == <<f>> \o s
<1>1. <<f>> \in Seq(Calls) /\ Len(<<f>>) = 1 /\ <<f>>[1] = f
  OBVIOUS
<1>2. t \in Seq(Calls) /\ Len(t) = 1 + Len(s) /\ \A i \in 1 .. Len(t) : t[i] = IF i <= 1 THEN <<f>>[i] ELSE s[i - 1]
  BY <1>1, ConcatProperties
<1>3. Len(s) \in Nat
  BY LenProperties
<1>4. t # << >> /\ Head(t) = f
  BY <1>1, <1>2, <1>3, EmptySeq
<1>5. Tail(t) = s
  BY <1>1, <1>2, <1>3, <1>4, HeadTailProperties, SeqEqual
<1>6. ASSUME Nested(s), \A g \in Frames(s) : Above(f, g)
      PROVE  Nested(t)
  <2> SUFFICES ASSUME NEW i \in 1 .. Len(t), NEW j \in 1 .. Len(t), i < j
               PROVE  Above(t[i], t[j])
    BY DEF Nested
  <2>1. j - 1 \in 1 .. Len(s) /\ t[j] = s[j - 1]
    BY <1>2, <1>3
  <2>2. CASE i = 1
    <3>1. t[i] = f
      BY <1>1, <1>2, <2>2
    <3> QED
      BY <1>6, <2>1, <3>1 DEF Frames
  <2>3. CASE i # 1
    <3>1. i - 1 \in 1 .. Len(s) /\ i - 1 < j - 1 /\ t[i] = s[i - 1]
      BY <1>2, <1>3, <2>3
    <3> QED
      BY <1>6, <2>1, <3>1 DEF Nested
  <2> QED
    BY <2>2, <2>3
<1> HIDE DEF t
<1>7. Frames(t) = {f} \cup Frames(s) /\ Claimed(t) = Claim(f) \cup Claimed(s)
  BY <1>2, <1>4, <1>5, Innermost
<1> QED
  BY <1>2, <1>4, <1>5, <1>6, <1>7 DEF t

-----------------------------------------------------------------------------
(* The invariant                                                            *)

Queued(q, s) == \E i \in 1 .. Len(server[s].queue) : server[s].queue[i] = Theirs(q)

\* What each call relies on.
Good(f) ==
  /\ f.op \in {"send", "next", "end", "free"} => f.q \in all
  /\ f.op = "drop" => f.q \in Live \ all
  /\ f.op \in {"errors", "due"} => f.set \subseteq all
  /\ f.op = "cancel" => f.set \subseteq Live \ all
  /\ f.op = "errors" => \A q \in f.set : query[q].server = f.s /\ query[q].place = Stolen
  /\ f.op = "free" => \A s \in Servers : ~Queued(f.q, s)
  /\ f.op = "send" => ~(query[f.q].tcp /\ query[f.q].server \in query[f.q].over)
  /\ f.op = "callback" =>
       \E g \in Frames(stack) : g.op = (IF f.how = "cancelled" THEN "drop" ELSE "free") /\ g.q = f.q

Framed == Nested(stack) /\ (\A f \in Frames(stack) : Good(f)) /\ all \subseteq Live

\* A query that nobody has in hands waits for its answer.
Sits(q) ==
  LET v == query[q]
      s == server[v.server]
  IN  /\ q \in all /\ v.armed /\ v.place = v.server
      /\ IF v.tcp THEN s.tcp /\ (q \in s.written \/ Queued(q, v.server)) ELSE s.udp /\ q \in s.asked

Held == \A q \in Live \ Claimed(stack) : Sits(q)

\* What is asked over a connection is known by the query.
Known ==
  /\ OncePerConnection
  /\ \A s \in Servers, q \in Queries : q \in server[s].written \/ Queued(q, s) => s \in query[q].over
  /\ \A q \in Queries : ~query[q].tcp => query[q].over = {}
  /\ \A s \in Servers : server[s].asked \cup server[s].written \subseteq Live
  /\ \A q \in Queries \ Live : query[q].over = {} /\ ~query[q].tcp

Has(op) == \E f \in Frames(stack) : f.op = op

Freeds == \E s \in Servers : \E i \in 1 .. Len(server[s].queue) : server[s].queue[i].data = "freed"

\* What ares_cancel leaves, it closes at its end, unless a callback has asked again.
Cancelling ==
  /\ Has("drop") => Has("cancel")
  /\ Has("cancel") /\ ~loose => all = {}
  /\ Freeds => loose \/ Has("cancel")

\* The queries that end and whose callback has been called.
Ended ==
  {q \in Queries : /\ \E f \in Frames(stack) : f.op \in Ending /\ f.q = q
                   /\ ~\E f \in Frames(stack) : f.op = "callback" /\ f.q = q}

Pending(l) == {q \in Live \ Ended : query[q].lookup = l}

\* A lookup that has begun is answered, or has one query.
Answering ==
  /\ \A q \in Live : query[q].lookup \in Lookups
  /\ \A l \in Lookups :
       /\ \A p, q \in Pending(l) : p = q
       /\ lookup[l].answers \in {0, 1}
       /\ lookup[l].started <=> lookup[l].answers = 1 \/ Pending(l) # {}
       /\ lookup[l].answers = 1 => Pending(l) = {}

\* Without a query no socket is open, but while ares_cancel goes on.
Quiet == all = {} => Has("cancel") \/ \A s \in Servers : ~server[s].udp /\ ~server[s].tcp

\* The inductive invariant.
Inv == Typed /\ Framed /\ Held /\ Known /\ Cancelling /\ Answering /\ Quiet

-----------------------------------------------------------------------------
LEMMA SizeIs == ASSUME size \in Sizes PROVE N \in Nat \ {0} /\ Tries \in Nat \ {0} /\ N * Tries \in Nat \ {0}
<1>1. N \in Nat \ {0} /\ Tries \in Nat \ {0}
  BY AresAssumption DEF N, Tries
<1>2. \A m, n \in Nat \ {0} : m * n \in Nat \ {0}
  OBVIOUS
<1> QED
  BY <1>1, <1>2

\* What of a query its lookup, its server and its lists go by.
Alike(w, v) == w.live = v.live /\ w.lookup = v.lookup /\ w.server = v.server /\ w.tcp = v.tcp
Listed(w, v) == w.armed = v.armed /\ w.place = v.place

LEMMA SkipType ==
  ASSUME Typed, NEW v \in QueryType, NEW s \in Servers
  PROVE  Skip(v, s) \in QueryType /\ Alike(Skip(v, s), v) /\ Listed(Skip(v, s), v) /\ Skip(v, s).over = v.over
BY DEF Skip, QueryType, Alike, Listed

LEMMA SentType ==
  ASSUME Typed, NEW v \in QueryType, NEW s \in Servers
  PROVE  /\ Sent(v, s) \in QueryType /\ Alike(Sent(v, s), v) /\ Sent(v, s).over = v.over
         /\ Sent(v, s).armed = TRUE /\ Sent(v, s).place = s
<1>1. s \in 0 .. N + 1
  BY SizeIs DEF Typed, Servers
<1> QED
  BY <1>1 DEF Sent, QueryType, Alike

\* A query that is sent over a connection.
Overt(v, s) == [v EXCEPT !.over = @ \cup {s}]

LEMMA OvertType ==
  ASSUME NEW v \in QueryType, NEW s \in Servers
  PROVE  Overt(v, s) \in QueryType /\ Alike(Overt(v, s), v) /\ Overt(v, s).over = v.over \cup {s}
BY DEF QueryType, Overt, Alike

\* A server whose UDP socket is opened, one that is asked over it, one that gets a request.
Opened(w) == [w EXCEPT !.udp = TRUE]
Heard(w, q) == [w EXCEPT !.udp = TRUE, !.asked = @ \cup {q}]
Given(w, q) == [w EXCEPT !.tcp = TRUE, !.queue = Append(@, Theirs(q))]

LEMMA OpenedType ==
  ASSUME NEW w \in ServerType
  PROVE  /\ Opened(w) \in ServerType /\ Opened(w).udp = TRUE /\ Opened(w).tcp = w.tcp /\ Opened(w).queue = w.queue
         /\ Opened(w).asked = w.asked /\ Opened(w).written = w.written
BY DEF ServerType, Opened

LEMMA HeardType ==
  ASSUME NEW w \in ServerType, NEW q \in Queries
  PROVE  /\ Heard(w, q) \in ServerType /\ Heard(w, q).udp = TRUE /\ Heard(w, q).tcp = w.tcp
         /\ Heard(w, q).queue = w.queue
         /\ Heard(w, q).asked = w.asked \cup {q} /\ Heard(w, q).written = w.written
BY DEF ServerType, Heard

LEMMA GivenType ==
  ASSUME NEW w \in ServerType, NEW q \in Queries
  PROVE  /\ Given(w, q) \in ServerType /\ Given(w, q).udp = w.udp /\ Given(w, q).tcp = TRUE
         /\ Given(w, q).queue = Append(w.queue, Theirs(q))
         /\ Given(w, q).asked = w.asked /\ Given(w, q).written = w.written
<1>1. Theirs(q) \in Requests
  BY DEF Theirs, Requests
<1>2. w.queue \in Seq(Requests)
  BY DEF ServerType
<1>3. Append(w.queue, Theirs(q)) \in Seq(Requests)
  BY <1>1, <1>2, AppendProperties
<1> QED
  BY <1>3 DEF ServerType, Given

-----------------------------------------------------------------------------
(* What the steps have in common                                            *)

LEMMA CallFields ==
  ASSUME NEW f \in Calls
  PROVE  /\ f.op \in Active \cup Ending \cup Visits \cup Streams \cup {"timeouts", "broken"}
         /\ f.op \in Active \cup Ending => f.q \in Queries
         /\ f.op \in Visits => f.set \subseteq Queries
         /\ f.op \in Streams \cup {"errors"} => f.s \in Servers
         /\ f.op = "broken" => f.s \in Nat
         /\ Rank(f) \in Nat
         /\ f.op \in Active <=> Rank(f) = 0
         /\ f.op \in Ending <=> Rank(f) = 1
         /\ f.op \in Visits <=> Rank(f) = 2
BY DEF Calls, Active, Ending, Visits, Streams, Rank

LEMMA Popped ==
  ASSUME Typed, Framed, ~Idle
  PROVE  /\ Top \in Calls /\ Rest \in Seq(Calls) /\ Nested(Rest)
         /\ Frames(stack) = {Top} \cup Frames(Rest)
         /\ Claimed(stack) = Claim(Top) \cup Claimed(Rest) /\ Claim(Top) \cap Claimed(Rest) = {}
         /\ Good(Top)
         /\ \A g \in Frames(Rest) : g \in Calls /\ Good(g) /\ Above(Top, g) /\ g.op \notin Active
<1>1. stack \in Seq(Calls) /\ stack # << >>
  BY DEF Typed, Idle
<1>2. /\ Top \in Calls /\ Rest \in Seq(Calls) /\ Nested(Rest)
      /\ Frames(stack) = {Top} \cup Frames(Rest)
      /\ \A g \in Frames(Rest) : Above(Top, g)
      /\ Claimed(stack) = Claim(Top) \cup Claimed(Rest)
  BY <1>1, Innermost DEF Framed, Top, Rest
<1>3. ASSUME NEW g \in Frames(Rest)
      PROVE  g \in Calls /\ Good(g) /\ g.op \notin Active
  <2>1. g \in Calls
    BY <1>2, ElementOfSeq DEF Frames
  <2>2. Rank(g) # 0
    BY <1>2, <2>1, CallFields DEF Above
  <2> QED
    BY <1>2, <2>1, <2>2, CallFields DEF Framed
<1>4. Claim(Top) \cap Claimed(Rest) = {}
  BY <1>2 DEF Claimed, Above
<1> QED
  BY <1>2, <1>3, <1>4 DEF Framed

LEMMA PushTwo ==
  ASSUME NEW S, NEW s \in Seq(S), NEW f \in S, NEW g \in S
  PROVE  <<f, g>> \in Seq(S) /\ <<f, g>> \o s = <<f>> \o (<<g>> \o s)
<1>1. /\ <<f>> \in Seq(S) /\ Len(<<f>>) = 1 /\ <<f>>[1] = f
      /\ <<g>> \in Seq(S) /\ Len(<<g>>) = 1 /\ <<g>>[1] = g
      /\ <<f, g>> \in Seq(S) /\ Len(<<f, g>>) = 2 /\ <<f, g>>[1] = f /\ <<f, g>>[2] = g
  OBVIOUS
<1>2. PICK t \in Seq(S) : t = <<f>> \o <<g>>
  BY <1>1, ConcatProperties
<1>3. Len(t) = 2 /\ t[1] = f /\ t[2] = g
  BY <1>1, <1>2, ConcatProperties
<1>4. t = <<f, g>>
  BY <1>1, <1>3, SeqEqual
<1>5. (<<f>> \o <<g>>) \o s = <<f>> \o (<<g>> \o s)
  BY <1>1, ConcatAssociative
<1> QED
  BY <1>1, <1>2, <1>4, <1>5

One(f, s) == <<f>> \o s
Three(f, g, h, s) == <<f, g, h>> \o s

LEMMA PushThree ==
  ASSUME NEW s \in Seq(Calls), NEW f \in Calls, NEW g \in Calls, NEW h \in Calls
  PROVE  Three(f, g, h, s) = One(f, One(g, One(h, s)))
<1>1. /\ <<f>> \in Seq(Calls) /\ Len(<<f>>) = 1 /\ <<f>>[1] = f
      /\ <<g, h>> \in Seq(Calls) /\ Len(<<g, h>>) = 2 /\ <<g, h>>[1] = g /\ <<g, h>>[2] = h
      /\ <<f, g, h>> \in Seq(Calls) /\ Len(<<f, g, h>>) = 3
      /\ <<f, g, h>>[1] = f /\ <<f, g, h>>[2] = g /\ <<f, g, h>>[3] = h
  OBVIOUS
<1>2. PICK t \in Seq(Calls) : t = <<f>> \o <<g, h>>
  BY <1>1, ConcatProperties
<1>3. Len(t) = 3 /\ t[1] = f /\ t[2] = g /\ t[3] = h
  BY <1>1, <1>2, ConcatProperties
<1>4. t = <<f, g, h>>
  BY <1>1, <1>3, SeqEqual
<1>5. (<<f>> \o <<g, h>>) \o s = <<f>> \o (<<g, h>> \o s)
  BY <1>1, ConcatAssociative
<1>6. <<g, h>> \o s = <<g>> \o (<<h>> \o s)
  BY PushTwo
<1> QED
  BY <1>2, <1>4, <1>5, <1>6 DEF One, Three

\* What a step leaves of query p, for the calls that have it in hands and for its lookup.
Same(p) ==
  /\ query'[p].live = query[p].live /\ query'[p].lookup = query[p].lookup /\ query'[p].server = query[p].server
  /\ query'[p].tcp = query[p].tcp /\ query'[p].armed = query[p].armed /\ query'[p].place = query[p].place
  /\ p \in all' <=> p \in all

LEMMA KeepsGood ==
  ASSUME NEW g \in Calls, Good(g), g.op \notin Active, size' = size,
         \A p \in Claim(g) : Same(p) /\ \A s \in Servers : Queued(p, s)' => Queued(p, s)
  PROVE  Good(g)'
<1>1. Stolen' = Stolen /\ Servers' = Servers
  BY DEF Stolen, Servers, N
<1>2. \A p \in Claim(g) : (p \in Live' <=> p \in Live) /\ (p \in all' <=> p \in all)
  BY DEF Same, Live
<1>3. CASE g.op = "errors"
  <2>1. Claim(g) = g.set
    BY <1>3 DEF Claim, Visits, Ending
  <2> QED
    BY <1>1, <1>2, <1>3, <2>1 DEF Good, Same
<1>4. CASE g.op \in {"due", "cancel"}
  <2>1. Claim(g) = g.set
    BY <1>4 DEF Claim, Visits, Ending
  <2> QED
    BY <1>2, <1>4, <2>1 DEF Good
<1>5. CASE g.op \in Ending
  <2>1. Claim(g) = {g.q}
    BY <1>5 DEF Claim, Ending, Visits
  <2> QED
    BY <1>1, <1>2, <1>5, <2>1 DEF Good, Ending
<1>6. CASE g.op \notin Ending \cup Visits
  BY <1>6 DEF Good, Ending, Visits, Active
<1> QED
  BY <1>3, <1>4, <1>5, <1>6 DEF Visits

LEMMA KeepsSits ==
  ASSUME NEW p \in Queries, NEW s \in Servers, Sits(p), Same(p), s = query[p].server,
         server[s].tcp => server'[s].tcp, server[s].udp => server'[s].udp,
         p \in server[s].asked => p \in server'[s].asked,
         p \in server[s].written \/ Queued(p, s) => p \in server'[s].written \/ Queued(p, s)'
  PROVE  Sits(p)'
BY DEF Sits, Same

LEMMA RestKeeps ==
  ASSUME Typed, Framed, ~Idle, size' = size,
         \A p \in Claimed(Rest) : Same(p) /\ \A s \in Servers : Queued(p, s)' => Queued(p, s)
  PROVE  \A g \in Frames(Rest) : Good(g)'
<1> SUFFICES ASSUME NEW g \in Frames(Rest)
             PROVE  Good(g)'
  OBVIOUS
<1>1. g \in Calls /\ Good(g) /\ g.op \notin Active
  BY Popped
<1>2. \A p \in Claim(g) : p \in Claimed(Rest)
  BY DEF Claimed
<1> QED
  BY <1>1, <1>2, KeepsGood

\* Nothing changes for a lookup as long as no callback is called.
LEMMA KeepsAnswering ==
  ASSUME Answering, lookup' = lookup, (Live \ Ended)' = Live \ Ended, Live' \subseteq Live,
         \A q \in Live' \cup (Live \ Ended) : query'[q].lookup = query[q].lookup
  PROVE  Answering'
<1>1. \A l \in Lookups : Pending(l)' = Pending(l)
  BY DEF Pending
<1> HIDE DEF Pending
<1> QED
  BY <1>1 DEF Answering

LEMMA SameEnded ==
  ASSUME \A f : f.op \in Ending \cup {"callback"} => (f \in Frames(stack') <=> f \in Frames(stack))
  PROVE  Ended' = Ended
BY DEF Ended

-----------------------------------------------------------------------------
(* ares__send_query                                                         *)

LEMMA SendCases ==
  ASSUME Typed, SendQuery, NEW q \in Queries, NEW s \in Servers, q = Top.q, s = query[q].server
  PROVE  \/ /\ stack' = <<GoOn(q)>> \o Rest
            /\ query' = [query EXCEPT ![q] = Skip(query[q], s)]
            /\ server' = server \/ server' = [server EXCEPT ![s] = Opened(server[s])]
         \/ /\ stack' = Rest /\ ~query[q].tcp
            /\ query' = [query EXCEPT ![q] = Sent(query[q], s)]
            /\ server' = [server EXCEPT ![s] = Heard(server[s], q)]
         \/ /\ stack' = Rest /\ query[q].tcp
            /\ query' = [query EXCEPT ![q] = Sent(Overt(query[q], s), s)]
            /\ server' = [server EXCEPT ![s] = Given(server[s], q)]
<1>1. query \in [Queries -> QueryType] /\ server \in [Servers -> ServerType]
  BY DEF Typed
<1>2. server[s] \in ServerType /\ query[q] \in QueryType
  BY <1>1
<1>3. [server EXCEPT ![s].udp = TRUE] = [server EXCEPT ![s] = Opened(server[s])]
  BY <1>1 DEF Opened
<1>4. [server EXCEPT ![s].udp = TRUE, ![s].asked = @ \cup {q}] = [server EXCEPT ![s] = Heard(server[s], q)]
  BY <1>1, <1>2 DEF ServerType, Heard
<1>5. [server EXCEPT ![s].tcp = TRUE, ![s].queue = Append(@, Theirs(q))] = [server EXCEPT ![s] = Given(server[s], q)]
  BY <1>1, <1>2 DEF ServerType, Given
<1>6. \/ /\ stack' = <<GoOn(q)>> \o Rest
         /\ query' = [query EXCEPT ![q] = Skip(query[q], s)]
         /\ server' = server \/ server' = [server EXCEPT ![s].udp = TRUE]
      \/ /\ stack' = Rest /\ ~query[q].tcp
         /\ query' = [query EXCEPT ![q] = Sent(query[q], s)]
         /\ server' = [server EXCEPT ![s].udp = TRUE, ![s].asked = @ \cup {q}]
      \/ /\ stack' = Rest /\ query[q].tcp
         /\ query' = [query EXCEPT ![q] = Sent([query[q] EXCEPT !.over = @ \cup {s}], s)]
         /\ server' = [server EXCEPT ![s].tcp = TRUE, ![s].queue = Append(@, Theirs(q))]
  BY Zenon DEF SendQuery
<1>7. [query[q] EXCEPT !.over = @ \cup {s}] = Overt(query[q], s)
  BY Zenon DEF Overt
<1> QED
  BY <1>3, <1>4, <1>5, <1>6, <1>7, Zenon

\* The ways ares__send_query ends: not at all, over UDP, over TCP.
SentNot(q, s) ==
  /\ stack' = <<GoOn(q)>> \o Rest
  /\ server'[s].queue = server[s].queue /\ server'[s].asked = server[s].asked
  /\ Listed(query'[q], query[q]) /\ query'[q].over = query[q].over

SentUdp(q, s) ==
  /\ stack' = Rest /\ ~query[q].tcp /\ server'[s].udp = TRUE
  /\ server'[s].queue = server[s].queue /\ server'[s].asked = server[s].asked \cup {q}
  /\ query'[q].over = query[q].over /\ query'[q].armed = TRUE /\ query'[q].place = s

SentTcp(q, s) ==
  /\ stack' = Rest /\ query[q].tcp /\ server'[s].tcp = TRUE
  /\ server'[s].queue = Append(server[s].queue, Theirs(q)) /\ server'[s].asked = server[s].asked
  /\ query'[q].over = query[q].over \cup {s} /\ query'[q].armed = TRUE /\ query'[q].place = s

LEMMA SendFacts ==
  ASSUME Typed, SendQuery, NEW q \in Queries, NEW s \in Servers, q = Top.q, s = query[q].server
  PROVE  /\ query' \in [Queries -> QueryType] /\ server' \in [Servers -> ServerType]
         /\ UNCHANGED <<lookup, all, loose, size>>
         /\ \A p \in Queries \ {q} : query'[p] = query[p]
         /\ \A r \in Servers \ {s} : server'[r] = server[r]
         /\ Alike(query'[q], query[q])
         /\ server'[s].written = server[s].written
         /\ server[s].tcp => server'[s].tcp
         /\ server[s].udp => server'[s].udp
         /\ SentNot(q, s) \/ SentUdp(q, s) \/ SentTcp(q, s)
<1>1. query \in [Queries -> QueryType] /\ server \in [Servers -> ServerType]
  BY DEF Typed
<1>2. query[q] \in QueryType /\ server[s] \in ServerType
  BY <1>1
<1>3. UNCHANGED <<lookup, all, loose, size>>
  BY DEF SendQuery
<1>4. CASE /\ stack' = <<GoOn(q)>> \o Rest
           /\ query' = [query EXCEPT ![q] = Skip(query[q], s)]
           /\ server' = server \/ server' = [server EXCEPT ![s] = Opened(server[s])]
  <2>1. /\ Skip(query[q], s) \in QueryType /\ Alike(Skip(query[q], s), query[q])
        /\ Listed(Skip(query[q], s), query[q])
        /\ Skip(query[q], s).over = query[q].over
    BY <1>2, SkipType
  <2>2. query' \in [Queries -> QueryType] /\ query'[q] = Skip(query[q], s)
          /\ \A p \in Queries \ {q} : query'[p] = query[p]
    BY <1>1, <1>4, <2>1
  <2>3. CASE server' = server
    BY <1>1, <1>3, <1>4, <2>1, <2>2, <2>3 DEF SentNot
  <2>4. CASE server' = [server EXCEPT ![s] = Opened(server[s])]
    <3>1. /\ Opened(server[s]) \in ServerType /\ Opened(server[s]).udp = TRUE /\ Opened(server[s]).tcp = server[s].tcp
          /\ Opened(server[s]).queue = server[s].queue /\ Opened(server[s]).asked = server[s].asked
          /\ Opened(server[s]).written = server[s].written
      BY <1>2, OpenedType
    <3>2. /\ server' \in [Servers -> ServerType] /\ server'[s] = Opened(server[s])
          /\ \A r \in Servers \ {s} : server'[r] = server[r]
      BY <1>1, <2>4, <3>1
    <3> QED
      BY <1>3, <1>4, <2>1, <2>2, <3>1, <3>2 DEF SentNot
  <2> QED
    BY <1>4, <2>3, <2>4
<1>5. CASE /\ stack' = Rest /\ ~query[q].tcp
           /\ query' = [query EXCEPT ![q] = Sent(query[q], s)]
           /\ server' = [server EXCEPT ![s] = Heard(server[s], q)]
  <2>1. /\ Sent(query[q], s) \in QueryType /\ Alike(Sent(query[q], s), query[q])
        /\ Sent(query[q], s).over = query[q].over
        /\ Sent(query[q], s).armed = TRUE /\ Sent(query[q], s).place = s
    BY <1>2, SentType
  <2>2. query' \in [Queries -> QueryType] /\ query'[q] = Sent(query[q], s)
          /\ \A p \in Queries \ {q} : query'[p] = query[p]
    BY <1>1, <1>5, <2>1
  <2>3. /\ Heard(server[s], q) \in ServerType /\ Heard(server[s], q).udp = TRUE
        /\ Heard(server[s], q).tcp = server[s].tcp
        /\ Heard(server[s], q).queue = server[s].queue /\ Heard(server[s], q).asked = server[s].asked \cup {q}
        /\ Heard(server[s], q).written = server[s].written
    BY <1>2, HeardType
  <2>4. /\ server' \in [Servers -> ServerType] /\ server'[s] = Heard(server[s], q)
        /\ \A r \in Servers \ {s} : server'[r] = server[r]
    BY <1>1, <1>5, <2>3
  <2> QED
    BY <1>3, <1>5, <2>1, <2>2, <2>3, <2>4 DEF SentUdp
<1>6. CASE /\ stack' = Rest /\ query[q].tcp
           /\ query' = [query EXCEPT ![q] = Sent(Overt(query[q], s), s)]
           /\ server' = [server EXCEPT ![s] = Given(server[s], q)]
  <2>1. /\ Overt(query[q], s) \in QueryType /\ Alike(Overt(query[q], s), query[q])
        /\ Overt(query[q], s).over = query[q].over \cup {s}
    BY <1>2, OvertType
  <2>2. /\ Sent(Overt(query[q], s), s) \in QueryType /\ Alike(Sent(Overt(query[q], s), s), Overt(query[q], s))
        /\ Sent(Overt(query[q], s), s).over = Overt(query[q], s).over
        /\ Sent(Overt(query[q], s), s).armed = TRUE /\ Sent(Overt(query[q], s), s).place = s
    BY ZenonT(30), <2>1, SentType
  <2>3. /\ query' \in [Queries -> QueryType] /\ query'[q] = Sent(Overt(query[q], s), s)
        /\ \A p \in Queries \ {q} : query'[p] = query[p]
    BY <1>1, <1>6, <2>2
  <2>4. Alike(query'[q], query[q])
    BY <2>1, <2>2, <2>3 DEF Alike
  <2>5. /\ Given(server[s], q) \in ServerType /\ Given(server[s], q).udp = server[s].udp
        /\ Given(server[s], q).tcp = TRUE
        /\ Given(server[s], q).queue = Append(server[s].queue, Theirs(q))
        /\ Given(server[s], q).asked = server[s].asked
        /\ Given(server[s], q).written = server[s].written
    BY <1>2, GivenType
  <2>6. /\ server' \in [Servers -> ServerType] /\ server'[s] = Given(server[s], q)
        /\ \A r \in Servers \ {s} : server'[r] = server[r]
    BY <1>1, <1>6, <2>5
  <2> QED
    BY <1>3, <1>6, <2>1, <2>2, <2>3, <2>4, <2>5, <2>6 DEF SentTcp
<1> QED
  BY <1>4, <1>5, <1>6, SendCases

-----------------------------------------------------------------------------
(* More of what the steps have in common                                    *)

\* No call has a query in hands while a socket is read or written, or a timeout looked for.
LEMMA NoneClaimed ==
  ASSUME Typed, Framed, Idle \/ Rank(Top) >= 3
  PROVE  Claimed(stack) = {}
<1>1. CASE Idle
  BY <1>1, NoFrames DEF Idle
<1>2. CASE ~Idle
  <2>1. /\ Top \in Calls /\ Claimed(stack) = Claim(Top) \cup Claimed(Rest)
        /\ \A g \in Frames(Rest) : g \in Calls /\ Above(Top, g)
    BY <1>2, Popped
  <2>2. \A g \in Calls : Rank(g) >= 3 => Claim(g) = {}
    <3> SUFFICES ASSUME NEW g \in Calls, Rank(g) >= 3
                 PROVE  Claim(g) = {}
      OBVIOUS
    <3>1. g.op \notin Active \cup Ending \cup Visits
      BY CallFields
    <3> QED
      BY <3>1 DEF Claim, Active
  <2>3. \A g \in Frames(Rest) : Rank(g) >= 3
    BY <1>2, <2>1, CallFields DEF Above
  <2> QED
    BY <1>2, <2>1, <2>2, <2>3 DEF Claimed
<1> QED
  BY <1>1, <1>2

\* The servers' wires: what they have been asked, and what waits to be sent to them.
Wire(s) ==
  server'[s].queue = server[s].queue /\ server'[s].asked = server[s].asked /\ server'[s].written = server[s].written

Ears(s) == (server[s].udp => server'[s].udp) /\ (server[s].tcp => server'[s].tcp)

LEMMA WireQueued == ASSUME NEW s, Wire(s) PROVE \A p : Queued(p, s)' <=> Queued(p, s)
BY DEF Wire, Queued

\* What is known of the connections as long as the wires are what they were.
LEMMA WiresKnown ==
  ASSUME Known, size' = size, \A s \in Servers : Wire(s), Live' = Live,
         \A p \in Queries : query'[p].over = query[p].over /\ (query'[p].tcp = query[p].tcp \/ p \in Live)
                            /\ (query[p].tcp => query'[p].tcp)
  PROVE  Known'
<1>1. Servers' = Servers
  BY DEF Servers, N
<1>2. OncePerConnection'
  BY <1>1 DEF Known, OncePerConnection, Wire
<1>3. \A s \in Servers, q \in Queries : q \in server'[s].written \/ Queued(q, s)' => s \in query'[q].over
  BY WireQueued DEF Known, Wire
<1>4. \A q \in Queries : ~query'[q].tcp => query'[q].over = {}
  BY DEF Known
<1>5. \A s \in Servers : server'[s].asked \cup server'[s].written \subseteq Live'
  BY DEF Known, Wire
<1>6. \A q \in Queries \ Live' : query'[q].over = {} /\ ~query'[q].tcp
  BY DEF Known
<1> QED
  BY <1>1, <1>2, <1>3, <1>4, <1>5, <1>6 DEF Known

LEMMA WiresFreeds ==
  ASSUME size' = size, \A s \in Servers : Wire(s)
  PROVE  Freeds' <=> Freeds
<1>1. Servers' = Servers
  BY DEF Servers, N
<1> QED
  BY <1>1 DEF Freeds, Wire

LEMMA KeepsCancelling ==
  ASSUME Cancelling, all' = all, loose' = loose, Freeds' => Freeds, Has("drop")' => Has("drop"),
         Has("cancel")' <=> Has("cancel")
  PROVE  Cancelling'
BY DEF Cancelling

\* A query in nobody's hands goes on waiting.
LEMMA KeepsHeld ==
  ASSUME Typed, Held, size' = size,
         \A p \in Live' \ Claimed(stack') :
           Sits(p)' \/ (/\ p \in Live \ Claimed(stack) /\ Same(p)
                        /\ \A s \in Servers : Ears(s) /\ (p \in server[s].asked => p \in server'[s].asked)
                             /\ (p \in server[s].written \/ Queued(p, s) => p \in server'[s].written \/ Queued(p, s)'))
  PROVE  Held'
<1> SUFFICES ASSUME NEW p \in Live' \ Claimed(stack')
             PROVE  Sits(p)'
  BY DEF Held
<1>1. CASE /\ p \in Live \ Claimed(stack) /\ Same(p)
           /\ \A s \in Servers : Ears(s) /\ (p \in server[s].asked => p \in server'[s].asked)
                             /\ (p \in server[s].written \/ Queued(p, s) => p \in server'[s].written \/ Queued(p, s)')
  <2>1. p \in Queries /\ Sits(p)
    BY <1>1 DEF Held, Live
  <2>2. PICK s \in Servers : s = query[p].server
    BY <2>1 DEF Typed, QueryType
  <2> QED
    BY <1>1, <2>1, <2>2, KeepsSits DEF Ears
<1> QED
  BY <1>1

\* The calls that stay under way, below another innermost one.
LEMMA Reframed ==
  ASSUME Typed, Framed, ~Idle, NEW f \in Calls, stack' = <<f>> \o Rest, Rank(f) <= Rank(Top),
         Rank(f) = Rank(Top) => Rank(f) # 1, Claim(f) \cap Claimed(Rest) = {}
  PROVE  /\ stack' \in Seq(Calls) /\ Nested(stack') /\ Frames(stack') = {f} \cup Frames(Rest)
         /\ Claimed(stack') = Claim(f) \cup Claimed(Rest)
<1>1. /\ Top \in Calls /\ Rest \in Seq(Calls) /\ Nested(Rest)
      /\ \A g \in Frames(Rest) : g \in Calls /\ Above(Top, g)
  BY Popped
<1>2. ASSUME NEW g \in Frames(Rest)
      PROVE  Above(f, g)
  <2>1. Rank(f) \in Nat /\ Rank(g) \in Nat /\ Rank(Top) \in Nat
    BY <1>1, CallFields
  <2>2. Claim(g) \subseteq Claimed(Rest)
    BY DEF Claimed
  <2> QED
    BY <1>1, <2>1, <2>2 DEF Above
<1> QED
  BY <1>1, <1>2, Push

Plain == {"send", "next", "end", "errors", "due", "write", "tcp", "udp", "timeouts", "broken"}

\* When calls that neither free nor cancel nor call back come and go, nothing ends.
LEMMA PlainStep ==
  ASSUME Typed, Framed, ~Idle, Top.op \in Plain, NEW F, \A f \in F : f.op \in Plain,
         Frames(stack') = F \cup Frames(Rest)
  PROVE  Ended' = Ended /\ (Has("drop")' <=> Has("drop")) /\ (Has("cancel")' <=> Has("cancel"))
<1>1. Frames(stack) = {Top} \cup Frames(Rest)
  BY Popped
<1>2. Has("drop")' <=> Has("drop")
  BY <1>1 DEF Has, Plain
<1>3. Has("cancel")' <=> Has("cancel")
  BY <1>1 DEF Has, Plain
<1>4. \A f : f.op \in Ending \cup {"callback"} => (f \in Frames(stack') <=> f \in Frames(stack))
  BY <1>1 DEF Plain, Ending
<1> QED
  BY <1>2, <1>3, <1>4, SameEnded

LEMMA PlainPop ==
  ASSUME Typed, Framed, ~Idle, Top.op \in Plain, Frames(stack') = Frames(Rest)
  PROVE  Ended' = Ended /\ (Has("drop")' <=> Has("drop")) /\ (Has("cancel")' <=> Has("cancel"))
<1>1. Frames(stack) = {Top} \cup Frames(Rest)
  BY Popped
<1>2. Has("drop")' <=> Has("drop")
  BY <1>1 DEF Has, Plain
<1>3. Has("cancel")' <=> Has("cancel")
  BY <1>1 DEF Has, Plain
<1>4. \A f : f.op \in Ending \cup {"callback"} => (f \in Frames(stack') <=> f \in Frames(stack))
  BY <1>1 DEF Plain, Ending
<1> QED
  BY <1>2, <1>3, <1>4, SameEnded

LEMMA ClaimIs ==
  ASSUME NEW f
  PROVE  /\ f.op \in {"send", "next", "end", "free", "drop"} => Claim(f) = {f.q}
         /\ f.op \in {"errors", "due", "cancel"} => Claim(f) = f.set
         /\ f.op \in {"callback", "write", "tcp", "udp", "timeouts", "broken"} => Claim(f) = {}
BY DEF Claim, Ending, Visits

LEMMA RankIs ==
  ASSUME NEW f
  PROVE  /\ f.op \in {"send", "next", "end", "callback"} => Rank(f) = 0
         /\ f.op \in {"free", "drop"} => Rank(f) = 1
         /\ f.op \in {"errors", "due", "cancel"} => Rank(f) = 2
         /\ f.op \in {"write", "tcp", "udp"} => Rank(f) = 3
         /\ f.op = "timeouts" => Rank(f) = 4
         /\ f.op = "broken" => Rank(f) = 5
BY DEF Rank, Active, Ending, Visits, Streams

LEMMA ClaimsQueries ==
  ASSUME NEW f \in Calls
  PROVE  Claim(f) \subseteq Queries
<1>1. f.op \in Active \cup Ending => f.q \in Queries
  BY CallFields
<1>2. f.op \in Visits => f.set \subseteq Queries
  BY CallFields
<1> QED
  BY <1>1, <1>2, ClaimIs, CallFields DEF Active, Ending, Visits, Streams

\* The calls that take a query on.
LEMMA NewCall ==
  ASSUME NEW q \in Queries
  PROVE  /\ \A op \in {"send", "next", "free", "drop"} : [op |-> op, q |-> q] \in Calls
         /\ \A how \in {"found", "missing", "failed"} : [op |-> "end", q |-> q, how |-> how] \in Calls
         /\ \A how \in {"found", "missing", "failed", "cancelled"} : [op |-> "callback", q |-> q, how |-> how] \in Calls
<1>1. \A op \in {"send", "next", "free", "drop"} : [op |-> op, q |-> q] \in [op : {"send", "next", "free", "drop"}, q : Queries]
  OBVIOUS
<1>2. \A how \in {"found", "missing", "failed"} :
        [op |-> "end", q |-> q, how |-> how] \in [op : {"end"}, q : Queries, how : {"found", "missing", "failed"}]
  OBVIOUS
<1>3. \A how \in {"found", "missing", "failed", "cancelled"} :
        [op |-> "callback", q |-> q, how |-> how]
          \in [op : {"callback"}, q : Queries, how : {"found", "missing", "failed", "cancelled"}]
  OBVIOUS
<1> QED
  BY <1>1, <1>2, <1>3 DEF Calls

LEMMA SendStep ==
  ASSUME Inv, SendQuery
  PROVE  Inv'
<1>1. Typed /\ Framed /\ Held /\ Known /\ Cancelling /\ Answering /\ Quiet /\ ~Idle /\ Top.op = "send"
  BY DEF Inv, SendQuery, In
<1>2. /\ Top \in Calls /\ Rest \in Seq(Calls) /\ Nested(Rest) /\ Frames(stack) = {Top} \cup Frames(Rest)
      /\ Claimed(stack) = Claim(Top) \cup Claimed(Rest) /\ Claim(Top) \cap Claimed(Rest) = {} /\ Good(Top)
      /\ \A g \in Frames(Rest) : g \in Calls /\ Good(g)
  BY <1>1, Popped
<1>3. PICK q \in Queries : q = Top.q
  BY <1>1, <1>2, CallFields DEF Active
<1>4. PICK s \in Servers : s = query[q].server
  BY <1>1 DEF Typed, QueryType
<1>5. q \in all /\ q \in Live /\ Claim(Top) = {q} /\ ~(query[q].tcp /\ s \in query[q].over)
  <2>1. Claim(Top) = {q}
    BY <1>1, <1>3, ClaimIs
  <2> QED
    BY <1>1, <1>2, <1>3, <1>4, <2>1 DEF Good, Framed
<1>6. /\ query' \in [Queries -> QueryType] /\ server' \in [Servers -> ServerType]
      /\ UNCHANGED <<lookup, all, loose, size>>
      /\ \A p \in Queries \ {q} : query'[p] = query[p]
      /\ \A r \in Servers \ {s} : server'[r] = server[r]
      /\ Alike(query'[q], query[q])
      /\ server'[s].written = server[s].written
      /\ server[s].tcp => server'[s].tcp
      /\ server[s].udp => server'[s].udp
  BY <1>1, <1>3, <1>4, SendFacts
<1>7. Servers' = Servers
  BY <1>6 DEF Servers, N
<1>8. Live' = Live /\ \A p \in Live : query'[p].lookup = query[p].lookup
  BY <1>6 DEF Live, Alike
<1>9. \A p \in Queries \ {q} : Same(p)
  BY <1>6 DEF Same
<1>10. \A r \in Servers : Ears(r)
  BY <1>6 DEF Ears
<1>11. \A p \in Claimed(Rest) : p # q /\ p \in Queries
  <2>1. \A g \in Frames(Rest) : Claim(g) \subseteq Queries
    BY <1>2, ClaimsQueries
  <2> QED
    BY <1>2, <1>5, <2>1 DEF Claimed
<1>12. CASE SentNot(q, s)
  <2>0. /\ stack' = <<GoOn(q)>> \o Rest
      /\ server'[s].queue = server[s].queue /\ server'[s].asked = server[s].asked
      /\ Listed(query'[q], query[q]) /\ query'[q].over = query[q].over
    BY <1>12 DEF SentNot
  <2> DEFINE f == GoOn(q)
  <2>1. f \in Calls /\ f.op = "next" /\ f.q = q /\ Claim(f) = {q} /\ Rank(f) = 0 /\ Rank(Top) = 0
    <3>1. f.op = "next" /\ f.q = q /\ f = [op |-> "next", q |-> q]
      BY DEF GoOn
    <3>2. f \in Calls
      BY <3>1, NewCall
    <3> QED
      BY <1>1, <3>1, <3>2, ClaimIs, RankIs
  <2>2. /\ stack' \in Seq(Calls) /\ Nested(stack') /\ Frames(stack') = {f} \cup Frames(Rest)
        /\ Claimed(stack') = Claim(f) \cup Claimed(Rest)
    BY <1>1, <1>2, <1>5, <2>0, <2>1, Reframed
  <2> HIDE DEF f
  <2>3. \A r \in Servers : Wire(r)
    BY <1>6, <2>0 DEF Wire
  <2>4. \A g \in Frames(Rest) : Good(g)'
    <3>1. \A p \in Claimed(Rest) : Same(p) /\ \A r \in Servers : Queued(p, r)' => Queued(p, r)
      BY <1>9, <1>11, <2>3, WireQueued
    <3> QED
      BY <1>1, <1>6, <3>1, RestKeeps
  <2>5. Good(f)'
    BY <1>5, <1>6, <2>1 DEF Good
  <2>6. Framed'
    BY <1>1, <1>6, <1>8, <2>2, <2>4, <2>5 DEF Framed
  <2>7. Held'
    <3>1. ASSUME NEW p \in Live' \ Claimed(stack')
          PROVE  /\ p \in Live \ Claimed(stack) /\ Same(p)
                 /\ \A r \in Servers : Ears(r) /\ (p \in server[r].asked => p \in server'[r].asked)
                             /\ (p \in server[r].written \/ Queued(p, r) => p \in server'[r].written \/ Queued(p, r)')
      <4>1. p \in Live \ Claimed(stack) /\ p # q /\ p \in Queries
        BY <1>2, <1>5, <1>8, <2>1, <2>2 DEF Live
      <4> QED
        BY <1>9, <1>10, <2>3, <4>1, WireQueued DEF Wire
    <3> QED
      BY <1>1, <1>6, <3>1, KeepsHeld
  <2>8. Known'
    BY <1>1, <1>6, <1>8, <2>0, <2>3, WiresKnown DEF Alike
  <2>9. Ended' = Ended /\ (Has("drop")' <=> Has("drop")) /\ (Has("cancel")' <=> Has("cancel"))
    <3>1. \A g \in {f} : g.op \in Plain
      BY <2>1 DEF Plain
    <3>2. Top.op \in Plain
      BY <1>1 DEF Plain
    <3> QED
      BY <1>1, <2>2, <3>1, <3>2, PlainStep
  <2>10. Cancelling'
    BY <1>1, <1>6, <2>3, <2>9, WiresFreeds, KeepsCancelling
  <2>11. Answering'
    BY <1>1, <1>6, <1>8, <2>9, KeepsAnswering
  <2>12. Quiet'
    BY <1>5, <1>6 DEF Quiet
  <2>13. Typed'
    BY <1>1, <1>6, <1>7, <2>2 DEF Typed, Calls, LookupType, QueryType, ServerType, Requests, N, Tries, Servers
  <2> QED
    BY <2>6, <2>7, <2>8, <2>10, <2>11, <2>12, <2>13 DEF Inv
<1>13. CASE SentUdp(q, s)
  <2>0. /\ stack' = Rest /\ ~query[q].tcp /\ server'[s].udp = TRUE
      /\ server'[s].queue = server[s].queue /\ server'[s].asked = server[s].asked \cup {q}
      /\ query'[q].over = query[q].over /\ query'[q].armed = TRUE /\ query'[q].place = s
    BY <1>13 DEF SentUdp
  <2>1. \A r \in Servers, p \in Queries : Queued(p, r)' <=> Queued(p, r)
    BY <1>6, <2>0 DEF Queued
  <2>2. \A g \in Frames(Rest) : Good(g)'
    <3>1. \A p \in Claimed(Rest) : Same(p) /\ \A r \in Servers : Queued(p, r)' => Queued(p, r)
      BY <1>9, <1>11, <2>1
    <3> QED
      BY <1>1, <1>6, <3>1, RestKeeps
  <2>3. Framed'
    BY <1>1, <1>2, <1>6, <1>8, <2>0, <2>2 DEF Framed
  <2>4. Sits(q)'
    <3>1. server'[query'[q].server].udp /\ q \in server'[query'[q].server].asked /\ ~query'[q].tcp
          /\ q \in all' /\ query'[q].armed /\ query'[q].place = query'[q].server
      BY <1>4, <1>5, <1>6, <2>0 DEF Alike
    <3> QED
      BY <3>1 DEF Sits
  <2>5. Held'
    <3>1. ASSUME NEW p \in Live' \ Claimed(stack'), p # q
          PROVE  /\ p \in Live \ Claimed(stack) /\ Same(p)
                 /\ \A r \in Servers : Ears(r) /\ (p \in server[r].asked => p \in server'[r].asked)
                             /\ (p \in server[r].written \/ Queued(p, r) => p \in server'[r].written \/ Queued(p, r)')
      <4>1. p \in Live \ Claimed(stack) /\ p \in Queries
        BY <1>2, <1>5, <1>8, <2>0, <3>1 DEF Live
      <4>2. \A r \in Servers : server[r].asked \subseteq server'[r].asked /\ server'[r].written = server[r].written
        BY <1>6, <2>0
      <4> QED
        BY <1>9, <1>10, <2>1, <3>1, <4>1, <4>2
    <3> QED
      BY <1>1, <1>6, <2>4, <3>1, KeepsHeld
  <2>6. Known'
    <3>1. OncePerConnection'
      <4>1. \A r \in Servers : server'[r].queue = server[r].queue /\ server'[r].written = server[r].written
        BY <1>6, <2>0
      <4> QED
        BY <1>1, <1>7, <4>1 DEF Known, OncePerConnection
    <3>2. \A r \in Servers, p \in Queries : p \in server'[r].written \/ Queued(p, r)' => r \in query'[p].over
      BY <1>1, <1>6, <2>0, <2>1 DEF Known
    <3>3. \A p \in Queries : ~query'[p].tcp => query'[p].over = {}
      BY <1>1, <1>6, <2>0 DEF Known, Alike
    <3>4. \A r \in Servers : server'[r].asked \cup server'[r].written \subseteq Live'
      BY <1>1, <1>5, <1>6, <1>8, <2>0 DEF Known
    <3>5. \A p \in Queries \ Live' : query'[p].over = {} /\ ~query'[p].tcp
      BY <1>1, <1>5, <1>6, <1>8 DEF Known
    <3> QED
      BY <1>7, <3>1, <3>2, <3>3, <3>4, <3>5 DEF Known
  <2>7. Ended' = Ended /\ (Has("drop")' <=> Has("drop")) /\ (Has("cancel")' <=> Has("cancel"))
    <3>1. Top.op \in Plain /\ Frames(stack') = Frames(Rest)
      BY <1>1, <2>0 DEF Plain
    <3> QED
      BY <1>1, <3>1, PlainPop
  <2>8. Freeds' => Freeds
    <3>1. \A r \in Servers : server'[r].queue = server[r].queue
      BY <1>6, <2>0
    <3> QED
      BY <1>7, <3>1 DEF Freeds
  <2>9. Cancelling'
    BY <1>1, <1>6, <2>7, <2>8, KeepsCancelling
  <2>10. Answering'
    BY <1>1, <1>6, <1>8, <2>7, KeepsAnswering
  <2>11. Quiet'
    BY <1>5, <1>6 DEF Quiet
  <2>12. Typed'
    BY <1>1, <1>2, <1>6, <1>7, <2>0 DEF Typed, Calls, LookupType, QueryType, ServerType, Requests, N, Tries, Servers
  <2> QED
    BY <2>3, <2>5, <2>6, <2>9, <2>10, <2>11, <2>12 DEF Inv
<1>14. CASE SentTcp(q, s)
  <2>0. /\ stack' = Rest /\ query[q].tcp /\ server'[s].tcp = TRUE
      /\ server'[s].queue = Append(server[s].queue, Theirs(q)) /\ server'[s].asked = server[s].asked
      /\ query'[q].over = query[q].over \cup {s} /\ query'[q].armed = TRUE /\ query'[q].place = s
    BY <1>14 DEF SentTcp
  <2> DEFINE old == server[s].queue
             new == server'[s].queue
  <2>1. old \in Seq(Requests) /\ new = Append(old, Theirs(q)) /\ Len(old) \in Nat
    BY <1>1, <2>0 DEF Typed, ServerType
  <2>2. Len(new) = Len(old) + 1 /\ new[Len(old) + 1] = Theirs(q) /\ \A i \in 1 .. Len(old) : new[i] = old[i]
    BY <2>1
  <2> HIDE DEF old, new
  <2>3. Queued(q, s)'
    <3>1. Len(old) + 1 \in 1 .. Len(new)
      BY <2>1, <2>2
    <3> QED
      BY <2>2, <3>1 DEF Queued, Theirs, new
  <2>4. ASSUME NEW p \in Queries, p # q
        PROVE  Queued(p, s)' <=> Queued(p, s)
    <3>1. Theirs(p) # Theirs(q)
      BY <2>4 DEF Theirs
    <3>2. \A i \in 1 .. Len(old) : i \in 1 .. Len(new) /\ new[i] = old[i]
      BY <2>1, <2>2
    <3>3. \A i \in 1 .. Len(new) : i \in 1 .. Len(old) \/ new[i] = Theirs(q)
      BY <2>1, <2>2
    <3>4. Queued(p, s) <=> \E i \in 1 .. Len(old) : old[i] = Theirs(p)
      BY DEF Queued, old
    <3>5. Queued(p, s)' <=> \E i \in 1 .. Len(new) : new[i] = Theirs(p)
      BY DEF Queued, new, Theirs
    <3> QED
      BY <3>1, <3>2, <3>3, <3>4, <3>5
  <2>5. \A r \in Servers \ {s}, p \in Queries : Queued(p, r)' <=> Queued(p, r)
    BY <1>6 DEF Queued
  <2>6. \A g \in Frames(Rest) : Good(g)'
    <3>1. \A p \in Claimed(Rest) : Same(p) /\ \A r \in Servers : Queued(p, r)' => Queued(p, r)
      BY <1>9, <1>11, <2>4, <2>5
    <3> QED
      BY <1>1, <1>6, <3>1, RestKeeps
  <2>7. Framed'
    BY <1>1, <1>2, <1>6, <1>8, <2>0, <2>6 DEF Framed
  <2>8. Sits(q)'
    <3>1. server'[query'[q].server].tcp /\ query'[q].tcp /\ query'[q].server = s
          /\ q \in all' /\ query'[q].armed /\ query'[q].place = query'[q].server
      BY <1>4, <1>5, <1>6, <2>0 DEF Alike
    <3> QED
      BY <2>3, <3>1 DEF Sits
  <2>9. Held'
    <3>1. ASSUME NEW p \in Live' \ Claimed(stack'), p # q
          PROVE  /\ p \in Live \ Claimed(stack) /\ Same(p)
                 /\ \A r \in Servers : Ears(r) /\ (p \in server[r].asked => p \in server'[r].asked)
                             /\ (p \in server[r].written \/ Queued(p, r) => p \in server'[r].written \/ Queued(p, r)')
      <4>1. p \in Live \ Claimed(stack) /\ p \in Queries
        BY <1>2, <1>5, <1>8, <2>0, <3>1 DEF Live
      <4>2. \A r \in Servers : server[r].asked = server'[r].asked /\ server'[r].written = server[r].written
        BY <1>6, <2>0
      <4> QED
        BY <1>9, <1>10, <2>4, <2>5, <3>1, <4>1, <4>2
    <3> QED
      BY <1>1, <1>6, <2>8, <3>1, KeepsHeld
  <2>10. q \notin server[s].written /\ ~Queued(q, s)
    BY <1>1, <1>5 , <2>0 DEF Known
  <2>11. Known'
    <3>1. OncePerConnection'
      <4> SUFFICES ASSUME NEW r \in Servers, NEW p \in Queries, NEW i \in 1 .. Len(server'[r].queue),
                          server'[r].queue[i] = Theirs(p)
                   PROVE  p \notin server'[r].written /\ \A j \in 1 .. i - 1 : server'[r].queue[j] # Theirs(p)
        BY <1>7 DEF OncePerConnection, Theirs
      <4>1. CASE r # s
        BY <1>1, <1>6, <4>1 DEF Known, OncePerConnection
      <4>2. CASE r = s /\ i \in 1 .. Len(old)
        <5>1. \A j \in 1 .. i - 1 : j \in 1 .. Len(old)
          BY <2>1, <4>2
        <5>2. old[i] = Theirs(p) /\ \A j \in 1 .. i - 1 : new[j] = old[j]
          BY <2>2, <4>2, <5>1 DEF new
        <5>3. p \notin server[s].written /\ \A j \in 1 .. i - 1 : old[j] # Theirs(p)
          BY <1>1, <4>2, <5>2 DEF Known, OncePerConnection, old
        <5> QED
          BY <1>6, <4>2, <5>2, <5>3 DEF new
      <4>3. CASE r = s /\ i \notin 1 .. Len(old)
        <5>1. i = Len(old) + 1
          BY <2>1, <2>2, <4>3 DEF new
        <5>2. p = q
          BY <2>2, <4>3, <5>1 DEF new, Theirs
        <5>3. \A j \in 1 .. i - 1 : j \in 1 .. Len(old) /\ new[j] = old[j] /\ old[j] # Theirs(q)
          BY <2>1, <2>2, <2>10, <5>1 DEF Queued, old
        <5> QED
          BY <1>6, <2>10, <4>3, <5>2, <5>3 DEF new
      <4> QED
        BY <4>1, <4>2, <4>3
    <3>2. \A r \in Servers, p \in Queries : p \in server'[r].written \/ Queued(p, r)' => r \in query'[p].over
      <4>1. \A r \in Servers : server'[r].written = server[r].written
        BY <1>6
      <4>2. s \in query'[q].over /\ query[q].over \subseteq query'[q].over
        BY <2>0
      <4>3. \A r \in Servers, p \in Queries : Queued(p, r)' => Queued(p, r) \/ (r = s /\ p = q)
        BY <2>4, <2>5
      <4>4. \A r \in Servers, p \in Queries : p \in server[r].written \/ Queued(p, r) => r \in query[p].over
        BY <1>1 DEF Known
      <4>5. \A p \in Queries : query[p].over \subseteq query'[p].over
        BY <1>6, <4>2
      <4>6. ASSUME NEW r \in Servers, NEW p \in Queries, p \in server'[r].written \/ Queued(p, r)'
            PROVE  r \in query'[p].over
        <5>1. CASE p \in server[r].written \/ Queued(p, r)
          BY <4>4, <4>5, <5>1
        <5>2. CASE r = s /\ p = q
          BY <4>2, <5>2
        <5> QED
          BY <4>1, <4>3, <4>6, <5>1, <5>2
      <4> QED
        BY Zenon, <4>6
    <3>3. \A p \in Queries : ~query'[p].tcp => query'[p].over = {}
      <4>1. query'[q].tcp
        BY <1>6, <2>0 DEF Alike
      <4>2. \A p \in Queries \ {q} : ~query'[p].tcp => query'[p].over = {}
        BY <1>1, <1>6 DEF Known
      <4> QED
        BY <4>1, <4>2
    <3>4. \A r \in Servers : server'[r].asked \cup server'[r].written \subseteq Live'
      BY <1>1, <1>6, <1>8, <2>0 DEF Known
    <3>5. \A p \in Queries \ Live' : query'[p].over = {} /\ ~query'[p].tcp
      BY <1>1, <1>5, <1>6, <1>8 DEF Known
    <3> QED
      BY <1>7, <3>1, <3>2, <3>3, <3>4, <3>5 DEF Known
  <2>12. Ended' = Ended /\ (Has("drop")' <=> Has("drop")) /\ (Has("cancel")' <=> Has("cancel"))
    <3>1. Top.op \in Plain /\ Frames(stack') = Frames(Rest)
      BY <1>1, <2>0 DEF Plain
    <3> QED
      BY <1>1, <3>1, PlainPop
  <2>13. Freeds' => Freeds
    <3> SUFFICES ASSUME NEW r \in Servers, NEW i \in 1 .. Len(server'[r].queue), server'[r].queue[i].data = "freed"
                 PROVE  Freeds
      BY <1>7 DEF Freeds
    <3>1. CASE r # s
      BY <1>6, <3>1 DEF Freeds
    <3>2. CASE r = s
      <4>1. Theirs(q).data = "theirs"
        BY DEF Theirs
      <4>2. i \in 1 .. Len(old) /\ new[i] = old[i]
        BY <2>1, <2>2, <3>2, <4>1 DEF new
      <4> QED
        BY <3>2, <4>2 DEF Freeds, old, new
    <3> QED
      BY <3>1, <3>2
  <2>14. Cancelling'
    BY <1>1, <1>6, <2>12, <2>13, KeepsCancelling
  <2>15. Answering'
    BY <1>1, <1>6, <1>8, <2>12, KeepsAnswering
  <2>16. Quiet'
    BY <1>5, <1>6 DEF Quiet
  <2>17. Typed'
    BY <1>1, <1>2, <1>6, <1>7, <2>0 DEF Typed, Calls, LookupType, QueryType, ServerType, Requests, N, Tries, Servers
  <2> QED
    BY <2>7, <2>9, <2>11, <2>14, <2>15, <2>16, <2>17 DEF Inv
<1> QED
  BY <1>1, <1>3, <1>4, <1>12, <1>13, <1>14, SendFacts

-----------------------------------------------------------------------------
(* Steps that leave the servers and the lookups alone                       *)

LEMMA QuietStep ==
  ASSUME Inv, UNCHANGED <<lookup, server, all, loose, size>>,
         stack' \in Seq(Calls), Nested(stack'), \A f \in Frames(stack') : Good(f)',
         query' \in [Queries -> QueryType],
         \A p \in Queries : query'[p].live = query[p].live /\ query'[p].lookup = query[p].lookup
                            /\ query'[p].over = query[p].over /\ (query[p].tcp => query'[p].tcp)
                            /\ (query'[p].tcp = query[p].tcp \/ p \in Live),
         \A p \in Live \ Claimed(stack') : p \in Live \ Claimed(stack) /\ Same(p),
         Ended' = Ended, Has("drop")' => Has("drop"), Has("cancel")' <=> Has("cancel")
  PROVE  Inv'
<1>1. Typed /\ Framed /\ Held /\ Known /\ Cancelling /\ Answering /\ Quiet
  BY DEF Inv
<1>2. Servers' = Servers
  BY DEF Servers, N
<1>3. Live' = Live
  BY DEF Live
<1>4. \A s \in Servers : Wire(s) /\ Ears(s)
  BY DEF Wire, Ears
<1>5. Framed'
  BY <1>1, <1>3 DEF Framed
<1>6. Held'
  <2>1. ASSUME NEW p \in Live' \ Claimed(stack')
        PROVE  /\ p \in Live \ Claimed(stack) /\ Same(p)
               /\ \A s \in Servers : Ears(s) /\ (p \in server[s].asked => p \in server'[s].asked)
                             /\ (p \in server[s].written \/ Queued(p, s) => p \in server'[s].written \/ Queued(p, s)')
    <3>1. p \in Live \ Claimed(stack) /\ Same(p)
      BY <1>3
    <3> QED
      BY <1>4, <3>1, WireQueued
  <2> QED
    BY <1>1, <2>1, KeepsHeld
<1>7. Known'
  BY <1>1, <1>3, <1>4, WiresKnown
<1>8. Cancelling'
  BY <1>1, <1>4, WiresFreeds, KeepsCancelling
<1>9. Answering'
  BY <1>1, <1>3, KeepsAnswering DEF Live
<1>10. Quiet'
  BY <1>1, <1>2 DEF Quiet
<1>11. Typed'
  BY <1>1, <1>2 DEF Typed, Calls, LookupType, QueryType, ServerType, Requests, N, Tries, Servers
<1> QED
  BY <1>5, <1>6, <1>7, <1>8, <1>9, <1>10, <1>11 DEF Inv

\* The rest of the calls are as good as they were.
LEMMA RestGood ==
  ASSUME Typed, Framed, ~Idle, size' = size, \A s \in Servers : Wire(s), \A p \in Claimed(Rest) : Same(p)
  PROVE  \A g \in Frames(Rest) : Good(g)'
<1>1. \A p \in Claimed(Rest) : Same(p) /\ \A s \in Servers : Queued(p, s)' => Queued(p, s)
  BY WireQueued
<1> QED
  BY <1>1, RestKeeps

\* A loop that has taken q.
Less(f, q) == [f EXCEPT !.set = @ \ {q}]

LEMMA LessCall ==
  ASSUME NEW f \in Calls, f.op \in Visits, NEW q
  PROVE  /\ Less(f, q) \in Calls /\ Less(f, q).op = f.op /\ Less(f, q).set = f.set \ {q}
         /\ f.op = "errors" => Less(f, q).s = f.s
<1> DEFINE g == [f EXCEPT !.set = @ \ {q}]
<1>1. CASE f \in [op : {"errors"}, s : Servers, set : SUBSET Queries]
  <2>1. g \in [op : {"errors"}, s : Servers, set : SUBSET Queries] /\ g.op = f.op /\ g.set = f.set \ {q} /\ g.s = f.s
    BY <1>1
  <2> QED
    BY <2>1 DEF Calls, Less
<1>2. CASE f \in [op : {"due", "cancel"}, set : SUBSET Queries]
  <2>1. g \in [op : {"due", "cancel"}, set : SUBSET Queries] /\ g.op = f.op /\ g.set = f.set \ {q} /\ f.op # "errors"
    BY <1>2
  <2> QED
    BY <2>1 DEF Calls, Less
<1> QED
  BY <1>1, <1>2 DEF Calls, Visits

LEMMA PushCalls ==
  ASSUME NEW s \in Seq(Calls), NEW f \in Calls, NEW g \in Calls
  PROVE  <<f, g>> \o s = <<f>> \o (<<g>> \o s)
BY PushTwo

\* A loop takes the next of its queries.
LEMMA Visiting ==
  ASSUME Typed, Framed, ~Idle, Top.op \in Visits, NEW q \in Top.set, NEW f \in Calls, Rank(f) = 0,
         Claim(f) \subseteq {q},
         NEW g, g = Less(Top, q)
  PROVE  /\ g \in Calls /\ g.op = Top.op /\ g.set = Top.set \ {q} /\ (Top.op = "errors" => g.s = Top.s)
         /\ <<g>> \o Rest \in Seq(Calls) /\ Nested(<<g>> \o Rest) /\ Frames(<<g>> \o Rest) = {g} \cup Frames(Rest)
         /\ Claimed(<<g>> \o Rest) = g.set \cup Claimed(Rest)
         /\ stack' = <<f, g>> \o Rest =>
              /\ stack' \in Seq(Calls) /\ Nested(stack')
              /\ Frames(stack') = {f, g} \cup Frames(Rest)
              /\ Claimed(stack') = Claim(f) \cup g.set \cup Claimed(Rest)
<1>1. /\ Top \in Calls /\ Rest \in Seq(Calls) /\ Nested(Rest) /\ Claim(Top) \cap Claimed(Rest) = {}
      /\ \A h \in Frames(Rest) : h \in Calls /\ Above(Top, h)
  BY Popped
<1>2. g \in Calls /\ g.op = Top.op /\ g.set = Top.set \ {q} /\ (Top.op = "errors" => g.s = Top.s)
  BY <1>1, LessCall
<1>3. Claim(Top) = Top.set /\ Claim(g) = g.set /\ Rank(Top) = 2 /\ Rank(g) = 2
  BY <1>2, ClaimIs, RankIs DEF Visits
<1>4. ASSUME NEW h \in Frames(Rest)
      PROVE  Above(g, h) /\ Above(f, h)
  <2>1. Rank(h) \in Nat /\ 2 <= Rank(h) /\ Rank(h) # 2 /\ Top.set \cap Claim(h) = {}
    BY <1>1, <1>3, CallFields DEF Above
  <2> QED
    BY <1>2, <1>3, <2>1 DEF Above
<1>5. Above(f, g)
  BY <1>2, <1>3 DEF Above
<1>6. /\ <<g>> \o Rest \in Seq(Calls) /\ Nested(<<g>> \o Rest) /\ Frames(<<g>> \o Rest) = {g} \cup Frames(Rest)
      /\ Claimed(<<g>> \o Rest) = g.set \cup Claimed(Rest)
  BY <1>1, <1>2, <1>3, <1>4, Push
<1>7. \A h \in Frames(<<g>> \o Rest) : Above(f, h)
  BY <1>4, <1>5, <1>6
<1>8. <<f, g>> \o Rest = <<f>> \o (<<g>> \o Rest)
  BY <1>1, <1>2, PushCalls
<1>9. /\ <<f>> \o (<<g>> \o Rest) \in Seq(Calls) /\ Nested(<<f>> \o (<<g>> \o Rest))
      /\ Frames(<<f>> \o (<<g>> \o Rest)) = {f} \cup Frames(<<g>> \o Rest)
      /\ Claimed(<<f>> \o (<<g>> \o Rest)) = Claim(f) \cup Claimed(<<g>> \o Rest)
  BY <1>6, <1>7, Push
<1> QED
  BY <1>2, <1>6, <1>8, <1>9

\* A step that leaves the servers and the lookups alone.
Kept(p) ==
  /\ query'[p].live = query[p].live /\ query'[p].lookup = query[p].lookup /\ query'[p].over = query[p].over
  /\ query[p].tcp => query'[p].tcp
  /\ query'[p].tcp = query[p].tcp \/ p \in Live

Still ==
  /\ UNCHANGED <<lookup, server, all, loose, size>>
  /\ query' \in [Queries -> QueryType]
  /\ \A p \in Queries : Kept(p)

LEMMA StillWires == ASSUME Still PROVE \A s \in Servers : Wire(s)
BY DEF Still, Wire

LEMMA ClaimedQueries == ASSUME NEW s \in Seq(Calls) PROVE Claimed(s) \subseteq Queries
<1>1. \A f \in Frames(s) : f \in Calls
  BY ElementOfSeq DEF Frames
<1> QED
  BY <1>1, ClaimsQueries DEF Claimed

LEMMA RestStill ==
  ASSUME Typed, Framed, ~Idle, Still, \A p \in Queries \ Claim(Top) : Same(p)
  PROVE  \A g \in Frames(Rest) : Good(g)'
<1>1. Rest \in Seq(Calls) /\ Claim(Top) \cap Claimed(Rest) = {}
  BY Popped
<1>2. \A p \in Claimed(Rest) : p \in Queries \ Claim(Top)
  BY <1>1, ClaimedQueries
<1>3. size' = size /\ \A s \in Servers : Wire(s)
  BY StillWires DEF Still
<1> QED
  BY <1>2, <1>3, RestGood

\* The innermost call goes on as f.
LEMMA Replacing ==
  ASSUME Inv, ~Idle, Still, Top.op \in Plain,
         NEW f \in Calls, f.op \in Plain, stack' = <<f>> \o Rest, Rank(f) <= Rank(Top), Good(f)',
         Claim(Top) \subseteq Claim(f), Claim(f) \cap Claimed(Rest) = {},
         \A p \in Queries \ Claim(f) : Same(p)
  PROVE  Inv'
<1>1. Typed /\ Framed
  BY DEF Inv
<1>2. Rank(f) # 1
  BY RankIs DEF Plain
<1>3. /\ stack' \in Seq(Calls) /\ Nested(stack') /\ Frames(stack') = {f} \cup Frames(Rest)
      /\ Claimed(stack') = Claim(f) \cup Claimed(Rest)
  BY <1>1, <1>2, Reframed
<1>4. Claimed(stack) = Claim(Top) \cup Claimed(Rest) /\ Rest \in Seq(Calls)
  BY <1>1, Popped
<1>5. \A g \in Frames(Rest) : Good(g)'
  <2>1. \A p \in Claimed(Rest) : Same(p)
    BY <1>4, ClaimedQueries
  <2>2. size' = size /\ \A s \in Servers : Wire(s)
    BY StillWires DEF Still
  <2> QED
    BY <1>1, <2>1, <2>2, RestGood
<1>6. Ended' = Ended /\ (Has("drop")' <=> Has("drop")) /\ (Has("cancel")' <=> Has("cancel"))
  <2>1. \A g \in {f} : g.op \in Plain
    OBVIOUS
  <2> QED
    BY <1>1, <1>3, <2>1, PlainStep
<1>7. \A p \in Live \ Claimed(stack') : p \in Live \ Claimed(stack) /\ Same(p)
  BY <1>3, <1>4 DEF Live
<1>8. \A g \in Frames(stack') : Good(g)'
  BY <1>3, <1>5
<1> QED
  BY <1>3, <1>6, <1>7, <1>8, QuietStep DEF Still, Kept

\* The innermost call ends.
LEMMA Popping ==
  ASSUME Inv, ~Idle, Still, Top.op \in Plain, stack' = Rest, Claim(Top) = {}, \A p \in Queries : Same(p)
  PROVE  Inv'
<1>1. Typed /\ Framed
  BY DEF Inv
<1>2. Claimed(stack) = Claimed(Rest) /\ Rest \in Seq(Calls) /\ Nested(Rest)
  BY <1>1, Popped
<1>3. \A g \in Frames(Rest) : Good(g)'
  BY <1>1, RestStill
<1>4. Ended' = Ended /\ (Has("drop")' <=> Has("drop")) /\ (Has("cancel")' <=> Has("cancel"))
  BY <1>1, PlainPop
<1>5. \A p \in Live \ Claimed(stack') : p \in Live \ Claimed(stack) /\ Same(p)
  BY <1>2 DEF Live
<1> QED
  BY <1>2, <1>3, <1>4, <1>5, QuietStep DEF Still, Kept

\* A call begins inside the innermost one.
LEMMA Adding ==
  ASSUME Inv, Still, ~Idle, Rank(Top) >= 3,
         NEW f \in Calls, f.op \in Plain, Rank(f) <= 2, stack' = <<f>> \o stack, Good(f)',
         \A p \in Queries \ Claim(f) : Same(p)
  PROVE  Inv'
<1>1. Typed /\ Framed
  BY DEF Inv
<1>2. stack \in Seq(Calls) /\ Nested(stack) /\ Claimed(stack) = {}
  BY <1>1, NoneClaimed DEF Typed, Framed
<1>3. /\ Frames(stack) = {Top} \cup Frames(Rest) /\ Top \in Calls
      /\ \A g \in Frames(Rest) : g \in Calls /\ Above(Top, g)
  BY <1>1, Popped
<1>4. ASSUME NEW g \in Frames(stack)
      PROVE  Above(f, g) /\ g \in Calls /\ Good(g) /\ Rank(g) >= 3 /\ Claim(g) = {}
  <2>1. g \in Calls /\ Rank(g) >= 3
    BY <1>3, CallFields DEF Above
  <2>2. Claim(g) = {}
    BY <1>2 DEF Claimed
  <2> QED
    BY <1>1, <2>1, <2>2, CallFields DEF Above, Framed
<1>5. /\ stack' \in Seq(Calls) /\ Frames(stack') = {f} \cup Frames(stack) /\ Nested(stack')
      /\ Claimed(stack') = Claim(f)
  <2>1. \A g \in Frames(stack) : Above(f, g)
    BY <1>4
  <2>2. /\ <<f>> \o stack \in Seq(Calls) /\ Frames(<<f>> \o stack) = {f} \cup Frames(stack) /\ Nested(<<f>> \o stack)
        /\ Claimed(<<f>> \o stack) = Claim(f) \cup Claimed(stack)
    BY <1>2, <2>1, Push, Zenon
  <2> QED
    BY <1>2, <2>2
<1>6. ASSUME NEW g \in Frames(stack)
      PROVE  Good(g)'
  <2>1. g.op \notin Active
    BY <1>4, CallFields
  <2> QED
    BY <1>4, <2>1, KeepsGood DEF Still
<1>7. Ended' = Ended
  <2>1. \A g : g.op \in Ending \cup {"callback"} => (g \in Frames(stack') <=> g \in Frames(stack))
    BY <1>5 DEF Plain, Ending
  <2> QED
    BY <2>1, SameEnded
<1>8. (Has("drop")' <=> Has("drop")) /\ (Has("cancel")' <=> Has("cancel"))
  BY <1>5 DEF Has, Plain
<1>9. \A p \in Live \ Claimed(stack') : p \in Live \ Claimed(stack) /\ Same(p)
  BY <1>2, <1>5 DEF Live
<1>10. \A g \in Frames(stack') : Good(g)'
  BY <1>5, <1>6
<1> QED
  BY <1>5, <1>7, <1>8, <1>9, <1>10, QuietStep DEF Still, Kept

\* A loop takes the next of its queries.
LEMMA Looping ==
  ASSUME Inv, ~Idle, Still, Top.op \in {"errors", "due"}, NEW q \in Top.set,
         NEW g, g = Less(Top, q), stack' = <<GoOn(q), g>> \o Rest,
         \A p \in Queries : Same(p)
  PROVE  Inv'
<1>1. Typed /\ Framed
  BY DEF Inv
<1>2. /\ Top \in Calls /\ Good(Top) /\ Claimed(stack) = Claim(Top) \cup Claimed(Rest)
  BY <1>1, Popped
<1>3. Claim(Top) = Top.set /\ Top.set \subseteq Queries /\ Top.op \in Visits /\ q \in Queries
  BY <1>2, ClaimIs, CallFields DEF Visits
<1>4. PICK f \in Calls : f = GoOn(q)
  BY <1>3, NewCall DEF GoOn
<1>5. f.op = "next" /\ f.q = q /\ Claim(f) = {q} /\ Rank(f) = 0
  <2>1. f.op = "next" /\ f.q = q
    BY <1>4 DEF GoOn
  <2> QED
    BY <2>1, ClaimIs, RankIs
<1>6. /\ g \in Calls /\ g.op = Top.op /\ g.set = Top.set \ {q} /\ (Top.op = "errors" => g.s = Top.s)
      /\ stack' \in Seq(Calls) /\ Nested(stack') /\ Frames(stack') = {f, g} \cup Frames(Rest)
      /\ Claimed(stack') = Claim(f) \cup g.set \cup Claimed(Rest)
  <2>1. Claim(f) \subseteq {q} /\ stack' = <<f, g>> \o Rest
    BY <1>4, <1>5
  <2> QED
    BY ZenonT(30), <1>1, <1>3, <1>5, <2>1, Visiting
<1>7. Claimed(stack') = Claimed(stack)
  <2>1. Claimed(stack') = {q} \cup (Top.set \ {q}) \cup Claimed(Rest)
    BY <1>5, <1>6
  <2>2. {q} \cup (Top.set \ {q}) = Top.set
    OBVIOUS
  <2> QED
    BY <1>2, <1>3, <2>1, <2>2
<1>8. \A h \in Frames(Rest) : Good(h)'
  BY <1>1, RestStill
<1>9. Good(g)'
  <2>1. Good(g)
    BY <1>2, <1>6 DEF Good
  <2>2. \A p \in Claim(g) : p \in Queries
    BY <1>6, ClaimsQueries
  <2>3. \A p \in Claim(g) : Same(p) /\ \A s \in Servers : Queued(p, s)' => Queued(p, s)
    BY <2>2, StillWires, WireQueued
  <2>4. g.op \notin Active
    BY <1>6 DEF Active
  <2> QED
    BY <1>6, <2>1, <2>3, <2>4, KeepsGood DEF Still
<1>10. Good(f)'
  <2>1. q \in all
    BY <1>2 DEF Good
  <2>2. q \in all'
    BY <2>1 DEF Still
  <2> QED
    BY <1>5, <2>2 DEF Good
<1>11. Ended' = Ended /\ (Has("drop")' <=> Has("drop")) /\ (Has("cancel")' <=> Has("cancel"))
  <2>1. (\A h \in {f, g} : h.op \in Plain) /\ Top.op \in Plain
    BY <1>5, <1>6 DEF Plain
  <2>2. PICK F : F = {f, g}
    OBVIOUS
  <2>3. (\A h \in F : h.op \in Plain) /\ Frames(stack') = F \cup Frames(Rest)
    BY <1>6, <2>1, <2>2
  <2> QED
    BY <1>1, <2>1, <2>3, PlainStep
<1>12. \A p \in Live \ Claimed(stack') : p \in Live \ Claimed(stack) /\ Same(p)
  BY <1>7 DEF Live
<1>13. \A h \in Frames(stack') : Good(h)'
  BY <1>6, <1>8, <1>9, <1>10
<1> QED
  BY <1>6, <1>11, <1>12, <1>13, QuietStep DEF Still, Kept

\* skip_server changes nothing that the calls and the lists go by.
LEMMA SkipStill ==
  ASSUME Typed, NEW q \in Queries, NEW s \in Servers, UNCHANGED <<lookup, server, all, loose, size>>,
         query' = [query EXCEPT ![q] = Skip(query[q], s)]
  PROVE  Still /\ \A p \in Queries : Same(p)
<1>1. query \in [Queries -> QueryType] /\ query[q] \in QueryType
  BY DEF Typed
<1>2. Skip(query[q], s) \in QueryType /\ Alike(Skip(query[q], s), query[q]) /\ Listed(Skip(query[q], s), query[q])
      /\ Skip(query[q], s).over = query[q].over
  BY <1>1, SkipType
<1>3. /\ query' \in [Queries -> QueryType] /\ \A p \in Queries \ {q} : query'[p] = query[p]
      /\ query'[q] = Skip(query[q], s)
  BY <1>1, <1>2
<1>4. \A p \in Queries : Same(p)
  BY <1>2, <1>3 DEF Same, Alike, Listed
<1>5. \A p \in Queries : Kept(p)
  BY <1>2, <1>3 DEF Kept, Alike
<1> QED
  BY <1>3, <1>4, <1>5 DEF Still

LEMMA SameStill ==
  ASSUME Typed, UNCHANGED <<lookup, query, server, all, loose, size>>
  PROVE  Still /\ \A p \in Queries : Same(p)
BY DEF Typed, Still, Same, Kept

LEMMA ErrorStep ==
  ASSUME Inv, ErrorNext
  PROVE  Inv'
<1>1. Typed /\ Framed /\ ~Idle /\ Top.op = "errors" /\ UNCHANGED <<lookup, server, all, loose, size>>
  BY DEF Inv, ErrorNext, In
<1>2. Top \in Calls /\ Top.set \subseteq Queries /\ Top.s \in Servers /\ Claim(Top) = Top.set
  BY <1>1, Popped, CallFields, ClaimIs DEF Visits
<1>3. CASE Top.set = {} /\ stack' = Rest /\ UNCHANGED query
  <2>1. Still /\ \A p \in Queries : Same(p)
    BY <1>1, <1>3, SameStill
  <2>2. Top.op \in Plain
    BY <1>1 DEF Plain
  <2> QED
    BY <1>1, <1>2, <1>3, <2>1, <2>2, Popping
<1>4. CASE \E q \in Top.set :
          /\ query' = [query EXCEPT ![q] = Skip(query[q], Top.s)]
          /\ stack' = <<GoOn(q), [Top EXCEPT !.set = @ \ {q}]>> \o Rest
  <2>1. PICK q \in Top.set :
          /\ query' = [query EXCEPT ![q] = Skip(query[q], Top.s)]
          /\ stack' = <<GoOn(q), [Top EXCEPT !.set = @ \ {q}]>> \o Rest
    BY <1>4
  <2>2. Still /\ \A p \in Queries : Same(p)
    BY <1>1, <1>2, <2>1, SkipStill
  <2>3. Top.op \in {"errors", "due"}
    BY <1>1
  <2> QED
    BY <1>1, <2>1, <2>2, <2>3, Looping DEF Less
<1> QED
  BY <1>3, <1>4 DEF ErrorNext

LEMMA TimeoutStep ==
  ASSUME Inv, TimeoutNext
  PROVE  Inv'
<1>1. Typed /\ Framed /\ ~Idle /\ Top.op = "due" /\ UNCHANGED <<lookup, query, server, all, loose, size>>
  BY DEF Inv, TimeoutNext, In
<1>2. Claim(Top) = Top.set
  BY <1>1, ClaimIs
<1>3. Still /\ \A p \in Queries : Same(p)
  BY <1>1, SameStill
<1>4. CASE Top.set = {} /\ stack' = Rest
  <2>1. Top.op \in Plain
    BY <1>1 DEF Plain
  <2> QED
    BY <1>1, <1>2, <1>3, <1>4, <2>1, Popping
<1>5. CASE \E q \in Top.set : stack' = <<GoOn(q), [Top EXCEPT !.set = @ \ {q}]>> \o Rest
  <2>1. PICK q \in Top.set : stack' = <<GoOn(q), [Top EXCEPT !.set = @ \ {q}]>> \o Rest
    BY <1>5
  <2>2. Top.op \in {"errors", "due"}
    BY <1>1
  <2> QED
    BY <1>1, <1>3, <2>1, <2>2, Looping DEF Less
<1> QED
  BY <1>4, <1>5 DEF TimeoutNext

LEMMA DueStep ==
  ASSUME Inv, NEW due \in SUBSET Queries, Timeouts(due)
  PROVE  Inv'
<1>1. Typed /\ Framed /\ ~Idle /\ Top.op = "timeouts" /\ UNCHANGED <<lookup, query, server, all, loose, size>>
  BY DEF Inv, Timeouts, In
<1>2. Claim(Top) = {} /\ Top.op \in Plain /\ Rank(Top) = 4
  BY <1>1, ClaimIs, RankIs DEF Plain
<1>3. Still /\ \A p \in Queries : Same(p)
  BY <1>1, SameStill
<1>4. CASE due = {}
  <2>1. Rest \in Seq(Calls)
    BY <1>1, Popped
  <2>2. << >> \o Rest = Rest
    BY <2>1
  <2>3. stack' = Rest
    BY <1>4, <2>2 DEF Timeouts
  <2> QED
    BY <1>1, <1>2, <1>3, <2>3, Popping
<1>5. CASE due # {}
  <2>1. PICK f \in Calls : f = [op |-> "due", set |-> due]
    BY DEF Calls
  <2>2. f.op = "due" /\ f.set = due /\ Claim(f) = due /\ Rank(f) = 2 /\ f.op \in Plain
    <3>1. f.op = "due" /\ f.set = due
      BY <2>1
    <3> QED
      BY <3>1, ClaimIs, RankIs DEF Plain
  <2>3. stack' = <<f>> \o Rest
    BY <1>5, <2>1 DEF Timeouts
  <2>4. Claimed(stack) = {} /\ Claimed(Rest) = {}
    BY <1>1, <1>2, NoneClaimed, Popped
  <2>5. due \subseteq all
    <3>1. due \subseteq Live
      BY DEF Timeouts, Live
    <3>2. \A p \in Live : p \in all
      BY <2>4 DEF Inv, Held, Sits
    <3> QED
      BY <3>1, <3>2
  <2>6. Good(f)'
    BY <1>1, <2>2, <2>5 DEF Good
  <2> QED
    BY <1>1, <1>2, <1>3, <2>2, <2>3, <2>4, <2>6, Replacing
<1> QED
  BY <1>4, <1>5

LEMMA Modulo == ASSUME NEW a \in Nat, NEW n \in Nat \ {0} PROVE a % n \in 0 .. n - 1
OBVIOUS

LEMMA NextStep ==
  ASSUME Inv, NextServer
  PROVE  Inv'
<1>1. Typed /\ Framed /\ Known /\ ~Idle /\ Top.op = "next" /\ UNCHANGED <<lookup, server, all, loose, size>>
  BY DEF Inv, NextServer, In
<1>2. Top \in Calls /\ Good(Top) /\ Claim(Top) \cap Claimed(Rest) = {}
  BY <1>1, Popped
<1>3. PICK q \in Queries : q = Top.q
  BY <1>1, <1>2, CallFields DEF Active
<1>4. Claim(Top) = {q} /\ Rank(Top) = 0 /\ Top.op \in Plain
  BY <1>1, <1>3, ClaimIs, RankIs DEF Plain
<1>5. q \in all /\ q \in Live
  BY <1>1, <1>2, <1>3 DEF Good, Framed
<1>6. query \in [Queries -> QueryType] /\ query[q] \in QueryType
  BY <1>1 DEF Typed
<1> DEFINE After(n) == (query[q].server + n) % N
           good == {n \in 1 .. N * Tries - 1 - query[q].tries : Usable(query[q], After(n))}
<1>7. \/ /\ stack' = <<[op |-> "end", q |-> q, how |-> "failed"]>> \o Rest
         /\ UNCHANGED query
      \/ \E n \in good : /\ query' = [query EXCEPT ![q].tries = @ + n, ![q].server = After(n)]
                         /\ stack' = <<[op |-> "send", q |-> q]>> \o Rest
  BY <1>3, Zenon DEF NextServer
<1>8. CASE stack' = <<[op |-> "end", q |-> q, how |-> "failed"]>> \o Rest /\ UNCHANGED query
  <2>1. PICK f \in Calls : f = [op |-> "end", q |-> q, how |-> "failed"]
    BY NewCall
  <2>2. f.op = "end" /\ f.q = q
    BY <2>1
  <2>3. Claim(f) = {q} /\ Rank(f) = 0 /\ f.op \in Plain
    BY <2>2, ClaimIs, RankIs DEF Plain
  <2>4. Good(f)'
    BY <1>1, <1>5, <2>2 DEF Good
  <2>5. Still /\ \A p \in Queries : Same(p)
    BY <1>1, <1>8, SameStill
  <2>6. stack' = <<f>> \o Rest
    BY <1>8, <2>1
  <2> QED
    BY <1>1, <1>2, <1>4, <2>3, <2>4, <2>5, <2>6, Replacing
<1>9. CASE \E n \in good : /\ query' = [query EXCEPT ![q].tries = @ + n, ![q].server = After(n)]
                           /\ stack' = <<[op |-> "send", q |-> q]>> \o Rest
  <2>1. PICK n \in good : /\ query' = [query EXCEPT ![q].tries = @ + n, ![q].server = After(n)]
                          /\ stack' = <<[op |-> "send", q |-> q]>> \o Rest
    BY <1>9
  <2>2. N \in Nat \ {0} /\ N * Tries \in Nat \ {0}
    BY <1>1, SizeIs DEF Typed
  <2>3. query[q].server \in Servers /\ query[q].tries \in 0 .. N * Tries - 1
    BY <1>6 DEF QueryType
  <2>4. n \in Nat /\ n \in 1 .. N * Tries - 1 - query[q].tries /\ Usable(query[q], After(n))
    OBVIOUS
  <2>5. PICK s : s = After(n)
    OBVIOUS
  <2>6. s \in Servers
    <3>1. query[q].server + n \in Nat
      BY <2>2, <2>3, <2>4 DEF Servers
    <3> QED
      BY <2>2, <2>5, <3>1, Modulo DEF Servers
  <2>7. PICK m : m = query[q].tries + n
    OBVIOUS
  <2>8. m \in 0 .. N * Tries - 1
    BY <2>2, <2>3, <2>4, <2>7
  <2>9. ~(query[q].tcp /\ s \in query[q].over)
    BY <2>4, <2>5 DEF Usable
  <2> HIDE DEF After, good
  <2>10. query' = [query EXCEPT ![q] = [query[q] EXCEPT !.tries = m, !.server = s]]
    BY <1>6, <2>1, <2>5, <2>7 DEF QueryType
  <2>11. PICK w : w = [query[q] EXCEPT !.tries = m, !.server = s]
    OBVIOUS
  <2>12. /\ w \in QueryType /\ w.server = s /\ w.live = query[q].live /\ w.lookup = query[q].lookup
         /\ w.tcp = query[q].tcp /\ w.over = query[q].over
    BY <1>6, <2>6, <2>8, <2>11 DEF QueryType
  <2>13. query' \in [Queries -> QueryType] /\ query'[q] = w /\ \A p \in Queries \ {q} : query'[p] = query[p]
    BY <1>6, <2>10, <2>11, <2>12
  <2>14. Still
    <3>1. \A p \in Queries : Kept(p)
      BY <2>12, <2>13 DEF Kept
    <3> QED
      BY <1>1, <2>13, <3>1 DEF Still
  <2>15. PICK f \in Calls : f = [op |-> "send", q |-> q]
    BY NewCall
  <2>16. f.op = "send" /\ f.q = q
    BY <2>15
  <2>17. Claim(f) = {q} /\ Rank(f) = 0 /\ f.op \in Plain
    BY <2>16, ClaimIs, RankIs DEF Plain
  <2>18. Good(f)'
    BY <1>1, <1>5, <2>9, <2>12, <2>13, <2>16 DEF Good
  <2>19. \A p \in Queries \ Claim(f) : Same(p)
    BY <1>1, <2>13, <2>17 DEF Same
  <2>20. stack' = <<f>> \o Rest
    BY <2>1, <2>15
  <2> QED
    BY <1>1, <1>2, <1>4, <2>14, <2>17, <2>18, <2>19, <2>20, Replacing
<1> QED
  BY <1>7, <1>8, <1>9

\* A call that goes on with query q, instead of the innermost one or inside it.
LEMMA TakeOn ==
  ASSUME Inv, ~Idle, Rank(Top) = 3, Still, NEW q \in Live,
         NEW f \in Calls, f.op \in {"send", "next", "end"}, f.q = q,
         stack' = <<f>> \o Rest \/ stack' = <<f>> \o stack,
         f.op = "send" => ~(query'[q].tcp /\ query'[q].server \in query'[q].over),
         \A p \in Queries \ {q} : Same(p)
  PROVE  Inv'
<1>1. Typed /\ Framed /\ Held
  BY DEF Inv
<1>2. Claimed(stack) = {} /\ Claimed(Rest) = {} /\ Claim(Top) = {}
  BY <1>1, NoneClaimed, Popped
<1>3. Top \in Calls
  BY <1>1, Popped
<1>4. q \in all
  BY <1>1, <1>2 DEF Held, Sits
<1>5. Claim(f) = {q} /\ Rank(f) = 0 /\ f.op \in Plain
  BY ClaimIs, RankIs DEF Plain
<1>6. Top.op \in Plain
  BY <1>3, CallFields DEF Rank, Plain, Active, Ending, Visits, Streams
<1>7. Good(f)'
  BY <1>4 DEF Good, Still
<1>8. CASE stack' = <<f>> \o Rest
  BY <1>2, <1>5, <1>6, <1>7, <1>8, Replacing
<1>9. CASE stack' = <<f>> \o stack
  BY <1>5, <1>7, <1>9, Adding
<1> QED
  BY <1>8, <1>9

\* The calls stay as they are.
LEMMA Staying ==
  ASSUME Inv, Still, stack' = stack, \A p \in Queries : Same(p), \A f \in Frames(stack) : f.op \notin Active
  PROVE  Inv'
<1>1. Typed /\ Framed
  BY DEF Inv
<1>2. Frames(stack') = Frames(stack) /\ Claimed(stack') = Claimed(stack) /\ stack \in Seq(Calls)
  BY <1>1 DEF Typed
<1>3. ASSUME NEW g \in Frames(stack)
      PROVE  Good(g)'
  <2>1. g \in Calls /\ Good(g)
    BY <1>1, <1>2, ElementOfSeq DEF Frames, Framed
  <2>2. \A p \in Claim(g) : p \in Queries
    BY <2>1, ClaimsQueries
  <2>3. \A p \in Claim(g) : Same(p) /\ \A s \in Servers : Queued(p, s)' => Queued(p, s)
    BY <2>2, StillWires, WireQueued
  <2> QED
    BY <2>1, <2>3, KeepsGood DEF Still
<1>4. Ended' = Ended
  BY <1>2 DEF Ended
<1>5. (Has("drop")' <=> Has("drop")) /\ (Has("cancel")' <=> Has("cancel"))
  BY <1>2 DEF Has
<1>6. \A p \in Live \ Claimed(stack') : p \in Live \ Claimed(stack) /\ Same(p)
  BY <1>2 DEF Live
<1>7. stack' \in Seq(Calls) /\ Nested(stack')
  BY <1>1, <1>2 DEF Framed
<1> QED
  BY <1>2, <1>3, <1>4, <1>5, <1>6, <1>7, QuietStep DEF Still, Kept

LEMMA AnswerStep ==
  ASSUME Inv, ~Idle, Rank(Top) = 3, UNCHANGED <<lookup, server, all, loose, size>>, NEW s \in Servers,
         NEW q \in server[s].asked \cup server[s].written, NEW tcp \in BOOLEAN,
         ProcessAnswer(q, s, tcp, Rest) \/ ProcessAnswer(q, s, tcp, stack)
  PROVE  Inv'
<1>1. Typed /\ Framed /\ Known
  BY DEF Inv
<1>2. q \in Live /\ q \in Queries
  BY <1>1 DEF Known, Live
<1>3. PICK rest : (rest = Rest \/ rest = stack) /\ ProcessAnswer(q, s, tcp, rest)
  OBVIOUS
<1>4. Top \in Calls /\ Frames(stack) = {Top} \cup Frames(Rest) /\ \A g \in Frames(Rest) : g.op \notin Active
  BY <1>1, Popped
<1>5. Claim(Top) = {} /\ Top.op \in Plain /\ Top.op \notin Active
  BY <1>4, CallFields, ClaimIs DEF Plain, Streams, Active, Ending, Visits, Rank
<1>6. ASSUME NEW how \in {"found", "missing"}, stack' = <<[op |-> "end", q |-> q, how |-> how]>> \o rest,
             UNCHANGED query
      PROVE  Inv'
  <2>1. PICK f \in Calls : f = [op |-> "end", q |-> q, how |-> how]
    BY <1>2, NewCall
  <2>2. f.op = "end" /\ f.q = q
    BY <2>1
  <2>3. Still /\ \A p \in Queries : Same(p)
    BY <1>1, <1>6, SameStill
  <2>4. stack' = <<f>> \o Rest \/ stack' = <<f>> \o stack
    BY <1>3, <1>6, <2>1
  <2> QED
    BY <1>2, <2>2, <2>3, <2>4, TakeOn
<1>7. ASSUME query' = [query EXCEPT ![q] = Skip(query[q], s)],
             stack' = IF query[q].server = s THEN <<GoOn(q)>> \o rest ELSE rest
      PROVE  Inv'
  <2>1. Still /\ \A p \in Queries : Same(p)
    BY <1>1, <1>2, <1>7, SkipStill
  <2>2. CASE query[q].server = s
    <3>1. PICK f \in Calls : f = GoOn(q)
      BY <1>2, NewCall DEF GoOn
    <3>2. f.op = "next" /\ f.q = q
      BY <3>1 DEF GoOn
    <3>3. stack' = <<f>> \o Rest \/ stack' = <<f>> \o stack
      BY <1>3, <1>7, <2>2, <3>1
    <3> QED
      BY <1>2, <2>1, <3>2, <3>3, TakeOn
  <2>3. CASE query[q].server # s /\ rest = Rest
    <3>1. stack' = Rest
      BY <1>7, <2>3
    <3> QED
      BY <1>5, <2>1, <3>1, Popping
  <2>4. CASE query[q].server # s /\ rest = stack
    <3>1. stack' = stack
      BY <1>7, <2>4
    <3>2. \A f \in Frames(stack) : f.op \notin Active
      BY <1>4, <1>5
    <3> QED
      BY <2>1, <3>1, <3>2, Staying
  <2> QED
    BY <1>3, <2>2, <2>3, <2>4
<1>8. ASSUME ~query[q].tcp, query' = [query EXCEPT ![q].tcp = TRUE], stack' = <<[op |-> "send", q |-> q]>> \o rest
      PROVE  Inv'
  <2>1. query \in [Queries -> QueryType] /\ query[q] \in QueryType
    BY <1>1, <1>2 DEF Typed
  <2>2. PICK w : w = [query[q] EXCEPT !.tcp = TRUE]
    OBVIOUS
  <2>3. /\ w \in QueryType /\ w.live = query[q].live /\ w.lookup = query[q].lookup /\ w.over = query[q].over
        /\ w.tcp = TRUE
    BY <2>1, <2>2 DEF QueryType
  <2>4. query' = [query EXCEPT ![q] = w]
    BY <1>8, <2>2
  <2>5. query' \in [Queries -> QueryType] /\ query'[q] = w /\ \A p \in Queries \ {q} : query'[p] = query[p]
    BY <1>2, <2>1, <2>3, <2>4
  <2>6. Still
    <3>1. \A p \in Queries : Kept(p)
      BY <1>2, <2>3, <2>5 DEF Kept
    <3> QED
      BY <2>5, <3>1 DEF Still
  <2>7. query'[q].over = {}
    BY <1>1, <1>2, <1>8, <2>3, <2>5 DEF Known
  <2>8. \A p \in Queries \ {q} : Same(p)
    BY <2>5 DEF Same
  <2>9. PICK f \in Calls : f = [op |-> "send", q |-> q]
    BY <1>2, NewCall
  <2>10. f.op = "send" /\ f.q = q
    BY <2>9
  <2>11. stack' = <<f>> \o Rest \/ stack' = <<f>> \o stack
    BY <1>3, <1>8, <2>9
  <2> QED
    BY <1>2, <2>6, <2>7, <2>8, <2>10, <2>11, TakeOn
<1> QED
  BY <1>3, <1>6, <1>7, <1>8 DEF ProcessAnswer

\* A read of a socket finds nothing, or an answer.
LEMMA ReadStep ==
  ASSUME Inv, ~Idle, Rank(Top) = 3, UNCHANGED <<lookup, server, all, loose, size>>,
         stack' = Rest, UNCHANGED query
  PROVE  Inv'
<1>1. Typed /\ Framed
  BY DEF Inv
<1>2. Top \in Calls
  BY <1>1, Popped
<1>3. Claim(Top) = {} /\ Top.op \in Plain
  BY <1>2, CallFields, ClaimIs DEF Plain, Streams, Active, Ending, Visits, Rank
<1>4. Still /\ \A p \in Queries : Same(p)
  BY <1>1, SameStill
<1> QED
  BY <1>3, <1>4, Popping

\* The call for a socket comes before the rest of ares_process_fd.
LEMMA StreamFirst ==
  ASSUME NEW f \in Calls, f.op \in Streams, NEW two \in Seq(Calls), Nested(two), Claimed(two) = {},
         \A g \in Frames(two) : g.op \in {"timeouts", "broken"}, stack' = <<f>> \o two
  PROVE  /\ stack' \in Seq(Calls) /\ Nested(stack') /\ Claimed(stack') = {}
         /\ \A g \in Frames(stack') : g.op \in Streams \cup {"timeouts", "broken"}
<1>1. Rank(f) = 3 /\ Claim(f) = {}
  BY RankIs, ClaimIs DEF Streams
<1>2. \A g \in Frames(two) : Above(f, g)
  BY <1>1, RankIs DEF Above
<1>3. /\ stack' \in Seq(Calls) /\ Nested(stack') /\ Frames(stack') = {f} \cup Frames(two)
      /\ Claimed(stack') = Claim(f) \cup Claimed(two)
  BY <1>2, Push
<1> QED
  BY <1>1, <1>3

LEMMA ProcessStep ==
  ASSUME Inv, Process
  PROVE  Inv'
<1>1. Typed /\ Framed /\ Idle /\ UNCHANGED <<lookup, query, server, all, loose, size>>
  BY DEF Inv, Process
<1>2. Still /\ \A p \in Queries : Same(p)
  BY <1>1, SameStill
<1>3. PICK b \in Calls : b = [op |-> "broken", s |-> 0]
  BY DEF Calls
<1>4. PICK t \in Calls : t = [op |-> "timeouts"]
  BY DEF Calls
<1>5. b.op = "broken" /\ t.op = "timeouts"
  BY <1>3, <1>4
<1>6. Rank(b) = 5 /\ Rank(t) = 4 /\ Claim(b) = {} /\ Claim(t) = {}
  BY <1>5, RankIs, ClaimIs
<1>7. Frames(<< >>) = {} /\ Nested(<< >>) /\ Claimed(<< >>) = {} /\ << >> \in Seq(Calls)
  BY NoFrames
<1>8. PICK last : last = <<b>> \o << >>
  OBVIOUS
<1>9. last \in Seq(Calls) /\ Frames(last) = {b} /\ Nested(last) /\ Claimed(last) = {}
  <2>1. \A g \in Frames(<< >>) : Above(b, g)
    BY <1>7
  <2> QED
    BY ZenonT(30), <1>6, <1>7, <1>8, <2>1, Push
<1>10. PICK two : two = <<t>> \o last
  OBVIOUS
<1>11. two \in Seq(Calls) /\ Frames(two) = {t, b} /\ Nested(two) /\ Claimed(two) = {}
  <2>1. \A g \in Frames(last) : Above(t, g)
    BY <1>6, <1>9 DEF Above
  <2> QED
    BY <1>6, <1>9, <1>10, <2>1, Push
<1>12. two = <<t, b>>
  <2>1. <<t, b>> \o << >> = <<t>> \o (<<b>> \o << >>)
    BY <1>7, PushCalls
  <2>2. <<t, b>> \in Seq(Calls)
    OBVIOUS
  <2>3. <<t, b>> \o << >> = <<t, b>>
    BY <2>2, ConcatEmptySeq
  <2> QED
    BY <1>8, <1>10, <2>1, <2>3
<1>13. /\ stack' \in Seq(Calls) /\ Nested(stack') /\ Claimed(stack') = {}
       /\ \A f \in Frames(stack') : f.op \in Streams \cup {"timeouts", "broken"}
  <2>1. PICK first : /\ first \in {<< >>} \cup {<<[op |-> op, s |-> s]>> : op \in {"write", "tcp", "udp"}, s \in Servers}
                     /\ stack' = first \o two
    BY <1>3, <1>4, <1>12 DEF Process
  <2>2. CASE first = << >>
    <3>1. stack' = two
      BY <1>11, <2>1, <2>2, ConcatEmptySeq
    <3> QED
      BY <1>5, <1>11, <3>1
  <2>3. CASE first \in {<<[op |-> op, s |-> s]>> : op \in {"write", "tcp", "udp"}, s \in Servers}
    <3>1. PICK o \in {"write", "tcp", "udp"}, s \in Servers : first = <<[op |-> o, s |-> s]>>
      BY <2>3
    <3>2. PICK f \in Calls : f = [op |-> o, s |-> s]
      <4>1. [op |-> o, s |-> s] \in [op : {"write", "tcp", "udp"}, s : Servers]
        OBVIOUS
      <4>2. [op |-> o, s |-> s] \in Calls
        BY <4>1 DEF Calls
      <4> QED
        BY <4>2
    <3>3. f.op \in Streams
      BY <3>2 DEF Streams
    <3>4. stack' = <<f>> \o two
      BY <2>1, <3>1, <3>2
    <3>5. \A g \in Frames(two) : g.op \in {"timeouts", "broken"}
      BY <1>5, <1>11
    <3> QED
      BY <1>11, <3>3, <3>4, <3>5, StreamFirst
  <2> QED
    BY <2>1, <2>2, <2>3
<1>14. Frames(stack) = {} /\ Claimed(stack) = {}
  BY <1>1, <1>7 DEF Idle
<1>15. ASSUME NEW f \in Frames(stack')
       PROVE  Good(f)'
  BY <1>13 DEF Good, Streams
<1>16. Ended' = Ended
  <2>1. \A f : f.op \in Ending \cup {"callback"} => (f \in Frames(stack') <=> f \in Frames(stack))
    BY <1>13, <1>14 DEF Ending, Streams
  <2> QED
    BY <2>1, SameEnded
<1>17. ~Has("drop")' /\ (Has("cancel")' <=> Has("cancel"))
  BY <1>13, <1>14 DEF Has, Streams
<1>18. \A p \in Live \ Claimed(stack') : p \in Live \ Claimed(stack) /\ Same(p)
  BY <1>2, <1>14 DEF Live
<1> QED
  BY <1>2, <1>13, <1>15, <1>16, <1>17, <1>18, QuietStep DEF Still, Kept

-----------------------------------------------------------------------------
(* handle_error                                                             *)

LEMMA NewServerType ==
  /\ NewServer \in ServerType /\ NewServer.udp = FALSE /\ NewServer.tcp = FALSE /\ NewServer.queue = << >>
  /\ NewServer.asked = {} /\ NewServer.written = {} /\ Len(NewServer.queue) = 0
<1>1. << >> \in Seq(Requests) /\ Len(<< >>) = 0
  BY EmptySeq
<1> QED
  BY <1>1 DEF NewServer, ServerType

LEMMA ErrorFacts ==
  ASSUME Typed, NEW s \in Servers, NEW rest, HandleError(s, rest)
  PROVE  /\ query' \in [Queries -> QueryType] /\ server' \in [Servers -> ServerType]
         /\ server'[s] = NewServer /\ \A r \in Servers \ {s} : server'[r] = server[r]
         /\ \A q \in Queries : /\ Alike(query'[q], query[q]) /\ query'[q].over = query[q].over \ {s}
                               /\ query'[q].armed = query[q].armed
                               /\ query'[q].place = IF q \in At(s) THEN Stolen ELSE query[q].place
         /\ stack' = <<[op |-> "errors", s |-> s, set |-> At(s)]>> \o rest
<1>1. query \in [Queries -> QueryType] /\ server \in [Servers -> ServerType]
  BY DEF Typed
<1>2. server' = [server EXCEPT ![s] = NewServer]
  BY DEF HandleError
<1>3. server' \in [Servers -> ServerType] /\ server'[s] = NewServer /\ \A r \in Servers \ {s} : server'[r] = server[r]
  BY <1>1, <1>2, NewServerType
<1>4. query' = [q \in Queries |-> [Closed(query[q], s) EXCEPT !.place = IF q \in At(s) THEN Stolen ELSE @]]
  BY DEF HandleError
<1>5. Stolen \in 0 .. N + 1
  BY SizeIs DEF Typed, Stolen
<1>6. ASSUME NEW q \in Queries
      PROVE  /\ query'[q] \in QueryType /\ Alike(query'[q], query[q]) /\ query'[q].over = query[q].over \ {s}
             /\ query'[q].armed = query[q].armed
             /\ query'[q].place = IF q \in At(s) THEN Stolen ELSE query[q].place
  <2>1. query[q] \in QueryType
    BY <1>1
  <2>2. PICK v : v = Closed(query[q], s)
    OBVIOUS
  <2>3. v \in QueryType /\ Alike(v, query[q]) /\ v.over = query[q].over \ {s} /\ Listed(v, query[q])
    BY <2>1, <2>2 DEF Closed, QueryType, Alike, Listed
  <2>4. query'[q] = [v EXCEPT !.place = IF q \in At(s) THEN Stolen ELSE @]
    BY <1>4, <2>2
  <2>5. PICK p : p = IF q \in At(s) THEN Stolen ELSE v.place
    OBVIOUS
  <2>6. p \in 0 .. N + 1
    BY <1>5, <2>3, <2>5 DEF QueryType
  <2>7. query'[q] = [v EXCEPT !.place = p]
    BY <2>3, <2>4, <2>5 DEF QueryType
  <2>8. [v EXCEPT !.place = p] \in QueryType /\ Alike([v EXCEPT !.place = p], v)
          /\ [v EXCEPT !.place = p].over = v.over
        /\ [v EXCEPT !.place = p].armed = v.armed /\ [v EXCEPT !.place = p].place = p
    BY <2>3, <2>6 DEF QueryType, Alike
  <2> QED
    BY <2>3, <2>5, <2>7, <2>8 DEF Alike, Listed
<1>7. query' \in [Queries -> QueryType]
  BY <1>4, <1>6
<1> QED
  BY <1>3, <1>6, <1>7 DEF HandleError

LEMMA ErrorHandled ==
  ASSUME Inv, ~Idle, Rank(Top) >= 3, UNCHANGED <<lookup, all, loose, size>>,
         NEW s \in Servers, NEW rest \in Seq(Calls), HandleError(s, rest), Nested(rest),
         \A g \in Frames(rest) : g \in Calls /\ Rank(g) >= 3
  PROVE  Inv'
<1>1. Typed /\ Framed /\ Held /\ Known /\ Cancelling /\ Answering /\ Quiet
  BY DEF Inv
<1>2. /\ query' \in [Queries -> QueryType] /\ server' \in [Servers -> ServerType]
      /\ server'[s] = NewServer /\ \A r \in Servers \ {s} : server'[r] = server[r]
      /\ \A q \in Queries : /\ Alike(query'[q], query[q]) /\ query'[q].over = query[q].over \ {s}
                            /\ query'[q].armed = query[q].armed
                            /\ query'[q].place = IF q \in At(s) THEN Stolen ELSE query[q].place
      /\ stack' = <<[op |-> "errors", s |-> s, set |-> At(s)]>> \o rest
  BY <1>1, ErrorFacts
<1>3. Claimed(stack) = {}
  BY <1>1, NoneClaimed
<1>4. \A q \in Live : Sits(q)
  BY <1>1, <1>3 DEF Held
<1>5. Servers' = Servers /\ Stolen' = Stolen /\ Live' = Live
  BY <1>2 DEF Servers, N, Stolen, Live, Alike
<1>6. \A q \in At(s) : q \in Live /\ q \in all /\ query[q].server = s
  BY <1>4 DEF At, Live, Sits
<1>7. PICK f : f = [op |-> "errors", s |-> s, set |-> At(s)]
  OBVIOUS
<1>8. f.op = "errors" /\ f.s = s /\ f.set = At(s) /\ f \in Calls
  <2>1. At(s) \subseteq Queries
    BY DEF At
  <2> QED
    BY <1>7, <2>1 DEF Calls
<1>9. Claim(f) = At(s) /\ Rank(f) = 2
  BY <1>8, ClaimIs, RankIs
<1>10. \A g \in Frames(rest) : g.op \in Streams \cup {"timeouts", "broken"}
  <2>1. \A g \in Calls : Rank(g) >= 3 => g.op \in Streams \cup {"timeouts", "broken"}
    BY CallFields
  <2> QED
    BY <2>1
<1>11. \A g \in Frames(rest) : Claim(g) = {}
  BY <1>10, ClaimIs DEF Streams
<1>12. /\ stack' \in Seq(Calls) /\ Nested(stack') /\ Frames(stack') = {f} \cup Frames(rest)
       /\ Claimed(stack') = At(s)
  <2>1. \A g \in Frames(rest) : Above(f, g)
    BY <1>9, <1>11, CallFields DEF Above
  <2>2. stack' = <<f>> \o rest
    BY <1>2, <1>7
  <2>3. stack' \in Seq(Calls) /\ Nested(stack') /\ Frames(stack') = {f} \cup Frames(rest)
        /\ Claimed(stack') = Claim(f) \cup Claimed(rest)
    BY <1>8, <2>1, <2>2, Push
  <2>4. Claimed(rest) = {}
    BY <1>11 DEF Claimed
  <2> QED
    BY <1>9, <2>3, <2>4
<1>13. \A g \in Frames(stack') : Good(g)'
  <2>1. Good(f)'
    BY <1>2, <1>5, <1>6, <1>8 DEF Good, Live, Alike
  <2>2. \A g \in Frames(rest) : Good(g)'
    BY <1>10 DEF Good, Streams
  <2> QED
    BY <1>12, <2>1, <2>2
<1>14. Framed'
  BY <1>1, <1>5, <1>12, <1>13 DEF Framed
<1>15. \A q \in Queries, r \in Servers \ {s} : Queued(q, r)' <=> Queued(q, r)
  BY <1>2 DEF Queued
<1>16. Held'
  <2> SUFFICES ASSUME NEW q \in Live' \ Claimed(stack')
               PROVE  Sits(q)'
    BY DEF Held
  <2>1. q \in Live /\ q \in Queries /\ q \notin At(s) /\ Sits(q)
    BY <1>4, <1>5, <1>12 DEF Live
  <2>2. PICK r : r = query[q].server
    OBVIOUS
  <2>3. r \in Servers
    BY <1>1, <2>1, <2>2 DEF Typed, QueryType
  <2>4. r # s
    BY <2>1, <2>2 DEF At, Live, Sits
  <2>5. Same(q)
    BY <1>2, <2>1 DEF Same, Alike
  <2> QED
    BY <1>2, <1>15, <2>1, <2>2, <2>3, <2>4, <2>5, KeepsSits
<1>17. Known'
  <2>1. OncePerConnection'
    <3> SUFFICES ASSUME NEW r \in Servers, NEW p \in Queries, NEW i \in 1 .. Len(server'[r].queue),
                        server'[r].queue[i] = Theirs(p)
                 PROVE  p \notin server'[r].written /\ \A j \in 1 .. i - 1 : server'[r].queue[j] # Theirs(p)
      BY <1>5 DEF OncePerConnection, Theirs
    <3>1. r # s
      BY <1>2, NewServerType
    <3> QED
      BY <1>1, <1>2, <3>1 DEF Known, OncePerConnection
  <2>2. ASSUME NEW r \in Servers, NEW p \in Queries, p \in server'[r].written \/ Queued(p, r)'
        PROVE  r \in query'[p].over
    <3>1. r # s
      BY <1>2, <2>2, NewServerType DEF Queued
    <3>2. p \in server[r].written \/ Queued(p, r)
      BY <1>2, <1>15, <2>2, <3>1
    <3> QED
      BY <1>1, <1>2, <3>1, <3>2 DEF Known
  <2>3. \A p \in Queries : ~query'[p].tcp => query'[p].over = {}
    BY <1>1, <1>2 DEF Known, Alike
  <2>4. \A r \in Servers : server'[r].asked \cup server'[r].written \subseteq Live'
    BY <1>1, <1>2, <1>5, NewServerType DEF Known
  <2>5. \A p \in Queries \ Live' : query'[p].over = {} /\ ~query'[p].tcp
    BY <1>1, <1>2, <1>5 DEF Known, Alike
  <2> QED
    BY <1>5, <2>1, <2>2, <2>3, <2>4, <2>5 DEF Known
<1>18. \A g \in Frames(stack) : g.op \in Streams \cup {"timeouts", "broken"}
  <2>1. Top \in Calls /\ Frames(stack) = {Top} \cup Frames(Rest) /\ \A g \in Frames(Rest) : g \in Calls
          /\ Above(Top, g)
    BY <1>1, Popped
  <2>2. \A g \in Frames(stack) : g \in Calls /\ Rank(g) >= 3
    BY <2>1, CallFields DEF Above
  <2>3. \A g \in Calls : Rank(g) >= 3 => g.op \in Streams \cup {"timeouts", "broken"}
    BY CallFields
  <2> QED
    BY <2>2, <2>3
<1>19. Ended' = Ended /\ ~Has("drop")' /\ ~Has("cancel")' /\ ~Has("cancel")
  <2>1. \A g : g.op \in Ending \cup {"callback", "cancel"} => g \notin Frames(stack') /\ g \notin Frames(stack)
    BY <1>8, <1>10, <1>12, <1>18 DEF Ending, Streams
  <2>2. Ended' = Ended
    BY <2>1, SameEnded
  <2> QED
    BY <2>1, <2>2 DEF Has, Ending
<1>20. Freeds' => Freeds
  <2> SUFFICES ASSUME NEW r \in Servers, NEW i \in 1 .. Len(server'[r].queue), server'[r].queue[i].data = "freed"
               PROVE  Freeds
    BY <1>5 DEF Freeds
  <2>1. r # s
    BY <1>2, NewServerType
  <2> QED
    BY <1>2, <2>1 DEF Freeds
<1>21. Cancelling'
  BY <1>1, <1>19, <1>20, KeepsCancelling
<1>22. Answering'
  BY <1>1, <1>2, <1>5, <1>19, KeepsAnswering DEF Live, Alike
<1>23. Quiet'
  BY <1>1, <1>2, <1>5, <1>19, NewServerType DEF Quiet
<1>24. Typed'
  BY <1>1, <1>2, <1>5, <1>12 DEF Typed, Calls, LookupType, QueryType, ServerType, Requests, N, Tries, Servers
<1> QED
  BY <1>14, <1>16, <1>17, <1>21, <1>22, <1>23, <1>24 DEF Inv

-----------------------------------------------------------------------------
(* ares_process_fd                                                          *)

\* write_tcp_data takes n requests off the queue of s.
Writes(s, n) ==
  server' = [server EXCEPT ![s].queue = SubSeq(@, n + 1, Len(@)),
                           ![s].written = @ \cup {q \in Queries : \E i \in 1 .. n : server[s].queue[i] = Theirs(q)}]

LEMMA WriteFacts ==
  ASSUME Typed, NEW s \in Servers, NEW n \in 0 .. Len(server[s].queue),
         Writes(s, n)
  PROVE  /\ server' \in [Servers -> ServerType] /\ \A r \in Servers \ {s} : server'[r] = server[r]
         /\ server'[s].udp = server[s].udp /\ server'[s].tcp = server[s].tcp /\ server'[s].asked = server[s].asked
         /\ server'[s].written = server[s].written \cup {q \in Queries : \E i \in 1 .. n : server[s].queue[i] = Theirs(q)}
         /\ Len(server[s].queue) \in Nat /\ Len(server'[s].queue) = Len(server[s].queue) - n
         /\ \A i \in 1 .. Len(server'[s].queue) : server'[s].queue[i] = server[s].queue[i + n]
<1>1. server \in [Servers -> ServerType] /\ server[s] \in ServerType
  BY DEF Typed
<1>2. PICK more : more = {q \in Queries : \E i \in 1 .. n : server[s].queue[i] = Theirs(q)}
  OBVIOUS
<1>3. PICK old \in Seq(Requests) : old = server[s].queue
  BY <1>1 DEF ServerType
<1>4. PICK new : new = SubSeq(old, n + 1, Len(old))
  OBVIOUS
<1>5. Len(old) \in Nat /\ n \in 0 .. Len(old)
  BY <1>3, LenProperties
<1>6. \A i \in n + 1 .. Len(old) : old[i] \in Requests
  <2>1. \A i \in n + 1 .. Len(old) : i \in 1 .. Len(old)
    BY <1>5
  <2> QED
    BY <2>1, ElementOfSeq
<1>7. /\ new \in Seq(Requests) /\ Len(new) = Len(old) - n
      /\ \A i \in 1 .. Len(new) : new[i] = old[i + n]
  <2>1. n + 1 \in Int /\ Len(old) \in Int
    BY <1>5
  <2>2. /\ SubSeq(old, n + 1, Len(old)) \in Seq(Requests)
        /\ Len(SubSeq(old, n + 1, Len(old))) = IF n + 1 <= Len(old) THEN Len(old) - (n + 1) + 1 ELSE 0
        /\ \A i \in 1 .. Len(old) - (n + 1) + 1 : SubSeq(old, n + 1, Len(old))[i] = old[n + 1 + i - 1]
    BY <1>6, <2>1, SubSeqProperties
  <2>3. Len(new) = Len(old) - n
    BY <1>4, <1>5, <2>2
  <2>4. ASSUME NEW i \in 1 .. Len(new)
        PROVE  new[i] = old[i + n]
    <3>1. i \in 1 .. Len(old) - (n + 1) + 1 /\ n + 1 + i - 1 = i + n
      BY <1>5, <2>3
    <3> QED
      BY <1>4, <2>2, <3>1
  <2> QED
    BY <1>4, <2>2, <2>3, <2>4
<1>8. server' = [server EXCEPT ![s].queue = new, ![s].written = @ \cup more]
  BY <1>1, <1>2, <1>3, <1>4 DEF ServerType, Writes
<1>9. PICK w : w = [server[s] EXCEPT !.queue = new, !.written = @ \cup more]
  OBVIOUS
<1>10. server' = [server EXCEPT ![s] = w]
  BY <1>1, <1>8, <1>9
<1>11. /\ w \in ServerType /\ w.queue = new /\ w.udp = server[s].udp /\ w.tcp = server[s].tcp
       /\ w.asked = server[s].asked
       /\ w.written = server[s].written \cup more
  BY <1>1, <1>2, <1>7, <1>9 DEF ServerType
<1> QED
  BY <1>1, <1>2, <1>3, <1>5, <1>7, <1>10, <1>11

LEMMA Shift ==
  ASSUME NEW a \in Nat, NEW n \in 0 .. a, NEW i \in 1 .. a - n, NEW j \in 1 .. i - 1
  PROVE  j \in 1 .. a - n /\ j + n \in 1 .. (i + n) - 1
OBVIOUS

LEMMA WriteStep ==
  ASSUME Inv, ~Idle, Rank(Top) = 3, NEW s \in Servers, NEW n \in 0 .. Len(server[s].queue),
         Writes(s, n),
         stack' = Rest, UNCHANGED <<lookup, query, all, loose, size>>
  PROVE  Inv'
<1>1. Typed /\ Framed /\ Held /\ Known /\ Cancelling /\ Answering /\ Quiet
  BY DEF Inv
<1>2. /\ server' \in [Servers -> ServerType] /\ \A r \in Servers \ {s} : server'[r] = server[r]
      /\ server'[s].udp = server[s].udp /\ server'[s].tcp = server[s].tcp /\ server'[s].asked = server[s].asked
      /\ server'[s].written = server[s].written \cup {q \in Queries : \E i \in 1 .. n : server[s].queue[i] = Theirs(q)}
      /\ Len(server[s].queue) \in Nat /\ Len(server'[s].queue) = Len(server[s].queue) - n
      /\ \A i \in 1 .. Len(server'[s].queue) : server'[s].queue[i] = server[s].queue[i + n]
  BY <1>1, WriteFacts
<1>3. Servers' = Servers /\ Live' = Live
  BY DEF Servers, N, Live
<1>4. /\ Top \in Calls /\ Rest \in Seq(Calls) /\ Nested(Rest) /\ Frames(stack) = {Top} \cup Frames(Rest)
      /\ Claimed(stack) = {} /\ Claimed(Rest) = {} /\ Claim(Top) = {}
  BY <1>1, Popped, NoneClaimed
<1>5. Top.op \in Plain
  BY <1>4, CallFields DEF Rank, Plain, Active, Ending, Visits, Streams
<1>6. \A p \in Queries : Same(p)
  BY DEF Same
<1>7. \A r \in Servers : Ears(r)
  BY <1>2 DEF Ears
<1> DEFINE old == server[s].queue
           new == server'[s].queue
<1>8. ASSUME NEW p \in Queries, NEW r \in Servers
      PROVE  /\ Queued(p, r)' => Queued(p, r)
             /\ p \in server'[r].written => p \in server[r].written \/ Queued(p, r)
             /\ p \in server[r].written => p \in server'[r].written
             /\ Queued(p, r) => p \in server'[r].written \/ Queued(p, r)'
  <2>1. CASE r # s
    BY <1>2, <2>1 DEF Queued
  <2>2. CASE r = s
    <3>0. n \in Nat /\ Len(old) \in Nat /\ n <= Len(old) /\ Len(new) = Len(old) - n
      BY <1>2
    <3>1. Queued(p, s)' => Queued(p, s)
      <4> SUFFICES ASSUME NEW i \in 1 .. Len(new), new[i] = Theirs(p)
                   PROVE  Queued(p, s)
        BY DEF Queued, Theirs
      <4>1. i + n \in 1 .. Len(old)
        BY <3>0
      <4>2. old[i + n] = Theirs(p)
        BY <1>2
      <4> QED
        BY <4>1, <4>2 DEF Queued
    <3>2. ASSUME p \in server'[s].written
          PROVE  p \in server[s].written \/ Queued(p, s)
      <4> SUFFICES ASSUME NEW i \in 1 .. n, old[i] = Theirs(p)
                   PROVE  Queued(p, s)
        BY <1>2, <3>2
      <4>1. i \in 1 .. Len(old)
        BY <3>0
      <4> QED
        BY <4>1 DEF Queued
    <3>3. ASSUME Queued(p, s)
          PROVE  p \in server'[s].written \/ Queued(p, s)'
      <4>1. PICK i \in 1 .. Len(old) : old[i] = Theirs(p)
        BY <3>3 DEF Queued
      <4>2. CASE i \in 1 .. n
        BY <1>2, <4>1, <4>2
      <4>3. CASE i \notin 1 .. n
        <5>1. i - n \in 1 .. Len(new) /\ (i - n) + n = i
          BY <3>0, <4>3
        <5>2. new[i - n] = old[i]
          BY <1>2, <5>1
        <5> QED
          BY <4>1, <5>1, <5>2 DEF Queued, Theirs
      <4> QED
        BY <4>2, <4>3
    <3> QED
      BY <1>2, <2>2, <3>1, <3>2, <3>3
  <2> QED
    BY <2>1, <2>2
<1>9. \A g \in Frames(Rest) : Good(g)'
  BY <1>1, <1>4, RestKeeps
<1>10. Framed'
  BY <1>1, <1>3, <1>4, <1>9 DEF Framed
<1>11. Held'
  <2>1. ASSUME NEW p \in Live' \ Claimed(stack')
        PROVE  /\ p \in Live \ Claimed(stack) /\ Same(p)
               /\ \A r \in Servers : Ears(r) /\ (p \in server[r].asked => p \in server'[r].asked)
                           /\ (p \in server[r].written \/ Queued(p, r) => p \in server'[r].written \/ Queued(p, r)')
    <3>1. p \in Live /\ p \in Queries
      BY <1>3 DEF Live
    <3>2. \A r \in Servers : server'[r].asked = server[r].asked
      BY <1>2
    <3> QED
      BY <1>4, <1>6, <1>7, <1>8, <3>1, <3>2
  <2> QED
    BY <1>1, <2>1, KeepsHeld
<1>12. Known'
  <2>1. OncePerConnection'
    <3> SUFFICES ASSUME NEW r \in Servers, NEW p \in Queries, NEW i \in 1 .. Len(server'[r].queue),
                        server'[r].queue[i] = Theirs(p)
                 PROVE  p \notin server'[r].written /\ \A j \in 1 .. i - 1 : server'[r].queue[j] # Theirs(p)
      BY <1>3 DEF OncePerConnection, Theirs
    <3>1. CASE r # s
      <4>1. server'[r] = server[r]
        BY <1>2, <3>1
      <4>2. i \in 1 .. Len(server[r].queue) /\ server[r].queue[i] = Theirs(p)
        BY <4>1
      <4>3. p \notin server[r].written /\ \A j \in 1 .. i - 1 : server[r].queue[j] # Theirs(p)
        BY <1>1, <4>2 DEF Known, OncePerConnection
      <4> QED
        BY <4>1, <4>3
    <3>2. CASE r = s
      <4>0. n \in Nat /\ Len(old) \in Nat /\ n <= Len(old) /\ Len(new) = Len(old) - n
        BY <1>2
      <4> i \in 1 .. Len(new) /\ new[i] = Theirs(p)
        BY <3>2
      <4>6. PICK a \in Nat : a = Len(old) /\ n \in 0 .. a /\ i \in 1 .. a - n
        BY <4>0
      <4>1. i + n \in 1 .. Len(old) /\ old[i + n] = Theirs(p)
        <5>1. i + n \in 1 .. Len(old)
          BY <4>6
        <5>2. new[i] = old[i + n]
          BY <1>2
        <5> QED
          BY <5>1, <5>2
      <4>2. p \notin server[s].written /\ \A j \in 1 .. (i + n) - 1 : old[j] # Theirs(p)
        BY <1>1, <4>1 DEF Known, OncePerConnection
      <4>3. \A j \in 1 .. n : j \in 1 .. (i + n) - 1
        BY <3>2, <4>0
      <4>4. p \notin server'[s].written
        BY <1>2, <4>2, <4>3
      <4>5. ASSUME NEW j \in 1 .. i - 1
            PROVE  new[j] # Theirs(p)
        <5>1. j \in 1 .. a - n /\ j + n \in 1 .. (i + n) - 1
          BY <4>6, Shift
        <5> QED
          BY <1>2, <4>0, <4>2, <4>6, <5>1
      <4> QED
        BY <3>2, <4>4, <4>5
    <3> QED
      BY <3>1, <3>2
  <2>2. \A r \in Servers, p \in Queries : p \in server'[r].written \/ Queued(p, r)' => r \in query'[p].over
    BY <1>1, <1>8 DEF Known
  <2>3. ASSUME NEW r \in Servers, NEW p \in server'[r].asked \cup server'[r].written
        PROVE  p \in Live
    <3>1. CASE p \in server'[r].asked
      BY <1>1, <1>2, <3>1 DEF Known
    <3>2. CASE p \in server'[r].written
      <4>1. p \in Queries
        BY <1>2, <3>2 DEF ServerType
      <4>2. r \in query[p].over
        BY <1>1, <1>8, <3>2, <4>1 DEF Known
      <4> QED
        BY <1>1, <4>1, <4>2 DEF Known
    <3> QED
      BY <2>3, <3>1, <3>2
  <2> QED
    BY <1>1, <1>3, <2>1, <2>2, <2>3 DEF Known
<1>13. Ended' = Ended /\ (Has("drop")' <=> Has("drop")) /\ (Has("cancel")' <=> Has("cancel"))
  BY <1>1, <1>5, PlainPop
<1>14. Freeds' => Freeds
  <2> SUFFICES ASSUME NEW r \in Servers, NEW i \in 1 .. Len(server'[r].queue), server'[r].queue[i].data = "freed"
               PROVE  Freeds
    BY <1>3 DEF Freeds
  <2>1. CASE r # s
    BY <1>2, <2>1 DEF Freeds
  <2>2. CASE r = s
    <3>0. n \in Nat /\ Len(old) \in Nat /\ n <= Len(old) /\ Len(new) = Len(old) - n
      BY <1>2
    <3> i \in 1 .. Len(new) /\ new[i].data = "freed"
      BY <2>2
    <3>1. i + n \in 1 .. Len(old) /\ old[i + n].data = "freed"
      <4>1. i + n \in 1 .. Len(old)
        BY <3>0
      <4>2. new[i] = old[i + n]
        BY <1>2
      <4> QED
        BY <4>1, <4>2
    <3> QED
      BY <3>1 DEF Freeds
  <2> QED
    BY <2>1, <2>2
<1>15. Cancelling'
  BY <1>1, <1>13, <1>14, KeepsCancelling
<1>16. Answering'
  BY <1>1, <1>3, <1>13, KeepsAnswering
<1>17. Quiet'
  <2>1. \A r \in Servers : server'[r].udp = server[r].udp /\ server'[r].tcp = server[r].tcp
    BY <1>2
  <2> QED
    BY <1>1, <1>3, <1>13, <2>1 DEF Quiet
<1>18. Typed'
  BY <1>1, <1>2, <1>3, <1>4 DEF Typed, Calls, LookupType, QueryType, ServerType, Requests, N, Tries, Servers
<1> QED
  BY <1>10, <1>11, <1>12, <1>15, <1>16, <1>17, <1>18 DEF Inv

LEMMA StreamTop ==
  ASSUME Typed, Framed, ~Idle, Top.op \in Streams
  PROVE  /\ Rank(Top) = 3 /\ Top.s \in Servers /\ Rest \in Seq(Calls) /\ Nested(Rest)
         /\ \A g \in Frames(Rest) : g \in Calls /\ Rank(g) >= 3
<1>1. /\ Top \in Calls /\ Rest \in Seq(Calls) /\ Nested(Rest)
      /\ \A g \in Frames(Rest) : g \in Calls /\ Above(Top, g)
  BY Popped
<1>2. Rank(Top) = 3 /\ Top.s \in Servers
  BY <1>1, RankIs, CallFields DEF Streams
<1> QED
  BY <1>1, <1>2, CallFields DEF Above

LEMMA WriteTcpStep ==
  ASSUME Inv, WriteTcp
  PROVE  Inv'
<1>1. Typed /\ Framed /\ ~Idle /\ Top.op \in Streams /\ UNCHANGED <<lookup, all, loose, size>>
  BY DEF Inv, WriteTcp, In, Streams
<1>2. /\ Rank(Top) = 3 /\ Top.s \in Servers /\ Rest \in Seq(Calls) /\ Nested(Rest)
      /\ \A g \in Frames(Rest) : g \in Calls /\ Rank(g) >= 3
  BY <1>1, StreamTop
<1>3. CASE HandleError(Top.s, Rest)
  BY <1>1, <1>2, <1>3, ErrorHandled
<1>4. CASE \E n \in 0 .. Len(server[Top.s].queue) : Writes(Top.s, n) /\ stack' = Rest /\ UNCHANGED query
  <2>1. PICK n \in 0 .. Len(server[Top.s].queue) : Writes(Top.s, n)
    BY <1>4
  <2> QED
    BY <1>1, <1>2, <1>4, <2>1, WriteStep
<1>5. HandleError(Top.s, Rest)
      \/ \E n \in 0 .. Len(server[Top.s].queue) : Writes(Top.s, n) /\ stack' = Rest /\ UNCHANGED query
  BY Zenon DEF WriteTcp, Writes
<1> QED
  BY <1>3, <1>4, <1>5

LEMMA ReadTcpStep ==
  ASSUME Inv, ReadTcp
  PROVE  Inv'
<1>1. Typed /\ Framed /\ ~Idle /\ Top.op \in Streams /\ UNCHANGED <<lookup, all, loose, size>>
  BY DEF Inv, ReadTcp, In, Streams
<1>2. /\ Rank(Top) = 3 /\ Top.s \in Servers /\ Rest \in Seq(Calls) /\ Nested(Rest)
      /\ \A g \in Frames(Rest) : g \in Calls /\ Rank(g) >= 3
  BY <1>1, StreamTop
<1>3. CASE HandleError(Top.s, Rest)
  BY <1>1, <1>2, <1>3, ErrorHandled
<1>4. CASE stack' = Rest /\ UNCHANGED <<query, server>>
  BY <1>1, <1>2, <1>4, ReadStep
<1>5. CASE \E q \in server[Top.s].written : ProcessAnswer(q, Top.s, TRUE, Rest) /\ UNCHANGED server
  <2>1. PICK q \in server[Top.s].written : ProcessAnswer(q, Top.s, TRUE, Rest) /\ UNCHANGED server
    BY <1>5
  <2>2. q \in server[Top.s].asked \cup server[Top.s].written
    OBVIOUS
  <2> QED
    BY <1>1, <1>2, <2>1, <2>2, AnswerStep
<1> QED
  BY <1>3, <1>4, <1>5, Zenon DEF ReadTcp

LEMMA ReadUdpStep ==
  ASSUME Inv, ReadUdp
  PROVE  Inv'
<1>1. Typed /\ Framed /\ ~Idle /\ Top.op \in Streams /\ UNCHANGED <<lookup, all, loose, size>>
  BY DEF Inv, ReadUdp, In, Streams
<1>2. /\ Rank(Top) = 3 /\ Top.s \in Servers /\ Rest \in Seq(Calls) /\ Nested(Rest)
      /\ \A g \in Frames(Rest) : g \in Calls /\ Rank(g) >= 3
  BY <1>1, StreamTop
<1>3. CASE HandleError(Top.s, Rest)
  BY <1>1, <1>2, <1>3, ErrorHandled
<1>4. CASE stack' = Rest /\ UNCHANGED <<query, server>>
  BY <1>1, <1>2, <1>4, ReadStep
<1>5. CASE \E q \in server[Top.s].asked : ProcessAnswer(q, Top.s, FALSE, stack) /\ UNCHANGED server
  <2>1. PICK q \in server[Top.s].asked : ProcessAnswer(q, Top.s, FALSE, stack) /\ UNCHANGED server
    BY <1>5
  <2>2. q \in server[Top.s].asked \cup server[Top.s].written
    OBVIOUS
  <2> QED
    BY <1>1, <1>2, <2>1, <2>2, AnswerStep
<1> QED
  BY <1>3, <1>4, <1>5, Zenon DEF ReadUdp

\* A set of numbers has a least one.
LEMMA Least ==
  ASSUME NEW S, S \subseteq Nat, S # {}
  PROVE  \E m \in S : \A n \in S : m <= n
<1>1. PICK m \in S : \A n \in S : ~(<<n, m>> \in OpToRel(<, Nat))
  <2>1. IsWellFoundedOn(OpToRel(<, Nat), Nat)
    BY Zenon, NatLessThanWellFounded
  <2> DEFINE R == OpToRel(<, Nat)
  <2>2. IsWellFoundedOn(R, Nat)
    BY <2>1
  <2> HIDE DEF R
  <2>3. \E m \in S : \A n \in S : ~(<<n, m>> \in R)
    BY Zenon, <2>2, WFMin
  <2> QED
    BY Zenon, <2>3 DEF R
<1>2. ASSUME NEW n \in S
      PROVE  m <= n
  <2>1. ~(<<n, m>> \in OpToRel(<, Nat))
    BY <1>1
  <2>2. ~(n < m)
    <3> SUFFICES ASSUME n < m PROVE FALSE
      OBVIOUS
    <3>1. \E x \in Nat, y \in Nat : <<n, m>> = <<x, y>> /\ x < y
      OBVIOUS
    <3> QED
      BY <2>1, <3>1 DEF OpToRel
  <2> QED
    BY <2>2
<1> QED
  BY <1>2

LEMMA BrokenStep ==
  ASSUME Inv, BrokenNext
  PROVE  Inv'
<1>1. Typed /\ Framed /\ ~Idle /\ Top.op = "broken" /\ UNCHANGED <<lookup, all, loose, size>>
  BY DEF Inv, BrokenNext, In
<1>2. /\ Top \in Calls /\ Rest \in Seq(Calls) /\ Nested(Rest)
      /\ \A g \in Frames(Rest) : g \in Calls /\ Above(Top, g)
  BY <1>1, Popped
<1>3. Rank(Top) = 5 /\ Claim(Top) = {} /\ Top.op \in Plain
  BY <1>1, RankIs, ClaimIs DEF Plain
<1>4. \A g \in Frames(Rest) : Rank(g) >= 6
  BY <1>2, <1>3, CallFields DEF Above
<1> DEFINE broken == {s \in Servers : s >= Top.s /\ server[s].broken}
           first  == CHOOSE s \in broken : \A r \in broken : s <= r
<1>5. CASE broken = {}
  <2>1. stack' = Rest /\ UNCHANGED <<query, server>>
    BY <1>5 DEF BrokenNext
  <2>2. Still /\ \A p \in Queries : Same(p)
    BY <1>1, <2>1, SameStill
  <2> QED
    BY <1>1, <1>3, <2>1, <2>2, Popping
<1>6. CASE broken # {}
  <2>1. broken \subseteq Nat
    BY <1>1, SizeIs DEF Typed, Servers
  <2>2. first \in Servers
    <3>1. \E x \in broken : \A y \in broken : x <= y
      BY <1>6, <2>1, Least
    <3> QED
      BY <3>1
  <2>3. PICK s \in Servers : s = first
    BY <2>2
  <2>4. PICK f : f = [Top EXCEPT !.s = s + 1]
    OBVIOUS
  <2>5. HandleError(s, <<f>> \o Rest)
    <3>1. HandleError(first, <<[Top EXCEPT !.s = first + 1]>> \o Rest)
      BY <1>6, Zenon DEF BrokenNext
    <3> QED
      BY <2>3, <2>4, <3>1
  <2> HIDE DEF broken, first
  <2>6. s \in Nat
    BY <1>1, SizeIs DEF Typed, Servers
  <2>7. f \in Calls /\ f.op = "broken"
    <3>1. Top \in [op : {"broken"}, s : Nat]
      BY <1>1, <1>2 DEF Calls
    <3>2. f \in [op : {"broken"}, s : Nat] /\ f.op = "broken"
      BY <2>4, <2>6, <3>1
    <3> QED
      BY <3>2 DEF Calls
  <2>8. Rank(f) = 5 /\ Claim(f) = {}
    BY <2>7, RankIs, ClaimIs
  <2>9. PICK rest : rest = <<f>> \o Rest
    OBVIOUS
  <2>10. rest \in Seq(Calls) /\ Nested(rest) /\ Frames(rest) = {f} \cup Frames(Rest)
    <3>1. \A g \in Frames(Rest) : Above(f, g)
      BY <1>2, <1>4, <2>8, CallFields DEF Above
    <3> QED
      BY <1>2, <2>7, <2>9, <3>1, Push
  <2>11. \A g \in Frames(rest) : g \in Calls /\ Rank(g) >= 3
    BY <1>2, <1>4, <2>7, <2>8, <2>10, CallFields
  <2> QED
    <3>1. HandleError(s, rest) /\ Rank(Top) >= 3
      BY <1>3, <2>5, <2>9
    <3> QED
      BY <1>1, <2>10, <2>11, <3>1, ErrorHandled
<1> QED
  BY <1>5, <1>6

-----------------------------------------------------------------------------
(* end_query                                                                *)

LEMMA SameInterval == ASSUME NEW m \in Nat, NEW n \in Nat, 1 .. m = 1 .. n PROVE m = n
<1>1. CASE m < n
  <2>1. n \in 1 .. n /\ n \notin 1 .. m
    BY <1>1
  <2> QED
    BY <2>1
<1>2. CASE n < m
  <2>1. m \in 1 .. m /\ m \notin 1 .. n
    BY <1>2
  <2> QED
    BY <2>1
<1> QED
  BY <1>1, <1>2

LEMMA ReplacedType ==
  ASSUME NEW queue \in Seq(Requests), NEW q \in Queries, NEW data \in {"copy", "blank", "freed"}
  PROVE  /\ Replaced(queue, q, data) \in Seq(Requests) /\ Len(Replaced(queue, q, data)) = Len(queue)
         /\ Len(queue) \in Nat
         /\ \A i \in 1 .. Len(queue) :
              Replaced(queue, q, data)[i] = IF queue[i] = Theirs(q) THEN [data |-> data] ELSE queue[i]
<1> DEFINE new == Replaced(queue, q, data)
<1>1. Len(queue) \in Nat /\ DOMAIN queue = 1 .. Len(queue) /\ \A i \in 1 .. Len(queue) : queue[i] \in Requests
  BY LenProperties, ElementOfSeq
<1>2. [data |-> data] \in Requests
  BY DEF Requests
<1>3. new \in [1 .. Len(queue) -> Requests]
  BY <1>1, <1>2 DEF Replaced
<1>4. new \in Seq(Requests)
  BY <1>1, <1>3, SeqDef
<1>5. Len(new) = Len(queue)
  <2> HIDE DEF new
  <2>1. Len(new) \in Nat /\ DOMAIN new = 1 .. Len(new)
    BY <1>4, LenProperties
  <2>2. 1 .. Len(new) = 1 .. Len(queue)
    BY <1>3, <2>1
  <2> QED
    BY <1>1, <2>1, <2>2, SameInterval
<1> QED
  BY <1>1, <1>4, <1>5 DEF Replaced

\* The queue of server r after the requests of q in it have become data.
Requeued(r, q, data) == server'[r].queue = Replaced(server[r].queue, q, data)

LEMMA RequeuedFacts ==
  ASSUME Typed, NEW r \in Servers, NEW q \in Queries, NEW data \in {"copy", "blank", "freed"}, Requeued(r, q, data)
  PROVE  /\ server'[r].queue \in Seq(Requests) /\ Len(server'[r].queue) = Len(server[r].queue)
         /\ ~Queued(q, r)'
         /\ \A p \in Queries, i \in 1 .. Len(server[r].queue) :
              server'[r].queue[i] = Theirs(p) <=> server[r].queue[i] = Theirs(p) /\ p # q
         /\ \A p \in Queries \ {q} : Queued(p, r)' <=> Queued(p, r)
         /\ \A i \in 1 .. Len(server[r].queue) :
              server'[r].queue[i].data = "freed" => server[r].queue[i].data = "freed" \/ data = "freed"
         /\ ~Queued(q, r) => server'[r].queue = server[r].queue
<1>1. PICK old \in Seq(Requests) : old = server[r].queue
  BY DEF Typed, ServerType
<1>2. PICK new : new = server'[r].queue
  OBVIOUS
<1>3. /\ new \in Seq(Requests) /\ Len(new) = Len(old) /\ Len(old) \in Nat
      /\ \A i \in 1 .. Len(old) : new[i] = IF old[i] = Theirs(q) THEN [data |-> data] ELSE old[i]
  <2>1. new = Replaced(old, q, data)
    BY <1>1, <1>2 DEF Requeued
  <2>2. /\ Replaced(old, q, data) \in Seq(Requests) /\ Len(Replaced(old, q, data)) = Len(old)
        /\ Len(old) \in Nat
        /\ \A i \in 1 .. Len(old) : Replaced(old, q, data)[i] = IF old[i] = Theirs(q) THEN [data |-> data] ELSE old[i]
    BY ReplacedType
  <2> QED
    BY <2>1, <2>2
<1>4. PICK d : d = [data |-> data]
  OBVIOUS
<1>5. d.data = data /\ \A p : Theirs(p).data = "theirs" /\ d # Theirs(p)
  BY <1>4 DEF Theirs
<1>6. \A p, x : Theirs(p) = Theirs(x) => p = x
  BY DEF Theirs
<1>7. ASSUME NEW p \in Queries, NEW i \in 1 .. Len(old)
      PROVE  new[i] = Theirs(p) <=> old[i] = Theirs(p) /\ p # q
  BY <1>3, <1>4, <1>5, <1>6
<1>8. ASSUME NEW p \in Queries
      PROVE  Queued(p, r)' <=> \E i \in 1 .. Len(new) : new[i] = Theirs(p)
  BY <1>2 DEF Queued, Theirs
<1>9. ASSUME NEW p \in Queries
      PROVE  Queued(p, r) <=> \E i \in 1 .. Len(old) : old[i] = Theirs(p)
  BY <1>1 DEF Queued
<1>10. ~Queued(q, r)' /\ \A p \in Queries \ {q} : Queued(p, r)' <=> Queued(p, r)
  BY <1>3, <1>7, <1>8, <1>9
<1>11. \A i \in 1 .. Len(old) : new[i].data = "freed" => old[i].data = "freed" \/ data = "freed"
  BY <1>3, <1>4, <1>5
<1>12. ~Queued(q, r) => new = old
  <2> SUFFICES ASSUME ~Queued(q, r)
               PROVE  new = old
    OBVIOUS
  <2>1. \A i \in 1 .. Len(old) : old[i] # Theirs(q)
    BY <1>9
  <2>2. \A i \in 1 .. Len(old) : new[i] = old[i]
    BY <1>3, <2>1
  <2> QED
    BY <1>3, <2>2, SeqEqual
<1> QED
  BY <1>1, <1>2, <1>3, <1>7, <1>10, <1>11, <1>12

LEMMA DetachedType ==
  ASSUME NEW v \in ServerType, NEW q \in Queries, NEW how,
         NEW data \in {"copy", "blank", "freed"}, data = IF how = "failed" THEN "blank" ELSE "copy"
  PROVE  /\ Detached(v, q, how) \in ServerType
         /\ Detached(v, q, how).queue = Replaced(v.queue, q, data)
         /\ Detached(v, q, how).udp = v.udp /\ Detached(v, q, how).tcp = v.tcp
         /\ Detached(v, q, how).asked = v.asked /\ Detached(v, q, how).written = v.written
<1>1. PICK b \in BOOLEAN : b = (v.broken \/ (how = "failed" /\ \E i \in 1 .. Len(v.queue) : v.queue[i] = Theirs(q)))
  OBVIOUS
<1>2. v.queue \in Seq(Requests)
  BY DEF ServerType
<1>3. PICK new \in Seq(Requests) : new = Replaced(v.queue, q, data)
  BY <1>2, ReplacedType
<1>4. Detached(v, q, how) = [v EXCEPT !.queue = new, !.broken = b]
  BY <1>1, <1>3 DEF Detached, ServerType
<1> QED
  BY <1>3, <1>4 DEF ServerType

LEMMA EndStep ==
  ASSUME Inv, EndQuery
  PROVE  Inv'
<1>1. /\ Typed /\ Framed /\ Held /\ Known /\ Cancelling /\ Answering /\ Quiet /\ ~Idle /\ Top.op = "end"
      /\ UNCHANGED <<lookup, query, all, loose, size>>
  BY DEF Inv, EndQuery, In
<1>2. /\ Top \in Calls /\ Rest \in Seq(Calls) /\ Nested(Rest) /\ Frames(stack) = {Top} \cup Frames(Rest)
      /\ Claimed(stack) = Claim(Top) \cup Claimed(Rest) /\ Claim(Top) \cap Claimed(Rest) = {} /\ Good(Top)
      /\ \A g \in Frames(Rest) : g \in Calls /\ Above(Top, g) /\ g.op \notin Active
  BY <1>1, Popped
<1>3. PICK q \in Queries, how \in {"found", "missing", "failed"} : q = Top.q /\ how = Top.how
  BY <1>1, <1>2 DEF Calls
<1>4. Claim(Top) = {q} /\ q \in all /\ q \in Live
  BY <1>1, <1>2, <1>3, ClaimIs DEF Good, Framed
<1>5. Servers' = Servers /\ Live' = Live
  BY <1>1 DEF Servers, N, Live
<1>6. PICK data \in {"copy", "blank", "freed"} : data = IF how = "failed" THEN "blank" ELSE "copy"
  OBVIOUS
<1>7. server' = [s \in Servers |-> Detached(server[s], q, how)]
  BY <1>3 DEF EndQuery
<1>8. ASSUME NEW s \in Servers
      PROVE  /\ server'[s] \in ServerType /\ Requeued(s, q, data)
             /\ server'[s].udp = server[s].udp /\ server'[s].tcp = server[s].tcp
             /\ server'[s].asked = server[s].asked /\ server'[s].written = server[s].written
  <2>1. server[s] \in ServerType
    BY <1>1 DEF Typed
  <2>2. server'[s] = Detached(server[s], q, how)
    BY <1>7
  <2> QED
    BY <1>6, <2>1, <2>2, DetachedType DEF Requeued
<1>9. server' \in [Servers -> ServerType]
  BY <1>7, <1>8
<1>10. ASSUME NEW s \in Servers
       PROVE  /\ Len(server'[s].queue) = Len(server[s].queue) /\ ~Queued(q, s)'
              /\ \A p \in Queries, i \in 1 .. Len(server[s].queue) :
                   server'[s].queue[i] = Theirs(p) <=> server[s].queue[i] = Theirs(p) /\ p # q
              /\ \A p \in Queries \ {q} : Queued(p, s)' <=> Queued(p, s)
              /\ \A i \in 1 .. Len(server[s].queue) :
                   server'[s].queue[i].data = "freed" => server[s].queue[i].data = "freed"
  <2>1. data # "freed"
    BY <1>6
  <2> QED
    BY <1>1, <1>8, <2>1, RequeuedFacts
<1>11. \A p \in Queries : Same(p)
  BY <1>1 DEF Same
<1>12. PICK c \in Calls : c = [op |-> "callback", q |-> q, how |-> how]
  BY NewCall
<1>13. PICK f \in Calls : f = [op |-> "free", q |-> q]
  BY NewCall
<1>14. c.op = "callback" /\ c.q = q /\ c.how = how /\ f.op = "free" /\ f.q = q
  BY <1>12, <1>13
<1>15. Claim(c) = {} /\ Rank(c) = 0 /\ Claim(f) = {q} /\ Rank(f) = 1 /\ Rank(Top) = 0
  BY <1>1, <1>14, ClaimIs, RankIs
<1>16. PICK rest : rest = <<f>> \o Rest
  OBVIOUS
<1>17. /\ rest \in Seq(Calls) /\ Nested(rest) /\ Frames(rest) = {f} \cup Frames(Rest)
       /\ Claimed(rest) = {q} \cup Claimed(Rest)
  <2>1. \A g \in Frames(Rest) : Above(f, g)
    <3>1. \A g \in Frames(Rest) : Rank(g) \in Nat /\ Rank(g) # 0 /\ {q} \cap Claim(g) = {}
      BY <1>2, <1>4, <1>15, CallFields DEF Above
    <3> QED
      BY <1>15, <3>1 DEF Above
  <2> QED
    BY <1>2, <1>15, <1>16, <2>1, Push
<1>18. stack' = <<c>> \o rest
  <2>1. <<c, f>> \o Rest = <<c>> \o (<<f>> \o Rest)
    BY <1>2, PushCalls
  <2>2. stack' = <<c, f>> \o Rest
    BY <1>3, <1>12, <1>13 DEF EndQuery
  <2> QED
    BY <1>16, <2>1, <2>2
<1>19. /\ stack' \in Seq(Calls) /\ Nested(stack') /\ Frames(stack') = {c, f} \cup Frames(Rest)
       /\ Claimed(stack') = Claimed(stack)
  <2>1. \A g \in Frames(rest) : Above(c, g)
    <3>1. \A g \in Frames(rest) : g \in Calls /\ Rank(g) \in Nat /\ Rank(g) # 0
      BY <1>2, <1>15, <1>17, CallFields
    <3> QED
      BY <1>15, <3>1 DEF Above
  <2>2. /\ <<c>> \o rest \in Seq(Calls) /\ Nested(<<c>> \o rest) /\ Frames(<<c>> \o rest) = {c} \cup Frames(rest)
        /\ Claimed(<<c>> \o rest) = Claim(c) \cup Claimed(rest)
    BY <1>17, <2>1, Push
  <2> QED
    BY <1>2, <1>4, <1>15, <1>17, <1>18, <2>2
<1>20. \A g \in Frames(Rest) : Good(g)'
  <2>1. \A p \in Claimed(Rest) : p \in Queries \ {q}
    BY <1>2, <1>4, ClaimedQueries
  <2>2. \A p \in Claimed(Rest) : Same(p) /\ \A s \in Servers : Queued(p, s)' => Queued(p, s)
    BY <1>10, <1>11, <2>1
  <2> QED
    BY <1>1, <2>2, RestKeeps
<1>21. Good(f)' /\ Good(c)'
  <2>1. Good(f)'
    BY <1>1, <1>4, <1>5, <1>10, <1>14 DEF Good
  <2>2. f \in Frames(stack') /\ c.how # "cancelled"
    BY <1>14, <1>19
  <2>3. Good(c)'
    BY <1>14, <2>2 DEF Good
  <2> QED
    BY <2>1, <2>3
<1>22. Framed'
  BY <1>1, <1>5, <1>19, <1>20, <1>21 DEF Framed
<1>23. Held'
  <2>1. ASSUME NEW p \in Live' \ Claimed(stack')
        PROVE  /\ p \in Live \ Claimed(stack) /\ Same(p)
               /\ \A s \in Servers : Ears(s) /\ (p \in server[s].asked => p \in server'[s].asked)
                           /\ (p \in server[s].written \/ Queued(p, s) => p \in server'[s].written \/ Queued(p, s)')
    <3>1. p \in Live \ Claimed(stack) /\ p \in Queries \ {q}
      BY <1>2, <1>4, <1>5, <1>19 DEF Live
    <3> QED
      BY <1>8, <1>10, <1>11, <3>1 DEF Ears
  <2> QED
    BY <1>1, <2>1, KeepsHeld
<1>24. Known'
  <2>1. OncePerConnection'
    <3> SUFFICES ASSUME NEW s \in Servers, NEW p \in Queries, NEW i \in 1 .. Len(server'[s].queue),
                        server'[s].queue[i] = Theirs(p)
                 PROVE  p \notin server'[s].written /\ \A j \in 1 .. i - 1 : server'[s].queue[j] # Theirs(p)
      BY <1>5 DEF OncePerConnection, Theirs
    <3>1. i \in 1 .. Len(server[s].queue) /\ server[s].queue[i] = Theirs(p)
      BY <1>10
    <3>2. p \notin server[s].written /\ \A j \in 1 .. i - 1 : server[s].queue[j] # Theirs(p)
      BY <1>1, <3>1 DEF Known, OncePerConnection
    <3>3. server[s].queue \in Seq(Requests)
      BY <1>1 DEF Typed, ServerType
    <3>4. Len(server[s].queue) \in Nat
      BY <3>3, LenProperties
    <3>5. \A j \in 1 .. i - 1 : j \in 1 .. Len(server[s].queue)
      BY <3>1, <3>4
    <3> QED
      BY <1>8, <1>10, <3>2, <3>5
  <2>2. ASSUME NEW s \in Servers, NEW p \in Queries, p \in server'[s].written \/ Queued(p, s)'
        PROVE  s \in query'[p].over
    <3>1. p \in server[s].written \/ Queued(p, s)
      BY <1>8, <1>10, <2>2
    <3> QED
      BY <1>1, <3>1 DEF Known
  <2>3. \A s \in Servers : server'[s].asked \cup server'[s].written \subseteq Live'
    BY <1>1, <1>5, <1>8 DEF Known
  <2> QED
    BY <1>1, <1>5, <2>1, <2>2, <2>3 DEF Known
<1>25. Ended' = Ended
  <2>1. \A p \in Queries \ {q} : \A g :
          g.q = p /\ g.op \in Ending \cup {"callback"} => (g \in Frames(stack') <=> g \in Frames(stack))
    BY <1>1, <1>2, <1>14, <1>19 DEF Ending
  <2>2. q \notin Ended'
    BY <1>14, <1>19 DEF Ended
  <2>3. q \notin Ended
    <3>1. \A g \in Frames(Rest) : g.op \in Ending => g.q # q
      BY <1>2, <1>4, ClaimIs DEF Above, Ending
    <3> QED
      BY <1>1, <1>2, <3>1 DEF Ended, Ending
  <2> QED
    BY <2>1, <2>2, <2>3 DEF Ended
<1>26. (Has("drop")' <=> Has("drop")) /\ (Has("cancel")' <=> Has("cancel"))
  BY <1>1, <1>2, <1>14, <1>19 DEF Has
<1>27. Freeds' => Freeds
  BY <1>5, <1>10 DEF Freeds
<1>28. Cancelling'
  BY <1>1, <1>26, <1>27, KeepsCancelling
<1>29. Answering'
  BY <1>1, <1>5, <1>25, KeepsAnswering
<1>30. Quiet'
  BY <1>4, <1>1 DEF Quiet
<1>31. Typed'
  BY <1>1, <1>5, <1>9, <1>19 DEF Typed, Calls, LookupType, QueryType, ServerType, Requests, N, Tries, Servers
<1> QED
  BY <1>22, <1>23, <1>24, <1>28, <1>29, <1>30, <1>31 DEF Inv

-----------------------------------------------------------------------------
(* Callbacks, and the lookups they begin and go on with                     *)

\* What a call leaves under way, and the lookups it has to do with: no new query, or one.
Ends(rest) == stack' = rest /\ UNCHANGED <<query, server, all>>

Asks(l, rest) ==
  /\ Unused # {}
  /\ query' = [query EXCEPT ![New] = [NoQuery EXCEPT !.live = TRUE, !.lookup = l]]
  /\ all' = all \cup {New}
  /\ stack' = <<[op |-> "send", q |-> New]>> \o rest
  /\ UNCHANGED server

\* A lookup that is answered, and one that is asked.
Answered(w) == w \in LookupType /\ w.started = TRUE /\ w.answers = 1
Asked(w) == w \in LookupType /\ w.started = TRUE /\ w.answers = 0

HostBegun(looks, m, rest) ==
  /\ ~looks[m].started /\ \A k \in Lookups \ {m} : lookup'[k] = looks[k]
  /\ (Ends(rest) /\ Answered(lookup'[m])) \/ (Asks(m, rest) /\ Asked(lookup'[m]))

LEMMA NoLookupType ==
  NoLookup \in LookupType /\ NoLookup.answers = 0
<1>1. 0 \in 0 .. Domains
  BY AresAssumption
<1> QED
  BY <1>1 DEF NoLookup, LookupType

LEMMA BegunType ==
  ASSUME NEW l \in Lookups, NEW v \in Begun(l)
  PROVE  Asked(v)
<1>1. PICK w : w = [NoLookup EXCEPT !.started = TRUE]
  OBVIOUS
<1>2. w \in LookupType /\ w.started = TRUE /\ w.answers = 0
  BY <1>1, NoLookupType DEF LookupType
<1>3. CASE l \in Searched
  <2>1. 1 \in 0 .. Domains
    BY <1>3, AresAssumption
  <2>2. v = [w EXCEPT !.asIs = TRUE] \/ v = [w EXCEPT !.next = 1]
    BY <1>1, <1>3 DEF Begun
  <2> QED
    BY <1>2, <2>1, <2>2 DEF Asked, LookupType
<1>4. CASE l \notin Searched
  <2>1. Domains \in 0 .. Domains
    BY AresAssumption
  <2>2. v = [w EXCEPT !.next = Domains, !.triedAsIs = TRUE]
    BY <1>1, <1>4 DEF Begun
  <2> QED
    BY <1>2, <2>1, <2>2 DEF Asked, LookupType
<1> QED
  BY <1>3, <1>4

LEMMA HostFacts ==
  ASSUME NEW looks \in [Lookups -> LookupType], NEW m \in Lookups, NEW rest, GetHostByName(looks, m, rest)
  PROVE  lookup' \in [Lookups -> LookupType] /\ HostBegun(looks, m, rest)
<1>1. ~looks[m].started /\ looks[m] \in LookupType
  BY DEF GetHostByName
<1>2. CASE /\ lookup' = [looks EXCEPT ![m].started = TRUE, ![m].answers = 1]
           /\ stack' = rest
           /\ UNCHANGED <<query, server, all>>
  <2>1. PICK w : w = [looks[m] EXCEPT !.started = TRUE, !.answers = 1]
    OBVIOUS
  <2>2. Answered(w)
    BY <1>1, <2>1 DEF Answered, LookupType
  <2>3. lookup' = [looks EXCEPT ![m] = w]
    BY <1>2, <2>1
  <2>4. /\ lookup' \in [Lookups -> LookupType] /\ lookup'[m] = w
        /\ \A k \in Lookups \ {m} : lookup'[k] = looks[k]
    BY <2>2, <2>3 DEF Answered
  <2> QED
    BY <1>1, <1>2, <2>2, <2>4 DEF HostBegun, Ends
<1>3. CASE \E v \in Begun(m) : Ask([looks EXCEPT ![m] = v], m, rest)
  <2>1. PICK v : v \in Begun(m) /\ Ask([looks EXCEPT ![m] = v], m, rest)
    BY <1>3
  <2>2. Asked(v)
    BY <2>1, BegunType
  <2>3. lookup' = [looks EXCEPT ![m] = v] /\ Asks(m, rest)
    BY <2>1, Zenon DEF Ask, Asks
  <2>4. /\ lookup' \in [Lookups -> LookupType] /\ lookup'[m] = v
        /\ \A k \in Lookups \ {m} : lookup'[k] = looks[k]
    BY <2>2, <2>3 DEF Asked
  <2> QED
    BY <1>1, <2>2, <2>3, <2>4 DEF HostBegun
<1> QED
  BY <1>2, <1>3, Zenon DEF GetHostByName

\* The calls that a callback, or the application, leaves under way.
Below(rest) ==
  /\ rest \in Seq(Calls) /\ Nested(rest) /\ Claimed(rest) = Claimed(stack)
  /\ \A g \in Frames(rest) : g \in Calls /\ Good(g) /\ g.op \notin Active
  /\ \A op \in {"drop", "cancel"} : (\E f \in Frames(rest) : f.op = op) <=> Has(op)

LEMMA EndsKeeps ==
  ASSUME Inv, NEW rest, Below(rest), Ends(rest), size' = size, lookup' \in [Lookups -> LookupType], loose' \in BOOLEAN
  PROVE  /\ Typed' /\ Framed' /\ Held' /\ Known' /\ Quiet'
         /\ (Has("drop")' <=> Has("drop")) /\ (Has("cancel")' <=> Has("cancel")) /\ (Freeds' <=> Freeds)
         /\ Live' = Live /\ \A p \in Queries : query'[p].lookup = query[p].lookup
<1>1. Typed /\ Framed /\ Held /\ Known /\ Quiet
  BY DEF Inv
<1>2. /\ rest \in Seq(Calls) /\ Nested(rest) /\ Claimed(rest) = Claimed(stack)
      /\ \A g \in Frames(rest) : g \in Calls /\ Good(g) /\ g.op \notin Active
      /\ \A op \in {"drop", "cancel"} : (\E f \in Frames(rest) : f.op = op) <=> Has(op)
  BY DEF Below
<1>3. stack' = rest /\ UNCHANGED <<query, server, all>>
  BY DEF Ends
<1>4. Servers' = Servers /\ Live' = Live
  BY <1>3 DEF Servers, N, Live
<1>5. (\A p \in Queries : Same(p)) /\ (\A s \in Servers : Wire(s) /\ Ears(s))
  BY <1>3 DEF Same, Wire, Ears
<1>6. Frames(stack') = Frames(rest) /\ Claimed(stack') = Claimed(stack)
  BY <1>2, <1>3
<1>7. ASSUME NEW g \in Frames(rest)
      PROVE  Good(g)'
  <2>1. \A p \in Claim(g) : p \in Queries
    BY <1>2, ClaimsQueries
  <2>2. \A p \in Claim(g) : Same(p) /\ \A s \in Servers : Queued(p, s)' => Queued(p, s)
    BY <1>5, <2>1, WireQueued
  <2> QED
    BY <1>2, <2>2, KeepsGood
<1>8. Framed'
  BY <1>1, <1>2, <1>3, <1>4, <1>6, <1>7 DEF Framed
<1>9. Held'
  <2>1. ASSUME NEW p \in Live' \ Claimed(stack')
        PROVE  /\ p \in Live \ Claimed(stack) /\ Same(p)
               /\ \A s \in Servers : Ears(s) /\ (p \in server[s].asked => p \in server'[s].asked)
                           /\ (p \in server[s].written \/ Queued(p, s) => p \in server'[s].written \/ Queued(p, s)')
    <3>1. p \in Live \ Claimed(stack) /\ p \in Queries
      BY <1>4, <1>6 DEF Live
    <3> QED
      BY <1>5, <3>1, WireQueued DEF Wire
  <2> QED
    BY <1>1, <2>1, KeepsHeld
<1>10. Known'
  BY <1>1, <1>3, <1>4, <1>5, WiresKnown
<1>11. (Has("drop")' <=> Has("drop")) /\ (Has("cancel")' <=> Has("cancel"))
  <2>1. \A op \in {"drop", "cancel"} : Has(op)' <=> Has(op)
    BY <1>2, <1>6 DEF Has
  <2> QED
    BY <2>1
<1>12. Freeds' <=> Freeds
  BY <1>5, WiresFreeds
<1>13. Quiet'
  BY <1>1, <1>3, <1>4, <1>11 DEF Quiet
<1>14. Typed'
  BY <1>1, <1>2, <1>3, <1>4 DEF Typed, Calls, LookupType, QueryType, ServerType, Requests, N, Tries, Servers
<1> QED
  BY <1>3, <1>4, <1>8, <1>9, <1>10, <1>11, <1>12, <1>13, <1>14

LEMMA NewIs == ASSUME Unused # {} PROVE New \in Queries /\ New \notin Live
<1>1. Unused \subseteq Nat
  BY AresAssumption DEF Unused
<1>2. \E q \in Unused : \A p \in Unused : q <= p
  BY <1>1, Least
<1>3. New \in Unused
  BY <1>2 DEF New
<1> QED
  BY <1>3 DEF Unused, Live

LEMMA NoQueryIs ==
  ASSUME size \in Sizes
  PROVE  /\ NoQuery \in QueryType /\ NoQuery.live = FALSE /\ NoQuery.tcp = FALSE /\ NoQuery.over = {}
         /\ \A l \in Lookups : LET v == [NoQuery EXCEPT !.live = TRUE, !.lookup = l]
                               IN  v \in QueryType /\ v.live = TRUE /\ v.lookup = l /\ v.tcp = FALSE /\ v.over = {}
<1>1. 0 \in Servers /\ 0 \in 0 .. N * Tries - 1 /\ Nowhere \in 0 .. N + 1
  BY SizeIs DEF Servers, Nowhere
<1> QED
  BY <1>1 DEF NoQuery, QueryType

LEMMA NoQueryType ==
  ASSUME Typed
  PROVE  /\ NoQuery \in QueryType /\ NoQuery.live = FALSE /\ NoQuery.tcp = FALSE /\ NoQuery.over = {}
         /\ \A l \in Lookups : LET v == [NoQuery EXCEPT !.live = TRUE, !.lookup = l]
                               IN  v \in QueryType /\ v.live = TRUE /\ v.lookup = l /\ v.tcp = FALSE /\ v.over = {}
BY NoQueryIs DEF Typed

LEMMA AsksKeeps ==
  ASSUME Inv, NEW rest, Below(rest), NEW l \in Lookups, Asks(l, rest), size' = size,
         lookup' \in [Lookups -> LookupType], loose' \in BOOLEAN
  PROVE  /\ Typed' /\ Framed' /\ Held' /\ Known' /\ Quiet' /\ all' # {} /\ all' # all
         /\ (Has("drop")' <=> Has("drop")) /\ (Has("cancel")' <=> Has("cancel")) /\ (Freeds' <=> Freeds)
         /\ New \in Queries \ Live /\ Live' = Live \cup {New} /\ query'[New].lookup = l
         /\ \A p \in Queries \ {New} : query'[p].lookup = query[p].lookup
         /\ \E f \in Calls : f.op = "send" /\ Frames(stack') = {f} \cup Frames(rest)
<1>1. Typed /\ Framed /\ Held /\ Known /\ Quiet
  BY DEF Inv
<1>2. /\ rest \in Seq(Calls) /\ Nested(rest) /\ Claimed(rest) = Claimed(stack)
      /\ \A g \in Frames(rest) : g \in Calls /\ Good(g) /\ g.op \notin Active
      /\ \A op \in {"drop", "cancel"} : (\E f \in Frames(rest) : f.op = op) <=> Has(op)
  BY DEF Below
<1>3. PICK n \in Queries \ Live : n = New
  BY NewIs DEF Asks
<1>4. PICK v : v = [NoQuery EXCEPT !.live = TRUE, !.lookup = l]
  OBVIOUS
<1>5. v \in QueryType /\ v.live = TRUE /\ v.lookup = l /\ v.tcp = FALSE /\ v.over = {}
  BY <1>1, <1>4, NoQueryType
<1>6. /\ query' = [query EXCEPT ![n] = v] /\ all' = all \cup {n}
      /\ stack' = <<[op |-> "send", q |-> n]>> \o rest /\ server' = server
  BY <1>3, <1>4 DEF Asks
<1>7. /\ query' \in [Queries -> QueryType] /\ query'[n] = v /\ \A p \in Queries \ {n} : query'[p] = query[p]
  BY <1>1, <1>5, <1>6 DEF Typed
<1>8. Servers' = Servers /\ Live' = Live \cup {n} /\ n \notin all
  BY <1>1, <1>3, <1>5, <1>7 DEF Servers, N, Live, Framed
<1>9. PICK f \in Calls : f = [op |-> "send", q |-> n]
  BY NewCall
<1>10. f.op = "send" /\ f.q = n
  BY <1>9
<1>11. Claim(f) = {n} /\ Rank(f) = 0
  BY <1>10, ClaimIs, RankIs
<1>12. \A p \in Queries \ {n} : Same(p)
  BY <1>6, <1>7 DEF Same
<1>13. \A s \in Servers : Wire(s) /\ Ears(s)
  BY <1>6 DEF Wire, Ears
<1>14. ASSUME NEW g \in Frames(rest)
       PROVE  n \notin Claim(g) /\ Claim(g) \subseteq Queries /\ Rank(g) \in Nat /\ Rank(g) # 0
  <2>1. Rank(g) \in Nat /\ Rank(g) # 0 /\ Claim(g) \subseteq Queries
    BY <1>2, CallFields, ClaimsQueries
  <2>2. Claim(g) \subseteq Live
    <3>1. CASE g.op \in Ending
      BY <1>1, <1>2, <3>1, ClaimIs DEF Good, Framed, Ending
    <3>2. CASE g.op \in Visits
      BY <1>1, <1>2, <3>2, ClaimIs DEF Good, Framed, Visits
    <3>3. CASE g.op \notin Ending \cup Visits
      BY <1>2, <3>3 DEF Claim, Active
    <3> QED
      BY <3>1, <3>2, <3>3
  <2> QED
    BY <1>3, <2>1, <2>2
<1>15. /\ stack' \in Seq(Calls) /\ Nested(stack') /\ Frames(stack') = {f} \cup Frames(rest)
       /\ Claimed(stack') = {n} \cup Claimed(stack)
  <2>1. \A g \in Frames(rest) : Above(f, g)
    BY <1>11, <1>14 DEF Above
  <2>2. stack' = <<f>> \o rest
    BY <1>6, <1>9
  <2>3. /\ <<f>> \o rest \in Seq(Calls) /\ Nested(<<f>> \o rest) /\ Frames(<<f>> \o rest) = {f} \cup Frames(rest)
        /\ Claimed(<<f>> \o rest) = Claim(f) \cup Claimed(rest)
    BY <1>2, <2>1, Push
  <2> QED
    BY <1>2, <1>11, <2>2, <2>3
<1>16. ASSUME NEW g \in Frames(rest)
       PROVE  Good(g)'
  <2>1. \A p \in Claim(g) : Same(p) /\ \A s \in Servers : Queued(p, s)' => Queued(p, s)
    BY <1>12, <1>13, <1>14, WireQueued
  <2> QED
    BY <1>2, <2>1, KeepsGood
<1>17. Good(f)'
  BY <1>5, <1>6, <1>7, <1>10 DEF Good
<1>18. Framed'
  BY <1>1, <1>6, <1>8, <1>15, <1>16, <1>17 DEF Framed
<1>19. Held'
  <2>1. ASSUME NEW p \in Live' \ Claimed(stack')
        PROVE  /\ p \in Live \ Claimed(stack) /\ Same(p)
               /\ \A s \in Servers : Ears(s) /\ (p \in server[s].asked => p \in server'[s].asked)
                           /\ (p \in server[s].written \/ Queued(p, s) => p \in server'[s].written \/ Queued(p, s)')
    <3>1. p \in Live \ Claimed(stack) /\ p \in Queries \ {n}
      BY <1>8, <1>15 DEF Live
    <3> QED
      BY <1>12, <1>13, <3>1, WireQueued DEF Wire
  <2> QED
    BY <1>1, <2>1, KeepsHeld
<1>20. Known'
  <2>1. query[n].over = {} /\ ~query[n].tcp
    BY <1>1, <1>3 DEF Known
  <2>2. OncePerConnection'
    BY <1>1, <1>6, <1>8 DEF Known, OncePerConnection
  <2>3. \A p \in Queries : query'[p].over = query[p].over /\ (query'[p].tcp <=> query[p].tcp)
    BY <1>5, <1>7, <2>1
  <2>4. \A s \in Servers, p \in Queries : p \in server'[s].written \/ Queued(p, s)' => s \in query'[p].over
    BY <1>1, <1>13, <2>3, WireQueued DEF Known, Wire
  <2>5. \A s \in Servers : server'[s].asked \cup server'[s].written \subseteq Live'
    BY <1>1, <1>6, <1>8 DEF Known
  <2>6. \A p \in Queries : ~query'[p].tcp => query'[p].over = {}
    BY <1>1, <2>3 DEF Known
  <2>7. \A p \in Queries \ Live' : query'[p].over = {} /\ ~query'[p].tcp
    BY <1>1, <1>8, <2>3 DEF Known
  <2> QED
    BY <1>8, <2>2, <2>4, <2>5, <2>6, <2>7 DEF Known
<1>21. (Has("drop")' <=> Has("drop")) /\ (Has("cancel")' <=> Has("cancel"))
  <2>1. \A op \in {"drop", "cancel"} : Has(op)' <=> Has(op)
    BY <1>2, <1>10, <1>15 DEF Has
  <2> QED
    BY <2>1
<1>22. Freeds' <=> Freeds
  BY <1>13, WiresFreeds
<1>23. all' # {} /\ all' # all
  BY <1>6, <1>8
<1>24. Typed'
  BY <1>1, <1>2, <1>6, <1>7, <1>8, <1>15 DEF Typed, Calls, LookupType, QueryType, ServerType, Requests, N,
     Tries, Servers
<1>25. Quiet'
  BY <1>23 DEF Quiet
<1> QED
  BY <1>3, <1>5, <1>7, <1>8, <1>10, <1>15, <1>18, <1>19, <1>20, <1>21, <1>22, <1>23, <1>24, <1>25

\* A lookup whose queries that have not ended are P.
Well(w, P) ==
  /\ \A p, q \in P : p = q
  /\ w.answers \in {0, 1}
  /\ w.started <=> w.answers = 1 \/ P # {}
  /\ w.answers = 1 => P = {}

LEMMA AnsweringIs ==
  Answering <=> (\A q \in Live : query[q].lookup \in Lookups) /\ \A l \in Lookups : Well(lookup[l], Pending(l))
BY DEF Answering, Well

LEMMA AnsweringThen ==
  ASSUME \A q \in Live' : query'[q].lookup \in Lookups, NEW P, \A l \in Lookups : Pending(l)' = P[l],
         \A l \in Lookups : Well(lookup'[l], P[l])
  PROVE  Answering'
BY DEF Answering, Well

LEMMA WellAnswered == ASSUME NEW w, Answered(w) PROVE Well(w, {})
BY DEF Answered, Well

LEMMA WellAsked == ASSUME NEW w, NEW n, Asked(w) PROVE Well(w, {n})
BY DEF Asked, Well

LEMMA EndedLive == ASSUME Framed PROVE Ended \subseteq Live
BY DEF Framed, Good, Ended, Ending

LEMMA EndsPending ==
  ASSUME Live' = Live, \A p \in Queries : query'[p].lookup = query[p].lookup, NEW Q, Ended' = Ended \cup Q, NEW k
  PROVE  Pending(k)' = Pending(k) \ Q
BY DEF Pending, Live

LEMMA AsksPending ==
  ASSUME NEW n \in Queries \ Live, NEW m, Live' = Live \cup {n}, query'[n].lookup = m, Ended \subseteq Live,
         \A p \in Queries \ {n} : query'[p].lookup = query[p].lookup,
         NEW Q, Q \subseteq Live, Ended' = Ended \cup Q, NEW k
  PROVE  /\ k # m => Pending(k)' = Pending(k) \ Q
         /\ k = m => Pending(k)' = (Pending(k) \ Q) \cup {n}
BY DEF Pending, Live

\* Another lookup begins, after the one of the queries of Q has been answered.
LEMMA HostKeeps ==
  ASSUME Inv, NEW rest, Below(rest), size' = size, loose' \in BOOLEAN, lookup' \in [Lookups -> LookupType],
         NEW looks, NEW m \in Lookups, HostBegun(looks, m, rest), NEW Q, Q \subseteq Live, Ended' = Ended \cup Q,
         \A k \in Lookups : Well(looks[k], Pending(k) \ Q)
  PROVE  Answering'
<1>1. Typed /\ Framed /\ Answering
  BY DEF Inv
<1>2. ~looks[m].started /\ \A k \in Lookups \ {m} : lookup'[k] = looks[k]
  BY DEF HostBegun
<1>3. Pending(m) \ Q = {}
  BY <1>2 DEF Well
<1>4. CASE Ends(rest) /\ Answered(lookup'[m])
  <2>1. Live' = Live /\ \A p \in Queries : query'[p].lookup = query[p].lookup
    BY <1>4, EndsKeeps
  <2>2. \A k \in Lookups : Pending(k)' = Pending(k) \ Q
    BY <2>1, EndsPending
  <2>3. PICK P : P = [k \in Lookups |-> Pending(k) \ Q]
    OBVIOUS
  <2>4. \A k \in Lookups : P[k] = Pending(k) \ Q
    BY <2>3
  <2>5. ASSUME NEW k \in Lookups
        PROVE  Well(lookup'[k], P[k])
    <3>1. CASE k = m
      BY <1>3, <1>4, <2>4, <3>1, WellAnswered
    <3>2. CASE k # m
      BY <1>2, <2>4, <3>2
    <3> QED
      BY <3>1, <3>2
  <2>6. \A q \in Live' : query'[q].lookup \in Lookups
    BY <1>1, <2>1 DEF Answering, Live
  <2> QED
    BY <2>2, <2>4, <2>5, <2>6, AnsweringThen
<1>5. CASE Asks(m, rest) /\ Asked(lookup'[m])
  <2>1. /\ New \in Queries \ Live /\ Live' = Live \cup {New} /\ query'[New].lookup = m
        /\ \A p \in Queries \ {New} : query'[p].lookup = query[p].lookup
    BY <1>5, AsksKeeps
  <2>2. Ended \subseteq Live
    BY <1>1, EndedLive
  <2>3. \A k \in Lookups : /\ k # m => Pending(k)' = Pending(k) \ Q
                           /\ k = m => Pending(k)' = (Pending(k) \ Q) \cup {New}
    BY <2>1, <2>2, AsksPending
  <2>4. PICK P : P = [k \in Lookups |-> IF k = m THEN {New} ELSE Pending(k) \ Q]
    OBVIOUS
  <2>5. (\A k \in Lookups \ {m} : P[k] = Pending(k) \ Q) /\ P[m] = {New}
    BY <2>4
  <2>6. \A k \in Lookups : Pending(k)' = P[k]
    BY <1>3, <2>3, <2>5
  <2>7. ASSUME NEW k \in Lookups
        PROVE  Well(lookup'[k], P[k])
    <3>1. CASE k = m
      <4>1. Well(lookup'[m], {New})
        BY <1>5, WellAsked
      <4> QED
        BY <2>5, <3>1, <4>1
    <3>2. CASE k # m
      BY <1>2, <2>5, <3>2
    <3> QED
      BY <3>1, <3>2
  <2>8. \A q \in Live' : query'[q].lookup \in Lookups
    BY <1>1, <2>1 DEF Answering, Live
  <2> QED
    BY <2>6, <2>7, <2>8, AnsweringThen
<1> QED
  BY <1>4, <1>5 DEF HostBegun

LEMMA HostStill ==
  ASSUME Inv, NEW rest, Below(rest), size' = size, loose' \in BOOLEAN, lookup' \in [Lookups -> LookupType],
         NEW looks, NEW m \in Lookups, HostBegun(looks, m, rest)
  PROVE  /\ Typed' /\ Framed' /\ Held' /\ Known' /\ Quiet'
         /\ (Has("drop")' <=> Has("drop")) /\ (Has("cancel")' <=> Has("cancel")) /\ (Freeds' <=> Freeds)
         /\ all' = all \/ (all' # all /\ all' # {})
         /\ \A f : f.op \in Ending \cup {"callback"} => (f \in Frames(stack') <=> f \in Frames(rest))
<1>1. CASE Ends(rest)
  <2>1. Frames(stack') = Frames(rest) /\ all' = all
    BY <1>1 DEF Ends
  <2> QED
    BY <1>1, <2>1, EndsKeeps
<1>2. CASE Asks(m, rest)
  <2>1. /\ Typed' /\ Framed' /\ Held' /\ Known' /\ Quiet' /\ all' # {} /\ all' # all
        /\ (Has("drop")' <=> Has("drop")) /\ (Has("cancel")' <=> Has("cancel")) /\ (Freeds' <=> Freeds)
        /\ \E f \in Calls : f.op = "send" /\ Frames(stack') = {f} \cup Frames(rest)
    BY <1>2, AsksKeeps
  <2>2. \A f : f.op \in Ending \cup {"callback"} => (f \in Frames(stack') <=> f \in Frames(rest))
    BY <2>1 DEF Ending
  <2> QED
    BY <2>1, <2>2
<1> QED
  BY <1>1, <1>2 DEF HostBegun

LEMMA StartStep ==
  ASSUME Inv, NEW l \in Lookups, Start(l)
  PROVE  Inv'
<1>1. /\ Typed /\ Framed /\ Cancelling /\ Answering /\ Idle /\ UNCHANGED <<loose, size>>
      /\ GetHostByName(lookup, l, << >>) /\ lookup \in [Lookups -> LookupType] /\ loose \in BOOLEAN
  BY DEF Inv, Start, Typed
<1>2. Frames(<< >>) = {} /\ Nested(<< >>) /\ Claimed(<< >>) = {} /\ << >> \in Seq(Calls)
  BY NoFrames
<1>3. Frames(stack) = {} /\ Claimed(stack) = {}
  BY <1>1, <1>2 DEF Idle
<1>4. PICK rest : rest = << >>
  OBVIOUS
<1>5. Below(rest)
  BY <1>2, <1>3, <1>4 DEF Below, Has
<1>6. lookup' \in [Lookups -> LookupType] /\ HostBegun(lookup, l, rest)
  BY <1>1, <1>4, HostFacts
<1>7. /\ Typed' /\ Framed' /\ Held' /\ Known' /\ Quiet'
      /\ (Has("drop")' <=> Has("drop")) /\ (Has("cancel")' <=> Has("cancel")) /\ (Freeds' <=> Freeds)
      /\ \A f : f.op \in Ending \cup {"callback"} => (f \in Frames(stack') <=> f \in Frames(rest))
  BY <1>1, <1>5, <1>6, HostStill
<1>8. Ended' = Ended
  BY <1>2, <1>3, <1>4, <1>7, SameEnded
<1>9. Cancelling'
  BY <1>1, <1>3, <1>7 DEF Cancelling, Has
<1>10. Answering'
  <2>1. PICK Q : Q = {}
    OBVIOUS
  <2>2. Q \subseteq Live /\ Ended' = Ended \cup Q
    BY <1>8, <2>1
  <2>3. \A k \in Lookups : Pending(k) \ Q = Pending(k)
    BY <2>1
  <2>4. \A k \in Lookups : Well(lookup[k], Pending(k) \ Q)
    BY <1>1, <2>3, AnsweringIs
  <2> QED
    BY <1>1, <1>5, <1>6, <2>2, <2>4, HostKeeps
<1> QED
  BY <1>7, <1>9, <1>10 DEF Inv

LEMMA NextNameType ==
  ASSUME NEW v \in LookupType
  PROVE  NextName(v) \in LookupType /\ NextName(v).started = v.started /\ NextName(v).answers = v.answers
<1>1. PICK b \in BOOLEAN : b = (v.triedAsIs \/ v.asIs)
  OBVIOUS
<1>2. PICK w : w = Noted(v)
  OBVIOUS
<1>3. w = [v EXCEPT !.triedAsIs = b]
  BY <1>1, <1>2 DEF Noted, LookupType
<1>4. /\ w \in LookupType /\ w.started = v.started /\ w.answers = v.answers /\ w.next = v.next
  BY <1>3 DEF LookupType
<1>5. CASE v.next < Domains
  <2>1. v.next + 1 \in 0 .. Domains
    BY <1>5, AresAssumption DEF LookupType
  <2>2. PICK m \in 0 .. Domains : m = v.next + 1
    BY <2>1
  <2>3. NextName(v) = [w EXCEPT !.asIs = FALSE, !.next = m]
    BY <1>2, <1>4, <1>5, <2>2 DEF NextName, LookupType
  <2> QED
    BY <1>4, <2>3 DEF LookupType
<1>6. CASE ~(v.next < Domains)
  <2>1. NextName(v) = [w EXCEPT !.asIs = TRUE]
    BY <1>2, <1>6 DEF NextName
  <2> QED
    BY <1>4, <2>1 DEF LookupType
<1> QED
  BY <1>5, <1>6

\* Where the callback of query q of lookup l leads: to another name, to the application, or
\* from there to another lookup.
LEMMA CallbackFacts ==
  ASSUME Typed, Callback, NEW q, q = Top.q, NEW l \in Lookups, l = query[q].lookup
  PROVE  /\ lookup' \in [Lookups -> LookupType]
         /\ \/ /\ Asks(l, Rest) /\ lookup'[l].started = lookup[l].started /\ lookup'[l].answers = lookup[l].answers
               /\ \A k \in Lookups \ {l} : lookup'[k] = lookup[k]
            \/ \E looks \in [Lookups -> LookupType] :
                 /\ looks[l].started = TRUE /\ looks[l].answers = lookup[l].answers + 1
                 /\ \A k \in Lookups \ {l} : looks[k] = lookup[k]
                 /\ (Ends(Rest) /\ lookup' = looks) \/ \E m \in Lookups : HostBegun(looks, m, Rest)
<1>1. lookup \in [Lookups -> LookupType] /\ lookup[l] \in LookupType
  BY DEF Typed
<1>2. CASE Ask([lookup EXCEPT ![l] = NextName(lookup[l])], l, Rest)
  <2>1. PICK w : w = NextName(lookup[l])
    OBVIOUS
  <2>2. w \in LookupType /\ w.started = lookup[l].started /\ w.answers = lookup[l].answers
    BY <1>1, <2>1, NextNameType
  <2>3. lookup' = [lookup EXCEPT ![l] = w] /\ Asks(l, Rest)
    BY <1>2, <2>1, Zenon DEF Ask, Asks
  <2> QED
    BY <1>1, <2>2, <2>3
<1>3. CASE Answer(l, Rest)
  <2>0. PICK a \in Nat : a = lookup[l].answers + 1
    BY <1>1 DEF LookupType
  <2>1. PICK w : w = [NoLookup EXCEPT !.started = TRUE, !.answers = a]
    OBVIOUS
  <2>2. w \in LookupType /\ w.started = TRUE /\ w.answers = a
    BY <2>1, NoLookupType DEF LookupType
  <2>3. PICK looks : looks = [lookup EXCEPT ![l] = w]
    OBVIOUS
  <2>4. /\ looks \in [Lookups -> LookupType] /\ looks[l] = w /\ \A k \in Lookups \ {l} : looks[k] = lookup[k]
    BY <1>1, <2>2, <2>3
  <2>5. \/ lookup' = looks /\ stack' = Rest /\ UNCHANGED <<query, server, all>>
        \/ \E m \in Lookups : GetHostByName(looks, m, Rest)
    BY <1>3, <2>0, <2>1, <2>3, Zenon DEF Answer
  <2>6. CASE lookup' = looks /\ stack' = Rest /\ UNCHANGED <<query, server, all>>
    BY <2>0, <2>2, <2>4, <2>6 DEF Ends
  <2>7. CASE \E m \in Lookups : GetHostByName(looks, m, Rest)
    <3>1. PICK m \in Lookups : GetHostByName(looks, m, Rest)
      BY <2>7
    <3>2. lookup' \in [Lookups -> LookupType] /\ HostBegun(looks, m, Rest)
      BY <2>4, <3>1, HostFacts
    <3> QED
      BY <2>0, <2>2, <2>4, <3>2
  <2> QED
    BY <2>5, <2>6, <2>7
<1> QED
  BY <1>2, <1>3, Zenon DEF Callback

LEMMA CallbackStep ==
  ASSUME Inv, Callback
  PROVE  Inv'
<1>1. /\ Typed /\ Framed /\ Cancelling /\ Answering /\ ~Idle /\ Top.op = "callback" /\ size' = size
      /\ loose \in BOOLEAN
      /\ loose' = (loose \/ (Top.how = "cancelled" /\ all' # all))
  BY DEF Inv, Callback, In, Typed
<1>2. /\ Top \in Calls /\ Rest \in Seq(Calls) /\ Nested(Rest) /\ Frames(stack) = {Top} \cup Frames(Rest)
      /\ Claimed(stack) = Claim(Top) \cup Claimed(Rest) /\ Good(Top)
      /\ \A g \in Frames(Rest) : g \in Calls /\ Good(g) /\ g.op \notin Active
  BY <1>1, Popped
<1>3. PICK q \in Queries : q = Top.q
  BY <1>1, <1>2, CallFields DEF Active
<1>4. PICK g \in Frames(Rest) : g.op = (IF Top.how = "cancelled" THEN "drop" ELSE "free") /\ g.q = q
  <2>1. \E g \in Frames(stack) : g.op = (IF Top.how = "cancelled" THEN "drop" ELSE "free") /\ g.q = q
    BY <1>1, <1>2, <1>3 DEF Good
  <2>2. Top.op # "drop" /\ Top.op # "free"
    BY <1>1
  <2> QED
    BY <1>2, <2>1, <2>2
<1>5. g.op \in Ending /\ q \in Live
  BY <1>1, <1>2, <1>4 DEF Good, Framed, Ending
<1>6. PICK l \in Lookups : l = query[q].lookup
  BY <1>1, <1>5 DEF Answering
<1>7. q \notin Ended /\ q \in Pending(l)
  BY <1>1, <1>2, <1>3, <1>5, <1>6 DEF Ended, Pending, Ending
<1>8. Pending(l) = {q} /\ lookup[l].answers = 0 /\ lookup[l].started
  BY <1>1, <1>7 DEF Answering
<1>9. Below(Rest)
  <2>1. Claimed(Rest) = Claimed(stack)
    BY <1>1, <1>2, ClaimIs
  <2>2. \A op \in {"drop", "cancel"} : (\E f \in Frames(Rest) : f.op = op) <=> Has(op)
    BY <1>1, <1>2 DEF Has
  <2> QED
    BY <1>2, <2>1, <2>2 DEF Below
<1>10. loose' \in BOOLEAN
  BY <1>1
<1>11. /\ lookup' \in [Lookups -> LookupType]
       /\ \/ /\ Asks(l, Rest) /\ lookup'[l].started = lookup[l].started /\ lookup'[l].answers = lookup[l].answers
             /\ \A k \in Lookups \ {l} : lookup'[k] = lookup[k]
          \/ \E looks \in [Lookups -> LookupType] :
               /\ looks[l].started = TRUE /\ looks[l].answers = lookup[l].answers + 1
               /\ \A k \in Lookups \ {l} : looks[k] = lookup[k]
               /\ (Ends(Rest) /\ lookup' = looks) \/ \E m \in Lookups : HostBegun(looks, m, Rest)
  BY ZenonT(30), <1>1, <1>3, <1>6, CallbackFacts
<1>12. PICK Q : Q = {q}
  OBVIOUS
<1>13. Q \subseteq Live
  BY <1>5, <1>12
<1>14. ASSUME \A f : f.op \in Ending \cup {"callback"} => (f \in Frames(stack') <=> f \in Frames(Rest))
       PROVE  Ended' = Ended \cup Q
  <2>1. \A f \in Frames(Rest) : f.op # "callback"
    BY <1>2 DEF Active
  <2>2. \A p \in Queries : p \in Ended' <=> \E f \in Frames(Rest) : f.op \in Ending /\ f.q = p
    BY <1>14, <2>1 DEF Ended
  <2>3. Top.op \notin Ending
    BY <1>1 DEF Ending
  <2>4. \A p \in Queries \ {q} : p \in Ended <=> \E f \in Frames(Rest) : f.op \in Ending /\ f.q = p
    BY <1>2, <1>3, <2>1, <2>3 DEF Ended
  <2>5. q \in Ended'
    BY <1>4, <1>5, <2>2
  <2>6. Ended \subseteq Queries /\ Ended' \subseteq Queries
    BY DEF Ended
  <2> QED
    BY <1>12, <2>2, <2>4, <2>5, <2>6
<1>15. ASSUME all' # all, all' # {}, Has("drop")' <=> Has("drop"), Has("cancel")' <=> Has("cancel"),
              Freeds' <=> Freeds
       PROVE  Cancelling'
  <2>1. ASSUME Has("cancel"), ~loose'
        PROVE  FALSE
    <3>1. ~loose /\ Top.how # "cancelled" /\ all = {}
      BY <1>1, <1>15, <2>1 DEF Cancelling
    <3>2. g.op = "free"
      BY <1>4, <3>1
    <3>3. q \in all
      BY <1>2, <1>4, <3>2 DEF Good
    <3> QED
      BY <3>1, <3>3
  <2> QED
    BY <1>1, <1>15, <2>1 DEF Cancelling
<1>16. ASSUME all' = all, Has("drop")' <=> Has("drop"), Has("cancel")' <=> Has("cancel"), Freeds' <=> Freeds
       PROVE  Cancelling'
  BY <1>1, <1>16, KeepsCancelling
<1>17. CASE /\ Asks(l, Rest) /\ lookup'[l].started = lookup[l].started /\ lookup'[l].answers = lookup[l].answers
            /\ \A k \in Lookups \ {l} : lookup'[k] = lookup[k]
  <2>1. /\ Typed' /\ Framed' /\ Held' /\ Known' /\ Quiet' /\ all' # {} /\ all' # all
        /\ (Has("drop")' <=> Has("drop")) /\ (Has("cancel")' <=> Has("cancel")) /\ (Freeds' <=> Freeds)
        /\ New \in Queries \ Live /\ Live' = Live \cup {New} /\ query'[New].lookup = l
        /\ \A p \in Queries \ {New} : query'[p].lookup = query[p].lookup
        /\ \E f \in Calls : f.op = "send" /\ Frames(stack') = {f} \cup Frames(Rest)
    BY <1>1, <1>9, <1>10, <1>11, <1>17, AsksKeeps
  <2>2. \A f : f.op \in Ending \cup {"callback"} => (f \in Frames(stack') <=> f \in Frames(Rest))
    BY <2>1 DEF Ending
  <2>3. Ended' = Ended \cup Q
    BY <1>14, <2>2
  <2>4. Ended \subseteq Live
    BY <1>1, EndedLive
  <2>5. ASSUME NEW k \in Lookups
        PROVE  /\ k # l => Pending(k)' = Pending(k) \ Q
               /\ k = l => Pending(k)' = (Pending(k) \ Q) \cup {New}
    <3>1. /\ New \in Queries \ Live /\ Live' = Live \cup {New} /\ query'[New].lookup = l
          /\ \A p \in Queries \ {New} : query'[p].lookup = query[p].lookup
      BY <2>1
    <3> QED
      BY <1>13, <2>3, <2>4, <3>1, AsksPending
  <2>6. PICK P : P = [k \in Lookups |-> IF k = l THEN {New} ELSE Pending(k)]
    OBVIOUS
  <2>7. P[l] = {New} /\ \A k \in Lookups \ {l} : P[k] = Pending(k)
    BY <2>6
  <2>8. \A k \in Lookups \ {l} : Pending(k) \ Q = Pending(k)
    BY <1>6, <1>12 DEF Pending
  <2>9. \A k \in Lookups : Pending(k)' = P[k]
    BY <1>8, <1>12, <2>5, <2>7, <2>8
  <2>10. ASSUME NEW k \in Lookups
         PROVE  Well(lookup'[k], P[k])
    <3>1. CASE k = l
      <4>1. lookup'[l].started /\ lookup'[l].answers = 0
        BY <1>8, <1>17
      <4>2. Well(lookup'[l], {New})
        BY <4>1 DEF Well
      <4> QED
        BY <2>7, <3>1, <4>2
    <3>2. CASE k # l
      <4>1. Well(lookup[k], Pending(k))
        BY <1>1, AnsweringIs
      <4> QED
        BY <1>17, <2>7, <3>2, <4>1
    <3> QED
      BY <3>1, <3>2
  <2>11. \A p \in Live' : query'[p].lookup \in Lookups
    BY <1>1, <2>1 DEF Answering, Live
  <2>12. Answering'
    BY <2>9, <2>10, <2>11, AnsweringThen
  <2> QED
    BY <1>15, <2>1, <2>12 DEF Inv
<1>18. CASE \E looks \in [Lookups -> LookupType] :
               /\ looks[l].started = TRUE /\ looks[l].answers = lookup[l].answers + 1
               /\ \A k \in Lookups \ {l} : looks[k] = lookup[k]
               /\ (Ends(Rest) /\ lookup' = looks) \/ \E m \in Lookups : HostBegun(looks, m, Rest)
  <2>1. PICK looks \in [Lookups -> LookupType] :
               /\ looks[l].started = TRUE /\ looks[l].answers = lookup[l].answers + 1
               /\ \A k \in Lookups \ {l} : looks[k] = lookup[k]
               /\ (Ends(Rest) /\ lookup' = looks) \/ \E m \in Lookups : HostBegun(looks, m, Rest)
    BY <1>18
  <2>2. looks[l].answers = 1 /\ Pending(l) \ Q = {}
    BY <1>8, <1>12, <2>1
  <2>3. ASSUME NEW k \in Lookups
        PROVE  Well(looks[k], Pending(k) \ Q)
    <3>1. CASE k = l
      BY <2>1, <2>2, <3>1 DEF Well
    <3>2. CASE k # l
      <4>1. Well(lookup[k], Pending(k))
        BY <1>1, AnsweringIs
      <4>2. Pending(k) \ Q = Pending(k)
        BY <1>6, <1>12, <3>2 DEF Pending
      <4> QED
        BY <2>1, <3>2, <4>1, <4>2
    <3> QED
      BY <3>1, <3>2
  <2>4. CASE Ends(Rest) /\ lookup' = looks
    <3>1. /\ Typed' /\ Framed' /\ Held' /\ Known' /\ Quiet'
          /\ (Has("drop")' <=> Has("drop")) /\ (Has("cancel")' <=> Has("cancel")) /\ (Freeds' <=> Freeds)
          /\ Live' = Live /\ \A p \in Queries : query'[p].lookup = query[p].lookup
      BY <1>1, <1>9, <1>10, <1>11, <2>4, EndsKeeps
    <3>2. Frames(stack') = Frames(Rest) /\ all' = all
      BY <2>4 DEF Ends
    <3>3. Ended' = Ended \cup Q
      BY <1>14, <3>2
    <3>4. PICK P : P = [k \in Lookups |-> Pending(k) \ Q]
      OBVIOUS
    <3>5. \A k \in Lookups : P[k] = Pending(k) \ Q
      BY <3>4
    <3>6. \A k \in Lookups : Pending(k)' = Pending(k) \ Q
      BY <3>1, <3>3, EndsPending
    <3>7. \A k \in Lookups : Pending(k)' = P[k] /\ Well(lookup'[k], P[k])
      BY <2>3, <2>4, <3>5, <3>6
    <3>8. \A p \in Live' : query'[p].lookup \in Lookups
      BY <1>1, <3>1 DEF Answering, Live
    <3>9. Answering'
      BY <3>7, <3>8, AnsweringThen
    <3> QED
      BY <1>16, <3>1, <3>2, <3>9 DEF Inv
  <2>5. CASE \E m \in Lookups : HostBegun(looks, m, Rest)
    <3>1. PICK m \in Lookups : HostBegun(looks, m, Rest)
      BY <2>5
    <3>2. /\ Typed' /\ Framed' /\ Held' /\ Known' /\ Quiet'
          /\ (Has("drop")' <=> Has("drop")) /\ (Has("cancel")' <=> Has("cancel")) /\ (Freeds' <=> Freeds)
          /\ all' = all \/ (all' # all /\ all' # {})
          /\ \A f : f.op \in Ending \cup {"callback"} => (f \in Frames(stack') <=> f \in Frames(Rest))
      BY <1>1, <1>9, <1>10, <1>11, <3>1, HostStill
    <3>3. Ended' = Ended \cup Q
      BY <1>14, <3>2
    <3>4. Answering'
      BY <1>1, <1>9, <1>10, <1>11, <1>13, <2>3, <3>1, <3>3, HostKeeps
    <3>5. Cancelling'
      BY <1>15, <1>16, <3>2
    <3> QED
      BY <3>2, <3>4, <3>5 DEF Inv
  <2> QED
    BY <2>1, <2>4, <2>5
<1> QED
  BY <1>11, <1>17, <1>18

-----------------------------------------------------------------------------
(* ares__free_query                                                         *)

LEMMA EndedFreed ==
  ASSUME Inv, ~Idle, Top.op \in Ending, NEW q, q = Top.q, stack' = Rest, Live' = Live \ {q}
  PROVE  /\ q \in Queries /\ q \in Live /\ q \in Ended /\ (Live \ Ended)' = Live \ Ended /\ Claim(Top) = {q}
         /\ (Has("cancel")' <=> Has("cancel")) /\ (Has("drop")' => Has("drop"))
<1>1. Typed /\ Framed
  BY DEF Inv
<1>2. /\ Top \in Calls /\ Rest \in Seq(Calls) /\ Frames(stack) = {Top} \cup Frames(Rest) /\ Good(Top)
      /\ \A g \in Frames(Rest) : g \in Calls /\ Above(Top, g) /\ g.op \notin Active
  BY <1>1, Popped
<1>3. q \in Queries /\ q \in Live /\ Claim(Top) = {q}
  BY <1>1, <1>2, CallFields, ClaimIs DEF Good, Framed, Ending
<1>4. Frames(stack') = Frames(Rest)
  OBVIOUS
<1>5. \A g \in Frames(Rest) : g.op \in Ending => g.q # q
  BY <1>2, <1>3, ClaimIs DEF Above, Ending
<1>6. q \in Ended /\ q \notin Ended'
  BY <1>2, <1>3, <1>4, <1>5 DEF Ended, Active, Ending
<1>7. \A p \in Queries \ {q} : p \in Ended' <=> p \in Ended
  BY <1>2, <1>4 DEF Ended, Ending
<1>8. (Live \ Ended)' = Live \ Ended
  BY <1>6, <1>7 DEF Live
<1>9. (Has("cancel")' <=> Has("cancel")) /\ (Has("drop")' => Has("drop"))
  BY <1>2, <1>4 DEF Has, Ending
<1> QED
  BY <1>3, <1>6, <1>8, <1>9

LEMMA FreeFacts ==
  ASSUME Typed, NEW q \in Queries, Free(q)
  PROVE  /\ query' \in [Queries -> QueryType] /\ server' \in [Servers -> ServerType]
         /\ query'[q] = NoQuery /\ \A p \in Queries \ {q} : query'[p] = query[p]
         /\ \A s \in Servers : /\ Requeued(s, q, "freed") /\ Ears(s)
                               /\ server'[s].udp = server[s].udp /\ server'[s].tcp = server[s].tcp
                               /\ server'[s].asked = server[s].asked \ {q}
                               /\ server'[s].written = server[s].written \ {q}
<1>1. query \in [Queries -> QueryType] /\ server \in [Servers -> ServerType] /\ NoQuery \in QueryType
  BY NoQueryType DEF Typed
<1>2. query' = [query EXCEPT ![q] = NoQuery]
  BY DEF Free, Freed
<1>3. query' \in [Queries -> QueryType] /\ query'[q] = NoQuery /\ \A p \in Queries \ {q} : query'[p] = query[p]
  BY <1>1, <1>2
<1>4. server' = [s \in Servers |-> [server[s] EXCEPT !.asked = @ \ {q}, !.written = @ \ {q},
                                                     !.queue = Replaced(@, q, "freed")]]
  BY DEF Free
<1>5. ASSUME NEW s \in Servers
      PROVE  /\ server'[s] \in ServerType /\ Requeued(s, q, "freed") /\ Ears(s)
             /\ server'[s].udp = server[s].udp /\ server'[s].tcp = server[s].tcp
             /\ server'[s].asked = server[s].asked \ {q} /\ server'[s].written = server[s].written \ {q}
  <2>1. PICK v \in ServerType : v = server[s]
    BY <1>1
  <2>2. v.queue \in Seq(Requests)
    BY DEF ServerType
  <2>3. PICK new \in Seq(Requests) : new = Replaced(v.queue, q, "freed")
    BY <2>2, ReplacedType
  <2>4. PICK w : w = [v EXCEPT !.asked = @ \ {q}, !.written = @ \ {q}, !.queue = new]
    OBVIOUS
  <2>5. server'[s] = w
    BY <1>4, <2>1, <2>3, <2>4 DEF ServerType
  <2>6. /\ w \in ServerType /\ w.queue = new /\ w.udp = v.udp /\ w.tcp = v.tcp
        /\ w.asked = v.asked \ {q} /\ w.written = v.written \ {q}
    BY <2>4 DEF ServerType
  <2> QED
    BY <2>1, <2>3, <2>5, <2>6 DEF Requeued, Ears
<1>6. server' \in [Servers -> ServerType]
  BY <1>4, <1>5
<1> QED
  BY <1>3, <1>5, <1>6

LEMMA FreeKeeps ==
  ASSUME Inv, ~Idle, Top.op \in Ending, NEW q, q = Top.q, Free(q), stack' = Rest, all' = all \ {q},
         UNCHANGED <<lookup, loose, size>>
  PROVE  /\ Typed' /\ Framed' /\ Held' /\ Known' /\ Answering'
         /\ (Has("cancel")' <=> Has("cancel")) /\ (Has("drop")' => Has("drop"))
         /\ (\A s \in Servers : ~Queued(q, s)) => (Freeds' => Freeds)
<1>1. Typed /\ Framed /\ Held /\ Known /\ Answering
  BY DEF Inv
<1>2. /\ Top \in Calls /\ Rest \in Seq(Calls) /\ Nested(Rest)
      /\ Claimed(stack) = Claim(Top) \cup Claimed(Rest) /\ Claim(Top) \cap Claimed(Rest) = {}
  BY <1>1, Popped
<1>3. q \in Queries
  BY <1>2, CallFields
<1>4. /\ query' \in [Queries -> QueryType] /\ server' \in [Servers -> ServerType]
      /\ query'[q] = NoQuery /\ \A p \in Queries \ {q} : query'[p] = query[p]
      /\ \A s \in Servers : /\ Requeued(s, q, "freed") /\ Ears(s)
                            /\ server'[s].udp = server[s].udp /\ server'[s].tcp = server[s].tcp
                            /\ server'[s].asked = server[s].asked \ {q}
                            /\ server'[s].written = server[s].written \ {q}
  BY <1>1, <1>3, FreeFacts
<1>5. NoQuery.live = FALSE /\ NoQuery.tcp = FALSE /\ NoQuery.over = {}
  BY <1>1, NoQueryType
<1>6. Servers' = Servers /\ Live' = Live \ {q}
  BY <1>4, <1>5 DEF Servers, N, Live
<1>7. /\ q \in Live /\ q \in Ended /\ (Live \ Ended)' = Live \ Ended /\ Claim(Top) = {q}
      /\ (Has("cancel")' <=> Has("cancel")) /\ (Has("drop")' => Has("drop"))
  BY <1>6, EndedFreed
<1>8. ASSUME NEW s \in Servers
      PROVE  /\ Len(server'[s].queue) = Len(server[s].queue) /\ ~Queued(q, s)'
             /\ \A p \in Queries, i \in 1 .. Len(server[s].queue) :
                  server'[s].queue[i] = Theirs(p) <=> server[s].queue[i] = Theirs(p) /\ p # q
             /\ \A p \in Queries \ {q} : Queued(p, s)' <=> Queued(p, s)
             /\ ~Queued(q, s) => server'[s].queue = server[s].queue
  BY <1>1, <1>3, <1>4, RequeuedFacts
<1>9. \A p \in Queries \ {q} : Same(p)
  BY <1>4 DEF Same
<1>10. \A p \in Claimed(Rest) : p \in Queries \ {q}
  BY <1>2, <1>7, ClaimedQueries
<1>11. \A g \in Frames(Rest) : Good(g)'
  <2>1. \A p \in Claimed(Rest) : Same(p) /\ \A s \in Servers : Queued(p, s)' => Queued(p, s)
    BY <1>8, <1>9, <1>10
  <2> QED
    BY <1>1, <2>1, RestKeeps
<1>12. Framed'
  BY <1>1, <1>2, <1>6, <1>11 DEF Framed
<1>13. Held'
  <2>1. ASSUME NEW p \in Live' \ Claimed(stack')
        PROVE  /\ p \in Live \ Claimed(stack) /\ Same(p)
               /\ \A s \in Servers : Ears(s) /\ (p \in server[s].asked => p \in server'[s].asked)
                           /\ (p \in server[s].written \/ Queued(p, s) => p \in server'[s].written \/ Queued(p, s)')
    <3>1. p \in Live \ Claimed(stack) /\ p \in Queries \ {q}
      BY <1>2, <1>6, <1>7 DEF Live
    <3> QED
      BY <1>4, <1>8, <1>9, <3>1
  <2> QED
    BY <1>1, <2>1, KeepsHeld
<1>14. Known'
  <2>1. OncePerConnection'
    <3> SUFFICES ASSUME NEW s \in Servers, NEW p \in Queries, NEW i \in 1 .. Len(server'[s].queue),
                        server'[s].queue[i] = Theirs(p)
                 PROVE  p \notin server'[s].written /\ \A j \in 1 .. i - 1 : server'[s].queue[j] # Theirs(p)
      BY <1>6 DEF OncePerConnection, Theirs
    <3>1. i \in 1 .. Len(server[s].queue) /\ server[s].queue[i] = Theirs(p)
      BY <1>8
    <3>2. p \notin server[s].written /\ \A j \in 1 .. i - 1 : server[s].queue[j] # Theirs(p)
      BY <1>1, <3>1 DEF Known, OncePerConnection
    <3>3. server[s].queue \in Seq(Requests)
      BY <1>1 DEF Typed, ServerType
    <3>4. Len(server[s].queue) \in Nat
      BY <3>3, LenProperties
    <3>5. \A j \in 1 .. i - 1 : j \in 1 .. Len(server[s].queue)
      BY <3>1, <3>4
    <3> QED
      BY <1>4, <1>8, <3>2, <3>5
  <2>2. ASSUME NEW s \in Servers, NEW p \in Queries, p \in server'[s].written \/ Queued(p, s)'
        PROVE  s \in query'[p].over
    <3>1. p # q
      BY <1>4, <1>8, <2>2
    <3>2. p \in server[s].written \/ Queued(p, s)
      BY <1>4, <1>8, <2>2, <3>1
    <3> QED
      BY <1>1, <1>4, <3>1, <3>2 DEF Known
  <2>3. \A s \in Servers : server'[s].asked \cup server'[s].written \subseteq Live'
    BY <1>1, <1>4, <1>6 DEF Known
  <2>4. \A p \in Queries : ~query'[p].tcp => query'[p].over = {}
    BY <1>1, <1>4, <1>5 DEF Known
  <2>5. \A p \in Queries \ Live' : query'[p].over = {} /\ ~query'[p].tcp
    BY <1>1, <1>4, <1>5, <1>6 DEF Known
  <2> QED
    BY <1>6, <2>1, <2>2, <2>3, <2>4, <2>5 DEF Known
<1>15. Answering'
  <2>1. Live' \subseteq Live /\ \A p \in Live' \cup (Live \ Ended) : query'[p].lookup = query[p].lookup
    BY <1>4, <1>6, <1>7 DEF Live
  <2> QED
    BY <1>1, <1>7, <2>1, KeepsAnswering
<1>16. ASSUME \A s \in Servers : ~Queued(q, s)
       PROVE  Freeds' => Freeds
  BY <1>6, <1>8, <1>16 DEF Freeds
<1>17. Typed'
  BY <1>1, <1>2, <1>4, <1>6 DEF Typed, Calls, LookupType, QueryType, ServerType, Requests, N, Tries, Servers
<1> QED
  BY <1>7, <1>12, <1>13, <1>14, <1>15, <1>16, <1>17

LEMMA DropStep ==
  ASSUME Inv, DropQuery
  PROVE  Inv'
<1>1. /\ Typed /\ Framed /\ Cancelling /\ ~Idle /\ Top.op = "drop" /\ stack' = Rest /\ Free(Top.q)
      /\ UNCHANGED <<lookup, all, loose, size>>
  BY DEF Inv, DropQuery, In
<1>2. Frames(stack) = {Top} \cup Frames(Rest) /\ Good(Top)
  BY <1>1, Popped
<1>3. Top.op \in Ending /\ Top.q \notin all /\ Has("drop")
  BY <1>1, <1>2 DEF Ending, Good, Has
<1>4. all' = all \ {Top.q}
  BY <1>1, <1>3
<1>5. /\ Typed' /\ Framed' /\ Held' /\ Known' /\ Answering'
      /\ (Has("cancel")' <=> Has("cancel")) /\ (Has("drop")' => Has("drop"))
  BY <1>1, <1>3, <1>4, FreeKeeps
<1>6. Has("cancel")
  BY <1>1, <1>3 DEF Cancelling
<1>7. Cancelling'
  BY <1>1, <1>5, <1>6 DEF Cancelling
<1>8. Quiet'
  BY <1>5, <1>6 DEF Quiet
<1> QED
  BY <1>5, <1>7, <1>8 DEF Inv

\* Every server is as ares_init left it.
LEMMA ClosedAll ==
  ASSUME Typed, NEW qs \in [Queries -> QueryType], CloseAll(qs), size' = size,
         \A p \in Queries : ~qs[p].live => ~qs[p].tcp
  PROVE  /\ query' \in [Queries -> QueryType] /\ server' \in [Servers -> ServerType]
         /\ \A p \in Queries : Alike(query'[p], qs[p]) /\ Listed(query'[p], qs[p])
         /\ \A s \in Servers : ~server'[s].udp /\ ~server'[s].tcp
         /\ \A s, p : s \in Servers => ~Queued(p, s)'
         /\ Known' /\ ~Freeds'
<1>1. Servers' = Servers
  BY DEF Servers, N
<1>2. server' = [s \in Servers |-> NewServer]
  BY DEF CloseAll
<1>3. /\ NewServer \in ServerType /\ NewServer.udp = FALSE /\ NewServer.tcp = FALSE
      /\ NewServer.asked = {} /\ NewServer.written = {} /\ NewServer.queue = << >>
  BY NewServerType DEF NewServer
<1>4. Len(NewServer.queue) = 0
  BY <1>3, EmptySeq
<1>5. ASSUME NEW p \in Queries
      PROVE  /\ query'[p] \in QueryType /\ query'[p].over = {}
             /\ Alike(query'[p], qs[p]) /\ Listed(query'[p], qs[p])
  <2>1. PICK v \in QueryType : v = qs[p]
    OBVIOUS
  <2>2. PICK w : w = [v EXCEPT !.over = {}]
    OBVIOUS
  <2>3. query'[p] = w
    BY <2>1, <2>2 DEF CloseAll
  <2>4. w \in QueryType /\ w.over = {} /\ Alike(w, v) /\ Listed(w, v)
    BY <2>2 DEF QueryType, Alike, Listed
  <2> QED
    BY <2>1, <2>3, <2>4
<1>6. query' = [q \in Queries |-> [qs[q] EXCEPT !.over = {}]]
  BY DEF CloseAll
<1>7. query' \in [Queries -> QueryType] /\ server' \in [Servers -> ServerType]
  BY <1>2, <1>3, <1>5, <1>6
<1>8. \A s \in Servers : server'[s] = NewServer
  BY <1>2
<1>9. \A s, p : s \in Servers => ~Queued(p, s)'
  BY <1>3, <1>4, <1>8 DEF Queued
<1>10. ~Freeds'
  BY <1>1, <1>3, <1>4, <1>8 DEF Freeds
<1>11. Known'
  <2>1. OncePerConnection'
    BY <1>1, <1>4, <1>8 DEF OncePerConnection
  <2>2. \A s \in Servers, p \in Queries : ~(p \in server'[s].written \/ Queued(p, s)')
    BY <1>3, <1>8, <1>9
  <2>3. \A s \in Servers : server'[s].asked \cup server'[s].written \subseteq Live'
    BY <1>3, <1>8
  <2>4. \A p \in Queries \ Live' : ~query'[p].tcp
    BY <1>5 DEF Live, Alike
  <2>5. \A p \in Queries : query'[p].over = {}
    BY <1>5
  <2> QED
    BY <1>1, <2>1, <2>2, <2>3, <2>4, <2>5 DEF Known
<1> QED
  BY <1>3, <1>5, <1>7, <1>8, <1>9, <1>10, <1>11

\* While the only query is freed, no call has another in hands that is not cancelled.
LEMMA LastFreed ==
  ASSUME Inv, ~Idle, Top.op = "free", all = {Top.q}
  PROVE  \A p \in Live : p # Top.q => p \in Claimed(Rest)
<1>1. Typed /\ Framed /\ Held
  BY DEF Inv
<1>2. Claimed(stack) = Claim(Top) \cup Claimed(Rest) /\ Claim(Top) = {Top.q}
  BY <1>1, Popped, ClaimIs
<1>3. \A p \in Live \ Claimed(stack) : p = Top.q
  BY <1>1 DEF Held, Sits
<1> QED
  BY <1>2, <1>3

LEMMA FreeStep ==
  ASSUME Inv, FreeQuery
  PROVE  Inv'
<1>1. /\ Typed /\ Framed /\ Held /\ Known /\ Cancelling /\ Answering /\ ~Idle /\ Top.op = "free" /\ stack' = Rest
      /\ all' = all \ {Top.q} /\ UNCHANGED <<lookup, loose, size>>
  BY DEF Inv, FreeQuery, In
<1>2. /\ Top \in Calls /\ Rest \in Seq(Calls) /\ Nested(Rest) /\ Frames(stack) = {Top} \cup Frames(Rest) /\ Good(Top)
      /\ Claim(Top) \cap Claimed(Rest) = {}
      /\ \A g \in Frames(Rest) : g \in Calls /\ Good(g) /\ g.op \notin Active
  BY <1>1, Popped
<1>3. PICK q \in Queries : q = Top.q
  BY <1>1, <1>2, CallFields DEF Ending
<1>4. Top.op \in Ending /\ q \in all /\ \A s \in Servers : ~Queued(q, s)
  BY <1>1, <1>2, <1>3 DEF Ending, Good
<1>5. Has("cancel") => loose
  BY <1>1, <1>4 DEF Cancelling
<1>6. CASE all = {q} /\ CloseAll(Freed(q))
  <2>1. PICK qs \in [Queries -> QueryType] : qs = Freed(q) /\ qs[q] = NoQuery
                                               /\ \A p \in Queries \ {q} : qs[p] = query[p]
    <3>1. query \in [Queries -> QueryType] /\ NoQuery \in QueryType
      BY <1>1, NoQueryType DEF Typed
    <3>2. Freed(q) \in [Queries -> QueryType] /\ Freed(q)[q] = NoQuery
            /\ \A p \in Queries \ {q} : Freed(q)[p] = query[p]
      BY <3>1 DEF Freed
    <3> QED
      BY <3>2
  <2>2. NoQuery.live = FALSE /\ NoQuery.tcp = FALSE
    BY DEF NoQuery
  <2>3. \A p \in Queries : ~qs[p].live => ~qs[p].tcp
    BY <1>1, <2>1, <2>2 DEF Known, Live
  <2>4. /\ query' \in [Queries -> QueryType] /\ server' \in [Servers -> ServerType]
        /\ \A p \in Queries : Alike(query'[p], qs[p]) /\ Listed(query'[p], qs[p])
        /\ \A s \in Servers : ~server'[s].udp /\ ~server'[s].tcp
        /\ \A s, p : s \in Servers => ~Queued(p, s)'
        /\ Known' /\ ~Freeds'
    BY <1>1, <1>6, <2>1, <2>3, ClosedAll
  <2>5. Live' = Live \ {q}
    BY <2>1, <2>2, <2>4 DEF Live, Alike
  <2>6. /\ q \in Live /\ q \in Ended /\ (Live \ Ended)' = Live \ Ended /\ Claim(Top) = {q}
        /\ (Has("cancel")' <=> Has("cancel")) /\ (Has("drop")' => Has("drop"))
    BY <1>1, <1>3, <1>4, <2>5, EndedFreed
  <2>7. Servers' = Servers /\ all' = {}
    BY <1>1, <1>3, <1>6 DEF Servers, N
  <2>8. \A p \in Claimed(Rest) : p \in Queries \ {q}
    BY <1>2, <2>6, ClaimedQueries
  <2>9. \A p \in Queries \ {q} : Same(p)
    BY <1>6, <2>1, <2>4, <2>7 DEF Same, Alike, Listed
  <2>10. \A g \in Frames(Rest) : Good(g)'
    <3>1. \A p \in Claimed(Rest) : Same(p) /\ \A s \in Servers : Queued(p, s)' => Queued(p, s)
      BY <2>4, <2>8, <2>9
    <3> QED
      BY <1>1, <3>1, RestKeeps
  <2>11. Framed'
    BY <1>1, <1>2, <2>7, <2>10 DEF Framed
  <2>12. Held'
    <3>1. \A p \in Live' : p \in Claimed(stack')
      BY <1>1, <1>3, <1>6, <2>5, LastFreed
    <3> QED
      BY <3>1 DEF Held
  <2>13. Answering'
    <3>1. Live' \subseteq Live /\ \A p \in Live' \cup (Live \ Ended) : query'[p].lookup = query[p].lookup
      BY <2>5, <2>6, <2>9 DEF Live, Same
    <3> QED
      BY <1>1, <2>6, <3>1, KeepsAnswering
  <2>14. Cancelling'
    BY <1>1, <2>4, <2>6, <2>7 DEF Cancelling
  <2>15. Quiet'
    BY <2>4, <2>7 DEF Quiet
  <2>16. Typed'
    BY <1>1, <1>2, <2>4, <2>7 DEF Typed, Calls, LookupType, QueryType, ServerType, Requests, N, Tries, Servers
  <2> QED
    BY <2>4, <2>11, <2>12, <2>13, <2>14, <2>15, <2>16 DEF Inv
<1>7. CASE all # {q} /\ Free(q)
  <2>1. /\ Typed' /\ Framed' /\ Held' /\ Known' /\ Answering'
        /\ (Has("cancel")' <=> Has("cancel")) /\ (Has("drop")' => Has("drop"))
        /\ (\A s \in Servers : ~Queued(q, s)) => (Freeds' => Freeds)
    BY <1>1, <1>3, <1>4, <1>7, FreeKeeps
  <2>2. Cancelling'
    BY <1>1, <1>4, <1>5, <2>1 DEF Cancelling
  <2>3. all' # {}
    BY <1>1, <1>3, <1>4, <1>7
  <2>4. Quiet'
    BY <2>3 DEF Quiet
  <2> QED
    BY <2>1, <2>2, <2>4 DEF Inv
<1>8. IF all = {q} THEN CloseAll(Freed(q)) ELSE Free(q)
  BY <1>3 DEF FreeQuery
<1> QED
  BY <1>6, <1>7, <1>8

-----------------------------------------------------------------------------
(* ares_cancel                                                              *)

LEMMA CancelStep ==
  ASSUME Inv, Cancel
  PROVE  Inv'
<1>1. /\ Typed /\ Framed /\ Held /\ Known /\ Cancelling /\ Answering /\ Idle /\ all' = {}
      /\ UNCHANGED <<lookup, query, server, loose, size>>
  BY DEF Inv, Cancel
<1>2. PICK f : f = [op |-> "cancel", set |-> all]
  OBVIOUS
<1>3. f \in [op : {"due", "cancel"}, set : SUBSET Queries] /\ f.op = "cancel" /\ f.set = all
  BY <1>1, <1>2 DEF Typed
<1>4. f \in Calls /\ Claim(f) = all
  BY <1>3, ClaimIs DEF Calls
<1>5. stack = << >> /\ Frames(stack) = {} /\ Claimed(stack) = {}
  BY <1>1, NoFrames DEF Idle
<1>6. /\ stack' \in Seq(Calls) /\ Frames(stack') = {f} /\ Nested(stack') /\ Claimed(stack') = all
  <2>1. << >> \in Seq(Calls) /\ Frames(<< >>) = {} /\ Nested(<< >>) /\ Claimed(<< >>) = {}
    BY NoFrames
  <2>2. <<f>> \in Seq(Calls)
    BY <1>4
  <2>3. <<f>> \o << >> = <<f>>
    BY <2>2, ConcatEmptySeq
  <2>4. \A g \in Frames(<< >>) : Above(f, g)
    BY <2>1
  <2>5. /\ <<f>> \o << >> \in Seq(Calls) /\ Frames(<<f>> \o << >>) = {f} \cup Frames(<< >>)
        /\ Nested(<<f>> \o << >>) /\ Claimed(<<f>> \o << >>) = Claim(f) \cup Claimed(<< >>)
    BY <1>4, <2>1, <2>4, Push
  <2>6. stack' = <<f>>
    BY <1>2 DEF Cancel
  <2> QED
    BY <1>4, <2>1, <2>3, <2>5, <2>6
<1>7. Servers' = Servers /\ Live' = Live
  BY <1>1 DEF Servers, N, Live
<1>8. \A p \in Live : p \in all
  BY <1>1, <1>5 DEF Held, Sits
<1>9. Framed'
  <2>1. f.set \subseteq Live' \ all'
    BY <1>1, <1>3, <1>7 DEF Framed
  <2>2. Good(f)'
    BY <1>3, <2>1 DEF Good
  <2> QED
    BY <1>1, <1>6, <2>2 DEF Framed
<1>10. Held'
  BY <1>6, <1>7, <1>8 DEF Held
<1>11. Has("cancel")' /\ ~Has("drop")' /\ Ended' = Ended
  <2>1. Has("cancel")' /\ ~Has("drop")'
    BY <1>3, <1>6 DEF Has
  <2>2. f.op \notin Ending \cup {"callback"}
    BY <1>3 DEF Ending
  <2>3. Ended' = Ended
    BY <1>5, <1>6, <2>2 DEF Ended
  <2> QED
    BY <2>1, <2>3
<1>12. Known'
  <2>1. \A s \in Servers : Wire(s)
    BY <1>1 DEF Wire
  <2> QED
    BY <1>1, <1>7, <2>1, WiresKnown
<1>13. Cancelling' /\ Quiet'
  BY <1>1, <1>11 DEF Cancelling, Quiet
<1>14. Answering'
  <2>1. (Live \ Ended)' = Live \ Ended
    BY <1>7, <1>11
  <2> QED
    BY <1>1, <1>7, <2>1, KeepsAnswering
<1>15. Typed'
  BY <1>1, <1>6, <1>7 DEF Typed, Calls, LookupType, QueryType, ServerType, Requests, N, Tries, Servers
<1> QED
  BY <1>9, <1>10, <1>12, <1>13, <1>14, <1>15 DEF Inv

\* ares_cancel is done.
LEMMA CancelledAll ==
  ASSUME Inv, ~Idle, Top.op = "cancel", Top.set = {}, stack' = Rest,
         IF all = {} THEN CloseAll(query) ELSE UNCHANGED <<server, query>>, UNCHANGED <<lookup, all, loose, size>>
  PROVE  Inv'
<1>1. Typed /\ Framed /\ Held /\ Known /\ Cancelling /\ Answering
  BY DEF Inv
<1>2. /\ Top \in Calls /\ Rest \in Seq(Calls) /\ Nested(Rest) /\ Frames(stack) = {Top} \cup Frames(Rest)
      /\ Claimed(stack) = Claim(Top) \cup Claimed(Rest)
      /\ \A g \in Frames(Rest) : g \in Calls /\ Good(g) /\ Above(Top, g) /\ g.op \notin Active
  BY <1>1, Popped
<1>3. \A g \in Frames(Rest) : Rank(g) >= 3
  <2> SUFFICES ASSUME NEW g \in Frames(Rest)
               PROVE  Rank(g) >= 3
    OBVIOUS
  <2>1. Rank(Top) = 2 /\ Rank(g) \in Nat /\ Above(Top, g)
    BY <1>2, RankIs, CallFields
  <2>2. 2 <= Rank(g) /\ Rank(g) # 2
    BY <2>1 DEF Above
  <2> QED
    BY <2>1, <2>2
<1>4. \A g \in Frames(Rest) : g.op \notin Ending \cup Visits \cup {"callback"} /\ Claim(g) = {}
  <2> SUFFICES ASSUME NEW g \in Frames(Rest)
               PROVE  g.op \notin Ending \cup Visits \cup {"callback"} /\ Claim(g) = {}
    OBVIOUS
  <2>1. g.op \notin Ending \cup Visits \cup Active
    BY <1>2, <1>3, CallFields
  <2> QED
    BY <2>1 DEF Claim, Active
<1>5. Claimed(Rest) = {} /\ Claimed(stack) = {}
  <2>1. Claimed(Rest) = {}
    BY <1>4 DEF Claimed
  <2> QED
    BY <1>2, <2>1, ClaimIs
<1>6. \A p \in Live : Sits(p)
  BY <1>1, <1>5 DEF Held
<1>7. Has("cancel") /\ ~Has("drop") /\ ~Has("cancel")' /\ ~Has("drop")'
  BY <1>2, <1>4 DEF Has, Ending, Visits
<1>8. Ended' = Ended
  <2>1. \A f : f.op \in Ending \cup {"callback"} => f # Top
    BY DEF Ending
  <2> QED
    BY <1>2, <2>1, SameEnded
<1>9. Servers' = Servers
  BY DEF Servers, N
<1>10. CASE all = {} /\ CloseAll(query)
  <2>1. Live = {}
    BY <1>6, <1>10 DEF Sits
  <2>2. query \in [Queries -> QueryType] /\ \A p \in Queries : ~query[p].live => ~query[p].tcp
    BY <1>1 DEF Typed, Known, Live
  <2>3. /\ query' \in [Queries -> QueryType] /\ server' \in [Servers -> ServerType]
        /\ \A p \in Queries : Alike(query'[p], query[p]) /\ Listed(query'[p], query[p])
        /\ \A s \in Servers : ~server'[s].udp /\ ~server'[s].tcp
        /\ \A s, p : s \in Servers => ~Queued(p, s)'
        /\ Known' /\ ~Freeds'
    BY <1>1, <1>10, <2>2, ClosedAll
  <2>4. Live' = {}
    BY <2>1, <2>3 DEF Live, Alike
  <2>5. Framed'
    <3>1. \A p \in Claimed(Rest) : Same(p) /\ \A s \in Servers : Queued(p, s)' => Queued(p, s)
      BY <1>5
    <3>2. \A g \in Frames(Rest) : Good(g)'
      BY <1>1, <3>1, RestKeeps
    <3> QED
      BY <1>2, <1>10, <3>2 DEF Framed
  <2>6. Held'
    BY <2>4 DEF Held
  <2>7. Cancelling' /\ Quiet'
    BY <1>7, <2>3, <1>9 DEF Cancelling, Quiet
  <2>8. Answering'
    <3>1. (Live \ Ended)' = Live \ Ended /\ Live' \subseteq Live /\ Live' \cup (Live \ Ended) = {}
      BY <1>8, <2>1, <2>4
    <3> QED
      BY <1>1, <3>1, KeepsAnswering
  <2>9. Typed'
    BY <1>1, <1>2, <1>9, <2>3 DEF Typed, Calls, LookupType, QueryType, ServerType, Requests, N, Tries, Servers
  <2> QED
    BY <2>3, <2>5, <2>6, <2>7, <2>8, <2>9 DEF Inv
<1>11. CASE all # {} /\ UNCHANGED <<server, query>>
  <2>1. loose
    BY <1>1, <1>7, <1>11 DEF Cancelling
  <2>2. Live' = Live /\ \A s \in Servers : Wire(s) /\ Ears(s)
    BY <1>11 DEF Live, Wire, Ears
  <2>3. \A p \in Queries : Same(p)
    BY <1>11 DEF Same
  <2>4. Framed'
    <3>1. \A p \in Claimed(Rest) : Same(p) /\ \A s \in Servers : Queued(p, s)' => Queued(p, s)
      BY <1>5
    <3>2. \A g \in Frames(Rest) : Good(g)'
      BY <1>1, <3>1, RestKeeps
    <3> QED
      BY <1>1, <1>2, <2>2, <3>2 DEF Framed
  <2>5. Held'
    <3>1. \A p \in Live : Sits(p)'
      BY <1>6, <1>11 DEF Sits, Queued
    <3> QED
      BY <2>2, <3>1 DEF Held
  <2>6. Known'
    BY <1>1, <1>11, <2>2, WiresKnown
  <2>7. Cancelling' /\ Quiet'
    BY <1>7, <1>11, <2>1 DEF Cancelling, Quiet
  <2>8. Answering'
    <3>1. (Live \ Ended)' = Live \ Ended
      BY <1>8, <2>2
    <3> QED
      BY <1>1, <1>11, <2>2, <3>1, KeepsAnswering
  <2>9. Typed'
    BY <1>1, <1>2, <1>9, <1>11 DEF Typed, Calls, LookupType, QueryType, ServerType, Requests, N, Tries, Servers
  <2> QED
    BY <2>4, <2>5, <2>6, <2>7, <2>8, <2>9 DEF Inv
<1> QED
  BY <1>10, <1>11

\* ares_cancel calls back a query and will free it.
LEMMA CancelledOne ==
  ASSUME Inv, ~Idle, Top.op = "cancel", NEW q \in Top.set,
         stack' = <<[op |-> "callback", q |-> q, how |-> "cancelled"], [op |-> "drop", q |-> q],
                    [Top EXCEPT !.set = @ \ {q}]>> \o Rest,
         UNCHANGED <<server, query, lookup, all, loose, size>>
  PROVE  Inv'
<1>1. Typed /\ Framed /\ Held /\ Known /\ Cancelling /\ Answering
  BY DEF Inv
<1>2. /\ Top \in Calls /\ Rest \in Seq(Calls) /\ Nested(Rest) /\ Frames(stack) = {Top} \cup Frames(Rest)
      /\ Claimed(stack) = Claim(Top) \cup Claimed(Rest) /\ Claim(Top) \cap Claimed(Rest) = {} /\ Good(Top)
      /\ \A g \in Frames(Rest) : g \in Calls /\ Good(g) /\ Above(Top, g) /\ g.op \notin Active
  BY <1>1, Popped
<1>3. Claim(Top) = Top.set /\ Top.set \subseteq Queries /\ Top.op \in Visits /\ Rank(Top) = 2
        /\ Top.set \subseteq Live \ all
  BY <1>2, ClaimIs, CallFields, RankIs DEF Visits, Good
<1>4. PICK f \in Calls : f = [op |-> "callback", q |-> q, how |-> "cancelled"]
  BY <1>3, NewCall
<1>5. PICK g \in Calls : g = [op |-> "drop", q |-> q]
  BY <1>3, NewCall
<1>6. PICK h : h = Less(Top, q)
  OBVIOUS
<1>7. /\ f.op = "callback" /\ f.q = q /\ f.how = "cancelled" /\ Claim(f) = {} /\ Rank(f) = 0
      /\ g.op = "drop" /\ g.q = q /\ Claim(g) = {q} /\ Rank(g) = 1
  <2>1. f.op = "callback" /\ f.q = q /\ f.how = "cancelled" /\ g.op = "drop" /\ g.q = q
    BY <1>4, <1>5
  <2> QED
    BY <2>1, ClaimIs, RankIs
<1>8. /\ h \in Calls /\ h.op = "cancel" /\ h.set = Top.set \ {q}
      /\ <<h>> \o Rest \in Seq(Calls) /\ Nested(<<h>> \o Rest) /\ Frames(<<h>> \o Rest) = {h} \cup Frames(Rest)
      /\ Claimed(<<h>> \o Rest) = h.set \cup Claimed(Rest)
  <2>1. Claim(f) \subseteq {q}
    BY <1>7
  <2> QED
    BY <1>1, <1>3, <1>6, <1>7, <2>1, Visiting
<1>9. Claim(h) = h.set /\ Rank(h) = 2
  BY <1>8, ClaimIs, RankIs
<1>10. \A k \in Frames(Rest) : Rank(k) \in Nat /\ Rank(k) >= 3 /\ q \notin Claim(k)
  <2> SUFFICES ASSUME NEW k \in Frames(Rest)
               PROVE  Rank(k) \in Nat /\ Rank(k) >= 3 /\ q \notin Claim(k)
    OBVIOUS
  <2>1. Rank(k) \in Nat /\ Above(Top, k)
    BY <1>2, CallFields
  <2>2. 2 <= Rank(k) /\ Rank(k) # 2 /\ q \notin Claim(k)
    BY <1>3, <2>1 DEF Above
  <2> QED
    BY <2>1, <2>2
<1>11. \A k \in Frames(<<h>> \o Rest) : Rank(k) \in Nat /\ Rank(k) >= 2 /\ q \notin Claim(k)
  BY <1>8, <1>9, <1>10
<1>12. PICK t \in Seq(Calls) : /\ t = <<g>> \o (<<h>> \o Rest) /\ Nested(t) /\ Frames(t) = {g, h} \cup Frames(Rest)
                               /\ Claimed(t) = {q} \cup h.set \cup Claimed(Rest)
  <2>1. \A k \in Frames(<<h>> \o Rest) : Above(g, k)
    BY <1>7, <1>11 DEF Above
  <2>2. /\ <<g>> \o (<<h>> \o Rest) \in Seq(Calls) /\ Nested(<<g>> \o (<<h>> \o Rest))
        /\ Frames(<<g>> \o (<<h>> \o Rest)) = {g} \cup Frames(<<h>> \o Rest)
        /\ Claimed(<<g>> \o (<<h>> \o Rest)) = Claim(g) \cup Claimed(<<h>> \o Rest)
    BY <1>8, <2>1, Push
  <2> QED
    BY <1>7, <1>8, <2>2
<1>13. stack' = <<f>> \o t
  <2>1. stack' = <<f, g, h>> \o Rest
    BY <1>4, <1>5, <1>6 DEF Less
  <2>2. <<f, g, h>> \o Rest = <<f>> \o (<<g>> \o (<<h>> \o Rest))
    <3>1. Rest \in Seq(Calls) /\ h \in Calls
      BY <1>2, <1>8
    <3>2. Three(f, g, h, Rest) = One(f, One(g, One(h, Rest)))
      BY <3>1, PushThree
    <3> QED
      BY <3>2, Zenon DEF One, Three
  <2> QED
    BY <1>12, <2>1, <2>2
<1>14. /\ stack' \in Seq(Calls) /\ Nested(stack') /\ Frames(stack') = {f, g, h} \cup Frames(Rest)
       /\ Claimed(stack') = Claimed(stack)
  <2>1. \A k \in Frames(t) : Above(f, k)
    <3>1. \A k \in Frames(Rest) : Above(f, k)
      BY <1>7, <1>10 DEF Above
    <3>2. Above(f, g) /\ Above(f, h)
      BY <1>7, <1>9 DEF Above
    <3> QED
      BY <1>12, <3>1, <3>2
  <2>2. /\ <<f>> \o t \in Seq(Calls) /\ Nested(<<f>> \o t) /\ Frames(<<f>> \o t) = {f} \cup Frames(t)
        /\ Claimed(<<f>> \o t) = Claim(f) \cup Claimed(t)
    BY <1>12, <2>1, Push
  <2>3. stack' \in Seq(Calls) /\ Nested(stack')
    BY <1>13, <2>2
  <2>4. Frames(stack') = {f, g, h} \cup Frames(Rest)
    <3>1. Frames(stack') = {f} \cup Frames(t)
      BY <1>13, <2>2
    <3> QED
      BY <1>12, <3>1
  <2>5. Claimed(stack') = Claimed(stack)
    <3>1. Claimed(stack') = {q} \cup h.set \cup Claimed(Rest)
      BY <1>7, <1>12, <1>13, <2>2
    <3>2. {q} \cup h.set = Top.set
      BY <1>8
    <3>3. Claimed(stack) = Top.set \cup Claimed(Rest)
      BY <1>2, <1>3
    <3> QED
      BY <3>1, <3>2, <3>3
  <2> QED
    BY <2>3, <2>4, <2>5
<1>15. Servers' = Servers /\ Live' = Live
  BY DEF Servers, N, Live
<1>16. \A s \in Servers : Wire(s) /\ Ears(s)
  BY DEF Wire, Ears
<1>17. \A p \in Queries : Same(p)
  BY DEF Same
<1>18. Framed'
  <2>1. Good(f)'
    BY <1>7, <1>14 DEF Good
  <2>2. Good(g)' /\ Good(h)'
    BY <1>3, <1>7, <1>8, <1>15 DEF Good
  <2>3. \A k \in Frames(Rest) : Good(k)'
    <3>1. \A p \in Claimed(Rest) : Same(p)
      BY <1>2, <1>17, ClaimedQueries
    <3> QED
      BY <1>1, <1>16, <3>1, RestGood
  <2> QED
    BY <1>1, <1>14, <1>15, <2>1, <2>2, <2>3 DEF Framed
<1>19. Held'
  <2>1. \A p \in Live : Sits(p)' <=> Sits(p)
    BY DEF Sits, Queued
  <2> QED
    BY <1>1, <1>14, <1>15, <2>1 DEF Held
<1>20. Has("cancel") /\ Has("cancel")'
  BY <1>2, <1>8, <1>14 DEF Has
<1>21. Ended' = Ended
  <2>1. \A k \in Frames(Rest) : k.op \notin Ending \cup {"callback"}
    <3> SUFFICES ASSUME NEW k \in Frames(Rest)
                 PROVE  k.op \notin Ending \cup {"callback"}
      OBVIOUS
    <3>1. k \in Calls /\ Rank(k) \in Nat /\ Rank(k) >= 3 /\ k.op \notin Active
      BY <1>2, <1>10
    <3>2. Rank(k) # 1
      BY <3>1
    <3>3. k.op \notin Ending
      BY <3>1, <3>2, CallFields
    <3> QED
      BY <3>1, <3>3 DEF Active
  <2>2. \A p : ~\E k \in Frames(stack) : k.op \in Ending /\ k.q = p
    BY <1>2, <2>1 DEF Ending
  <2>3. \A p : p # q => ~\E k \in Frames(stack') : k.op \in Ending /\ k.q = p
    BY <1>7, <1>8, <1>14, <2>1 DEF Ending
  <2>4. \E k \in Frames(stack') : k.op = "callback" /\ k.q = q
    BY <1>7, <1>14
  <2>5. Ended = {}
    BY <2>2 DEF Ended
  <2>6. Ended' = {}
    BY <2>3, <2>4 DEF Ended
  <2> QED
    BY <2>5, <2>6
<1>22. Known'
  BY <1>1, <1>15, <1>16, WiresKnown
<1>23. Cancelling' /\ Quiet'
  <2>1. Freeds' <=> Freeds
    BY <1>16, WiresFreeds
  <2> QED
    BY <1>1, <1>20, <2>1 DEF Cancelling, Quiet
<1>24. Answering'
  <2>1. (Live \ Ended)' = Live \ Ended
    BY <1>15, <1>21
  <2> QED
    BY <1>1, <1>15, <2>1, KeepsAnswering
<1>25. Typed'
  BY <1>1, <1>14, <1>15 DEF Typed, Calls, LookupType, QueryType, ServerType, Requests, N, Tries, Servers
<1> QED
  BY <1>18, <1>19, <1>22, <1>23, <1>24, <1>25 DEF Inv

LEMMA CancelNextStep ==
  ASSUME Inv, CancelNext
  PROVE  Inv'
<1>1. ~Idle /\ Top.op = "cancel" /\ UNCHANGED <<lookup, all, loose, size>>
  BY DEF CancelNext, In
<1>2. CASE /\ Top.set = {} /\ stack' = Rest
           /\ IF all = {} THEN CloseAll(query) ELSE UNCHANGED <<server, query>>
  BY <1>1, <1>2, CancelledAll
<1>3. CASE \E q \in Top.set :
          /\ stack' = <<[op |-> "callback", q |-> q, how |-> "cancelled"], [op |-> "drop", q |-> q],
                        [Top EXCEPT !.set = @ \ {q}]>> \o Rest
          /\ UNCHANGED <<server, query>>
  BY <1>1, <1>3, CancelledOne
<1> QED
  BY <1>2, <1>3 DEF CancelNext

-----------------------------------------------------------------------------
(* The invariant is inductive                                               *)

LEMMA InitInv ==
  ASSUME Init
  PROVE  Inv
<1>1. /\ size \in Sizes /\ lookup = [l \in Lookups |-> NoLookup] /\ query = [q \in Queries |-> NoQuery]
      /\ server = [s \in Servers |-> NewServer] /\ all = {} /\ stack = << >> /\ loose = FALSE
  BY DEF Init
<1>2. NoQuery \in QueryType /\ NoQuery.live = FALSE /\ NoQuery.tcp = FALSE /\ NoQuery.over = {}
  BY <1>1, NoQueryIs
<1>3. NoLookup \in LookupType /\ NoLookup.started = FALSE /\ NoLookup.answers = 0
  BY NoLookupType DEF NoLookup
<1>4. /\ NewServer \in ServerType /\ NewServer.udp = FALSE /\ NewServer.tcp = FALSE
      /\ NewServer.asked = {} /\ NewServer.written = {} /\ NewServer.queue = << >>
  BY NewServerType DEF NewServer
<1>5. Len(NewServer.queue) = 0
  BY <1>4, EmptySeq
<1>6. Frames(stack) = {} /\ Nested(stack) /\ Claimed(stack) = {} /\ stack \in Seq(Calls)
  BY <1>1, NoFrames
<1>7. Typed
  BY <1>1, <1>2, <1>3, <1>4, <1>6 DEF Typed
<1>8. Live = {}
  BY <1>1, <1>2 DEF Live
<1>9. \A s \in Servers : server[s] = NewServer
  BY <1>1
<1>10. \A s, q : s \in Servers => ~Queued(q, s)
  BY <1>5, <1>9 DEF Queued
<1>11. Framed /\ Held
  BY <1>1, <1>6, <1>8 DEF Framed, Held
<1>12. Known
  <2>1. OncePerConnection
    BY <1>5, <1>9 DEF OncePerConnection
  <2>2. \A s \in Servers, q \in Queries : ~(q \in server[s].written \/ Queued(q, s))
    BY <1>4, <1>9, <1>10
  <2>3. \A s \in Servers : server[s].asked \cup server[s].written \subseteq Live
    BY <1>4, <1>9
  <2>4. \A q \in Queries : query[q].over = {} /\ ~query[q].tcp
    BY <1>1, <1>2
  <2> QED
    BY <2>1, <2>2, <2>3, <2>4 DEF Known
<1>13. Cancelling /\ Quiet
  BY <1>4, <1>5, <1>6, <1>9 DEF Cancelling, Quiet, Has, Freeds
<1>14. Answering
  <2>1. \A l \in Lookups : Pending(l) = {} /\ lookup[l] = NoLookup
    BY <1>1, <1>8 DEF Pending
  <2> QED
    BY <1>3, <1>8, <2>1 DEF Answering
<1> QED
  BY <1>7, <1>11, <1>12, <1>13, <1>14 DEF Inv

LEMMA StutterKeeps ==
  ASSUME Inv, UNCHANGED vars
  PROVE  Inv'
<1>1. /\ size' = size /\ lookup' = lookup /\ query' = query /\ server' = server /\ all' = all /\ stack' = stack
      /\ loose' = loose
  BY DEF vars
<1>2. Servers' = Servers /\ Live' = Live /\ Ended' = Ended
  BY <1>1 DEF Servers, N, Live, Ended
<1>3. \A s \in Servers : Wire(s)
  BY <1>1 DEF Wire
<1>4. Typed'
  BY <1>1, <1>2 DEF Inv, Typed, Calls, LookupType, QueryType, ServerType, Requests, N, Tries, Servers
<1>5. Framed'
  <2>1. \A f : Good(f)' <=> Good(f)
    BY <1>1, <1>2 DEF Good, Queued, Stolen, N
  <2> QED
    BY <1>1, <1>2, <2>1 DEF Inv, Framed
<1>6. Held'
  <2>1. \A p \in Live : Sits(p)' <=> Sits(p)
    BY <1>1 DEF Sits, Queued
  <2> QED
    BY <1>1, <1>2, <2>1 DEF Inv, Held
<1>7. Known'
  BY <1>1, <1>2, <1>3, WiresKnown DEF Inv
<1>8. Cancelling' /\ Quiet'
  BY <1>1, <1>2 DEF Inv, Cancelling, Quiet, Has, Freeds
<1>9. Answering'
  BY <1>1, <1>2, KeepsAnswering DEF Inv
<1> QED
  BY <1>4, <1>5, <1>6, <1>7, <1>8, <1>9 DEF Inv

LEMMA NextKeeps ==
  ASSUME Inv, [Next]_vars
  PROVE  Inv'
<1>1. CASE SendQuery
  BY <1>1, SendStep
<1>2. CASE NextServer
  BY <1>2, NextStep
<1>3. CASE EndQuery
  BY <1>3, EndStep
<1>4. CASE Callback
  BY <1>4, CallbackStep
<1>5. CASE FreeQuery
  BY <1>5, FreeStep
<1>6. CASE ErrorNext
  BY <1>6, ErrorStep
<1>7. CASE Process
  BY <1>7, ProcessStep
<1>8. CASE WriteTcp
  BY <1>8, WriteTcpStep
<1>9. CASE ReadTcp
  BY <1>9, ReadTcpStep
<1>10. CASE ReadUdp
  BY <1>10, ReadUdpStep
<1>11. CASE TimeoutNext
  BY <1>11, TimeoutStep
<1>12. CASE BrokenNext
  BY <1>12, BrokenStep
<1>13. CASE Cancel
  BY <1>13, CancelStep
<1>14. CASE CancelNext
  BY <1>14, CancelNextStep
<1>15. CASE DropQuery
  BY <1>15, DropStep
<1>16. CASE \E due \in SUBSET Queries : Timeouts(due)
  BY <1>16, DueStep
<1>17. CASE \E l \in Lookups : Start(l)
  BY <1>17, StartStep
<1>18. CASE UNCHANGED vars
  BY <1>18, StutterKeeps
<1> QED
  BY <1>1, <1>2, <1>3, <1>4, <1>5, <1>6, <1>7, <1>8, <1>9, <1>10, <1>11, <1>12, <1>13, <1>14, <1>15, <1>16, <1>17,
     <1>18 DEF Next

\* Every state that is reached, in the middle of any nest of calls, satisfies Inv
\* (ares_process.c, ares_cancel.c).
THEOREM Invariant == Spec => []Inv
<1>1. Init => Inv
  BY InitInv
<1>2. Inv /\ [Next]_vars => Inv'
  BY NextKeeps
<1> QED
  BY <1>1, <1>2, PTL DEF Spec

\* The fields of the lookups, queries and servers keep their types, and the list of all
\* queries has none that is freed (ares_process.c:1426-1440).
THEOREM TypeCorrect == Spec => []TypeOK
<1>1. Inv => TypeOK
  BY DEF Inv, Typed, Framed, TypeOK, QueryType, LookupType, Live
<1> QED
  BY <1>1, Invariant, PTL

\* However calls nest: no request in a server's queue points into a query that has been
\* freed, unless the callback of a query that was cancelled has asked again.  end_query
\* copies or gives up what is queued (ares_process.c:1356-1409), ares_cancel does not, and
\* closes the sockets instead when there is no query left (ares_cancel.c:47-63).
THEOREM NoDanglingHolds == Spec => []NoDangling
<1>1. Inv => NoDangling
  <2> SUFFICES ASSUME Inv, Dangling
               PROVE  loose
    BY DEF NoDangling
  <2>1. Freeds
    BY DEF Dangling, Freeds
  <2>2. ~Has("cancel")
    BY NoFrames DEF Dangling, Idle, Has
  <2> QED
    BY <2>1, <2>2 DEF Inv, Cancelling
<1> QED
  BY <1>1, Invariant, PTL

\* However queries are retried, timed out and moved between servers: none is in a server's
\* queue twice, or again after it has been sent, over one TCP connection, since next_server
\* leaves out the servers it has been sent to over their present one
\* (ares_process.c:762-802, tcp_connection_generation).
THEOREM OncePerConnectionHolds == Spec => []OncePerConnection
<1>1. Inv => OncePerConnection
  BY DEF Inv, Known
<1> QED
  BY <1>1, Invariant, PTL

\* Whatever the callbacks of ending queries ask, the loops of handle_error, process_timeouts
\* and ares_cancel find alive every query they have still to visit, and those handle_error
\* has taken at its server and in its list, as it asserts (ares_process.c:731-742).
THEOREM ListsExactHolds == Spec => []ListsExact
<1>1. Inv => ListsExact
  <2> SUFFICES ASSUME Inv, NEW i \in 1 .. Len(stack)
               PROVE  /\ stack[i].op \in {"errors", "due", "cancel"} => \A q \in stack[i].set : query[q].live
                      /\ stack[i].op = "errors" => \A q \in stack[i].set : query[q].server = stack[i].s
                      /\ stack[i].op = "errors" /\ i = 1 => At(Stolen) = stack[i].set
    BY DEF ListsExact
  <2>1. Typed /\ Framed /\ Held
    BY DEF Inv
  <2>2. PICK f \in Frames(stack) : f = stack[i]
    BY DEF Frames
  <2>3. Good(f)
    BY <2>1 DEF Framed
  <2>4. f.op \in {"errors", "due", "cancel"} => \A q \in f.set : q \in Live
    BY <2>1, <2>3 DEF Good, Framed
  <2>5. f.op = "errors" => \A q \in f.set : query[q].server = f.s /\ query[q].place = Stolen
    BY <2>3 DEF Good
  <2>6. ASSUME f.op = "errors", i = 1
        PROVE  At(Stolen) = f.set
    <3>1. stack \in Seq(Calls) /\ Len(stack) \in Nat
      BY <2>1, LenProperties DEF Typed
    <3>2. ~Idle
      BY <3>1, EmptySeq DEF Idle
    <3>3. Top = f
      BY <2>2, <2>6, <3>1, <3>2 DEF Top, Idle
    <3>4. /\ Claimed(stack) = Claim(Top) \cup Claimed(Rest) /\ Top \in Calls
          /\ \A g \in Frames(Rest) : g \in Calls /\ Above(Top, g) /\ g.op \notin Active
      BY <2>1, <3>2, Popped
    <3>5. Claim(Top) = f.set /\ Rank(Top) = 2
      BY <2>6, <3>3, ClaimIs, RankIs
    <3>6. ASSUME NEW g \in Frames(Rest)
          PROVE  Claim(g) = {}
      <4>1. Rank(g) \in Nat /\ 2 <= Rank(g) /\ Rank(g) # 2
        BY <3>4, <3>5, CallFields DEF Above
      <4>2. g.op \notin Active \cup Ending \cup Visits
        BY <3>4, <4>1, CallFields
      <4> QED
        BY <4>2 DEF Claim, Active
    <3>7. Claimed(stack) = f.set
      BY <3>4, <3>5, <3>6 DEF Claimed
    <3>8. ASSUME NEW q \in At(Stolen)
          PROVE  q \in f.set
      <4>1. q \in Live /\ query[q].place = Stolen
        BY DEF At, Live
      <4>2. query[q].server \in Servers /\ Stolen \notin Servers
        BY <2>1, <4>1, SizeIs DEF Typed, QueryType, Live, Servers, Stolen
      <4> QED
        BY <2>1, <3>7, <4>1, <4>2 DEF Held, Sits
    <3>9. \A q \in f.set : q \in At(Stolen)
      BY <2>4, <2>5, <2>6 DEF At, Live
    <3> QED
      BY <3>8, <3>9
  <2> QED
    BY <2>2, <2>4, <2>5, <2>6 DEF Live
<1> QED
  BY <1>1, Invariant, PTL

\* No lookup is lost, and none is answered twice: between two calls each that has begun is
\* answered, or has one query that is in the lists by which a timeout and an error of its
\* server find it, and that is queued or sent at a socket that is open
\* (ares_process.c:710-893, 1356-1424).
THEOREM SettledHolds == Spec => []Settled
<1>1. Inv => Settled
  <2> SUFFICES ASSUME Inv, Idle
               PROVE  Settled
    BY DEF Settled
  <2>1. Typed /\ Framed /\ Held /\ Answering /\ Quiet
    BY DEF Inv
  <2>2. Claimed(stack) = {} /\ Frames(stack) = {}
    BY NoFrames DEF Idle
  <2>3. Ended = {} /\ ~Has("cancel")
    BY <2>2 DEF Ended, Has
  <2>4. ASSUME NEW l \in Lookups, NEW mine, mine = {q \in Queries : query[q].live /\ query[q].lookup = l}
        PROVE  lookup[l].answers + Cardinality(mine) = IF lookup[l].started THEN 1 ELSE 0
    <3>1. mine = Pending(l)
      BY <2>3, <2>4 DEF Pending, Live
    <3>2. /\ \A p, q \in mine : p = q
          /\ lookup[l].answers \in {0, 1}
          /\ lookup[l].started <=> lookup[l].answers = 1 \/ mine # {}
          /\ lookup[l].answers = 1 => mine = {}
      BY <2>1, <3>1 DEF Answering
    <3>3. CASE mine = {}
      <4>1. Cardinality(mine) = 0
        BY <3>3, FS_EmptySet
      <4> QED
        BY <3>2, <3>3, <4>1
    <3>4. CASE mine # {}
      <4>1. PICK q : mine = {q}
        BY <3>2, <3>4
      <4>2. Cardinality(mine) = 1
        BY <4>1, FS_Singleton
      <4> QED
        BY <3>2, <3>4, <4>2
    <3> QED
      BY <3>3, <3>4
  <2>5. \A q \in Queries : query[q].live => Sits(q)
    BY <2>1, <2>2 DEF Held, Live
  <2>6. all = {} => \A s \in Servers : ~server[s].udp /\ ~server[s].tcp
    BY <2>1, <2>3 DEF Quiet
  <2> QED
    BY <2>4, <2>5, <2>6 DEF Settled, Sits, Queued
<1> QED
  BY <1>1, Invariant, PTL

-----------------------------------------------------------------------------
(* The helper that drives c-ares                                            *)
(*                                                                          *)
(* DomainResolve asks through this channel, of which it sees the sockets.   *)
(* The invariant says that as long as no mishap has happened the helper's   *)
(* descriptors are those of c-ares or were since its last look, and belong  *)
(* to nobody else.                                                          *)

Clear == mishaps \cap {"reused", "garbled"} = {}

\* The helper's descriptors are c-ares' or were until a moment ago, and nobody else's.
Apart ==
  /\ slots \subseteq Sockets(owner) \cup lately
  /\ \A f \in lately : owner[f] # "other"
  /\ \A f \in Fds : owner[f] = "other" => registered[f] = "other"

Maps == owner \in [Fds -> {"free", "ares", "other"}] /\ DOMAIN registered = Fds /\ lately \subseteq Fds

HelperInv == Maps /\ (Clear => Apart)

LEMMA HelperInit == DomainInit => HelperInv
BY DEF DomainInit, HelperInv, Maps, Apart, Sockets

\* What a look of the helper does, the owners being o.
LEMMA LookFacts ==
  ASSUME NEW o, NEW act, NEW r, DOMAIN r = Fds, Look(o, r, act)
  PROVE  /\ lately' = {} /\ mishaps \subseteq mishaps'
         /\ Clear' => slots' \subseteq Sockets(o)
         /\ DOMAIN registered' = Fds
         /\ \A f \in Fds : f \notin slots /\ r[f] = "other" => registered'[f] = "other"
<1> DEFINE ours == IF act THEN Sockets(o) ELSE {}
<1>1. ours \subseteq Sockets(o)
  OBVIOUS
<1>2. PICK given : /\ slots' = given /\ registered' = Relisted(given, r, o)
                   /\ given = ours \/ "garbled" \in mishaps'
                   /\ mishaps \subseteq mishaps' /\ lately' = {}
  <2>1. CASE /\ slots' = NextSlots(ours)
             /\ registered' = Relisted(ours, r, o) /\ mishaps' = mishaps
    BY <2>1 DEF Look, NextSlots
  <2>2. ASSUME NEW stray \in Fds \cup {NoFd},
               slots' = NextSlots(ours \cup ({stray} \ {NoFd})),
               registered' = Relisted(ours \cup ({stray} \ {NoFd}), r, o),
               mishaps' = mishaps \cup (IF stray \in ours THEN {} ELSE {"garbled"})
        PROVE  \E given : /\ slots' = given /\ registered' = Relisted(given, r, o)
                          /\ given = ours \/ "garbled" \in mishaps'
                          /\ mishaps \subseteq mishaps' /\ lately' = {}
    <3>1. lately' = {}
      BY DEF Look
    <3>2. stray \in ours => ours \cup ({stray} \ {NoFd}) = ours
      OBVIOUS
    <3>3. stray \notin ours => "garbled" \in mishaps'
      BY <2>2
    <3> QED
      BY <2>2, <3>1, <3>2, <3>3 DEF NextSlots
  <2> QED
    BY <2>1, <2>2 DEF Look
<1> HIDE DEF ours
<1>3. ASSUME NEW f \in Fds, f \notin slots, r[f] = "other"
      PROVE  registered'[f] = "other"
  BY <1>2, <1>3 DEF Relisted
<1>4. DOMAIN registered' = Fds
  BY <1>2 DEF Relisted
<1>5. Clear' => slots' \subseteq Sockets(o)
  BY <1>1, <1>2 DEF Clear
<1> QED
  BY <1>2, <1>3, <1>4, <1>5

\* So a look keeps the others' registrations, c-ares having opened at most new sockets.
LEMMA LookKeeps ==
  ASSUME HelperInv, NEW act, Look(owner', registered, act), owner' \in [Fds -> {"free", "ares", "other"}],
         \A f \in Fds : owner'[f] = "other" => owner[f] = "other"
  PROVE  HelperInv'
<1>1. /\ lately' = {} /\ mishaps \subseteq mishaps' /\ DOMAIN registered' = Fds
      /\ Clear' => slots' \subseteq Sockets(owner')
      /\ \A f \in Fds : f \notin slots /\ registered[f] = "other" => registered'[f] = "other"
  BY LookFacts DEF HelperInv, Maps
<1>2. ASSUME Clear'
      PROVE  Apart'
  <2>1. Clear /\ Apart
    BY <1>1, <1>2 DEF Clear, HelperInv
  <2>2. ASSUME NEW f \in Fds, owner'[f] = "other"
        PROVE  registered'[f] = "other"
    <3>1. owner[f] = "other" /\ registered[f] = "other" /\ f \notin slots
      BY <2>1, <2>2 DEF Apart, Sockets
    <3> QED
      BY <1>1, <3>1
  <2> QED
    BY <1>1, <1>2, <2>2 DEF Apart
<1> QED
  BY <1>1, <1>2 DEF HelperInv, Maps

\* Sockets of c-ares that are closed are so of late.
LEMMA ClosingKeeps ==
  ASSUME HelperInv, NEW S \in SUBSET Fds, NEW new \in SUBSET Fds,
         slots' = slots, mishaps \subseteq mishaps',
         S \subseteq Sockets(owner),
         owner' = [f \in Fds |-> IF f \in new THEN "ares" ELSE IF f \in S THEN "free" ELSE owner[f]],
         \A f \in new : owner[f] # "other",
         registered' = Without(registered, S, "none"),
         lately' = lately \cup (S \ new)
  PROVE  HelperInv'
<1>1. Maps'
  BY DEF HelperInv, Maps, Without, Sockets
<1>2. ASSUME Clear'
      PROVE  Apart'
  <2>1. Clear /\ Apart
    BY <1>2 DEF Clear, HelperInv
  <2>2. \A f \in Fds : owner'[f] = (IF f \in new THEN "ares" ELSE IF f \in S THEN "free" ELSE owner[f])
    OBVIOUS
  <2>3. \A f \in Fds : owner'[f] = "other" => owner[f] = "other" /\ f \notin S
    BY <2>2
  <2>4. \A f \in Fds : registered'[f] = IF f \in S THEN "none" ELSE registered[f]
    BY DEF Without
  <2>5. slots' \subseteq Sockets(owner') \cup lately'
    BY <2>1, <2>2 DEF Apart, Sockets
  <2>6. \A f \in lately' : owner'[f] # "other"
    BY <2>1, <2>2 DEF Apart, Sockets, HelperInv, Maps
  <2>7. \A f \in Fds : owner'[f] = "other" => registered'[f] = "other"
    BY <2>1, <2>3, <2>4 DEF Apart
  <2> QED
    BY <2>5, <2>6, <2>7 DEF Apart
<1> QED
  BY <1>1, <1>2 DEF HelperInv

LEMMA StillKeeps ==
  ASSUME HelperInv, UNCHANGED <<slots, owner, registered, lately, mishaps>>
  PROVE  HelperInv'
BY DEF HelperInv, Maps, Apart, Clear, Sockets

LEMMA HelperStartKeeps == ASSUME HelperInv, StartClient PROVE HelperInv'
<1>1. CASE UNCHANGED <<helperVars, owner, registered, lately, mishaps>>
  BY <1>1, StillKeeps DEF helperVars
<1>2. ASSUME NEW f \in FreeNumbers(owner), owner' = [owner EXCEPT ![f] = "ares"], FirstLook(owner')
      PROVE  HelperInv'
  <2>1. owner' \in [Fds -> {"free", "ares", "other"}] /\ \A g \in Fds : owner'[g] = "other" => owner[g] = "other"
    BY <1>2 DEF HelperInv, Maps, FreeNumbers
  <2> QED
    BY <1>2, <2>1, LookKeeps DEF FirstLook
<1> QED
  BY <1>1, <1>2 DEF StartClient, helperVars

LEMMA HelperEventKeeps == ASSUME HelperInv, NEW f \in Fds, Event(f) PROVE HelperInv'
<1>0. slots' = slots /\ owner[f] = "ares"
  BY DEF Event, helperVars
<1>1. ASSUME QueryEnds, mishaps' = mishaps
      PROVE  HelperInv'
  <2> DEFINE S == Sockets(owner)
  <2>1. S \in SUBSET Fds /\ {} \in SUBSET Fds
    BY DEF Sockets
  <2>2. owner' = [g \in Fds |-> IF g \in {} THEN "ares" ELSE IF g \in S THEN "free" ELSE owner[g]]
    BY <1>1 DEF QueryEnds, Without
  <2>3. registered' = Without(registered, S, "none") /\ lately' = lately \cup (S \ {})
    BY <1>1 DEF QueryEnds
  <2> QED
    BY <1>0, <1>1, <2>1, <2>2, <2>3, ClosingKeeps
<1>2. ASSUME NEW S \in SUBSET Fds, S \subseteq {f}, AskNext(f, S)
      PROVE  HelperInv'
  <2> DEFINE o == Without(owner, S, "free")
  <2>1. PICK g \in Sockets(o) \cup FreeNumbers(o) :
          /\ owner' = [o EXCEPT ![g] = "ares"] /\ lately' = lately \cup (S \ {g})
          /\ mishaps \subseteq mishaps' /\ registered' = Without(registered, S, "none")
    <3>1. \A A, B, c : A \cup (IF c THEN B ELSE {}) \subseteq A \cup B
      OBVIOUS
    <3> QED
      BY <1>2, <3>1 DEF AskNext
  <2>2. g \in Fds /\ owner[g] # "other" /\ S \subseteq Sockets(owner)
    BY <1>0, <1>2, <2>1 DEF Sockets, FreeNumbers, Without
  <2>3. owner' = [h \in Fds |-> IF h \in {g} THEN "ares" ELSE IF h \in S THEN "free" ELSE owner[h]]
    BY <2>1 DEF Without
  <2> QED
    BY ZenonT(30), <1>0, <1>2, <2>1, <2>2, <2>3, ClosingKeeps
<1>3. CASE UNCHANGED <<owner, registered, lately, mishaps>>
  BY <1>0, <1>3, StillKeeps
<1> QED
  BY <1>1, <1>2, <1>3 DEF Event

LEMMA HelperNext == HelperInv /\ [DomainNext]_domainVars => HelperInv'
<1> SUFFICES ASSUME HelperInv, [DomainNext]_domainVars
             PROVE  HelperInv'
  OBVIOUS
<1>1. CASE StartClient
  BY <1>1, HelperStartKeeps
<1>2. CASE Destroy
  <2>1. slots' = {} /\ owner' = Without(owner, Sockets(owner), "free")
        /\ registered' = Without(registered, Sockets(owner) \cup slots, "none")
        /\ lately' = lately /\ mishaps' = mishaps
    BY <1>2 DEF Destroy
  <2> QED
    BY <2>1 DEF HelperInv, Maps, Apart, Clear, Sockets, Without
<1>3. CASE TurnEnds
  BY <1>3, StillKeeps DEF TurnEnds, helperVars
<1>4. CASE OnIdle
  <2>1. owner' = owner
    BY <1>4 DEF OnIdle
  <2>2. CASE Look(owner, registered, active)
    <3>1. Look(owner', registered, active)
      BY <2>1, <2>2
    <3> QED
      BY <2>1, <3>1, LookKeeps DEF HelperInv, Maps
  <2>3. CASE UNCHANGED <<helperVars, registered, failure, lately, mishaps>>
    BY <2>1, <2>3, StillKeeps DEF helperVars
  <2> QED
    BY <1>4, <2>2, <2>3 DEF OnIdle
<1>5. ASSUME NEW f \in Fds, OtherOpens(f)
      PROVE  HelperInv'
  <2>1. /\ owner[f] = "free" /\ owner' = [owner EXCEPT ![f] = "other"]
        /\ registered' = [registered EXCEPT ![f] = "other"]
        /\ mishaps' = mishaps \cup (IF f \in lately THEN {"reused"} ELSE {}) /\ lately' = lately /\ slots' = slots
    BY <1>5 DEF OtherOpens, helperVars
  <2>2. Maps'
    BY <2>1 DEF HelperInv, Maps
  <2>3. ASSUME Clear' PROVE Apart'
    <3>1. f \notin lately /\ Clear /\ Apart
      BY <2>1, <2>3 DEF Clear, HelperInv
    <3> QED
      BY <2>1, <3>1 DEF Apart, Sockets, HelperInv, Maps
  <2> QED
    BY <2>2, <2>3 DEF HelperInv
<1>6. ASSUME NEW f \in Fds, OtherCloses(f)
      PROVE  HelperInv'
  BY <1>6 DEF OtherCloses, helperVars, HelperInv, Maps, Apart, Clear, Sockets
<1>7. ASSUME NEW f \in Fds, Event(f)
      PROVE  HelperInv'
  BY <1>7, HelperEventKeeps
<1>8. ASSUME NEW f \in Fds, NEW what \in Answers, Arrive(f, what)
      PROVE  HelperInv'
  BY <1>8, StillKeeps DEF Arrive, helperVars
<1>9. ASSUME NEW n \in Names, Ages(n) \/ OtherStores(n)
      PROVE  HelperInv'
  BY <1>9, StillKeeps DEF Ages, OtherStores, helperVars
<1>10. CASE UNCHANGED domainVars
  BY <1>10, StillKeeps DEF domainVars
<1> QED
  BY <1>1, <1>2, <1>3, <1>4, <1>5, <1>6, <1>7, <1>8, <1>9, <1>10 DEF DomainNext

\* The helper takes no registration from another socket of the loop, for any numbers of
\* descriptors and questions and either number of name servers, as long as no number changes
\* hands within a turn and c-ares has one socket at most: what it has registered is c-ares'
\* or was until the last look (domain_async_resolve_helper.cpp:203-253).
THEOREM OthersKeepTheirsHolds == DomainSpec => []OthersKeepTheirs
<1>1. HelperInv => OthersKeepTheirs
  BY DEF HelperInv, Clear, Apart, OthersKeepTheirs
<1> QED
  BY <1>1, HelperInit, HelperNext, PTL DEF DomainSpec

-----------------------------------------------------------------------------
(* The helper hears c-ares                                                  *)
(*                                                                          *)
(* A socket of c-ares is registered from the helper's next look on.  The    *)
(* helper tells new sockets from old by their numbers, so this needs that a *)
(* number it has is still registered, which fails when a number is closed   *)
(* and taken again between two looks: that is what mishaps excludes.        *)

Few == IsFiniteSet(Sockets(owner)) /\ Cardinality(Sockets(owner)) <= NameServers

\* c-ares has sockets only for a query, and the helper looks for them.
Asking == \A f \in Fds : owner[f] = "ares" => active /\ resolve = "made" /\ fdsNum > 0

\* What the helper does not have is not registered by it.
Unlisted ==
  /\ \A f \in Fds : owner[f] = "free" => registered[f] = "none"
  /\ \A f \in Fds : owner[f] = "ares" /\ f \notin slots => registered[f] = "none"
  /\ resolve = "none" => slots = {} /\ fdsNum = 0

\* What it has is registered, or was closed since its last look.
Followed ==
  mishaps = {} =>
    /\ slots \subseteq Sockets(owner) \cup lately
    /\ \A f \in slots : owner[f] = "ares" => registered[f] = "resolve"

\* The types of what a look leaves alone.
AskTypes ==
  /\ phase \in {"turn", "idle"} /\ client \in BOOLEAN /\ resolve \in {"none", "made", "deleted"}
  /\ cache \in [Names -> {"none", "fresh", "old"}]
  /\ talk \in [Fds -> {"none", "waits"} \cup Answers]
  /\ active \in BOOLEAN /\ asks \in 0 .. MaxAsks /\ asserts \in BOOLEAN

HearInv == DomainTypeOK /\ Few /\ Asking /\ Unlisted /\ Followed

LEMMA HearInit == DomainInit => HearInv
<1> SUFFICES ASSUME DomainInit
             PROVE  HearInv
  OBVIOUS
<1>1. Sockets(owner) = {}
  BY DEF DomainInit, Sockets
<1>2. Few
  BY <1>1, FS_EmptySet, DomainAssumption DEF Few
<1>3. DomainTypeOK
  <2>1. client \in BOOLEAN /\ active \in BOOLEAN /\ asserts \in BOOLEAN
    BY DEF DomainInit
  <2>2. asks \in 0 .. MaxAsks /\ fdsNum \in 0 .. 3
    BY DomainAssumption DEF DomainInit
  <2> QED
    BY <2>1, <2>2 DEF DomainInit, DomainTypeOK
<1> QED
  BY <1>2, <1>3 DEF DomainInit, HearInv, Asking, Unlisted, Followed

\* A look at few sockets, with what was registered as it should be.
LEMMA LookHears ==
  ASSUME NEW o \in [Fds -> {"free", "ares", "other"}], NEW act \in BOOLEAN, Look(o, registered, act),
         DomainTypeOK, IsFiniteSet(Sockets(o)), Cardinality(Sockets(o)) <= NameServers,
         Sockets(o) # {} => act
  PROVE  /\ slots' \subseteq Fds /\ fdsNum' \in 0 .. 3 /\ fdsNum' >= fdsNum /\ (Sockets(o) # {} => fdsNum' > 0)
         /\ registered' \in [Fds -> {"none", "resolve", "other"}]
         /\ failure' \in {"none", "start", "getsock"} /\ lately' = {}
         /\ mishaps' \subseteq {"reused", "renumbered", "garbled"}
         /\ Sockets(o) \subseteq slots'
         /\ mishaps' = {} => mishaps = {} /\ slots' = Sockets(o)
         /\ \A f \in Fds : o[f] = "free" /\ registered[f] = "none" => registered'[f] = "none"
         /\ \A f \in Sockets(o) : (IF f \in slots THEN registered[f] = "resolve" ELSE registered[f] = "none")
                                    => registered'[f] = "resolve"
<1> DEFINE ours == Sockets(o)
<1>1. ours = (IF act THEN Sockets(o) ELSE {}) /\ ours \subseteq Fds
  BY DEF Sockets
<1>2. IsFiniteSet(ours) /\ Cardinality(ours) \in Nat /\ (Cardinality(ours) = 0 <=> ours = {})
  BY FS_CardinalityType, FS_EmptySet
<1>3. PICK given \in SUBSET Fds : slots' = given /\ registered' = Relisted(given, registered, o) /\ ours \subseteq given
                                  /\ (mishaps' = {} => mishaps = {} /\ given = ours)
  <2>1. CASE slots' = NextSlots(ours) /\ registered' = Relisted(ours, registered, o) /\ mishaps' = mishaps
    BY <1>1, <2>1 DEF NextSlots
  <2>2. ASSUME NEW stray \in Fds \cup {NoFd},
               slots' = NextSlots(ours \cup ({stray} \ {NoFd})),
               registered' = Relisted(ours \cup ({stray} \ {NoFd}), registered, o),
               mishaps' = mishaps \cup (IF stray \in ours THEN {} ELSE {"garbled"})
        PROVE  \E given \in SUBSET Fds :
                 /\ slots' = given /\ registered' = Relisted(given, registered, o) /\ ours \subseteq given
                 /\ mishaps' = {} => mishaps = {} /\ given = ours
    <3>1. CASE stray \in ours
      <4>1. ours \cup ({stray} \ {NoFd}) = ours
        BY <3>1
      <4> QED
        BY <1>1, <2>2, <3>1, <4>1 DEF NextSlots
    <3>2. CASE stray \notin ours
      <4>1. mishaps' # {}
        BY <2>2, <3>2
      <4>2. ours \cup ({stray} \ {NoFd}) \in SUBSET Fds
        BY <1>1
      <4> QED
        BY <2>2, <4>1, <4>2 DEF NextSlots
    <3> QED
      BY <3>1, <3>2
  <2> QED
    BY <1>1, <2>1, <2>2 DEF Look
<1>4. fdsNum' \in 0 .. 3 /\ fdsNum' >= fdsNum /\ (Sockets(o) # {} => fdsNum' > 0)
  <2>1. fdsNum \in 0 .. 3
    BY DEF DomainTypeOK
  <2>2. CASE /\ Cardinality(ours) < 2
             /\ fdsNum' = IF Cardinality(ours) > fdsNum THEN Cardinality(ours) ELSE fdsNum
    BY <1>2, <2>1, <2>2
  <2>3. CASE fdsNum' \in {2, 3, fdsNum} /\ fdsNum' >= fdsNum /\ fdsNum' >= 2
    BY <2>1, <2>3
  <2>4. ASSUME NEW stray,
               fdsNum' = IF fdsNum < 3 /\ stray \notin ours THEN 3 ELSE IF fdsNum < 2 THEN 2 ELSE fdsNum
        PROVE  fdsNum' \in {2, 3, fdsNum} /\ fdsNum' >= fdsNum /\ fdsNum' >= 2
    BY <2>1, <2>4
  <2> QED
    BY <1>1, <2>2, <2>3, <2>4 DEF Look
<1>5. failure' \in {"none", "start", "getsock"} /\ lately' = {}
  BY DEF Look, DomainTypeOK
<1>6. mishaps' \subseteq {"reused", "renumbered", "garbled"}
  <2>1. mishaps' \subseteq mishaps \cup {"garbled"}
    BY DEF Look
  <2> QED
    BY <2>1 DEF DomainTypeOK
<1> HIDE DEF ours
<1>7. registered' \in [Fds -> {"none", "resolve", "other"}]
  BY <1>3 DEF Relisted, DomainTypeOK
<1>8. ASSUME NEW f \in Fds, o[f] = "free", registered[f] = "none"
      PROVE  registered'[f] = "none"
  BY <1>3, <1>8 DEF Relisted
<1>9. ASSUME NEW f \in Sockets(o), IF f \in slots THEN registered[f] = "resolve" ELSE registered[f] = "none"
      PROVE  registered'[f] = "resolve"
  <2>1. f \in Fds /\ f \in given /\ o[f] = "ares"
    BY <1>3 DEF Sockets, ours
  <2> QED
    BY <1>3, <1>9, <2>1 DEF Relisted
<1>10. Sockets(o) \subseteq slots' /\ (mishaps' = {} => mishaps = {} /\ slots' = Sockets(o))
  BY <1>3 DEF ours
<1> QED
  BY <1>3, <1>4, <1>5, <1>6, <1>7, <1>8, <1>9, <1>10

\* What a look leaves, when c-ares has at most opened a socket before it.
LEMMA LookKeepsHearing ==
  ASSUME HearInv, AskTypes', NEW act \in BOOLEAN, Look(owner', registered, act),
         owner' \in [Fds -> {"free", "ares", "other"}], Few',
         \A f \in Fds : owner'[f] = "free" => owner[f] = "free",
         \A f \in Sockets(owner') :
           IF f \in slots THEN mishaps = {} => registered[f] = "resolve" ELSE registered[f] = "none",
         Sockets(owner') # {} => act /\ active' /\ resolve' = "made",
         resolve' # "none"
  PROVE  HearInv' /\ (mishaps' = {} => \A f \in Sockets(owner') : registered'[f] = "resolve")
<1>1. DomainTypeOK
  BY DEF HearInv
<1>2. Sockets(owner') # {} => act
  OBVIOUS
<1>3. IsFiniteSet(Sockets(owner')) /\ Cardinality(Sockets(owner')) <= NameServers
  BY DEF Few
<1>4. /\ slots' \subseteq Fds /\ fdsNum' \in 0 .. 3 /\ fdsNum' >= fdsNum /\ (Sockets(owner') # {} => fdsNum' > 0)
      /\ registered' \in [Fds -> {"none", "resolve", "other"}]
      /\ failure' \in {"none", "start", "getsock"} /\ lately' = {}
      /\ mishaps' \subseteq {"reused", "renumbered", "garbled"}
      /\ Sockets(owner') \subseteq slots'
      /\ mishaps' = {} => mishaps = {} /\ slots' = Sockets(owner')
      /\ \A f \in Fds : owner'[f] = "free" /\ registered[f] = "none" => registered'[f] = "none"
      /\ \A f \in Sockets(owner') : (IF f \in slots THEN registered[f] = "resolve" ELSE registered[f] = "none")
                                      => registered'[f] = "resolve"
  BY <1>1, <1>2, <1>3, LookHears
<1>5. DomainTypeOK'
  BY <1>4 DEF AskTypes, DomainTypeOK
<1>6. Asking'
  BY <1>4 DEF Asking, Sockets
<1>7. Unlisted'
  <2>1. \A f \in Fds : owner'[f] = "free" => registered'[f] = "none"
    BY <1>4 DEF HearInv, Unlisted
  <2>2. \A f \in Fds : owner'[f] = "ares" => f \in slots'
    BY <1>4 DEF Sockets
  <2> QED
    BY <2>1, <2>2 DEF Unlisted
<1>8. mishaps' = {} => \A f \in Sockets(owner') : registered'[f] = "resolve"
  BY <1>4
<1>9. Followed'
  BY <1>4, <1>8 DEF Followed
<1> QED
  BY <1>5, <1>6, <1>7, <1>8, <1>9 DEF HearInv

\* What the other steps leave: they keep what the helper has, and close what they close.
LEMMA KeepsHearing ==
  ASSUME HearInv, DomainTypeOK', Few', UNCHANGED <<slots, fdsNum>>, mishaps \subseteq mishaps',
         resolve' = resolve \/ (resolve = "none" /\ resolve' = "made"),
         lately \subseteq lately',
         \A f \in Fds : owner'[f] = "ares" => active' /\ resolve' = "made" /\ fdsNum > 0,
         \A f \in Fds : owner'[f] = "free" => registered'[f] = "none",
         \A f \in Fds : owner'[f] = "ares" /\ f \notin slots => registered'[f] = "none",
         mishaps' = {} => \A f \in slots : owner'[f] = "ares" =>
                            owner[f] = "ares" /\ registered'[f] = registered[f],
         mishaps' = {} => \A f \in slots : owner[f] = "ares" => owner'[f] = "ares" \/ f \in lately'
  PROVE  HearInv'
<1>1. Asking' /\ Unlisted'
  BY DEF Asking, Unlisted, HearInv
<1>2. Followed'
  <2> SUFFICES ASSUME mishaps' = {}
               PROVE  /\ slots \subseteq Sockets(owner') \cup lately'
                      /\ \A f \in slots : owner'[f] = "ares" => registered'[f] = "resolve"
    BY DEF Followed
  <2>1. /\ slots \subseteq Sockets(owner) \cup lately
        /\ \A f \in slots : owner[f] = "ares" => registered[f] = "resolve"
    BY DEF Followed, HearInv
  <2>2. slots \subseteq Fds
    BY DEF HearInv, DomainTypeOK
  <2> QED
    BY <2>1, <2>2 DEF Sockets
<1> QED
  BY <1>1, <1>2 DEF HearInv

\* Steps that see no socket.
LEMMA ApartHears ==
  ASSUME HearInv, AskTypes', failure' \in {"none", "start", "getsock"},
         UNCHANGED <<slots, fdsNum, owner, registered, lately, mishaps, active>>,
         resolve' = resolve \/ (resolve = "none" /\ resolve' = "made")
  PROVE  HearInv'
<1>1. DomainTypeOK'
  BY DEF AskTypes, DomainTypeOK, HearInv
<1>2. Few'
  BY DEF Few, HearInv, Sockets
<1>3. /\ \A f \in Fds : owner[f] = "ares" => active /\ resolve = "made" /\ fdsNum > 0
      /\ \A f \in Fds : owner[f] = "free" => registered[f] = "none"
      /\ \A f \in Fds : owner[f] = "ares" /\ f \notin slots => registered[f] = "none"
  BY DEF HearInv, Asking, Unlisted
<1>4. \A f \in Fds : owner'[f] = "ares" => active' /\ resolve' = "made" /\ fdsNum > 0
  BY <1>3
<1>5. mishaps \subseteq mishaps' /\ lately \subseteq lately'
  OBVIOUS
<1> QED
  BY <1>1, <1>2, <1>3, <1>4, <1>5, KeepsHearing

LEMMA ResolvedTypes ==
  ASSUME DomainTypeOK, NEW n \in Names, Resolved(n)
  PROVE  cache' \in [Names -> {"none", "fresh", "old"}] /\ client' \in BOOLEAN
BY DEF DomainTypeOK, Resolved, Hit, LooksUp

LEMMA ErasedTypes ==
  ASSUME DomainTypeOK, NEW n \in Names
  PROVE  Erased(n, cache) \in [Names -> {"none", "fresh", "old"}]
BY DEF DomainTypeOK, Erased

\* One socket more, or some less.
LEMMA OpenedFew ==
  ASSUME Few, NEW o \in [Fds -> {"free", "ares", "other"}], NEW S \in SUBSET Fds, NEW g \in Fds,
         Sockets(o) = (Sockets(owner) \ S) \cup {g},
         g \in Sockets(owner) \ S \/ Cardinality(Sockets(owner) \ S) < NameServers
  PROVE  IsFiniteSet(Sockets(o)) /\ Cardinality(Sockets(o)) <= NameServers
<1> DEFINE R == Sockets(owner) \ S
<1>1. IsFiniteSet(R) /\ Cardinality(R) <= Cardinality(Sockets(owner)) /\ Cardinality(R) \in Nat
      /\ Cardinality(Sockets(owner)) \in Nat
  BY FS_Subset, FS_CardinalityType DEF Few
<1>2. NameServers \in Nat
  BY DomainAssumption
<1>3. CASE g \in R
  BY <1>1, <1>2, <1>3 DEF Few
<1>4. CASE g \notin R
  <2>1. IsFiniteSet(R \cup {g}) /\ Cardinality(R \cup {g}) = Cardinality(R) + 1
    BY <1>1, <1>4, FS_AddElement
  <2> QED
    BY <1>1, <1>2, <1>4, <2>1
<1> QED
  BY <1>3, <1>4

LEMMA ClosedFew ==
  ASSUME Few, NEW o, Sockets(o) \subseteq Sockets(owner)
  PROVE  IsFiniteSet(Sockets(o)) /\ Cardinality(Sockets(o)) <= NameServers
<1>1. IsFiniteSet(Sockets(o)) /\ Cardinality(Sockets(o)) <= Cardinality(Sockets(owner))
      /\ Cardinality(Sockets(o)) \in Nat /\ Cardinality(Sockets(owner)) \in Nat
  BY FS_Subset, FS_CardinalityType DEF Few
<1> QED
  BY <1>1, DomainAssumption DEF Few

LEMMA StartHears == ASSUME HearInv, StartClient PROVE HearInv'
<1>0. DomainTypeOK /\ resolve # "deleted" /\ phase' = phase /\ asserts' = asserts
  BY DEF HearInv, StartClient
<1>1. ASSUME UNCHANGED <<helperVars, owner, registered, aresVars, failure, lately, mishaps>>,
             resolve' = resolve \/ (resolve = "none" /\ resolve' = "made"),
             client' \in BOOLEAN, cache' \in [Names -> {"none", "fresh", "old"}]
      PROVE  HearInv'
  <2>1. AskTypes' /\ failure' \in {"none", "start", "getsock"}
    BY <1>0, <1>1 DEF AskTypes, DomainTypeOK, aresVars
  <2> QED
    BY <1>1, <2>1, ApartHears DEF helperVars, aresVars
<1>2. ASSUME NEW f \in FreeNumbers(owner), resolve = "none", resolve' = "made",
             owner' = [owner EXCEPT ![f] = "ares"], talk' = [talk EXCEPT ![f] = "waits"],
             active' = TRUE, asks' = 1, cache' = Erased("asked", cache), FirstLook(owner'), client' = client
      PROVE  HearInv'
  <2>1. f \in Fds /\ owner[f] = "free" /\ registered[f] = "none" /\ f \notin slots
    BY <1>2 DEF FreeNumbers, HearInv, Unlisted
  <2>2. \A g \in Fds : owner[g] # "ares"
    BY <1>2 DEF HearInv, Asking
  <2>3. owner' \in [Fds -> {"free", "ares", "other"}] /\ Sockets(owner') = {f} /\ Sockets(owner) = {}
    BY <1>0, <1>2, <2>1, <2>2 DEF DomainTypeOK, Sockets
  <2>4. Few'
    <3>1. IsFiniteSet({f}) /\ Cardinality({f}) = 1
      BY FS_Singleton
    <3> QED
      BY <2>3, <3>1, DomainAssumption DEF Few
  <2>5. AskTypes'
    <3>1. talk' \in [Fds -> {"none", "waits"} \cup Answers]
      BY <1>0, <1>2, <2>1 DEF DomainTypeOK
    <3>2. cache' \in [Names -> {"none", "fresh", "old"}]
      BY <1>0, <1>2, ErasedTypes DEF Names
    <3>3. asks' \in 0 .. MaxAsks
      BY <1>2, DomainAssumption
    <3> QED
      BY <1>0, <1>2, <3>1, <3>2, <3>3 DEF AskTypes, DomainTypeOK
  <2>6. Look(owner', registered, TRUE)
    BY <1>2 DEF FirstLook
  <2> QED
    BY <1>2, <2>1, <2>2, <2>3, <2>4, <2>5, <2>6, LookKeepsHearing
<1>3. CASE Hit("asked", cache)
  <2>1. cache' = cache /\ client' \in BOOLEAN /\ resolve' = resolve
    BY <1>3 DEF StartClient
  <2>2. UNCHANGED <<helperVars, owner, registered, aresVars, failure, lately, mishaps>>
    BY <1>3 DEF StartClient
  <2>3. cache' \in [Names -> {"none", "fresh", "old"}]
    BY <1>0, <2>1 DEF DomainTypeOK
  <2> QED
    BY <1>1, <2>1, <2>2, <2>3
<1>4. CASE ~Hit("asked", cache) /\ resolve = "made"
  <2>1. cache' = Erased("asked", cache) /\ client' = client /\ resolve' = resolve
    BY <1>4 DEF StartClient
  <2>2. cache' \in [Names -> {"none", "fresh", "old"}]
    BY <1>0, <2>1, ErasedTypes DEF Names
  <2>3. client' \in BOOLEAN
    BY <1>0, <2>1 DEF DomainTypeOK
  <2> QED
    BY <1>1, <1>4, <2>1, <2>2, <2>3 DEF StartClient
<1>5. CASE ~Hit("asked", cache) /\ resolve = "none"
  <2>1. resolve' = "made"
    BY <1>5 DEF StartClient
  <2>2. CASE cache' = Erased("asked", cache) /\ client' = client
             /\ UNCHANGED <<helperVars, owner, registered, aresVars, failure, lately, mishaps>>
    <3>1. cache' \in [Names -> {"none", "fresh", "old"}]
      BY <1>0, <2>2, ErasedTypes DEF Names
    <3>2. client' \in BOOLEAN
      BY <1>0, <2>2 DEF DomainTypeOK
    <3> QED
      BY <1>1, <1>5, <2>1, <2>2, <3>1, <3>2
  <2>3. ASSUME NEW n \in Names, Resolved(n), UNCHANGED <<helperVars, owner, registered, aresVars, failure, lately, mishaps>>
        PROVE  HearInv'
    BY <1>0, <1>1, <1>5, <2>1, <2>3, ResolvedTypes
  <2>4. ASSUME NEW f \in FreeNumbers(owner), owner' = [owner EXCEPT ![f] = "ares"],
               talk' = [talk EXCEPT ![f] = "waits"], active' = TRUE, asks' = 1, cache' = Erased("asked", cache),
               FirstLook(owner'), client' = client
        PROVE  HearInv'
    BY <1>2, <1>5, <2>1, <2>4
  <2> QED
    BY <1>5, <2>2, <2>3, <2>4 DEF StartClient
<1> QED
  BY <1>0, <1>3, <1>4, <1>5 DEF StartClient, DomainTypeOK

LEMMA DestroyHears == ASSUME HearInv, Destroy PROVE HearInv'
<1>0. DomainTypeOK
  BY DEF HearInv
<1>1. /\ resolve' = "deleted" /\ client' = FALSE /\ active' = FALSE /\ slots' = {} /\ fdsNum' = 0
      /\ owner' = Without(owner, Sockets(owner), "free")
      /\ registered' = Without(registered, Sockets(owner) \cup slots, "none")
      /\ talk' = Without(talk, Sockets(owner), "none")
      /\ UNCHANGED <<phase, cache, asks, asserts, failure, lately, mishaps>>
  BY DEF Destroy
<1>2. \A f \in Fds : owner'[f] # "ares"
  BY <1>1 DEF Without, Sockets
<1>3. owner' \in [Fds -> {"free", "ares", "other"}] /\ registered' \in [Fds -> {"none", "resolve", "other"}]
      /\ talk' \in [Fds -> {"none", "waits"} \cup Answers]
  BY <1>0, <1>1 DEF DomainTypeOK, Without
<1>4. client' \in BOOLEAN /\ active' \in BOOLEAN
  BY DEF Destroy
<1>5. slots' \subseteq Fds /\ fdsNum' \in 0 .. 3
  BY DEF Destroy
<1>6. DomainTypeOK'
  BY <1>0, <1>1, <1>3, <1>4, <1>5 DEF DomainTypeOK
<1>7. Sockets(owner') = {}
  BY <1>2 DEF Sockets
<1>8. Few'
  BY <1>7, FS_EmptySet, DomainAssumption DEF Few
<1>9. \A f \in Fds : owner'[f] = "free" => registered'[f] = "none"
  BY <1>1 DEF HearInv, Unlisted, Without, Sockets
<1> QED
  BY <1>1, <1>2, <1>8, <1>9, <1>6 DEF HearInv, Asking, Unlisted, Followed

LEMMA OtherHears == ASSUME HearInv, NEW f \in Fds, OtherOpens(f) \/ OtherCloses(f) PROVE HearInv'
<1>0. DomainTypeOK
  BY DEF HearInv
<1>1. UNCHANGED <<phase, client, resolve, slots, fdsNum, cache, talk, active, asks, asserts, failure, lately>>
      /\ owner[f] \in {"free", "other"} /\ mishaps \subseteq mishaps'
  BY DEF OtherOpens, OtherCloses, helperVars, aresVars
<1>2. \/ owner' = [owner EXCEPT ![f] = "other"] /\ registered' = [registered EXCEPT ![f] = "other"]
      \/ owner' = [owner EXCEPT ![f] = "free"] /\ registered' = [registered EXCEPT ![f] = "none"]
  BY DEF OtherOpens, OtherCloses
<1>3. mishaps' \subseteq {"reused", "renumbered", "garbled"}
  <2>1. mishaps' \subseteq mishaps \cup {"reused"}
    BY DEF OtherOpens, OtherCloses
  <2> QED
    BY <1>0, <2>1 DEF DomainTypeOK
<1>4. owner' \in [Fds -> {"free", "ares", "other"}] /\ registered' \in [Fds -> {"none", "resolve", "other"}]
  BY <1>0, <1>2 DEF DomainTypeOK
<1>5. DomainTypeOK'
  BY <1>0, <1>1, <1>3, <1>4 DEF DomainTypeOK
<1>6. /\ owner'[f] \in {"free", "other"} /\ (owner'[f] = "free" => registered'[f] = "none")
      /\ \A g \in Fds \ {f} : owner'[g] = owner[g] /\ registered'[g] = registered[g]
  BY <1>0, <1>2 DEF DomainTypeOK
<1>7. \A g \in Fds : owner'[g] = "ares" <=> owner[g] = "ares"
  BY <1>1, <1>6
<1>8. Few'
  <2>1. Sockets(owner') = Sockets(owner)
    BY <1>7 DEF Sockets
  <2> QED
    BY <2>1 DEF HearInv, Few
<1>9. \A g \in Fds : owner'[g] = "ares" => g # f
  BY <1>6
<1>10. slots \subseteq Fds
  BY <1>0 DEF DomainTypeOK
<1>11. \A g \in Fds : owner'[g] = "ares" => active' /\ resolve' = "made" /\ fdsNum > 0
  BY <1>1, <1>7 DEF HearInv, Asking
<1>12. \A g \in Fds : owner'[g] = "free" => registered'[g] = "none"
  BY <1>6 DEF HearInv, Unlisted
<1>13. \A g \in Fds : owner'[g] = "ares" /\ g \notin slots => registered'[g] = "none"
  BY <1>6, <1>7, <1>9 DEF HearInv, Unlisted
<1>14. \A g \in slots : owner'[g] = "ares" => owner[g] = "ares" /\ registered'[g] = registered[g]
  BY <1>6, <1>7, <1>9, <1>10
<1>15. UNCHANGED <<slots, fdsNum>> /\ resolve' = resolve /\ lately \subseteq lately' /\ mishaps \subseteq mishaps'
  BY <1>1
<1>16. \A g \in slots : owner[g] = "ares" => owner'[g] = "ares" \/ g \in lately'
  BY <1>7, <1>10
<1> QED
  BY <1>5, <1>8, <1>11, <1>12, <1>13, <1>14, <1>15, <1>16, KeepsHearing

LEMMA EndHears ==
  ASSUME HearInv, QueryEnds, UNCHANGED <<phase, resolve, helperVars, asserts, failure, mishaps>>,
         cache' \in [Names -> {"none", "fresh", "old"}], client' \in BOOLEAN
  PROVE  HearInv'
<1>0. DomainTypeOK
  BY DEF HearInv
<1>1. /\ active' = FALSE /\ asks' = asks /\ lately' = lately \cup Sockets(owner)
      /\ owner' = Without(owner, Sockets(owner), "free")
      /\ registered' = Without(registered, Sockets(owner), "none")
      /\ talk' = Without(talk, Sockets(owner), "none")
      /\ UNCHANGED <<phase, resolve, slots, fdsNum, asserts, failure, mishaps>>
  BY DEF QueryEnds, helperVars
<1>2. \A f \in Fds : owner'[f] # "ares"
  BY <1>1 DEF Without, Sockets
<1>3. owner' \in [Fds -> {"free", "ares", "other"}] /\ registered' \in [Fds -> {"none", "resolve", "other"}]
      /\ talk' \in [Fds -> {"none", "waits"} \cup Answers]
  BY <1>0, <1>1 DEF DomainTypeOK, Without
<1>4. active' \in BOOLEAN /\ lately' \subseteq Fds
  BY <1>0, <1>1 DEF DomainTypeOK, Sockets
<1>5. DomainTypeOK'
  BY <1>0, <1>1, <1>3, <1>4 DEF DomainTypeOK
<1>6. Few'
  <2>1. Sockets(owner') = {}
    BY <1>2 DEF Sockets
  <2> QED
    BY <2>1, FS_EmptySet, DomainAssumption DEF Few
<1>7. \A f \in Fds : owner'[f] = "free" => registered'[f] = "none"
  BY <1>1 DEF HearInv, Unlisted, Without, Sockets
<1>8. slots \subseteq Fds /\ \A f \in Fds : owner[f] = "ares" => f \in lately'
  BY <1>0, <1>1 DEF DomainTypeOK, Sockets
<1>9. mishaps \subseteq mishaps' /\ lately \subseteq lately' /\ UNCHANGED <<slots, fdsNum>> /\ resolve' = resolve
  BY <1>1
<1>10. /\ \A f \in Fds : owner'[f] = "ares" => active' /\ resolve' = "made" /\ fdsNum > 0
       /\ \A f \in Fds : owner'[f] = "ares" /\ f \notin slots => registered'[f] = "none"
  BY <1>2
<1>11. /\ \A f \in slots : owner'[f] = "ares" => owner[f] = "ares" /\ registered'[f] = registered[f]
       /\ \A f \in slots : owner[f] = "ares" => owner'[f] = "ares" \/ f \in lately'
  BY <1>2, <1>8
<1> QED
  BY <1>5, <1>6, <1>7, <1>9, <1>10, <1>11, KeepsHearing

LEMMA NextHears ==
  ASSUME HearInv, NEW f \in Sockets(owner), NEW S \in SUBSET {f}, AskNext(f, S),
         UNCHANGED <<phase, client, cache, resolve, helperVars, asserts, failure>>
  PROVE  HearInv'
<1> DEFINE o == Without(owner, S, "free")
<1>0. DomainTypeOK /\ f \in Fds /\ owner[f] = "ares" /\ S \subseteq Fds
  BY DEF HearInv, Sockets
<1>1. PICK g \in Sockets(o) \cup (IF Cardinality(Sockets(o)) < NameServers THEN FreeNumbers(o) ELSE {}) :
        /\ owner' = [o EXCEPT ![g] = "ares"]
        /\ talk' = [Without(talk, S \cup {f}, "none") EXCEPT ![g] = "waits"]
        /\ lately' = lately \cup (S \ {g})
        /\ mishaps' = mishaps \cup (IF g \in S \cup lately THEN {"renumbered"} ELSE {})
  BY DEF AskNext
<1>2. /\ asks < MaxAsks /\ asks' = asks + 1 /\ active' = active
      /\ registered' = Without(registered, S, "none")
      /\ UNCHANGED <<phase, client, cache, resolve, slots, fdsNum, asserts, failure>>
  BY DEF AskNext, helperVars
<1>3. /\ o \in [Fds -> {"free", "ares", "other"}] /\ Sockets(o) = Sockets(owner) \ S
      /\ \A h \in Fds : o[h] = IF h \in S THEN "free" ELSE owner[h]
  BY <1>0 DEF Without, Sockets, DomainTypeOK
<1>4. g \in Fds /\ (g \in Sockets(owner) \ S \/ (g \in FreeNumbers(o) /\ Cardinality(Sockets(owner) \ S) < NameServers))
  BY <1>1, <1>3 DEF Sockets, FreeNumbers
<1> HIDE DEF o
<1>5. /\ owner' \in [Fds -> {"free", "ares", "other"}]
      /\ owner'[g] = "ares" /\ \A h \in Fds \ {g} : owner'[h] = IF h \in S THEN "free" ELSE owner[h]
  BY <1>1, <1>3, <1>4
<1>6. registered' \in [Fds -> {"none", "resolve", "other"}]
      /\ \A h \in Fds : registered'[h] = IF h \in S THEN "none" ELSE registered[h]
  BY <1>0, <1>2 DEF DomainTypeOK, Without
<1>7. DomainTypeOK'
  <2>1. talk' \in [Fds -> {"none", "waits"} \cup Answers]
    BY <1>0, <1>1, <1>4 DEF DomainTypeOK, Without
  <2>2. lately' \subseteq Fds /\ mishaps' \subseteq {"reused", "renumbered", "garbled"}
    <3>1. mishaps' \subseteq mishaps \cup {"renumbered"}
      BY <1>1
    <3> QED
      BY <1>0, <1>1, <3>1 DEF DomainTypeOK
  <2>3. asks' \in 0 .. MaxAsks
    BY <1>0, <1>2, DomainAssumption DEF DomainTypeOK
  <2> QED
    BY <1>0, <1>2, <1>5, <1>6, <2>1, <2>2, <2>3 DEF DomainTypeOK
<1>8. Few'
  <2>1. Sockets(owner') = (Sockets(owner) \ S) \cup {g}
    BY <1>0, <1>4, <1>5 DEF Sockets
  <2>2. Few
    BY DEF HearInv
  <2> QED
    BY <1>0, <1>4, <1>5, <2>1, <2>2, OpenedFew DEF Few
<1>9. active' /\ resolve' = "made" /\ fdsNum > 0
  BY <1>0, <1>2 DEF HearInv, Asking
<1>10. \A h \in Fds : owner'[h] = "free" => registered'[h] = "none"
  BY <1>5, <1>6 DEF HearInv, Unlisted
\* A number that is taken new is not one the helper has, unless that is a mishap.
<1>11. g \in Sockets(owner) \ S \/ registered'[g] = "none"
  BY <1>3, <1>4, <1>6 DEF HearInv, Unlisted, FreeNumbers
<1>12. \A h \in Fds : owner'[h] = "ares" /\ h \notin slots => registered'[h] = "none"
  <2> SUFFICES ASSUME NEW h \in Fds, owner'[h] = "ares", h \notin slots
               PROVE  registered'[h] = "none"
    OBVIOUS
  <2>1. CASE h = g
    BY <1>6, <1>11, <2>1 DEF HearInv, Unlisted, Sockets
  <2>2. CASE h # g
    BY <1>5, <1>6, <2>2 DEF HearInv, Unlisted
  <2> QED
    BY <2>1, <2>2
<1>13. mishaps' = {} => mishaps = {} /\ g \notin S /\ g \notin lately
  BY <1>1
<1>14. slots \subseteq Fds
  BY <1>0 DEF DomainTypeOK
<1>15. ASSUME mishaps' = {}, NEW h \in slots, owner'[h] = "ares"
       PROVE  owner[h] = "ares" /\ registered'[h] = registered[h]
  <2>1. h \in Sockets(owner) \cup lately /\ h \in Fds
    BY <1>13, <1>14, <1>15 DEF HearInv, Followed
  <2>2. CASE h = g
    <3>1. owner[h] = "ares"
      BY <1>13, <1>15, <2>1, <2>2 DEF Sockets
    <3> QED
      BY <1>6, <1>13, <1>15, <2>1, <2>2, <3>1
  <2>3. CASE h # g
    BY <1>5, <1>6, <1>15, <2>1, <2>3
  <2> QED
    BY <2>2, <2>3
<1>16. \A h \in slots : owner[h] = "ares" => owner'[h] = "ares" \/ h \in lately'
  BY <1>1, <1>5, <1>14
<1>17. mishaps \subseteq mishaps' /\ lately \subseteq lately'
  BY <1>1
<1> QED
  BY <1>2, <1>7, <1>8, <1>9, <1>10, <1>12, <1>15, <1>16, <1>17, KeepsHearing

LEMMA EventHears == ASSUME HearInv, NEW f \in Fds, Event(f) PROVE HearInv'
<1>0. DomainTypeOK /\ f \in Sockets(owner) /\ talk[f] \in Answers
      /\ UNCHANGED <<phase, resolve, helperVars, asserts>>
  BY DEF HearInv, Event, Sockets
<1>1. cache \in [Names -> {"none", "fresh", "old"}] /\ client \in BOOLEAN
  BY <1>0 DEF DomainTypeOK
<1>2. CASE talk[f] \in Names /\ Resolved(talk[f]) /\ QueryEnds /\ UNCHANGED <<failure, mishaps>>
  BY <1>0, <1>2, ResolvedTypes, EndHears
<1>3. CASE QueryEnds /\ UNCHANGED <<client, cache, failure, mishaps>>
  BY <1>0, <1>1, <1>3, EndHears
<1>4. CASE AskNext(f, {}) /\ UNCHANGED <<client, cache, failure>>
  BY <1>0, <1>4, NextHears
<1>5. CASE AskNext(f, {f}) /\ UNCHANGED <<client, cache, failure>>
  BY <1>0, <1>5, NextHears
<1>6. CASE failure' = "getsock" /\ UNCHANGED <<client, cache, owner, registered, aresVars, lately, mishaps>>
  <2>1. AskTypes'
    BY <1>0, <1>1, <1>6 DEF AskTypes, DomainTypeOK, aresVars
  <2>2. UNCHANGED <<slots, fdsNum, owner, registered, lately, mishaps, active>> /\ resolve' = resolve
    BY <1>0, <1>6 DEF helperVars, aresVars
  <2>3. failure' \in {"none", "start", "getsock"}
    BY <1>6
  <2> QED
    BY <2>1, <2>2, <2>3, ApartHears
<1> QED
  BY <1>2, <1>3, <1>4, <1>5, <1>6 DEF Event

\* The idle callback: with sockets of c-ares there is always a look.
LEMMA IdleHears ==
  ASSUME HearInv, OnIdle
  PROVE  HearInv' /\ (mishaps' = {} => \A f \in Sockets(owner) : registered'[f] = "resolve")
<1>0. DomainTypeOK
  BY DEF HearInv
<1>1. phase' = "turn" /\ UNCHANGED <<client, resolve, cache, owner, talk, active, asks, asserts>>
  BY DEF OnIdle, aresVars
<1>2. AskTypes'
  BY <1>0, <1>1 DEF AskTypes, DomainTypeOK
<1>3. CASE fdsNum = 0 /\ UNCHANGED <<helperVars, registered, failure, lately, mishaps>>
  <2>1. Sockets(owner) = {}
    BY <1>3 DEF HearInv, Asking, Sockets
  <2>2. UNCHANGED <<slots, fdsNum, owner, registered, lately, mishaps, active>> /\ resolve' = resolve
    BY <1>1, <1>3 DEF helperVars
  <2>3. failure' \in {"none", "start", "getsock"}
    BY <1>0, <1>3 DEF DomainTypeOK
  <2>4. HearInv'
    BY <1>2, <2>2, <2>3, ApartHears
  <2> QED
    BY <2>1, <2>4
<1>4. CASE fdsNum > 0 /\ Look(owner, registered, active)
  <2>1. Look(owner', registered, active) /\ owner' = owner /\ Sockets(owner') = Sockets(owner)
    BY <1>1, <1>4
  <2>2. active \in BOOLEAN /\ owner' \in [Fds -> {"free", "ares", "other"}]
    BY <1>0, <1>1 DEF DomainTypeOK
  <2>3. Few'
    BY <1>1 DEF HearInv, Few
  <2>4. \A f \in Sockets(owner') :
          IF f \in slots THEN mishaps = {} => registered[f] = "resolve" ELSE registered[f] = "none"
    BY <1>1 DEF HearInv, Unlisted, Followed, Sockets
  <2>5. Sockets(owner') # {} => active /\ active' /\ resolve' = "made"
    BY <1>1 DEF HearInv, Asking, Sockets
  <2>6. resolve' # "none"
    BY <1>1, <1>4 DEF HearInv, Unlisted
  <2>7. HearInv' /\ (mishaps' = {} => \A f \in Sockets(owner') : registered'[f] = "resolve")
    BY <1>1, <1>2, <2>1, <2>2, <2>3, <2>4, <2>5, <2>6, LookKeepsHearing
  <2> QED
    BY <2>1, <2>7
<1> QED
  BY <1>3, <1>4 DEF OnIdle

LEMMA HearNext == HearInv /\ [DomainNext]_domainVars => HearInv'
<1> SUFFICES ASSUME HearInv, [DomainNext]_domainVars
             PROVE  HearInv'
  OBVIOUS
<1>0. DomainTypeOK
  BY DEF HearInv
<1>1. CASE TurnEnds
  <2>1. AskTypes'
    BY <1>0, <1>1 DEF TurnEnds, AskTypes, DomainTypeOK, aresVars
  <2>2. UNCHANGED <<slots, fdsNum, owner, registered, lately, mishaps, active>> /\ resolve' = resolve
    BY <1>1 DEF TurnEnds, helperVars, aresVars
  <2>3. failure' = failure
    BY <1>1 DEF TurnEnds, helperVars
  <2>4. failure' \in {"none", "start", "getsock"}
    BY <1>0, <2>3 DEF DomainTypeOK
  <2> QED
    BY <2>1, <2>2, <2>4, ApartHears
<1>2. ASSUME NEW f \in Fds, NEW what \in Answers, Arrive(f, what)
      PROVE  HearInv'
  <2>1. AskTypes'
    BY <1>0, <1>2 DEF Arrive, AskTypes, DomainTypeOK
  <2>2. UNCHANGED <<slots, fdsNum, owner, registered, lately, mishaps, active>> /\ resolve' = resolve
    BY <1>2 DEF Arrive, helperVars
  <2>3. failure' = failure
    BY <1>2 DEF Arrive, helperVars
  <2>4. failure' \in {"none", "start", "getsock"}
    BY <1>0, <2>3 DEF DomainTypeOK
  <2> QED
    BY <2>1, <2>2, <2>4, ApartHears
<1>3. ASSUME NEW n \in Names, Ages(n) \/ OtherStores(n)
      PROVE  HearInv'
  <2>1. AskTypes'
    BY <1>0, <1>3 DEF Ages, OtherStores, AskTypes, DomainTypeOK, aresVars
  <2>2. UNCHANGED <<slots, fdsNum, owner, registered, lately, mishaps, active>> /\ resolve' = resolve
    BY <1>3 DEF Ages, OtherStores, helperVars, aresVars
  <2>3. failure' = failure
    BY <1>3 DEF Ages, OtherStores, helperVars
  <2>4. failure' \in {"none", "start", "getsock"}
    BY <1>0, <2>3 DEF DomainTypeOK
  <2> QED
    BY <2>1, <2>2, <2>4, ApartHears
<1>4. CASE UNCHANGED domainVars
  <2>1. AskTypes'
    BY <1>0, <1>4 DEF domainVars, AskTypes, DomainTypeOK
  <2>2. UNCHANGED <<slots, fdsNum, owner, registered, lately, mishaps, active>> /\ resolve' = resolve
    BY <1>4 DEF domainVars
  <2>3. failure' = failure
    BY <1>4 DEF domainVars
  <2>4. failure' \in {"none", "start", "getsock"}
    BY <1>0, <2>3 DEF DomainTypeOK
  <2> QED
    BY <2>1, <2>2, <2>4, ApartHears
<1> QED
  BY <1>1, <1>2, <1>3, <1>4, StartHears, DestroyHears, OtherHears, EventHears, IdleHears DEF DomainNext

LEMMA HearHolds == DomainSpec => []HearInv
BY HearInit, HearNext, PTL DEF DomainSpec

\* The fields of the client, its helper and the cache keep their types, whatever c-ares asks
\* and whatever numbers its sockets get.
THEOREM DomainTypes == DomainSpec => []DomainTypeOK
<1>1. HearInv => DomainTypeOK
  BY DEF HearInv
<1> QED
  BY <1>1, HearHolds, PTL

\* A socket of c-ares is registered, or is new to the helper, and then the loop's next turn
\* looks for it: as long as no number of a socket that was closed is taken again before the
\* next look, and the helper reads the sockets it is given.
SocketsHeard ==
  mishaps = {} => \A f \in Fds : owner[f] = "ares" =>
    IF f \in slots THEN registered[f] = "resolve" ELSE active /\ fdsNum > 0

\* The safety half of AnswerMakesClient: an answer comes to a socket that is listened to, or
\* will be (domain_async_resolve_helper.cpp:203-253).
THEOREM SocketsHeardHolds == DomainSpec => []SocketsHeard
<1>1. HearInv => SocketsHeard
  BY DEF HearInv, Asking, Followed, SocketsHeard
<1> QED
  BY <1>1, HearHolds, PTL

\* One idle callback is enough: after it every socket c-ares has is registered.
LookMissesNone ==
  [][OnIdle /\ mishaps' = {} => \A f \in Fds : owner[f] = "ares" => registered'[f] = "resolve"]_domainVars

\* What the comparison of old and new descriptors is for: however many sockets c-ares opened
\* and closed in a turn, the look after it misses none (domain_async_resolve_helper.cpp:203-253).
THEOREM LookMissesNoneHolds == DomainSpec => LookMissesNone
<1>1. HearInv /\ [DomainNext]_domainVars =>
        [OnIdle /\ mishaps' = {} => \A f \in Fds : owner[f] = "ares" => registered'[f] = "resolve"]_domainVars
  BY IdleHears DEF Sockets
<1> QED
  BY <1>1, HearHolds, PTL DEF DomainSpec, LookMissesNone
=============================================================================
