-------------------------- MODULE ServerLoopProofs --------------------------
(***************************************************************************)
(* Proofs about ServerLoop, for any number of channels, descriptors and    *)
(* posted calls.                                                           *)
(*                                                                         *)
(* Raw pointers are what is dangerous here: a batch of them is safe        *)
(* because only tasks and the scan take channels out of the list           *)
(* (Batched), a posted call is safe because who posts it has a reference   *)
(* (Living).  That a descriptor has one channel rests on the order in      *)
(* which the kernel gives its number again: while a channel is normal its  *)
(* number is open, so no other is on its way under it (Accounted).         *)
(***************************************************************************)
EXTENDS ServerLoop, FiniteSetTheorems, SequenceTheorems, TLAPS

Calls == [kind : {"newfd"}, what : Fds] \cup [kind : {"send", "close"}, what : Channels]

\* The types the argument needs.
LoopTyped ==
  /\ batch \in Seq(Channels)
  /\ state \in [Channels -> {"none", "normal", "release", "gone"}]
  /\ fdOf \in [Channels -> Fds]
  /\ list \in [Fds -> Channels \cup {NoChannel}]
  /\ tasks \in Seq(Calls)
  /\ watched \subseteq Channels /\ held \subseteq Channels /\ open \subseteq Fds

In(s) == {s[i] : i \in 1 .. Len(s)}

NewFd(f) == [kind |-> "newfd", what |-> f]

\* A descriptor is posted, once.
Coming(f) == NewFd(f) \in In(tasks)
Once(s)   == \A i, j \in 1 .. Len(s) : s[i] = s[j] /\ s[i].kind = "newfd" => i = j

Existing == {c \in Channels : state[c] \in {"normal", "release"}}

\* Who is referred to lives; only who let it go carelessly has posted calls for another.
Living ==
  /\ Listed \subseteq Existing /\ held \subseteq Existing
  /\ \A c \in Channels : Posted(c) => state[c] # "none" /\ (careless \/ c \in held)
  /\ \A f \in Entries : fdOf[list[f]] = f

\* The channels of a batch stay in the list until the batch is through.
Batched ==
  /\ phase # "events" => batch = << >>
  /\ In(batch) \subseteq Listed

Accounted ==
  /\ DescriptorsAccounted
  /\ Once(tasks)
  /\ \A f \in Fds : Coming(f) => f \in open /\ list[f] \notin Normal

LoopInv == LoopTyped /\ Living /\ Batched /\ Accounted /\ AliveWhenUsed

-----------------------------------------------------------------------------
(* The two queues                                                           *)

LEMMA NoneIn == In(<< >>) = {} /\ Once(<< >>)
BY EmptySeq DEF In, Once

LEMMA FirstOf ==
  ASSUME NEW S, NEW s \in Seq(S), s # << >>
  PROVE  /\ Head(s) \in S /\ Tail(s) \in Seq(S) /\ In(s) = In(Tail(s)) \cup {Head(s)}
         /\ Once(s) => Once(Tail(s)) /\ (Head(s).kind = "newfd" => Head(s) \notin In(Tail(s)))
<1>1. /\ Head(s) \in S /\ Tail(s) \in Seq(S) /\ Len(Tail(s)) = Len(s) - 1
      /\ \A i \in 1 .. Len(Tail(s)) : Tail(s)[i] = s[i + 1]
  BY HeadTailProperties
<1>2. Len(s) \in Nat /\ Len(s) >= 1 /\ Head(s) = s[1]
  BY EmptySeq
<1>3. Head(s) \in In(s)
  BY <1>2 DEF In
<1>4. In(Tail(s)) \subseteq In(s)
  <2> SUFFICES ASSUME NEW i \in 1 .. Len(Tail(s))
               PROVE  Tail(s)[i] \in In(s)
    BY DEF In
  <2>1. i + 1 \in 1 .. Len(s) /\ Tail(s)[i] = s[i + 1]
    BY <1>1, <1>2
  <2> QED
    BY <2>1 DEF In
<1>5. In(s) \subseteq In(Tail(s)) \cup {Head(s)}
  <2> SUFFICES ASSUME NEW i \in 1 .. Len(s), i # 1
               PROVE  s[i] \in In(Tail(s))
    BY <1>2 DEF In
  <2>1. i - 1 \in 1 .. Len(Tail(s)) /\ (i - 1) + 1 = i
    BY <1>1, <1>2
  <2> QED
    BY <1>1, <2>1 DEF In
<1>6. ASSUME Once(s)
      PROVE  Once(Tail(s))
  <2> SUFFICES ASSUME NEW i \in 1 .. Len(Tail(s)), NEW j \in 1 .. Len(Tail(s)), Tail(s)[i] = Tail(s)[j],
                      Tail(s)[i].kind = "newfd"
               PROVE  i = j
    BY DEF Once
  <2>1. i + 1 \in 1 .. Len(s) /\ j + 1 \in 1 .. Len(s) /\ s[i + 1] = s[j + 1] /\ s[i + 1].kind = "newfd"
    BY <1>1, <1>2
  <2>2. i + 1 = j + 1
    BY <1>6, <2>1 DEF Once
  <2> QED
    BY <2>2
<1>7. ASSUME Once(s), Head(s).kind = "newfd", NEW i \in 1 .. Len(Tail(s)), Head(s) = Tail(s)[i]
      PROVE  FALSE
  <2>1. i + 1 \in 1 .. Len(s) /\ i + 1 # 1 /\ 1 \in 1 .. Len(s) /\ s[1] = s[i + 1] /\ s[1].kind = "newfd"
    BY <1>1, <1>2, <1>7
  <2> QED
    BY <1>7, <2>1 DEF Once
<1> QED
  BY <1>1, <1>3, <1>4, <1>5, <1>6, <1>7 DEF In

LEMMA OneMore ==
  ASSUME NEW S, NEW s \in Seq(S), NEW x \in S
  PROVE  /\ Append(s, x) \in Seq(S) /\ In(Append(s, x)) = In(s) \cup {x}
         /\ Once(s) /\ (x.kind = "newfd" => x \notin In(s)) => Once(Append(s, x))
<1>1. /\ Append(s, x) \in Seq(S) /\ Len(Append(s, x)) = Len(s) + 1 /\ Len(s) \in Nat
      /\ \A i \in 1 .. Len(s) : Append(s, x)[i] = s[i]
      /\ Append(s, x)[Len(s) + 1] = x
  BY AppendProperties, LenProperties
<1>2. 1 .. Len(s) + 1 = (1 .. Len(s)) \cup {Len(s) + 1}
  BY <1>1
<1>3. In(Append(s, x)) = In(s) \cup {x}
  BY <1>1, <1>2 DEF In
<1>4. ASSUME Once(s), x.kind = "newfd" => x \notin In(s),
             NEW i \in 1 .. Len(s) + 1, NEW j \in 1 .. Len(s) + 1, Append(s, x)[i] = Append(s, x)[j],
             Append(s, x)[i].kind = "newfd"
      PROVE  i = j
  <2>1. ASSUME NEW k \in 1 .. Len(s)
        PROVE  Append(s, x)[k] = s[k] /\ (x.kind = "newfd" => s[k] # x)
    BY <1>1, <1>4 DEF In
  <2>2. CASE i \in 1 .. Len(s) /\ j \in 1 .. Len(s)
    BY <1>4, <2>1, <2>2 DEF Once
  <2>3. CASE i = Len(s) + 1 /\ j \in 1 .. Len(s)
    BY <1>1, <1>4, <2>1, <2>3
  <2>4. CASE i \in 1 .. Len(s) /\ j = Len(s) + 1
    BY <1>1, <1>4, <2>1, <2>4
  <2> QED
    BY <1>2, <2>2, <2>3, <2>4
<1> QED
  BY <1>1, <1>3, <1>4 DEF Once

LEMMA CallIs ==
  /\ \A t \in Calls : /\ t.kind \in {"newfd", "send", "close"}
                      /\ t.kind = "newfd" => t.what \in Fds /\ t = NewFd(t.what)
                      /\ t.kind # "newfd" => t.what \in Channels
  /\ \A f \in Fds : NewFd(f) \in Calls /\ NewFd(f).kind = "newfd" /\ NewFd(f).what = f
  /\ \A kind \in {"send", "close"}, c \in Channels :
       /\ [kind |-> kind, what |-> c] \in Calls
       /\ [kind |-> kind, what |-> c].kind = kind /\ [kind |-> kind, what |-> c].what = c
BY DEF Calls, NewFd

LEMMA PostedIs ==
  ASSUME NEW c
  PROVE  Posted(c) <=> \E t \in In(tasks) : t.kind # "newfd" /\ t.what = c
BY DEF Posted, In

LEMMA ComingIs ==
  DescriptorsAccounted <=>
    /\ watched = Normal
    /\ \A c \in Normal : list[fdOf[c]] = c /\ fdOf[c] \in open
    /\ \A f \in open : list[f] \in Normal \/ Coming(f)
<1>1. \A f : Coming(f) <=> \E i \in 1 .. Len(tasks) : tasks[i] = [kind |-> "newfd", what |-> f]
  BY DEF Coming, In, NewFd
<1> QED
  BY <1>1 DEF DescriptorsAccounted

\* No descriptor comes or has come, and no call is posted.
Fewer ==
  /\ tasks' \in Seq(Calls) /\ Once(tasks')
  /\ \A c \in Channels : Posted(c)' => Posted(c)
  /\ \A f \in Fds : Coming(f)' <=> Coming(f)

LEMMA SameFewer ==
  ASSUME LoopInv, tasks' = tasks
  PROVE  Fewer
BY DEF LoopInv, LoopTyped, Accounted, Fewer, Posted, Coming

\* What the next task is, and what the others are.
LEMMA TaskTaken ==
  ASSUME LoopInv, tasks # << >>, tasks' = Tail(tasks)
  PROVE  /\ tasks' \in Seq(Calls) /\ Once(tasks') /\ Head(tasks) \in Calls
         /\ \A c \in Channels : Posted(c)' => Posted(c)
         /\ Head(tasks).kind # "newfd" => Fewer /\ Head(tasks).what \in Channels /\ Posted(Head(tasks).what)
         /\ Head(tasks).kind = "newfd" =>
              /\ Head(tasks).what \in Fds /\ Coming(Head(tasks).what)
              /\ \A f \in Fds : Coming(f)' <=> Coming(f) /\ f # Head(tasks).what
<1> DEFINE t == Head(tasks)
<1>1. /\ t \in Calls /\ tasks' \in Seq(Calls) /\ In(tasks) = In(tasks') \cup {t} /\ Once(tasks')
      /\ t.kind = "newfd" => t \notin In(tasks')
  BY FirstOf DEF LoopInv, LoopTyped, Accounted
<1>2. PICK x : x = t
  OBVIOUS
<1>3. /\ x \in Calls /\ In(tasks) = In(tasks') \cup {x} /\ (x.kind = "newfd" => x \notin In(tasks'))
  BY <1>1, <1>2
<1> HIDE DEF t
<1>4. \A c \in Channels : Posted(c)' => Posted(c)
  <2> SUFFICES ASSUME NEW c \in Channels, Posted(c)'
               PROVE  Posted(c)
    OBVIOUS
  <2>1. \E u \in In(tasks') : u.kind # "newfd" /\ u.what = c
    BY PostedIs DEF Posted, In
  <2> QED
    BY <1>3, <2>1, PostedIs
<1>5. ASSUME x.kind # "newfd"
      PROVE  Fewer /\ x.what \in Channels /\ Posted(x.what)
  <2>1. \A f \in Fds : NewFd(f) # x
    BY <1>5, CallIs
  <2>2. \A f \in Fds : Coming(f)' <=> Coming(f)
    BY <1>3, <2>1 DEF Coming, NewFd
  <2> QED
    BY <1>1, <1>3, <1>4, <1>5, <2>2, CallIs, PostedIs DEF Fewer
<1>6. ASSUME x.kind = "newfd"
      PROVE  /\ x.what \in Fds /\ Coming(x.what)
             /\ \A f \in Fds : Coming(f)' <=> Coming(f) /\ f # x.what
  <2>1. x.what \in Fds /\ x = NewFd(x.what) /\ \A f \in Fds : NewFd(f) = x <=> f = x.what
    BY <1>3, <1>6, CallIs
  <2>2. \A f \in Fds : Coming(f)' <=> NewFd(f) \in In(tasks')
    BY DEF Coming, NewFd
  <2> QED
    BY <1>3, <1>6, <2>1, <2>2 DEF Coming
<1> QED
  BY <1>1, <1>2, <1>4, <1>5, <1>6 DEF t

-----------------------------------------------------------------------------
(* What happens to the channels                                             *)

\* What the steps of this section keep; the batch is seen to apart.
Kept ==
  /\ state \in [Channels -> {"none", "normal", "release", "gone"}]
  /\ fdOf \in [Channels -> Fds]
  /\ list \in [Fds -> Channels \cup {NoChannel}]
  /\ tasks \in Seq(Calls)
  /\ watched \subseteq Channels /\ held \subseteq Channels /\ open \subseteq Fds
  /\ Living /\ Accounted

\* A channel that is normal is in the list under its open number, alone.
LEMMA NormalIs ==
  ASSUME LoopInv, NEW c \in Normal
  PROVE  /\ c \in Channels /\ c \in Existing /\ c \in watched /\ c \in Listed /\ fdOf[c] \in Fds
         /\ list[fdOf[c]] = c /\ fdOf[c] \in open /\ ~Coming(fdOf[c])
         /\ \A d \in Normal : fdOf[d] = fdOf[c] => d = c
<1>1. c \in Channels /\ state[c] = "normal" /\ c \in watched /\ list[fdOf[c]] = c /\ fdOf[c] \in open
  BY DEF LoopInv, Accounted, DescriptorsAccounted, Normal
<1>2. fdOf[c] \in Fds /\ c # NoChannel
  BY <1>1, ServerLoopAssumption DEF LoopInv, LoopTyped, Channels, NoChannel
<1>3. c \in Listed
  BY <1>1, <1>2 DEF Listed
<1>4. ~Coming(fdOf[c])
  BY <1>1, <1>2 DEF LoopInv, Accounted
<1>5. \A d \in Normal : list[fdOf[d]] = d
  BY DEF LoopInv, Accounted, DescriptorsAccounted
<1> QED
  BY <1>1, <1>2, <1>3, <1>4, <1>5 DEF Existing

LEMMA ListedIs ==
  ASSUME LoopInv, NEW f \in Fds, list[f] # NoChannel
  PROVE  list[f] \in Listed /\ list[f] \in Channels /\ list[f] \in Existing /\ fdOf[list[f]] = f
<1>1. list[f] \in Listed
  BY DEF Listed
<1>2. list[f] \in Existing
  BY <1>1 DEF LoopInv, Living
<1>3. fdOf[list[f]] = f
  BY DEF LoopInv, Living, Entries
<1> QED
  BY <1>1, <1>2, <1>3 DEF Existing

LEMMA NothingKeeps ==
  ASSUME LoopInv, Fewer, UNCHANGED <<state, fdOf, watched, list, held, open>>, careless => careless'
  PROVE  Kept'
<1>1. Living'
  <2>1. UNCHANGED <<Listed, Existing, Entries>>
    BY DEF Listed, Existing, Entries
  <2> QED
    BY <2>1 DEF LoopInv, Living, Fewer
<1>2. Accounted'
  <2>1. Normal' = Normal
    BY DEF Normal
  <2>2. \A f \in open : list[f] \in Normal \/ Coming(f)
    BY ComingIs DEF LoopInv, Accounted
  <2>3. \A f \in open' : list'[f] \in Normal' \/ Coming(f)'
    BY <2>1, <2>2 DEF Fewer, LoopInv, LoopTyped
  <2>4. DescriptorsAccounted'
    <3>1. \A f \in open' : \/ list'[f] \in Normal'
                           \/ \E i \in 1 .. Len(tasks') : tasks'[i] = [kind |-> "newfd", what |-> f]
      BY <2>3 DEF Coming, In, NewFd
    <3> QED
      BY <2>1, <3>1 DEF LoopInv, Accounted, DescriptorsAccounted
  <2> QED
    BY <2>1, <2>4 DEF LoopInv, Accounted, Fewer
<1> QED
  BY <1>1, <1>2 DEF Kept, LoopInv, LoopTyped, Fewer

\* Channels close that have not gone.
LEMMA ClosingKeeps ==
  ASSUME LoopInv, Fewer, NEW S, S \subseteq Existing, Close(S), UNCHANGED <<fdOf, list, held, careless>>
  PROVE  Kept'
<1>1. /\ state' = [c \in Channels |-> IF c \in S THEN "release" ELSE state[c]]
      /\ watched' = watched \ S
      /\ open' = open \ {fdOf[c] : c \in S \cap Normal}
  BY DEF Close, Unwatched
<1>2. \A c \in Existing : c \in Channels /\ state[c] \in {"normal", "release"}
  BY DEF Existing
<1>3. state' \in [Channels -> {"none", "normal", "release", "gone"}]
  BY <1>1 DEF LoopInv, LoopTyped
<1>4. Normal' = Normal \ S /\ Existing' = Existing
  BY <1>1, <1>2 DEF Normal, Existing
<1>5. Living'
  <2>1. UNCHANGED <<Listed, Entries>>
    BY DEF Listed, Entries
  <2>2. \A c \in Channels : state[c] # "none" => state'[c] # "none"
    BY <1>1
  <2> QED
    BY <1>4, <2>1, <2>2 DEF LoopInv, Living, Fewer
<1>6. ASSUME NEW f \in Fds, f \in open, list[f] \notin Normal
      PROVE  f \in open'
  <2>1. \A c \in Normal : fdOf[c] # f
    BY <1>6, NormalIs
  <2> QED
    BY <1>1, <1>6, <2>1
<1>7. \A f \in Fds : Coming(f)' => f \in open' /\ list'[f] \notin Normal'
  BY <1>4, <1>6 DEF LoopInv, Accounted, Fewer
<1>8. \A f \in open' : list'[f] \in Normal' \/ Coming(f)'
  <2> SUFFICES ASSUME NEW f \in open', ~Coming(f)'
               PROVE  list'[f] \in Normal'
    OBVIOUS
  <2>1. f \in open /\ f \in Fds
    BY <1>1 DEF LoopInv, LoopTyped
  <2>2. ~Coming(f)
    BY <2>1 DEF Fewer
  <2>3. list[f] \in Normal
    BY <2>1, <2>2, ComingIs DEF LoopInv, Accounted
  <2>4. list[f] # NoChannel
    BY <2>3, ServerLoopAssumption DEF Normal, Channels, NoChannel
  <2>5. fdOf[list[f]] = f
    BY <2>1, <2>4, ListedIs
  <2>6. list[f] \notin S
    BY <1>1, <2>3, <2>5
  <2> QED
    BY <1>4, <2>3, <2>6
<1>9. watched' = Normal'
  BY <1>1, <1>4 DEF LoopInv, Accounted, DescriptorsAccounted
<1>10. ASSUME NEW c \in Normal'
       PROVE  list'[fdOf'[c]] = c /\ fdOf'[c] \in open'
  <2>1. c \in Normal /\ c \notin S
    BY <1>4
  <2>2. list[fdOf[c]] = c /\ fdOf[c] \in open /\ \A d \in Normal : fdOf[d] = fdOf[c] => d = c
    BY <2>1, NormalIs
  <2> QED
    BY <1>1, <2>1, <2>2
<1>11. DescriptorsAccounted'
  <2>1. \A f \in open' : \/ list'[f] \in Normal'
                         \/ \E i \in 1 .. Len(tasks') : tasks'[i] = [kind |-> "newfd", what |-> f]
    BY <1>8 DEF Coming, In, NewFd
  <2> QED
    BY <1>9, <1>10, <2>1 DEF DescriptorsAccounted
<1>12. Accounted'
  BY <1>7, <1>11 DEF Accounted, Fewer
<1>13. /\ fdOf' \in [Channels -> Fds] /\ list' \in [Fds -> Channels \cup {NoChannel}] /\ tasks' \in Seq(Calls)
       /\ watched' \subseteq Channels /\ held' \subseteq Channels /\ open' \subseteq Fds
  BY <1>1 DEF LoopInv, LoopTyped, Fewer
<1> QED
  BY <1>3, <1>5, <1>12, <1>13 DEF Kept

\* A new channel takes its descriptor's place in the list, and is normal or closed at
\* once; who had the place was closed.
LEMMA NewKeeps ==
  ASSUME LoopInv, NEW f \in Fds, NEW c \in Channels, NEW st \in {"normal", "release"},
         state[c] = "none", Coming(f),
         tasks' \in Seq(Calls), Once(tasks'), \A d \in Channels : Posted(d)' => Posted(d),
         \A g \in Fds : Coming(g)' <=> Coming(g) /\ g # f,
         fdOf' = [fdOf EXCEPT ![c] = f], list' = [list EXCEPT ![f] = c],
         held' \in {held, held \cup {c}}, careless' = careless,
         state' = LetGo({list[f]}, [state EXCEPT ![c] = st]),
         IF st = "normal" THEN watched' = (watched \ ({list[f]} \ held)) \cup {c} /\ open' = open
                          ELSE watched' = watched \ ({list[f]} \ held) /\ open' = open \ {f}
  PROVE  Kept'
<1>1. f \in open /\ list[f] \notin Normal
  BY DEF LoopInv, Accounted
<1>2. c \notin Existing /\ c \notin Listed /\ c \notin held /\ c # NoChannel /\ c \notin Normal
  BY ServerLoopAssumption DEF LoopInv, Living, Existing, Normal, Channels, NoChannel
<1>3. /\ state' \in [Channels -> {"none", "normal", "release", "gone"}]
      /\ state'[c] = st
      /\ \A d \in Channels \ {c} : state'[d] = IF d = list[f] /\ d \notin held THEN "gone" ELSE state[d]
  <2>1. [state EXCEPT ![c] = st] = [d \in Channels |-> IF d = c THEN st ELSE state[d]]
    BY DEF LoopInv, LoopTyped
  <2>2. c # list[f]
    BY <1>2 DEF Listed
  <2>3. state' = [d \in Channels |-> IF d \in {list[f]} \ held THEN "gone" ELSE IF d = c THEN st ELSE state[d]]
    BY <2>1 DEF LetGo
  <2> QED
    BY <2>2, <2>3 DEF LoopInv, LoopTyped
<1>4. /\ list' \in [Fds -> Channels \cup {NoChannel}] /\ list'[f] = c
      /\ \A g \in Fds \ {f} : list'[g] = list[g]
  BY DEF LoopInv, LoopTyped
<1>5. /\ fdOf' \in [Channels -> Fds] /\ fdOf'[c] = f /\ \A d \in Channels \ {c} : fdOf'[d] = fdOf[d]
  BY DEF LoopInv, LoopTyped
<1>6. ASSUME NEW g \in Fds \ {f}, list[g] # NoChannel
      PROVE  /\ list[g] \in Channels \ {c} /\ list[g] # list[f] /\ fdOf'[list[g]] = g
             /\ state'[list[g]] = state[list[g]] /\ state[list[g]] \in {"normal", "release"}
  <2>1. list[g] \in Existing /\ list[g] \in Channels /\ fdOf[list[g]] = g
    BY <1>6, ListedIs
  <2>2. list[g] # c
    BY <1>2, <2>1
  <2>3. list[g] # list[f]
    <3> SUFFICES ASSUME list[g] = list[f]
                 PROVE  FALSE
      OBVIOUS
    <3>1. fdOf[list[f]] = f
      BY <1>6, ListedIs
    <3> QED
      BY <2>1, <3>1
  <2> QED
    BY <1>3, <1>5, <2>1, <2>2, <2>3 DEF Existing
<1>7. Living'
  <2>1. Listed' \subseteq Existing'
    <3> SUFFICES ASSUME NEW g \in Fds, list'[g] # NoChannel
                 PROVE  list'[g] \in Existing'
      BY DEF Listed
    <3>1. CASE g = f
      BY <1>3, <1>4, <3>1 DEF Existing
    <3>2. CASE g # f
      BY <1>4, <1>6, <3>2 DEF Existing
    <3> QED
      BY <3>1, <3>2
  <2>2. held' \subseteq Existing'
    <3>1. ASSUME NEW d \in held
          PROVE  d \in Existing'
      BY <1>2, <1>3 DEF LoopInv, Living, Existing
    <3>2. c \in Existing'
      BY <1>3 DEF Existing
    <3> QED
      BY <3>1, <3>2
  <2>3. ASSUME NEW d \in Channels, Posted(d)'
        PROVE  state'[d] # "none" /\ (careless' \/ d \in held')
    <3>1. state[d] # "none" /\ (careless \/ d \in held)
      BY <2>3 DEF LoopInv, Living
    <3> QED
      BY <1>3, <3>1
  <2>4. \A g \in Entries' : fdOf'[list'[g]] = g
    <3> SUFFICES ASSUME NEW g \in Fds, list'[g] # NoChannel
                 PROVE  fdOf'[list'[g]] = g
      BY DEF Entries
    <3> QED
      BY <1>4, <1>5, <1>6
  <2> QED
    BY <2>1, <2>2, <2>3, <2>4 DEF Living
<1>8. Normal' = IF st = "normal" THEN Normal \cup {c} ELSE Normal
  <2>1. \A d \in Channels \ {c} : d \in Normal' <=> d \in Normal
    BY <1>1, <1>3 DEF Normal
  <2>2. c \in Normal' <=> st = "normal"
    BY <1>3 DEF Normal
  <2> QED
    BY <1>2, <2>1, <2>2 DEF Normal
<1>9. watched' = Normal'
  <2>1. watched = Normal
    BY DEF LoopInv, Accounted, DescriptorsAccounted
  <2> QED
    BY <1>1, <1>8, <2>1
<1>10. ASSUME NEW d \in Normal
       PROVE  list'[fdOf'[d]] = d /\ fdOf'[d] \in open' /\ fdOf'[d] = fdOf[d]
  <2>1. d \in Channels /\ d # c /\ fdOf[d] \in Fds /\ list[fdOf[d]] = d /\ fdOf[d] \in open
    BY <1>2, NormalIs
  <2>2. fdOf[d] # f
    BY <1>1, <2>1
  <2> QED
    BY <1>4, <1>5, <2>1, <2>2
<1>11. \A d \in Normal' : list'[fdOf'[d]] = d /\ fdOf'[d] \in open'
  BY <1>1, <1>4, <1>5, <1>8, <1>10
<1>12. ASSUME NEW g \in open'
       PROVE  list'[g] \in Normal' \/ Coming(g)'
  <2>1. g \in open /\ g \in Fds
    BY DEF LoopInv, LoopTyped
  <2>2. CASE g = f
    BY <1>4, <1>8, <1>12, <2>2
  <2>3. CASE g # f
    <3>1. list[g] \in Normal \/ Coming(g)
      BY <2>1, ComingIs DEF LoopInv, Accounted
    <3> QED
      BY <1>4, <1>8, <2>1, <2>3, <3>1
  <2> QED
    BY <2>2, <2>3
<1>13. DescriptorsAccounted'
  <2>1. \A g \in open' : \/ list'[g] \in Normal'
                         \/ \E i \in 1 .. Len(tasks') : tasks'[i] = [kind |-> "newfd", what |-> g]
    BY <1>12 DEF Coming, In, NewFd
  <2> QED
    BY <1>9, <1>11, <2>1 DEF DescriptorsAccounted
<1>14. ASSUME NEW g \in Fds, Coming(g)'
       PROVE  g \in open' /\ list'[g] \notin Normal'
  <2>1. Coming(g) /\ g # f
    BY <1>14
  <2>2. g \in open /\ list[g] \notin Normal
    BY <2>1 DEF LoopInv, Accounted
  <2>3. list[g] # c
    BY <1>2 DEF Listed
  <2> QED
    BY <1>4, <1>8, <2>1, <2>2, <2>3
<1>15. Accounted'
  BY <1>13, <1>14 DEF Accounted
<1>16. watched' \subseteq Channels /\ held' \subseteq Channels /\ open' \subseteq Fds
  BY DEF LoopInv, LoopTyped
<1> QED
  BY <1>3, <1>4, <1>5, <1>7, <1>15, <1>16 DEF Kept

\* A descriptor that is refused is closed.
LEMMA RefusedKeeps ==
  ASSUME LoopInv, NEW f \in Fds, Coming(f),
         tasks' \in Seq(Calls), Once(tasks'), \A d \in Channels : Posted(d)' => Posted(d),
         \A g \in Fds : Coming(g)' <=> Coming(g) /\ g # f,
         open' = open \ {f}, UNCHANGED <<state, fdOf, watched, list, held, careless>>
  PROVE  Kept'
<1>1. f \in open /\ list[f] \notin Normal
  BY DEF LoopInv, Accounted
<1>2. UNCHANGED <<Listed, Existing, Entries, Normal>>
  BY DEF Listed, Existing, Entries, Normal
<1>3. Living'
  BY <1>2 DEF LoopInv, Living
<1>4. \A d \in Normal : list[fdOf[d]] = d /\ fdOf[d] \in open'
  BY <1>1, NormalIs
<1>5. \A g \in open' : list[g] \in Normal \/ Coming(g)'
  <2> SUFFICES ASSUME NEW g \in open'
               PROVE  list[g] \in Normal \/ Coming(g)'
    OBVIOUS
  <2>1. g \in Fds /\ g # f /\ g \in open
    BY DEF LoopInv, LoopTyped
  <2> QED
    BY <2>1, ComingIs DEF LoopInv, Accounted
<1>6. DescriptorsAccounted'
  <2>1. \A g \in open' : \/ list'[g] \in Normal'
                         \/ \E i \in 1 .. Len(tasks') : tasks'[i] = [kind |-> "newfd", what |-> g]
    BY <1>2, <1>5 DEF Coming, In, NewFd
  <2> QED
    BY <1>2, <1>4, <2>1 DEF DescriptorsAccounted, LoopInv, Accounted
<1>7. Accounted'
  BY <1>2, <1>6 DEF LoopInv, Accounted
<1> QED
  BY <1>3, <1>7 DEF Kept, LoopInv, LoopTyped

\* The scan takes closed channels out of the list.
LEMMA ScanKeeps ==
  ASSUME LoopInv, Fewer, NEW D, D \subseteq Fds, \A f \in D : list[f] # NoChannel /\ state[list[f]] = "release",
         list' = [f \in Fds |-> IF f \in D THEN NoChannel ELSE list[f]],
         state' = LetGo({list[f] : f \in D}, state),
         watched' = watched \ ({list[f] : f \in D} \ held),
         UNCHANGED <<fdOf, held, open, careless>>
  PROVE  Kept'
<1> DEFINE out == {list[f] : f \in D}
<1>1. \A c \in out : c \in Channels /\ state[c] = "release" /\ c \notin Normal
  BY DEF LoopInv, LoopTyped, NoChannel, Normal
<1>2. /\ state' \in [Channels -> {"none", "normal", "release", "gone"}]
      /\ \A c \in Channels : state'[c] = IF c \in out /\ c \notin held THEN "gone" ELSE state[c]
  BY DEF LetGo, LoopInv, LoopTyped
<1>3. /\ list' \in [Fds -> Channels \cup {NoChannel}]
      /\ \A f \in Fds : list'[f] # NoChannel => f \notin D /\ list'[f] = list[f]
  BY DEF LoopInv, LoopTyped
<1>4. \A f \in Fds : list'[f] # NoChannel => list[f] \notin out
  <2> SUFFICES ASSUME NEW f \in Fds, list'[f] # NoChannel, NEW g \in D, list[g] = list[f]
               PROVE  FALSE
    OBVIOUS
  <2>1. fdOf[list[f]] = f /\ fdOf[list[g]] = g
    BY <1>3, ListedIs
  <2> QED
    BY <1>3, <2>1
<1> HIDE DEF out
<1>5. Normal' = Normal
  BY <1>1, <1>2 DEF Normal
<1>6. watched' = Normal'
  BY <1>1, <1>5 DEF LoopInv, Accounted, DescriptorsAccounted, out
<1>7. Living'
  <2>1. Listed' \subseteq Existing'
    <3> SUFFICES ASSUME NEW f \in Fds, list'[f] # NoChannel
                 PROVE  list'[f] \in Existing'
      BY DEF Listed
    <3>1. list'[f] = list[f] /\ list[f] \in Existing /\ list[f] \notin out
      BY <1>3, <1>4, ListedIs
    <3> QED
      BY <1>2, <3>1 DEF Existing
  <2>2. held' \subseteq Existing'
    BY <1>2 DEF LoopInv, Living, Existing
  <2>3. \A c \in Channels : Posted(c)' => state'[c] # "none" /\ (careless' \/ c \in held')
    BY <1>2 DEF LoopInv, Living, Fewer
  <2>4. \A f \in Entries' : fdOf'[list'[f]] = f
    BY <1>3 DEF LoopInv, Living, Entries
  <2> QED
    BY <2>1, <2>2, <2>3, <2>4 DEF Living
<1>8. ASSUME NEW f \in Fds, list[f] \in Normal
      PROVE  list'[f] = list[f]
  BY <1>8 DEF Normal, LoopInv, LoopTyped
<1>9. \A c \in Normal' : list'[fdOf'[c]] = c /\ fdOf'[c] \in open'
  BY <1>5, <1>8, NormalIs
<1>10. \A f \in Fds : Coming(f)' => f \in open' /\ list'[f] \notin Normal'
  <2> SUFFICES ASSUME NEW f \in Fds, Coming(f)'
               PROVE  f \in open' /\ list'[f] \notin Normal'
    OBVIOUS
  <2>1. f \in open /\ list[f] \notin Normal
    BY DEF LoopInv, Accounted, Fewer
  <2>2. NoChannel \notin Normal
    BY ServerLoopAssumption DEF Normal, Channels, NoChannel
  <2> QED
    BY <1>3, <1>5, <2>1, <2>2
<1>11. \A f \in open' : list'[f] \in Normal' \/ Coming(f)'
  <2> SUFFICES ASSUME NEW f \in open'
               PROVE  list'[f] \in Normal' \/ Coming(f)'
    OBVIOUS
  <2>1. f \in open /\ f \in Fds /\ (list[f] \in Normal \/ Coming(f))
    BY ComingIs DEF LoopInv, LoopTyped, Accounted
  <2> QED
    BY <1>5, <1>8, <2>1 DEF Fewer
<1>12. DescriptorsAccounted'
  <2>1. \A f \in open' : \/ list'[f] \in Normal'
                         \/ \E i \in 1 .. Len(tasks') : tasks'[i] = [kind |-> "newfd", what |-> f]
    BY <1>11 DEF Coming, In, NewFd
  <2> QED
    BY <1>6, <1>9, <2>1 DEF DescriptorsAccounted
<1>13. Accounted'
  BY <1>10, <1>12 DEF Accounted, Fewer
<1>14. watched' \subseteq Channels /\ held' \subseteq Channels /\ open' \subseteq Fds /\ fdOf' \in [Channels -> Fds]
  BY DEF LoopInv, LoopTyped
<1> QED
  BY <1>2, <1>3, <1>7, <1>13, <1>14 DEF Kept, Fewer

\* A reference that the application drops is the last one, or not.
LEMMA DropKeeps ==
  ASSUME LoopInv, NEW c \in Channels, Drop(c)
  PROVE  Kept'
<1>1. /\ c \in held /\ held' = held \ {c} /\ (careless' <=> (careless \/ Posted(c)))
      /\ state' = [state EXCEPT ![c] = IF c \in Listed THEN state[c] ELSE "gone"]
      /\ UNCHANGED <<fdOf, watched, list, tasks, open>>
  BY DEF Drop
<1>2. Fewer
  BY <1>1, SameFewer
<1>3. /\ state' \in [Channels -> {"none", "normal", "release", "gone"}]
      /\ \A d \in Channels : state'[d] = IF d = c /\ d \notin Listed THEN "gone" ELSE state[d]
  BY <1>1 DEF LoopInv, LoopTyped
<1>4. UNCHANGED <<Listed, Entries>>
  BY <1>1 DEF Listed, Entries
<1>5. Normal' = Normal
  <2>1. Normal \subseteq Listed
    BY NormalIs
  <2> QED
    BY <1>3, <2>1 DEF Normal
<1>6. Living'
  <2>1. Listed' \subseteq Existing' /\ held' \subseteq Existing'
    BY <1>1, <1>3, <1>4 DEF LoopInv, Living, Existing
  <2>2. ASSUME NEW d \in Channels, Posted(d)'
        PROVE  state'[d] # "none" /\ (careless' \/ d \in held')
    <3>1. Posted(d) /\ state[d] # "none" /\ (careless \/ d \in held)
      BY <1>2, <2>2 DEF LoopInv, Living, Fewer
    <3> QED
      BY <1>1, <1>3, <3>1
  <2> QED
    BY <1>1, <1>4, <2>1, <2>2 DEF LoopInv, Living
<1>7. Accounted'
  <2>1. \A f \in open : list[f] \in Normal \/ Coming(f)
    BY ComingIs DEF LoopInv, Accounted
  <2>2. \A f \in open' : \/ list'[f] \in Normal'
                         \/ \E i \in 1 .. Len(tasks') : tasks'[i] = [kind |-> "newfd", what |-> f]
    BY <1>1, <1>5, <2>1 DEF Coming, In, NewFd
  <2>3. DescriptorsAccounted'
    BY <1>1, <1>5, <2>2 DEF LoopInv, Accounted, DescriptorsAccounted
  <2> QED
    BY <1>1, <1>2, <1>5, <2>3 DEF LoopInv, Accounted, Fewer
<1> QED
  BY <1>1, <1>2, <1>3, <1>6, <1>7 DEF Kept, LoopInv, LoopTyped, Fewer

\* A call is posted by who has a reference.
LEMMA PostKeeps ==
  ASSUME LoopInv, NEW c \in Channels, NEW kind \in {"send", "close"}, Post(kind, c)
  PROVE  Kept'
<1>1. PICK t : t = [kind |-> kind, what |-> c]
  OBVIOUS
<1>2. /\ c \in held /\ tasks' = Append(tasks, t)
      /\ UNCHANGED <<state, fdOf, watched, list, held, open, careless>>
  BY <1>1 DEF Post, appVars
<1>3. t \in Calls /\ t.kind = kind /\ t.what = c /\ t.kind # "newfd"
  BY <1>1, CallIs
<1>4. tasks' \in Seq(Calls) /\ In(tasks') = In(tasks) \cup {t} /\ Once(tasks')
  BY <1>2, <1>3, OneMore DEF LoopInv, LoopTyped, Accounted
<1>5. \A f \in Fds : Coming(f)' <=> Coming(f)
  <2>1. \A f \in Fds : NewFd(f) # t
    BY <1>3, CallIs
  <2> QED
    BY <1>4, <2>1 DEF Coming, NewFd
<1>6. \A d \in Channels : Posted(d)' => Posted(d) \/ d = c
  <2> SUFFICES ASSUME NEW d \in Channels, Posted(d)'
               PROVE  Posted(d) \/ d = c
    OBVIOUS
  <2>1. \E u \in In(tasks') : u.kind # "newfd" /\ u.what = d
    BY PostedIs DEF Posted, In
  <2> QED
    BY <1>3, <1>4, <2>1, PostedIs
<1>7. Living'
  <2>1. UNCHANGED <<Listed, Existing, Entries>>
    BY <1>2 DEF Listed, Existing, Entries
  <2>2. \A d \in Channels : Posted(d)' => state'[d] # "none" /\ (careless' \/ d \in held')
    BY <1>2, <1>6 DEF LoopInv, Living, Existing
  <2> QED
    BY <1>2, <2>1, <2>2 DEF LoopInv, Living
<1>8. Accounted'
  <2>1. Normal' = Normal
    BY <1>2 DEF Normal
  <2>2. \A f \in open' : list'[f] \in Normal' \/ Coming(f)'
    BY <1>2, <1>5, <2>1, ComingIs DEF LoopInv, LoopTyped, Accounted
  <2>3. \A f \in open' : \/ list'[f] \in Normal'
                         \/ \E i \in 1 .. Len(tasks') : tasks'[i] = [kind |-> "newfd", what |-> f]
    BY <2>2 DEF Coming, In, NewFd
  <2>4. DescriptorsAccounted'
    BY <1>2, <2>1, <2>3 DEF LoopInv, Accounted, DescriptorsAccounted
  <2> QED
    BY <1>2, <1>4, <1>5, <2>1, <2>4 DEF LoopInv, Accounted
<1> QED
  BY <1>2, <1>4, <1>7, <1>8 DEF Kept, LoopInv, LoopTyped

\* A free number has no normal channel, and none comes under it.
LEMMA AcceptKeeps ==
  ASSUME LoopInv, NEW f \in Fds, Accept(f)
  PROVE  Kept'
<1>1. /\ f \notin open /\ open' = open \cup {f} /\ tasks' = Append(tasks, NewFd(f))
      /\ UNCHANGED <<state, fdOf, watched, list, held, careless>>
  BY DEF Accept, NewFd, appVars
<1>2. PICK t : t = NewFd(f)
  OBVIOUS
<1>3. t \in Calls /\ t.kind = "newfd"
  BY <1>2, CallIs
<1>4. t \notin In(tasks)
  BY <1>1, <1>2 DEF LoopInv, Accounted, Coming
<1>5. tasks' \in Seq(Calls) /\ In(tasks') = In(tasks) \cup {t} /\ Once(tasks')
  BY <1>1, <1>2, <1>3, <1>4, OneMore DEF LoopInv, LoopTyped, Accounted
<1>6. \A g \in Fds : Coming(g)' <=> Coming(g) \/ g = f
  <2>1. \A g \in Fds : NewFd(g) = t <=> g = f
    BY <1>2, CallIs
  <2>2. \A g \in Fds : Coming(g)' <=> NewFd(g) \in In(tasks')
    BY DEF Coming, NewFd
  <2> QED
    BY <1>5, <2>1, <2>2 DEF Coming
<1>7. \A d \in Channels : Posted(d)' => Posted(d)
  <2> SUFFICES ASSUME NEW d \in Channels, Posted(d)'
               PROVE  Posted(d)
    OBVIOUS
  <2>1. \E u \in In(tasks') : u.kind # "newfd" /\ u.what = d
    BY PostedIs DEF Posted, In
  <2> QED
    BY <1>3, <1>5, <2>1, PostedIs
<1>8. Living'
  <2>1. UNCHANGED <<Listed, Existing, Entries>>
    BY <1>1 DEF Listed, Existing, Entries
  <2> QED
    BY <1>1, <1>7, <2>1 DEF LoopInv, Living
<1>9. Accounted'
  <2>1. Normal' = Normal
    BY <1>1 DEF Normal
  <2>2. \A g \in open' : list'[g] \in Normal' \/ Coming(g)'
    <3> SUFFICES ASSUME NEW g \in open'
                 PROVE  list'[g] \in Normal' \/ Coming(g)'
      OBVIOUS
    <3>1. g = f \/ g \in open
      BY <1>1
    <3>2. g \in open => list[g] \in Normal \/ Coming(g)
      BY ComingIs DEF LoopInv, Accounted
    <3>3. g \in Fds
      BY <3>1 DEF LoopInv, LoopTyped
    <3> QED
      BY <1>1, <1>6, <2>1, <3>1, <3>2, <3>3
  <2>3. \A g \in open' : \/ list'[g] \in Normal'
                         \/ \E i \in 1 .. Len(tasks') : tasks'[i] = [kind |-> "newfd", what |-> g]
    BY <2>2 DEF Coming, In, NewFd
  <2>4. DescriptorsAccounted'
    BY <1>1, <2>1, <2>3 DEF LoopInv, Accounted, DescriptorsAccounted
  <2>5. list[f] \notin Normal
    <3> SUFFICES ASSUME list[f] \in Normal
                 PROVE  FALSE
      OBVIOUS
    <3>1. fdOf[list[f]] = f
      BY ListedIs, ServerLoopAssumption DEF Normal, Channels, NoChannel
    <3> QED
      BY <1>1, <3>1, NormalIs
  <2>6. \A g \in Fds : Coming(g)' => g \in open' /\ list'[g] \notin Normal'
    BY <1>1, <1>6, <2>1, <2>5 DEF LoopInv, Accounted
  <2> QED
    BY <1>5, <2>4, <2>6 DEF Accounted
<1> QED
  BY <1>1, <1>5, <1>8, <1>9 DEF Kept, LoopInv, LoopTyped

-----------------------------------------------------------------------------
(* The steps                                                                *)

\* What Kept leaves open: the batch, and the use of what was deleted.
LEMMA KeptAll ==
  ASSUME Kept', batch' \in Seq(Channels), Batched', AliveWhenUsed'
  PROVE  LoopInv'
BY DEF Kept, LoopInv, LoopTyped

LEMMA InitLoop == Init => LoopInv
<1> SUFFICES ASSUME Init
             PROVE  LoopInv
  OBVIOUS
<1>1. /\ phase = "poll" /\ batch = << >> /\ state = [c \in Channels |-> "none"]
      /\ watched = {} /\ list = [f \in Fds |-> NoChannel] /\ tasks = << >> /\ held = {} /\ open = {} /\ broken = FALSE
  BY DEF Init
<1>2. fdOf \in [Channels -> Fds]
  <2>1. (CHOOSE f \in Fds : TRUE) \in Fds
    BY ServerLoopAssumption
  <2> QED
    BY <2>1 DEF Init
<1>3. LoopTyped
  BY <1>1, <1>2, EmptySeq DEF LoopTyped
<1>4. Normal = {} /\ Listed = {} /\ Entries = {} /\ In(tasks) = {} /\ In(batch) = {} /\ Once(tasks)
  BY <1>1, NoneIn DEF Normal, Listed, Entries
<1>5. \A c \in Channels : ~Posted(c)
  BY <1>4, PostedIs
<1>6. Living /\ Batched
  BY <1>1, <1>4, <1>5 DEF Living, Batched
<1>7. Accounted
  BY <1>1, <1>4 DEF Accounted, DescriptorsAccounted, Coming
<1> QED
  BY <1>1, <1>3, <1>6, <1>7 DEF LoopInv, AliveWhenUsed

LEMMA PollStep ==
  ASSUME LoopInv, Poll
  PROVE  LoopInv'
<1>1. /\ phase' = "events"
      /\ UNCHANGED <<state, fdOf, watched, list, tasks, held, careless, open, broken>>
  BY DEF Poll, scanVars, appVars, faultVars
<1>2. Kept'
  BY <1>1, SameFewer, NothingKeeps
<1>3. PICK S \in SUBSET watched : batch' \in SetToSeqs(S)
  BY DEF Poll
<1>4. batch' \in [1 .. Cardinality(S) -> S]
  BY <1>3 DEF SetToSeqs
<1>5. S \subseteq Channels /\ IsFiniteSet(S) /\ Cardinality(S) \in Nat
  <2>1. IsFiniteSet(Channels)
    BY FS_Interval, ServerLoopAssumption DEF Channels
  <2>2. S \subseteq Channels
    BY DEF LoopInv, LoopTyped
  <2> QED
    BY <2>1, <2>2, FS_Subset, FS_CardinalityType
<1>6. batch' \in Seq(Channels) /\ Len(batch') = Cardinality(S)
  BY <1>4, <1>5
<1>7. In(batch') \subseteq S
  BY <1>4, <1>6 DEF In
<1>8. watched \subseteq Listed
  BY NormalIs DEF LoopInv, Accounted, DescriptorsAccounted
<1>9. Batched'
  <2>1. Listed' = Listed
    BY <1>1 DEF Listed
  <2> QED
    BY <1>1, <1>7, <1>8, <2>1 DEF Batched
<1> QED
  BY <1>1, <1>2, <1>6, <1>9, KeptAll DEF LoopInv, AliveWhenUsed

\* The next channel of the batch has not gone, whatever the handlers before have closed.
LEMMA EventStep ==
  ASSUME LoopInv, Event
  PROVE  LoopInv'
<1>1. /\ phase = "events" /\ phase' = "events" /\ batch # << >> /\ batch' = Tail(batch)
      /\ UNCHANGED <<fdOf, list, tasks, held, careless>>
  BY DEF Event, appVars
<1>2. PICK c : c = Head(batch)
  OBVIOUS
<1>3. c \in Channels /\ batch' \in Seq(Channels) /\ In(batch) = In(batch') \cup {c}
  BY <1>1, <1>2, FirstOf DEF LoopInv, LoopTyped
<1>4. c \in Existing
  BY <1>3 DEF LoopInv, Batched, Living
<1>5. state[c] # "gone"
  BY <1>4 DEF Existing
<1>6. Batched'
  <2>1. Listed' = Listed
    BY <1>1 DEF Listed
  <2> QED
    BY <1>1, <1>3, <2>1 DEF LoopInv, Batched
<1>7. \/ UNCHANGED <<state, watched, open, broken>>
      \/ (\E S \in SUBSET Normal : Close(S)) /\ UNCHANGED broken
  BY <1>2, <1>5 DEF Event, Fails, faultVars
<1>8. Kept' /\ UNCHANGED broken
  <2>1. CASE UNCHANGED <<state, watched, open, broken>>
    BY <1>1, <2>1, SameFewer, NothingKeeps
  <2>2. ASSUME NEW S \in SUBSET Normal, Close(S), UNCHANGED broken
        PROVE  Kept' /\ UNCHANGED broken
    <3>1. S \subseteq Existing
      BY DEF Normal, Existing
    <3> QED
      BY <1>1, <2>2, <3>1, SameFewer, ClosingKeeps
  <2> QED
    BY <1>7, <2>1, <2>2
<1> QED
  BY <1>1, <1>3, <1>6, <1>8, KeptAll DEF LoopInv, AliveWhenUsed

LEMMA RunTaskStep ==
  ASSUME LoopInv, RunTask
  PROVE  LoopInv'
<1>1. /\ phase = "tasks" /\ phase' = "tasks" /\ batch' = batch /\ tasks # << >> /\ tasks' = Tail(tasks)
  BY DEF RunTask
<1>2. batch = << >> /\ batch' \in Seq(Channels) /\ Batched'
  BY <1>1, NoneIn DEF LoopInv, LoopTyped, Batched
<1>3. PICK t : t = Head(tasks)
  OBVIOUS
<1>4. /\ tasks' \in Seq(Calls) /\ Once(tasks') /\ t \in Calls
      /\ \A c \in Channels : Posted(c)' => Posted(c)
      /\ t.kind # "newfd" => Fewer /\ t.what \in Channels /\ Posted(t.what)
      /\ t.kind = "newfd" =>
           /\ t.what \in Fds /\ Coming(t.what)
           /\ \A f \in Fds : Coming(f)' <=> Coming(f) /\ f # t.what
  BY <1>1, <1>3, TaskTaken
<1>5. \/ t.kind = "newfd" /\ (NewChannel(t.what) \/ NewRefused(t.what))
      \/ t.kind = "send" /\ RunSend(t.what)
      \/ t.kind = "close" /\ RunClose(t.what)
  BY <1>3 DEF RunTask
<1>6. PICK x : x = t.what
  OBVIOUS
<1>7. CASE t.kind = "newfd" /\ NewChannel(x)
  <2>1. PICK c \in Channels :
          /\ state[c] = "none"
          /\ fdOf' = [fdOf EXCEPT ![c] = x]
          /\ list' = [list EXCEPT ![x] = c]
          /\ held' \in {held, held \cup {c}}
          /\ \/ /\ state' = LetGo({list[x]}, [state EXCEPT ![c] = "normal"])
                /\ watched' = (watched \ ({list[x]} \ held)) \cup {c}
                /\ UNCHANGED open
             \/ /\ state' = LetGo({list[x]}, [state EXCEPT ![c] = "release"])
                /\ watched' = watched \ ({list[x]} \ held)
                /\ open' = open \ {x}
    BY <1>7 DEF NewChannel
  <2>2. careless' = careless /\ broken' = broken
    BY <1>7 DEF NewChannel, faultVars
  <2>3. PICK st \in {"normal", "release"} :
          /\ state' = LetGo({list[x]}, [state EXCEPT ![c] = st])
          /\ IF st = "normal" THEN watched' = (watched \ ({list[x]} \ held)) \cup {c} /\ open' = open
                              ELSE watched' = watched \ ({list[x]} \ held) /\ open' = open \ {x}
    BY <2>1
  <2>4. Kept'
    BY <1>4, <1>6, <1>7, <2>1, <2>2, <2>3, NewKeeps
  <2> QED
    BY <1>2, <2>2, <2>4, KeptAll DEF LoopInv, AliveWhenUsed
<1>8. CASE t.kind = "newfd" /\ NewRefused(x)
  <2>1. open' = open \ {x} /\ UNCHANGED <<state, fdOf, watched, list, held, careless, broken>>
    BY <1>8 DEF NewRefused, appVars, faultVars
  <2>2. Kept'
    BY <1>4, <1>6, <1>8, <2>1, RefusedKeeps
  <2> QED
    BY <1>2, <2>1, <2>2, KeptAll DEF LoopInv, AliveWhenUsed
<1>9. CASE t.kind # "newfd" /\ (RunSend(x) \/ RunClose(x))
  <2>1. x \in Channels /\ Posted(x) /\ Fewer /\ state[x] # "none" /\ (careless \/ x \in held)
    BY <1>4, <1>6, <1>9 DEF LoopInv, Living
  <2>2. UNCHANGED <<fdOf, list, held, careless>>
    BY <1>9 DEF RunSend, RunClose, appVars
  <2>3. \/ state[x] = "gone" /\ broken' = TRUE /\ UNCHANGED <<state, watched, open>>
        \/ state[x] # "gone" /\ UNCHANGED broken /\ (Close({x}) \/ UNCHANGED <<state, watched, open>>)
    BY <1>9 DEF RunSend, RunClose, UseAfterDelete, Fails, faultVars
  <2>4. CASE UNCHANGED <<state, watched, open>>
    <3>1. Kept'
      BY <2>1, <2>2, <2>4, NothingKeeps
    <3>2. state[x] = "gone" => careless
      BY <2>1 DEF LoopInv, Living, Existing
    <3> QED
      BY <1>2, <2>2, <2>3, <3>1, <3>2, KeptAll DEF LoopInv, AliveWhenUsed
  <2>5. CASE state[x] # "gone" /\ UNCHANGED broken /\ Close({x})
    <3>1. {x} \subseteq Existing
      BY <2>1, <2>5 DEF LoopInv, LoopTyped, Existing
    <3>2. Kept'
      BY <2>1, <2>2, <2>5, <3>1, ClosingKeeps
    <3> QED
      BY <1>2, <2>2, <2>5, <3>2, KeptAll DEF LoopInv, AliveWhenUsed
  <2> QED
    BY <2>3, <2>4, <2>5
<1> QED
  BY <1>5, <1>6, <1>7, <1>8, <1>9

LEMMA IdleStep ==
  ASSUME LoopInv, Idle
  PROVE  LoopInv'
<1>1. /\ phase = "idle" /\ phase' = "poll" /\ UNCHANGED <<batch, fdOf, tasks, held, careless, open, broken>>
  BY DEF Idle, appVars, faultVars
<1>2. batch' = << >> /\ batch' \in Seq(Channels) /\ Batched'
  BY <1>1, NoneIn DEF LoopInv, LoopTyped, Batched
<1>3. Fewer
  BY <1>1, SameFewer
<1>4. Dead \subseteq Fds /\ \A f \in Dead : list[f] # NoChannel /\ state[list[f]] = "release"
  BY DEF Dead, Scanned, Entries
<1>5. CASE UNCHANGED <<list, state, watched>>
  <2>1. Kept'
    BY <1>1, <1>3, <1>5, NothingKeeps
  <2> QED
    BY <1>1, <1>2, <2>1, KeptAll DEF LoopInv, AliveWhenUsed
<1>6. CASE /\ list' = [f \in Fds |-> IF f \in Dead THEN NoChannel ELSE list[f]]
           /\ state' = LetGo({list[f] : f \in Dead}, state)
           /\ watched' = watched \ ({list[f] : f \in Dead} \ held)
  <2>1. PICK D : D = Dead
    OBVIOUS
  <2>2. Kept'
    BY <1>1, <1>3, <1>4, <1>6, <2>1, ScanKeeps
  <2> QED
    BY <1>1, <1>2, <2>2, KeptAll DEF LoopInv, AliveWhenUsed
<1> QED
  BY <1>5, <1>6 DEF Idle

\* What the other threads do touches no batch, and no list.
LEMMA OtherStep ==
  ASSUME LoopInv, Kept', UNCHANGED <<phase, batch, list, broken>>, careless => careless'
  PROVE  LoopInv'
<1>1. Listed' = Listed
  BY DEF Listed
<1> QED
  BY <1>1, KeptAll DEF LoopInv, LoopTyped, Batched, AliveWhenUsed

LEMMA PhaseStep ==
  ASSUME LoopInv, EventsEnd \/ TasksEnd \/ UNCHANGED vars
  PROVE  LoopInv'
<1>1. UNCHANGED <<batch, state, fdOf, watched, list, tasks, held, careless, open, broken>>
  BY DEF EventsEnd, TasksEnd, vars, appVars, faultVars
<1>2. Kept'
  BY <1>1, SameFewer, NothingKeeps
<1>3. Batched'
  <2>1. Listed' = Listed
    BY <1>1 DEF Listed
  <2>2. phase' = phase \/ batch = << >>
    BY DEF EventsEnd, TasksEnd, vars, LoopInv, Batched
  <2> QED
    BY <1>1, <2>1, <2>2 DEF LoopInv, Batched
<1> QED
  BY <1>1, <1>2, <1>3, KeptAll DEF LoopInv, LoopTyped, AliveWhenUsed

LEMMA LoopStepKeeps == LoopInv /\ [Next]_vars => LoopInv'
<1> SUFFICES ASSUME LoopInv, [Next]_vars
             PROVE  LoopInv'
  OBVIOUS
<1>1. CASE LoopStep
  BY <1>1, PollStep, EventStep, RunTaskStep, IdleStep, PhaseStep DEF LoopStep
<1>2. ASSUME NEW f \in Fds, Accept(f)
      PROVE  LoopInv'
  <2>1. UNCHANGED <<phase, batch, list, broken>> /\ careless' = careless
    BY <1>2 DEF Accept, appVars, faultVars
  <2> QED
    BY <1>2, <2>1, AcceptKeeps, OtherStep
<1>3. ASSUME NEW c \in Channels, Drop(c)
      PROVE  LoopInv'
  <2>1. UNCHANGED <<phase, batch, list, broken>> /\ (careless => careless')
    BY <1>3 DEF Drop, faultVars
  <2> QED
    BY <1>3, <2>1, DropKeeps, OtherStep
<1>4. ASSUME NEW c \in Channels, NEW kind \in {"send", "close"}, Post(kind, c)
      PROVE  LoopInv'
  <2>1. UNCHANGED <<phase, batch, list, broken>> /\ careless' = careless
    BY <1>4 DEF Post, appVars, faultVars
  <2> QED
    BY <1>4, <2>1, PostKeeps, OtherStep
<1>5. CASE UNCHANGED vars
  BY <1>5, PhaseStep
<1> QED
  BY <1>1, <1>2, <1>3, <1>4, <1>5 DEF Next

-----------------------------------------------------------------------------
(* The theorems                                                             *)

LEMMA LoopInvariance == Spec => []LoopInv
BY InitLoop, LoopStepKeeps, PTL DEF Spec

\* The batch of one epoll_wait never points to a channel that was deleted, however many
\* the handlers before it have closed; nor does a posted call, unless the application
\* has let its channel go meanwhile (epoll_imp.cpp:34, tcp_server_channel.cpp:427-446).
THEOREM AliveWhenUsedHolds == Spec => []AliveWhenUsed
<1>1. LoopInv => AliveWhenUsed
  BY DEF LoopInv
<1> QED
  BY <1>1, LoopInvariance, PTL

\* No descriptor of a connection leaks, and none has two channels, though the kernel
\* gives a number again as soon as it is closed and a closed channel's entry is still
\* in the list (tcp_server_channel_creator.cpp:43).
THEOREM DescriptorsAccountedHolds == Spec => []DescriptorsAccounted
<1>1. LoopInv => DescriptorsAccounted
  BY DEF LoopInv, Accounted
<1> QED
  BY <1>1, LoopInvariance, PTL

-----------------------------------------------------------------------------
(* The scan, and the types                                                  *)

\* Every scan begins at the front, and the idle helper is started as long as there
\* is a channel in the list: no entry can be passed over or left behind
\* (tcp_server_channel_creator.cpp:52-94).
ListIsScanned == lastScan = 0 /\ (Listed # {} => idleOn)

\* The safety half of ClosedIsRecovered: the next scan takes every closed channel out
\* of the list, wherever it stands in it.
RecoveredByNextScan ==
  [][Idle => \A c \in Channels : state[c] = "release" => c \notin Listed']_vars

\* The small variables.
FlagsTyped ==
  /\ phase \in {"poll", "events", "tasks", "idle"}
  /\ idleOn \in BOOLEAN /\ asserts \in BOOLEAN /\ broken \in BOOLEAN /\ careless \in BOOLEAN
  /\ failure \in {"none", "event", "send"}

LEMMA ListedEntries == (Listed # {} <=> Entries # {}) /\ \A c \in Listed : \E f \in Entries : list[f] = c
BY DEF Listed, Entries

\* The scan goes over all entries, because no descriptor is below the front.
LEMMA ScansAll ==
  ASSUME lastScan = 0
  PROVE  Scanned = Entries /\ Dead = {f \in Entries : state[list[f]] = "release"}
<1>1. \A f \in Entries : f > lastScan
  BY ServerLoopAssumption DEF Entries
<1>2. {f \in Entries : f > lastScan} = Entries
  BY <1>1
<1>3. Scanned = Entries
  BY <1>2 DEF Scanned
<1> QED
  BY <1>3 DEF Dead

LEMMA IdleScans ==
  ASSUME ListIsScanned, Idle
  PROVE  ListIsScanned' /\ \A c \in Channels : state[c] = "release" => c \notin Listed'
<1>1. CASE ~idleOn /\ UNCHANGED <<list, state, watched, idleOn, lastScan>>
  <2>1. Listed' = Listed /\ Listed = {}
    BY <1>1 DEF Listed, ListIsScanned
  <2> QED
    BY <1>1, <2>1 DEF ListIsScanned
<1>2. CASE /\ idleOn
           /\ list' = [f \in Fds |-> IF f \in Dead THEN NoChannel ELSE list[f]]
           /\ idleOn' = (Entries # Dead)
           /\ lastScan' = 0
  <2>1. Dead = {f \in Entries : state[list[f]] = "release"}
    BY ScansAll DEF ListIsScanned
  <2>2. Entries' = Entries \ Dead
    BY <1>2, <2>1 DEF Entries
  <2>3. Listed' # {} => Entries' # {}
    BY DEF Listed, Entries
  <2>4. ListIsScanned'
    BY <1>2, <2>1, <2>2, <2>3 DEF ListIsScanned
  <2>5. ASSUME NEW c \in Channels, state[c] = "release", c \in Listed'
        PROVE  FALSE
    <3>1. PICK f \in Fds : list'[f] = c /\ c # NoChannel
      BY <2>5 DEF Listed
    <3>2. f \notin Dead /\ list[f] = c
      BY <1>2, <3>1
    <3> QED
      BY <2>1, <2>5, <3>1, <3>2 DEF Entries
  <2> QED
    BY <2>4, <2>5
<1> QED
  BY <1>1, <1>2 DEF Idle

LEMMA NextScans ==
  ASSUME ListIsScanned, [Next]_vars
  PROVE  ListIsScanned'
<1>1. CASE Idle
  BY <1>1, IdleScans
<1>2. CASE lastScan' = lastScan /\ idleOn' = TRUE
  BY <1>2 DEF ListIsScanned
<1>3. CASE lastScan' = lastScan /\ list' = list /\ (idleOn => idleOn')
  <2>1. Listed' = Listed
    BY <1>3 DEF Listed
  <2> QED
    BY <1>3, <2>1 DEF ListIsScanned
<1>4. CASE RunTask
  BY <1>2, <1>3, <1>4 DEF RunTask, NewChannel, NewRefused, RunSend, RunClose
<1>5. CASE Poll \/ Event \/ EventsEnd \/ TasksEnd \/ UNCHANGED vars
  <2>1. lastScan' = lastScan /\ list' = list
    BY <1>5 DEF Poll, Event, EventsEnd, TasksEnd, vars, scanVars
  <2>2. idleOn => idleOn'
    BY <1>5 DEF Poll, Event, EventsEnd, TasksEnd, vars, scanVars
  <2> QED
    BY <1>3, <2>1, <2>2
<1>6. ASSUME NEW f \in Fds, Accept(f) PROVE ListIsScanned'
  BY <1>3, <1>6 DEF Accept, scanVars
<1>7. ASSUME NEW c \in Channels, NEW kind \in {"send", "close"}, Drop(c) \/ Post(kind, c)
      PROVE  ListIsScanned'
  BY <1>3, <1>7 DEF Drop, Post, scanVars
<1> QED
  BY <1>1, <1>4, <1>5, <1>6, <1>7 DEF Next, LoopStep

LEMMA FlagsStayTyped ==
  ASSUME FlagsTyped, [Next]_vars
  PROVE  FlagsTyped'
<1> USE DEF FlagsTyped
<1>1. CASE Poll \/ EventsEnd \/ TasksEnd
  <2>1. UNCHANGED <<idleOn, asserts, broken, careless, failure>>
    BY <1>1 DEF Poll, EventsEnd, TasksEnd, scanVars, appVars, faultVars
  <2>2. phase' \in {"events", "tasks", "idle"}
    BY <1>1 DEF Poll, EventsEnd, TasksEnd
  <2> QED
    BY <2>1, <2>2
<1>2. CASE Event
  <2>1. UNCHANGED <<phase, idleOn, asserts, careless>>
    BY <1>2 DEF Event, scanVars, appVars
  <2>2. broken' \in BOOLEAN
    BY <1>2 DEF Event, UseAfterDelete, Fails, faultVars
  <2>3. failure' \in {"none", "event", "send"}
    BY <1>2 DEF Event, UseAfterDelete, Fails, faultVars
  <2> QED
    BY <2>1, <2>2, <2>3
<1>3. CASE RunTask
  <2>1. UNCHANGED <<phase, asserts, careless>>
    BY <1>3 DEF RunTask, NewChannel, NewRefused, RunSend, RunClose, appVars
  <2>2. broken' \in BOOLEAN
    BY <1>3 DEF RunTask, NewChannel, NewRefused, RunSend, RunClose, UseAfterDelete, Fails, faultVars
  <2>3. failure' \in {"none", "event", "send"}
    BY <1>3 DEF RunTask, NewChannel, NewRefused, RunSend, RunClose, UseAfterDelete, Fails, faultVars
  <2>4. idleOn' \in BOOLEAN
    BY <1>3 DEF RunTask, NewChannel, NewRefused, RunSend, RunClose
  <2> QED
    BY <2>1, <2>2, <2>3, <2>4
<1>4. CASE Idle
  <2>1. phase' = "poll" /\ UNCHANGED <<asserts, careless, failure, broken>>
    BY <1>4 DEF Idle, appVars, faultVars
  <2>2. idleOn' \in BOOLEAN
    BY <1>4 DEF Idle
  <2> QED
    BY <2>1, <2>2
<1>5. CASE UNCHANGED vars
  BY <1>5 DEF vars
<1>6. ASSUME NEW f \in Fds, Accept(f) PROVE FlagsTyped'
  BY <1>6 DEF Accept, scanVars, appVars, faultVars
<1>7. ASSUME NEW c \in Channels, Drop(c) PROVE FlagsTyped'
  <2>1. UNCHANGED <<phase, idleOn, asserts, broken, failure>>
    BY <1>7 DEF Drop, scanVars, faultVars
  <2>2. careless' \in BOOLEAN
    BY <1>7 DEF Drop
  <2> QED
    BY <2>1, <2>2
<1>8. ASSUME NEW c \in Channels, NEW kind \in {"send", "close"}, Post(kind, c) PROVE FlagsTyped'
  BY <1>8 DEF Post, scanVars, appVars, faultVars
<1> QED
  BY <1>1, <1>2, <1>3, <1>4, <1>5, <1>6, <1>7, <1>8 DEF Next, LoopStep

LEMMA ScanInvariance == Spec => [](ListIsScanned /\ FlagsTyped)
<1>1. Init => ListIsScanned /\ FlagsTyped
  BY DEF Init, ListIsScanned, Listed, FlagsTyped
<1>2. ListIsScanned /\ FlagsTyped /\ [Next]_vars => (ListIsScanned /\ FlagsTyped)'
  BY NextScans, FlagsStayTyped
<1> QED
  BY <1>1, <1>2, PTL DEF Spec

\* Every scan is a scan of the whole list, and the loop scans as long as there is
\* anything in it.
THEOREM ListIsScannedHolds == Spec => []ListIsScanned
BY ScanInvariance, PTL

\* No closed channel outlives the next scan in the list, whatever the batch, the tasks
\* and the application did since the last one.
THEOREM RecoveredByNextScanHolds == Spec => RecoveredByNextScan
<1>1. ListIsScanned /\ [Next]_vars
        => [Idle => \A c \in Channels : state[c] = "release" => c \notin Listed']_vars
  BY IdleScans
<1> QED
  BY <1>1, ScanInvariance, PTL DEF Spec, RecoveredByNextScan

\* The channels, the list, the batch and the posted calls keep their types: no task
\* names a descriptor or a channel that does not exist.
THEOREM TypeCorrect == Spec => []TypeOK
<1>1. LoopInv /\ ListIsScanned /\ FlagsTyped => TypeOK
  <2> SUFFICES ASSUME LoopInv, ListIsScanned, FlagsTyped
               PROVE  TypeOK
    OBVIOUS
  <2>1. \A i \in 1 .. Len(tasks) :
          \/ tasks[i].kind = "newfd" /\ tasks[i].what \in Fds
          \/ tasks[i].kind \in {"send", "close"} /\ tasks[i].what \in Channels
    <3> SUFFICES ASSUME NEW i \in 1 .. Len(tasks)
                 PROVE  \/ tasks[i].kind = "newfd" /\ tasks[i].what \in Fds
                        \/ tasks[i].kind \in {"send", "close"} /\ tasks[i].what \in Channels
      OBVIOUS
    <3>1. tasks[i] \in Calls
      BY DEF LoopInv, LoopTyped
    <3> QED
      BY <3>1, CallIs
  <2> QED
    BY <2>1 DEF LoopInv, LoopTyped, ListIsScanned, FlagsTyped, TypeOK
<1> QED
  BY <1>1, LoopInvariance, ScanInvariance, PTL
=============================================================================
