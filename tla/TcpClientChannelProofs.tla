----------------------- MODULE TcpClientChannelProofs -----------------------
(***************************************************************************)
(* Proofs about TcpClientChannel, for any sockets, any configuration and   *)
(* any number of posted calls.                                             *)
(*                                                                         *)
(* Consistent, NoSocketLeaks, ToldTheTruth and NoLateEvent hold together   *)
(* or not at all: the guards of the handlers test the state, what they     *)
(* close is the field, what they stop is the helper.  The timeout handler  *)
(* is the one that tests nothing, so the invariant also needs that it      *)
(* never runs on a connected channel.  That is a fact about a whole        *)
(* history: the timeout goes on over a close, and only the result of the   *)
(* next connect, which is never immediate, stops it.  Where ::connect may  *)
(* succeed at once it is false, unless the process asserts: then the       *)
(* second connect never happens.                                           *)
(*                                                                         *)
(* Once it is connected, a channel sends as TcpSend says and receives as   *)
(* TcpRecv says; the second part proves that TcpSend implements            *)
(* ByteStream, the third that a polite peer's packages come whole, in      *)
(* order and at once, and what holds of the buffer for a peer of any kind. *)
(***************************************************************************)
EXTENDS TcpClientChannel, TcpSend, TcpRecv, SequenceTheorems, WellFoundedInduction, TLAPS

\* In every configuration the build asserts, or no connect succeeds at once.
ResultStopsTimeout == \A c \in Configs : c.asserts \/ ~c.immediate

TimeoutIsHarmless ==
  /\ timeoutOn => bound
  /\ timeoutOn => connState # "connected"

IInv ==
  /\ TypeOK
  /\ Consistent
  /\ NoSocketLeaks
  /\ ToldTheTruth
  /\ NoLateEvent
  /\ TimeoutIsHarmless

-----------------------------------------------------------------------------
(* What the parts of the handlers preserve.                                *)

LEMMA ConfigFields ==
  ASSUME TypeOK
  PROVE  config.timeout \in BOOLEAN /\ config.retry \in BOOLEAN
BY ClientAssumption DEF TypeOK, AllConfigs

LEMMA ConnectKeepsType == TypeOK /\ Connect /\ UNCHANGED <<config, tasks>> => TypeOK'
BY ZenonT(60), ClientAssumption, ConfigFields
   DEF TypeOK, Connect, ConnectDue, CreateFails, ConnectFails, ConnectAtOnce, ConnectWaits, Establish,
       TimeoutArmed, Due, Abort, Ignore, sockVars, Holders

LEMMA CloseKeepsType == TypeOK /\ Close /\ UNCHANGED <<config, tasks>> => TypeOK'
BY ClientAssumption DEF TypeOK, Close, CloseBody, ClosedBoth, Closed, Idle, Ignore, sockVars, Holders

\* No call of the queue is lost or invented: one comes at its end, one goes at its
\* head.
LEMMA PostedFits ==
  ASSUME TypeOK, NEW call \in Calls, Len(tasks) < MaxTasks
  PROVE  Append(tasks, call) \in Seq(Calls) /\ Len(Append(tasks, call)) <= MaxTasks
BY ClientAssumption DEF TypeOK

LEMMA TakenFits ==
  ASSUME TypeOK, tasks # << >>
  PROVE  Tail(tasks) \in Seq(Calls) /\ Len(Tail(tasks)) <= MaxTasks
BY ClientAssumption DEF TypeOK

\* A connect of a closed channel, from a posted call, the application or the retry
\* timer.  An immediate success needs that the timeout is off: the helpers are not
\* bound yet (a build that asserts), or there is no such success.
LEMMA ConnectDueKeepsStory ==
  ASSUME ResultStopsTimeout, IInv, Due, ConnectDue
  PROVE  Consistent' /\ NoSocketLeaks' /\ ToldTheTruth' /\ NoLateEvent' /\ TimeoutIsHarmless'
<1> USE DEF IInv, TypeOK, Consistent, NoSocketLeaks, ToldTheTruth, NoLateEvent, TimeoutIsHarmless
<1>1. CASE Abort("rebind")
  BY <1>1 DEF Abort, sockVars
<1>2. CASE (CreateFails \/ ConnectFails) /\ bound' = TRUE /\ UNCHANGED failure
  BY <1>2 DEF CreateFails, ConnectFails, sockVars
<1>3. ASSUME NEW s \in Sockets \ sockets, ConnectAtOnce(s), bound => ~config.asserts, UNCHANGED failure
      PROVE  Consistent' /\ NoSocketLeaks' /\ ToldTheTruth' /\ NoLateEvent' /\ TimeoutIsHarmless'
  <2>1. config.asserts \/ ~config.immediate
    BY DEF ResultStopsTimeout
  <2>2. ~timeoutOn
    BY <1>3, <2>1 DEF ConnectAtOnce
  <2> QED
    BY <1>3, <2>2, ClientAssumption DEF ConnectAtOnce, Establish, Due
<1>4. ASSUME NEW s \in Sockets \ sockets, ConnectWaits(s), bound' = TRUE, UNCHANGED failure
      PROVE  Consistent' /\ NoSocketLeaks' /\ ToldTheTruth' /\ NoLateEvent' /\ TimeoutIsHarmless'
  BY <1>4, ClientAssumption DEF ConnectWaits, Due
<1> QED
  BY <1>1, <1>2, <1>3, <1>4 DEF ConnectDue

LEMMA CloseBodyKeepsStory ==
  ASSUME IInv, CloseBody
  PROVE  Consistent' /\ NoSocketLeaks' /\ ToldTheTruth' /\ NoLateEvent' /\ TimeoutIsHarmless'
BY DEF IInv, TypeOK, Consistent, NoSocketLeaks, ToldTheTruth, NoLateEvent, TimeoutIsHarmless, CloseBody,
       ClosedBoth, Closed, Idle

\* Doing nothing, and ending the process with another assertion than the
\* handlers' on late events, change nothing of the story.
LEMMA StillKeepsStory ==
  ASSUME IInv, Ignore \/ Abort("send")
  PROVE  Consistent' /\ NoSocketLeaks' /\ ToldTheTruth' /\ NoLateEvent' /\ TimeoutIsHarmless'
BY DEF IInv, Consistent, NoSocketLeaks, ToldTheTruth, NoLateEvent, TimeoutIsHarmless, Ignore, Abort,
       sockVars

-----------------------------------------------------------------------------
(* Type correctness                                                        *)

LEMMA InitType == Init => TypeOK
<1> SUFFICES ASSUME Init
             PROVE  TypeOK
  OBVIOUS
<1>1. tasks \in Seq(Calls) /\ Len(tasks) = 0
  BY DEF Init
<1>2. Len(tasks) <= MaxTasks
  BY <1>1, ClientAssumption
<1> QED
  BY <1>1, <1>2 DEF Init, TypeOK, Holders

LEMMA TypeStep == TypeOK /\ [Next]_vars => TypeOK'
<1> SUFFICES ASSUME TypeOK, [Next]_vars
             PROVE  TypeOK'
  OBVIOUS
<1>0. config' = config
  BY DEF Next, vars
<1>1. CASE FirstConnect
  BY <1>0, <1>1, ConnectKeepsType DEF FirstConnect
<1>2. ASSUME NEW call \in Calls, Post(call)
      PROVE  TypeOK'
  BY <1>0, <1>2, PostedFits DEF Post, TypeOK, Ignore, sockVars
<1>3. CASE RunSend
  <2>1. tasks' \in Seq(Calls) /\ Len(tasks') <= MaxTasks
    BY <1>3, TakenFits DEF RunSend
  <2> QED
    BY ZenonT(60), <1>0, <1>3, <2>1, ClientAssumption
       DEF RunSend, SendAsync, TypeOK, Close, CloseBody, ClosedBoth, Closed, Idle, Ignore, Abort, sockVars,
           Holders
<1>4. CASE RunClose
  <2>1. tasks' \in Seq(Calls) /\ Len(tasks') <= MaxTasks
    BY <1>4, TakenFits DEF RunClose
  <2> QED
    BY <1>0, <1>4, <2>1, ClientAssumption
       DEF RunClose, TypeOK, Close, CloseBody, ClosedBoth, Closed, Idle, Ignore, sockVars, Holders
<1>5. CASE RunConnect
  <2>1. tasks' \in Seq(Calls) /\ Len(tasks') <= MaxTasks
    BY <1>5, TakenFits DEF RunConnect
  <2> QED
    BY ZenonT(60), <1>0, <1>5, <2>1, ClientAssumption, ConfigFields
       DEF RunConnect, TypeOK, Connect, ConnectDue, CreateFails, ConnectFails, ConnectAtOnce, ConnectWaits,
           Establish, TimeoutArmed, Due, Abort, Ignore, sockVars, Holders
<1>6. CASE ConnectResult
  BY ZenonT(60), <1>0, <1>6, ClientAssumption
     DEF ConnectResult, TypeOK, AsyncFails, AsyncConnects, Establish, Closed, TimeoutStopped, Abort, Ignore,
         sockVars, Holders
<1>7. CASE SockioEvent
  BY <1>0, <1>7, ClientAssumption
     DEF SockioEvent, TypeOK, CloseBody, ClosedBoth, Closed, Idle, Abort, Ignore, sockVars, Holders
<1>8. CASE TimeoutFires
  BY <1>0, <1>8 DEF TimeoutFires, TypeOK, Closed, Holders
<1>9. CASE RetryFires
  BY <1>0, <1>9, ConnectKeepsType DEF RetryFires, Connect, TypeOK, sockVars
<1>10. CASE UNCHANGED vars
  BY <1>10 DEF vars, TypeOK
<1> QED
  BY <1>1, <1>2, <1>3, <1>4, <1>5, <1>6, <1>7, <1>8, <1>9, <1>10 DEF Next

\* Every field has its type, and the queue holds no more than its bound.
THEOREM TypeCorrect == Spec => []TypeOK
<1>1. Init => TypeOK
  BY InitType
<1> QED
  BY <1>1, TypeStep, PTL DEF Spec

-----------------------------------------------------------------------------
(* The story the fields tell                                               *)

LEMMA InitStory == Init => IInv
BY InitType DEF Init, IInv, Consistent, NoSocketLeaks, ToldTheTruth, NoLateEvent, TimeoutIsHarmless

LEMMA StoryStep == ResultStopsTimeout /\ IInv /\ [Next]_vars => IInv'
<1> SUFFICES ASSUME ResultStopsTimeout, IInv, [Next]_vars
             PROVE  IInv'
  OBVIOUS
<1>0. TypeOK'
  BY TypeStep DEF IInv
<1> SUFFICES Consistent' /\ NoSocketLeaks' /\ ToldTheTruth' /\ NoLateEvent' /\ TimeoutIsHarmless'
  BY <1>0 DEF IInv
<1>1. CASE FirstConnect \/ RunConnect
  BY <1>1, ConnectDueKeepsStory, StillKeepsStory DEF FirstConnect, RunConnect, Connect
<1>2. ASSUME NEW call \in Calls, Post(call)
      PROVE  Consistent' /\ NoSocketLeaks' /\ ToldTheTruth' /\ NoLateEvent' /\ TimeoutIsHarmless'
  BY <1>2, StillKeepsStory DEF Post
<1>3. CASE RunSend \/ RunClose
  BY <1>3, CloseBodyKeepsStory, StillKeepsStory DEF RunSend, RunClose, SendAsync, Close
<1>4. CASE ConnectResult
  \* A helper that watches a connecting socket: the channel is connecting, so the
  \* handler's assertions hold.
  <2>1. objState = "prepare" /\ connState = "connecting" /\ connFd # NoSocket /\ fd = NoSocket
    BY <1>4 DEF ConnectResult, IInv, TypeOK, Consistent
  <2>2. UNCHANGED <<bound, failure>> /\ ~timeoutOn' /\ (AsyncFails \/ AsyncConnects)
    BY <1>4, <2>1 DEF ConnectResult, TimeoutStopped
  <2> QED
    BY <2>1, <2>2
       DEF AsyncFails, AsyncConnects, Establish, Closed, IInv, TypeOK, Consistent, NoSocketLeaks,
           ToldTheTruth, NoLateEvent, TimeoutIsHarmless
<1>5. CASE SockioEvent
  <2>1. objState = "normal" /\ connState = "connected"
    BY <1>5 DEF SockioEvent, IInv, TypeOK, Consistent
  <2> QED
    BY <1>5, <2>1, CloseBodyKeepsStory DEF SockioEvent
<1>6. CASE TimeoutFires
  <2>1. connState # "connected" /\ fd = NoSocket /\ objState # "normal" /\ ~up
    BY <1>6 DEF TimeoutFires, IInv, Consistent, ToldTheTruth, TimeoutIsHarmless
  <2> QED
    BY <1>6, <2>1
       DEF TimeoutFires, Closed, IInv, Consistent, NoSocketLeaks, ToldTheTruth, NoLateEvent,
           TimeoutIsHarmless
<1>7. CASE RetryFires
  <2>1. CASE Due
    BY <1>7, <2>1, ConnectDueKeepsStory DEF RetryFires
  <2>2. CASE ~Due
    BY <1>7, <2>2
       DEF RetryFires, sockVars, IInv, Consistent, NoSocketLeaks, ToldTheTruth, NoLateEvent,
           TimeoutIsHarmless
  <2> QED
    BY <2>1, <2>2
<1>8. CASE UNCHANGED vars
  BY <1>8 DEF vars, IInv, Consistent, NoSocketLeaks, ToldTheTruth, NoLateEvent, TimeoutIsHarmless
<1> QED
  BY <1>1, <1>2, <1>3, <1>4, <1>5, <1>6, <1>7, <1>8 DEF Next

LEMMA Story == ResultStopsTimeout /\ Spec => []IInv
<1>1. CASE ResultStopsTimeout
  <2>1. IInv /\ [Next]_vars => IInv'
    BY <1>1, StoryStep
  <2> QED
    BY <2>1, InitStory, PTL DEF Spec
<1>2. CASE ~ResultStopsTimeout
  BY <1>2
<1> QED
  BY <1>1, <1>2

\* The two state machines of the channel, its sockets and its helpers agree, unless
\* a build without assertions meets a connect that succeeds at once.
THEOREM ConsistentCorrect == ResultStopsTimeout /\ Spec => []Consistent
<1>1. IInv => Consistent
  BY DEF IInv
<1> QED
  BY <1>1, Story, PTL

\* No descriptor of the channel is lost, under the same condition.
THEOREM NoSocketLeaksCorrect == ResultStopsTimeout /\ Spec => []NoSocketLeaks
<1>1. IInv => NoSocketLeaks
  BY DEF IInv
<1> QED
  BY <1>1, Story, PTL

\* on_connected and on_closed alternate with the connection they speak of, under
\* the same condition.
THEOREM ToldTheTruthCorrect == ResultStopsTimeout /\ Spec => []ToldTheTruth
<1>1. IInv => ToldTheTruth
  BY DEF IInv
<1> QED
  BY <1>1, Story, PTL

\* No event of the poller meets a state its handler asserts against, under the same
\* condition.
THEOREM NoLateEventCorrect == ResultStopsTimeout /\ Spec => []NoLateEvent
<1>1. IInv => NoLateEvent
  BY DEF IInv
<1> QED
  BY <1>1, Story, PTL

-----------------------------------------------------------------------------
(* The connection attempt                                                   *)

\* With a connect timeout configured, a channel that waits for a connection has its timer
\* running: no close, retry or late result takes it away from an attempt that goes on.
ConnectingIsTimed == config.timeout /\ connState = "connecting" => timeoutOn

LEMMA TimedStep ==
  ASSUME ConnectingIsTimed, [Next]_vars
  PROVE  ConnectingIsTimed'
<1>0. config' = config
  BY DEF Next, vars
<1>1. ASSUME UNCHANGED <<connState, timeoutOn>>
      PROVE  ConnectingIsTimed'
  BY <1>0, <1>1 DEF ConnectingIsTimed
<1>2. ASSUME connState' # "connecting"
      PROVE  ConnectingIsTimed'
  BY <1>2 DEF ConnectingIsTimed
<1>3. ASSUME Connect \/ ConnectDue
      PROVE  ConnectingIsTimed'
  <2>1. ASSUME NEW s \in Sockets, ConnectWaits(s)
        PROVE  ConnectingIsTimed'
    BY <1>0, <2>1 DEF ConnectWaits, TimeoutArmed, ConnectingIsTimed
  <2>2. ASSUME NEW s \in Sockets, ConnectAtOnce(s)
        PROVE  ConnectingIsTimed'
    BY <1>2, <2>2 DEF ConnectAtOnce, Establish
  <2> QED
    BY <1>1, <1>3, <2>1, <2>2 DEF Connect, ConnectDue, Abort, Ignore, CreateFails, ConnectFails
<1>4. ASSUME CloseBody \/ Close
      PROVE  ConnectingIsTimed'
  BY <1>1, <1>2, <1>4 DEF Close, CloseBody, Ignore
<1>5. CASE FirstConnect \/ RunConnect \/ RetryFires
  BY <1>1, <1>3, <1>5 DEF FirstConnect, RunConnect, RetryFires
<1>6. CASE RunSend \/ RunClose \/ SockioEvent
  BY <1>1, <1>4, <1>6 DEF RunSend, RunClose, SockioEvent, SendAsync, Abort, Ignore
<1>7. CASE (\E call \in Calls : Post(call)) \/ UNCHANGED vars
  BY <1>1, <1>7 DEF Post, Ignore, vars
<1>8. CASE ConnectResult
  BY <1>1, <1>2, <1>8 DEF ConnectResult, AsyncFails, AsyncConnects, Establish, Abort, Ignore
<1>9. CASE TimeoutFires
  BY <1>2, <1>9 DEF TimeoutFires
<1> QED
  BY <1>5, <1>6, <1>7, <1>8, <1>9 DEF Next

\* The safety half of ConnectingEnds: what is left to fairness is that the loop's timers
\* tick (tcp_client_channel.cpp:310-317, 335-347).
THEOREM ConnectingIsTimedHolds == Spec => []ConnectingIsTimed
<1>1. Init => ConnectingIsTimed
  BY DEF Init, ConnectingIsTimed
<1> QED
  BY <1>1, TimedStep, PTL DEF Spec

-----------------------------------------------------------------------------
(* What the channel sends: TcpSend implements ByteStream                    *)
(*                                                                          *)
(* do_send reads from the argument of send_raw or from the thunk, and what  *)
(* it has not sent yet is put back or left there; the invariant says which  *)
(* of the two it is, so that the bytes in the kernel and the rest are the   *)
(* stream whatever step comes between.                                      *)

\* What do_send works on, for bytes of B.
Source(B) ==
  /\ writeThunk \in Seq(B) /\ src \in Seq(B) /\ kernel \in Seq(B)
  /\ realWrite \in 0 .. Len(src)
  /\ pc \in {"idle", "direct", "flush", "event", "last"}
  /\ open \in BOOLEAN /\ reset \in BOOLEAN
  /\ pc = "idle" => src = << >>
  /\ pc = "direct" => writeThunk = << >>
  /\ pc \in {"flush", "event", "last"} => src = writeThunk
  /\ pc # "idle" => open

\* The bytes not yet with the kernel.
Left == IF pc = "direct" THEN From(src, realWrite) ELSE From(writeThunk, realWrite)

LEMMA FromIs ==
  ASSUME NEW S, NEW s \in Seq(S), NEW r \in 0 .. Len(s)
  PROVE  /\ From(s, r) \in Seq(S)
         /\ From(s, 0) = s
         /\ \A n \in 0 .. Len(s) - r :
              /\ SubSeq(s, r + 1, r + n) \in Seq(S)
              /\ SubSeq(s, r + 1, r + n) \o From(s, r + n) = From(s, r)
<1>1. Len(s) \in Nat
  BY LenProperties
<1>2. \A i \in 1 .. Len(s) : s[i] \in S
  BY ElementOfSeq
<1>3. From(s, 0) = s
  BY SubSeqFull DEF From
<1>4. \A m \in 1 .. Len(s) + 1, n \in 0 .. Len(s) : SubSeq(s, m, n) \in Seq(S)
  <2> SUFFICES ASSUME NEW m \in 1 .. Len(s) + 1, NEW n \in 0 .. Len(s)
               PROVE  SubSeq(s, m, n) \in Seq(S)
    OBVIOUS
  <2>1. m \in Int /\ n \in Int /\ \A i \in m .. n : i \in 1 .. Len(s)
    BY <1>1
  <2> QED
    BY <1>2, <2>1, SubSeqProperties
<1>5. ASSUME NEW n \in 0 .. Len(s) - r
      PROVE  /\ SubSeq(s, r + 1, r + n) \in Seq(S)
             /\ SubSeq(s, r + 1, r + n) \o SubSeq(s, (r + n) + 1, Len(s)) = SubSeq(s, r + 1, Len(s))
  <2>1. r + 1 \in 1 .. Len(s) + 1 /\ r + n \in (r + 1) - 1 .. Len(s) /\ Len(s) \in r + n .. Len(s) /\ r + n \in 0 .. Len(s)
    BY <1>1
  <2>2. SubSeq(s, r + 1, r + n) \in Seq(S)
    BY <1>4, <2>1
  <2> QED
    BY <2>1, <2>2, ConcatAdjacentSubSeq
<1>6. SubSeq(s, r + 1, Len(s)) \in Seq(S)
  BY <1>1, <1>4
<1> QED
  BY <1>3, <1>5, <1>6 DEF From

LEMMA InitSource ==
  ASSUME NEW B, SendInit
  PROVE  Source(B)
<1>1. << >> \in Seq(B) /\ Len(<< >>) = 0
  BY EmptySeq
<1>2. writeThunk = << >> /\ src = << >> /\ kernel = << >> /\ pc = "idle" /\ open /\ reset = FALSE
  BY DEF SendInit
<1>3. realWrite \in 0 .. Len(src)
  BY <1>1 DEF SendInit
<1>4. open \in BOOLEAN /\ reset \in BOOLEAN
  BY DEF SendInit
<1> QED
  BY <1>1, <1>2, <1>3, <1>4 DEF Source

LEMMA LeftIs ==
  ASSUME NEW B, Source(B)
  PROVE  Left \in Seq(B) /\ (realWrite = 0 /\ pc # "direct" => Left = writeThunk)
<1>1. CASE pc = "direct"
  BY <1>1, FromIs DEF Source, Left
<1>2. CASE pc # "direct"
  <2>1. realWrite \in 0 .. Len(writeThunk)
    <3>1. CASE pc = "idle"
      <4>1. realWrite = 0 /\ Len(writeThunk) \in Nat
        BY <3>1, EmptySeq, LenProperties DEF Source
      <4> QED
        BY <4>1
    <3>2. CASE pc # "idle"
      BY <1>2, <3>2 DEF Source
    <3> QED
      BY <3>1, <3>2
  <2> QED
    BY <1>2, <2>1, FromIs DEF Source, Left
<1> QED
  BY <1>1, <1>2

\* The end of do_send keeps what is left, in the thunk.
LEMMA ReturnKeeps ==
  ASSUME NEW B, Source(B), Sending, Return
  PROVE  Source(B)' /\ Left' = Left /\ kernel' = kernel /\ reset' = reset /\ open /\ open' = (pc # "last")
<1>1. /\ writeThunk' = Left /\ pc' = "idle" /\ src' = << >> /\ realWrite' = 0
      /\ kernel' = kernel /\ reset' = reset /\ open' = (pc # "last") /\ open
  BY DEF Return, ThunkAfter, Left, Sending, Source
<1>2. Left \in Seq(B) /\ << >> \in Seq(B) /\ Len(<< >>) = 0
  BY LeftIs, EmptySeq
<1>3. Source(B)'
  BY <1>1, <1>2 DEF Source
<1>4. Left' = writeThunk'
  <2>1. From(writeThunk', 0) = writeThunk'
    <3>1. PICK s \in Seq(B) : s = writeThunk'
      BY <1>1, <1>2
    <3>2. Len(s) \in Nat
      BY LenProperties
    <3> QED
      BY <3>1, <3>2, FromIs DEF From
  <2> QED
    BY <1>1, <2>1 DEF Left, From
<1> QED
  BY <1>1, <1>3, <1>4

\* A call begins with all there is.
LEMMA BeginKeeps ==
  ASSUME NEW B, Source(B), pc = "idle", open, writeThunk' \in Seq(B), src' \in Seq(B), realWrite' = 0,
         UNCHANGED <<kernel, open, reset>>,
         \/ pc' = "idle" /\ src' = << >>
         \/ pc' = "direct" /\ writeThunk' = << >>
         \/ pc' \in {"flush", "event", "last"} /\ src' = writeThunk'
  PROVE  Source(B)' /\ Left = writeThunk /\ Left' = IF pc' = "direct" THEN src' ELSE writeThunk'
<1>1. realWrite = 0
  BY EmptySeq DEF Source
<1>2. Left = writeThunk
  BY <1>1, LeftIs
<1>3. realWrite' \in 0 .. Len(src')
  BY LenProperties
<1>4. Source(B)'
  BY <1>3 DEF Source
<1>5. ASSUME NEW s \in Seq(B)
      PROVE  SubSeq(s, 0 + 1, Len(s)) = s
  BY SubSeqFull
<1>6. Left' = IF pc' = "direct" THEN src' ELSE writeThunk'
  BY <1>5 DEF Left, From
<1> QED
  BY <1>2, <1>4, <1>6

\* The stream is what the kernel holds, and what is left; a reset ends it, and so does a
\* close, but for what the kernel has.
stream == Pending
flowing == open /\ ~reset

LEMMA StreamIs ==
  stream = IF reset THEN << >> ELSE IF open THEN kernel \o Left ELSE kernel
BY DEF stream, Pending, Left

LEMMA AcceptStep ==
  ASSUME NEW B, NEW p \in Packages, p \in Seq(B), Source(B), SendDirect(p) \/ SendBuffered(p)
  PROVE  Source(B)' /\ [Stream!Next]_<<stream, flowing>>
<1>1. /\ pc = "idle" /\ open /\ realWrite' = 0 /\ UNCHANGED <<kernel, open, reset>>
      /\ writeThunk \in Seq(B) /\ kernel \in Seq(B) /\ src = << >> /\ writeThunk \o p \in Seq(B)
  BY ConcatProperties DEF SendDirect, SendBuffered, Source
<1>2. << >> \in Seq(B)
  BY EmptySeq
<1>3. Source(B)' /\ Left = writeThunk /\ Left' = writeThunk \o p
  <2>1. CASE SendDirect(p)
    <3>1. writeThunk = << >> /\ writeThunk' = << >> /\ pc' = "direct" /\ src' = p
      BY <2>1 DEF SendDirect
    <3>2. Source(B)' /\ Left = writeThunk /\ Left' = p
      BY <1>1, <1>2, <3>1, BeginKeeps
    <3>3. << >> \o p = p
      BY ConcatEmptySeq
    <3> QED
      BY <3>1, <3>2, <3>3
  <2>2. CASE SendBuffered(p)
    <3>1. /\ writeThunk' = writeThunk \o p
          /\ \/ pc' = "idle" /\ src' = src
             \/ pc' = "flush" /\ src' = writeThunk \o p
      BY <2>2 DEF SendBuffered, Buffered
    <3>2. writeThunk' \in Seq(B) /\ src' \in Seq(B)
      BY <1>1, <1>2, <3>1
    <3>3. \/ pc' = "idle" /\ src' = << >>
          \/ pc' \in {"flush", "event", "last"} /\ src' = writeThunk'
      BY <1>1, <3>1
    <3>4. Source(B)' /\ Left = writeThunk /\ Left' = IF pc' = "direct" THEN src' ELSE writeThunk'
      BY <1>1, <3>2, <3>3, BeginKeeps
    <3> QED
      BY <3>1, <3>3, <3>4
  <2> QED
    BY <2>1, <2>2
<1>4. (kernel \o writeThunk) \o p = kernel \o (writeThunk \o p)
  BY <1>1, ConcatAssociative
<1>5. CASE reset
  <2>1. stream' = stream /\ flowing' = flowing
    BY <1>1, <1>5, StreamIs DEF stream, Pending, flowing
  <2> QED
    BY <1>3, <2>1
<1>6. CASE ~reset
  <2>1. stream = kernel \o writeThunk
    BY <1>1, <1>3, <1>6, StreamIs
  <2>2. stream' = kernel \o (writeThunk \o p)
    <3>1. stream' = kernel' \o Left'
      BY <1>1, <1>6 DEF stream, Pending, Left
    <3> QED
      BY <1>1, <1>3, <3>1
  <2>3. stream' = stream \o p /\ flowing /\ flowing' = flowing
    BY <1>1, <1>4, <1>6, <2>1, <2>2 DEF flowing
  <2>4. Stream!Accept(p)
    BY <2>3 DEF Stream!Accept, stream, flowing
  <2> QED
    BY <1>3, <2>4 DEF Stream!Next
<1> QED
  BY <1>5, <1>6

\* Reading the thunk, and handing bytes to the kernel, is nothing to the stream.
LEMMA QuietStep ==
  ASSUME NEW B, Source(B),
         WriteEvent \/ AfterRead \/ SendClose \/ KernelTakes
  PROVE  Source(B)' /\ stream' = stream /\ flowing' = flowing
<1>1. UNCHANGED <<writeThunk, open, reset>> /\ open
  BY DEF WriteEvent, AfterRead, SendClose, KernelTakes, Sending, Source
<1>2. ASSUME Source(B)', kernel' \o Left' = kernel \o Left
      PROVE  stream' = stream /\ flowing' = flowing
  <2>1. stream' = IF reset' THEN << >> ELSE IF open' THEN kernel' \o Left' ELSE kernel'
    BY DEF stream, Pending, Left
  <2> QED
    BY <1>1, <1>2, <2>1, StreamIs DEF flowing
<1>3. CASE WriteEvent \/ AfterRead \/ SendClose
  <2>1. /\ pc = "idle" /\ pc' \in {"event", "last"} /\ src' = writeThunk /\ realWrite' = 0
        /\ kernel' = kernel
    BY <1>3 DEF WriteEvent, AfterRead, SendClose
  <2>2. writeThunk' \in Seq(B) /\ src' \in Seq(B) /\ src' = writeThunk' /\ writeThunk' = writeThunk
    BY <1>1, <2>1 DEF Source
  <2>3. Source(B)' /\ Left = writeThunk /\ Left' = IF pc' = "direct" THEN src' ELSE writeThunk'
    BY <1>1, <2>1, <2>2, BeginKeeps
  <2>4. kernel' \o Left' = kernel \o Left
    BY <2>1, <2>2, <2>3
  <2> QED
    BY <1>2, <2>3, <2>4
<1>4. CASE KernelTakes
  <2>1. PICK n \in 1 .. Len(src) - realWrite :
          kernel' = kernel \o SubSeq(src, realWrite + 1, realWrite + n) /\ realWrite' = realWrite + n
    BY <1>4 DEF KernelTakes
  <2>2. pc # "idle" /\ UNCHANGED <<writeThunk, pc, src, open, reset>>
    BY <1>4 DEF KernelTakes, Sending
  <2>3. PICK r \in 0 .. Len(src) : r = realWrite
    BY DEF Source
  <2>4. Len(src) \in Nat /\ n \in 0 .. Len(src) - r /\ r + n \in 0 .. Len(src)
    BY <2>1, <2>3, LenProperties DEF Source
  <2>5. src \in Seq(B) /\ kernel \in Seq(B)
    BY DEF Source
  <2>6. /\ SubSeq(src, r + 1, r + n) \in Seq(B)
        /\ SubSeq(src, r + 1, r + n) \o From(src, r + n) = From(src, r)
        /\ From(src, r + n) \in Seq(B)
    BY ZenonT(60), <2>4, <2>5, FromIs
  <2>7. kernel' \in Seq(B) /\ kernel' \o From(src, r + n) = kernel \o From(src, r)
    <3>1. PICK t \in Seq(B) : t = SubSeq(src, r + 1, r + n)
      BY <2>6
    <3>2. PICK u \in Seq(B) : u = From(src, r + n)
      BY <2>6
    <3>3. kernel \o t \in Seq(B)
      BY <2>5, ConcatProperties
    <3>4. (kernel \o t) \o u = kernel \o (t \o u)
      BY SMTT(30), <2>5, ConcatAssociative
    <3>5. kernel' = kernel \o t
      BY <2>1, <2>3, <3>1
    <3>6. t \o u = From(src, r)
      BY <2>6, <3>1, <3>2
    <3>7. kernel' \o u = kernel \o From(src, r)
      BY <3>4, <3>5, <3>6
    <3> QED
      BY <3>2, <3>3, <3>5, <3>7
  <2>8. Source(B)'
    BY <2>1, <2>2, <2>3, <2>4, <2>7 DEF Source
  <2>9. Left = From(src, r) /\ Left' = From(src, r + n)
    BY <2>1, <2>2, <2>3 DEF Source, Left, From
  <2> QED
    BY <1>2, <2>7, <2>8, <2>9
<1> QED
  BY <1>3, <1>4

\* When do_send ends, nothing has happened to the stream, unless it was the last.
LEMMA EndStep ==
  ASSUME NEW B, Source(B), SentAll \/ WouldBlock \/ Failed
  PROVE  Source(B)' /\ [Stream!Next]_<<stream, flowing>>
<1>1. stream' = IF reset' THEN << >> ELSE IF open' THEN kernel' \o Left' ELSE kernel'
  BY DEF stream, Pending, Left
<1>2. CASE SentAll \/ WouldBlock
  <2>1. Source(B)' /\ Left' = Left /\ kernel' = kernel /\ reset' = reset /\ open /\ open' = (pc # "last")
    BY <1>2, ReturnKeeps DEF SentAll, WouldBlock
  <2>2. CASE reset \/ open'
    <3>1. stream' = stream /\ flowing' = flowing
      BY <1>1, <2>1, <2>2, StreamIs DEF flowing
    <3> QED
      BY <2>1, <3>1
  <2>3. CASE ~reset /\ ~open'
    <3>1. stream = kernel \o Left /\ stream' = kernel /\ flowing' = FALSE
      BY <1>1, <2>1, <2>3, StreamIs DEF flowing
    <3>2. kernel \in Seq(B) /\ Left \in Seq(B)
      BY LeftIs DEF Source
    <3>3. Len(kernel) \in Nat /\ Len(Left) \in Nat /\ Len(kernel \o Left) = Len(kernel) + Len(Left)
      BY <3>2, LenProperties, ConcatProperties
    <3>4. SubSeq(kernel \o Left, 1, Len(kernel)) = kernel
      <4>1. CASE Len(kernel) = 0
        <5>1. kernel = << >> /\ SubSeq(kernel \o Left, 1, 0) = << >>
          BY <3>2, <4>1, EmptySeq, SubSeqEmpty
        <5> QED
          BY <4>1, <5>1
      <4>2. CASE Len(kernel) # 0
        <5>1. 1 \in 1 .. Len(kernel) /\ Len(kernel) \in 1 .. Len(kernel)
          BY <3>3, <4>2
        <5>2. SubSeq(kernel \o Left, 1, Len(kernel)) = SubSeq(kernel, 1, Len(kernel))
          BY <3>2, <5>1, SubSeqOfConcat1
        <5> QED
          BY <3>2, <5>2, SubSeqFull
      <4> QED
        BY <4>1, <4>2
    <3>5. Len(kernel) \in 0 .. Len(stream) /\ stream' = SubSeq(stream, 1, Len(kernel))
      BY <3>1, <3>3, <3>4
    <3>6. Stream!End
      BY <3>1, <3>5 DEF Stream!End, stream, flowing
    <3> QED
      BY <2>1, <3>6 DEF Stream!Next
  <2> QED
    BY <2>1, <2>2, <2>3
<1>3. CASE Failed
  <2>1. /\ reset /\ reset' /\ pc' = "idle" /\ src' = << >> /\ realWrite' = 0 /\ UNCHANGED <<writeThunk, kernel>>
        /\ open' \in BOOLEAN
    BY <1>3 DEF Failed
  <2>2. << >> \in Seq(B) /\ Len(<< >>) = 0
    BY EmptySeq
  <2>3. Source(B)'
    BY <2>1, <2>2 DEF Source
  <2>4. stream' = stream /\ flowing' = flowing
    BY <1>1, <2>1, StreamIs DEF flowing
  <2> QED
    BY <2>3, <2>4
<1> QED
  BY <1>2, <1>3

LEMMA PeerStep ==
  ASSUME NEW B, Source(B), PeerTakes \/ PeerResets
  PROVE  Source(B)' /\ [Stream!Next]_<<stream, flowing>>
<1>1. UNCHANGED <<writeThunk, pc, src, realWrite, open>> /\ ~reset
  BY DEF PeerTakes, PeerResets
<1>2. Left' = Left
  BY <1>1 DEF Left, From
<1>3. stream' = IF reset' THEN << >> ELSE IF open' THEN kernel' \o Left' ELSE kernel'
  BY DEF stream, Pending, Left
<1>4. stream = IF open THEN kernel \o Left ELSE kernel
  BY <1>1, StreamIs
<1>5. kernel \in Seq(B) /\ Left \in Seq(B)
  BY LeftIs DEF Source
<1>6. CASE PeerTakes
  <2>1. kernel # << >> /\ kernel' = Tail(kernel) /\ reset' = reset
    BY <1>6 DEF PeerTakes
  <2>2. /\ kernel' \in Seq(B) /\ kernel \o Left # << >> /\ Tail(kernel \o Left) = Tail(kernel) \o Left
    <3>1. kernel \o Left \in Seq(B) /\ kernel \o Left # << >>
      BY <1>5, <2>1, ConcatProperties, ConcatEqualIffEmpty
    <3>2. Len(kernel) \in Nat \ {0} /\ Len(Left) \in Nat
      BY <1>5, <2>1, EmptySeq, LenProperties
    <3>3. /\ Tail(kernel) \in Seq(B) /\ Len(Tail(kernel)) = Len(kernel) - 1
          /\ \A i \in 1 .. Len(kernel) - 1 : Tail(kernel)[i] = kernel[i + 1]
      BY <1>5, <2>1, HeadTailProperties
    <3>4. /\ Len(kernel \o Left) = Len(kernel) + Len(Left)
          /\ \A i \in 1 .. Len(kernel) + Len(Left) :
               (kernel \o Left)[i] = IF i <= Len(kernel) THEN kernel[i] ELSE Left[i - Len(kernel)]
      BY <1>5, ConcatProperties
    <3>5. /\ Tail(kernel \o Left) \in Seq(B) /\ Len(Tail(kernel \o Left)) = Len(kernel \o Left) - 1
          /\ \A i \in 1 .. Len(Tail(kernel \o Left)) : Tail(kernel \o Left)[i] = (kernel \o Left)[i + 1]
      BY <3>1, HeadTailProperties
    <3>6. /\ Tail(kernel) \o Left \in Seq(B) /\ Len(Tail(kernel) \o Left) = Len(Tail(kernel)) + Len(Left)
          /\ \A i \in 1 .. Len(Tail(kernel)) + Len(Left) :
               (Tail(kernel) \o Left)[i] =
                 IF i <= Len(Tail(kernel)) THEN Tail(kernel)[i] ELSE Left[i - Len(Tail(kernel))]
      BY <1>5, <3>3, ConcatProperties
    <3>7. Len(Tail(kernel \o Left)) = Len(Tail(kernel) \o Left)
      BY <3>2, <3>3, <3>4, <3>5, <3>6
    <3>8. ASSUME NEW i \in 1 .. Len(Tail(kernel \o Left))
          PROVE  Tail(kernel \o Left)[i] = (Tail(kernel) \o Left)[i]
      <4>1. /\ i + 1 \in 1 .. Len(kernel) + Len(Left) /\ i \in 1 .. Len(Tail(kernel)) + Len(Left)
            /\ i + 1 <= Len(kernel) <=> i <= Len(kernel) - 1
            /\ (i + 1) - Len(kernel) = i - (Len(kernel) - 1)
        BY <3>2, <3>3, <3>4, <3>5
      <4>2. CASE i <= Len(kernel) - 1
        <5>1. i \in 1 .. Len(kernel) - 1
          BY <3>2, <4>1, <4>2
        <5> QED
          BY <3>3, <3>4, <3>5, <3>6, <4>1, <4>2, <5>1
      <4>3. CASE ~(i <= Len(kernel) - 1)
        BY <3>3, <3>4, <3>5, <3>6, <4>1, <4>3
      <4> QED
        BY <4>2, <4>3
    <3>9. Tail(kernel \o Left) = Tail(kernel) \o Left
      BY <3>5, <3>6, <3>7, <3>8, SeqEqual
    <3> QED
      BY <2>1, <3>1, <3>3, <3>9
  <2>3. Source(B)'
    BY <1>1, <2>1, <2>2 DEF Source
  <2>4. stream # << >> /\ stream' = Tail(stream) /\ flowing' = flowing
    BY <1>1, <1>2, <1>3, <1>4, <2>1, <2>2 DEF flowing
  <2>5. Stream!Take
    BY <2>4 DEF Stream!Take, stream, flowing
  <2> QED
    BY <2>3, <2>5 DEF Stream!Next
<1>7. CASE PeerResets
  <2>1. reset' = TRUE /\ kernel' = << >>
    BY <1>7 DEF PeerResets
  <2>2. << >> \in Seq(B)
    BY EmptySeq
  <2>3. Source(B)'
    BY <1>1, <2>1, <2>2 DEF Source
  <2>4. stream \in Seq(B)
    BY <1>4, <1>5, ConcatProperties
  <2>5. 0 \in 0 .. Len(stream) /\ stream' = SubSeq(stream, 1, 0) /\ flowing' = FALSE
    BY <1>3, <2>1, <2>4, LenProperties, SubSeqEmpty DEF flowing
  <2>6. Stream!End
    BY <2>5 DEF Stream!End, stream, flowing
  <2> QED
    BY <2>3, <2>6 DEF Stream!Next
<1> QED
  BY <1>6, <1>7

\* Whatever the kernel takes of each ::send, and whenever events, calls and the peer come
\* between: the bytes of the packages reach the peer in order, none lost and none twice,
\* until the channel is closed or reset (tcp_channel_base.cpp:22-135).
THEOREM SendingIsAStream == SendSpec => ImplementsStream
<1>1. SendInit => Source(Bytes)
  BY InitSource
<1>2. SendInit => Stream!Init
  <2> SUFFICES ASSUME SendInit
               PROVE  stream = << >> /\ flowing = TRUE
    BY DEF Stream!Init, stream, flowing
  <2>1. Source(Bytes) /\ kernel = << >> /\ writeThunk = << >> /\ pc = "idle" /\ realWrite = 0 /\ open = TRUE /\ reset = FALSE
    BY InitSource DEF SendInit
  <2>2. Left = << >>
    BY <2>1, LeftIs
  <2>3. << >> \o << >> = << >>
    BY EmptySeq, ConcatEmptySeq
  <2> QED
    BY <2>1, <2>2, <2>3, StreamIs DEF flowing
<1>3. Source(Bytes) /\ [SendNext]_sendVars => Source(Bytes)' /\ [Stream!Next]_<<stream, flowing>>
  <2> SUFFICES ASSUME Source(Bytes), [SendNext]_sendVars
               PROVE  Source(Bytes)' /\ [Stream!Next]_<<stream, flowing>>
    OBVIOUS
  <2>1. ASSUME NEW p \in Packages, SendDirect(p) \/ SendBuffered(p)
        PROVE  Source(Bytes)' /\ [Stream!Next]_<<stream, flowing>>
    <3>1. p \in Seq(Bytes)
      BY SendAssumption
    <3> QED
      BY <2>1, <3>1, AcceptStep
  <2>2. CASE WriteEvent \/ AfterRead \/ SendClose \/ KernelTakes
    BY <2>2, QuietStep
  <2>3. CASE SentAll \/ WouldBlock \/ Failed
    BY <2>3, EndStep
  <2>4. CASE PeerTakes \/ PeerResets
    BY <2>4, PeerStep
  <2>5. CASE UNCHANGED sendVars
    BY <2>5 DEF sendVars, Source, stream, flowing, Pending, From
  <2> QED
    BY <2>1, <2>2, <2>3, <2>4, <2>5 DEF SendNext
<1>4. [Stream!Next]_<<stream, flowing>> => [Stream!Next]_<<Pending, open /\ ~reset>>
  BY DEF stream, flowing
<1> QED
  BY <1>1, <1>2, <1>3, <1>4, PTL DEF SendSpec, ImplementsStream, Stream!Spec

\* The thunk has bytes only while a write event is to come, or do_send has them in hand.
SendInv ==
  /\ Source(Bytes)
  /\ nospace \in BOOLEAN /\ edge \in BOOLEAN /\ sent \in 0 .. MaxSent
  /\ BufferedIsArmed

LEMMA SourceStep ==
  ASSUME Source(Bytes), [SendNext]_sendVars
  PROVE  Source(Bytes)'
<1>1. ASSUME NEW p \in Packages, SendDirect(p) \/ SendBuffered(p)
      PROVE  Source(Bytes)'
  <2>1. p \in Seq(Bytes)
    BY SendAssumption
  <2> QED
    BY <1>1, <2>1, AcceptStep
<1>2. CASE UNCHANGED sendVars
  BY <1>2 DEF sendVars, Source
<1> QED
  BY <1>1, <1>2, QuietStep, EndStep, PeerStep DEF SendNext

LEMMA SendTypesStep ==
  ASSUME SendInv, [SendNext]_sendVars
  PROVE  nospace' \in BOOLEAN /\ edge' \in BOOLEAN /\ sent' \in 0 .. MaxSent
<1>1. nospace \in BOOLEAN /\ edge \in BOOLEAN
  BY DEF SendInv
<1>2. open \in BOOLEAN
  BY DEF SendInv, Source
<1>3. nospace' \in BOOLEAN
  BY <1>1, <1>2
     DEF SendNext, SendDirect, SendBuffered, WriteEvent, AfterRead, SendClose, KernelTakes, SentAll, WouldBlock,
         Failed, PeerTakes, PeerResets, sendVars
<1>4. edge' \in BOOLEAN
  BY <1>1, <1>2
     DEF SendNext, SendDirect, SendBuffered, WriteEvent, AfterRead, SendClose, KernelTakes, SentAll, WouldBlock,
         Failed, PeerTakes, PeerResets, sendVars
<1>5. sent' \in 0 .. MaxSent
  <2>1. sent \in 0 .. MaxSent /\ MaxSent \in Nat
    BY SendAssumption DEF SendInv
  <2>2. sent' = sent \/ (sent < MaxSent /\ sent' = sent + 1)
    BY DEF SendNext, SendDirect, SendBuffered, WriteEvent, AfterRead, SendClose, KernelTakes, SentAll, WouldBlock,
           Failed, PeerTakes, PeerResets, Return, sendVars
  <2> QED
    BY <2>1, <2>2
<1> QED
  BY <1>3, <1>4, <1>5

LEMMA ArmedStep ==
  ASSUME SendInv, [SendNext]_sendVars
  PROVE  BufferedIsArmed'
<1> USE DEF BufferedIsArmed
<1>1. CASE pc' # "idle" \/ ~open' \/ reset' \/ writeThunk' = << >>
  BY <1>1
<1>2. CASE UNCHANGED <<pc, open, reset, writeThunk, kernel, nospace, edge>>
  BY <1>2 DEF SendInv
<1>3. CASE \E p \in Packages : SendBuffered(p)
  <2>1. pc = "idle" /\ open /\ writeThunk # << >> /\ UNCHANGED <<open, reset, kernel, nospace, edge>>
    BY <1>3 DEF SendBuffered
  <2> QED
    BY <2>1 DEF SendInv
<1>4. CASE SentAll
  <2>1. realWrite = Len(src) /\ pc # "idle" /\ writeThunk' = Left
    BY <1>4 DEF SentAll, Return, ThunkAfter, Left, Sending
  <2>2. src \in Seq(Bytes) /\ Left = From(src, realWrite)
    BY <2>1 DEF SendInv, Source, Left
  <2>3. Len(src) \in Nat
    BY <2>2, LenProperties
  <2>4. SubSeq(src, Len(src) + 1, Len(src)) = << >>
    BY <2>2, <2>3, SubSeqEmpty
  <2> QED
    BY <1>1, <2>1, <2>2, <2>4 DEF From
<1>5. CASE WouldBlock
  \* The buffer was found full, so an edge follows when the peer has taken a byte of it.
  <2>1. Len(kernel) = Room /\ kernel' = kernel
    BY <1>5 DEF WouldBlock, Full, Return
  <2>2. nospace'
    BY <1>5, <2>1 DEF WouldBlock
  <2>3. kernel # << >>
    <3>1. Len(<< >>) = 0 /\ Room # 0
      BY SendAssumption, EmptySeq
    <3> QED
      BY <2>1, <3>1
  <2> QED
    BY <2>1, <2>2, <2>3
<1>6. CASE PeerTakes
  <2>1. kernel # << >> /\ ~reset /\ UNCHANGED <<writeThunk, pc, open, reset>>
    BY <1>6 DEF PeerTakes
  <2>2. edge \/ (nospace /\ open) => edge'
    BY <1>6 DEF PeerTakes
  <2>3. pc = "idle" /\ open /\ ~reset /\ writeThunk # << >> => edge \/ nospace
    BY DEF SendInv
  <2>4. pc' = "idle" /\ open' /\ ~reset' /\ writeThunk' # << >> => edge'
    BY <2>1, <2>2, <2>3
  <2> QED
    BY <2>4
<1>7. CASE Failed \/ PeerResets
  <2>1. CASE Failed
    <3>1. reset /\ reset' = reset
      BY Zenon, <2>1 DEF Failed
    <3> QED
      BY <1>1, <3>1
  <2>2. CASE PeerResets
    <3>1. reset' = TRUE
      BY <2>2 DEF PeerResets
    <3> QED
      BY <1>1, <3>1
  <2> QED
    BY <1>7, <2>1, <2>2
<1>8. CASE (\E p \in Packages : SendDirect(p)) \/ WriteEvent \/ AfterRead \/ SendClose
  BY <1>1, <1>8 DEF SendDirect, WriteEvent, AfterRead, SendClose
<1>9. CASE KernelTakes
  BY <1>1, <1>9 DEF KernelTakes, Sending
<1> QED
  BY <1>2, <1>3, <1>4, <1>5, <1>6, <1>7, <1>8, <1>9 DEF SendNext, sendVars

LEMMA SendInvHolds == SendSpec => []SendInv
<1>1. SendInit => SendInv
  <2> SUFFICES ASSUME SendInit
               PROVE  SendInv
    OBVIOUS
  <2>1. nospace = FALSE /\ edge = TRUE /\ sent = 0 /\ writeThunk = << >>
    BY DEF SendInit
  <2>2. sent \in 0 .. MaxSent
    BY <2>1, SendAssumption
  <2> QED
    BY <2>1, <2>2, InitSource DEF SendInv, BufferedIsArmed
<1>2. SendInv /\ [SendNext]_sendVars => SendInv'
  <2> SUFFICES ASSUME SendInv, [SendNext]_sendVars
               PROVE  SendInv'
    OBVIOUS
  <2>1. Source(Bytes)'
    BY SourceStep DEF SendInv
  <2> QED
    BY <2>1, SendTypesStep, ArmedStep DEF SendInv
<1> QED
  BY <1>1, <1>2, PTL DEF SendSpec

\* The safety half of Drains: a channel never rests with bytes in _write_thunk and no write
\* event to come.  An edge is consumed only by a do_send that sends all there is, or fills
\* the kernel's buffer, which arms the next (tcp_channel_base.cpp:65-88,
\* epoll_imp.cpp:106-109).
THEOREM SendingIsArmed == SendSpec => []BufferedIsArmed
<1>1. SendInv => BufferedIsArmed
  BY DEF SendInv
<1> QED
  BY <1>1, SendInvHolds, PTL

\* The thunk and the kernel hold nothing but bytes of the packages that were sent, and
\* do_send never counts more than it was given, whatever ::send takes.
THEOREM SendingTypes == SendSpec => []SendTypeOK
<1>1. SendInv => SendTypeOK
  BY DEF SendInv, Source, SendTypeOK
<1> QED
  BY <1>1, SendInvHolds, PTL

-----------------------------------------------------------------------------
(* What the channel receives                                                *)
(*                                                                          *)
(* Where a package begins is a sum over the lengths of those before; what   *)
(* is needed of it is proved for the least package of which it would fail.  *)
(* The invariant of a polite peer says that the buffer is the run of bytes  *)
(* from the package that is expected to the last one read, and that when    *)
(* do_recv rests or begins that run is empty.                               *)

Places == 1 .. Len(Lengths) + 1

\* First numbers are what the recursive definition says.
Sums(f, m) == f \in [1 .. m -> Nat] /\ f[1] = 1 /\ \A k \in 2 .. m : f[k] = f[k - 1] + Lengths[k - 1]

LEMMA LeastOf ==
  ASSUME NEW S, S \subseteq Nat, S # {}
  PROVE  \E m \in S : \A n \in S : m <= n
<1>1. PICK m \in S : \A n \in S : ~(<<n, m>> \in OpToRel(<, Nat))
  <2>1. IsWellFoundedOn(OpToRel(<, Nat), Nat)
    BY Zenon, NatLessThanWellFounded
  <2> DEFINE R == OpToRel(<, Nat)
  <2>2. IsWellFoundedOn(R, Nat)
    BY <2>1
  <2> HIDE DEF R
  <2>3. \E m \in S : \A n \in S : ~(<<n, m>> \in R)
    BY Zenon, <2>2, WFMin
  <2> QED
    BY Zenon, <2>3 DEF R
<1>2. ASSUME NEW n \in S
      PROVE  m <= n
  <2>1. ~(<<n, m>> \in OpToRel(<, Nat))
    BY <1>1
  <2>2. ~(n < m)
    <3> SUFFICES ASSUME n < m PROVE FALSE
      OBVIOUS
    <3>1. \E x \in Nat, y \in Nat : <<n, m>> = <<x, y>> /\ x < y
      OBVIOUS
    <3> QED
      BY <2>1, <3>1 DEF OpToRel
  <2> QED
    BY <2>2
<1> QED
  BY <1>2

LEMMA LengthsAre ==
  Len(Lengths) \in Nat /\ \A k \in 1 .. Len(Lengths) : Lengths[k] \in Nat \ {0}
BY RecvAssumption

LEMMA RecvSizes ==
  RecvSize \in Nat \ {0} /\ Polite \subseteq BOOLEAN /\ Junk \notin Nat
BY RecvAssumption

LEMMA SumsExist ==
  \A m \in Places : \E f : Sums(f, m)
<1> DEFINE S == {m \in Places : ~ \E f : Sums(f, m)}
<1> SUFFICES S = {}
  OBVIOUS
<1> SUFFICES ASSUME S # {}
             PROVE  FALSE
  OBVIOUS
<1>1. S \subseteq Nat
  BY LengthsAre DEF Places
<1> HIDE DEF S
<1>2. PICK m \in S : \A n \in S : m <= n
  BY <1>1, LeastOf
<1>3. m \in Places /\ ~ \E f : Sums(f, m)
  BY <1>2 DEF S
<1>4. CASE m = 1
  <2>1. Sums([i \in 1 .. 1 |-> 1], 1)
    BY DEF Sums
  <2> QED
    BY <1>3, <1>4, <2>1
<1>5. CASE m # 1
  <2>1. m - 1 \in Places /\ m \in Nat /\ m >= 2 /\ m - 1 < m
    BY <1>3, <1>5, LengthsAre DEF Places
  <2>2. m - 1 \notin S
    BY <1>1, <1>2, <2>1
  <2>3. PICK f : Sums(f, m - 1)
    BY <2>1, <2>2 DEF S
  <2> DEFINE g == [i \in 1 .. m |-> IF i = m THEN f[m - 1] + Lengths[m - 1] ELSE f[i]]
  <2>4. f[m - 1] + Lengths[m - 1] \in Nat
    BY <1>3, <2>1, <2>3, LengthsAre DEF Sums, Places
  <2>5. g \in [1 .. m -> Nat]
    BY <2>1, <2>3, <2>4 DEF Sums
  <2>6. g[1] = 1
    BY <2>1, <2>3 DEF Sums
  <2>7. ASSUME NEW k \in 2 .. m
        PROVE  g[k] = g[k - 1] + Lengths[k - 1]
    <3>1. k - 1 \in 1 .. m /\ k - 1 # m /\ k \in 1 .. m
      BY <2>1
    <3>2. g[k - 1] = f[k - 1]
      BY <3>1
    <3>3. CASE k = m
      BY <3>1, <3>2, <3>3
    <3>4. CASE k # m
      <4>1. k \in 2 .. m - 1
        BY <2>1, <3>4
      <4> QED
        BY <2>3, <3>1, <3>2, <3>4, <4>1 DEF Sums
    <3> QED
      BY <3>3, <3>4
  <2>8. Sums(g, m)
    BY <2>5, <2>6, <2>7 DEF Sums
  <2> QED
    BY <1>3, <2>8
<1> QED
  BY <1>4, <1>5

LEMMA FirstIs ==
  Sums(First, Len(Lengths) + 1)
<1> DEFINE n == Len(Lengths) + 1
<1>1. n \in Places /\ n \in Nat
  BY LengthsAre DEF Places
<1>2. PICK f : Sums(f, n)
  BY <1>1, SumsExist
<1>3. f = [k \in 1 .. n |-> IF k = 1 THEN 1 ELSE f[k - 1] + Lengths[k - 1]]
  <2>1. ASSUME NEW k \in 1 .. n
        PROVE  f[k] = IF k = 1 THEN 1 ELSE f[k - 1] + Lengths[k - 1]
    <3>1. k # 1 => k \in 2 .. n
      BY <1>1
    <3> QED
      BY <1>2, <3>1 DEF Sums
  <2> QED
    BY <1>2, <2>1 DEF Sums
<1>4. First = [k \in 1 .. n |-> IF k = 1 THEN 1 ELSE First[k - 1] + Lengths[k - 1]]
  BY <1>3 DEF First
<1>5. ASSUME NEW k \in 1 .. n
      PROVE  First[k] = f[k]
  <2> DEFINE S == {i \in 1 .. n : First[i] # f[i]}
  <2>1. SUFFICES ASSUME S # {}
                 PROVE  FALSE
    OBVIOUS
  <2>2. S \subseteq Nat
    BY <1>1
  <2> HIDE DEF S
  <2>3. PICK m \in S : \A i \in S : m <= i
    BY <2>1, <2>2, LeastOf
  <2>4. m \in 1 .. n /\ First[m] # f[m]
    BY <2>3 DEF S
  <2>5. First[m] = (IF m = 1 THEN 1 ELSE First[m - 1] + Lengths[m - 1])
    BY <1>4, <2>4
  <2>6. f[m] = (IF m = 1 THEN 1 ELSE f[m - 1] + Lengths[m - 1])
    BY <1>3, <2>4
  <2>7. m # 1
    BY <2>4, <2>5, <2>6
  <2>8. m - 1 \in 1 .. n /\ m - 1 < m
    BY <1>1, <2>4, <2>7
  <2>9. m - 1 \notin S
    BY <2>2, <2>3, <2>8
  <2>10. First[m - 1] = f[m - 1]
    BY <2>8, <2>9 DEF S
  <2> QED
    BY <2>4, <2>5, <2>6, <2>10
<1>6. First = f
  <2>1. First = [k \in 1 .. n |-> First[k]]
    BY <1>4
  <2>2. f = [k \in 1 .. n |-> f[k]]
    BY <1>2 DEF Sums
  <2> QED
    BY <1>5, <2>1, <2>2
<1> QED
  BY <1>2, <1>6

\* Packages begin where the last one ended, one behind the other.
LEMMA FirstGrows ==
  /\ \A k \in Places : First[k] \in Nat \ {0}
  /\ \A k \in 1 .. Len(Lengths) : k \in Places /\ k + 1 \in Places
     /\ First[k + 1] = First[k] + Lengths[k]
  /\ \A j, k \in Places : j < k => First[j] < First[k]
<1>1. Len(Lengths) \in Nat /\ Places \subseteq Nat \ {0}
  BY LengthsAre DEF Places
<1>2. First[1] = 1 /\ \A k \in 2 .. Len(Lengths) + 1 : First[k] = First[k - 1] + Lengths[k - 1]
  BY FirstIs DEF Sums
<1>3. ASSUME NEW k \in 1 .. Len(Lengths)
      PROVE  k \in Places /\ k + 1 \in Places /\ First[k + 1] = First[k] + Lengths[k]
  <2>1. k + 1 \in 2 .. Len(Lengths) + 1 /\ (k + 1) - 1 = k
    BY <1>1
  <2> QED
    BY <1>1, <1>2, <2>1 DEF Places
<1>4. ASSUME NEW k \in Places
      PROVE  First[k] \in Nat
  BY <1>1, FirstIs DEF Sums, Places
<1>5. ASSUME NEW j \in Places, NEW k \in Places, j < k
      PROVE  First[j] < First[k]
  <2> DEFINE S == {i \in Places : j < i /\ ~(First[j] < First[i])}
  <2> SUFFICES ASSUME S # {}
               PROVE  FALSE
    BY <1>5
  <2>1. S \subseteq Nat
    BY <1>1
  <2> HIDE DEF S
  <2>2. PICK m \in S : \A i \in S : m <= i
    BY <2>1, LeastOf
  <2>3. m \in Places /\ j < m /\ ~(First[j] < First[m])
    BY <2>2 DEF S
  <2>4. m - 1 \in 1 .. Len(Lengths) /\ m - 1 \in Places /\ (m - 1) + 1 = m /\ m - 1 < m /\ m - 1 \in Nat
    BY <1>1, <2>3 DEF Places
  <2>5. First[m] = First[m - 1] + Lengths[m - 1] /\ Lengths[m - 1] \in Nat \ {0}
    BY <1>3, <2>4, LengthsAre
  <2>6. CASE m - 1 = j
    BY <1>4, <2>3, <2>5, <2>6
  <2>7. CASE m - 1 # j
    <3>1. j < m - 1
      BY <1>1, <2>3, <2>4, <2>7
    <3>2. m - 1 \notin S
      BY <2>1, <2>2, <2>4
    <3>3. First[j] < First[m - 1]
      BY <2>4, <3>1, <3>2 DEF S
    <3> QED
      BY <1>4, <2>3, <2>4, <2>5, <3>3
  <2> QED
    BY <2>6, <2>7
<1>6. ASSUME NEW k \in Places
      PROVE  First[k] # 0
  <2>1. 1 \in Places /\ (k = 1 \/ 1 < k)
    BY <1>1 DEF Places
  <2> QED
    BY <1>2, <1>4, <1>5, <2>1
<1> QED
  BY <1>3, <1>4, <1>5, <1>6

Place(b) == \E k \in Places : b = First[k]

\* What begins with the first byte of a package and ends with the last one of a package
\* begins with a whole package.
LEMMA HeadIs ==
  ASSUME NEW k \in Places, NEW b, Place(b), First[k] < b
  PROVE  /\ k \in 1 .. Len(Lengths) /\ k + 1 \in Places /\ First[k] \in Heads
            /\ PackageFrom(First[k]) = k
         /\ First[k + 1] = First[k] + Lengths[k] /\ First[k + 1] <= b
         /\ First[k] \in Nat \ {0} /\ First[k + 1] \in Nat \ {0} /\ Lengths[k] \in Nat \ {0} /\ b \in Nat
<1>1. Len(Lengths) \in Nat /\ Places \subseteq Nat \ {0}
  BY LengthsAre DEF Places
<1>2. PICK m \in Places : b = First[m]
  BY DEF Place
<1>3. First[k] \in Nat \ {0} /\ First[m] \in Nat \ {0}
  BY FirstGrows
<1>4. k < m
  <2>1. m = k \/ m < k \/ k < m
    BY <1>1
  <2>2. CASE m = k
    BY <1>2, <1>3, <2>2
  <2>3. CASE m < k
    <3>1. First[m] < First[k]
      BY <2>3, FirstGrows
    <3> QED
      BY <1>2, <1>3, <3>1
  <2> QED
    BY <2>1, <2>2, <2>3
<1>5. k \in 1 .. Len(Lengths)
  BY <1>1, <1>4 DEF Places
<1>6. k + 1 \in Places /\ First[k + 1] = First[k] + Lengths[k]
  BY <1>5, FirstGrows
<1>7. First[k + 1] <= First[m] /\ First[k + 1] \in Nat \ {0}
  <2>1. First[k + 1] \in Nat \ {0}
    BY <1>6, FirstGrows
  <2>2. k + 1 = m \/ k + 1 < m
    BY <1>1, <1>4
  <2>3. k + 1 < m => First[k + 1] < First[m]
    BY <1>6, FirstGrows
  <2> QED
    BY <1>3, <2>1, <2>2, <2>3
<1>8. First[k] \in Heads
  BY <1>5 DEF Heads
<1>9. \A j \in 1 .. Len(Lengths) : First[j] = First[k] => j = k
  <2> SUFFICES ASSUME NEW j \in 1 .. Len(Lengths), j # k
               PROVE  First[j] # First[k]
    OBVIOUS
  <2>1. j \in Places /\ (j < k \/ k < j)
    BY <1>1, FirstGrows
  <2>2. (j < k => First[j] < First[k]) /\ (k < j => First[k] < First[j]) /\ First[j] \in Nat
    BY <2>1, FirstGrows
  <2> QED
    BY <1>3, <2>1, <2>2
<1>10. PackageFrom(First[k]) = k
  BY <1>5, <1>9 DEF PackageFrom
<1>11. Lengths[k] \in Nat \ {0}
  BY <1>5, LengthsAre
<1> QED
  BY <1>2, <1>3, <1>5, <1>6, <1>7, <1>8, <1>10, <1>11

-----------------------------------------------------------------------------
(* The inductive invariant of a polite peer                                *)

\* The bytes from a to before b.
Run(a, b) == [i \in 1 .. b - a |-> a + i - 1]

\* The buffer holds what has been read and not been handed over.
Whole == expect \in Places /\ First[expect] <= taken + 1 /\ buf = Run(First[expect], taken + 1)

\* Nothing that has been read waits.
HandedOver == First[expect] = taken + 1

Counts == arrived \in Nat /\ taken \in Nat /\ realRead \in Nat /\ size \in Nat

\* What the peer and the kernel do: whole packages, and no more than one ::recv takes.
Peer ==
  /\ Place(taken + 1) /\ Place(arrived + 1)
  /\ taken <= arrived /\ arrived - taken <= RecvSize
  /\ broken => taken = arrived

\* do_recv reads nothing but at once all there is.
Reading ==
  /\ at \in {"recv", "split", "pkg"} => normal
  /\ at \in {"split", "pkg", "finish"} => taken = arrived
  /\ at = "recv" /\ realRead > 0 => taken = arrived
  /\ at = "idle" /\ normal /\ ~readable => taken = arrived

\* The connection can still bring something to on_recv_buff.
Useful == normal /\ (at \in {"idle", "recv"} => ~broken)

Handing ==
  /\ Useful => Whole
  /\ Useful /\ (at \in {"idle", "finish"} \/ (at = "recv" /\ realRead = 0)) => HandedOver
  /\ at = "pkg" => expect \in 1 .. Len(Lengths) /\ package = Package(expect) /\ buf # << >>

RecvInv == polite => Counts /\ Peer /\ Reading /\ Handing

LEMMA RunIs ==
  ASSUME NEW a \in Nat, NEW b \in Nat, a <= b
  PROVE  /\ Run(a, b) \in Seq(Nat) /\ Len(Run(a, b)) = b - a /\ DOMAIN Run(a, b) = 1 .. b - a
         /\ \A i \in 1 .. b - a : Run(a, b)[i] = a + i - 1
         /\ a = b => Run(a, b) = << >>
         /\ Run(a, b) = << >> => a = b
<1>1. b - a \in Nat
  OBVIOUS
<1>2. \A i \in 1 .. b - a : a + i - 1 \in Nat
  OBVIOUS
<1>3. Run(a, b) \in Seq(Nat) /\ Len(Run(a, b)) = b - a
  BY <1>1, <1>2 DEF Run
<1>4. DOMAIN Run(a, b) = 1 .. b - a /\ \A i \in 1 .. b - a : Run(a, b)[i] = a + i - 1
  BY DEF Run
<1>5. << >> \in Seq(Nat) /\ Len(<< >>) = 0
  BY EmptySeq
<1>6. Len(Run(a, b)) = 0 => Run(a, b) = << >>
  BY <1>3
<1> QED
  BY <1>1, <1>3, <1>4, <1>5, <1>6

\* The n bytes from a.
Part(a, n) == [i \in 1 .. n |-> a + i - 1]

\* Of a run, what is in front of a place and what is behind it.
LEMMA RunCut ==
  ASSUME NEW a \in Nat, NEW b \in Nat, NEW n \in Nat, a + n <= b
  PROVE  /\ SubSeq(Run(a, b), 1, n) = Part(a, n)
         /\ SubSeq(Run(a, b), n + 1, Len(Run(a, b))) = Run(a + n, b)
<1> DEFINE r == Run(a, b)
<1>1. r \in Seq(Nat) /\ Len(r) = b - a /\ \A i \in 1 .. b - a : r[i] = a + i - 1
  BY RunIs
<1>2. Run(a + n, b) \in Seq(Nat) /\ Len(Run(a + n, b)) = b - (a + n)
      /\ \A i \in 1 .. b - (a + n) : Run(a + n, b)[i] = (a + n) + i - 1
  <2>1. a + n \in Nat
    OBVIOUS
  <2> QED
    BY <2>1, RunIs
<1> HIDE DEF r
<1>3. SubSeq(r, 1, n) = [i \in 1 .. n |-> r[i]]
  BY <1>1
<1>4. \A i \in 1 .. n : r[i] = a + i - 1
  BY <1>1
<1>5. SubSeq(r, n + 1, b - a) = [i \in 1 .. (b - a) - n |-> r[n + i]]
  BY <1>1
<1>6. \A i \in 1 .. (b - a) - n : r[n + i] = a + (n + i) - 1
  BY <1>1
<1>7. Run(a + n, b) = [i \in 1 .. (b - a) - n |-> (a + n) + i - 1]
  BY DEF Run
<1>8. SubSeq(r, n + 1, b - a) = Run(a + n, b)
  <2>1. (b - a) - n \in Nat /\ \A i \in 1 .. (b - a) - n : a + (n + i) - 1 = (a + n) + i - 1
    OBVIOUS
  <2>2. \A i \in 1 .. (b - a) - n : r[n + i] = (a + n) + i - 1
    BY <1>6, <2>1
  <2>3. [i \in 1 .. (b - a) - n |-> r[n + i]] = [i \in 1 .. (b - a) - n |-> (a + n) + i - 1]
    BY <2>2
  <2> QED
    BY <1>5, <1>7, <2>3
<1>9. [i \in 1 .. n |-> r[i]] = Part(a, n)
  BY <1>4 DEF Part
<1> QED
  BY <1>1, <1>3, <1>8, <1>9 DEF r

-----------------------------------------------------------------------------
LEMMA RecvInvStarts ==
  RecvInit => RecvInv
<1> SUFFICES ASSUME RecvInit
             PROVE  RecvInv
  OBVIOUS
<1>1. /\ arrived = 0 /\ taken = 0 /\ broken = FALSE /\ normal = TRUE /\ at = "idle" /\ buf = << >> /\ realRead = 0
      /\ size = 0 /\ expect = 1
  BY DEF RecvInit
<1>2. 1 \in Places /\ First[1] = 1
  BY LengthsAre, FirstIs DEF Places, Sums
<1>3. Place(1)
  BY <1>2 DEF Place
<1>4. Run(1, 1) = << >>
  BY RunIs
<1>5. Counts /\ Peer /\ Reading
  BY <1>1, <1>3, RecvSizes DEF Counts, Peer, Reading
<1>6. Handing
  BY <1>1, <1>2, <1>4 DEF Handing, Whole, HandedOver
<1> QED
  BY <1>5, <1>6 DEF RecvInv

\* What stands at the head of the buffer is the next package, whole.
LEMMA HeadOfBuffer ==
  ASSUME polite, RecvInv, Whole, at \in {"split", "pkg"}
  PROVE  /\ taken + 1 \in Nat /\ First[expect] \in Nat
         /\ buf = << >> => HandedOver
         /\ buf # << >> =>
              /\ expect \in 1 .. Len(Lengths) /\ expect + 1 \in Places
              /\ AtHead /\ PackageFrom(buf[1]) = expect
              /\ First[expect + 1] = First[expect] + Lengths[expect] /\ First[expect + 1] <= taken + 1
              /\ Lengths[expect] \in Nat \ {0} /\ Len(buf) = (taken + 1) - First[expect]
<1>1. Counts /\ Place(taken + 1) /\ expect \in Places /\ First[expect] <= taken + 1
        /\ buf = Run(First[expect], taken + 1)
  BY DEF RecvInv, Whole, Peer
<1>2. taken + 1 \in Nat /\ First[expect] \in Nat
  BY <1>1, FirstGrows DEF Counts
<1>3. buf = << >> => HandedOver
  BY <1>1, <1>2, RunIs DEF HandedOver
<1>4. ASSUME buf # << >>
      PROVE  First[expect] < taken + 1
  <2>1. First[expect] # taken + 1
    BY <1>1, <1>2, <1>4, RunIs
  <2> QED
    BY <1>1, <1>2, <2>1
<1>5. ASSUME First[expect] < taken + 1
      PROVE  Len(buf) = (taken + 1) - First[expect] /\ buf[1] = First[expect]
  <2>1. 1 \in 1 .. (taken + 1) - First[expect]
    BY <1>2, <1>5
  <2> DEFINE r == Run(First[expect], taken + 1)
  <2>2. Len(r) = (taken + 1) - First[expect]
          /\ \A i \in 1 .. (taken + 1) - First[expect] : r[i] = First[expect] + i - 1
    BY <1>1, <1>2, RunIs
  <2>3. buf = r
    BY <1>1
  <2> HIDE DEF r
  <2>4. buf[1] = First[expect] + 1 - 1
    BY <2>1, <2>2, <2>3
  <2>5. First[expect] + 1 - 1 = First[expect]
    BY <1>2
  <2> QED
    BY <1>2, <2>2, <2>3, <2>4, <2>5
<1> QED
  BY <1>1, <1>2, <1>3, <1>4, <1>5, HeadIs DEF AtHead

LEMMA TotalIs ==
  Total + 1 = First[Len(Lengths) + 1] /\ Total \in Nat /\ Place(Total + 1)
<1>1. Len(Lengths) + 1 \in Places
  BY LengthsAre DEF Places
<1>2. First[Len(Lengths) + 1] \in Nat \ {0}
  BY <1>1, FirstGrows
<1> QED
  BY <1>1, <1>2 DEF Total, Place

LEMMA PeerKeeps ==
  ASSUME polite, RecvInv, (\E n \in 1 .. Total : Arrive(n)) \/ PeerCloses
           \/ PeerBreaks
  PROVE  RecvInv'
<1>1. Counts /\ Peer /\ Reading /\ Handing
  BY DEF RecvInv
<1>2. UNCHANGED <<polite, taken, normal, at, buf, realRead, size, package, expect>> /\ readable' = TRUE
  BY DEF Arrive, PeerCloses, PeerBreaks
<1>3. Whole' = Whole /\ HandedOver' = HandedOver
  BY <1>2 DEF Whole, HandedOver
<1>4. Place(taken + 1)' = Place(taken + 1)
  BY <1>2 DEF Place
<1>5. ASSUME NEW n \in 1 .. Total, Arrive(n)
      PROVE  RecvInv'
  <2>1. at = "idle" /\ taken = arrived /\ n <= RecvSize /\ arrived + n + 1 \in Heads \cup {Total + 1}
          /\ ~broken /\ ~readable
    BY <1>5 DEF Arrive, Courteous
  <2>2. arrived' = arrived + n /\ broken' = broken
    BY <1>5 DEF Arrive
  <2>3. n \in Nat /\ n > 0
    BY TotalIs
  <2>4. Place(arrived + n + 1)
    <3>1. CASE arrived + n + 1 = Total + 1
      BY <3>1, TotalIs
    <3>2. CASE arrived + n + 1 \in Heads
      BY <3>2, FirstGrows DEF Heads, Place
    <3> QED
      BY <2>1, <3>1, <3>2
  <2>5. Place(arrived + 1)'
    <3>1. arrived' + 1 = arrived + n + 1
      BY <1>1, <2>2, <2>3 DEF Counts
    <3> QED
      BY <2>4, <3>1 DEF Place
  <2>6. Counts' /\ Peer'
    BY <1>1, <1>2, <1>4, <2>1, <2>2, <2>3, <2>5 DEF Counts, Peer
  <2>7. Reading'
    BY <1>1, <1>2, <2>1 DEF Reading
  <2>8. Handing'
    BY <1>1, <1>2, <1>3, <2>2 DEF Handing, Useful
  <2> QED
    BY <2>6, <2>7, <2>8 DEF RecvInv
<1>6. CASE PeerCloses
  <2>1. UNCHANGED <<arrived, broken>>
    BY <1>6 DEF PeerCloses
  <2>2. Place(arrived + 1)' = Place(arrived + 1)
    BY <2>1 DEF Place
  <2>3. Counts' /\ Peer' /\ Reading'
    BY <1>1, <1>2, <1>4, <2>1, <2>2 DEF Counts, Peer, Reading
  <2>4. Handing'
    BY <1>1, <1>2, <1>3, <2>1 DEF Handing, Useful
  <2> QED
    BY <2>3, <2>4 DEF RecvInv
<1>7. CASE PeerBreaks
  <2>1. broken' = TRUE /\ arrived' = taken
    BY <1>7 DEF PeerBreaks
  <2>2. Place(arrived + 1)' = Place(taken + 1)
    BY <2>1 DEF Place
  <2>3. Counts' /\ Peer' /\ Reading'
    BY <1>1, <1>2, <1>4, <2>1, <2>2, RecvSizes DEF Counts, Peer, Reading
  <2>4. Useful' => Useful
    BY <1>2, <2>1 DEF Useful
  <2>5. Handing'
    BY <1>1, <1>2, <1>3, <2>4 DEF Handing
  <2> QED
    BY <2>3, <2>5 DEF RecvInv
<1> QED
  BY <1>5, <1>6, <1>7

\* The first ::recv takes all there is, and puts it into an empty buffer.
LEMMA RecvKeeps ==
  ASSUME polite, RecvInv, Recv
  PROVE  RecvInv'
<1>1. Counts /\ Peer /\ Reading /\ Handing
  BY DEF RecvInv
<1>2. at = "recv" /\ taken < arrived /\ UNCHANGED <<polite, arrived, broken, normal, at, size, package, expect>>
  BY DEF Recv
<1>3. normal /\ ~broken /\ realRead = 0
  BY <1>1, <1>2 DEF Counts, Peer, Reading
<1>4. Whole /\ HandedOver
  BY <1>1, <1>2, <1>3 DEF Handing, Useful
<1>5. taken \in Nat /\ arrived \in Nat /\ taken + 1 \in Nat /\ arrived + 1 \in Nat
  BY <1>1 DEF Counts
<1>6. OneRecv = arrived - taken /\ OneRecv \in Nat /\ OneRecv > 0
  BY <1>1, <1>2, <1>5, RecvSizes DEF OneRecv, Peer
<1>7. taken' = arrived /\ realRead' = OneRecv
  BY <1>3, <1>5, <1>6 DEF Recv
<1>8. buf = << >>
  BY <1>4, <1>5, RunIs DEF Whole, HandedOver
<1>9. buf' = Run(taken + 1, arrived + 1)
  <2>1. buf' = [i \in 1 .. Len(buf) + OneRecv |->
                  IF i <= OneRecv THEN taken + i ELSE IF i <= Len(buf) THEN buf[i] ELSE Junk]
    BY DEF Recv, Received
  <2>2. Len(buf) + OneRecv = OneRecv
    BY <1>6, <1>8
  <2>3. \A i \in 1 .. OneRecv : i <= OneRecv /\ taken + i = (taken + 1) + i - 1
    BY <1>5, <1>6
  <2>4. buf' = [i \in 1 .. OneRecv |-> (taken + 1) + i - 1]
    BY <2>1, <2>2, <2>3
  <2>5. OneRecv = (arrived + 1) - (taken + 1)
    BY <1>5, <1>6
  <2> QED
    BY <2>4, <2>5 DEF Run
<1>10. Whole'
  BY <1>2, <1>4, <1>5, <1>7, <1>9 DEF Whole, HandedOver
<1>11. Place(arrived + 1)' = Place(arrived + 1) /\ Place(taken + 1)' = Place(arrived + 1)
  BY <1>2, <1>7 DEF Place
<1>12. Counts' /\ Peer' /\ Reading'
  BY <1>1, <1>2, <1>3, <1>5, <1>6, <1>7, <1>11, RecvSizes DEF Counts, Peer, Reading
<1>13. Handing'
  BY <1>2, <1>6, <1>7, <1>10 DEF Handing
<1> QED
  BY <1>12, <1>13 DEF RecvInv

\* The other steps of do_recv read nothing.
LEMMA SamePeer ==
  ASSUME Counts, Peer, UNCHANGED <<polite, arrived, taken, broken>>, realRead' \in Nat, size' \in Nat
  PROVE  Counts' /\ Peer'
<1>1. Place(arrived + 1)' = Place(arrived + 1) /\ Place(taken + 1)' = Place(taken + 1)
  BY DEF Place
<1> QED
  BY <1>1 DEF Counts, Peer

LEMMA TurnKeeps ==
  ASSUME polite, RecvInv, ReadEvent \/ RecvEnd \/ RecvFails
  PROVE  RecvInv'
<1>1. Counts /\ Peer /\ Reading /\ Handing
  BY DEF RecvInv
<1>2. UNCHANGED <<polite, arrived, taken, broken, buf, package, expect>>
  BY DEF ReadEvent, RecvEnd, RecvFails
<1>3. realRead' \in Nat /\ size' \in Nat
  <2>1. ReadEvent => realRead' = 0 /\ size' = size
    BY DEF ReadEvent
  <2>2. RecvEnd => realRead' = realRead /\ size' = 0
    BY DEF RecvEnd
  <2>3. RecvFails => realRead' = realRead /\ size' = size
    BY DEF RecvFails
  <2> QED
    BY <1>1, <2>1, <2>2, <2>3 DEF Counts
<1>4. Counts' /\ Peer'
  BY <1>1, <1>2, <1>3, SamePeer
<1>5. Whole' = Whole /\ HandedOver' = HandedOver
  BY <1>2 DEF Whole, HandedOver
<1>6. CASE ReadEvent
  <2>1. at = "idle" /\ normal /\ at' = "recv" /\ normal' = normal /\ realRead' = 0
    BY <1>6 DEF ReadEvent
  <2>2. Reading'
    BY <2>1 DEF Reading
  <2>3. Handing'
    BY <1>1, <1>2, <1>5, <2>1 DEF Handing, Useful
  <2> QED
    BY <1>4, <2>2, <2>3 DEF RecvInv
<1>7. CASE RecvEnd
  <2>1. at = "recv" /\ taken = arrived /\ ~broken /\ normal' = normal /\ realRead' = realRead /\ at' = AfterRecv
    BY <1>7 DEF RecvEnd, Drained
  <2>2. at' = (IF realRead > 0 THEN "split" ELSE "finish") /\ normal /\ realRead \in Nat
    BY <1>1, <2>1 DEF AfterRecv, Reading, Counts
  <2>3. Reading'
    BY <1>2, <2>1, <2>2 DEF Reading
  <2>4. Useful /\ Whole
    BY <1>1, <2>1, <2>2 DEF Handing, Useful
  <2>5. at' = "finish" => HandedOver
    BY <1>1, <2>1, <2>2, <2>4 DEF Handing
  <2>6. Handing'
    BY <1>5, <2>2, <2>4, <2>5 DEF Handing
  <2> QED
    BY <1>4, <2>3, <2>6 DEF RecvInv
<1>8. CASE RecvFails
  <2>1. at' = "idle" /\ broken /\ taken = arrived
    BY <1>8 DEF RecvFails
  <2>2. Reading'
    BY <1>2, <2>1 DEF Reading
  <2>3. Handing'
    BY <1>2, <2>1 DEF Handing, Useful
  <2> QED
    BY <1>4, <2>2, <2>3 DEF RecvInv
<1> QED
  BY <1>6, <1>7, <1>8

LEMMA SplitKeeps ==
  ASSUME polite, RecvInv, SplitPackage \/ SplitPartial \/ SplitFails
  PROVE  RecvInv'
<1>1. Counts /\ Peer /\ Reading /\ Handing
  BY DEF RecvInv
<1>2. UNCHANGED <<polite, arrived, taken, broken, buf, expect, realRead, size>> /\ at = "split"
  BY DEF SplitPackage, SplitPartial, SplitFails
<1>3. Counts' /\ Peer'
  BY <1>1, <1>2, SamePeer DEF Counts
<1>4. Whole' = Whole /\ HandedOver' = HandedOver
  BY <1>2 DEF Whole, HandedOver
<1>5. normal /\ taken = arrived /\ Whole
  BY <1>1, <1>2 DEF Reading, Handing, Useful
<1>6. CASE SplitPackage
  <2>1. normal' = normal /\ at' = "pkg" /\ AtHead /\ package' = SubSeq(buf, 1, Lengths[PackageFrom(buf[1])])
    BY <1>6 DEF SplitPackage
  <2>2. buf # << >>
    BY <2>1 DEF AtHead
  <2>3. /\ expect \in 1 .. Len(Lengths) /\ PackageFrom(buf[1]) = expect /\ Lengths[expect] \in Nat
        /\ First[expect] \in Nat /\ taken + 1 \in Nat /\ First[expect] + Lengths[expect] <= taken + 1
    BY <1>2, <1>5, <2>2, HeadOfBuffer
  <2>4. SubSeq(Run(First[expect], taken + 1), 1, Lengths[expect]) = Part(First[expect], Lengths[expect])
    BY Zenon, <2>3, RunCut
  <2>5. package' = Package(expect)
    BY <1>5, <2>1, <2>3, <2>4 DEF Package, Part, Whole
  <2>6. Reading'
    BY <1>2, <1>5, <2>1 DEF Reading
  <2>7. Package(expect)' = Package(expect)
    BY <1>2 DEF Package
  <2>8. Handing'
    BY <1>2, <1>4, <1>5, <2>1, <2>2, <2>3, <2>5, <2>7 DEF Handing
  <2> QED
    BY <1>3, <2>6, <2>8 DEF RecvInv
<1>7. CASE SplitPartial \/ SplitFails
  <2>1. at' = "finish" /\ (buf = << >> \/ ~AtHead \/ Lengths[PackageFrom(buf[1])] > Len(buf))
    BY <1>7 DEF SplitPartial, SplitFails
  <2>2. buf = << >>
    <3> SUFFICES ASSUME buf # << >>
                 PROVE  FALSE
      OBVIOUS
    <3>1. /\ AtHead /\ PackageFrom(buf[1]) = expect /\ Len(buf) = (taken + 1) - First[expect]
          /\ Lengths[expect] \in Nat /\ First[expect] \in Nat /\ taken + 1 \in Nat
          /\ First[expect] + Lengths[expect] <= taken + 1
      BY <1>2, <1>5, HeadOfBuffer
    <3>2. Lengths[expect] <= Len(buf)
      BY <3>1
    <3>3. Len(buf) \in Nat
      BY <3>1
    <3> QED
      BY <2>1, <3>1, <3>2, <3>3
  <2>3. HandedOver
    BY <1>2, <1>5, <2>2, HeadOfBuffer
  <2>4. Reading'
    BY <1>2, <1>5, <2>1 DEF Reading
  <2>5. Handing'
    BY <1>4, <1>5, <2>1, <2>3 DEF Handing
  <2> QED
    BY <1>3, <2>4, <2>5 DEF RecvInv
<1> QED
  BY <1>6, <1>7

LEMMA EndPackageKeeps ==
  ASSUME polite, RecvInv, EndPackage
  PROVE  RecvInv'
<1>1. Counts /\ Peer /\ Reading /\ Handing
  BY DEF RecvInv
<1>2. /\ UNCHANGED <<polite, arrived, taken, broken, realRead>> /\ at = "pkg" /\ buf' = Rest /\ expect' = expect + 1
      /\ at' = (IF normal' THEN "split" ELSE "finish") /\ size' = (IF normal' THEN size + Len(package) ELSE 0)
  BY DEF EndPackage, AfterPackage
<1>3. normal /\ taken = arrived /\ Whole /\ package = Package(expect) /\ buf # << >>
  BY <1>1, <1>2 DEF Reading, Handing, Useful
<1>4. /\ expect + 1 \in Places /\ First[expect + 1] = First[expect] + Lengths[expect]
         /\ Lengths[expect] \in Nat
      /\ First[expect] \in Nat /\ taken + 1 \in Nat /\ First[expect + 1] <= taken + 1
  BY <1>2, <1>3, HeadOfBuffer
<1>5. Len(package) = Lengths[expect]
  BY <1>3, <1>4 DEF Package
<1>6. Counts' /\ Peer'
  <2>1. size' \in Nat /\ realRead' \in Nat
    BY <1>1, <1>2, <1>4, <1>5 DEF Counts
  <2> QED
    BY <1>1, <1>2, <2>1, SamePeer
<1>7. Reading'
  BY <1>2, <1>3 DEF Reading
<1>8. buf' = Run(First[expect + 1], taken + 1)
  <2> DEFINE r == Run(First[expect], taken + 1)
  <2>1. First[expect] + Lengths[expect] <= taken + 1
    BY <1>4
  <2>2. SubSeq(r, Lengths[expect] + 1, Len(r)) = Run(First[expect] + Lengths[expect], taken + 1)
    BY Zenon, <1>4, <2>1, RunCut
  <2>3. buf = r /\ buf' = SubSeq(buf, Lengths[expect] + 1, Len(buf))
    BY <1>2, <1>3, <1>5 DEF Rest, Whole
  <2> HIDE DEF r
  <2> QED
    BY <1>4, <2>2, <2>3
<1>9. Whole'
  BY <1>2, <1>4, <1>8 DEF Whole
<1>10. Handing'
  BY <1>2, <1>9 DEF Handing, Useful
<1> QED
  BY <1>6, <1>7, <1>10 DEF RecvInv

LEMMA FinishKeeps ==
  ASSUME polite, RecvInv, Finish
  PROVE  RecvInv'
<1>1. Counts /\ Peer /\ Reading /\ Handing
  BY DEF RecvInv
<1>2. /\ UNCHANGED <<polite, arrived, taken, broken, realRead, size, expect>> /\ at = "finish" /\ at' = "idle"
      /\ buf' = (IF size >= Len(buf) /\ size > 0 THEN << >> ELSE SubSeq(buf, size + 1, Len(buf)))
      /\ normal' => normal
  BY DEF Finish
<1>3. Counts' /\ Peer'
  BY <1>1, <1>2, SamePeer DEF Counts
<1>4. Reading'
  BY <1>1, <1>2 DEF Reading
<1>5. ASSUME normal
      PROVE  Whole' /\ HandedOver'
  <2>1. Whole /\ HandedOver
    BY <1>1, <1>2, <1>5 DEF Handing, Useful
  <2>2. taken + 1 \in Nat
    BY <1>1 DEF Counts
  <2>3. buf = << >>
    BY <2>1, <2>2, RunIs DEF Whole, HandedOver
  <2>4. size \in Nat /\ SubSeq(<< >>, size + 1, 0) = << >> /\ Len(<< >>) = 0
    BY <1>1 DEF Counts
  <2>5. buf' = << >>
    BY <1>2, <2>3, <2>4
  <2> QED
    BY <1>2, <2>1, <2>3, <2>5 DEF Whole, HandedOver
<1>6. Handing'
  BY <1>2, <1>5 DEF Handing, Useful
<1> QED
  BY <1>3, <1>4, <1>6 DEF RecvInv

LEMMA RecvInvStep ==
  RecvInv /\ [RecvNext]_recvVars => RecvInv'
<1> SUFFICES ASSUME RecvInv, [RecvNext]_recvVars
             PROVE  RecvInv'
  OBVIOUS
<1>1. polite' = polite
  BY DEF RecvNext, recvVars, Arrive, PeerCloses, PeerBreaks, ReadEvent, Recv, RecvEnd,
         RecvFails, SplitPackage, SplitPartial,
         SplitFails, EndPackage, Finish
<1>2. CASE ~polite
  BY <1>1, <1>2 DEF RecvInv
<1>3. CASE polite
  <2>1. CASE (\E n \in 1 .. Total : Arrive(n)) \/ PeerCloses \/ PeerBreaks
    BY <1>3, <2>1, PeerKeeps
  <2>2. CASE ReadEvent \/ RecvEnd \/ RecvFails
    BY <1>3, <2>2, TurnKeeps
  <2>3. CASE Recv
    BY <1>3, <2>3, RecvKeeps
  <2>4. CASE SplitPackage \/ SplitPartial \/ SplitFails
    BY <1>3, <2>4, SplitKeeps
  <2>5. CASE EndPackage
    BY <1>3, <2>5, EndPackageKeeps
  <2>6. CASE Finish
    BY <1>3, <2>6, FinishKeeps
  <2>7. CASE UNCHANGED recvVars
    BY <2>7 DEF recvVars, RecvInv, Counts, Peer, Place, Reading, Handing, Useful, Whole, HandedOver
  <2> QED
    BY <2>1, <2>2, <2>3, <2>4, <2>5, <2>6, <2>7 DEF RecvNext
<1> QED
  BY <1>2, <1>3

-----------------------------------------------------------------------------
\* For packages of any lengths, in any number: while the peer sends whole packages that fit
\* one ::recv and waits until they are read, on_recv_pkg gets the next package of the
\* stream, whole and unchanged, and nothing else, whatever packages share a ::recv and
\* whatever on_recv_pkg does (tcp_client_channel.cpp:476-512, tcp_channel_base.cpp:168-221).
THEOREM ReceivingIsWhole ==
  RecvSpec => []PoliteIntact
<1>1. RecvInv => PoliteIntact
  <2> SUFFICES ASSUME RecvInv, polite, at = "pkg"
               PROVE  expect <= Len(Lengths) /\ package = Package(expect)
    BY DEF PoliteIntact, PackagesIntact
  <2>1. expect \in 1 .. Len(Lengths) /\ package = Package(expect)
    BY DEF RecvInv, Handing
  <2> QED
    BY <2>1, LengthsAre
<1>2. RecvInit => RecvInv
  BY RecvInvStarts
<1>3. RecvInv /\ [RecvNext]_recvVars => RecvInv'
  BY RecvInvStep
<1> QED
  BY <1>1, <1>2, <1>3, PTL DEF RecvSpec

\* When such a channel rests with no event to come, every byte that has arrived has been
\* handed to on_recv_pkg: the edge-triggered event that was consumed has read them all
\* (tcp_channel_base.cpp:168-221, epoll_imp.cpp:106-109).
THEOREM ReceivingIsPrompt ==
  RecvSpec => []NothingLeftWaiting
<1>1. RecvInv => NothingLeftWaiting
  <2> SUFFICES ASSUME RecvInv, polite, at = "idle", normal, ~readable, ~broken
               PROVE  First[expect] = arrived + 1
    BY DEF NothingLeftWaiting
  <2>1. taken = arrived /\ HandedOver
    BY DEF RecvInv, Reading, Handing, Useful
  <2> QED
    BY <2>1 DEF HandedOver
<1>2. RecvInit => RecvInv
  BY RecvInvStarts
<1>3. RecvInv /\ [RecvNext]_recvVars => RecvInv'
  BY RecvInvStep
<1> QED
  BY <1>1, <1>2, <1>3, PTL DEF RecvSpec

-----------------------------------------------------------------------------
(* Types, whatever the peer sends.                                          *)

RecvTypes == RecvTypeOK /\ realRead <= taken

LEMMA RecvTypesInit ==
  RecvInit => RecvTypes
<1> SUFFICES ASSUME RecvInit
             PROVE  RecvTypes
  OBVIOUS
<1>1. << >> \in Seq(ThunkBytes)
  BY EmptySeq
<1>2. polite \in BOOLEAN
  BY Zenon, RecvSizes DEF RecvInit
<1>3. Total \in Nat
  BY TotalIs
<1>4. /\ arrived = 0 /\ taken = 0 /\ peerClosed = FALSE /\ broken = FALSE /\ readable = FALSE /\ normal = TRUE
         /\ at = "idle"
      /\ buf = << >> /\ realRead = 0 /\ size = 0 /\ package = << >> /\ sawClose = FALSE /\ expect = 1 /\ closeTold = FALSE
  BY DEF RecvInit
<1>5. arrived \in 0 .. Total /\ taken \in 0 .. arrived /\ realRead \in 0 .. Total /\ size \in Nat
      /\ expect \in Nat \ {0} /\ realRead <= taken
  BY <1>3, <1>4
<1>6. peerClosed \in BOOLEAN /\ broken \in BOOLEAN /\ readable \in BOOLEAN /\ normal \in BOOLEAN /\ sawClose \in BOOLEAN
      /\ closeTold \in BOOLEAN
  BY <1>4
<1> QED
  BY <1>1, <1>2, <1>4, <1>5, <1>6 DEF RecvTypes, RecvTypeOK

LEMMA RecvTypesNext ==
  RecvTypes /\ [RecvNext]_recvVars => RecvTypes'
<1> SUFFICES ASSUME RecvTypes, [RecvNext]_recvVars
             PROVE  RecvTypes'
  OBVIOUS
<1>1. RecvTypeOK /\ realRead <= taken /\ Total \in Nat
  BY TotalIs DEF RecvTypes
<1>2. ThunkBytes = ThunkBytes'
  BY DEF ThunkBytes
<1>3. ASSUME NEW n \in 1 .. Total, Arrive(n)
      PROVE  RecvTypes'
  BY <1>1, <1>3 DEF RecvTypes, RecvTypeOK, Arrive
<1>4. CASE PeerCloses \/ PeerBreaks \/ ReadEvent
  <2>1. CASE PeerCloses
    BY <1>1, <2>1 DEF RecvTypes, RecvTypeOK, PeerCloses
  <2>2. CASE PeerBreaks
    BY <1>1, <2>2 DEF RecvTypes, RecvTypeOK, PeerBreaks
  <2>3. CASE ReadEvent
    <3>1. /\ UNCHANGED <<polite, arrived, taken, peerClosed, broken, normal, buf, size, package, expect, closeTold>>
          /\ readable' = FALSE /\ at' = "recv" /\ realRead' = 0 /\ sawClose' = FALSE
      BY <2>3 DEF ReadEvent
    <3>2. realRead' \in 0 .. Total /\ realRead' <= taken'
      BY <1>1, <3>1 DEF RecvTypeOK
    <3>3. readable' \in BOOLEAN /\ sawClose' \in BOOLEAN
      BY <3>1
    <3> QED
      BY <1>1, <3>1, <3>2, <3>3 DEF RecvTypes, RecvTypeOK
  <2> QED
    BY <1>4, <2>1, <2>2, <2>3
<1>5. CASE Recv
  <2>1. OneRecv \in Nat /\ OneRecv <= arrived - taken
    BY <1>1, <1>5, RecvSizes DEF OneRecv, RecvTypeOK, Recv
  <2>2. buf \in Seq(ThunkBytes) /\ Len(buf) \in Nat /\ \A i \in 1 .. Len(buf) : buf[i] \in ThunkBytes
    BY <1>1 DEF RecvTypeOK
  <2>3. \A i \in 1 .. Len(buf) + OneRecv :
          (IF i <= OneRecv THEN taken + i ELSE IF i <= Len(buf) THEN buf[i] ELSE Junk) \in ThunkBytes
    BY <1>1, <2>1, <2>2 DEF RecvTypeOK, ThunkBytes
  <2>4. Received(OneRecv) \in Seq(ThunkBytes)
    BY <2>1, <2>2, <2>3 DEF Received
  <2>5. buf' \in Seq(ThunkBytes)
    BY <1>5, <2>4 DEF Recv
  <2> QED
    BY <1>1, <1>5, <2>1, <2>5 DEF RecvTypes, RecvTypeOK, Recv
<1>6. CASE RecvEnd
  BY <1>1, <1>6 DEF RecvTypes, RecvTypeOK, RecvEnd, AfterRecv
<1>7. CASE RecvFails \/ SplitPartial \/ SplitFails
  <2>1. CASE RecvFails
    <3>1. normal' \in BOOLEAN
      BY <2>1 DEF RecvFails
    <3> QED
      BY <1>1, <2>1, <3>1 DEF RecvTypes, RecvTypeOK, RecvFails
  <2>2. CASE SplitPartial
    BY <1>1, <2>2 DEF RecvTypes, RecvTypeOK, SplitPartial
  <2>3. CASE SplitFails
    BY <1>1, <2>3 DEF RecvTypes, RecvTypeOK, SplitFails
  <2> QED
    BY <1>7, <2>1, <2>2, <2>3
<1>8. CASE SplitPackage
  <2>1. buf # << >> /\ buf[1] \in Heads /\ Lengths[PackageFrom(buf[1])] <= Len(buf)
        /\ package' = SubSeq(buf, 1, Lengths[PackageFrom(buf[1])])
    BY <1>8 DEF SplitPackage, AtHead
  <2>2. PackageFrom(buf[1]) \in 1 .. Len(Lengths)
    BY <2>1 DEF Heads, PackageFrom
  <2>3. Lengths[PackageFrom(buf[1])] \in Nat \ {0}
    BY <2>2, LengthsAre
  <2>4. package' \in Seq(ThunkBytes)
    BY <1>1, <2>1, <2>3 DEF RecvTypeOK
  <2> QED
    BY <1>1, <1>8, <2>4 DEF RecvTypes, RecvTypeOK, SplitPackage
<1>9. CASE EndPackage
  <2>1. Len(package) \in Nat /\ Len(buf) \in Nat /\ << >> \in Seq(ThunkBytes)
    BY <1>1, EmptySeq DEF RecvTypeOK
  <2>2. buf' \in Seq(ThunkBytes)
    BY <1>1, <1>9, <2>1 DEF RecvTypeOK, EndPackage, Rest
  <2> QED
    BY <1>1, <1>9, <2>1, <2>2 DEF RecvTypes, RecvTypeOK, EndPackage, AfterPackage
<1>10. CASE Finish
  <2>1. size \in Nat /\ Len(buf) \in Nat /\ << >> \in Seq(ThunkBytes)
          /\ SubSeq(buf, size + 1, Len(buf)) \in Seq(ThunkBytes)
    BY <1>1, EmptySeq DEF RecvTypeOK
  <2>2. buf' \in Seq(ThunkBytes)
    BY <1>10, <2>1 DEF Finish
  <2>3. normal' \in BOOLEAN /\ closeTold' \in BOOLEAN
    BY <1>1, <1>10 DEF Finish, RecvTypeOK
  <2> QED
    BY <1>1, <1>10, <2>2, <2>3 DEF RecvTypes, RecvTypeOK, Finish
<1>11. CASE UNCHANGED recvVars
  BY <1>1, <1>11 DEF RecvTypes, RecvTypeOK, recvVars
<1> QED
  BY <1>3, <1>4, <1>5, <1>6, <1>7, <1>8, <1>9, <1>10, <1>11 DEF RecvNext

\* What the buffer and on_recv_pkg have to do with the peer's stream, however the peer
\* cuts it and although one ::recv may write over the bytes of another.
BytesAccounted ==
  /\ \A i \in 1 .. Len(buf) : buf[i] = Junk \/ buf[i] \in 1 .. taken
  /\ \A i, j \in 1 .. Len(buf) : buf[i] = buf[j] /\ i # j => buf[i] = Junk
  /\ (expect - 1) + Len(buf) <= taken
  /\ at = "pkg" =>
       /\ AtHead /\ Lengths[PackageFrom(buf[1])] <= Len(buf)
       /\ package = SubSeq(buf, 1, Lengths[PackageFrom(buf[1])])

LEMMA HeadLength ==
  ASSUME AtHead
  PROVE  Lengths[PackageFrom(buf[1])] \in Nat \ {0}
<1>1. PackageFrom(buf[1]) \in 1 .. Len(Lengths)
  BY DEF AtHead, Heads, PackageFrom
<1> QED
  BY <1>1, LengthsAre

\* What is left of the buffer after some bytes in front of it are popped.
LEMMA PoppedBytes ==
  ASSUME NEW s \in Seq(ThunkBytes), NEW n \in 0 .. Len(s), NEW top \in Nat,
         \A i \in 1 .. Len(s) : s[i] = Junk \/ s[i] \in 1 .. top,
         \A i, j \in 1 .. Len(s) : s[i] = s[j] /\ i # j => s[i] = Junk
  PROVE  /\ Len(SubSeq(s, n + 1, Len(s))) = Len(s) - n
         /\ \A i \in 1 .. Len(SubSeq(s, n + 1, Len(s))) :
              SubSeq(s, n + 1, Len(s))[i] = Junk \/ SubSeq(s, n + 1, Len(s))[i] \in 1 .. top
         /\ \A i, j \in 1 .. Len(SubSeq(s, n + 1, Len(s))) :
              SubSeq(s, n + 1, Len(s))[i] = SubSeq(s, n + 1, Len(s))[j] /\ i # j =>
                SubSeq(s, n + 1, Len(s))[i] = Junk
<1> DEFINE rest == SubSeq(s, n + 1, Len(s))
<1>1. Len(s) \in Nat
  BY LenProperties
<1>2. Len(rest) = Len(s) - n /\ \A i \in 1 .. Len(s) - n : rest[i] = s[n + i]
  <2>1. n + 1 \in 1 .. Len(s) + 1
    BY <1>1
  <2>2. /\ Len(rest) = IF n + 1 <= Len(s) THEN Len(s) - (n + 1) + 1 ELSE 0
        /\ \A i \in 1 .. Len(s) - (n + 1) + 1 : rest[i] = s[n + 1 + i - 1]
    BY <1>1, <2>1, SubSeqProperties
  <2>3. Len(s) - (n + 1) + 1 = Len(s) - n /\ (~(n + 1 <= Len(s)) => Len(s) - n = 0)
    BY <1>1
  <2>4. \A i \in 1 .. Len(s) - n : n + 1 + i - 1 = n + i
    BY <1>1
  <2> QED
    BY <2>2, <2>3, <2>4
<1> HIDE DEF rest
<1>3. \A i \in 1 .. Len(rest) : n + i \in 1 .. Len(s) /\ rest[i] = s[n + i]
  BY <1>1, <1>2
<1>4. \A i, j \in 1 .. Len(rest) : i # j => n + i # n + j
  BY <1>1, <1>2
<1>5. \A i \in 1 .. Len(rest) : rest[i] = Junk \/ rest[i] \in 1 .. top
  BY <1>3
<1>6. \A i, j \in 1 .. Len(rest) : rest[i] = rest[j] /\ i # j => rest[i] = Junk
  BY <1>3, <1>4
<1> QED
  BY <1>2, <1>5, <1>6 DEF rest

LEMMA AccountedNext ==
  ASSUME RecvTypes, BytesAccounted, [RecvNext]_recvVars
  PROVE  BytesAccounted'
<1>1. /\ arrived \in Nat /\ taken \in Nat /\ taken <= arrived /\ expect \in Nat \ {0} /\ size \in Nat
      /\ buf \in Seq(ThunkBytes) /\ Len(buf) \in Nat
  BY TotalIs, LenProperties DEF RecvTypes, RecvTypeOK
<1>2. CASE UNCHANGED <<taken, buf, expect, package>> /\ (at' = "pkg" => at = "pkg")
  BY <1>2 DEF BytesAccounted, AtHead
<1>3. CASE Recv
  <2>1. /\ OneRecv \in Nat /\ buf' = Received(OneRecv) /\ taken' = taken + OneRecv /\ at' = "recv"
        /\ expect' = expect
    BY <1>1, <1>3, RecvSizes DEF Recv, OneRecv
  <2>2. /\ Len(buf') = Len(buf) + OneRecv
        /\ \A i \in 1 .. Len(buf') :
             buf'[i] = IF i <= OneRecv THEN taken + i ELSE IF i <= Len(buf) THEN buf[i] ELSE Junk
    BY <1>1, <2>1 DEF Received
  <2>3. ASSUME NEW i \in 1 .. Len(buf')
        PROVE  buf'[i] = Junk \/ buf'[i] \in 1 .. taken'
    <3>1. i <= OneRecv => taken + i \in 1 .. taken'
      BY <1>1, <2>1, <2>2
    <3>2. i <= Len(buf) => buf[i] = Junk \/ buf[i] \in 1 .. taken'
      <4>1. i <= Len(buf) => i \in 1 .. Len(buf)
        BY <1>1, <2>1, <2>2
      <4>2. 1 .. taken \subseteq 1 .. taken'
        BY <1>1, <2>1
      <4> QED
        BY <4>1, <4>2 DEF BytesAccounted
    <3> QED
      BY <2>2, <3>1, <3>2
  <2>4. ASSUME NEW i \in 1 .. Len(buf'), NEW j \in 1 .. Len(buf'), buf'[i] = buf'[j], i # j
        PROVE  buf'[i] = Junk
    <3>1. i \in Nat \ {0} /\ j \in Nat \ {0}
      BY <1>1, <2>1, <2>2
    <3>2. CASE i <= OneRecv /\ j <= OneRecv
      BY <1>1, <2>2, <2>4, <3>1, <3>2
    <3>3. ASSUME NEW x \in 1 .. Len(buf'), NEW y \in 1 .. Len(buf'), x <= OneRecv, ~(y <= OneRecv)
          PROVE  buf'[x] # buf'[y]
      <4>1. buf'[x] = taken + x /\ x \in Nat \ {0} /\ taken + x \in Nat /\ ~(taken + x \in 1 .. taken)
        BY <1>1, <2>1, <2>2, <3>3
      <4>2. buf'[y] = Junk \/ buf'[y] \in 1 .. taken
        <5>1. y <= Len(buf) => y \in 1 .. Len(buf)
          BY <1>1, <2>1, <2>2
        <5> QED
          BY <2>2, <3>3, <5>1 DEF BytesAccounted
      <4> QED
        BY <4>1, <4>2, RecvSizes
    <3>4. CASE ~(i <= OneRecv) /\ ~(j <= OneRecv)
      <4>1. CASE i <= Len(buf) /\ j <= Len(buf)
        <5>1. i \in 1 .. Len(buf) /\ j \in 1 .. Len(buf) /\ buf'[i] = buf[i] /\ buf'[j] = buf[j]
          BY <1>1, <2>2, <3>1, <3>4, <4>1
        <5> QED
          BY <2>4, <5>1 DEF BytesAccounted
      <4>2. CASE ~(i <= Len(buf))
        BY <2>2, <3>4, <4>2
      <4>3. CASE ~(j <= Len(buf))
        BY <2>2, <2>4, <3>4, <4>3
      <4> QED
        BY <4>1, <4>2, <4>3
    <3> QED
      BY <2>4, <3>2, <3>3, <3>4
  <2>5. (expect' - 1) + Len(buf') <= taken'
    <3>1. (expect - 1) + Len(buf) <= taken
      BY DEF BytesAccounted
    <3> QED
      BY <1>1, <2>1, <2>2, <3>1
  <2> QED
    BY <2>1, <2>3, <2>4, <2>5 DEF BytesAccounted
<1>4. CASE SplitPackage
  <2>1. UNCHANGED <<taken, buf, expect>> /\ AtHead /\ AtHead'
    BY <1>4 DEF SplitPackage, AtHead
  <2>2. /\ Lengths[PackageFrom(buf[1])] <= Len(buf)
        /\ package' = SubSeq(buf, 1, Lengths[PackageFrom(buf[1])])
    BY <1>4 DEF SplitPackage
  <2> QED
    BY <2>1, <2>2 DEF BytesAccounted
<1>5. CASE EndPackage
  <2> DEFINE n == Lengths[PackageFrom(buf[1])]
  <2>1. /\ at = "pkg" /\ buf' = SubSeq(buf, Len(package) + 1, Len(buf)) /\ expect' = expect + 1
        /\ taken' = taken /\ at' # "pkg"
    BY <1>5 DEF EndPackage, Rest, AfterPackage
  <2>2. AtHead /\ n <= Len(buf) /\ package = SubSeq(buf, 1, n)
    BY <2>1 DEF BytesAccounted
  <2>3. n \in Nat \ {0}
    BY <2>2, HeadLength
  <2> HIDE DEF n
  <2>4. Len(package) = n /\ n \in 0 .. Len(buf)
    BY <1>1, <2>2, <2>3, SubSeqProperties
  <2>5. /\ Len(buf') = Len(buf) - n
        /\ \A i \in 1 .. Len(buf') : buf'[i] = Junk \/ buf'[i] \in 1 .. taken
        /\ \A i, j \in 1 .. Len(buf') : buf'[i] = buf'[j] /\ i # j => buf'[i] = Junk
    BY <1>1, <2>1, <2>4, PoppedBytes DEF BytesAccounted
  <2>6. (expect' - 1) + Len(buf') <= taken
    <3>1. (expect - 1) + Len(buf) <= taken
      BY DEF BytesAccounted
    <3> QED
      BY <1>1, <2>1, <2>3, <2>4, <2>5, <3>1
  <2> QED
    BY <2>1, <2>5, <2>6 DEF BytesAccounted
<1>6. CASE Finish
  <2>1. taken' = taken /\ expect' = expect /\ at' # "pkg"
    BY <1>6 DEF Finish
  <2>2. CASE buf' = << >>
    <3>1. Len(buf') = 0
      BY <2>2, EmptySeq
    <3>2. (expect' - 1) + Len(buf') <= taken
      <4>1. (expect - 1) + Len(buf) <= taken
        BY DEF BytesAccounted
      <4> QED
        BY <1>1, <2>1, <3>1, <4>1
    <3> QED
      BY <2>1, <3>1, <3>2 DEF BytesAccounted
  <2>3. CASE size \in 0 .. Len(buf) /\ buf' = SubSeq(buf, size + 1, Len(buf))
    <3>1. /\ Len(buf') = Len(buf) - size
          /\ \A i \in 1 .. Len(buf') : buf'[i] = Junk \/ buf'[i] \in 1 .. taken
          /\ \A i, j \in 1 .. Len(buf') : buf'[i] = buf'[j] /\ i # j => buf'[i] = Junk
      BY <1>1, <2>3, PoppedBytes DEF BytesAccounted
    <3>2. (expect' - 1) + Len(buf') <= taken
      <4>1. (expect - 1) + Len(buf) <= taken
        BY DEF BytesAccounted
      <4> QED
        BY <1>1, <2>1, <2>3, <3>1, <4>1
    <3> QED
      BY <2>1, <3>1, <3>2 DEF BytesAccounted
  <2>4. \/ buf' = << >>
        \/ size \in 0 .. Len(buf) /\ buf' = SubSeq(buf, size + 1, Len(buf))
    <3>1. CASE size >= Len(buf) /\ size > 0
      BY <1>6, <3>1 DEF Finish
    <3>2. CASE ~(size >= Len(buf) /\ size > 0)
      <4>1. size \in 0 .. Len(buf)
        BY <1>1, <3>2
      <4> QED
        BY <1>6, <3>2, <4>1 DEF Finish
    <3> QED
      BY <3>1, <3>2
  <2> QED
    BY <2>2, <2>3, <2>4
<1>7. ASSUME NEW n \in 1 .. Total, Arrive(n)
      PROVE  BytesAccounted'
  BY <1>2, <1>7 DEF Arrive
<1>8. CASE PeerCloses \/ PeerBreaks \/ ReadEvent \/ RecvEnd \/ RecvFails
  BY <1>2, <1>8 DEF PeerCloses, PeerBreaks, ReadEvent, RecvEnd, RecvFails, AfterRecv
<1>9. CASE SplitPartial \/ SplitFails \/ UNCHANGED recvVars
  BY <1>2, <1>9 DEF SplitPartial, SplitFails, recvVars
<1> QED
  BY <1>3, <1>4, <1>5, <1>6, <1>7, <1>8, <1>9 DEF RecvNext

\* For a peer that cuts its packages as it likes, and although a ::recv may write over
\* what another one brought: the buffer holds bytes that ::recv has read, none of them
\* twice, or bytes that nobody wrote; on_recv_pkg is only called with a front of the
\* buffer that begins with the first byte of a package of the peer's and has that
\* package's length; and every call takes at least one byte out of the buffer for good, so
\* that on_recv_buff cannot hand over more packages than bytes were read
\* (tcp_channel_base.cpp:168-221, tcp_client_channel.cpp:476-512).
THEOREM ReceivingAccounts ==
  RecvSpec => [](RecvTypeOK /\ BytesAccounted)
<1>1. RecvInit => RecvTypes /\ BytesAccounted
  <2>1. RecvInit => BytesAccounted
    <3> SUFFICES ASSUME RecvInit
                 PROVE  BytesAccounted
      OBVIOUS
    <3>1. buf = << >> /\ expect = 1 /\ taken = 0 /\ at = "idle"
      BY DEF RecvInit
    <3>2. Len(buf) = 0
      BY <3>1, EmptySeq
    <3> QED
      BY <3>1, <3>2 DEF BytesAccounted
  <2> QED
    BY <2>1, RecvTypesInit
<1>2. RecvTypes /\ BytesAccounted /\ [RecvNext]_recvVars => (RecvTypes /\ BytesAccounted)'
  BY RecvTypesNext, AccountedNext
<1>3. RecvTypes => RecvTypeOK
  BY DEF RecvTypes
<1> QED
  BY <1>1, <1>2, <1>3, PTL DEF RecvSpec

-----------------------------------------------------------------------------
(* The read event, whatever the peer sends.                                *)

\* After the ::recv loop, and until the next event, the kernel has been emptied, and the
\* peer's close is noted or told.
ReadEventUsed ==
  /\ at \in {"split", "pkg", "finish"} /\ ~readable /\ ~broken =>
       taken = arrived /\ (peerClosed => sawClose \/ closeTold)
  /\ EventConsumed

LEMMA ReadEventUsedNext ==
  ASSUME ReadEventUsed, [RecvNext]_recvVars
  PROVE  ReadEventUsed'
<1> USE DEF ReadEventUsed, EventConsumed
<1>1. CASE readable' = TRUE \/ broken' = TRUE
  BY <1>1
<1>2. ASSUME NEW n \in 1 .. Total, Arrive(n)
      PROVE  ReadEventUsed'
  BY <1>1, <1>2 DEF Arrive
<1>3. CASE PeerCloses \/ PeerBreaks
  BY <1>1, <1>3 DEF PeerCloses, PeerBreaks
<1>4. CASE ReadEvent \/ Recv
  <2>1. at' = "recv"
    BY <1>4 DEF ReadEvent, Recv
  <2> QED
    BY <2>1
<1>5. CASE RecvEnd
  <2>1. taken = arrived /\ sawClose' = peerClosed /\ at' \in {"split", "finish"}
        /\ UNCHANGED <<taken, arrived, peerClosed>>
    BY <1>5 DEF RecvEnd, Drained, AfterRecv
  <2> QED
    BY <2>1
<1>6. CASE RecvFails
  BY <1>6 DEF RecvFails
<1>7. CASE SplitPackage \/ SplitPartial \/ SplitFails \/ EndPackage
  <2>1. /\ at \in {"split", "pkg"} /\ at' \in {"split", "pkg", "finish"}
        /\ UNCHANGED <<taken, arrived, peerClosed, broken, readable, sawClose, closeTold>>
    BY <1>7 DEF SplitPackage, SplitPartial, SplitFails, EndPackage, AfterPackage
  <2> QED
    BY <2>1
<1>8. CASE Finish
  <2>1. /\ at = "finish" /\ at' = "idle"
        /\ UNCHANGED <<taken, arrived, peerClosed, broken, readable>>
    BY <1>8 DEF Finish
  <2>2. CASE sawClose /\ normal
    <3>1. closeTold' = TRUE
      BY <1>8, <2>2 DEF Finish
    <3> QED
      BY <2>1, <3>1
  <2>3. CASE ~(sawClose /\ normal)
    <3>1. UNCHANGED <<closeTold, normal>>
      BY <1>8, <2>3 DEF Finish
    <3> QED
      BY <2>1, <2>3, <3>1
  <2> QED
    BY <2>2, <2>3
<1>9. CASE UNCHANGED recvVars
  BY <1>9 DEF recvVars
<1> QED
  BY <1>2, <1>3, <1>4, <1>5, <1>6, <1>7, <1>8, <1>9 DEF RecvNext

\* One edge-triggered read event is enough, whatever the peer sends, in whatever pieces, and
\* whatever becomes of the packages: when the channel rests and no event is to come, ::recv
\* has taken all that has arrived, and a close of the peer has been told
\* (tcp_channel_base.cpp:168-226, epoll_imp.cpp:106-109).
THEOREM ReadingIsComplete == RecvSpec => []EventConsumed
<1>1. RecvInit => ReadEventUsed
  BY DEF RecvInit, ReadEventUsed, EventConsumed
<1>2. ReadEventUsed => EventConsumed
  BY DEF ReadEventUsed
<1> QED
  BY <1>1, <1>2, ReadEventUsedNext, PTL DEF RecvSpec
=============================================================================
