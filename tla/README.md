# konus: a TLA+ model of the korus network library

`korus/src` is a C++11 network library after the reactor pattern: worker threads
turn reactor loops; a loop polls its sockets, runs its timers, the tasks other
threads have posted to it, and its idle callbacks; TCP, UDP, SOCKS5 and name
resolution are built on that. This directory holds TLA+ modules of its parts,
TLC configurations that check them on small instances, and theorems about them
that TLAPS checks for every instance. `PROJECT.json` lists, for machines, the
components, the runs, the source lines of every definition, the hazards and the
theorems.

The sources are GBK encoded; paths below are relative to `korus/src/`. Line
numbers are those of the repository.

    tlc -workers 2 -config MCTaskQueue.cfg MCTaskQueue      (a run)
    tlapm TaskQueueProofs.tla                               (a proof)

## 1. Inventory

| component | state | operations | meets | hard behaviour | correct means |
|---|---|---|---|---|---|
| task queue (`util/task_queue`) | `_seq`, `_task_list` by number, `_owner_list` by owner, an optional recursive mutex | `add`, `del`, `execute`, `is_empty`, `clear` | every thread posts to it; loop and worker execute it | interleaving; callbacks that add and delete during `execute`; the mutex held through callbacks | order, at most once, nothing withdrawn starts, a pass ends, no deadlock |
| worker thread (`thread/thread_object`) | four queues, `_is_quit`, `_is_start`, `_is_taskempty`, mutex and condition variables | `start`, the `add_*_task`s, `clear_regual_task`, destructor; `thread_routine` | owner, tasks, other adders | lost wakeups, shutdown against running tasks | sleeps only when idle, quits when told, begins no turn after that |
| timers (`reactor/timer_sheduler`, `timer_helper`) | `_timer_list` by time, `_object_list` by object, `_seq` | `start`, `stop`, `tick` | loop, channels | callbacks start and stop timers, late turns, equal times | each on time, not after stop, no endless tick |
| reactor loop (`reactor/reactor_loop`) | the three above, the poller, `_is_valid` | `run`, `run_once`, `start/stop_async_task`, `start/stop_sockio`, `invalid` | everything in its thread | order of poll, tick, tasks, idle in one turn; end of the loop | all get their turn; nothing called after `invalid` |
| poller (`reactor/epoll_imp`, `sockio_helper`) | epoll set of raw helper pointers, interest per helper | add, delete, update, `poll` | channels | edge triggering; a batch of events whose helpers vanish | no event lost, none for a helper that is gone |
| idle callbacks (`reactor/idle_distributor`, `idle_helper`) | `_object_list`, a sequence number | `start`, `stop`, `idle` | creator's scan | start and stop inside a callback | each once per turn |
| TCP channel base (`tcp/tcp_channel_base`) | `_fd`, `_read_thunk`, `_write_thunk` | `send_raw`, `send_alone`, `do_recv`, `close`, `shutdown` | client and server channels | short writes, EAGAIN, several packages or part of one per read, close with data | a byte stream; whole packages in order |
| TCP client channel (`tcp/tcp_client_channel`) | `_conn_state`, object state, `_conn_fd`, `_fd`, two timers, two sockio helpers | `connect`, `close`, `send`, events, timers | posts from any thread | outcomes of connect against timeout, retry, close and late tasks | state, sockets and registrations agree; the application is told the truth |
| TCP server channel (`tcp/tcp_server_channel`) | as the client's, without connecting | `send`, `close`, events | creator, loop | release while being called, double close | closed once, descriptor closed once |
| TCP server (`tcp/tcp_server`, `tcp_listen`, `tcp_server_channel_creator`) | listen and worker threads, counts, `_channel_list` | start-up, accept, hand-over, recovery scan | threads and loops | start-up order, descriptors in flight, reuse of numbers | every accepted descriptor gets an owner or is closed |
| TCP client (`tcp/tcp_client`) | worker threads and their loops | `start`, first connect | client channels | as the server's start-up | |
| buffers (`util/buffer_thunk`) | a block, begin, used | `prepare`, `incr`, `push_back`, `pop_front`, ... | channels | arithmetic at the ends | a byte sequence |
| chains, object states (`util/chain_object`, `object_state`) | links, reference counts, state | chain, release | handlers | who may die when | nothing used after release |
| UDP channels (`udp/*`) | `_fd`, object state, `_read_thunk` | `start`, `send`, `close`, events | loop | late tasks, double close, empty datagrams | closed once, no datagram forgotten, one package per datagram |
| SOCKS5 client and server (`exts/socks5/*`) | state of the handshake, reply state of a BIND, weak pointers between the two connections | connect, bind, associate | TCP channels | two connections tied together, ends and errors of one while the other is busy | the source is told the truth, streams that are not written over arrive intact, an end reaches the other side, nothing leaks |
| domain names (`exts/domain/*`) | the query, the registrations of c-ares' sockets, cache | resolve, expire | c-ares, client, loop | sockets that come and go between two looks, numbers used again, answers under another name | an answer makes the client; other sockets keep their events |
| c-ares (`thirdparty/c-ares-master`) | queries, servers with their sockets and TCP queues, lists by query, server and time | `ares_gethostbyname`, `ares_process_fd`, `ares_cancel` | domain names | callbacks that ask again while lists are walked, requests that outlive their query, several servers, late answers | each lookup answered once, no request of a freed query, sockets closed |
| serializers, socket wrappers, definitions | none | encoding, system calls | | | |

`example/` holds programs that use the library and stays outside. c-ares is vendored; of it the channel is
modelled, on which name resolution rests, and not the reading of its configuration, the parsing of packages and
its command line programs. `kqueue_imp` is empty.

## 2. Modules

One component, one module, one `MC` module that gives TLC its constants, and a
`Proofs` module where there are theorems.

| module | code | theorems |
|---|---|---|
| `TaskQueue` | the locked queues of the reactor loops, posted to by threads and by tasks | `TaskQueueProofs` |
| `ThreadObject` | the worker thread and its unlocked queues | `ThreadObjectProofs` |
| `TimerSheduler` | the timers of one loop | `TimerShedulerProofs` |
| `ByteStream` | abstract: what sending over a TCP channel promises | |
| `TcpSend` | `send_raw`, `do_send`, `send_alone`, the write event; implements `ByteStream` | `TcpClientChannelProofs`, second part |
| `TcpRecv` | `do_recv`, `on_recv_buff`, the read event | `TcpClientChannelProofs`, third part |
| `TcpClientChannel` | connecting, timing out, retrying, closing, posted calls | `TcpClientChannelProofs` |
| `HandOver` | abstract: what a server promises of the connections it accepts | |
| `TcpServer` | start-up, accepting, handing descriptors to workers, the destructor; implements `HandOver` | `TcpServerProofs` |
| `ServerLoop` | the channels of a server in one loop: batch of events, posted calls, list and scan, references | `ServerLoopProofs` |
| `UdpChannel` | a UDP channel of a server or client: start, receive, close, release, posted calls | `Socks5Proofs`, second part |
| `DomainResolve` | a client with a domain name: query, c-ares' sockets in the loop, cache | `AresProofs`, second part |
| `Ares` | the channel of c-ares: lookups, queries, servers, cancelling | `AresProofs` |
| `Socks5` | a session of source, proxy and target: handshake, CONNECT, BIND and ASSOCIATE, both connections, the datagrams | `Socks5Proofs` |

**TaskQueue.** One action is one stretch of code between two points where another
thread can be seen. `CallAdd`, `AddLock`, `AddTask` are `start_async_task` and
`task_queue::add`; `CallDel`, `DelTasks` are `stop_async_task` and `del`, which
takes no lock; `BeginPass`, `SkipTask`, `TakeTask`, `EndTask`, `EndPass` are
`execute`. `unique_optional_lock`'s parameter `nolock` has the inverse of its
name's meaning: the loops pass `true` (`reactor_loop.cpp:14`) and do lock. A task
may post to its own loop, and to another along `TaskPosts`. `Break` is what
happens when `del` and an `add` of another thread are in the same maps: anything,
so the specification stops there (`broken`).

**ThreadObject.** `call[t]` follows one `add_task_helper` per thread: wait for the
mutex, store the task and test the flag, unlock, notify. `worker` follows
`thread_routine`; line 57, `_is_taskempty = ...`, is two actions, a read of the
queues and a store, because it holds no lock. `Destroy`, `Clear`, `Joined` are the
destructor. The constant `LateAdds` gives the values of `lateAdds`: `FALSE` is how
the repository uses the class, tasks are added before `start` or by tasks;
`TRUE` lets other threads and the owner add while the worker runs, as the mutex
in `add_task_helper` is there for. `Take` is `execute` up to the copy of an item, `CallTask` the call of the copy,
with room between them for whatever the other threads do: of the resident queue nothing is touched there, so `Clear`
may come whole. `lateStarts` counts the resident tasks that start after it. Reading and changing one queue at once ends in `broken`.

**TimerSheduler.** Times are relative to the clock: 0 is now. `timerList` has at
most one entry per time because `timer_key::operator<` compares nothing else, so
`Put` onto a taken time keeps the old entry and `Without` erases whichever entry
has that time. `fresh` is the comparison of an entry's sequence number with
`old_seq`. `BeginTick`, `Fire`, `EndAction`, `EndTick` are `tick`; between `Fire` and
`EndAction` the callback starts and stops timers. `Advance` is the clock, which
runs during callbacks too. `met` remembers that two timers were due at one instant.

**TcpSend.** `pc` names who is in `do_send`: `send_raw` itself, `send_raw` flushing
the thunk, a write event or `close`. Each `::send` is a step of its own, taking any
number of bytes that fit (`KernelTakes`) or failing (`WouldBlock`, `Failed`), and the
peer takes bytes between them. `nospace` and `edge` are edge-triggered epoll: a
write event comes once, when a buffer that was found full gets room.
`SendBuffered` may or may not try to flush, since `send_raw` looks at whatever
`errno` an earlier call left.

**TcpRecv.** Bytes are their places in the peer's stream, so a wrong, lost or
repeated byte shows. `Received` is line 174: bytes go to `ptr()`, the beginning of
what is buffered, and are counted at its end. `EndPackage` is `pop_front` in
`on_recv_buff`, `Finish` the second `pop_front` in `do_recv`. `polite` says whether the
peer sends whole packages, no more at a time than one `::recv` takes, and waits
until they are read: exactly the traffic under which the code below `do_recv` works.

**TcpClientChannel.** One action is one handler, run to its end in the channel's
loop: `Connect` (all of `connect`), `Close`, `SockioEvent` (read and write of the
connected socket), `ConnectResult` (write event of the connecting one), the
timers, the tasks posted by other threads (`Post`, then `RunSend`, `RunClose`,
`RunConnect`). A failed assertion ends the process (`Abort`), if assertions are
compiled in. `config` is chosen at the start: timeout, retry, asserts, and whether
`::connect` may succeed at once (as it may for a local address).

**TcpServer.** Threads: the owner (`main`), the listen thread (`listener`, number 0 in `quit`), the
workers. `ListenInit` and `ListenStart` are the two halves of the listen thread's init task around
`while (_num_worker_ready)`; `SetCount` is the owner's setting of that number, under another mutex
and after the listen thread may have passed the loop, which `skipped` remembers. A turn of the
listen loop is `Poll`, any number of `Accept...` steps, one per `accept4`, and `AddHandlers`, the tasks.
`handed[w]` holds the `on_newfd` calls on their way to a worker's loop. The refinement mapping onto
`HandOver` reads a connection's place off backlog, `handed`, `channels`, `closed` and `lost`.

**ServerLoop.** A turn is `Poll`, one `Event` per helper of the batch, one `RunTask` per task, `Idle`. Channels
are numbered, descriptor numbers are not theirs: `fdOf` and `list` connect the two, as
`_channel_list` does. `held` is the application's references, `LetGo` what happens when the list
drops its own: the channel is `gone` unless the application holds it. Using a `gone` channel ends in
`broken`; `careless` remembers that the application dropped its last reference with its own posts
still queued, the one way in.

**UdpChannel.** `role` says whether the terminal's `start` reaches the origin (server) or not (client); the
files are otherwise the same. Each `::recvfrom` is a step, and datagrams arrive between them. `thunk` is the
datagrams that `_read_thunk` counts. `Withdrawn` is `stop_async_task(this)` of the origin: the tasks
posted under the terminal's address stay, and run on a released channel.

**DomainResolve.** `owner` says whose socket a number is, `registered` whose helper epoll has for it; both
are external and by number, as epoll is. `Look` is `on_idle_cmp`: what `ares_getsock` returns is taken for a
count, so two sockets become three and one number is read from the stack (`stray`). `Event` is
`ares_process_fd`; what c-ares does with its sockets then (`QueryEnds`, `AskNext`) is external. `mishaps`
remembers when a number that c-ares closed was taken again before the helper's next look, by another socket of the loop (`"reused"`) or of
c-ares (`"renumbered"`), and when the helper read a number that is none of c-ares' (`"garbled"`).

**Ares.** One thread, but calls nest: a socket fails, `handle_error` moves the queries of its server on, one of them has no
server left and ends, its callback begins another, which fails in turn. `stack` holds the calls under way, and an action
is a piece of the innermost one: `SendQuery` is `ares__send_query`, `NextServer` `next_server`, `EndQuery`, `Callback`, `FreeQuery`
are `end_query` around the application's callback, `ErrorNext`, `TimeoutNext`, `CancelNext` one turn of the loops that walk a list
with the next element saved. `query[q].place` is `queries_to_server`; `over` stands for `tcp_connection_generation`: the
servers over whose present connection `q` has been sent. A request in `queue` is its query's buffer (`Theirs`), a copy, blank or,
after `ares__free_query`, `"freed"`. `asked` and `written` are what the name servers may still answer to.

**Socks5.** One element of `near` or `far` is one package. `SourceRecv` is the client's `on_recv_pkg` with the states of
`_shakehand_state`; `TunnelPkg` the reply in the channel of each command, of which a BIND gets two. `ProxyRecv` is the server's:
`MethodPkg`, `AuthPkg`, `TunnelRequest`, and then `Relay` in the channel of the command (`head`), which
`chain_insert` puts directly behind the origin. `Tunnel...` actions are the proxy's other connection.
`do_recv` writes a second `::recv` over the bytes of the first, and over what an earlier event left incomplete, at all three ends that are
in this library: `SourceOverwrites`, `ProxyOverwrites` and `TunnelOverwrites` may do so to what is queued, at any time, and `garbled` remembers on which
way. Some packages are lost then, and behind one that survives stand bytes of any kind (`Garbled`), which a handler may take for a package,
an error or the beginning of a package (`Partial`).
They are tied by `on_closed` and `on_error`, which differ between the commands as the code does.
In an ASSOCIATE `udp` is the source's UDP channel with its filter (`waiting` until `switch_normal`), `relay` the
proxy's; `air` keeps every datagram sent, and any of them may arrive at any time, more than once or never.
`Relayed` is what the relay makes of one: it takes the header from the source's and puts one before the others'. `relayThunk` and `udpThunk`
count what the two channels' `_read_thunk` keeps of earlier datagrams, since those bytes go on with the next one, which then is not `whole`.

## 3. Runs

Passing runs check safety and liveness of one component together.

| run | instance | shows |
|---|---|---|
| `MCTaskQueue` | 2 loops, 1 more thread, 1 owner, tasks without owner, 2 numbers per queue, tasks of `l1` may post to `l2`; 68K states | `OwnerIndexExact`; `WithdrawnNeverRuns`, `RunsInOrder`; `PostedRuns` |
| `MCThreadObject` | 2 resident tasks, 1 disposable, owner, worker, 1 adder, both uses; 20K states | `SleeperWillWake`; `OneResidentAfterQuit`; `JoinReturns`, `ResidentKeepsRunning` |
| `MCTimerSheduler` | 2 timers, delays 0 to 3, no period or 2, default 3, turns up to 3 late; 56K states | `StoppedNeverFires`, `OncePerTick`, `NeverEarly`; `StartedKeepsFiring` |
| `MCTcpSend` | packages of 1 and 2 bytes, 5 of them, kernel buffer of 2; 9K states | `ImplementsStream` (refinement of `ByteStream`); `Drains` |
| `MCTcpRecv` | packages of 1, 2, 1, 3, 2 bytes, `::recv` of 4, both peers; 114K states | `PoliteIntact`, `NothingLeftWaiting` |
| `MCTcpClientChannel` | 2 descriptors, 3 posted calls, all configurations that satisfy the premise of section 5; 3K states | `NoSocketLeaks`, `ToldTheTruth`; `ConnectingEnds`, `PostedCloseCloses` |
| `MCTcpServer` | 2 workers, 3 connections; 73K states | `WaitProtects`, `OwnersOutliveListener`, `NoneForgotten`; `HandsOver` (refinement of `HandOver`); `DestructorReturns` |
| `MCServerLoop` | 2 descriptor numbers, 3 channels, 2 tasks at a time; 290K states | `AliveWhenUsed`, `DescriptorsAccounted`; `ClosedIsRecovered` |
| `MCUdpChannel` | 3 datagrams, one of them empty, 2 tasks at a time, both roles; 52K states | `ClosedOnce`, `NothingStranded` |
| `MCDomainResolve` | 3 numbers, 2 name servers, 4 questions, both names; 1.3M states | `OthersKeepTheirs`; `AnswerMakesClient` |
| `MCSocks5` | CONNECT, BIND and ASSOCIATE, target by address or name, 2 data packages each way, one broken connection, every overwriting; 510K states | `ToldMeansTarget`, `StreamIntact`, `ConnectNeverAborts`; `EndReaches` |
| `MCAres` | 2 lookups, one of a name that is searched in 1 domain, 3 queries at a time, 2 servers tried once or 1 tried twice; 1.5M states | `NoDangling`, `OncePerConnection`, `ListsExact`, `Settled` |

Each run has the fewest properties that tell apart what can go wrong; the type invariants (`TypeOK`) and the
invariants that are steps of a proof are not in a configuration where they are proved (section 5).

*Bounds.* Two queue numbers suffice for order, index and cursor errors: each needs
two tasks, one behind the other, or one posted by the other in the same pass (with
three numbers and without liveness the run had 1.6M states and the same
result). `HasRoom` stops posts at the bound, nothing else does. Two timers are
enough for every relation of one key to another; the delays straddle the period and
the default, so that they meet and pass each other; `InReach` bounds lateness at
more than one period, so late timers are due again at once. Two resident tasks let one
be cleared while the other is copied or runs. A kernel buffer of 2 makes packages fit, fit
partly and not at all. `::recv` of 4 takes up to three packages from a
polite peer and needs several turns for the other. Two descriptors let a retry get
another number than the one a mistake would leave open. Two workers are the fewest a server with
workers can have, and let one be registered while the other is not; three connections let
`_last_pos` go round and leave one in the backlog. Three channels over two numbers make a number
be used again while its old channel is still held or listed. An empty datagram between two others
can be first, middle and last of what one `do_recv` finds. Three numbers let c-ares have two
sockets and the loop another one, or a socket go and come back under its number. Four questions are the fewest with which c-ares closes
a socket, opens one of another number and then takes the first number again within one turn; with three `AnswerMakesClient` held although
`mishaps` did not yet count that (the proof of `SocketsHeardHolds` failed there). Two data packages per
side are enough to be swapped, joined with the handshake or cut off by an end. Two lookups, each with a query, let a
callback of one begin the other while a list of both is walked; three queries are as many as can exist then, so the bound stops nothing. Two
servers are what skipping needs, two tries of one server what a second request over the same connection needs.

*No deadlock check.* The systems may stop: all numbers handed out, object
destroyed, channel closed, all timers stopped. Where a stop would be wrong, a
liveness property says so (`PostedRuns`, `JoinReturns`). `Ares` stops only where a freed request would be sent (`Dangling`).

## 4. Fairness

- Threads are scheduled, and steps that wait for nobody are taken: weak fairness
  (`OwnStep`, `DoSend`, `TickStep`).
- Callbacks return after finitely many calls into the library: strong fairness of
  `Return`, `EndTask`, `EndAction`, since each call back disables them for a while.
- A mutex that is free again and again is obtained by who waits for it: strong
  fairness of `AddLock` and `Decide`. For a loop's queue the mutex is free during the
  whole `epoll_wait` of each turn; pthread mutexes promise no more, so a starving
  scheduler is excluded by assumption.
- Every turn of a loop ticks and runs tasks (`reactor_loop.cpp:70-83`), and the clock
  runs: `BeginTick`, `Advance`, `RunTask`, `OnTimeout`.
- The threads of a server run: the owner's start and destructor, the listener, each worker
  (`OwnerStep`, `ListenerStep`, `WorkerStep`, `HandOverStep`); nobody has to connect, close or destroy.
- A loop turns: `LoopStep` of `ServerLoop`; `TurnEnds`, `Idle` of `DomainResolve`, where moreover every turn
  polls, so an event that is due in turn after turn is served (strong fairness of `Event`).
- Source and proxy of a SOCKS5 session serve their sockets (`Source`, `Proxy`); the applications, the target and the
  network do as they like.
- `Ares` has no liveness property: a lookup whose datagram is lost ends only if somebody calls `ares_process` when a timeout is
  due, and nothing in the repository does (deviation 26).
- Of the network nothing is assumed, except in `Drains`, where the peer keeps reading.
  Of the application nothing is assumed: it calls or does not call.

## 5. Theorems

Proved for all values of the constants, from the named `ASSUME`s of the modules
only (names of special values differ from the others, sets are sets of numbers).
Two hypotheses are stated in the theorems that need them, `ResultStopsTimeout` and `PostsAcyclic`; they are explained below.

Every safety property, action property and refinement that a run checks is stated by a theorem. Of the liveness properties,
which the prover cannot state, the part is proved that a fair scheduler cannot repair, an invariant or a step that
never happens; what is left to TLC is that the step it promises is taken:

| liveness, checked by TLC | its safety half, proved | says |
|---|---|---|
| `PostedRuns` | `PassLeavesNothing`, `NoLockCycle` | a pass that ends has left none of its tasks; loops do not wait for one another |
| `JoinReturns` | `SleeperWillWake` | who sleeps has a notify to come |
| `ResidentKeepsRunning` | `SleepsOnlyIdle` without late adds | the worker sleeps only when no task is queued |
| `StartedKeepsFiring` | `ListedUntilTieCorrect` | a started timer is in the list that `tick` reads |
| `Drains` | `BufferedIsArmed` | what is buffered has a write event to come |
| `ConnectingEnds` | `ConnectingIsTimed` | an attempt with a timeout has its timer running |
| `DestructorReturns` | `WaitEnds` | each wait is for a thread that can still end it |
| `ClosedIsRecovered` | `ListIsScanned`, `RecoveredByNextScan` | the next scan takes out whatever is closed |
| `AnswerMakesClient` | `SocketsHeard`, `LookMissesNone` | a socket that can get an answer is registered, or the next look finds it |
| `EndReaches` | `NoEndIsLost` | who has still to learn of an end has a mark of it before it |

`PostedCloseCloses` has none: the one action that takes a close from the queue is the one that closes.

*TaskQueueProofs*: `TypeCorrect`, `OwnerIndexCorrect`, `PassBounded`,
`RunsInOrderCorrect`, `WithdrawnNeverRunsCorrect`. `OwnerIndexExact` is inductive
together with the types of the calls. The others are not: that a task starts after
those before it needs `QueuedAfterRun` (what is queued is newer than all that has
started), which needs `NumbersHandedOut` (no number in the list is above `seq`) and
`NothingLeftBehind` (behind the cursor of a pass only tasks newer than the pass are
left); that a withdrawn task never starts needs `WithdrawnStaysOut`. `IInv` is their
conjunction; one lemma per action shows that the action keeps it. `PassLeavesNothingHolds` is an action property of the same invariant:
behind the cursor nothing is older than the pass, and the pass ends when nothing older is before it.
`NoLockCycleHolds` is about the mutex that `execute` holds through the callbacks. It assumes `PostsAcyclic`: among any loops there is one whose
tasks post to none of the others (to its own loop each may post). `HolderInside` says who can have a mutex, `WaitsAlongPosts` that a
loop waits only in a task and along `TaskPosts`; loops that wait for one another would then be a set that contradicts the hypothesis. Without
it the property is false (deviation 1).

*ThreadObjectProofs*: `TypeCorrect`, `SleeperWillWakeCorrect`,
`OneResidentAfterQuitCorrect`, `DisposibleOnceCorrect`, `SleepsOnlyIdleCorrect`. `Flight` says where a task can be (a task on its way into a queue is in no
queue, no turn and in nobody else's hands), `Places` where the threads are (the worker
adds only in its tasks; from the destructor's clear on nobody else is inside), `Quiet`
that after the order to quit the turn that is under way has nothing left and no new one
finds resident tasks: what may still start is the one task that is `copied`, and only while none has started late. `SleepsOnlyIdleCorrect` is about the use the repository makes of the class (`~lateAdds`): then only the worker's own
tasks add after the start (`Alone`), and so the queues it saw empty still are when it sleeps (`EmptyWhenSeen`). With late adds it is
false (deviation 3).

*TimerShedulerProofs*: `TypeCorrect`, `EntryIsOwnedCorrect`,
`StoppedNeverFiresCorrect`, `OncePerTickCorrect`, `NeverEarlyCorrect`, `ListedUntilTieCorrect`. `tick` calls a pointer out of
`_timer_list`; that it is a started timer follows from `EntryIsOwned` (both maps agree
on each entry) with `KeyIsStarted` (only started timers have a key), and that none is
called twice from `CalledIsFresh` (the entry of a timer that was called in this tick
is newer than the tick). They hold with ties and without; what ties break,
`StartedIsListed`, is deviation 2 of section 6. The last two are about the time before the first tie: `Untied` says that
every started timer then has its entry with the time and the period its owner asked for (`AsAsked`), and
`ClockRead` that the time which `tick` compares with is not ahead of the clock.

*TcpClientChannelProofs*: `TypeCorrect`, `ConsistentCorrect`, `NoSocketLeaksCorrect`,
`ToldTheTruthCorrect`, `NoLateEventCorrect`, all but the first under
`ResultStopsTimeout == \A c \in Configs : c.asserts \/ ~c.immediate`: the build
asserts, or no connect succeeds at once. In a build without assertions a second connect that
succeeds at once leaves a timeout of the first one running, which then takes a
connected channel's state away (see 6); in a build with assertions there is no second connect. The strengthening is `TimeoutIsHarmless`: a timeout
timer that runs finds the channel connecting or closed. `ConnectingIsTimedHolds` needs no premise and is inductive by itself.

The second part of that module is about `TcpSend`: `SendingIsAStream`, `SendingIsArmed`, `SendingTypes`. The first is the refinement of `ByteStream`, one lemma
for the steps that accept a package, are quiet, end `do_send` or are the peer's. Its invariant `Source` says what `src` and `realWrite`
are in each kind of `do_send`; `Left`, what the kernel has not taken yet, is what ties the two levels together: the stream
is what the kernel holds followed by `Left`. `SendingIsArmed` needs of it only what the bytes are: `BufferedIsArmed` is inductive, since `do_send` rests only
after it has sent all there is, met a full kernel or failed.

The third part is about `TcpRecv`: `ReceivingIsWhole` (`PoliteIntact`), `ReceivingIsPrompt` (`NothingLeftWaiting`),
`ReceivingAccounts`. Where a package begins is a sum over the lengths of those before it, a recursive function in the model. No induction
theorem can be cited, but its principle can: a set of numbers has a least one (`LeastOf`), so `SumsExist`, `FirstIs` and `FirstGrows` are
proved of the least place at which they would fail. From them `RecvInv` is inductive: with a polite peer the buffer is the run of bytes from
the package that is expected to the last one read (`Whole`), that run is empty when `do_recv` rests or begins
(`HandedOver`), and what has arrived is read by one `::recv` (`Reading`). `ReadingIsComplete` is about any peer, polite or not, and needs
none of this: `ReadEventUsed` follows the event through the loop, from the `::recv` that found the socket empty to the rest. `ReceivingAccounts` is about any peer too: what `do_recv` writes over, counts twice or
finds at the end of its buffer, `BytesAccounted` says of every byte that `on_recv_buff` sees that `::recv` has read it, once, or that nobody wrote it (`Junk`);
that no more packages are handed over than bytes were read; and of a package which is handed over that its first byte is the first of one of
the peer's and its length is that one's. That the rest of it is right holds of a polite peer only.

*TcpServerProofs*: `WaitProtectsHolds`, `OwnersOutliveListenerHolds`, `NoneForgottenHolds`, `WaitEndsHolds`, `TypeCorrect` and `HandsOverHolds`,
the refinement of `HandOver`. Whether the listen thread has waited is seen only in the counter, so the first needs `Counted` (from the moment it is set, the
counter is the number of workers that are not ready, an argument about cardinalities), `Starting` (the order in which the threads
come up) and `Registered` (a worker that is up is a handler or has its registration posted). The second follows from `Stopping`, the
order of the destructor: no worker is told to quit while the listener runs. For the refinement a connection must be in one place at
a time and there once (`OneHome`: backlog, the calls on their way to one worker, that worker's channels, closed or lost); the lemma
of each action shows that exactly one connection moves, along a step of `HandOver`. `Placed` says the same of the mapped state. `TypeCorrect` bounds `lastPos`, so it needs that no worker registers
twice (`OncePerWorker`, a count over the workers that may still register). `WaitEnds` goes through the three waits of the server: `start` for
the listen thread, the listen thread for the workers, the destructor for the threads it has told to quit; it follows from `Starting`, `Stopping` and `Counted`.

*ServerLoopProofs*: `AliveWhenUsedHolds`, `DescriptorsAccountedHolds`, `ListIsScannedHolds`, `RecoveredByNextScanHolds`, `TypeCorrect`. The loop calls raw pointers of three kinds. Those of a batch
are safe by `Batched`: they are in the list, and only `Idle` takes channels out, after the batch is through. Those of posted calls
are safe by `Living`: who posted has a reference, or has let it go (`careless`). Those of the list are its own references. That
descriptors have one owner needs `Accounted`: a descriptor is posted once, is open then, and whatever the list still
has under its number is no longer normal. The invariant was checked as an invariant of a run with 2 descriptors, 3 channels and 3 tasks first.
`Fds # {}` is assumed: a channel that does not exist yet still has some value of `fdOf`. A scan takes out everything that is closed
because `lastScan` is back at the front whenever one begins.

*Socks5Proofs*: `ToldMeansTargetHolds`, `ConnectNeverAbortsHolds`, `StreamIntactHolds`, `NoEndIsLostHolds`, `TypeCorrect`. The source takes whatever comes in its state
`tunnel` for the reply, so the first one needs to know that nothing else can come. `Handshake`: one package at most
is on its way and what it says fits the proxy's state; `Tunnel`: a package in that state, for a BIND the second one,
has been sent by a proxy whose target or relay is there; `Fresh`: before the request the proxy has neither. The second
follows from `TunnelFollows`: while the tunnel of a CONNECT has a socket, the connection to the source is normal.
`StreamIntact` needs to know where every package is that is not yet received, on each way as long as nothing was written over there (`Streams`); afterwards only the
shape of the queues is known (`ShapeKeeps`, `OverwritesKeep`). `Forward`: what the target has received, what the tunnel
holds for it and what the proxy has not read are one run of numbers, and together all that was said. `FarBack` and `NearBack`
are the way back before and after the tunnel stands, where `Ahead` replies (two for a BIND that waits for its target) come before the
data; `DatagramsKnown` says the same of each leg of the datagrams, which may be lost or repeated, and that one is `whole` until a second one has come through the relay; `ByCommand` which
parts a session of each command has. `NoEndIsLost` is proved through `EndsMarked` (who has closed has left an end or a reset on its connection, and who
has read an end had one to read), `WayBack` and `WayForth`: on the way from one side to the other there is always a mark, or a proxy in a state in
which it will make one. It is stated of a CONNECT and of the relay of an ASSOCIATE; a BIND loses ends (deviations 31 and 32).

The second part of that module is about `UdpChannel`, by which the datagrams go: `ClosedOnceCorrect`, `NothingStrandedCorrect`, `NothingAfterClosedCorrect`. `ClosedOnce`
is inductive by itself; `NothingStranded` needs `SocketHolds`: an event that is due belongs to a watched socket, so a poll that
reports none clears none, and a closed socket holds nothing.

*AresProofs*: `NoDanglingHolds`, `OncePerConnectionHolds`, `ListsExactHolds`, `SettledHolds`, `TypeCorrect`, from `Invariant`. The properties are
about the time between two calls; the actions are pieces of calls that nest to any depth, in the middle of which queries are in no
list, or in that of a server they have left. `Inv` says what holds there, and was an invariant of TLC's run first:

- `Framed`: the calls under way nest by what they do (`Rank`: sending and ending inside freeing, freeing inside the loops that visit
  lists, those inside the reading of sockets), no two of them have the same query in hands (`Claim`), and what one has in hands is what it
  takes it for (`Good`). So a loop that saved its next element finds it as it left it, whatever callbacks did meanwhile.
- `Held`: a query that no call has in hands sits in the lists of its timeout and its server, and is queued or sent at an open socket
  (`Sits`). Between two calls nobody has any in hands: that is `Settled`.
- `Known`: a query knows the connections it is queued at or was sent over, so `next_server` avoids them; answers come only to queries that exist.
- `Cancelling`: a request of a freed query stays behind only within `ares_cancel`, which closes the sockets at its end, unless a callback asked
  again (`loose`).
- `Answering`: a lookup that has begun is answered, or has one query; those whose callback has been called (`Ended`) do not count.
- `Quiet`: without a query no socket is open, except within `ares_cancel`.

There is one lemma per action; those of the steps have lemmas in common on pushing and popping calls (`Push`, `Popped`, `PlainPop`), on
sets of queries, and on the `EXCEPT`s of queries and servers.

The second part of that module is about `DomainResolve`, which asks by this channel: `OthersKeepTheirsHolds`, `SocketsHeardHolds`, `LookMissesNoneHolds`, `DomainTypes`. The first one's invariant, while no mishap has happened: the
helper's descriptors are c-ares' or were at the last look (`lately`), none of those is another socket's, and the others' registrations are theirs.
It needs no assumption on the constants. The others rest on `HearInv`: c-ares has sockets only while it has a query and the helper looks for them (`Asking`),
no more than name servers (`Few`); what the helper does not have it has not registered (`Unlisted`); and without a mishap what it has is registered, or was
closed since its last look (`Followed`), so that a number which is new at the look is indeed free in epoll. That one look reads them all rests on `Few`: `Look` is written
for two sockets at most.

Attempts at proofs changed the model of `DomainResolve` in three places: a new socket of c-ares with a number that was closed earlier in the same turn, and
not just by the step that opens it, counts as `"renumbered"`; a socket of the loop that takes such a number counts as `"reused"` (a
stray `UNCHANGED` had made that step impossible); and `MaxAsks` is not 0.

*Proofs of parts.* `TcpSend` and `TcpRecv` are proved about in the module of the channel they are the base of, `UdpChannel` in that of the proxy that
sends datagrams over it, `DomainResolve` in that of c-ares, which it asks by; so these have names of their own (`SendSpec`, `RecvNext`, `UdpTypeOK`, ...).

*Model-checked only*: all liveness (`PostedRuns`, `StartedKeepsFiring`, `JoinReturns`, `ResidentKeepsRunning`, `Drains`, `ConnectingEnds`,
`PostedCloseCloses`, `DestructorReturns`, `ClosedIsRecovered`, `AnswerMakesClient`, `EndReaches`): fairness and `ENABLED` are out of the
prover's reach; and the type invariant of `UdpChannel`, whose `Withdrawn` is a `SelectSeq`, of which nothing can be shown without induction
over sequences; the theorems about it do not need to know which tasks are queued.

## 6. Deviations met while modelling

They are in the models: the actions do what the code does, and the properties say up to where
they hold. Where a module has an invariant named in brackets, it is what a comment in the code
promises; put into the module's configuration it gives the counterexample.

Threads and timers:

1. `task_queue.cpp:55`: `execute` holds the mutex through the callbacks; tasks of two
   loops that post to each other wait for one another for ever (`TaskQueue`, `[NoLockCycle]` with
   `TaskPosts <- Mutual`).
2. `timer_sheduler.h:40`: two timers due at the same instant share an entry; the
   second is never called, and stopping both fails an assertion (`[StartedIsListed]`).
3. `thread_object.cpp:57`: a task added between the look at the queues and the store
   of the flag is slept over until the next one (`[SleepsOnlyIdle]`).
4. `task_queue.cpp:36`: `del` takes no lock while `add` of another thread may be in the
   same maps (`TaskQueue`, `Overlap`).
5. `thread_object.cpp:57, 70, 73`: the worker reads its queues without the mutex the
   adders hold (`ThreadObject`, `Overlap`).
6. `timer_sheduler.cpp:64`: a period of 0, "none" in `reactor_loop.h:38`, becomes 1000 ms (`Armed`).

TCP channels:

7. `tcp_channel_base.cpp:174`: a second `::recv` writes over the unread bytes (`TcpRecv`, `[PackagesIntact]`; `Socks5`, `garbled`): a proxy loses packages of a
   stream that comes faster than it reads, and passes on bytes that nobody sent.
8. `tcp_channel_base.cpp:214`: packages are popped twice, and the beginning of an
   incomplete one behind them is lost (`[PartialKept]`).
9. `tcp_client_channel.cpp:378`: a connect refused asynchronously is not retried, and nobody is told (`[FailureStartsRetry]`).
10. `tcp_client_channel.cpp:346, 289`: the retry timer is started though the wait is -1.
11. `tcp_client_channel.cpp:273`: the second connect of a channel binds its helpers again
    and their assertion fails (`sockio_helper.cpp:22`), so no retry survives a Debug build.
12. `tcp_client_channel.cpp:189`: a send posted while connected asserts if the channel
    was closed before the task runs.
13. `tcp_client_channel.cpp:201`: `close` leaves the timeout timer running; it fires on a
    closed channel and starts the retry timer.

TCP server:

14. `tcp_server.h:185`: the listen thread leaves its wait at once when it comes before the owner has set
    the count, and listens before the workers are ready (`[ListensWhenReady]`); connections accepted until they
    have registered are closed, and a destructor that comes early meets a worker that calls a deleted listener.
15. `tcp_listen.cpp:112`: an `accept4` that fails leaves the backlog without an event to come.
16. `tcp_listen.cpp:27`, `tcp_helper.cpp:56`: a failing bind gives descriptor 0, which `start` takes for a socket.
17. `tcp_server_channel_creator.cpp:16`: a worker that ends closes no descriptor, neither of its
    channels nor of what is posted to it.
18. `tcp_server_channel.cpp:196`: a second `close` releases again and calls `on_closed` again.
19. `tcp_server_channel.cpp:427-446`: posted calls hold a bare pointer; a channel whose last reference goes before they
    run is used after it was deleted.

UDP, domain names:

20. `udp_channel_base.cpp:230`: an empty datagram ends the reading though more may have come, and no event follows.
21. `udp_client_channel.cpp:254`, `udp_server_channel.cpp`: a close or send that was posted before the release asserts.
22. `domain_async_resolve_helper.cpp:195`: the bits of `ares_getsock` are taken for a number of sockets.
23. `domain_async_resolve_helper.cpp:203`: registrations follow c-ares' sockets once a turn and by number; another socket that gets
    the number in between loses its events.
24. `domain_async_resolve_helper.cpp:91`: an answer without an address calls nobody back.
25. `udp_channel_base.cpp:211` receives each datagram at the beginning of `_read_thunk` and adds its length to what is counted
    already; nothing resets the count, so `on_recv_pkg` gets lengths that grow with every datagram ("this is a complete package",
    `udp_client_channel.cpp:57`) (`[PackageIsComplete]`). A SOCKS5 relay sends all that is counted on (`socks5_associatecmd_tunnel_server_channel.cpp:51-102`), so every datagram but its
    first has other bytes behind its own, of those before it or of none (`Socks5`, `relayThunk`).
26. Nobody calls `ares_process` or asks `ares_timeout` when a query's time has come: `ares_process_fd` runs on events only
    (`domain_async_resolve_helper.cpp:182-190`), so a lost datagram is not repeated.
27. `ares_cancel.c:52` frees queries without what `end_query` does first to their queued requests. If a callback asks again
    (`ares_cancel.c:36-39` expects that), the sockets stay open and with them requests that point into freed queries
    (`Ares`, `loose`). The repository's own callback does not ask again.

SOCKS5:

28. `socks5_server_init_channel.cpp:332`: a refused method or password does not close the connection ("tbd");
    what the source sends then meets `assert(false)`.
29. A target that refuses (`tcp_client_channel.cpp:376`) is told to nobody: the source gets no reply. When it
    closes, the end is passed to a tunnel that is not connected and the proxy keeps the descriptor.
30. Sessions that both sides end in good order leave both descriptors open: an end is answered by
    `shutdown` and `CMS_MANUAL_CONTROL`.
31. `socks5_bindcmd_server_channel.cpp:31`: `on_closed` of a BIND does nothing. Data or a connection of the target
    after the source's error meet the assertion of `send`; the scan then deletes the tunnel without closing its descriptor.
32. `socks5_bindcmd_tunnel_server_channel.cpp:53`: the end of a BIND's target becomes `shutdown(SHUT_RD)`: the source never sees it.
33. A BIND whose listener fails, and an ASSOCIATE whose socket fails, sends no reply (`socks5_bindcmd_server_channel.cpp:52`,
    `socks5_associatecmd_server_channel.cpp:56`).
34. A target given by name is never reached: `make_tunnel_pkg` writes the name without the port
    (`socks5_connectcmd_client_channel.cpp:38-43`), the split ends where the name ends (`socks5_server_init_channel.cpp:139-147`),
    and `decode_addr` misses the port and closes (`AddrDecodes`).
35. An ASSOCIATE whose source ends in good order keeps its relay (`socks5_associatecmd_server_channel.cpp:62`). A connection
    that ends leaves the source's UDP channel open; it closes at the first datagram the relay's host refuses.
36. `socks5_bindcmd_client_handler_origin::on_ctrl_error` has no `return` (`socks5_bindcmd_client_channel.cpp:360-363`): whether the
    control connection closes after an error is undefined.

Shutdown:

37. `task_queue.cpp:71, 88`: `execute` calls the copy it made of an item without looking at the queue again, so a resident task may
    start once after the destructor has cleared the queues (`ThreadObject`, `OneResidentAfterQuit` says no more than once). In the repository that is one turn of a
    reactor loop, which the destructor's join waits for.

## 7. Abstractions

- Timers of the client channel never collide in `TcpClientChannel`; `TimerSheduler`
  shows what happens when they do. The two are not composed yet.
- In `TcpServer` the tasks a loop runs in one turn are one step, and what becomes of a connection in its
  worker is left to `ServerLoop`. Creators are made and destroyed by their own threads.
- In `ServerLoop` what a handler reads and writes is left out: an event may close any channels of the loop.
  Only channels built by a factory that returns a `shared_ptr` are there.
- In `DomainResolve` the channel of c-ares (`Ares`) is reduced to its sockets: it opens one socket per question, closes all when a query ends
  or one when it fails, and answers under either name. The stack slot that `on_idle_cmp` reads uninitialized
  is any number.
- In `Ares` configuration is as `ares_init` leaves it without a `resolv.conf` of special options (no EDNS, no rotation, UDP first, IPv4 lookups), memory
  does not run out, query numbers are not used again while an answer may be on its way, and a call of `ares_process_fd` is for one socket.
  A part of a message read or written counts as nothing. `ares_cancel` inside a callback is left out; the repository calls it outside.
- In `Socks5` a package is one element and arrives whole unless `do_recv` writes over it; nothing is held back by a full
  buffer (`TcpSend`), the application closes on every error, a session has one connection per side, one connection
  breaks at most, and assertions are compiled in. Of bytes that were written over, one run is one element, which a reader takes at once; it stands for bytes of any kind,
  so no order is claimed behind it. That such bytes in the handshake read as another valid request, or methods, is left out. Of a datagram the model knows whether bytes of
  others follow it, not which. Datagrams to the source's UDP channel come from the relay only; one of anybody else before
  `switch_normal` would meet an assertion.
- Posted tasks and events interleave more freely in `TcpClientChannel` than in a turn of
  the loop, which runs poll, tick, tasks and idle in this order.
- The server's address parses. `set_release` has no caller for clients.
- CMake's default build type is Debug, so assertions count; Release is modelled by
  `config.asserts = FALSE`. `REUSEPORT` is not defined by default.
- CPU affinity, logging, socket options and `shutdown` (no state of the channel) are left out.
- `execute` of the persistent (resident) queue is in `ThreadObject`, of the other kind in both modules.

## 8. Not modelled

`PROJECT.json` gives a reason per component. In short: the control connection and filters of the BIND client
(`socks5_bindcmd_client_channel`, `socks5_bindcmd_filter*`), which combine
channels that are modelled; IPv6; `tcp_client_channel_domain`; several idle helpers in one loop and
`reactor_loop::invalid`; the arithmetic of `buffer_thunk` and the serializers, which are sequential; system-call
wrappers; examples; and of c-ares what is neither lookup nor channel: its configuration, the tables of platforms, package
formats, the other lookups and its programs, which make up most of the lines of the repository.

## 9. Plan

1. Proofs: none of a property that a run checks is left. Worth proving next: of the liveness properties, the measure that decreases
   (`EndReaches`: packages before an end; `PostedRuns`: numbers before a task), as action properties.
2. Composition of `TcpClientChannel` with `TcpSend` and `TcpRecv` over a second connection, for the bytes that stay in the thunks.
3. Several idle helpers and timers in the turn of `ServerLoop`.
