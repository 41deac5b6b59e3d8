# A TLA+ model of futures_cpp

futures_cpp is a C++ library of poll-based futures: a future is an object with a
`poll()` that returns a value, an error or "not ready"; a *task* is a spawned
future that an *executor* polls, and that whoever makes progress possible
*unparks*. This directory models the library from the wake-up protocol of one
task up to RPC connections and a connection pool, checks the models with TLC on
small instances, and proves with TLAPS, for instances of any size, every safety
property that holds in the runs.

All source paths below are relative to `src/include/futures/` unless they begin
with `src/`.

## 1. The system and its parts

| Part | State | Operations | What is hard |
|---|---|---|---|
| Spawned task: `FutureSpawnRun`, `Inner`, `UnparkMutex`, `Task` (`Future.h`, `UnparkMutex.h`, `Task.h`) | `status_`, `data_`, the `Runnable`'s owner | `run`, `start_poll`, `wait`, `complete`, `notify`, `unpark` | unparks at every point of a poll; stale loads; two threads moving `data_` |
| CPU pool (`CpuPoolExecutor.h`) | `q_`, `is_running_`, condition variable, threads | `spawn`, `execute`, `worker`, `stop` | stop against spawn and unpark; lost notifications; dropping a Runnable |
| Oneshot channel, promise (`channel/OneShotChannel.h`, `Promise.h`) | `s_`, `v_`, `rx_task_`, mutex | `send`, `poll`, `cancel`, `closeSender`, `closeReceiver` | unpark under the mutex; close against send |
| Event loop (`EventExecutor.h`) | `q_`, `foreign_q_`, `wait_stop_`, `pendings_`, signaler | `run`, `execute`, `spawn`, `stop`, `merge_queue`, watchers | sleeping on work; stop; exceptions; counting running tasks |
| Event thread pool (`EventThreadPool.h`) | one loop per thread | `start`, `spawn`, `stop`, `join` | calls from a plain thread |
| MPSC channel (`channel/UnboundedMPSCChannel.h`) | queue, sender count, receiver's task | `send`, `poll`, `closeSender`, `closeReceiver` | count decremented outside the mutex |
| Buffered channel (`channel/BufferedChannel.h`) | bounded queue, waiting readers and writers | `doSend`, `doRecv`, `trySend`, `tryRecv` | backpressure, order, waiters that go away |
| Shared future (`Future-inl.h`) | inner future, waiters, result | `poll`, destructor | the polling task goes away |
| Combinators (`Future-inl.h`, `detail/`), streams and sinks | state machines over children | `poll` | polling after the end, partial failure |
| I/O objects, completion tokens (`io/WaitHandleBase.h`) | lists of tokens, token state, reference counts | `attach`, `cleanup`, `notifyDone` | completion against cancellation |
| Timers (`Timer.h`, `TimerKeeper.h`, `Timeout.h`) | armed timer, ordered tokens | `start`, `onTimer`, `poll` | order of deadlines, timeout against result |
| Sockets (`io/AsyncSocket.h`, `src/src/AsyncSocket.cpp`, `io/AsyncServerSocket.h`), pipes, signals, SSL | connection state, shutdown flags, token lists | `doConnect`, `doRead`, `doWrite`, `shutdownWrite`, `onEvent` | partial writes, shutdown with writes pending |
| Framing and RPC (`io/IoFuture.h`, `service/`) | buffers, calls in flight, promises | `poll`, dispatch, `startSend`, `pollComplete` | close with calls in flight, duplicate ids |
| Codecs (`src/src/L*Decoder.cpp`), HTTP, websocket | buffer | `decode`, `encode` | arithmetic at boundaries |
| MySQL client (`src/modules/futures_mysql/`) | connection state, current and pending requests, idle connections | `stateMachine`, `doCommand`, `checkin`, `reapConnections` | requests dropped half way, reuse of connections |
| Redis, zookeeper, readline (`src/modules/`) | sessions of client libraries | queries, callbacks | callbacks after cancel |

How they interact: a leaf future (channel, token, timer) stores a copy of the
current `Task` when it is not ready. `Task::unpark` goes to `Inner::unpark`,
which asks the `UnparkMutex` for the `Runnable`; whoever gets it hands it to
`Executor::execute`. The executor polls it again or, once it has been stopped,
destroys it, together with the future and everything the future holds.

`PROJECT.json` lists every part with its status, and the hazards of the code at
the lines where they bite, also those no property covers.

## 2. Modules

| Module | Models | Code |
|---|---|---|
| `WakeableTask` | abstract specification of one task: `phase` and `woken` | what `FutureSpawnRun` promises |
| `UnparkMutex` | one task in detail, each atomic operation a step | `UnparkMutex.h`, `FutureSpawnRun::run`, `Inner::unpark` |
| `OneShotChannel` | the channel as operators on a record | `channel/OneShotChannel.h` |
| `CpuPoolExecutor` | pool, jobs, the promises the jobs wait for, the clients that wait for the results | `CpuPoolExecutor.h`, `Promise.h`, `ThreadUnpark` |
| `EventExecutor` | the loop, its tasks and I/O objects, threads of other executors | `EventExecutor.h` |
| `FifoChannel` | abstract specification of a channel: a queue with senders that wait behind it, closed and then ended | what both channels promise |
| `UnboundedMPSCChannel` | sender objects, the receiver and its task | `channel/UnboundedMPSCChannel.h`, `channel/ChannelStream.h` |
| `BufferedChannel` | bounded queue, waiters, the tasks of writers and readers | `channel/BufferedChannel.h` |
| `TimerKeeper` | one timer for many timeouts | `TimerKeeper.h`, `Timeout.h`, `io/WaitHandleBase.h` |
| `SocketChannel` | a socket, its tokens and watchers, kernel and peer | `io/AsyncSocket.h`, `src/src/AsyncSocket.cpp`, `io/Channel.h`, `io/ChannelFutures.h` |
| `RpcConnection` | client and server joined by a connection | `service/`, `io/IoFuture.h` |
| `MysqlPool` | connections and their pool | `src/modules/futures_mysql/` |
| `Lists` | sequences seen as lists: elements, prefixes, unlinking, counting | |
| `MCSocketChannel` | the write vectors of the checked instance | |
| `*Proofs` | theorems (section 4) | |

A definition named `X_Something` above `X` is a variant of `X` with a plausible
defect. The specifications do not use it; replacing `X` by it shows that the
properties notice the defect. `PROJECT.json` maps each definition to its lines.
The definitions of `UnparkMutex`, `UnboundedMPSCChannel` and `TimerKeeper` carry
the module's name (`MutexSpec`, `ChannelSpec`, `KeeperSpec`), so that a module of
proofs can extend one of them together with another component.

**WakeableTask / UnparkMutex.** `status` is `status_` and `data` says whether
`data_` holds the Runnable. A worker's `pc` names the statement of `run()` or
`wait()` it executes next, a waker's the statement of `notify()`, and `seen` is
`notify()`'s local `status`. The Runnable has no variable: it is in the queue
(`queued`), in `data`, or with a thread whose `pc` says so (`Holds`), and the
model allows it to be in several places. The future is an event source that
unparks the registered task; besides, any holder of a copy may unpark at any
time. All atomics of the code are `seq_cst`, so interleaving is the right memory
model. The refinement mapping computes `phase` and `woken` from `status`, the
Runnable's place and `dropped`; no history variable is needed. The modules
below use tasks at this abstract level.

**CpuPoolExecutor.** The pool has `NumThreads` workers, the constructor's
argument. Job `j` is `pool.spawn(p.getFuture())`; a *setter* thread
sets, cancels or destroys `p`; a *client* thread waits for the result with
`wait()` or, if it is in `Impatient`, drops the result's future. Critical
sections of `mu_` are single steps. The mutex of the promise's channel is
explicit (`held`), because the setter keeps it while it unparks the job and so
while it runs `execute()`. A promise that is set with an exception reaches the
client exactly as a cancelled one does, so it is not a case of its own.

**EventExecutor.** `lpc` is where `run()` stands. `io` is `pendings_`, `clone`
the tasks of which a channel holds a copy, `sent` libev's flag of the async
watcher. Tasks are spawned and unparked by the task that is being polled
(`SpawnHere`, `UnparkByTask`), by the loop's callbacks (`UnparkHere`) and by
threads of other executors (`ForeignSpawn`, `ForeignUnpark`). `getRunning()` is the number of `Inner`s that exist, computed
by `Running`. `leaked` marks an `Inner` nobody will destroy: the Runnable of a
`poll` that threw (`run()` is left before `delete`), or a task destroyed by a
thread that then blocks on a channel's mutex. libev itself is external: one
iteration of EVRUN_ONCE waits for the signaler or an I/O object and calls back.
`PlainThreadSpec` adds threads without an executor of their own.

**UnboundedMPSCChannel.** Sender objects come from
`makeUnboundedMPSCChannel` or by copying. Destroying one takes two steps, since
`closeSender` counts down before it locks. The receiver's task polls a
`ReceiverStream` and may go away at any poll. `received` and `ended` record what it
saw; together with `q_` they are mapped to `FifoChannel`.

**BufferedChannel.** Each writer sends one value with `trySend` or a
`SendFuture`, each reader receives one with `tryRecv` or a `RecvFuture`, and
either may drop its future. `st` is the waiter, `pc` the task. Serving a
`WriteWaiter` sets its `ptr_` to null, and `isReady()` and the destructor read
`ptr_` before they lock it; doing so after being served sets `crashed`, and
nothing happens any more. In the mapping to `FifoChannel` `q_` is what was
accepted, the waiting writers are those that wait behind it, and the dropped ones
are `gone`: a waiting `SendFuture` has its place in the order from the moment it
waits, a value in `q_` stays there until it is received, and only a value that
still waits goes away, with its own writer.

**TimerKeeper.** `list` is the list of tokens, `armed` the time `timer_` is set
to, `tok`, `deadline`, `fut` and `task` belong to each client, which runs
`timeout(keeper, f)`. A poll tries the timer first and the future second, so a
future that becomes ready together with its timeout loses, as in the code.

**SocketChannel.** `s` and `flags` are `s_` and `shutdown_flags_`; `rio` and
`wio` tell whether the two watchers are started. A write is a vector of buffer
lengths; a `writev` may stop anywhere in it, at a boundary, or fail. `wire`
records to which write each byte sent belongs. The reader is one `ReadStream`
with its buffer. The user may drop the connect, a write or the reader at any
time; the channel goes on. The kernel and the peer decide what each call does.

**RpcConnection.** Two `RpcFuture`s, each with dispatcher, framed stream and
sink; one poll is one step. `mode` chooses the pipelined or the multiplexed
dispatchers. A frame is the id of its call. The channel keeps one write in
flight, finished by a later event, and its shutdown waits for that write. Calls
can be made and the dispatcher closed at any time. Calls made after the
dispatcher was closed are accepted, as the code does, and recorded in `late`; they
wake nobody, since a closed dispatcher has no `task_`.
The `RpcFuture` is taken to be the last owner of its channel.

**MysqlPool.** `run` is the connection whose `stateMachine()` is on the stack:
each non-blocking call is a step, together with the state that handles what it
returns; `OnEvent` starts a round when a call that had to wait can go on. The
five commands differ in their errors and rows, so one `START`/`CONT` pair and
`Kinds` stand for them. Clients get connections, issue commands, drop futures,
check connections in, and the pool's timer closes the old ones. An exception of
`createStatement()` or `bind()` leaves `stateMachine()` with the request current
and its state a `_START` (`Throws`); the watcher, which is never stopped, may
start the command again. A failed `FUTURES_CHECK`, a fatal log entry (`Aborts`) or
a failed assert ends the process (`died`). The last happens when a future is
dropped whose request is queued and not current (`DropFuture`): unlike a
`ConnectRequest`, a `WriteCommandRequest` does not cancel itself when it is
destroyed.

## 3. Runs

| Run | Instance | States | Result |
|---|---|---|---|
| `unpark` | 2 workers, 3 wakers, 2 events | 127,023 | all properties hold |
| `cpu_pool` | 2 workers, 2 jobs, one impatient client | 132,628 | all hold |
| `cpu_pool_drop` | 1 worker, 1 job | to the violation | `DroppingIsEnough` violated |
| `event_loop` | 2 tasks, 2 foreign threads, 2 polls per task, 2 calls of `run()` | 106,316 | all hold |
| `event_loop_ends` | 1 task, 1 foreign thread | to the violation | `RunEndsWithItsTasks` violated |
| `event_loop_plain_thread` | 1 task, 1 foreign thread | to the violation | `ScheduledIsPolled` violated |
| `mpsc` | 3 senders, 2 values each | 140,092 | all hold |
| `buffered` | 4 writers, 2 readers, size 2 | 105,821 | all hold |
| `timer` | 3 clients, timeout 2, time up to 4 | 143,672 | all hold |
| `socket` | 2 writes of 0, 1 or 3 bytes, 2 bytes from the peer on their way | 256,875 | all hold |
| `rpc` | 3 calls, 2 in flight, both modes | 43,150 | all hold |
| `mysql` | 2 connections, 3 requests, 1 idle, 1 row | 128,114 | all hold |

What the properties say:

- `unpark`: the Runnable has exactly one owner until the task is over
  (`OneRunnable`); the assert of `wait()` holds (`FailedWaitSeesRepoll`); while an
  event is untaken another poll is on its way (`NoLostWakeup`), and it happens
  (`EventIsTaken`); all of it implements `WakeableTask` with its liveness
  (`ImplementsTask`). That a task that is over stays so is part of `WakeableTask`;
  `OverIsFinal` says it of `status_` itself and is proved only.
- `cpu_pool`: a queued Runnable has an awake worker (`QueueIsServed`); `stop()`
  drains the queue and returns (`StopDrains`, `StopReturns`); the client gets what
  became of the job, always (`ResultIsTrue`, `ClientIsAnswered`); the result is
  sent once (`ResultSentOnce`).
- `event_loop`: the loop never blocks with work to do (`NeverSleepsOnWork`) and
  polls what it was handed (`ScheduledIsPolled`); it does not decide to return
  with a task half way (`ReturnAbandonsNobody`); the watcher list holds no object
  of a dead task (`NoDanglingWatcher`); `stop()` ends `run()` (`StopReturns`), and
  `run()` ends by itself when its tasks waited for nothing but the loop
  (`LocalRunReturns`).
- `mpsc`: the receiver sleeps only while there is nothing for it
  (`SleepsOnNothing`); the channel is a FIFO queue that loses no value, and whose
  end comes after its last value (`ChannelIsFifo`); each value that was sent is
  received, and the end is seen, unless the receiver goes away (`SentIsReceived`,
  `EndIsSeen`).
- `buffered`: the bound holds, and writers wait on a full queue only, readers on
  an empty one only (`Balanced`); a served waiter is off its list and its task
  awake (`ServedIsAwake`), and a reader takes the value it was given
  (`HandedIsTaken`); values come out in order, those that had to wait keep their
  place, and none is lost but that of a writer dropped while it waits
  (`ImplementsFifo`); the null pointer is read only after the channel has taken in
  more values than fit and handed one out, so a channel that never overflows is
  safe (`CrashNeedsBackpressure`).
- `timer`: the one watcher is early enough for every token (`NoTokenIsMissed`);
  the list holds the waiting tokens and no dead one (`ListIsAlive`); a task with a
  timeout ends (`TimeoutEnds`).
- `socket`: what waits is watched, and a closed channel keeps nothing
  (`PendingIsWatched`); the peer gets whole writes, unmixed (`StreamIsWhole`);
  the reader hears of the end after all data (`EofIsLast`); pending writes end,
  and a pending shutdown is carried out (`ShutdownHappens`).
- `rpc`: an answer goes to its call (`AnswersMatch`); calls end (`CallsEnd`),
  unless frames are stranded in a sink; after a `close()`, or once one side has
  ended, both `RpcFuture`s end (`BothEnd`).
- `mysql`: a connection works on one request, and none is forgotten
  (`OneAtATime`); only open, idle, error-free connections without requests are
  pooled (`OnlyGoodOnesArePooled`; "error" is what `errors_` counts, and an
  exception is not counted); a STARTED request belongs to its future or to
  `current_`, so that it is not destroyed half way (`StartedIsOwned`); requests end while the process lives, except behind a
  `ConnClose` and on a connection whose command threw (`RequestsEnd`).

The three violations are disagreements between the code and its own text:

- `cpu_pool_drop`. A comment in `execute()` asks "XXX dropping the run is
  enough?". The promise is set after `stop()`; the unpark, made under the mutex
  of the promise's channel, makes the pool destroy the job; the job's receiver
  locks that mutex again, and the setter never returns. The job's client is
  answered all the same, since the sender is destroyed first (`ClientIsAnswered`
  holds).
- `event_loop_ends`. `src/README.md` says that `loop.run()` runs "until no more
  tasks". `getRunning()` is tested before the loop blocks; a task that finished
  while a promise elsewhere held a copy of its `Task` stays counted until that
  promise is destroyed, and its destruction does not wake the loop.
- `event_loop_plain_thread`. A thread with no executor takes the branch of
  `execute()` meant for the loop's own thread: it pushes without lock or signal,
  and a blocked loop does not notice. `EventThreadPool::spawn` and `stop`, called
  from the main thread, do exactly this. (That the push is also a data race on
  `q_` is not needed for the violation, and not modelled.)

A fourth disagreement has no run of its own. `~CompletionToken` asserts
`s_ != STARTED`. A request queued behind another is owned by its future alone; when
that future is dropped the request is destroyed STARTED and in the connection's
list, because `WriteCommandRequest` has no destructor that cancels it. `DropFuture`
of `MysqlPool` sets `died` there, and `StartedIsOwned` says that this is the only
place where the assert fails.

Behaviours of the code that no text of the repository contradicts are followed by
the models, and the properties name the exception where there is one:

- a `SendFuture` of the buffered channel that waited and was served dereferences
  null when it is polled or destroyed, unless it read `ptr_` before;
- a write made while the socket is CONNECTING is neither attached nor failed, and
  the token of a `connect()` that fails at once stays attached to an INITED
  channel;
- with a shutdown pending, the first queued write that is not empty completes and
  the others fail with `connection_aborted`;
- a write dropped half way leaves half a message in the stream, and a cancelled
  reader loses what its buffer held;
- `FramedSink::pollComplete` is ready once the write in flight is done, even with
  newer frames queued; they stay there until something else wakes the side
  (`Stranded`);
- a server whose `max_inflight` is 1, the default, ends the connection of a client
  that pipelines two requests;
- a call made after `close()` may get the answer to a call made before, or none;
- requests queued behind a `ConnClose` stay pending for ever, as do those of a
  connection whose command threw, unless an event of its watcher restarts it;
- an exception out of a task leaves its `Inner` counted, and `run()` does not
  return any more (`StopReturns` and `LocalRunReturns` except this);
- `PREPARE_STMT_EXEC_START` goes on to `_CONT` even if its call has returned.

**Bounds.** Two workers are needed for two threads to hold one Runnable, three
wakers for one that moves `data_`, one with a stale load and one in flight; two
events let a second arrive after the first was taken. Two jobs on two workers
give a job queued behind another, a worker parked while another is busy, and a
pill taken by either. Two tasks and two foreign threads let one task keep the
loop alive while the other is handed over, and two pushes compete for `mu_`; two
calls of `run()` reach the state an exception leaves behind. `MaxPolls` = 2
lets each task park once; parking again repeats the same states. Three senders
let the last close race with a copy and a send. Four writers on two places give
two waiting writers, of which either goes away, and a third that comes later;
two readers wait together on an empty queue. Three tokens put one between the
front and the back of the list; time 4 lets a timer be armed twice. Two writes,
one of two buffers, stop in and between buffers, with another write behind them.
Three calls with two in flight exceed the server's limit, and answers come out of
order. Two connections, one idle place and three requests fill the pool and
queue two requests behind one. All bounds (`MaxEvents`, `MaxPolls`, `MaxRuns`,
`MaxSends`, `MaxTime`, `PeerMax`, `NCalls`, `NReqs`, `NConns`, `MaxRows`) are in
the guards of the actions.

**Fairness.** Weak fairness for every thread with a statement to execute: the
scheduler's. Workers and the loop take what is in their queue, as their loops do.
In `CpuPoolExecutor` the promises are eventually set, cancelled or destroyed;
`stop()`, a client's drop and spurious wakeups are never assumed. In
`EventExecutor` started I/O completes (part of `LoopFairness`) and foreign
promises are fulfilled and destroyed (`SourceFairness`); without the latter a
task may wait for ever, which is the program's business and not the library's.
In the channels, tasks that are scheduled are polled and destructors that have
begun go on; nobody has to send, receive or drop. In `TimerKeeper` time passes
and due watchers call back. In `SocketChannel` the loop reports a readable or
writable socket, which assumes a peer that reads. In `RpcConnection` both loops
run, bytes arrive and the service ends what it starts. In `MysqlPool` a round
that has begun goes on (weak), and the event a call waits for comes and the
server answers (strong, because another connection's round disables them for a
while). Deadlock is not checked in any run: all of these systems may come to rest
(task over, pool stopped, bound reached, no caller).

## 4. Proofs

The theorems hold for all values of the constants that satisfy the `ASSUME`s of
the modules: a finite set of tasks in the loop, at least one thread in the CPU
pool, disjoint sets of threads, non-zero sizes and timeouts, writes without empty
buffers. They do not depend on the bounds of the runs.

| Module | Theorems |
|---|---|
| `EventLoopProofs` | of a task: `MutexInvariance`, `MutexTypeCorrect`, `OneRunnableHolds`, `RepollAssertHolds`, `NoLostWakeupHolds`, `OverIsFinalHolds`, `TaskRefinement` (`MutexSpec => Task!Spec`); of the loop: `Invariance`, `NeverSleepsOnWorkHolds`, `ReturnAbandonsNobodyHolds`, `NoDanglingWatcherHolds` |
| `CpuPoolExecutorProofs` | `Invariance`, `QueueIsServedHolds`, `StopDrainsHolds` |
| `CpuPoolResultProofs` | `ResultInvariance`, `ResultIsTrueHolds`, `ResultSentOnceHolds` |
| `ChannelProofs` | of the buffered channel: `Invariance`, `BalancedHolds`, `ServedIsAwakeHolds`, `CrashNeedsBackpressureHolds`, `FifoRefinement` (`Spec => ImplementsFifo`); of the unbounded one: `ChannelInvariance`, `SleepsOnNothingHolds`, `ChannelRefinement` (`ChannelSpec => ChannelIsFifo`) |
| `CallProofs` | of timeouts: `KeeperInvariance`, `NoTokenIsMissedHolds`, `ListIsAliveHolds`; of RPC connections: `RpcInvariance`, `AnswersMatchHolds` |
| `SocketChannelProofs` | `PendingIsWatchedHolds`, `EofIsLastHolds`, `StreamIsWholeHolds` |
| `MysqlPoolProofs` | `Invariance`, `OneAtATimeHolds`, `OnlyGoodOnesArePooledHolds`, `StartedIsOwnedHolds` |
| `ListsProofs` | lemmas about `Lists` that the four modules above share |

Each component has an inductive invariant (`MutexInv` for the task,
`ChannelInv` for the unbounded channel, `KeeperInv` for the timeouts; `IInv`
elsewhere, with `ResultInv` for the results of the CPU pool and `StreamInv` for the
bytes on a socket), proved with one lemma or step per
action; the properties follow from it.

- `UnparkMutex`: `OneRunnable` is not inductive, since a waker that saw
  `kWaiting` may take `data_` only because `status_` and the Runnable's place
  agree. `Ownership` says for each place which values `status_` may have.
  `NoLostWakeup` is inductive relative to it. The refinement maps `WaitCas` to
  `Park`, `WaitStore` to `Repoll`, `NotifyPolling` to `Unpark`, and so on.
- `CpuPoolExecutor`: `Pilled` counts pills against the threads that are left and
  puts them behind all jobs; `OnWorkers` and `InQueue` give each scheduled or
  polled job one place. For the results, `Promised` and `Answered` say on top of
  that what each job's two channels hold in each phase. Without them the truth of a
  result cannot be carried from the promise to the client.
  "As many pills as threads" is said with `Numbered`: a list of that length has
  each of the threads once. `UnboundedMPSCChannel` counts its senders in the same
  way, and neither proof needs the theory of cardinality.
- `EventExecutor`: `Placed` gives a scheduled task one place among `q_`,
  `foreign_q_` and the foreign threads; `Served` says from which points of
  `run()` on `q_` is empty, and that what was pushed since the last merge is
  announced.
- `UnboundedMPSCChannel`: `Counting` makes `senders_` the number of sender objects
  alive, so that the destructor that sets `sender_closed_` is the last; `Watching`
  keeps the Task in `rx_task_` from the poll that stored it on.
- `BufferedChannel`: `Balanced` is what lets the loops of `notifyReader` and
  `notifyWriter` run at most once; `Listed` and `Awake` tie lists, waiters and
  tasks together. The refinement uses both. `ServedAfterOverflow` says of every
  served writer, crashed or not, that the channel has overflowed before it;
  `Balanced` gives this at the step that serves one, and it lasts because values
  accepted are never lost.
- `TimerKeeper`: `Ordered` (deadlines grow along the list, and none is later than
  now plus the timeout) is why arming for the front is enough (`Covered`).
- `SocketChannel`: `Phases` says what is impossible before the connection and
  after the close. `StreamIsWhole` speaks of the wire alone and is not inductive:
  `Portions` says that the bytes of a write on the wire and those left in its vector
  make up the write, `Blocks` that the bytes of a write are next to each other, and
  `AtEnd` that only the first write of the queue can have begun and that its bytes
  are then the last on the wire. A `writev` that takes several writes and part of
  another is followed write by write.
- `RpcConnection`: a frame of a pipeline does not say whose answer it carries, so
  `AnswersMatch` depends on everything between the two dispatchers. `InOrder` says
  that the client's promises are the calls found on the way round: answers read,
  on the wire and in the server's sink, calls being served, requests read, on the
  wire, in the client's sink and not sent, in this order. `Writing` empties a write
  that has ended, and `LateOnly` says that a closed dispatcher waits for calls made
  after the `close()` only.
- `MysqlPool`: `Serial` ties the state of a connection to its current request and
  its queue, which holds exactly the requests that are started on it; `Held` says
  that a future's request has not ended, so that dropping the future of a current
  request leaves the request to `current_`; `Pooled` keeps the queue of a pooled
  connection empty also while a late event runs its state machine. `StartedIsOwned`
  is inductive relative to them.
- `ListsProofs`: what unlinking, cutting and joining lists do to their elements and
  order. The facts about `Total` (the bytes of a vector) and `Omit`, and about
  `Count` (the bytes of a write on the wire), need induction over a sequence. No
  theorem with an operator as its parameter can be instantiated, so they are proved
  from the least counterexample.

Only model-checked: liveness, which is out of the prover's reach (`EventIsTaken`
and the fairness that `ImplementsTask` promises; `ClientIsAnswered`, `StopReturns`,
`ScheduledIsPolled`, `LocalRunReturns`, `SentIsReceived`, `EndIsSeen`,
`HandedIsTaken`, `TimeoutEnds`, `ShutdownHappens`, `CallsEnd`, `BothEnd`,
`RequestsEnd`). The three violations are TLC's counterexamples.

## 5. Not modelled

In the modelled parts: jobs of the CPU pool that throw out of `poll` (the
exception ends the thread), `stop()` called by a job or by two threads, the
lifetime of executors, data races on intrusive lists, the spinning of `wait()`
after its first unpark, the copy assignment of an MPSC sender (it does not count
the copy), `SO_ERROR` reporting `EINPROGRESS`, two calls with the same call id,
a second `doConnect` after one that failed at once, and in the MySQL client the
blocking close of a statement, `Transaction`, futures that are first polled after
their connection was checked in, the Runnable that an exception leaks together
with its future, the watchers that stay active on a closed connection, and the
last-used time.

Parts left out, and why:

- third-party code in the tree (folly extracts, libev, libae, udns, http_parser,
  hiredis), which is most of the lines under `src/`; what the library uses of it
  is part of the actions;
- clients whose control is that of a callback library: SSL (OpenSSL's want-read
  and want-write), DNS (udns), Redis (hiredis), Zookeeper, readline, HTTP parsing.
  The order of their callbacks is not in the repository, and a model would be one
  of guesses;
- combinators of futures and streams, which are sequential and one transition
  each; `Timer.h`, the server socket, pipes and signals, which repeat a part of
  `TimerKeeper` or `SocketChannel` with less state;
- `SharedFuture`, which has a second wake-up protocol of its own, and
  `EventThreadPool`'s `start` and `join`, which touch an unsynchronised vector and
  would be a model of a data race;
- the line and length-field decoders, which are byte arithmetic over a bundled
  buffer type.
