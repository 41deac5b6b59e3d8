----------------------------- MODULE UnparkMutex -----------------------------
(***************************************************************************)
(* One spawned task at the granularity of its atomic operations:           *)
(* FutureSpawnRun::run on the thread of an executor, Inner::unpark on any  *)
(* other thread, and the UnparkMutex (status_, data_) the two share.       *)
(*                                                                         *)
(* The Runnable (the FutureSpawnRun that owns the future) is passed around *)
(* by unique_ptr.  It is in the executor's queue (`queued` counts it), in  *)
(* the hands of a worker (between run()'s start and the store to data_),   *)
(* in data_, or in the hands of a waker on its way to Executor::execute.   *)
(* Nothing in the model's shape stops it from being in two places.         *)
(*                                                                         *)
(* The future is abstract: it waits for events of one source.  A poll      *)
(* takes the events that have arrived and, when not ready, registers the   *)
(* current task with the source, as every leaf future of the library does. *)
(***************************************************************************)
EXTENDS Integers

CONSTANTS Workers,    \* threads of the executor
          Wakers,     \* threads that hold a Task and may unpark it
          MaxEvents   \* bound: events the source delivers

ASSUME ThreadsAssumption == Workers \cap Wakers = {}
ASSUME MaxEventsAssumption == MaxEvents \in Nat

VARIABLES
  status,      \* UnparkMutex::status_
  data,        \* UnparkMutex::data_ holds the Runnable
  queued,      \* number of Runnables of this task in the executor's queue
  dropped,     \* the executor destroyed the Runnable
  pc,          \* where each thread is
  seen,        \* notify()'s local variable `status`, per waker
  fired,       \* events delivered so far
  avail,       \* events delivered and not yet taken by a poll
  registered,  \* the source holds the task's Task, to be unparked
  shared       \* some poll has handed a copy of the Task out

unparkVars == <<status, data, queued, dropped, pc, seen, fired, avail, registered, shared>>

mutexVars  == <<status, data>>
sourceVars == <<fired, avail, registered, shared>>

Statuses  == {"kWaiting", "kPolling", "kRepoll", "kComplete"}
RunPcs    == {"start_poll", "poll", "wait_data", "wait_cas", "wait_store", "complete"}
NotifyPcs == {"load", "switch", "execute"}

\* FutureSpawnRun(exec, spawn) followed by Executor::execute.
MutexInit ==
  /\ status = "kWaiting"
  /\ data = FALSE
  /\ queued = 1
  /\ dropped = FALSE
  /\ pc = [t \in Workers \cup Wakers |-> "idle"]
  /\ seen = [k \in Wakers |-> "kWaiting"]
  /\ fired = 0
  /\ avail = 0
  /\ registered = FALSE
  /\ shared = FALSE

Goto(t, label) == pc' = [pc EXCEPT ![t] = label]

\* Variant: a plain store takes the place of the exchange.
Exchanges_Always(expected) == TRUE

\* compare_exchange_strong succeeds.
Exchanges(expected) == status = expected

-----------------------------------------------------------------------------
(* FutureSpawnRun::run, on a worker *)

\* The executor's loop pops the Runnable and calls run().
PopRun(w) ==
  /\ pc[w] = "idle" /\ queued > 0
  /\ queued' = queued - 1
  /\ Goto(w, "start_poll")
  /\ UNCHANGED <<mutexVars, dropped, seen, sourceVars>>

\* Variant: run() forgets start_poll().
StartPoll_NoStore(w) ==
  /\ pc[w] = "start_poll"
  /\ Goto(w, "poll")
  /\ UNCHANGED <<mutexVars, queued, dropped, seen, sourceVars>>

\* A plain store: it may overwrite kRepoll, which is harmless because the
\* poll that follows comes after whatever the unpark announced.
StartPoll(w) ==
  /\ pc[w] = "start_poll"
  /\ status' = "kPolling"
  /\ Goto(w, "poll")
  /\ UNCHANGED <<data, queued, dropped, seen, sourceVars>>

\* spawn_.poll_future(inner_): the future takes what has arrived and is ready
\* (or failed), or it is not ready and has left its Task with the source.
PollFuture(w) ==
  /\ pc[w] = "poll"
  /\ avail' = 0
  /\ \/ Goto(w, "complete") /\ UNCHANGED <<registered, shared>>
     \/ Goto(w, "wait_data") /\ registered' = TRUE /\ shared' = TRUE
  /\ UNCHANGED <<mutexVars, queued, dropped, seen, fired>>

\* wait(): data_ = std::move(data)
WaitData(w) ==
  /\ pc[w] = "wait_data"
  /\ data' = TRUE
  /\ Goto(w, "wait_cas")
  /\ UNCHANGED <<status, queued, dropped, seen, sourceVars>>

\* wait(): compare_exchange_strong(kPolling -> kWaiting)
WaitCas(w) ==
  /\ pc[w] = "wait_cas"
  /\ \/ Exchanges("kPolling") /\ status' = "kWaiting" /\ Goto(w, "idle")
     \/ ~Exchanges("kPolling") /\ Goto(w, "wait_store") /\ UNCHANGED status
  /\ UNCHANGED <<data, queued, dropped, seen, sourceVars>>

\* wait(): status_.store(kPolling); return std::move(data_), then poll again
WaitStore(w) ==
  /\ pc[w] = "wait_store"
  /\ status' = "kPolling"
  /\ data' = FALSE
  /\ Goto(w, "poll")
  /\ UNCHANGED <<queued, dropped, seen, sourceVars>>

\* complete(), then run() returns (or rethrows) and the Runnable is deleted.
Complete(w) ==
  /\ pc[w] = "complete"
  /\ status' = "kComplete"
  /\ Goto(w, "idle")
  /\ UNCHANGED <<data, queued, dropped, seen, sourceVars>>

-----------------------------------------------------------------------------
(* Inner::unpark, on a waker *)

\* The source delivers an event, and unparks the task registered with it.
Fire(k) ==
  /\ pc[k] = "idle" /\ fired < MaxEvents
  /\ fired' = fired + 1
  /\ avail' = avail + 1
  /\ registered' = FALSE
  /\ Goto(k, IF registered THEN "load" ELSE "idle")
  /\ UNCHANGED <<mutexVars, queued, dropped, seen, shared>>

\* Copies of a Task outlive their use: any holder may unpark at any time.
Unpark(k) ==
  /\ pc[k] = "idle" /\ shared
  /\ Goto(k, "load")
  /\ UNCHANGED <<mutexVars, queued, dropped, seen, sourceVars>>

\* notify(): status = status_.load()
NotifyLoad(k) ==
  /\ pc[k] = "load"
  /\ seen' = [seen EXCEPT ![k] = status]
  /\ Goto(k, "switch")
  /\ UNCHANGED <<mutexVars, queued, dropped, sourceVars>>

\* case kWaiting, exchange succeeds: return std::move(data_), which is handed
\* to the executor if there was one.
NotifyWaiting(k) ==
  /\ pc[k] = "switch" /\ seen[k] = "kWaiting" /\ Exchanges("kWaiting")
  /\ status' = "kPolling"
  /\ data' = FALSE
  /\ Goto(k, IF data THEN "execute" ELSE "idle")
  /\ UNCHANGED <<queued, dropped, seen, sourceVars>>

\* case kPolling, exchange succeeds.
NotifyPolling(k) ==
  /\ pc[k] = "switch" /\ seen[k] = "kPolling" /\ Exchanges("kPolling")
  /\ status' = "kRepoll"
  /\ Goto(k, "idle")
  /\ UNCHANGED <<data, queued, dropped, seen, sourceVars>>

\* The exchange fails: status = expected, and around the loop again.
NotifyRetry(k) ==
  /\ pc[k] = "switch" /\ seen[k] \in {"kWaiting", "kPolling"} /\ ~Exchanges(seen[k])
  /\ seen' = [seen EXCEPT ![k] = status]
  /\ UNCHANGED <<mutexVars, queued, dropped, pc, sourceVars>>

\* default: return folly::None()
NotifyNone(k) ==
  /\ pc[k] = "switch" /\ seen[k] \notin {"kWaiting", "kPolling"}
  /\ Goto(k, "idle")
  /\ UNCHANGED <<mutexVars, queued, dropped, seen, sourceVars>>

\* exec_->execute(run): queued, or destroyed by an executor that has stopped.
Execute(k) ==
  /\ pc[k] = "execute"
  /\ \/ queued' = queued + 1 /\ UNCHANGED dropped
     \/ dropped' = TRUE /\ UNCHANGED queued
  /\ Goto(k, "idle")
  /\ UNCHANGED <<mutexVars, seen, sourceVars>>

-----------------------------------------------------------------------------
RunStep(w) == \/ StartPoll(w) \/ PollFuture(w) \/ WaitData(w) \/ WaitCas(w)
              \/ WaitStore(w) \/ Complete(w)

NotifyStep(k) == \/ NotifyLoad(k) \/ NotifyWaiting(k) \/ NotifyPolling(k)
                 \/ NotifyRetry(k) \/ NotifyNone(k) \/ Execute(k)

MutexNext == \/ \E w \in Workers : PopRun(w) \/ RunStep(w)
             \/ \E k \in Wakers : Fire(k) \/ Unpark(k) \/ NotifyStep(k)

MutexSpec == MutexInit /\ [][MutexNext]_unparkVars

\* The scheduler runs every thread that has something to do, and a worker with
\* nothing else to do takes the Runnable.  Nothing is assumed about Fire and
\* Unpark.
MutexFairSpec == /\ MutexSpec
                 /\ WF_unparkVars(\E w \in Workers : PopRun(w))
                 /\ \A w \in Workers : WF_unparkVars(RunStep(w))
                 /\ \A k \in Wakers : WF_unparkVars(NotifyStep(k))

-----------------------------------------------------------------------------
(* Properties *)

Threads == Workers \cup Wakers

\* Every variable has its type.
MutexTypeOK ==
  /\ status \in Statuses
  /\ data \in BOOLEAN
  /\ queued \in Nat
  /\ dropped \in BOOLEAN
  /\ pc \in [Threads -> {"idle"} \cup RunPcs \cup NotifyPcs]
  /\ \A w \in Workers : pc[w] \in {"idle"} \cup RunPcs
  /\ \A k \in Wakers : pc[k] \in {"idle"} \cup NotifyPcs
  /\ seen \in [Wakers -> Statuses]
  /\ fired \in Nat
  /\ avail \in Nat
  /\ registered \in BOOLEAN
  /\ shared \in BOOLEAN

\* The task is finished, or was destroyed by a stopped executor.
Over == status = "kComplete" \/ dropped

\* Thread t has the Runnable in its hands.
Holds(t) == pc[t] \in {"start_poll", "poll", "wait_data", "complete", "execute"}

\* The Runnable is in exactly one place until the task is over, and then in
\* none: no two threads ever poll the future, nobody moves data_ out while
\* another writes it, the executor is never handed the task twice, and the
\* future is never lost (UnparkMutex::wait and notify, FutureSpawnRun::run).
OneRunnable ==
  /\ queued > 0 => queued = 1 /\ ~data /\ \A t \in Threads : ~Holds(t)
  /\ data => \A t \in Threads : ~Holds(t)
  /\ \A t, u \in Threads : Holds(t) /\ Holds(u) => t = u
  /\ Over <=> queued = 0 /\ ~data /\ \A t \in Threads : ~Holds(t)

\* The assertion in UnparkMutex::wait ("guaranteed to be in REPOLL state"), and
\* more: the state is still kRepoll when wait() overwrites it.
FailedWaitSeesRepoll ==
  \A w \in Workers : pc[w] = "wait_store" => status = "kRepoll"

\* A step that must lead to another poll, or to the end of the task, is on its
\* way: the Runnable is queued or about to be, a poll is about to begin, the
\* running poll will be repeated, or a notify() that still can act is running.
PollComing ==
  \/ queued > 0
  \/ status = "kRepoll"
  \/ \E w \in Workers : pc[w] \in {"start_poll", "poll", "complete"}
  \/ \E k \in Wakers : pc[k] \in {"load", "execute"}
  \/ \E k \in Wakers : pc[k] = "switch" /\ seen[k] \in {"kWaiting", "kPolling"}

\* No lost wakeup: while an event waits to be taken, and also while the source
\* has no Task to unpark for the next one, another poll is on its way, however
\* run(), wait() and any number of notify()s interleave.
NoLostWakeup == ~Over /\ (avail > 0 \/ ~registered) => PollComing

\* Once complete() has been called no late unpark and no stale Runnable moves
\* status_ again (the stores of start_poll and wait are unconditional), and a
\* task dropped by its executor is never polled again.
OverIsFinal ==
  [][/\ status = "kComplete" => status' = "kComplete"
     /\ Over => \A w \in Workers : pc'[w] # "poll"]_unparkVars

\* Every event is taken by a poll, or the task ends: the executor gets to run a
\* task that was unparked no matter how often others unpark it.
EventIsTaken == avail > 0 ~> (avail = 0 \/ Over)

\* The task seen from outside: see WakeableTask.
Scheduled == \/ queued > 0
             \/ \E w \in Workers : pc[w] = "start_poll"
             \/ \E k \in Wakers : pc[k] = "execute"

taskPhase ==
  CASE dropped -> "dropped"
    [] ~dropped /\ status = "kComplete" -> "done"
    [] ~Over /\ Scheduled -> "scheduled"
    [] ~Over /\ ~Scheduled /\ status = "kWaiting" -> "waiting"
    [] ~Over /\ ~Scheduled /\ status # "kWaiting" -> "polling"

taskWoken == taskPhase = "polling" /\ status = "kRepoll"

Task == INSTANCE WakeableTask WITH phase <- taskPhase, woken <- taskWoken

\* run(), wait(), complete() and notify() together implement a WakeableTask:
\* polls never overlap, an unpark schedules a waiting task once and is
\* remembered by a polling one, and a scheduled task is eventually polled.
ImplementsTask == Task!LiveSpec
=============================================================================
