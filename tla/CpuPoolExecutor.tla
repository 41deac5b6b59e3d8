--------------------------- MODULE CpuPoolExecutor ---------------------------
(***************************************************************************)
(* The CPU pool with everything one spawn touches: the pool's queue, its   *)
(* mutex and condition variable, the worker threads, stop(), and for each  *)
(* job the future being run, the channel that future waits for and the     *)
(* channel that carries its result to whoever called spawn().              *)
(*                                                                         *)
(* A job j is pool.spawn(p.getFuture()): its future waits on the Promise p *)
(* (channel inp[j]), set or abandoned by a thread of its own, the setter.  *)
(* Its client calls spawn, then waits for the CpuReceiveFuture (channel    *)
(* out[j]) with wait(), or drops it.  A promise that is set before spawn   *)
(* is a future ready at its first poll, as in spawn_fn.                    *)
(*                                                                         *)
(* The task between them is a WakeableTask (phase, woken).  Critical       *)
(* sections are single steps, except that the setter keeps inp[j]'s mutex  *)
(* (held[j]) while it unparks the job: notify() is called under it.        *)
(***************************************************************************)
EXTENDS Lists, OneShotChannel

CONSTANTS NumThreads, \* threads of the pool
          Jobs,       \* calls of spawn
          Impatient   \* the jobs whose client may give up before it has an answer

Workers == 1..NumThreads
Pill == "ShutdownRunnable"
Idle == "no job"

ASSUME ThreadsAssumption == NumThreads \in Nat \ {0}
ASSUME JobsAssumption == Impatient \subseteq Jobs /\ Pill \notin Jobs /\ Idle \notin Jobs

VARIABLES
  q,          \* q_: jobs, and a pill for each ShutdownRunnable
  isRunning,  \* is_running_
  wpc, cur,   \* each worker: where it is, and the job it runs
  main,       \* the thread that calls stop()
  phase, woken,  \* each job's task
  inp, held,  \* the promise's channel, and whether the setter holds its mutex
  out,        \* the result's channel
  spc,        \* each setter
  cpc, ready, \* each client, and the ready_ of the ThreadUnpark it parks on
  res         \* what the client got

vars == <<q, isRunning, wpc, cur, main, phase, woken, inp, held, out, spc, cpc, ready, res>>

poolVars   == <<q, isRunning, main>>
workerVars == <<wpc, cur>>
taskVars   == <<phase, woken>>
clientVars == <<cpc, ready, res>>

\* CpuPoolExecutor(num_threads)
Init ==
  /\ q = <<>>
  /\ isRunning = TRUE
  /\ wpc = [w \in Workers |-> "loop"]
  /\ cur = [w \in Workers |-> Idle]
  /\ main = "run"
  /\ phase = [j \in Jobs |-> "unspawned"]
  /\ woken = [j \in Jobs |-> FALSE]
  /\ inp = [j \in Jobs |-> NewChannel]
  /\ held = [j \in Jobs |-> FALSE]
  /\ out = [j \in Jobs |-> NewChannel]
  /\ spc = [j \in Jobs |-> "set"]
  /\ cpc = [j \in Jobs |-> "spawn"]
  /\ ready = [j \in Jobs |-> FALSE]
  /\ res = [j \in Jobs |-> "none"]

CvWaiters == {w \in Workers : wpc[w] = "cv_wait"}

\* Variant: no notify_one().
Push_NoNotify(j) == q' = Append(q, j) /\ UNCHANGED wpc

\* execute() of an accepted Runnable: push_back and notify_one
Push(j) ==
  /\ q' = Append(q, j)
  /\ IF CvWaiters = {}
       THEN UNCHANGED wpc
       ELSE \E w \in CvWaiters : wpc' = [wpc EXCEPT ![w] = "loop"]

\* The channel out[j] goes to c, and its receiver, if it is parked, is unparked.
ToClient(j, c) ==
  /\ out' = [out EXCEPT ![j] = IF Unparks(out[j], c) THEN Notified(c) ELSE c]
  /\ ready' = [ready EXCEPT ![j] = @ \/ Unparks(out[j], c)]

-----------------------------------------------------------------------------
(* The workers *)

\* worker(): wait for a Runnable
WorkerWait(w) ==
  /\ wpc[w] = "loop" /\ q = <<>>
  /\ wpc' = [wpc EXCEPT ![w] = "cv_wait"]
  /\ UNCHANGED <<poolVars, cur, taskVars, inp, held, out, spc, clientVars>>

\* cv_.wait may return without a notification.
SpuriousWakeup(w) ==
  /\ wpc[w] = "cv_wait"
  /\ wpc' = [wpc EXCEPT ![w] = "loop"]
  /\ UNCHANGED <<poolVars, cur, taskVars, inp, held, out, spc, clientVars>>

\* worker(): the first Runnable is a ShutdownRunnable.
WorkerExit(w) ==
  /\ wpc[w] = "loop" /\ q # <<>> /\ Head(q) = Pill
  /\ q' = Tail(q)
  /\ wpc' = [wpc EXCEPT ![w] = "exited"]
  /\ UNCHANGED <<isRunning, main, cur, taskVars, inp, held, out, spc, clientVars>>

\* worker(): take the first Runnable; its run() begins with start_poll().
WorkerPop(w) ==
  /\ wpc[w] = "loop" /\ q # <<>> /\ Head(q) # Pill
  /\ q' = Tail(q)
  /\ cur' = [cur EXCEPT ![w] = Head(q)]
  /\ phase' = [phase EXCEPT ![Head(q)] = "polling"]
  /\ woken' = [woken EXCEPT ![Head(q)] = FALSE]
  /\ wpc' = [wpc EXCEPT ![w] = "poll"]
  /\ UNCHANGED <<isRunning, main, inp, held, out, spc, clientVars>>

\* CpuSenderFuture::poll: poll the promise's future; when it is ready or has
\* failed, send that through sender_ next.
Poll(w) ==
  LET j == cur[w] IN
  /\ wpc[w] = "poll" /\ ~held[j]
  /\ inp' = [inp EXCEPT ![j] = AfterPoll(@)]
  /\ wpc' = [wpc EXCEPT ![w] = IF PollResult(inp[j]) = "not_ready" THEN "wait" ELSE "send"]
  /\ UNCHANGED <<poolVars, cur, taskVars, held, out, spc, clientVars>>

\* Variant: a job that has sent its result is polled again.
AfterSend_Repoll == "poll"

\* poll() returns ready, so that run() completes the task.
AfterSend == "complete"

\* sender_.send(...)
SendResult(w) ==
  LET j == cur[w] IN
  /\ wpc[w] = "send"
  /\ ToClient(j, Send(out[j], IF PollResult(inp[j]) = "cancelled" THEN "failed" ELSE "value"))
  /\ wpc' = [wpc EXCEPT ![w] = AfterSend]
  /\ UNCHANGED <<poolVars, cur, taskVars, inp, held, spc, cpc, res>>

\* Variant: the repoll is lost.
Repolls_Never(j) == FALSE

\* wait() finds the job woken meanwhile.
Repolls(j) == woken[j]

\* UnparkMutex::wait: go back to the queue, or poll again if woken meanwhile
Wait(w) ==
  LET j == cur[w] IN
  /\ wpc[w] = "wait"
  /\ IF Repolls(j)
       THEN /\ woken' = [woken EXCEPT ![j] = FALSE]
            /\ wpc' = [wpc EXCEPT ![w] = "poll"]
            /\ UNCHANGED <<phase, cur>>
       ELSE /\ phase' = [phase EXCEPT ![j] = "waiting"]
            /\ wpc' = [wpc EXCEPT ![w] = "loop"]
            /\ cur' = [cur EXCEPT ![w] = Idle]
            /\ UNCHANGED woken
  /\ UNCHANGED <<poolVars, inp, held, out, spc, clientVars>>

\* complete(), then delete run: ~CpuSenderFuture destroys sender_ (the result was
\* sent, so its closeSender does nothing) and the future, whose receiver it closes.
Complete(w) ==
  LET j == cur[w] IN
  /\ wpc[w] = "complete" /\ ~held[j]
  /\ phase' = [phase EXCEPT ![j] = "done"]
  /\ ToClient(j, CloseSender(out[j]))
  /\ inp' = [inp EXCEPT ![j] = CloseReceiver(@)]
  /\ wpc' = [wpc EXCEPT ![w] = "loop"]
  /\ cur' = [cur EXCEPT ![w] = Idle]
  /\ UNCHANGED <<poolVars, woken, held, spc, cpc, res>>

WorkerStep(w) == \/ WorkerWait(w) \/ WorkerExit(w) \/ WorkerPop(w) \/ Poll(w)
                 \/ SendResult(w) \/ Wait(w) \/ Complete(w)

-----------------------------------------------------------------------------
(* The setters: Promise::setValue, Promise::cancel, or ~Promise *)

Set(j) ==
  /\ spc[j] = "set"
  /\ \E c \in {Send(inp[j], "value"), Cancel(inp[j]), CloseSender(inp[j])} :
       /\ inp' = [inp EXCEPT ![j] = c]
       /\ held' = [held EXCEPT ![j] = Unparks(inp[j], c)]
       /\ spc' = [spc EXCEPT ![j] = IF Unparks(inp[j], c) THEN "unpark" ELSE "end"]
  /\ UNCHANGED <<poolVars, workerVars, taskVars, out, clientVars>>

\* rx_task_->unpark(), with the channel's mutex held
Unpark(j) ==
  /\ spc[j] = "unpark"
  /\ phase' = [phase EXCEPT ![j] = IF @ = "waiting" THEN "scheduled" ELSE @]
  /\ woken' = [woken EXCEPT ![j] = @ \/ phase[j] = "polling"]
  /\ spc' = [spc EXCEPT ![j] = IF phase[j] = "waiting" THEN "execute" ELSE "unlock"]
  /\ UNCHANGED <<poolVars, workerVars, inp, held, out, clientVars>>

\* exec_->execute(run): the pool takes the Runnable, or has stopped and the
\* unique_ptr destroys it: ~CpuSenderFuture closes the result's channel first.
Execute(j) ==
  /\ spc[j] = "execute"
  /\ \/ /\ isRunning
        /\ Push(j)
        /\ spc' = [spc EXCEPT ![j] = "unlock"]
        /\ UNCHANGED <<phase, out, ready>>
     \/ /\ ~isRunning
        /\ phase' = [phase EXCEPT ![j] = "dropped"]
        /\ ToClient(j, CloseSender(out[j]))
        /\ spc' = [spc EXCEPT ![j] = "drop"]
        /\ UNCHANGED <<q, wpc>>
  /\ UNCHANGED <<isRunning, main, cur, woken, inp, held, cpc, res>>

\* ~CpuSenderFuture goes on to the future and its receiver, which locks the
\* promise's channel.  A thread that locks a std::mutex it already holds never
\* returns.
DropReceiver(j) ==
  /\ spc[j] = "drop"
  /\ IF held[j]
       THEN spc' = [spc EXCEPT ![j] = "blocked"] /\ UNCHANGED inp
       ELSE /\ spc' = [spc EXCEPT ![j] = "unlock"]
            /\ inp' = [inp EXCEPT ![j] = CloseReceiver(@)]
  /\ UNCHANGED <<poolVars, workerVars, taskVars, held, out, clientVars>>

\* rx_task_.clear(), and the lock_guard is released
Unlock(j) ==
  /\ spc[j] = "unlock"
  /\ inp' = [inp EXCEPT ![j] = Notified(@)]
  /\ held' = [held EXCEPT ![j] = FALSE]
  /\ spc' = [spc EXCEPT ![j] = "end"]
  /\ UNCHANGED <<poolVars, workerVars, taskVars, out, clientVars>>

SetterStep(j) == \/ Set(j) \/ Unpark(j) \/ Execute(j) \/ DropReceiver(j) \/ Unlock(j)

-----------------------------------------------------------------------------
(* The clients *)

\* spawn(): make the channel and execute the Runnable, which a stopped pool
\* destroys on the spot, together with the sender and the future inside it.
Spawn(j) ==
  /\ cpc[j] = "spawn" /\ ~held[j]
  /\ \/ /\ isRunning
        /\ Push(j)
        /\ phase' = [phase EXCEPT ![j] = "scheduled"]
        /\ UNCHANGED <<inp, out>>
     \/ /\ ~isRunning
        /\ phase' = [phase EXCEPT ![j] = "dropped"]
        /\ out' = [out EXCEPT ![j] = CloseSender(@)]
        /\ inp' = [inp EXCEPT ![j] = CloseReceiver(@)]
        /\ UNCHANGED <<q, wpc>>
  /\ cpc' = [cpc EXCEPT ![j] = "poll"]
  /\ UNCHANGED <<isRunning, main, cur, woken, held, spc, ready, res>>

\* wait_future(): poll the CpuReceiveFuture, park when it is not ready
ClientPoll(j) ==
  /\ cpc[j] = "poll"
  /\ out' = [out EXCEPT ![j] = AfterPoll(@)]
  /\ IF PollResult(out[j]) = "not_ready"
       THEN cpc' = [cpc EXCEPT ![j] = "park"] /\ UNCHANGED res
       ELSE /\ cpc' = [cpc EXCEPT ![j] = "end"]
            /\ res' = [res EXCEPT ![j] = PollResult(out[j])]
  /\ UNCHANGED <<poolVars, workerVars, taskVars, inp, held, spc, ready>>

\* ThreadUnpark::park returns; ready_ stays true for ever after.
ClientUnparked(j) ==
  /\ cpc[j] = "park" /\ ready[j]
  /\ cpc' = [cpc EXCEPT ![j] = "poll"]
  /\ UNCHANGED <<poolVars, workerVars, taskVars, inp, held, out, spc, ready, res>>

\* The client lets go of the CpuReceiveFuture without waiting for it.
ClientDrop(j) ==
  /\ j \in Impatient /\ cpc[j] = "poll"
  /\ out' = [out EXCEPT ![j] = CloseReceiver(@)]
  /\ cpc' = [cpc EXCEPT ![j] = "end"]
  /\ res' = [res EXCEPT ![j] = "abandoned"]
  /\ UNCHANGED <<poolVars, workerVars, taskVars, inp, held, spc, ready>>

ClientStep(j) == Spawn(j) \/ ClientPoll(j) \/ ClientUnparked(j)

-----------------------------------------------------------------------------
(* stop() *)

\* Variant: one ShutdownRunnable too few.
WithPills_OneShort == q \o Times(NumThreads - 1, Pill)

\* Variant: the ShutdownRunnables go to the front of the queue.
WithPills_First == Times(NumThreads, Pill) \o q

\* q_ with one ShutdownRunnable per thread behind everything else
WithPills == q \o Times(NumThreads, Pill)

\* shutdown(): no more Runnables, the ShutdownRunnables, notify_all
Stop ==
  /\ main = "run" /\ isRunning
  /\ isRunning' = FALSE
  /\ q' = WithPills
  /\ wpc' = [w \in Workers |-> IF wpc[w] = "cv_wait" THEN "loop" ELSE wpc[w]]
  /\ main' = "join"
  /\ UNCHANGED <<cur, taskVars, inp, held, out, spc, clientVars>>

\* shutdown(): join every thread
Join ==
  /\ main = "join" /\ \A w \in Workers : wpc[w] = "exited"
  /\ main' = "stopped"
  /\ UNCHANGED <<q, isRunning, workerVars, taskVars, inp, held, out, spc, clientVars>>

-----------------------------------------------------------------------------
Next == \/ \E w \in Workers : WorkerStep(w) \/ SpuriousWakeup(w)
        \/ \E j \in Jobs : SetterStep(j) \/ ClientStep(j) \/ ClientDrop(j)
        \/ Stop
        \/ Join

Spec == Init /\ [][Next]_vars

\* Every thread that can take a step eventually does, and every promise is
\* eventually set, cancelled or destroyed.  stop() need not be called, a client
\* need not drop its future, and wakeups need not be spurious.
FairSpec == /\ Spec
            /\ \A w \in Workers : WF_vars(WorkerStep(w))
            /\ \A j \in Jobs : WF_vars(SetterStep(j)) /\ WF_vars(ClientStep(j))
            /\ WF_vars(Join)

-----------------------------------------------------------------------------
(* Properties *)

\* Every variable has its type.
TypeOK ==
  /\ q \in Seq(Jobs \cup {Pill})
  /\ isRunning \in BOOLEAN
  /\ wpc \in [Workers -> {"loop", "cv_wait", "poll", "send", "wait", "complete", "exited"}]
  /\ cur \in [Workers -> Jobs \cup {Idle}]
  /\ main \in {"run", "join", "stopped"}
  /\ phase \in [Jobs -> {"unspawned", "scheduled", "polling", "waiting", "done", "dropped"}]
  /\ woken \in [Jobs -> BOOLEAN]
  /\ inp \in [Jobs -> [s : Statuses, v : {"none", "value"}, rx : BOOLEAN]]
  /\ held \in [Jobs -> BOOLEAN]
  /\ out \in [Jobs -> [s : Statuses, v : {"none", "value", "failed"}, rx : BOOLEAN]]
  /\ spc \in [Jobs -> {"set", "unpark", "execute", "drop", "blocked",
                       "unlock", "end"}]
  /\ cpc \in [Jobs -> {"spawn", "poll", "park", "end"}]
  /\ ready \in [Jobs -> BOOLEAN]
  /\ res \in [Jobs -> {"none", "value", "failed", "cancelled", "abandoned"}]

\* A Runnable in q_ is never left to itself: some worker is awake and on its way
\* to the queue, although notify_one() wakes one worker only, and a push may
\* find none waiting (execute, shutdown and worker in CpuPoolExecutor.h).
QueueIsServed ==
  q # <<>> => \E w \in Workers : wpc[w] \notin {"cv_wait", "exited"}

\* stop() returns only when every thread is gone and every Runnable that the
\* pool accepted, in particular before stop(), has been run: nothing is left in
\* q_, scheduled or half polled (shutdown pushes behind the queue, and execute
\* accepts nothing afterwards).
StopDrains ==
  main = "stopped" =>
    /\ q = <<>>
    /\ \A j \in Jobs : phase[j] # "polling" /\ (phase[j] = "scheduled" => spc[j] = "execute")

\* What the client of spawn() gets is what became of the job: the value if the
\* promise was set, an exception if the promise was cancelled or destroyed, and
\* a cancellation only from a pool that was stopped (CpuSenderFuture and
\* CpuReceiveFuture, OnshotChannelImpl::closeSender).
ResultIsTrue ==
  \A j \in Jobs :
    /\ res[j] = "value" => inp[j].v = "value"
    /\ res[j] = "failed" => spc[j] # "set" /\ inp[j].v = "none"
    /\ res[j] = "cancelled" => ~isRunning /\ phase[j] = "dropped"

\* send() on the result's channel never throws InvalidChannelStateException,
\* which would leave run() and end the worker thread with it.
ResultSentOnce ==
  \A w \in Workers : wpc[w] = "send" => CanSend(out[cur[w]])

\* A client that waits for its result gets one, whether the job runs, fails or
\* is dropped, and however stop() interferes.
ClientIsAnswered == \A j \in Jobs : cpc[j] = "park" ~> cpc[j] = "end"

\* stop() returns, even when jobs are queued, running or waiting.
StopReturns == main = "join" ~> main = "stopped"

\* "XXX dropping the run is enough?" (execute, CpuPoolExecutor.h): the thread
\* whose unpark makes a stopped pool drop a Runnable gets out of it again.
DroppingIsEnough == \A j \in Jobs : spc[j] # "blocked"
=============================================================================
