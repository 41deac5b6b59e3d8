---------------------------- MODULE EventExecutor ----------------------------
(***************************************************************************)
(* The event loop: EventExecutor::run on its own thread, and the threads   *)
(* that spawn onto it, wake its tasks and stop it while it runs.           *)
(*                                                                         *)
(* A task (a WakeableTask) waits for the loop's own events, through an I/O *)
(* object linked into pendings_ (`io`), for an event of another thread or  *)
(* task, which holds a copy of its Task (`clone`), or for both, as in      *)
(* select().                                                               *)
(* The copy is the rx_task_ of a oneshot channel: it is cleared by the     *)
(* send that unparks it, and otherwise lives until the Promise is gone,    *)
(* also when the task has finished without it (closeReceiver keeps it).    *)
(* Inner counts as running while a Runnable or a copy of the Task exists.  *)
(*                                                                         *)
(* The other threads are foreign: they run an executor of their own, and   *)
(* so reach this one through foreign_q_, mu_ and the async watcher         *)
(* signaler_, whose `sent` flag is libev's.  The loop's own thread, in a   *)
(* task or outside run(), puts what it spawns or unparks straight into q_. *)
(***************************************************************************)
EXTENDS Lists, FiniteSets

CONSTANTS Tasks,     \* futures that get spawned
          Foreign,   \* threads of other executors
          MaxPolls,  \* bound: a task is ready at its MaxPolls-th poll, if not before
          MaxRuns    \* bound: calls of run()

ASSUME TasksAssumption == IsFiniteSet(Tasks)
ASSUME BoundsAssumption == MaxPolls \in Nat \ {0} /\ MaxRuns \in Nat

VARIABLES
  q, fq,         \* q_ and foreign_q_
  waitStop,      \* wait_stop_
  mu,            \* mu_ is held by a foreign thread that has pushed
  sent,          \* signaler_.async_pending()
  lpc, cur,      \* the loop thread, and the task it polls
  always, runs,  \* run()'s parameter always_blocks, and how often it was called
  phase, woken, polls,  \* the tasks
  io, clone,     \* tasks with an I/O object in pendings_; with a Task held elsewhere
  escaped,       \* history: some Task was given to a channel
  leaked,        \* tasks whose Inner is never destroyed
  fpc, hand,     \* the foreign threads, and the task each one handles
  stopper        \* a foreign thread that calls stop()

vars == <<q, fq, waitStop, mu, sent, lpc, cur, always, runs, phase, woken, polls, io,
          clone, escaped, leaked, fpc, hand, stopper>>

queueVars   == <<q, fq, mu>>
taskVars    == <<phase, woken, polls, io, clone, escaped, leaked>>
callVars    == <<always, runs>>
foreignVars == <<fpc, hand>>

NoTask == "no task"

Init ==
  /\ q = <<>> /\ fq = <<>> /\ mu = FALSE
  /\ waitStop = FALSE /\ sent = FALSE
  /\ lpc = "outside" /\ cur = NoTask
  /\ always \in BOOLEAN /\ runs = 0
  /\ phase = [t \in Tasks |-> "unspawned"]
  /\ woken = [t \in Tasks |-> FALSE]
  /\ polls = [t \in Tasks |-> 0]
  /\ io = {} /\ clone = {} /\ escaped = FALSE /\ leaked = {}
  /\ fpc = [f \in Foreign |-> "idle"]
  /\ hand = [f \in Foreign |-> NoTask]
  /\ stopper = "idle"

\* Variant: a task parked inside its Inner is not counted.
Running_OnlyQueued == {t \in Tasks : \/ phase[t] \in {"scheduled", "polling"}
                                     \/ t \in clone \cup leaked}

\* The Inners that exist: getRunning() is their number.
Running == {t \in Tasks : \/ phase[t] \in {"scheduled", "polling", "waiting"}
                          \/ t \in clone \cup leaked}

\* The orders in which the tasks in S can be unparked: each is named once.
Orders(S) == {order \in UNION {[1..n -> S] : n \in 0..Cardinality(S)} :
                Elems(order) = S /\ Once(order)}

\* Variant: what happens to the watchers is kept from their tasks.
UnparkHere_Not(T) == UNCHANGED <<phase, q>>

\* The tasks in T are unparked on the loop thread, in some order: the waiting ones
\* go to q_.  (None is being polled: the loop thread does this.)
UnparkHere(T) ==
  LET U == {t \in T : phase[t] = "waiting"}
  IN  /\ phase' = [t \in Tasks |-> IF t \in U THEN "scheduled" ELSE phase[t]]
      /\ \E order \in Orders(U) : q' = q \o order

\* Variant: the signal is not sent.
SignalLoop_Not == UNCHANGED sent

\* signal_loop()
SignalLoop == sent' = TRUE

\* Variant: the I/O token outlives the Runnable.
Released_Not(t) == io

\* pendings_ when the Runnable of t is destroyed, with the I/O token in it
Released(t) == io \ {t}

-----------------------------------------------------------------------------
(* run() *)

\* spawn() by the loop's own thread, by the task it polls or while it is not in
\* run(): this executor is current or none is, so that the Runnable goes to q_.
SpawnHere(t) ==
  /\ lpc \in {"outside", "thrown", "poll"} /\ phase[t] = "unspawned"
  /\ phase' = [phase EXCEPT ![t] = "scheduled"]
  /\ q' = Append(q, t)
  /\ UNCHANGED <<fq, mu, waitStop, sent, lpc, cur, callVars, woken, polls, io, clone,
                 escaped, leaked, foreignVars, stopper>>

\* run(always_blocks): signaler_.start() forgets a signal sent before, unless an
\* exception has left the watcher active, in which case it does nothing.
Run ==
  /\ lpc \in {"outside", "thrown"} /\ runs < MaxRuns
  /\ runs' = runs + 1
  /\ sent' = (lpc = "thrown" /\ sent)
  /\ lpc' = "merge"
  /\ UNCHANGED <<queueVars, waitStop, cur, always, taskVars, foreignVars, stopper>>

\* merge_queue(), under mu_
Merge ==
  /\ lpc = "merge" /\ ~mu
  /\ q' = q \o fq
  /\ fq' = <<>>
  /\ lpc' = "drain"
  /\ UNCHANGED <<mu, waitStop, sent, cur, callVars, taskVars, foreignVars, stopper>>

\* Take the first Runnable of q_ and start to poll it.
Pop ==
  /\ lpc = "drain" /\ q # <<>>
  /\ q' = Tail(q)
  /\ cur' = Head(q)
  /\ phase' = [phase EXCEPT ![Head(q)] = "polling"]
  /\ woken' = [woken EXCEPT ![Head(q)] = FALSE]
  /\ lpc' = "poll"
  /\ UNCHANGED <<fq, mu, waitStop, sent, callVars, polls, io, clone, escaped, leaked,
                 foreignVars, stopper>>

\* The poll is not ready, and has registered with a source or two.
PollPending ==
  /\ lpc = "poll" /\ polls[cur] + 1 < MaxPolls
  /\ polls' = [polls EXCEPT ![cur] = @ + 1]
  /\ \/ io' = io \cup {cur} /\ clone' = clone \cup {cur}
     \/ io' = io \cup {cur} /\ UNCHANGED clone
     \/ io' = io \ {cur} /\ clone' = clone \cup {cur}
  /\ escaped' = (escaped \/ cur \in clone')
  /\ lpc' = "wait"
  /\ UNCHANGED <<queueVars, waitStop, sent, cur, callVars, phase, woken, leaked,
                 foreignVars, stopper>>

\* UnparkMutex::wait
Wait ==
  /\ lpc = "wait"
  /\ IF woken[cur]
       THEN /\ woken' = [woken EXCEPT ![cur] = FALSE]
            /\ lpc' = "poll"
            /\ UNCHANGED <<phase, cur>>
       ELSE /\ phase' = [phase EXCEPT ![cur] = "waiting"]
            /\ cur' = NoTask
            /\ lpc' = "drain"
            /\ UNCHANGED woken
  /\ UNCHANGED <<queueVars, waitStop, sent, callVars, polls, io, clone, escaped, leaked,
                 foreignVars, stopper>>

\* The future is ready or cancelled: complete(), and the Runnable is deleted.
PollReady ==
  /\ lpc = "poll"
  /\ phase' = [phase EXCEPT ![cur] = "done"]
  /\ io' = Released(cur)
  /\ cur' = NoTask
  /\ lpc' = "drain"
  /\ UNCHANGED <<queueVars, waitStop, sent, callVars, woken, polls, clone, escaped,
                 leaked, foreignVars, stopper>>

\* Any other exception is rethrown and leaves run() on the spot: the Runnable is
\* not deleted, and neither signaler_.stop() nor wait_stop_ = false is reached.
PollThrows ==
  /\ lpc = "poll"
  /\ phase' = [phase EXCEPT ![cur] = "done"]
  /\ leaked' = leaked \cup {cur}
  /\ cur' = NoTask
  /\ lpc' = "thrown"
  /\ UNCHANGED <<queueVars, waitStop, sent, callVars, woken, polls, io, clone, escaped,
                 foreignVars, stopper>>

\* q_ is empty: !getRunning() && (!always_blocks || wait_stop_)
CheckIdle ==
  /\ lpc = "drain" /\ q = <<>>
  /\ lpc' = IF Running = {} /\ (~always \/ waitStop) THEN "exit" ELSE "check_stop"
  /\ UNCHANGED <<queueVars, waitStop, sent, cur, callVars, taskVars, foreignVars, stopper>>

\* if (wait_stop_)
CheckStop ==
  /\ lpc = "check_stop"
  /\ lpc' = IF waitStop THEN "cleanup" ELSE "block"
  /\ UNCHANGED <<queueVars, waitStop, sent, cur, callVars, taskVars, foreignVars, stopper>>

\* Cancel everything in pendings_, which unparks the tasks on this thread.
Cleanup ==
  /\ lpc = "cleanup"
  /\ io' = {}
  /\ UnparkHere(io)
  /\ lpc' = "cleaned"
  /\ UNCHANGED <<fq, mu, waitStop, sent, cur, callVars, woken, polls, clone, escaped, leaked,
                 foreignVars, stopper>>

\* if (!getRunning()) break; else continue;
CheckCleaned ==
  /\ lpc = "cleaned"
  /\ lpc' = IF Running = {} THEN "exit" ELSE "merge"
  /\ UNCHANGED <<queueVars, waitStop, sent, cur, callVars, taskVars, foreignVars, stopper>>

\* EVRUN_ONCE: wait until the signaler or some I/O is ready, then call back.
Block ==
  /\ lpc = "block"
  /\ \E T \in SUBSET io :
       /\ sent \/ T # {}
       /\ io' = io \ T
       /\ UnparkHere(T)
       /\ sent' \in (IF T = {} THEN {FALSE} ELSE {FALSE, sent})
  /\ lpc' = "merge"
  /\ UNCHANGED <<fq, mu, waitStop, cur, callVars, woken, polls, clone, escaped, leaked,
                 foreignVars, stopper>>

\* signaler_.stop(); wait_stop_ = false, also when stop() came after the check
Exit ==
  /\ lpc = "exit"
  /\ waitStop' = FALSE
  /\ lpc' = "outside"
  /\ UNCHANGED <<queueVars, sent, cur, callVars, taskVars, foreignVars, stopper>>

LoopStep == \/ Merge \/ Pop \/ PollPending \/ Wait \/ PollReady \/ PollThrows \/ CheckIdle
            \/ CheckStop \/ Cleanup \/ CheckCleaned \/ Block \/ Exit

\* The task being polled sends what another one, or itself, waits for: the Runnable
\* of a waiting task goes to q_.
UnparkByTask(t) ==
  /\ lpc = "poll" /\ t \in clone /\ phase[t] \in {"polling", "waiting", "scheduled"}
  /\ clone' = clone \ {t}
  /\ phase' = [phase EXCEPT ![t] = IF @ = "waiting" THEN "scheduled" ELSE @]
  /\ woken' = [woken EXCEPT ![t] = @ \/ phase[t] = "polling"]
  /\ q' = IF phase[t] = "waiting" THEN Append(q, t) ELSE q
  /\ UNCHANGED <<fq, mu, waitStop, sent, lpc, cur, callVars, polls, io, escaped, leaked,
                 foreignVars, stopper>>

-----------------------------------------------------------------------------
(* The foreign threads.  A thread that unparks a task holds the mutex of the  *)
(* channel it sends on until rx_task_.clear(), after execute() has returned.  *)

\* spawn(): the Inner exists (and counts) before execute() is called.
ForeignSpawn(f, t) ==
  /\ fpc[f] = "idle" /\ phase[t] = "unspawned"
  /\ phase' = [phase EXCEPT ![t] = "scheduled"]
  /\ fpc' = [fpc EXCEPT ![f] = "spawn"]
  /\ hand' = [hand EXCEPT ![f] = t]
  /\ UNCHANGED <<queueVars, waitStop, sent, lpc, cur, callVars, woken, polls, io, clone,
                 escaped, leaked, stopper>>

\* The event a task waits for happens here: unpark it.
ForeignUnpark(f, t) ==
  /\ fpc[f] = "idle" /\ t \in clone /\ phase[t] \in {"polling", "waiting", "scheduled"}
  /\ clone' = clone \ {t}
  /\ phase' = [phase EXCEPT ![t] = IF @ = "waiting" THEN "scheduled" ELSE @]
  /\ woken' = [woken EXCEPT ![t] = @ \/ phase[t] = "polling"]
  /\ IF phase[t] = "waiting"
       THEN fpc' = [fpc EXCEPT ![f] = "unpark"] /\ hand' = [hand EXCEPT ![f] = t]
       ELSE UNCHANGED foreignVars
  /\ UNCHANGED <<queueVars, waitStop, sent, lpc, cur, callVars, polls, io, escaped, leaked,
                 stopper>>

\* execute() on a thread of another executor queues the Runnable ...
ForeignExecute(f) ==
  /\ fpc[f] \in {"spawn", "unpark"} /\ ~mu /\ ~waitStop
  /\ fq' = Append(fq, hand[f])
  /\ mu' = TRUE
  /\ fpc' = [fpc EXCEPT ![f] = "signal"]
  /\ UNCHANGED <<q, waitStop, sent, lpc, cur, callVars, taskVars, hand, stopper>>

\* ... or drops it when the loop is being stopped.  A task that is only being
\* spawned goes quietly.  One that is being unparked is destroyed by a thread
\* that holds the channel's mutex, which the receiver in it locks to close: the
\* thread never returns, and the channel keeps its share of the Inner.
ForeignDrop(f) ==
  /\ fpc[f] \in {"spawn", "unpark"} /\ ~mu /\ waitStop
  /\ phase' = [phase EXCEPT ![hand[f]] = "dropped"]
  /\ io' = Released(hand[f])
  /\ IF fpc[f] = "spawn"
       THEN fpc' = [fpc EXCEPT ![f] = "idle"] /\ UNCHANGED leaked
       ELSE fpc' = [fpc EXCEPT ![f] = "blocked"] /\ leaked' = leaked \cup {hand[f]}
  /\ hand' = [hand EXCEPT ![f] = NoTask]
  /\ UNCHANGED <<queueVars, waitStop, sent, lpc, cur, callVars, woken, polls, clone, escaped,
                 stopper>>

\* signal_loop(), and mu_ is released
ForeignSignal(f) ==
  /\ fpc[f] = "signal"
  /\ SignalLoop
  /\ mu' = FALSE
  /\ fpc' = [fpc EXCEPT ![f] = "idle"]
  /\ hand' = [hand EXCEPT ![f] = NoTask]
  /\ UNCHANGED <<q, fq, waitStop, lpc, cur, callVars, taskVars, stopper>>

\* The Promise a finished task once waited for is destroyed, and its channel
\* with the copy of the Task in it: ~Inner calls decRunning(), and signals nobody.
ForgetPromise(t) ==
  /\ t \in clone /\ phase[t] \in {"done", "dropped"}
  /\ clone' = clone \ {t}
  /\ UNCHANGED <<queueVars, waitStop, sent, lpc, cur, callVars, phase, woken, polls, io, escaped,
                 leaked, foreignVars, stopper>>

ForeignStep(f) == ForeignExecute(f) \/ ForeignDrop(f) \/ ForeignSignal(f)

\* stop(): wait_stop_ = true ...
Stop ==
  /\ stopper = "idle"
  /\ waitStop' = TRUE
  /\ stopper' = "signal"
  /\ UNCHANGED <<queueVars, sent, lpc, cur, callVars, taskVars, foreignVars>>

\* ... then signal_loop()
StopSignal ==
  /\ stopper = "signal"
  /\ SignalLoop
  /\ stopper' = "end"
  /\ UNCHANGED <<queueVars, waitStop, lpc, cur, callVars, taskVars, foreignVars>>

-----------------------------------------------------------------------------
Next == \/ LoopStep \/ Run \/ Stop \/ StopSignal
        \/ \E t \in Tasks : SpawnHere(t) \/ UnparkByTask(t) \/ ForgetPromise(t)
        \/ \E f \in Foreign : ForeignStep(f)
        \/ \E f \in Foreign, t \in Tasks : ForeignSpawn(f, t) \/ ForeignUnpark(f, t)

Spec == Init /\ [][Next]_vars

\* Every thread goes on with what it is doing, and I/O that was started completes.
LoopFairness == /\ WF_vars(LoopStep) /\ WF_vars(StopSignal)
                /\ \A f \in Foreign : WF_vars(ForeignStep(f))

\* The others keep their promises: they are fulfilled, and in the end destroyed.
SourceFairness == \A t \in Tasks : /\ WF_vars(\E f \in Foreign : ForeignUnpark(f, t))
                                   /\ WF_vars(ForgetPromise(t))

FairSpec == Spec /\ LoopFairness /\ SourceFairness

\* A thread with no executor of its own (a plain std::thread) unparks a task or
\* spawns one: execute() takes it for the loop's own thread, and pushes to q_
\* with neither mu_ nor the signaler.
PlainUnpark(t) ==
  /\ t \in clone /\ phase[t] = "waiting"
  /\ clone' = clone \ {t}
  /\ phase' = [phase EXCEPT ![t] = "scheduled"]
  /\ q' = Append(q, t)
  /\ UNCHANGED <<fq, mu, waitStop, sent, lpc, cur, callVars, woken, polls, io, escaped,
                 leaked, foreignVars, stopper>>

PlainSpawn(t) ==
  /\ phase[t] = "unspawned"
  /\ phase' = [phase EXCEPT ![t] = "scheduled"]
  /\ q' = Append(q, t)
  /\ UNCHANGED <<fq, mu, waitStop, sent, lpc, cur, callVars, woken, polls, io, clone,
                 escaped, leaked, foreignVars, stopper>>

PlainThreadSpec ==
  /\ Init /\ [][Next \/ \E t \in Tasks : PlainUnpark(t) \/ PlainSpawn(t)]_vars
  /\ LoopFairness

-----------------------------------------------------------------------------
(* Properties *)

\* Every variable has its type.
TypeOK ==
  /\ q \in Seq(Tasks) /\ fq \in Seq(Tasks) /\ mu \in BOOLEAN
  /\ waitStop \in BOOLEAN /\ sent \in BOOLEAN
  /\ lpc \in {"outside", "thrown", "merge", "drain", "poll", "wait", "check_stop", "cleanup",
              "cleaned", "block", "exit"}
  /\ cur \in Tasks \cup {NoTask}
  /\ always \in BOOLEAN /\ runs \in 0..MaxRuns
  /\ phase \in [Tasks -> {"unspawned", "scheduled", "polling", "waiting", "done", "dropped"}]
  /\ woken \in [Tasks -> BOOLEAN]
  /\ polls \in [Tasks -> 0..MaxPolls - 1]
  /\ io \subseteq Tasks /\ clone \subseteq Tasks
  /\ escaped \in BOOLEAN /\ leaked \subseteq Tasks
  /\ fpc \in [Foreign -> {"idle", "spawn", "unpark", "signal", "blocked"}]
  /\ hand \in [Foreign -> Tasks \cup {NoTask}]
  /\ stopper \in {"idle", "signal", "end"}

\* The loop never blocks in EVRUN_ONCE with something to do: q_ is empty, and if
\* foreign_q_ is not or stop() was called, the signal that ends the blocking is
\* sent or about to be (execute and stop set their state before they signal).
NeverSleepsOnWork ==
  lpc = "block" =>
    /\ q = <<>>
    /\ fq # <<>> => sent \/ \E f \in Foreign : fpc[f] = "signal"
    /\ waitStop => sent \/ stopper = "signal"

\* When run() decides to return, no task of the loop is half way: none waits or
\* is polled, q_ and pendings_ are empty, and a task in foreign_q_ was spawned
\* after the decision (getRunning() counts a parked task through its Inner).
ReturnAbandonsNobody ==
  lpc = "exit" =>
    /\ q = <<>> /\ io = {}
    /\ \A t \in Tasks : phase[t] \notin {"polling", "waiting"}
    /\ \A t \in Tasks : phase[t] = "scheduled" => polls[t] = 0

\* pendings_ holds I/O objects of tasks that are alive only: a finished or
\* dropped Runnable has taken its tokens out of the list.
NoDanglingWatcher ==
  \A t \in io : phase[t] \in {"scheduled", "polling", "waiting"} \/ t \in leaked

\* The call of run() is over, normally or by an exception.
OutOfRun == lpc \in {"outside", "thrown"}

\* A task that is handed to the loop gets polled while run() goes on.
ScheduledIsPolled ==
  \A t \in Tasks : phase[t] = "scheduled" ~> (phase[t] # "scheduled" \/ OutOfRun)

\* stop() makes run() return, whatever the tasks wait for, unless an Inner was
\* leaked: by an exception that left run(), or by a drop under a channel's mutex.
StopReturns == waitStop ~> (OutOfRun \/ leaked # {})

\* run() without always_blocks returns by itself once its tasks have finished, as
\* long as they only ever waited for the loop's own events.
LocalRunReturns == ~always /\ lpc = "merge" ~> (OutOfRun \/ leaked # {} \/ escaped)

\* "loop.run() will run all tasks in the executor until no more tasks"
\* (README.md): with all tasks finished, run() returns.
AllTasksOver == \A t \in Tasks : phase[t] \in {"unspawned", "done", "dropped"}

RunEndsWithItsTasks ==
  ~always /\ AllTasksOver ~> (OutOfRun \/ ~AllTasksOver \/ leaked # {})
=============================================================================
