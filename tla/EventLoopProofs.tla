-------------------------- MODULE EventLoopProofs ---------------------------
(***************************************************************************)
(* A task and the loop that polls it.                                      *)
(*                                                                         *)
(* UnparkMutex, which every wakeup of a task goes through: for any sets of *)
(* workers and wakers and any number of events, run() and notify() never   *)
(* share the Runnable, lose no wakeup and implement a WakeableTask.        *)
(*                                                                         *)
(* EventExecutor: for any number of tasks and foreign threads, the loop    *)
(* neither sleeps on work nor returns from half-done tasks.                *)
(***************************************************************************)
EXTENDS UnparkMutex, EventExecutor, TLAPS

-----------------------------------------------------------------------------
(* The task: UnparkMutex, run() and notify() *)

\* Where the Runnable is decides what status_ can be.  This is OneRunnable's
\* inductive form: it adds the status at each program point of run() and
\* notify(), without which the exchanges say nothing about who owns data_.
\* Before the first poll hands a Task out (~shared) no waker is in notify(), so
\* that the initial kWaiting, which goes with an empty data_, is never seen.
Ownership ==
  /\ OneRunnable
  /\ ~shared => /\ ~data /\ ~dropped /\ ~registered
                /\ \A k \in Wakers : pc[k] = "idle"
  /\ status = "kWaiting" => \/ ~shared /\ queued > 0
                            \/ ~shared /\ \E w \in Workers : pc[w] = "start_poll"
                            \/ data /\ \A w \in Workers : pc[w] = "idle"
  /\ \A w \in Workers :
       /\ pc[w] \in {"poll", "wait_data", "wait_cas", "complete"} =>
            status \in {"kPolling", "kRepoll"}
       /\ pc[w] = "wait_store" => status = "kRepoll"
       /\ pc[w] \in {"wait_data", "wait_cas", "wait_store"} => shared
       /\ pc[w] \in {"wait_cas", "wait_store"} =>
            data /\ \A v \in Workers : pc[v] \in {"wait_cas", "wait_store"} => v = w
  /\ data => \/ status = "kWaiting"
             \/ \E w \in Workers : pc[w] \in {"wait_cas", "wait_store"}
  /\ ~(dropped /\ status = "kComplete")

MutexInv == MutexTypeOK /\ Ownership

-----------------------------------------------------------------------------
\* A FutureSpawnRun just handed to the executor satisfies the invariant.
LEMMA MutexStart == MutexInit => MutexInv
<1> SUFFICES ASSUME MutexInit PROVE MutexInv
  OBVIOUS
<1> USE ThreadsAssumption DEF MutexInit, Threads
<1>1. MutexTypeOK
  BY Zenon DEF MutexTypeOK, Statuses
<1>2. \A t \in Threads : pc[t] = "idle"
  OBVIOUS
<1>3. OneRunnable
  BY <1>2 DEF OneRunnable, Over, Holds
<1>4. Ownership
  BY <1>2, <1>3 DEF Ownership
<1> QED
  BY <1>1, <1>4, Zenon DEF MutexInv

\* Every step of run(), wait(), complete() and notify() keeps the types.
LEMMA MutexTypes == MutexTypeOK /\ [MutexNext]_unparkVars => MutexTypeOK'
<1> SUFFICES ASSUME MutexTypeOK, [MutexNext]_unparkVars PROVE MutexTypeOK'
  OBVIOUS
<1> USE ThreadsAssumption, MaxEventsAssumption
    DEF MutexTypeOK, Threads, Statuses, RunPcs, NotifyPcs, Goto, mutexVars, sourceVars
<1>1. ASSUME NEW w \in Workers, PopRun(w) PROVE MutexTypeOK'
  BY <1>1 DEF PopRun
<1>2. ASSUME NEW w \in Workers, StartPoll(w) PROVE MutexTypeOK'
  BY <1>2, Zenon DEF StartPoll
<1>3. ASSUME NEW w \in Workers, PollFuture(w) PROVE MutexTypeOK'
  BY <1>3, Zenon DEF PollFuture
<1>4. ASSUME NEW w \in Workers, WaitData(w) PROVE MutexTypeOK'
  BY <1>4, Zenon DEF WaitData
<1>5. ASSUME NEW w \in Workers, WaitCas(w) PROVE MutexTypeOK'
  BY <1>5 DEF WaitCas, Exchanges
<1>6. ASSUME NEW w \in Workers, WaitStore(w) PROVE MutexTypeOK'
  BY <1>6, Zenon DEF WaitStore
<1>7. ASSUME NEW w \in Workers, Complete(w) PROVE MutexTypeOK'
  BY <1>7, Zenon DEF Complete
<1>8. ASSUME NEW k \in Wakers, Fire(k) PROVE MutexTypeOK'
  <2>1. fired' \in Nat /\ avail' \in Nat
    BY <1>8 DEF Fire
  <2>2. registered' \in BOOLEAN
    BY <1>8, Zenon DEF Fire
  <2>3. pc' = [pc EXCEPT ![k] = "load"] \/ pc' = [pc EXCEPT ![k] = "idle"]
    BY <1>8, Zenon DEF Fire
  <2>4. UNCHANGED <<status, data, queued, dropped, seen, shared>>
    BY <1>8, Zenon DEF Fire
  <2> QED
    BY <2>1, <2>2, <2>3, <2>4, Zenon
<1>9. ASSUME NEW k \in Wakers, Unpark(k) PROVE MutexTypeOK'
  BY <1>9, Zenon DEF Unpark
<1>10. ASSUME NEW k \in Wakers, NotifyLoad(k) PROVE MutexTypeOK'
  BY <1>10, Zenon DEF NotifyLoad
<1>11. ASSUME NEW k \in Wakers, NotifyWaiting(k) PROVE MutexTypeOK'
  BY <1>11, ZenonT(30) DEF NotifyWaiting, Exchanges
<1>12. ASSUME NEW k \in Wakers, NotifyPolling(k) PROVE MutexTypeOK'
  BY <1>12, Zenon DEF NotifyPolling, Exchanges
<1>13. ASSUME NEW k \in Wakers, NotifyRetry(k) PROVE MutexTypeOK'
  BY <1>13, Zenon DEF NotifyRetry, Exchanges
<1>14. ASSUME NEW k \in Wakers, NotifyNone(k) PROVE MutexTypeOK'
  BY <1>14, Zenon DEF NotifyNone
<1>15. ASSUME NEW k \in Wakers, Execute(k) PROVE MutexTypeOK'
  <2>1. queued' \in Nat
    BY <1>15 DEF Execute
  <2>0. dropped' \in BOOLEAN
    BY <1>15, Zenon DEF Execute
  <2>2. pc' = [pc EXCEPT ![k] = "idle"]
    BY <1>15, Zenon DEF Execute
  <2>3. UNCHANGED <<status, data, seen, fired, avail, registered, shared>>
    BY <1>15, Zenon DEF Execute
  <2> QED
    BY <2>0, <2>1, <2>2, <2>3, Zenon
<1>16. CASE UNCHANGED unparkVars
  BY <1>16, Zenon DEF unparkVars
<1> QED
  BY <1>1, <1>2, <1>3, <1>4, <1>5, <1>6, <1>7, <1>8,
     <1>9, <1>10, <1>11, <1>12, <1>13, <1>14, <1>15, <1>16, Zenon
  DEF MutexNext, RunStep, NotifyStep

\* Every step of run(), wait(), complete() and notify() hands the Runnable on to
\* one owner, and moves status_ along with it.
LEMMA OwnershipStep == MutexInv /\ [MutexNext]_unparkVars => Ownership'
<1> SUFFICES ASSUME MutexInv, [MutexNext]_unparkVars PROVE Ownership'
  OBVIOUS
<1> MutexTypeOK'
  BY MutexTypes, Zenon DEF MutexInv
<1> USE ThreadsAssumption
    DEF MutexInv, MutexTypeOK, Ownership, OneRunnable, Over, Holds, Threads, Goto,
        mutexVars, sourceVars
<1>1. ASSUME NEW w \in Workers, PopRun(w) PROVE Ownership'
  BY <1>1 DEF PopRun
<1>2. ASSUME NEW w \in Workers, StartPoll(w) PROVE Ownership'
  BY <1>2 DEF StartPoll
<1>3. ASSUME NEW w \in Workers, PollFuture(w) PROVE Ownership'
  BY <1>3 DEF PollFuture
<1>4. ASSUME NEW w \in Workers, WaitData(w) PROVE Ownership'
  BY <1>4, Zenon DEF WaitData
<1>5. ASSUME NEW w \in Workers, WaitCas(w) PROVE Ownership'
  <2>1. \A v \in Workers : pc[v] = "idle" \/ v = w
    BY <1>5 DEF WaitCas, Exchanges, RunPcs
  <2>2. CASE status = "kPolling"
    BY <1>5, <2>1, <2>2 DEF WaitCas, Exchanges
  <2>3. CASE status # "kPolling"
    BY <1>5, <2>1, <2>3 DEF WaitCas, Exchanges
  <2> QED
    BY <2>2, <2>3, Zenon
<1>6. ASSUME NEW w \in Workers, WaitStore(w) PROVE Ownership'
  BY <1>6 DEF WaitStore
<1>7. ASSUME NEW w \in Workers, Complete(w) PROVE Ownership'
  BY <1>7 DEF Complete
<1>8. ASSUME NEW k \in Wakers, Fire(k) PROVE Ownership'
  BY <1>8 DEF Fire
<1>9. ASSUME NEW k \in Wakers, Unpark(k) PROVE Ownership'
  BY <1>9 DEF Unpark
<1>10. ASSUME NEW k \in Wakers, NotifyLoad(k) PROVE Ownership'
  BY <1>10, Zenon DEF NotifyLoad
<1>11. ASSUME NEW k \in Wakers, NotifyWaiting(k) PROVE Ownership'
  BY <1>11, Zenon DEF NotifyWaiting, Exchanges
<1>12. ASSUME NEW k \in Wakers, NotifyPolling(k) PROVE Ownership'
  BY <1>12 DEF NotifyPolling, Exchanges
<1>13. ASSUME NEW k \in Wakers, NotifyRetry(k) PROVE Ownership'
  BY <1>13, Zenon DEF NotifyRetry, Exchanges
<1>14. ASSUME NEW k \in Wakers, NotifyNone(k) PROVE Ownership'
  BY <1>14, Zenon DEF NotifyNone
<1>15. ASSUME NEW k \in Wakers, Execute(k) PROVE Ownership'
  BY <1>15 DEF Execute
<1>16. CASE UNCHANGED unparkVars
  BY <1>16, Zenon DEF unparkVars
<1> QED
  BY Zenon, <1>1, <1>2, <1>3, <1>4, <1>5, <1>6, <1>7, <1>8,
     <1>9, <1>10, <1>11, <1>12, <1>13, <1>14, <1>15, <1>16
  DEF MutexNext, RunStep, NotifyStep

\* The two together: the invariant is inductive.
LEMMA MutexStep == MutexInv /\ [MutexNext]_unparkVars => MutexInv'
  BY MutexTypes, OwnershipStep, Zenon DEF MutexInv

\* IInv holds in every state of every behaviour of run(), wait() and notify().
THEOREM MutexInvariance == MutexSpec => []MutexInv
<1>1. MutexInit => MutexInv
  BY MutexStart, Zenon
<1>2. MutexInv /\ [MutexNext]_unparkVars => MutexInv'
  BY MutexStep, Zenon
<1> QED
  BY <1>1, <1>2, PTL DEF MutexSpec

\* Type correctness of the task's state.
THEOREM MutexTypeCorrect == MutexSpec => []MutexTypeOK
  BY MutexInvariance, PTL DEF MutexInv

\* For any number of threads, the future is in exactly one pair of hands until
\* the task is over: polls never overlap, and execute() is never given the same
\* task twice.
THEOREM OneRunnableHolds == MutexSpec => []OneRunnable
<1>1. MutexInv => OneRunnable
  BY Zenon DEF MutexInv, Ownership
<1> QED
  BY <1>1, MutexInvariance, PTL

\* The assert in UnparkMutex::wait never fails.
THEOREM RepollAssertHolds == MutexSpec => []FailedWaitSeesRepoll
<1>1. MutexInv => FailedWaitSeesRepoll
  BY Zenon DEF MutexInv, Ownership, FailedWaitSeesRepoll
<1> QED
  BY <1>1, MutexInvariance, PTL

-----------------------------------------------------------------------------
\* Every step keeps a poll coming while an event is untaken or no Task is
\* registered: what start_poll, wait and notify overwrite is never the last trace
\* of a wakeup.
LEMMA NoLostWakeupStep == MutexInv /\ NoLostWakeup /\ [MutexNext]_unparkVars => NoLostWakeup'
<1> SUFFICES ASSUME MutexInv, NoLostWakeup, [MutexNext]_unparkVars PROVE NoLostWakeup'
  OBVIOUS
<1> USE ThreadsAssumption
    DEF MutexInv, MutexTypeOK, Ownership, OneRunnable, NoLostWakeup, PollComing, Over, Holds,
        Threads, Goto, mutexVars, sourceVars
<1>1. ASSUME NEW w \in Workers, PopRun(w) PROVE NoLostWakeup'
  BY <1>1, Zenon DEF PopRun
<1>2. ASSUME NEW w \in Workers, StartPoll(w) PROVE NoLostWakeup'
  BY <1>2, Zenon DEF StartPoll
<1>3. ASSUME NEW w \in Workers, PollFuture(w) PROVE NoLostWakeup'
  BY <1>3 DEF PollFuture
<1>4. ASSUME NEW w \in Workers, WaitData(w) PROVE NoLostWakeup'
  BY <1>4, Zenon DEF WaitData
<1>5. ASSUME NEW w \in Workers, WaitCas(w) PROVE NoLostWakeup'
  BY <1>5, Zenon DEF WaitCas, Exchanges
<1>6. ASSUME NEW w \in Workers, WaitStore(w) PROVE NoLostWakeup'
  BY <1>6, Zenon DEF WaitStore
<1>7. ASSUME NEW w \in Workers, Complete(w) PROVE NoLostWakeup'
  BY <1>7, Zenon DEF Complete
<1>8. ASSUME NEW k \in Wakers, Fire(k) PROVE NoLostWakeup'
  BY <1>8, Zenon DEF Fire
<1>9. ASSUME NEW k \in Wakers, Unpark(k) PROVE NoLostWakeup'
  BY <1>9, Zenon DEF Unpark
<1>10. ASSUME NEW k \in Wakers, NotifyLoad(k) PROVE NoLostWakeup'
  BY <1>10, Zenon DEF NotifyLoad, Statuses
<1>11. ASSUME NEW k \in Wakers, NotifyWaiting(k) PROVE NoLostWakeup'
  BY <1>11, Zenon DEF NotifyWaiting, Exchanges
<1>12. ASSUME NEW k \in Wakers, NotifyPolling(k) PROVE NoLostWakeup'
  BY <1>12, Zenon DEF NotifyPolling, Exchanges
<1>13. ASSUME NEW k \in Wakers, NotifyRetry(k) PROVE NoLostWakeup'
  BY <1>13, Zenon DEF NotifyRetry, Exchanges, Statuses
<1>14. ASSUME NEW k \in Wakers, NotifyNone(k) PROVE NoLostWakeup'
  BY <1>14, Zenon DEF NotifyNone
<1>15. ASSUME NEW k \in Wakers, Execute(k) PROVE NoLostWakeup'
  BY <1>15 DEF Execute
<1>16. CASE UNCHANGED unparkVars
  BY <1>16, Zenon DEF unparkVars
<1> QED
  BY Zenon, <1>1, <1>2, <1>3, <1>4, <1>5, <1>6, <1>7, <1>8,
     <1>9, <1>10, <1>11, <1>12, <1>13, <1>14, <1>15, <1>16
  DEF MutexNext, RunStep, NotifyStep

\* No interleaving of run(), wait() and notify()s loses a wakeup.
THEOREM NoLostWakeupHolds == MutexSpec => []NoLostWakeup
<1>1. MutexInit => NoLostWakeup
  BY SMTT(30) DEF MutexInit, NoLostWakeup, PollComing
<1> QED
  BY <1>1, NoLostWakeupStep, MutexInvariance, PTL DEF MutexSpec

-----------------------------------------------------------------------------
\* No step of a late notify() or of a worker takes a task that is over back.
LEMMA OverStep ==
  ASSUME MutexInv, [MutexNext]_unparkVars
  PROVE  /\ status = "kComplete" => status' = "kComplete"
         /\ Over => \A w \in Workers : pc'[w] # "poll"
<1> USE ThreadsAssumption
    DEF MutexInv, MutexTypeOK, Ownership, OneRunnable, Over, Holds, Threads, Goto,
        mutexVars, sourceVars
<1> DEFINE Final == /\ status = "kComplete" => status' = "kComplete"
                    /\ Over => \A v \in Workers : pc'[v] # "poll"
<1>1. ASSUME NEW w \in Workers, PopRun(w) PROVE Final
  BY <1>1, Zenon DEF PopRun
<1>2. ASSUME NEW w \in Workers, StartPoll(w) PROVE Final
  BY <1>2, Zenon DEF StartPoll
<1>3. ASSUME NEW w \in Workers, PollFuture(w) PROVE Final
  BY <1>3, Zenon DEF PollFuture
<1>4. ASSUME NEW w \in Workers, WaitData(w) PROVE Final
  BY <1>4, Zenon DEF WaitData
<1>5. ASSUME NEW w \in Workers, WaitCas(w) PROVE Final
  BY <1>5, Zenon DEF WaitCas, Exchanges
<1>6. ASSUME NEW w \in Workers, WaitStore(w) PROVE Final
  BY <1>6, Zenon DEF WaitStore
<1>7. ASSUME NEW w \in Workers, Complete(w) PROVE Final
  BY <1>7, Zenon DEF Complete
<1>8. ASSUME NEW k \in Wakers, Fire(k) PROVE Final
  BY <1>8, Zenon DEF Fire
<1>9. ASSUME NEW k \in Wakers, Unpark(k) PROVE Final
  BY <1>9, Zenon DEF Unpark
<1>10. ASSUME NEW k \in Wakers, NotifyLoad(k) PROVE Final
  BY <1>10, Zenon DEF NotifyLoad
<1>11. ASSUME NEW k \in Wakers, NotifyWaiting(k) PROVE Final
  BY <1>11, Zenon DEF NotifyWaiting, Exchanges
<1>12. ASSUME NEW k \in Wakers, NotifyPolling(k) PROVE Final
  BY <1>12, Zenon DEF NotifyPolling, Exchanges
<1>13. ASSUME NEW k \in Wakers, NotifyRetry(k) PROVE Final
  BY <1>13, Zenon DEF NotifyRetry, Exchanges
<1>14. ASSUME NEW k \in Wakers, NotifyNone(k) PROVE Final
  BY <1>14, Zenon DEF NotifyNone
<1>15. ASSUME NEW k \in Wakers, Execute(k) PROVE Final
  BY <1>15, Zenon DEF Execute
<1>16. CASE UNCHANGED unparkVars
  BY <1>16, Zenon DEF unparkVars
<1> QED
  BY Zenon, <1>1, <1>2, <1>3, <1>4, <1>5, <1>6, <1>7, <1>8,
     <1>9, <1>10, <1>11, <1>12, <1>13, <1>14, <1>15, <1>16
  DEF MutexNext, RunStep, NotifyStep

\* complete() is final, and a task that is over is never polled again.
THEOREM OverIsFinalHolds == MutexSpec => OverIsFinal
<1>1. MutexInv /\ [MutexNext]_unparkVars =>
        [/\ status = "kComplete" => status' = "kComplete"
         /\ Over => \A w \in Workers : pc'[w] # "poll"]_unparkVars
  BY OverStep, Zenon
<1> QED
  BY <1>1, MutexInvariance, PTL DEF MutexSpec, OverIsFinal

-----------------------------------------------------------------------------
\* A thread that moves on, neither taking the Runnable nor handing it over, and
\* leaves status_ alone, leaves the abstract task alone.
LEMMA TaskFrame ==
  ASSUME MutexTypeOK, UNCHANGED <<status, dropped, queued>>, NEW t \in Threads, NEW l,
         pc[t] \notin {"start_poll", "execute"}, l \notin {"start_poll", "execute"},
         pc' = [pc EXCEPT ![t] = l]
  PROVE  [Task!Next]_(Task!vars)
<1>1. \A u \in Threads : /\ pc'[u] = "start_poll" <=> pc[u] = "start_poll"
                         /\ pc'[u] = "execute" <=> pc[u] = "execute"
  BY Zenon DEF MutexTypeOK, Threads
<1>2. Scheduled' <=> Scheduled
  BY <1>1, Zenon DEF Scheduled, Threads
<1>3. taskPhase' = taskPhase
  BY <1>2, Zenon DEF taskPhase, Over
<1>4. taskWoken' = taskWoken
  BY <1>3, Zenon DEF taskWoken
<1> QED
  BY <1>3, <1>4, Zenon DEF Task!vars

\* Every step of run() and notify() is a step of the abstract task or leaves it
\* alone.
LEMMA TaskStep ==
  ASSUME MutexInv, MutexInv', [MutexNext]_unparkVars
  PROVE  [Task!Next]_(Task!vars)
<1>0. MutexTypeOK /\ Ownership /\ OneRunnable
  BY Zenon DEF MutexInv, Ownership
<1>3. ASSUME NEW w \in Workers, PollFuture(w) PROVE [Task!Next]_(Task!vars)
  <2>1. /\ UNCHANGED <<status, dropped, queued>> /\ pc[w] = "poll"
        /\ \E l \in {"complete", "wait_data"} : pc' = [pc EXCEPT ![w] = l]
    BY <1>3, Zenon DEF PollFuture, Goto, mutexVars
  <2> QED
    BY <1>0, <2>1, TaskFrame, Zenon DEF Threads
<1>4. ASSUME NEW w \in Workers, WaitData(w) PROVE [Task!Next]_(Task!vars)
  <2>1. /\ UNCHANGED <<status, dropped, queued>> /\ pc[w] = "wait_data"
        /\ \E l \in {"wait_cas"} : pc' = [pc EXCEPT ![w] = l]
    BY <1>4, Zenon DEF WaitData, Goto, mutexVars
  <2> QED
    BY <1>0, <2>1, TaskFrame, Zenon DEF Threads
<1>8. ASSUME NEW k \in Wakers, Fire(k) PROVE [Task!Next]_(Task!vars)
  <2>1. /\ UNCHANGED <<status, dropped, queued>> /\ pc[k] = "idle"
        /\ \E l \in {"load", "idle"} : pc' = [pc EXCEPT ![k] = l]
    BY <1>8, Zenon DEF Fire, Goto, mutexVars
  <2> QED
    BY <1>0, <2>1, TaskFrame, Zenon DEF Threads
<1>9. ASSUME NEW k \in Wakers, Unpark(k) PROVE [Task!Next]_(Task!vars)
  <2>1. /\ UNCHANGED <<status, dropped, queued>> /\ pc[k] = "idle"
        /\ \E l \in {"load"} : pc' = [pc EXCEPT ![k] = l]
    BY <1>9, Zenon DEF Unpark, Goto, mutexVars
  <2> QED
    BY <1>0, <2>1, TaskFrame, Zenon DEF Threads
<1>10. ASSUME NEW k \in Wakers, NotifyLoad(k) PROVE [Task!Next]_(Task!vars)
  <2>1. /\ UNCHANGED <<status, dropped, queued>> /\ pc[k] = "load"
        /\ \E l \in {"switch"} : pc' = [pc EXCEPT ![k] = l]
    BY <1>10, Zenon DEF NotifyLoad, Goto, mutexVars
  <2> QED
    BY <1>0, <2>1, TaskFrame, Zenon DEF Threads
<1>13. ASSUME NEW k \in Wakers, NotifyRetry(k) PROVE [Task!Next]_(Task!vars)
  <2>1. UNCHANGED <<status, dropped, queued, pc>>
    BY <1>13, Zenon DEF NotifyRetry, mutexVars
  <2>2. taskPhase' = taskPhase /\ taskWoken' = taskWoken
    BY <2>1, Zenon DEF taskPhase, taskWoken, Over, Scheduled
  <2> QED
    BY <2>2, Zenon DEF Task!vars
<1>14. ASSUME NEW k \in Wakers, NotifyNone(k) PROVE [Task!Next]_(Task!vars)
  <2>1. /\ UNCHANGED <<status, dropped, queued>> /\ pc[k] = "switch"
        /\ \E l \in {"idle"} : pc' = [pc EXCEPT ![k] = l]
    BY <1>14, Zenon DEF NotifyNone, Goto, mutexVars
  <2> QED
    BY <1>0, <2>1, TaskFrame, Zenon DEF Threads
<1>12. ASSUME NEW k \in Wakers, NotifyPolling(k) PROVE [Task!Next]_(Task!vars)
  <2>1. /\ UNCHANGED <<dropped, queued>> /\ pc' = [pc EXCEPT ![k] = "idle"]
        /\ pc[k] = "switch" /\ status = "kPolling" /\ status' = "kRepoll"
    BY <1>12, Zenon DEF NotifyPolling, Exchanges, Goto
  <2>2. \A u \in Threads : /\ pc'[u] = "start_poll" <=> pc[u] = "start_poll"
                           /\ pc'[u] = "execute" <=> pc[u] = "execute"
    BY <1>0, <2>1, Zenon DEF MutexTypeOK, Threads
  <2>3. Scheduled' <=> Scheduled
    BY <2>1, <2>2, Zenon DEF Scheduled, Threads
  <2>4. CASE dropped \/ Scheduled
    <3>1. taskPhase' = taskPhase /\ ~taskWoken /\ ~taskWoken'
      BY <2>1, <2>3, <2>4, Zenon DEF taskPhase, taskWoken, Over
    <3>2. taskWoken' = taskWoken
      BY <3>1, Zenon DEF taskWoken
    <3> QED
      BY <3>1, <3>2, Zenon DEF Task!vars
  <2>5. CASE ~dropped /\ ~Scheduled
    <3>1. taskPhase = "polling" /\ taskPhase' = "polling"
      BY <1>0, <2>1, <2>3, <2>5, Zenon DEF taskPhase, Over, MutexTypeOK
    <3>2. taskWoken' = TRUE
      BY <2>1, <3>1, Zenon DEF taskWoken
    <3> QED
      BY <3>1, <3>2, Zenon DEF Task!Next, Task!Unpark
  <2> QED
    BY <2>4, <2>5, Zenon
<1>1. ASSUME NEW w \in Workers, PopRun(w) PROVE [Task!Next]_(Task!vars)
  <2>1. UNCHANGED <<status, dropped>> /\ queued > 0 /\ pc' = [pc EXCEPT ![w] = "start_poll"]
    BY <1>1, Zenon DEF PopRun, Goto, mutexVars
  <2>2. ~Over /\ Scheduled
    BY <1>0, <2>1 DEF OneRunnable, Scheduled
  <2>3. Scheduled'
    BY <1>0, <2>1, Zenon DEF Scheduled, MutexTypeOK, Threads
  <2>4. ~Over'
    BY <2>1, <2>2, Zenon DEF Over
  <2>5. taskPhase = "scheduled" /\ taskPhase' = "scheduled"
    BY <2>2, <2>3, <2>4, Zenon DEF taskPhase, Over
  <2>6. taskWoken' = taskWoken
    BY <2>5, Zenon DEF taskWoken
  <2> QED
    BY <2>5, <2>6, Zenon DEF Task!vars
<1>7. ASSUME NEW w \in Workers, Complete(w) PROVE [Task!Next]_(Task!vars)
  <2>1. UNCHANGED <<queued, dropped>> /\ pc[w] = "complete" /\ status' = "kComplete"
    BY <1>7, Zenon DEF Complete
  <2>2. status \in {"kPolling", "kRepoll"}
    BY <1>0, <2>1, Zenon DEF Ownership
  <2>3. w \in Threads /\ Holds(w)
    BY <2>1, Zenon DEF Holds, Threads
  <2>4. ~Over /\ ~(queued > 0) /\ \A u \in Threads : Holds(u) => u = w
    BY <1>0, <2>3, Zenon DEF OneRunnable
  <2>5. ~Scheduled
    BY <2>1, <2>4, Zenon DEF Scheduled, Holds, Threads
  <2>6. taskPhase = "polling" /\ taskPhase' = "done"
    BY <2>1, <2>2, <2>4, <2>5, Zenon DEF taskPhase, Over
  <2>7. taskWoken' = FALSE
    BY <2>6, Zenon DEF taskWoken
  <2> QED
    BY <2>6, <2>7, Zenon DEF Task!Next, Task!Finish
<1>15. ASSUME NEW k \in Wakers, Execute(k) PROVE [Task!Next]_(Task!vars)
  <2>1. status' = status /\ pc[k] = "execute"
    BY <1>15, Zenon DEF Execute, mutexVars
  <2>2. k \in Threads /\ Holds(k)
    BY <2>1, Zenon DEF Holds, Threads
  <2>3. ~Over /\ Scheduled
    BY <1>0, <2>1, <2>2, Zenon DEF OneRunnable, Scheduled
  <2>4. taskPhase = "scheduled" /\ taskWoken = FALSE
    BY <2>3, Zenon DEF taskPhase, taskWoken, Over
  <2>5. CASE queued' = queued + 1 /\ dropped' = dropped
    <3>1. Scheduled'
      BY <1>0, <2>5 DEF Scheduled, MutexTypeOK
    <3>2. ~Over'
      BY <2>1, <2>3, <2>5, Zenon DEF Over
    <3>3. taskPhase' = "scheduled"
      BY <3>1, <3>2, Zenon DEF taskPhase, Over
    <3>4. taskWoken' = FALSE
      BY <3>3, Zenon DEF taskWoken
    <3> QED
      BY <2>4, <3>3, <3>4, Zenon DEF Task!vars
  <2>6. CASE dropped' = TRUE
    <3>1. taskPhase' = "dropped"
      BY <2>6, Zenon DEF taskPhase, Over
    <3>2. taskWoken' = FALSE
      BY <3>1, Zenon DEF taskWoken
    <3> QED
      BY <2>4, <3>1, <3>2, Zenon DEF Task!Next, Task!Drop
  <2> QED
    BY <1>15, <2>5, <2>6, Zenon DEF Execute
<1>16. CASE UNCHANGED unparkVars
  <2>1. taskPhase' = taskPhase /\ taskWoken' = taskWoken
    <3>1. UNCHANGED <<status, dropped, queued, pc>>
      BY <1>16, Zenon DEF unparkVars
    <3> QED
      BY <3>1 DEF taskPhase, taskWoken, Over, Scheduled
  <2> QED
    BY <2>1, Zenon DEF Task!vars
<1> USE ThreadsAssumption
    DEF MutexInv, MutexTypeOK, Ownership, OneRunnable, Over, Holds, Threads, Goto,
        mutexVars, sourceVars, taskPhase, taskWoken, Scheduled, Statuses,
        Task!vars, Task!Next, Task!Unpark, Task!StartPoll, Task!Park, Task!Repoll,
        Task!Finish, Task!Drop
<1>2. ASSUME NEW w \in Workers, StartPoll(w) PROVE [Task!Next]_(Task!vars)
  BY <1>2, ZenonT(30) DEF StartPoll
<1>5. ASSUME NEW w \in Workers, WaitCas(w) PROVE [Task!Next]_(Task!vars)
  BY <1>5, ZenonT(30) DEF WaitCas, Exchanges
<1>6. ASSUME NEW w \in Workers, WaitStore(w) PROVE [Task!Next]_(Task!vars)
  BY <1>6, ZenonT(30) DEF WaitStore
<1>11. ASSUME NEW k \in Wakers, NotifyWaiting(k) PROVE [Task!Next]_(Task!vars)
  BY <1>11, ZenonT(30) DEF NotifyWaiting, Exchanges
<1> HIDE DEF MutexInv, MutexTypeOK, Ownership, OneRunnable, Over, Holds, Threads, Goto,
        mutexVars, sourceVars, taskPhase, taskWoken, Scheduled, Statuses,
        Task!vars, Task!Next, Task!Unpark, Task!StartPoll, Task!Park, Task!Repoll,
        Task!Finish, Task!Drop
<1> QED
  BY Zenon, <1>1, <1>2, <1>3, <1>4, <1>5, <1>6, <1>7, <1>8,
     <1>9, <1>10, <1>11, <1>12, <1>13, <1>14, <1>15, <1>16
  DEF MutexNext, RunStep, NotifyStep

\* run(), wait(), complete() and notify() implement the abstract task, for any
\* number of threads (safety; the liveness part is model-checked).
THEOREM TaskRefinement == MutexSpec => Task!Spec
<1>1. MutexInit => Task!Init
  BY DEF MutexInit, Task!Init, taskPhase, taskWoken, Over, Scheduled
<1>2. MutexInv /\ MutexInv' /\ [MutexNext]_unparkVars => [Task!Next]_(Task!vars)
  BY TaskStep, Zenon
<1> QED
  BY <1>1, <1>2, MutexInvariance, PTL DEF MutexSpec, Task!Spec

-----------------------------------------------------------------------------
(* The loop: EventExecutor::run(), execute() and stop() *)

\* Foreign thread f has the Runnable of hand[f] and calls execute().
Holding(f) == fpc[f] \in {"spawn", "unpark"}

\* A scheduled Runnable is in one place: once in q_, once in foreign_q_, or with one
\* foreign thread.
Placed ==
  /\ Once(q) /\ Once(fq) /\ Elems(q) \cap Elems(fq) = {}
  /\ \A t \in Elems(q) \cup Elems(fq) : phase[t] = "scheduled"
  /\ \A f \in Foreign : Holding(f) => /\ hand[f] \in Tasks /\ phase[hand[f]] = "scheduled"
                                      /\ hand[f] \notin Elems(q) \cup Elems(fq)
  /\ \A f, g \in Foreign : Holding(f) /\ Holding(g) /\ hand[f] = hand[g] => f = g

\* The task the loop polls is its own.
Polled == lpc \in {"poll", "wait"} => cur \in Tasks /\ phase[cur] = "polling"

\* q_ is empty from the check for it on, and what came to foreign_q_ since the last
\* merge is announced: only the steps back to merge_queue forget a signal.
Served ==
  /\ lpc \in {"check_stop", "cleanup", "block", "exit"} => q = <<>>
  /\ lpc \in {"drain", "poll", "wait", "check_stop", "block"} /\ fq # <<>> =>
       sent \/ \E f \in Foreign : fpc[f] = "signal"
  /\ lpc = "block" /\ waitStop => sent \/ stopper = "signal"

Watched ==
  /\ NoDanglingWatcher
  /\ ReturnAbandonsNobody
  /\ \A t \in Tasks : phase[t] = "unspawned" => polls[t] = 0

IInv == TypeOK /\ Placed /\ Polled /\ Served /\ Watched

-----------------------------------------------------------------------------
(* The lists *)

\* Linking an element in at the end.
LEMMA AppendFacts ==
  ASSUME NEW T, NEW s \in Seq(T), NEW x \in T, x \notin Elems(s), Once(s)
  PROVE  /\ Append(s, x) \in Seq(T)
         /\ Once(Append(s, x))
         /\ Elems(Append(s, x)) = Elems(s) \cup {x}
<1> DEFINE t == Append(s, x)
<1>1. /\ t \in Seq(T) /\ Len(s) \in Nat /\ Len(t) = Len(s) + 1
      /\ \A i \in 1..Len(s) : t[i] = s[i]
      /\ t[Len(s) + 1] = x
  OBVIOUS
<1>2. \A i \in 1..Len(s) : s[i] # x
  BY Zenon DEF Elems
<1> HIDE DEF t
<1>3. Once(t)
  BY <1>1, <1>2 DEF Once
<1>4. Elems(t) = Elems(s) \cup {x}
  <2>1. ASSUME NEW y \in Elems(t) PROVE y \in Elems(s) \cup {x}
    <3>1. PICK i \in 1..Len(s) + 1 : y = t[i]
      BY <1>1, <2>1, Zenon DEF Elems
    <3> QED
      BY <1>1, <3>1 DEF Elems
  <2>2. ASSUME NEW y \in Elems(s) PROVE y \in Elems(t)
    <3>1. PICK i \in 1..Len(s) : y = s[i]
      BY <2>2, Zenon DEF Elems
    <3>2. i \in 1..Len(t) /\ y = t[i]
      BY <1>1, <3>1
    <3> QED
      BY <3>2, Zenon DEF Elems
  <2>3. x \in Elems(t)
    <3>1. Len(s) + 1 \in 1..Len(t)
      BY <1>1
    <3> QED
      BY <1>1, <3>1, Zenon DEF Elems
  <2> QED
    BY <2>1, <2>2, <2>3, Zenon
<1> QED
  BY <1>1, <1>3, <1>4, Zenon DEF t

\* Popping the first element.
LEMMA TailFacts ==
  ASSUME NEW T, NEW s \in Seq(T), s # <<>>, Once(s)
  PROVE  /\ Tail(s) \in Seq(T) /\ Once(Tail(s))
         /\ Head(s) \in T /\ Head(s) \in Elems(s)
         /\ Elems(Tail(s)) = Elems(s) \ {Head(s)}
<1> DEFINE t == Tail(s)
<1>1. Len(s) \in Nat /\ Len(s) >= 1 /\ Head(s) = s[1]
  OBVIOUS
<1>2. Head(s) \in T /\ Head(s) \in Elems(s)
  BY <1>1 DEF Elems
<1>3. t \in Seq(T) /\ Len(t) = Len(s) - 1 /\ \A i \in 1..Len(s) - 1 : t[i] = s[i + 1]
  BY <1>1
<1> HIDE DEF t
<1>4. Once(t)
  <2> SUFFICES ASSUME NEW i \in 1..Len(t), NEW j \in 1..Len(t), t[i] = t[j] PROVE i = j
    BY Zenon DEF Once
  <2>1. t[i] = s[i + 1] /\ t[j] = s[j + 1] /\ i + 1 \in 1..Len(s) /\ j + 1 \in 1..Len(s)
    BY <1>1, <1>3
  <2>2. i + 1 = j + 1
    BY <2>1, Zenon DEF Once
  <2> QED
    BY <1>1, <1>3, <2>2
<1>5. ASSUME NEW y \in Elems(t) PROVE y \in Elems(s) /\ y # Head(s)
  <2>1. PICK i \in 1..Len(t) : y = t[i]
    BY <1>5, Zenon DEF Elems
  <2>2. i + 1 \in 1..Len(s) /\ y = s[i + 1] /\ i + 1 # 1 /\ 1 \in 1..Len(s)
    BY <1>1, <1>3, <2>1
  <2>3. s[1] # y
    BY <2>2, Zenon DEF Once
  <2> QED
    BY <1>1, <2>2, <2>3, Zenon DEF Elems
<1>6. ASSUME NEW y \in Elems(s), y # Head(s) PROVE y \in Elems(t)
  <2>1. PICK i \in 1..Len(s) : y = s[i]
    BY <1>6, Zenon DEF Elems
  <2>2. i - 1 \in 1..Len(t) /\ i - 1 \in 1..Len(s) - 1 /\ (i - 1) + 1 = i
    BY <1>1, <1>3, <1>6, <2>1
  <2>3. t[i - 1] = s[i]
    BY <1>3, <2>2, Zenon
  <2> QED
    BY <2>1, <2>2, <2>3, Zenon DEF Elems
<1> QED
  BY <1>2, <1>3, <1>4, <1>5, <1>6, Zenon DEF t

\* Splicing one list behind another.
LEMMA ConcatFacts ==
  ASSUME NEW T, NEW s \in Seq(T), NEW t \in Seq(T), Once(s), Once(t),
         Elems(s) \cap Elems(t) = {}
  PROVE  /\ s \o t \in Seq(T)
         /\ Once(s \o t)
         /\ Elems(s \o t) = Elems(s) \cup Elems(t)
<1> DEFINE u == s \o t
           m == Len(s)
           n == Len(t)
<1>1. /\ u \in Seq(T) /\ Len(u) = m + n /\ m \in Nat /\ n \in Nat
      /\ \A i \in 1..m + n : u[i] = IF i <= m THEN s[i] ELSE t[i - m]
  OBVIOUS
<1> HIDE DEF u, m, n
<1>2. \A i \in 1..m : u[i] = s[i] /\ i \in 1..m + n
  BY <1>1
<1>3. \A i \in 1..n : u[m + i] = t[i] /\ m + i \in 1..m + n
  BY <1>1
<1>4. \A i \in 1..m + n : i \in 1..m \/ (i - m \in 1..n /\ i = m + (i - m) /\ i \notin 1..m)
  BY <1>1
<1>5. \A i \in 1..m + n : \/ i \in 1..m /\ u[i] = s[i] /\ u[i] \in Elems(s)
                          \/ i - m \in 1..n /\ u[i] = t[i - m] /\ u[i] \in Elems(t)
  <2>1. ASSUME NEW i \in 1..m PROVE u[i] = s[i] /\ u[i] \in Elems(s)
    BY <1>2, Zenon DEF Elems, m
  <2>2. ASSUME NEW i \in 1..n PROVE u[m + i] = t[i] /\ t[i] \in Elems(t)
    BY <1>3, Zenon DEF Elems, n
  <2> QED
    BY <1>4, <2>1, <2>2, ZenonT(30)
<1>6. Elems(u) = Elems(s) \cup Elems(t)
  <2>1. \A x \in Elems(u) : x \in Elems(s) \cup Elems(t)
    BY <1>1, <1>5, Zenon DEF Elems
  <2>2. \A x \in Elems(s) : x \in Elems(u)
    BY <1>1, <1>2, Zenon DEF Elems, m
  <2>3. \A x \in Elems(t) : x \in Elems(u)
    <3> SUFFICES ASSUME NEW i \in 1..n PROVE t[i] \in Elems(u)
      BY Zenon DEF Elems, n
    <3>1. u[m + i] = t[i] /\ m + i \in 1..Len(u)
      BY <1>1, <1>3, Zenon
    <3> QED
      BY <3>1, Zenon DEF Elems
  <2> QED
    BY <2>1, <2>2, <2>3, Zenon
<1>7. Once(u)
  <2> SUFFICES ASSUME NEW i \in 1..m + n, NEW j \in 1..m + n, u[i] = u[j] PROVE i = j
    BY <1>1, Zenon DEF Once
  <2>1. CASE i \in 1..m /\ u[i] = s[i] /\ u[i] \in Elems(s)
    <3>1. j \in 1..m /\ u[j] = s[j]
      BY <1>5, <2>1, Zenon
    <3> QED
      BY <2>1, <3>1, Zenon DEF Once, m
  <2>2. CASE i - m \in 1..n /\ u[i] = t[i - m] /\ u[i] \in Elems(t)
    <3>1. j - m \in 1..n /\ u[j] = t[j - m]
      BY <1>5, <2>2, Zenon
    <3>2. i - m = j - m
      BY <2>2, <3>1, Zenon DEF Once, n
    <3> QED
      BY <1>1, <3>2
  <2> QED
    BY <1>5, <2>1, <2>2, Zenon
<1> QED
  BY <1>1, <1>6, <1>7, Zenon DEF u

-----------------------------------------------------------------------------
\* The order in which tasks are unparked is a list of them.
LEMMA OrderFacts ==
  ASSUME NEW U \in SUBSET Tasks, NEW order \in Orders(U)
  PROVE  order \in Seq(Tasks) /\ Elems(order) = U /\ Once(order)
<1>1. PICK n \in 0..Cardinality(U) : order \in [1..n -> U]
  BY Zenon DEF Orders
<1>2. order \in Seq(Tasks)
  BY <1>1
<1> QED
  BY <1>2, Zenon DEF Orders

\* Unparking on the loop thread, T being a set of tasks.
LEMMA UnparkHereFacts ==
  ASSUME TypeOK, Placed, NEW T \in SUBSET Tasks, UnparkHere(T)
  PROVE  /\ q' \in Seq(Tasks) /\ Once(q')
         /\ Elems(q') = Elems(q) \cup {t \in T : phase[t] = "waiting"}
         /\ phase' = [t \in Tasks |-> IF t \in T /\ phase[t] = "waiting"
                                      THEN "scheduled" ELSE phase[t]]
<1> DEFINE U == {t \in T : phase[t] = "waiting"}
<1>1. PICK order \in Orders(U) : q' = q \o order
  BY Zenon DEF UnparkHere
<1>2. U \in SUBSET Tasks
  OBVIOUS
<1>3. order \in Seq(Tasks) /\ Elems(order) = U /\ Once(order)
  BY <1>2, OrderFacts, Zenon
<1>4. Elems(q) \cap Elems(order) = {}
  BY <1>3, Zenon DEF Placed
<1>5. q \in Seq(Tasks) /\ Once(q)
  BY Zenon DEF TypeOK, Placed
<1>6. /\ q \o order \in Seq(Tasks) /\ Once(q \o order)
      /\ Elems(q \o order) = Elems(q) \cup Elems(order)
  BY <1>3, <1>4, <1>5, ConcatFacts
<1> QED
  BY <1>1, <1>3, <1>6, Zenon DEF UnparkHere

\* A task that unparks one schedules it and queues it, or leaves both alone.
LEMMA UnparkByTaskCases ==
  ASSUME TypeOK, NEW t \in Tasks, UnparkByTask(t)
  PROVE  \/ phase' = phase /\ q' = q
         \/ /\ phase[t] = "waiting" /\ phase' = [phase EXCEPT ![t] = "scheduled"]
            /\ q' = Append(q, t)
<1>1. phase \in [Tasks -> {"unspawned", "scheduled", "polling", "waiting", "done", "dropped"}]
  BY Zenon DEF TypeOK
<1>2. CASE phase[t] = "waiting"
  BY <1>2, Zenon DEF UnparkByTask
<1>3. CASE phase[t] # "waiting"
  <2>1. phase' = [phase EXCEPT ![t] = phase[t]] /\ q' = q
    BY <1>3, Zenon DEF UnparkByTask
  <2> QED
    BY <1>1, <2>1, Zenon
<1> QED
  BY <1>2, <1>3, Zenon

\* Every step keeps the types.
LEMMA TypeOKStep == TypeOK /\ Placed /\ Polled /\ [Next]_vars => TypeOK'
<1> SUFFICES ASSUME TypeOK, Placed, Polled, [Next]_vars PROVE TypeOK'
  BY Zenon
<1> USE BoundsAssumption
<1>1. ASSUME NEW t \in Tasks, SpawnHere(t) PROVE TypeOK'
  <2>1. q' \in Seq(Tasks)
    BY <1>1 DEF SpawnHere, TypeOK
  <2> QED
    BY <1>1, <2>1 DEF SpawnHere, TypeOK, callVars, foreignVars
<1>2. ASSUME Run PROVE TypeOK'
  BY <1>2 DEF Run, TypeOK, queueVars, taskVars, foreignVars
<1>3. ASSUME Merge PROVE TypeOK'
  <2>1. q' \in Seq(Tasks) /\ fq' \in Seq(Tasks)
    BY <1>3 DEF Merge, TypeOK
  <2> QED
    BY <1>3, <2>1, Zenon DEF Merge, TypeOK, taskVars, callVars, foreignVars
<1>4. ASSUME Pop PROVE TypeOK'
  <2>1. q' \in Seq(Tasks) /\ Head(q) \in Tasks
    BY <1>4, TailFacts, Zenon DEF Pop, TypeOK, Placed
  <2> QED
    BY <1>4, <2>1, Zenon DEF Pop, TypeOK, callVars, foreignVars
<1>5. ASSUME PollPending PROVE TypeOK'
  <2>1. cur \in Tasks
    BY <1>5, Zenon DEF PollPending, Polled
  <2>2. polls[cur] + 1 \in 0..MaxPolls - 1
    BY <1>5, <2>1 DEF PollPending, TypeOK
  <2>3. polls' \in [Tasks -> 0..MaxPolls - 1]
    BY <1>5, <2>2, Zenon DEF PollPending, TypeOK
  <2>4. escaped' \in BOOLEAN
    BY <1>5, Zenon DEF PollPending, TypeOK
  <2> QED
    BY <1>5, <2>1, <2>3, <2>4, Zenon DEF PollPending, TypeOK, queueVars, callVars, foreignVars
<1>6. ASSUME Wait PROVE TypeOK'
  BY <1>6, Zenon DEF Wait, TypeOK, queueVars, callVars, foreignVars
<1>7. ASSUME PollReady \/ PollThrows PROVE TypeOK'
  BY <1>7, ZenonT(30) DEF PollReady, PollThrows, Released, TypeOK, Polled, queueVars, callVars, foreignVars
<1>8. ASSUME CheckIdle \/ CheckStop \/ CheckCleaned \/ Exit PROVE TypeOK'
  BY <1>8, ZenonT(30) DEF CheckIdle, CheckStop, CheckCleaned, Exit, TypeOK, queueVars, callVars, taskVars,
              foreignVars
<1>9. ASSUME Cleanup PROVE TypeOK'
  <2>1. UnparkHere(io) /\ io \in SUBSET Tasks
    BY <1>9, Zenon DEF Cleanup, TypeOK
  <2>2. q' \in Seq(Tasks)
    BY <2>1, UnparkHereFacts, Zenon
  <2>3. phase' = [t \in Tasks |-> IF t \in io /\ phase[t] = "waiting" THEN "scheduled" ELSE phase[t]]
    BY <2>1, UnparkHereFacts, Zenon
  <2> QED
    BY <1>9, <2>2, <2>3 DEF Cleanup, TypeOK, callVars, foreignVars
<1>10. ASSUME Block PROVE TypeOK'
  <2>1. PICK T \in SUBSET io :
          /\ io' = io \ T /\ UnparkHere(T)
          /\ sent' \in (IF T = {} THEN {FALSE} ELSE {FALSE, sent})
    BY <1>10, Zenon DEF Block
  <2>2. T \in SUBSET Tasks /\ sent' \in BOOLEAN
    BY <2>1, Zenon DEF TypeOK
  <2>3. q' \in Seq(Tasks)
    BY <2>1, <2>2, UnparkHereFacts, Zenon
  <2>4. phase' = [t \in Tasks |-> IF t \in T /\ phase[t] = "waiting" THEN "scheduled" ELSE phase[t]]
    BY <2>1, <2>2, UnparkHereFacts, Zenon
  <2> QED
    BY <1>10, <2>1, <2>2, <2>3, <2>4, Zenon DEF Block, TypeOK, callVars, foreignVars
<1>11. ASSUME NEW f \in Foreign, NEW t \in Tasks, ForeignSpawn(f, t) PROVE TypeOK'
  BY <1>11, SMTT(30) DEF ForeignSpawn, TypeOK, queueVars, callVars
<1>12. ASSUME NEW f \in Foreign, NEW t \in Tasks, ForeignUnpark(f, t) PROVE TypeOK'
  <2>1. woken' \in [Tasks -> BOOLEAN]
    <3>1. woken' = [woken EXCEPT ![t] = woken[t] \/ phase[t] = "polling"]
      BY <1>12, Zenon DEF ForeignUnpark
    <3>2. (woken[t] \/ phase[t] = "polling") \in BOOLEAN
      BY Zenon
    <3> QED
      BY <3>1, <3>2, Zenon DEF TypeOK
  <2>2. phase' \in [Tasks -> {"unspawned", "scheduled", "polling", "waiting", "done", "dropped"}]
    BY <1>12, Zenon DEF ForeignUnpark, TypeOK
  <2>3. /\ fpc' \in [Foreign -> {"idle", "spawn", "unpark", "signal", "blocked"}]
        /\ hand' \in [Foreign -> Tasks \cup {NoTask}]
    BY <1>12, Zenon DEF ForeignUnpark, TypeOK, foreignVars
  <2>4. clone' \subseteq Tasks
    BY <1>12, Zenon DEF ForeignUnpark, TypeOK
  <2>5. UNCHANGED <<q, fq, mu, waitStop, sent, lpc, cur, always, runs, polls, io, escaped, leaked,
                    stopper>>
    BY <1>12, Zenon DEF ForeignUnpark, queueVars, callVars
  <2> QED
    BY <2>1, <2>2, <2>3, <2>4, <2>5 DEF TypeOK
<1>13. ASSUME NEW f \in Foreign, ForeignExecute(f) PROVE TypeOK'
  <2>1. hand[f] \in Tasks
    BY <1>13, Zenon DEF ForeignExecute, Placed, Holding
  <2>2. fq' \in Seq(Tasks)
    BY <1>13, <2>1 DEF ForeignExecute, TypeOK
  <2> QED
    BY <1>13, <2>2, SMTT(30) DEF ForeignExecute, TypeOK, taskVars, callVars
<1>14. ASSUME NEW f \in Foreign, ForeignDrop(f) PROVE TypeOK'
  <2>1. hand[f] \in Tasks
    BY <1>14, Zenon DEF ForeignDrop, Placed, Holding
  <2> QED
    BY <1>14, <2>1, ZenonT(30) DEF ForeignDrop, Released, TypeOK, queueVars, callVars
<1>15. ASSUME NEW f \in Foreign, ForeignSignal(f) PROVE TypeOK'
  BY <1>15, ZenonT(30) DEF ForeignSignal, SignalLoop, TypeOK, taskVars, callVars
<1>16. ASSUME NEW t \in Tasks, ForgetPromise(t) PROVE TypeOK'
  BY <1>16, SMTT(30) DEF ForgetPromise, TypeOK, queueVars, callVars, foreignVars
<1>17. ASSUME Stop \/ StopSignal PROVE TypeOK'
  BY <1>17, ZenonT(30) DEF Stop, StopSignal, SignalLoop, TypeOK, queueVars, callVars, taskVars, foreignVars
<1>18. ASSUME UNCHANGED vars PROVE TypeOK'
  BY <1>18 DEF TypeOK, vars
<1>19. ASSUME NEW t \in Tasks, UnparkByTask(t) PROVE TypeOK'
  <2>1. woken' \in [Tasks -> BOOLEAN]
    <3>1. woken \in [Tasks -> BOOLEAN] /\ (woken[t] \/ phase[t] = "polling") \in BOOLEAN
      BY Zenon DEF TypeOK
    <3> QED
      BY <1>19, <3>1, Zenon DEF UnparkByTask
  <2>2. phase' \in [Tasks -> {"unspawned", "scheduled", "polling", "waiting", "done", "dropped"}]
    BY <1>19, UnparkByTaskCases, Zenon DEF TypeOK
  <2>3. q' \in Seq(Tasks)
    <3>1. q \in Seq(Tasks)
      BY Zenon DEF TypeOK
    <3>2. q' = q \/ q' = Append(q, t)
      BY <1>19, UnparkByTaskCases, Zenon
    <3> QED
      BY <3>1, <3>2
  <2>4. clone' \subseteq Tasks
    BY <1>19, Zenon DEF UnparkByTask, TypeOK
  <2>5. UNCHANGED <<fq, mu, waitStop, sent, lpc, cur, always, runs, polls, io, escaped, leaked,
                    fpc, hand, stopper>>
    BY <1>19, Zenon DEF UnparkByTask, callVars, foreignVars
  <2> QED
    BY <2>1, <2>2, <2>3, <2>4, <2>5 DEF TypeOK
<1> QED
  BY <1>1, <1>2, <1>3, <1>4, <1>5, <1>6, <1>7, <1>8, <1>9, <1>10, <1>11, <1>12, <1>13,
     <1>14, <1>15, <1>16, <1>17, <1>18, <1>19, Zenon DEF Next, LoopStep, ForeignStep

-----------------------------------------------------------------------------
\* Placed and Polled are about these variables only.
LEMMA PlacedFrame ==
  ASSUME Placed, UNCHANGED <<q, fq, phase, fpc, hand>> PROVE Placed'
BY Zenon DEF Placed, Holding

\* A step that takes no phase away from "scheduled", and leaves the queues and the
\* foreign threads alone, keeps Placed.
LEMMA PhaseFrame ==
  ASSUME TypeOK, Placed, UNCHANGED <<q, fq, fpc, hand>>,
         \A t \in Tasks : phase[t] = "scheduled" => phase'[t] = "scheduled"
  PROVE  Placed'
<1>1. \A t \in Elems(q) \cup Elems(fq) : t \in Tasks
  BY SMTT(30) DEF TypeOK, Elems
<1> QED
  BY <1>1, Zenon DEF Placed, Holding

\* What is unparked on the loop thread comes to q_ from no other place.
LEMMA UnparkKeepsPlaced ==
  ASSUME TypeOK, Placed, NEW T \in SUBSET Tasks, UnparkHere(T), UNCHANGED <<fq, fpc, hand>>
  PROVE  Placed'
<1>1. /\ Once(q') /\ Elems(q') = Elems(q) \cup {t \in T : phase[t] = "waiting"}
      /\ phase' = [t \in Tasks |-> IF t \in T /\ phase[t] = "waiting" THEN "scheduled" ELSE phase[t]]
  BY UnparkHereFacts, Zenon
<1>2. \A t \in Elems(q) \cup Elems(fq) : t \in Tasks /\ phase[t] = "scheduled"
  <2>1. \A t \in Elems(q) \cup Elems(fq) : t \in Tasks
    BY SMTT(30) DEF TypeOK, Elems
  <2> QED
    BY <2>1, Zenon DEF Placed
<1>3. Elems(fq') = Elems(fq)
  BY Zenon
<1>4. Elems(q') \cap Elems(fq') = {}
  BY <1>1, <1>2, <1>3, Zenon DEF Placed
<1>5. \A t \in Elems(q') \cup Elems(fq') : phase'[t] = "scheduled"
  BY <1>1, <1>2, <1>3, Zenon
<1>6. \A f \in Foreign : Holding(f)' => /\ hand'[f] \in Tasks /\ phase'[hand'[f]] = "scheduled"
                                        /\ hand'[f] \notin Elems(q') \cup Elems(fq')
  BY <1>1, <1>3, Zenon DEF Placed, Holding
<1> QED
  BY <1>1, <1>4, <1>5, <1>6, Zenon DEF Placed, Holding

\* Every step keeps the Runnables in their places, and the loop its task.
LEMMA PlacedStep == TypeOK /\ Placed /\ Polled /\ [Next]_vars => Placed' /\ Polled'
<1> SUFFICES ASSUME TypeOK, Placed, Polled, [Next]_vars PROVE Placed' /\ Polled'
  BY Zenon
<1>0. /\ q \in Seq(Tasks) /\ fq \in Seq(Tasks) /\ Once(q) /\ Once(fq)
      /\ \A t \in Elems(q) \cup Elems(fq) : t \in Tasks /\ phase[t] = "scheduled"
  <2>1. q \in Seq(Tasks) /\ fq \in Seq(Tasks)
    BY Zenon DEF TypeOK
  <2>2. \A t \in Elems(q) \cup Elems(fq) : t \in Tasks
    BY <2>1 DEF Elems
  <2> QED
    BY <2>1, <2>2, Zenon DEF Placed
<1>1. ASSUME NEW t \in Tasks, SpawnHere(t) PROVE Placed' /\ Polled'
  <2>1. t \notin Elems(q) \cup Elems(fq)
    BY <1>0, <1>1, Zenon DEF SpawnHere
  <2>2. Once(q') /\ Elems(q') = Elems(q) \cup {t}
    BY <1>0, <1>1, <2>1, AppendFacts DEF SpawnHere
  <2>3. phase' = [phase EXCEPT ![t] = "scheduled"] /\ phase[t] = "unspawned"
    BY <1>1, Zenon DEF SpawnHere
  <2>4. UNCHANGED <<fq, fpc, hand, lpc, cur>>
    BY <1>1, Zenon DEF SpawnHere, foreignVars
  <2>5. Placed'
    BY <2>1, <2>2, <2>3, <2>4 DEF Placed, Holding, TypeOK
  <2> QED
    BY <2>3, <2>4, <2>5, Zenon DEF Polled, TypeOK
<1>2. ASSUME Run \/ CheckIdle \/ CheckStop \/ CheckCleaned \/ Exit PROVE Placed' /\ Polled'
  <2>1. UNCHANGED <<q, fq, phase, fpc, hand>> /\ lpc' \notin {"poll", "wait"}
    BY <1>2, Zenon DEF Run, CheckIdle, CheckStop, CheckCleaned, Exit, queueVars, taskVars, foreignVars
  <2> QED
    BY <2>1, PlacedFrame, Zenon DEF Polled
<1>3. ASSUME Merge PROVE Placed' /\ Polled'
  <2>1. Once(q') /\ Elems(q') = Elems(q) \cup Elems(fq)
    <3>1. Elems(q) \cap Elems(fq) = {}
      BY Zenon DEF Placed
    <3>2. Once(q \o fq) /\ Elems(q \o fq) = Elems(q) \cup Elems(fq)
      BY <1>0, <3>1, ConcatFacts, SMTT(30)
    <3>3. q' = q \o fq
      BY <1>3, Zenon DEF Merge
    <3> QED
      BY <3>2, <3>3, Zenon
  <2>2. Once(fq') /\ Elems(fq') = {}
    BY <1>3 DEF Merge, Once, Elems
  <2>3. UNCHANGED <<phase, fpc, hand>> /\ lpc' \notin {"poll", "wait"}
    BY <1>3, Zenon DEF Merge, taskVars, foreignVars
  <2>4. Placed'
    BY <2>1, <2>2, <2>3, Zenon DEF Placed, Holding
  <2> QED
    BY <2>3, <2>4, Zenon DEF Polled
<1>4. ASSUME Pop PROVE Placed' /\ Polled'
  <2>1. /\ Once(q') /\ Head(q) \in Tasks /\ Head(q) \in Elems(q)
        /\ Elems(q') = Elems(q) \ {Head(q)}
    BY <1>0, <1>4, TailFacts, Zenon DEF Pop
  <2>2. /\ UNCHANGED <<fq, fpc, hand>> /\ cur' = Head(q)
        /\ phase' = [phase EXCEPT ![Head(q)] = "polling"]
    BY <1>4, Zenon DEF Pop, foreignVars
  <2>3. Polled'
    BY <2>1, <2>2, Zenon DEF Polled, TypeOK
  <2>4. Placed'
    BY <1>0, <2>1, <2>2 DEF Placed, Holding, TypeOK
  <2> QED
    BY <2>3, <2>4, Zenon
<1>5. ASSUME PollPending PROVE Placed' /\ Polled'
  <2>1. UNCHANGED <<q, fq, phase, fpc, hand, cur>> /\ lpc = "poll"
    BY <1>5, Zenon DEF PollPending, queueVars, foreignVars
  <2> QED
    BY <2>1, PlacedFrame, Zenon DEF Polled
<1>6. ASSUME Wait PROVE Placed' /\ Polled'
  <2>1. UNCHANGED <<q, fq, fpc, hand>> /\ cur \in Tasks /\ phase[cur] = "polling"
    BY <1>6, Zenon DEF Wait, Polled, queueVars, foreignVars
  <2>2. phase' = phase \/ phase' = [phase EXCEPT ![cur] = "waiting"]
    BY <1>6, Zenon DEF Wait
  <2>3. \A t \in Tasks : phase[t] = "scheduled" => phase'[t] = "scheduled"
    BY <2>1, <2>2, Zenon DEF TypeOK
  <2>4. Polled'
    BY <1>6, <2>1, Zenon DEF Wait, Polled
  <2> QED
    BY <2>1, <2>3, <2>4, PhaseFrame, Zenon
<1>7. ASSUME PollReady \/ PollThrows PROVE Placed' /\ Polled'
  <2>1. /\ UNCHANGED <<q, fq, fpc, hand>> /\ cur \in Tasks /\ phase[cur] = "polling"
        /\ phase' = [phase EXCEPT ![cur] = "done"] /\ lpc' \notin {"poll", "wait"}
    BY <1>7, Zenon DEF PollReady, PollThrows, Polled, queueVars, foreignVars
  <2> QED
    BY <2>1, PhaseFrame, Zenon DEF TypeOK, Polled
<1>8. ASSUME Cleanup PROVE Placed' /\ Polled'
  <2>1. /\ UnparkHere(io) /\ io \in SUBSET Tasks /\ UNCHANGED <<fq, fpc, hand>>
        /\ lpc' \notin {"poll", "wait"}
    BY <1>8, Zenon DEF Cleanup, TypeOK, foreignVars
  <2> QED
    BY <2>1, UnparkKeepsPlaced, Zenon DEF Polled
<1>9. ASSUME Block PROVE Placed' /\ Polled'
  <2>1. PICK T \in SUBSET io : UnparkHere(T)
    BY <1>9, Zenon DEF Block
  <2>2. T \in SUBSET Tasks /\ UNCHANGED <<fq, fpc, hand>> /\ lpc' \notin {"poll", "wait"}
    BY <1>9, Zenon DEF Block, TypeOK, foreignVars
  <2> QED
    BY <2>1, <2>2, UnparkKeepsPlaced, Zenon DEF Polled
<1>10. ASSUME NEW f \in Foreign, NEW t \in Tasks, ForeignSpawn(f, t) PROVE Placed' /\ Polled'
  <2>1. /\ UNCHANGED <<q, fq, lpc, cur>> /\ phase[t] = "unspawned" /\ fpc[f] = "idle"
        /\ phase' = [phase EXCEPT ![t] = "scheduled"]
        /\ fpc' = [fpc EXCEPT ![f] = "spawn"] /\ hand' = [hand EXCEPT ![f] = t]
    BY <1>10, Zenon DEF ForeignSpawn, queueVars
  <2>2. t \notin Elems(q) \cup Elems(fq)
    BY <1>0, <2>1, Zenon
  <2>3. Placed'
    BY <2>1, <2>2 DEF Placed, Holding, TypeOK
  <2> QED
    BY <2>1, <2>3, Zenon DEF Polled, TypeOK
<1>11. ASSUME NEW f \in Foreign, NEW t \in Tasks, ForeignUnpark(f, t) PROVE Placed' /\ Polled'
  <2>1. UNCHANGED <<q, fq, lpc, cur>> /\ fpc[f] = "idle"
    BY <1>11, Zenon DEF ForeignUnpark, queueVars
  <2>2. CASE phase[t] = "waiting"
    <3>1. /\ phase' = [phase EXCEPT ![t] = "scheduled"]
          /\ fpc' = [fpc EXCEPT ![f] = "unpark"] /\ hand' = [hand EXCEPT ![f] = t]
      BY <1>11, <2>2, Zenon DEF ForeignUnpark
    <3>2. t \notin Elems(q) \cup Elems(fq)
      BY <1>0, <2>2, Zenon
    <3>3. Placed'
      BY <2>1, <2>2, <3>1, <3>2 DEF Placed, Holding, TypeOK
    <3> QED
      BY <2>1, <2>2, <3>1, <3>3, Zenon DEF Polled, TypeOK
  <2>3. CASE phase[t] # "waiting"
    <3>1. UNCHANGED <<phase, fpc, hand>>
      BY <1>11, <2>3, Zenon DEF ForeignUnpark, foreignVars, TypeOK
    <3> QED
      BY <2>1, <3>1, PlacedFrame, Zenon DEF Polled
  <2> QED
    BY <2>2, <2>3, Zenon
<1>12. ASSUME NEW f \in Foreign, ForeignExecute(f) PROVE Placed' /\ Polled'
  <2>1. /\ UNCHANGED <<q, phase, hand, lpc, cur>> /\ Holding(f)
        /\ fq' = Append(fq, hand[f]) /\ fpc' = [fpc EXCEPT ![f] = "signal"]
    BY <1>12, Zenon DEF ForeignExecute, Holding, taskVars
  <2>2. hand[f] \in Tasks /\ phase[hand[f]] = "scheduled" /\ hand[f] \notin Elems(q) \cup Elems(fq)
    BY <2>1, Zenon DEF Placed
  <2>3. Once(fq') /\ Elems(fq') = Elems(fq) \cup {hand[f]}
    BY <1>0, <2>1, <2>2, AppendFacts, SMTT(30)
  <2>4. Placed'
    BY <2>1, <2>2, <2>3, SMTT(30) DEF Placed, Holding, TypeOK
  <2> QED
    BY <2>1, <2>4, Zenon DEF Polled
<1>13. ASSUME NEW f \in Foreign, ForeignDrop(f) PROVE Placed' /\ Polled'
  <2>1. /\ UNCHANGED <<q, fq, lpc, cur>> /\ Holding(f)
        /\ phase' = [phase EXCEPT ![hand[f]] = "dropped"]
        /\ fpc' = [fpc EXCEPT ![f] = fpc'[f]] /\ fpc'[f] \in {"idle", "blocked"}
        /\ hand' = [hand EXCEPT ![f] = NoTask]
    BY <1>13, Zenon DEF ForeignDrop, Holding, queueVars, TypeOK
  <2>2. hand[f] \in Tasks /\ phase[hand[f]] = "scheduled" /\ hand[f] \notin Elems(q) \cup Elems(fq)
    BY <2>1, Zenon DEF Placed
  <2>3. Placed'
    BY <1>0, <2>1, <2>2, SMTT(30) DEF Placed, Holding, TypeOK
  <2> QED
    BY <2>1, <2>2, <2>3, Zenon DEF Polled, TypeOK
<1>14. ASSUME NEW f \in Foreign, ForeignSignal(f) PROVE Placed' /\ Polled'
  <2>1. /\ UNCHANGED <<q, fq, phase, lpc, cur>>
        /\ fpc' = [fpc EXCEPT ![f] = "idle"] /\ hand' = [hand EXCEPT ![f] = NoTask]
    BY <1>14, Zenon DEF ForeignSignal, taskVars
  <2> QED
    BY <2>1 DEF Placed, Polled, Holding, TypeOK
<1>15. ASSUME (\E t \in Tasks : ForgetPromise(t)) \/ Stop \/ StopSignal \/ UNCHANGED vars
       PROVE  Placed' /\ Polled'
  <2>1. UNCHANGED <<q, fq, phase, fpc, hand, lpc, cur>>
    BY <1>15, Zenon DEF ForgetPromise, Stop, StopSignal, vars, queueVars, taskVars, foreignVars
  <2> QED
    BY <2>1, PlacedFrame, Zenon DEF Polled
<1>16. ASSUME NEW t \in Tasks, UnparkByTask(t) PROVE Placed' /\ Polled'
  <2>1. UNCHANGED <<fq, fpc, hand, lpc, cur>>
    BY <1>16, Zenon DEF UnparkByTask, foreignVars
  <2>2. CASE phase' = phase /\ q' = q
    BY <2>1, <2>2, PlacedFrame, Zenon DEF Polled
  <2>3. CASE /\ phase[t] = "waiting" /\ phase' = [phase EXCEPT ![t] = "scheduled"]
             /\ q' = Append(q, t)
    <3>1. t \notin Elems(q) \cup Elems(fq)
      BY <1>0, <2>3, Zenon
    <3>2. Once(q') /\ Elems(q') = Elems(q) \cup {t}
      BY <1>0, <2>3, <3>1, AppendFacts
    <3>3. Placed'
      BY <2>1, <2>3, <3>1, <3>2 DEF Placed, Holding, TypeOK
    <3> QED
      BY <2>1, <2>3, <3>3, Zenon DEF Polled, TypeOK
  <2> QED
    BY <1>16, <2>2, <2>3, UnparkByTaskCases, Zenon
<1> QED
  BY <1>1, <1>2, <1>3, <1>4, <1>5, <1>6, <1>7, <1>8, <1>9, <1>10, <1>11, <1>12, <1>13,
     <1>14, <1>15, <1>16, Zenon DEF Next, LoopStep, ForeignStep

-----------------------------------------------------------------------------
\* Every step keeps the loop's work announced.
LEMMA ServedStep == IInv /\ [Next]_vars => Served'
<1> SUFFICES ASSUME IInv, [Next]_vars PROVE Served'
  OBVIOUS
<1>0. TypeOK /\ Placed /\ Served
  BY Zenon DEF IInv
<1>1. ASSUME NEW t \in Tasks, SpawnHere(t) PROVE Served'
  BY <1>0, <1>1, Zenon DEF SpawnHere, Served, foreignVars
<1>2. ASSUME Run PROVE Served'
  BY <1>2, Zenon DEF Run, Served
<1>3. ASSUME Merge PROVE Served'
  BY <1>3, Zenon DEF Merge, Served
<1>4. ASSUME Pop PROVE Served'
  BY <1>0, <1>4, Zenon DEF Pop, Served, foreignVars
<1>5. ASSUME PollPending \/ Wait PROVE Served'
  BY <1>0, <1>5, Zenon DEF PollPending, Wait, Served, queueVars, foreignVars
<1>6. ASSUME PollReady \/ PollThrows PROVE Served'
  BY <1>0, <1>6, Zenon DEF PollReady, PollThrows, Served, queueVars, foreignVars
<1>7. ASSUME CheckIdle PROVE Served'
  BY <1>0, <1>7, Zenon DEF CheckIdle, Served, queueVars, foreignVars
<1>8. ASSUME CheckStop PROVE Served'
  BY <1>0, <1>8, Zenon DEF CheckStop, Served, queueVars, foreignVars
<1>9. ASSUME CheckCleaned PROVE Served'
  <2>1. lpc' = "exit" => q = <<>>
    <3> SUFFICES ASSUME Running = {} PROVE q = <<>>
      BY <1>9, Zenon DEF CheckCleaned
    <3>1. \A t \in Tasks : phase[t] # "scheduled"
      BY Zenon DEF Running
    <3>2. q \in Seq(Tasks) /\ Once(q) /\ \A t \in Elems(q) : phase[t] = "scheduled"
      BY <1>0, Zenon DEF TypeOK, Placed
    <3>3. q # <<>> => Head(q) \in Tasks /\ Head(q) \in Elems(q)
      BY <3>2, TailFacts, Zenon
    <3> QED
      BY <3>1, <3>2, <3>3, Zenon
  <2>2. lpc' \in {"exit", "merge"} /\ q' = q
    BY <1>9, Zenon DEF CheckCleaned, queueVars
  <2> QED
    BY <2>1, <2>2, Zenon DEF Served
<1>10. ASSUME Cleanup \/ Block \/ Exit PROVE Served'
  BY <1>10, ZenonT(30) DEF Cleanup, Block, Exit, Served
<1>11. ASSUME NEW f \in Foreign, NEW t \in Tasks, ForeignSpawn(f, t) \/ ForeignUnpark(f, t)
       PROVE  Served'
  <2>1. UNCHANGED <<q, fq, lpc, sent, waitStop, stopper>>
    BY <1>11, Zenon DEF ForeignSpawn, ForeignUnpark, queueVars
  <2>2. \A g \in Foreign : fpc[g] = "signal" => fpc'[g] = "signal"
    BY <1>0, <1>11, Zenon DEF ForeignSpawn, ForeignUnpark, TypeOK, foreignVars
  <2> QED
    BY <1>0, <2>1, <2>2, Zenon DEF Served
<1>12. ASSUME NEW f \in Foreign, ForeignExecute(f) PROVE Served'
  <2>1. UNCHANGED <<q, lpc, sent, waitStop, stopper>> /\ fpc'[f] = "signal"
    BY <1>0, <1>12, Zenon DEF ForeignExecute, TypeOK
  <2> QED
    BY <1>0, <2>1, ZenonT(30) DEF Served
<1>13. ASSUME NEW f \in Foreign, ForeignDrop(f) PROVE Served'
  <2>1. UNCHANGED <<q, fq, lpc, sent, waitStop, stopper>>
    BY <1>13, Zenon DEF ForeignDrop, queueVars
  <2>2. \A g \in Foreign : fpc[g] = "signal" => fpc'[g] = "signal"
    BY <1>0, <1>13, Zenon DEF ForeignDrop, TypeOK
  <2> QED
    BY <1>0, <2>1, <2>2, Zenon DEF Served
<1>14. ASSUME NEW f \in Foreign, ForeignSignal(f) PROVE Served'
  BY <1>0, <1>14, Zenon DEF ForeignSignal, SignalLoop, Served
<1>15. ASSUME Stop \/ StopSignal PROVE Served'
  BY <1>0, <1>15, Zenon DEF Stop, StopSignal, SignalLoop, Served, queueVars, foreignVars
<1>16. ASSUME (\E t \in Tasks : ForgetPromise(t)) \/ UNCHANGED vars PROVE Served'
  BY <1>0, <1>16, SMTT(30) DEF ForgetPromise, Served, vars, queueVars, foreignVars
<1>17. ASSUME NEW t \in Tasks, UnparkByTask(t) PROVE Served'
  BY <1>0, <1>17, Zenon DEF UnparkByTask, Served, foreignVars
<1> QED
  BY <1>1, <1>2, <1>3, <1>4, <1>5, <1>6, <1>7, <1>8, <1>9, <1>10, <1>11, <1>12, <1>13,
     <1>14, <1>15, <1>16, <1>17, Zenon DEF Next, LoopStep, ForeignStep

-----------------------------------------------------------------------------
\* When nothing is running nothing is watched or half done.
LEMMA NothingRunning ==
  ASSUME TypeOK, Watched, Running = {}
  PROVE  io = {} /\ \A t \in Tasks : phase[t] \notin {"scheduled", "polling", "waiting"}
BY Zenon DEF TypeOK, Watched, NoDanglingWatcher, Running

\* Every step keeps the watchers alive, and run() abandons nobody.
LEMMA WatchedStep == IInv /\ [Next]_vars => Watched'
<1> SUFFICES ASSUME IInv, [Next]_vars PROVE Watched'
  OBVIOUS
<1>0. TypeOK /\ Placed /\ Polled /\ Served /\ Watched
  BY Zenon DEF IInv
<1> USE DEF NoDanglingWatcher, ReturnAbandonsNobody
<1>1. ASSUME NEW t \in Tasks, SpawnHere(t) PROVE Watched'
  BY <1>0, <1>1, Zenon DEF SpawnHere, Watched, TypeOK
<1>2. ASSUME Run \/ Merge \/ CheckStop \/ Exit PROVE Watched'
  BY <1>0, <1>2, Zenon DEF Run, Merge, CheckStop, Exit, Watched, taskVars, queueVars
<1>3. ASSUME Pop PROVE Watched'
  <2>1. Head(q) \in Tasks
    BY <1>0, <1>3, TailFacts, Zenon DEF Pop, TypeOK, Placed
  <2> QED
    BY <1>0, <1>3, <2>1, Zenon DEF Pop, Watched, TypeOK
<1>4. ASSUME PollPending PROVE Watched'
  <2>1. /\ cur \in Tasks /\ phase[cur] = "polling" /\ lpc' # "exit"
        /\ UNCHANGED <<phase, leaked>> /\ io' \subseteq io \cup {cur}
    BY <1>0, <1>4, Zenon DEF PollPending, Polled
  <2>2. \A t \in Tasks : phase'[t] = "unspawned" => polls'[t] = polls[t]
    BY <1>0, <1>4, <2>1, Zenon DEF PollPending, TypeOK
  <2> QED
    BY <1>0, <2>1, <2>2, Zenon DEF Watched
<1>5. ASSUME Wait PROVE Watched'
  <2>1. cur \in Tasks /\ phase[cur] = "polling"
    BY <1>0, <1>5, Zenon DEF Wait, Polled
  <2> QED
    BY <1>0, <1>5, <2>1, ZenonT(30) DEF Wait, Watched, TypeOK
<1>6. ASSUME PollReady \/ PollThrows PROVE Watched'
  <2>1. cur \in Tasks /\ phase[cur] = "polling"
    BY <1>0, <1>6, Zenon DEF PollReady, PollThrows, Polled
  <2> QED
    BY <1>0, <1>6, <2>1, Zenon DEF PollReady, PollThrows, Released, Watched, TypeOK
<1>7. ASSUME CheckIdle \/ CheckCleaned PROVE Watched'
  <2>1. lpc' = "exit" => Running = {}
    BY <1>7, Zenon DEF CheckIdle, CheckCleaned
  <2>2. lpc' = "exit" => q' = <<>>
    BY ServedStep, Zenon DEF Served
  <2>3. UNCHANGED <<phase, polls, io, leaked>>
    BY <1>7, Zenon DEF CheckIdle, CheckCleaned, taskVars
  <2> QED
    BY <1>0, <2>1, <2>2, <2>3, NothingRunning, Zenon DEF Watched
<1>8. ASSUME Cleanup PROVE Watched'
  <2>1. phase' = [t \in Tasks |-> IF t \in io /\ phase[t] = "waiting" THEN "scheduled" ELSE phase[t]]
    BY <1>0, <1>8, UnparkHereFacts, Zenon DEF Cleanup, TypeOK
  <2>2. io' = {} /\ polls' = polls /\ lpc' = "cleaned"
    BY <1>8, Zenon DEF Cleanup
  <2> QED
    BY <1>0, <2>1, <2>2, Zenon DEF Watched, TypeOK
<1>9. ASSUME Block PROVE Watched'
  <2>1. PICK T \in SUBSET io : io' = io \ T /\ UnparkHere(T)
    BY <1>9, Zenon DEF Block
  <2>2. T \in SUBSET Tasks
    BY <1>0, Zenon DEF TypeOK
  <2>3. phase' = [t \in Tasks |-> IF t \in T /\ phase[t] = "waiting" THEN "scheduled" ELSE phase[t]]
    BY <1>0, <2>1, <2>2, UnparkHereFacts, Zenon
  <2>4. polls' = polls /\ leaked' = leaked /\ lpc' = "merge"
    BY <1>9, Zenon DEF Block
  <2> QED
    BY <1>0, <2>1, <2>3, <2>4, Zenon DEF Watched, TypeOK
<1>10. ASSUME NEW f \in Foreign, NEW t \in Tasks, ForeignSpawn(f, t) PROVE Watched'
  BY <1>0, <1>10, Zenon DEF ForeignSpawn, Watched, TypeOK, queueVars
<1>11. ASSUME NEW f \in Foreign, NEW t \in Tasks, ForeignUnpark(f, t) PROVE Watched'
  <2>1. UNCHANGED <<q, lpc, polls, io, leaked>>
    BY <1>11, Zenon DEF ForeignUnpark, queueVars
  <2>2. \/ phase' = phase
        \/ phase[t] = "waiting" /\ phase' = [phase EXCEPT ![t] = "scheduled"]
    BY <1>0, <1>11, ZenonT(30) DEF ForeignUnpark, TypeOK
  <2> QED
    BY <1>0, <2>1, <2>2, Zenon DEF Watched, TypeOK
<1>12. ASSUME NEW f \in Foreign, ForeignExecute(f) \/ ForeignSignal(f) PROVE Watched'
  BY <1>0, <1>12, Zenon DEF ForeignExecute, ForeignSignal, Watched, taskVars
<1>13. ASSUME NEW f \in Foreign, ForeignDrop(f) PROVE Watched'
  <2>1. hand[f] \in Tasks
    BY <1>0, <1>13, Zenon DEF ForeignDrop, Placed, Holding
  <2>2. /\ UNCHANGED <<q, lpc, polls>> /\ io' = io \ {hand[f]} /\ leaked \subseteq leaked'
        /\ phase' = [phase EXCEPT ![hand[f]] = "dropped"]
    BY <1>13, Zenon DEF ForeignDrop, Released, queueVars
  <2> QED
    BY <1>0, <2>1, <2>2, Zenon DEF Watched, TypeOK
<1>14. ASSUME (\E t \in Tasks : ForgetPromise(t)) \/ Stop \/ StopSignal \/ UNCHANGED vars
       PROVE  Watched'
  BY <1>0, <1>14, Zenon DEF ForgetPromise, Stop, StopSignal, Watched, vars, taskVars, queueVars
<1>15. ASSUME NEW t \in Tasks, UnparkByTask(t) PROVE Watched'
  <2>1. lpc' = "poll" /\ UNCHANGED <<polls, io, leaked>>
    BY <1>15, Zenon DEF UnparkByTask
  <2>2. phase' = phase \/ phase' = [phase EXCEPT ![t] = "scheduled"]
    BY <1>0, <1>15, UnparkByTaskCases, Zenon
  <2> QED
    BY <1>0, <2>1, <2>2, Zenon DEF Watched, TypeOK
<1> QED
  BY <1>1, <1>2, <1>3, <1>4, <1>5, <1>6, <1>7, <1>8, <1>9, <1>10, <1>11, <1>12, <1>13,
     <1>14, <1>15, Zenon DEF Next, LoopStep, ForeignStep

-----------------------------------------------------------------------------
\* IInv is an invariant of the loop, with any number of tasks and foreign threads.
THEOREM Invariance == Spec => []IInv
<1>1. Init => IInv
  <2> SUFFICES ASSUME Init PROVE IInv
    OBVIOUS
  <2> USE DEF Init
  <2>1. Once(q) /\ Once(fq) /\ Elems(q) = {} /\ Elems(fq) = {} /\ <<>> \in Seq(Tasks)
    BY DEF Once, Elems
  <2>2. polls \in [Tasks -> 0..MaxPolls - 1] /\ runs \in 0..MaxRuns
    BY BoundsAssumption, SMT, Zenon
  <2>3. /\ mu \in BOOLEAN /\ waitStop \in BOOLEAN /\ sent \in BOOLEAN /\ always \in BOOLEAN
        /\ escaped \in BOOLEAN /\ woken \in [Tasks -> BOOLEAN]
    BY Zenon
  <2>4. TypeOK
    BY <2>1, <2>2, <2>3, Zenon DEF TypeOK
  <2>5. Placed /\ Polled /\ Served /\ Watched
    BY <2>1, Zenon DEF Placed, Holding, Polled, Served, Watched, NoDanglingWatcher, ReturnAbandonsNobody
  <2> QED
    BY <2>4, <2>5, Zenon DEF IInv
<1>2. IInv /\ [Next]_vars => IInv'
  BY TypeOKStep, PlacedStep, ServedStep, WatchedStep, Zenon DEF IInv
<1> QED
  BY <1>1, <1>2, PTL DEF Spec

\* The loop never blocks with something to do that nobody is about to announce.
THEOREM NeverSleepsOnWorkHolds == Spec => []NeverSleepsOnWork
<1>1. IInv => NeverSleepsOnWork
  BY Zenon DEF IInv, Served, NeverSleepsOnWork
<1> QED
  BY <1>1, Invariance, PTL

\* run() returns only when no task of the loop is half way.
THEOREM ReturnAbandonsNobodyHolds == Spec => []ReturnAbandonsNobody
<1>1. IInv => ReturnAbandonsNobody
  BY Zenon DEF IInv, Watched
<1> QED
  BY <1>1, Invariance, PTL

\* pendings_ never holds the I/O object of a destroyed task.
THEOREM NoDanglingWatcherHolds == Spec => []NoDanglingWatcher
<1>1. IInv => NoDanglingWatcher
  BY Zenon DEF IInv, Watched
<1> QED
  BY <1>1, Invariance, PTL
=============================================================================
