------------------------- MODULE CpuPoolResultProofs -------------------------
(***************************************************************************)
(* With any number of workers and jobs, a result is sent once, and a       *)
(* client gets what became of its job.                                     *)
(*                                                                         *)
(* The pool's own invariant says which worker has which job.  On top of it *)
(* this one follows a result from the promise (Promised) through the       *)
(* channel of the result (Answered) to the client.                         *)
(***************************************************************************)
EXTENDS CpuPoolExecutorProofs

\* What the promise's channel holds
Promised ==
  /\ \A j \in Jobs :
       /\ spc[j] = "set" => inp[j].v = "none"
       /\ spc[j] = "drop" => phase[j] = "dropped"
       /\ phase[j] \notin {"done", "dropped"} /\ inp[j].s # "NotReady" =>
            spc[j] # "set" /\ (inp[j].s = "Closed" => inp[j].v = "none")
  /\ \A w \in Workers : wpc[w] = "send" => inp[cur[w]].s # "NotReady"

\* What the result's channel holds
Answered ==
  /\ \A j \in Jobs :
       /\ out[j].s = "Ready" =>
            /\ out[j].v # "none"
            /\ phase[j] = "done" \/ \E w \in Workers : cur[w] = j /\ wpc[w] = "complete"
       /\ out[j].v = "value" => inp[j].v = "value"
       /\ out[j].v = "failed" => spc[j] # "set" /\ inp[j].v = "none"
       /\ cpc[j] # "end" /\ out[j].s = "Closed" => ~isRunning /\ phase[j] = "dropped"
  /\ \A w \in Workers :
       wpc[w] = "complete" /\ cpc[cur[w]] # "end" => out[cur[w]].s # "NotReady"

ResultInv == IInv /\ Promised /\ Answered /\ ResultIsTrue

-----------------------------------------------------------------------------
(* From the promise to the client *)

\* What no step takes back.
Stable(j) ==
  /\ phase[j] = "done" => phase'[j] = "done"
  /\ phase[j] = "dropped" => phase'[j] = "dropped"
  /\ spc[j] # "set" => spc'[j] # "set" /\ inp'[j].v = inp[j].v
  /\ ~isRunning => ~isRunning'
  /\ cpc[j] = "end" => cpc'[j] = "end"

LEMMA StableStep == IInv /\ [Next]_vars => \A j \in Jobs : Stable(j)
<1> SUFFICES ASSUME IInv, [Next]_vars PROVE \A j \in Jobs : Stable(j)
  OBVIOUS
<1>0. TypeOK /\ OnWorkers /\ InQueue
  BY Zenon DEF IInv
<1>00. \A j \in Jobs : inp[j] \in InChan
  BY <1>0, Zenon DEF TypeOK, InChan, Chan
<1>01. \A j \in Jobs : /\ AfterPoll(inp[j]).v = inp[j].v /\ CloseReceiver(inp[j]).v = inp[j].v
                       /\ Notified(inp[j]).v = inp[j].v
  BY <1>00, ChannelFacts DEF InChan
<1>1. ASSUME NEW w \in Workers, WorkerWait(w) \/ SpuriousWakeup(w) \/ WorkerExit(w) \/ SendResult(w)
      PROVE  \A j \in Jobs : Stable(j)
  <2>1. UNCHANGED <<phase, spc, inp, isRunning, cpc>>
    BY <1>1, Zenon DEF WorkerWait, SpuriousWakeup, WorkerExit, SendResult, poolVars, taskVars, clientVars
  <2> QED
    BY <2>1, Zenon DEF Stable
<1>2. ASSUME NEW w \in Workers, WorkerPop(w) PROVE \A j \in Jobs : Stable(j)
  <2>1. q # <<>> /\ q' = Tail(q) /\ Head(q) # Pill /\ phase' = [phase EXCEPT ![Head(q)] = "polling"]
        /\ UNCHANGED <<spc, inp, isRunning, cpc>>
    BY <1>2, Zenon DEF WorkerPop, clientVars
  <2>2. Len(q) \in Nat /\ Len(q) >= 1 /\ Head(q) = q[1]
    BY <1>0, <2>1, PopFacts, Zenon
  <2>3. 1 \in 1..Len(q)
    BY <2>2
  <2>4. phase[Head(q)] = "scheduled"
    BY <1>0, <2>1, <2>2, <2>3 DEF InQueue
  <2> QED
    BY <1>0, <2>1, <2>4, Zenon DEF Stable, TypeOK
<1>3. ASSUME NEW w \in Workers, Poll(w) PROVE \A j \in Jobs : Stable(j)
  <2>1. UNCHANGED <<phase, spc, isRunning, cpc>> /\ inp' = [inp EXCEPT ![cur[w]] = AfterPoll(@)]
    BY <1>3, Zenon DEF Poll, poolVars, taskVars, clientVars
  <2>2. \A j \in Jobs : inp'[j].v = inp[j].v
    BY <1>0, <1>01, <2>1, Zenon DEF TypeOK
  <2> QED
    BY <2>1, <2>2, Zenon DEF Stable
<1>4. ASSUME NEW w \in Workers, Wait(w) \/ Complete(w) PROVE \A j \in Jobs : Stable(j)
  <2>1. UNCHANGED <<spc, isRunning, cpc>>
    BY <1>4, Zenon DEF Wait, Complete, poolVars, clientVars
  <2>2. cur[w] \in Jobs /\ phase[cur[w]] = "polling"
    BY <1>0, <1>4, Zenon DEF Wait, Complete, OnWorkers, Busy
  <2>3. phase' = phase \/ \E l \in {"waiting", "done"} : phase' = [phase EXCEPT ![cur[w]] = l]
    <3>1. CASE Wait(w)
      BY <3>1, Zenon DEF Wait
    <3>2. CASE Complete(w)
      BY <3>2, Zenon DEF Complete
    <3> QED
      BY <1>4, <3>1, <3>2, Zenon
  <2>4. inp' = inp \/ inp' = [inp EXCEPT ![cur[w]] = CloseReceiver(@)]
    <3>1. CASE Wait(w)
      BY <3>1, Zenon DEF Wait
    <3>2. CASE Complete(w)
      BY <3>2, Zenon DEF Complete
    <3> QED
      BY <1>4, <3>1, <3>2, Zenon
  <2>5. \A j \in Jobs : inp'[j].v = inp[j].v
    <3>1. \A j \in Jobs : inp'[j] = inp[j] \/ inp'[j] = CloseReceiver(inp[j])
      BY <1>0, <2>2, <2>4 DEF TypeOK
    <3> QED
      BY <1>01, <3>1, Zenon
  <2> QED
    BY <1>0, <2>1, <2>2, <2>3, <2>5 DEF Stable, TypeOK
<1>5. ASSUME NEW j \in Jobs, Set(j) PROVE \A k \in Jobs : Stable(k)
  <2>1. UNCHANGED <<phase, isRunning, cpc>> /\ spc[j] = "set"
        /\ \E l : spc' = [spc EXCEPT ![j] = l]
        /\ \E c : inp' = [inp EXCEPT ![j] = c]
    BY <1>5, Zenon DEF Set, poolVars, taskVars, clientVars
  <2> QED
    BY <1>0, <2>1 DEF Stable, TypeOK
<1>6. ASSUME NEW j \in Jobs, Unpark(j) PROVE \A k \in Jobs : Stable(k)
  BY <1>0, <1>6, Zenon DEF Unpark, Stable, TypeOK, poolVars, clientVars
<1>7. ASSUME NEW j \in Jobs, Execute(j) PROVE \A k \in Jobs : Stable(k)
  <2>1. UNCHANGED <<inp, isRunning, cpc>> /\ spc[j] = "execute" /\ phase[j] = "scheduled"
    BY <1>0, <1>7, Zenon DEF Execute, InQueue
  <2>2. /\ phase' = phase \/ phase' = [phase EXCEPT ![j] = "dropped"]
        /\ \E l \in {"unlock", "drop"} : spc' = [spc EXCEPT ![j] = l]
    BY <1>7, Zenon DEF Execute
  <2> QED
    BY <1>0, <2>1, <2>2 DEF Stable, TypeOK
<1>8. ASSUME NEW j \in Jobs, DropReceiver(j) \/ Unlock(j) PROVE \A k \in Jobs : Stable(k)
  <2>1. /\ UNCHANGED <<phase, isRunning, cpc>>
        /\ \E l \in {"blocked", "unlock", "end"} : spc' = [spc EXCEPT ![j] = l]
        /\ \/ inp' = inp
           \/ inp' = [inp EXCEPT ![j] = CloseReceiver(@)]
           \/ inp' = [inp EXCEPT ![j] = Notified(@)]
    BY <1>8, Zenon DEF DropReceiver, Unlock, poolVars, taskVars, clientVars
  <2>2. \A k \in Jobs : inp'[k].v = inp[k].v
    <3>1. \A k \in Jobs : \/ inp'[k] = inp[k] \/ inp'[k] = CloseReceiver(inp[k])
                          \/ inp'[k] = Notified(inp[k])
      BY <1>0, <2>1 DEF TypeOK
    <3> QED
      BY <1>01, <3>1, Zenon
  <2> QED
    BY <1>0, <2>1, <2>2 DEF Stable, TypeOK
<1>9. ASSUME NEW j \in Jobs, Spawn(j) PROVE \A k \in Jobs : Stable(k)
  <2>1. UNCHANGED <<spc, isRunning>> /\ cpc[j] = "spawn" /\ phase[j] = "unspawned"
        /\ cpc' = [cpc EXCEPT ![j] = "poll"]
    BY <1>0, <1>9, Zenon DEF Spawn, InQueue
  <2>2. /\ \E l : phase' = [phase EXCEPT ![j] = l]
        /\ inp' = inp \/ inp' = [inp EXCEPT ![j] = CloseReceiver(@)]
    BY <1>9, Zenon DEF Spawn
  <2>3. \A k \in Jobs : inp'[k].v = inp[k].v
    BY <1>0, <1>01, <2>2, Zenon DEF TypeOK
  <2> QED
    BY <1>0, <2>1, <2>2, <2>3 DEF Stable, TypeOK
<1>10. ASSUME NEW j \in Jobs, ClientPoll(j) \/ ClientUnparked(j) \/ ClientDrop(j)
       PROVE  \A k \in Jobs : Stable(k)
  <2>1. UNCHANGED <<phase, spc, inp, isRunning>> /\ cpc[j] # "end"
        /\ \E l : cpc' = [cpc EXCEPT ![j] = l]
    BY <1>10, Zenon DEF ClientPoll, ClientUnparked, ClientDrop, poolVars, taskVars
  <2> QED
    BY <1>0, <2>1, Zenon DEF Stable, TypeOK
<1>11. ASSUME Stop \/ Join \/ UNCHANGED vars PROVE \A k \in Jobs : Stable(k)
  BY <1>11, Zenon DEF Stop, Join, vars, Stable, taskVars, clientVars
<1> QED
  BY <1>1, <1>2, <1>3, <1>4, <1>5, <1>6, <1>7, <1>8, <1>9, <1>10, <1>11, Zenon
  DEF Next, WorkerStep, SetterStep, ClientStep

\* The promise's channels keep what they hold.
LEMMA PromisedFrame ==
  ASSUME TypeOK, Promised, \A j \in Jobs : Stable(j), OnWorkers,
         \A j \in Jobs : /\ inp'[j].s = inp[j].s /\ inp'[j].v = inp[j].v
                         /\ spc'[j] = "set" => spc[j] = "set"
                         /\ spc'[j] = "drop" => spc[j] = "drop" \/ phase'[j] = "dropped",
         \A w \in Workers : wpc'[w] = "send" =>
           wpc[w] = "send" /\ cur'[w] = cur[w]
  PROVE  Promised'
<1>1. \A w \in Workers : wpc[w] = "send" => cur[w] \in Jobs
  BY Zenon DEF OnWorkers, Busy
<1> QED
  BY <1>1 DEF Promised, Stable

LEMMA PromisedStep == ResultInv /\ [Next]_vars => Promised'
<1> SUFFICES ASSUME ResultInv, [Next]_vars PROVE Promised'
  OBVIOUS
<1>0. TypeOK /\ OnWorkers /\ InQueue /\ Promised /\ \A j \in Jobs : Stable(j)
  BY StableStep, Zenon DEF ResultInv, IInv
<1>00. \A j \in Jobs : inp[j] \in InChan
  BY <1>0, Zenon DEF TypeOK, InChan, Chan
<1>01. ASSUME NEW j \in Jobs
       PROVE  /\ inp[j].s \in Statuses /\ inp[j].v \in {"none", "value"}
              /\ AfterPoll(inp[j]).s = inp[j].s /\ AfterPoll(inp[j]).v = inp[j].v
              /\ Notified(inp[j]).s = inp[j].s /\ Notified(inp[j]).v = inp[j].v
              /\ CloseReceiver(inp[j]).v = inp[j].v
              /\ Send(inp[j], "value").s = IF inp[j].s = "Closed" THEN "Closed" ELSE "Ready"
              /\ Send(inp[j], "value").v = IF inp[j].s = "Closed" THEN inp[j].v ELSE "value"
              /\ Cancel(inp[j]).s = "Ready" /\ Cancel(inp[j]).v = inp[j].v
              /\ CloseSender(inp[j]).v = inp[j].v
              /\ CloseSender(inp[j]).s = IF inp[j].s = "NotReady" THEN "Closed" ELSE inp[j].s
  <2> DEFINE V == {"none", "value"}
  <2>1. "value" \in V /\ inp[j] \in Chan(V)
    BY <1>00, Zenon DEF InChan
  <2> HIDE DEF V
  <2>2. inp[j].s \in Statuses /\ inp[j].v \in V
    BY <2>1, ChannelFacts, Zenon
  <2>3. /\ AfterPoll(inp[j]).s = inp[j].s /\ AfterPoll(inp[j]).v = inp[j].v
        /\ Notified(inp[j]).s = inp[j].s /\ Notified(inp[j]).v = inp[j].v
        /\ CloseReceiver(inp[j]).v = inp[j].v
    BY <2>1, ChannelFacts
  <2>4. /\ Send(inp[j], "value").s = IF inp[j].s = "Closed" THEN "Closed" ELSE "Ready"
        /\ Send(inp[j], "value").v = IF inp[j].s = "Closed" THEN inp[j].v ELSE "value"
    BY <2>1, SendFacts
  <2>5. /\ Cancel(inp[j]).s = "Ready" /\ Cancel(inp[j]).v = inp[j].v
        /\ CloseSender(inp[j]).v = inp[j].v
        /\ CloseSender(inp[j]).s = IF inp[j].s = "NotReady" THEN "Closed" ELSE inp[j].s
    BY <2>1, ChannelFacts
  <2> QED
    BY <2>2, <2>3, <2>4, <2>5, Zenon DEF V
<1>1. ASSUME NEW w \in Workers, \/ WorkerWait(w) \/ SpuriousWakeup(w) \/ WorkerExit(w)
                                 \/ WorkerPop(w) \/ SendResult(w) \/ Wait(w)
      PROVE  Promised'
  <2>1. UNCHANGED <<inp, spc>>
    BY <1>1, Zenon DEF WorkerWait, SpuriousWakeup, WorkerExit, WorkerPop, SendResult, Wait
  <2>2. \E l \in {"cv_wait", "loop", "exited", "poll", "complete"} : wpc' = [wpc EXCEPT ![w] = l]
    BY <1>1, Zenon DEF WorkerWait, SpuriousWakeup, WorkerExit, WorkerPop, SendResult, AfterSend, Wait
  <2>3. cur' = cur \/ \E j : cur' = [cur EXCEPT ![w] = j]
    BY <1>1, Zenon DEF WorkerWait, SpuriousWakeup, WorkerExit, WorkerPop, SendResult, Wait
  <2>4. \A v \in Workers : wpc'[v] = "send" => wpc[v] = "send" /\ cur'[v] = cur[v]
    BY <1>0, <2>2, <2>3, Zenon DEF TypeOK
  <2> QED
    BY <1>0, <2>1, <2>4, PromisedFrame, Zenon
<1>2. ASSUME NEW w \in Workers, Poll(w) PROVE Promised'
  <2>1. /\ UNCHANGED <<phase, cur, spc>> /\ inp' = [inp EXCEPT ![cur[w]] = AfterPoll(@)]
        /\ wpc' = [wpc EXCEPT ![w] = IF PollResult(inp[cur[w]]) = "not_ready" THEN "wait" ELSE "send"]
    BY <1>2, Zenon DEF Poll, taskVars
  <2>2. \A j \in Jobs : inp'[j].s = inp[j].s /\ inp'[j].v = inp[j].v
    BY <1>0, <1>01, <2>1 DEF TypeOK
  <2>3. cur[w] \in Jobs /\ \A v \in Workers : wpc[v] = "send" => cur[v] \in Jobs
    BY <1>0, <1>2, Zenon DEF Poll, OnWorkers, Busy
  <2>4. wpc'[w] = "send" => inp[cur[w]].s # "NotReady"
    <3>1. inp[cur[w]].s = "NotReady" => PollResult(inp[cur[w]]) = "not_ready"
      BY <1>01, <2>3, PollFacts, Zenon
    <3> QED
      BY <1>0, <2>1, <3>1, Zenon DEF TypeOK
  <2>5. \A v \in Workers : v # w => wpc'[v] = wpc[v]
    BY <1>0, <2>1, Zenon DEF TypeOK
  <2> QED
    BY <1>0, <2>1, <2>2, <2>3, <2>4, <2>5 DEF Promised
<1>3. ASSUME NEW j \in Jobs, UNCHANGED <<cur, spc>>,
             phase' = [phase EXCEPT ![j] = "dropped"] \/ phase' = [phase EXCEPT ![j] = "done"],
             inp' = [inp EXCEPT ![j] = CloseReceiver(@)],
             \A v \in Workers : wpc'[v] = "send" => wpc[v] = "send" /\ cur[v] # j,
             spc[j] # "drop"
      PROVE  Promised'
  <2>1. /\ inp'[j].v = inp[j].v /\ phase'[j] \in {"done", "dropped"}
        /\ \A k \in Jobs : k # j => inp'[k] = inp[k] /\ phase'[k] = phase[k]
    BY <1>0, <1>01, <1>3 DEF TypeOK
  <2>2. \A v \in Workers : wpc[v] = "send" => cur[v] \in Jobs
    BY <1>0, Zenon DEF OnWorkers, Busy
  <2> QED
    BY <1>0, <1>3, <2>1, <2>2 DEF Promised
<1>4. ASSUME NEW w \in Workers, Complete(w) PROVE Promised'
  <2>1. /\ spc' = spc /\ inp' = [inp EXCEPT ![cur[w]] = CloseReceiver(@)]
        /\ phase' = [phase EXCEPT ![cur[w]] = "done"] /\ wpc' = [wpc EXCEPT ![w] = "loop"]
        /\ cur' = [cur EXCEPT ![w] = Idle] /\ wpc[w] = "complete"
    BY <1>4, Zenon DEF Complete
  <2>2. cur[w] \in Jobs /\ phase[cur[w]] = "polling"
    BY <1>0, <2>1, Zenon DEF OnWorkers, Busy
  <2>3. \A v \in Workers : wpc'[v] = "send" =>
           wpc[v] = "send" /\ cur'[v] = cur[v] /\ cur[v] # cur[w] /\ cur[v] \in Jobs
    BY <1>0, <2>1 DEF OnWorkers, Busy, TypeOK
  <2>4. /\ inp'[cur[w]].v = inp[cur[w]].v /\ phase'[cur[w]] = "done"
        /\ \A k \in Jobs : k # cur[w] => inp'[k] = inp[k] /\ phase'[k] = phase[k]
    BY <1>0, <1>01, <2>1, <2>2 DEF TypeOK
  <2>5. spc[cur[w]] # "drop"
    BY <1>0, <2>2, Zenon DEF Promised
  <2> QED
    BY <1>0, <2>1, <2>2, <2>3, <2>4, <2>5 DEF Promised
<1>5. ASSUME NEW j \in Jobs, Set(j) PROVE Promised'
  <2>1. UNCHANGED <<phase, wpc, cur>> /\ spc[j] = "set"
        /\ \E l \in {"unpark", "end"} : spc' = [spc EXCEPT ![j] = l]
    BY <1>5, Zenon DEF Set, taskVars, workerVars
  <2>2. PICK c \in {Send(inp[j], "value"), Cancel(inp[j]), CloseSender(inp[j])} :
           inp' = [inp EXCEPT ![j] = c]
    BY <1>5, Zenon DEF Set
  <2>3. inp[j].v = "none" /\ (inp[j].s = "Closed" => phase[j] \in {"done", "dropped"})
    BY <1>0, <2>1, Zenon DEF Promised
  <2>4. c.s # "NotReady" /\ (c.s = "Closed" => c.v = "none")
    BY <1>01, <2>2, <2>3
  <2>5. inp'[j] = c /\ \A k \in Jobs : k # j => inp'[k] = inp[k]
    BY <1>0, <2>2, Zenon DEF TypeOK
  <2>6. spc'[j] \in {"unpark", "end"} /\ \A k \in Jobs : k # j => spc'[k] = spc[k]
    BY <1>0, <2>1, Zenon DEF TypeOK
  <2>7. \A v \in Workers : wpc[v] = "send" => cur[v] \in Jobs
    BY <1>0, Zenon DEF OnWorkers, Busy
  <2> QED
    BY <1>0, <2>1, <2>3, <2>4, <2>5, <2>6, <2>7 DEF Promised
<1>6. ASSUME NEW j \in Jobs, Unpark(j) \/ Execute(j) PROVE Promised'
  <2>1. UNCHANGED <<inp, cur>> /\ \E l \in {"execute", "unlock", "drop"} : spc' = [spc EXCEPT ![j] = l]
    BY <1>6, Zenon DEF Unpark, Execute, workerVars
  <2>2. \A w \in Workers : wpc'[w] = "send" => wpc[w] = "send"
    <3>1. CASE wpc' = wpc
      BY <3>1, Zenon
    <3>2. CASE Push(j)
      BY <1>0, <3>2, PushWakes, Zenon DEF TypeOK
    <3> QED
      BY <1>6, <3>1, <3>2, Zenon DEF Unpark, Execute, workerVars
  <2>3. spc'[j] = "drop" => phase'[j] = "dropped"
    BY <1>0, <1>6 DEF Unpark, Execute, TypeOK
  <2>4. \A k \in Jobs : /\ spc'[k] = "set" => spc[k] = "set"
                        /\ spc'[k] = "drop" => spc[k] = "drop" \/ phase'[k] = "dropped"
    BY <1>0, <2>1, <2>3 DEF TypeOK
  <2> QED
    BY <1>0, <2>1, <2>2, <2>4, PromisedFrame, Zenon
<1>7. ASSUME NEW j \in Jobs, DropReceiver(j) PROVE Promised'
  <2>1. UNCHANGED <<phase, wpc, cur>> /\ spc[j] = "drop"
        /\ (\E l \in {"blocked", "unlock"} : spc' = [spc EXCEPT ![j] = l])
        /\ (inp' = inp \/ inp' = [inp EXCEPT ![j] = CloseReceiver(@)])
    BY <1>7, Zenon DEF DropReceiver, taskVars, workerVars
  <2>2. phase[j] = "dropped"
    BY <1>0, <2>1, Zenon DEF Promised
  <2>3. inp'[j].v = inp[j].v /\ \A k \in Jobs : k # j => inp'[k] = inp[k]
    BY <1>0, <1>01, <2>1 DEF TypeOK
  <2>4. spc'[j] \in {"blocked", "unlock"} /\ \A k \in Jobs : k # j => spc'[k] = spc[k]
    BY <1>0, <2>1 DEF TypeOK
  <2>5. \A v \in Workers : wpc[v] = "send" => cur[v] \in Jobs /\ cur[v] # j
    BY <1>0, <2>2, Zenon DEF OnWorkers, Busy
  <2> QED
    BY <1>0, <2>1, <2>2, <2>3, <2>4, <2>5 DEF Promised
<1>8. ASSUME NEW j \in Jobs, Unlock(j) PROVE Promised'
  <2>1. UNCHANGED <<phase, wpc, cur>> /\ spc' = [spc EXCEPT ![j] = "end"]
        /\ inp' = [inp EXCEPT ![j] = Notified(@)]
    BY <1>8, Zenon DEF Unlock, taskVars, workerVars
  <2>2. \A k \in Jobs : /\ inp'[k].s = inp[k].s /\ inp'[k].v = inp[k].v
                        /\ spc'[k] = "set" => spc[k] = "set"
                        /\ spc'[k] = "drop" => spc[k] = "drop"
    BY <1>0, <1>01, <2>1 DEF TypeOK
  <2> QED
    BY <1>0, <2>1, <2>2, PromisedFrame, Zenon
<1>9. ASSUME NEW j \in Jobs, Spawn(j) PROVE Promised'
  <2>1. UNCHANGED <<cur, spc>> /\ phase[j] = "unspawned"
    BY <1>0, <1>9, Zenon DEF Spawn, InQueue
  <2>2. CASE isRunning
    <3>1. inp' = inp /\ Push(j)
      BY <1>9, <2>2, Zenon DEF Spawn
    <3>2. \A w \in Workers : wpc'[w] = "send" => wpc[w] = "send"
      BY <1>0, <3>1, PushWakes DEF TypeOK
    <3> QED
      BY <1>0, <2>1, <3>1, <3>2, PromisedFrame, Zenon
  <2>3. CASE ~isRunning
    <3>1. /\ wpc' = wpc /\ phase' = [phase EXCEPT ![j] = "dropped"]
          /\ inp' = [inp EXCEPT ![j] = CloseReceiver(@)]
      BY <1>9, <2>3, Zenon DEF Spawn
    <3>2. \A v \in Workers : wpc[v] = "send" => cur[v] # j
      BY <1>0, <2>1, Zenon DEF OnWorkers, Busy
    <3>3. spc[j] # "drop"
      BY <1>0, <2>1, Zenon DEF Promised
    <3> QED
      BY <1>3, <2>1, <3>1, <3>2, <3>3, Zenon
  <2> QED
    BY <2>2, <2>3, Zenon
<1>10. ASSUME NEW j \in Jobs, ClientPoll(j) \/ ClientUnparked(j) \/ ClientDrop(j) PROVE Promised'
  <2>1. UNCHANGED <<inp, spc, wpc, cur>>
    BY <1>10, Zenon DEF ClientPoll, ClientUnparked, ClientDrop, workerVars
  <2> QED
    BY <1>0, <2>1, PromisedFrame, Zenon
<1>11. ASSUME Stop \/ Join \/ UNCHANGED vars PROVE Promised'
  <2>1. UNCHANGED <<inp, spc, cur>> /\ \A w \in Workers : wpc'[w] = "send" => wpc[w] = "send"
    BY <1>11, Zenon DEF Stop, Join, vars, workerVars
  <2> QED
    BY <1>0, <2>1, PromisedFrame, Zenon
<1> QED
  BY <1>1, <1>2, <1>4, <1>5, <1>6, <1>7, <1>8, <1>9, <1>10, <1>11, Zenon
  DEF Next, WorkerStep, SetterStep, ClientStep

\* The result's channels keep what they hold.
LEMMA AnsweredFrame ==
  ASSUME ResultInv, \A j \in Jobs : Stable(j),
         \A j \in Jobs : out'[j].s = out[j].s /\ out'[j].v = out[j].v,
         \A w \in Workers : /\ wpc'[w] = "complete" <=> wpc[w] = "complete"
                            /\ wpc[w] = "complete" => cur'[w] = cur[w]
  PROVE  Answered'
<1>1. \A w \in Workers : wpc[w] = "complete" => cur[w] \in Jobs
  BY Zenon DEF ResultInv, IInv, OnWorkers, Busy
<1>2. \A j \in Jobs : inp[j].v = "value" => spc[j] # "set"
  BY Zenon DEF ResultInv, IInv, Promised
<1>3. ASSUME NEW j \in Jobs
      PROVE  /\ out'[j].s = "Ready" =>
                  /\ out'[j].v # "none"
                  /\ phase'[j] = "done" \/ \E w \in Workers : cur'[w] = j /\ wpc'[w] = "complete"
             /\ out'[j].v = "value" => inp'[j].v = "value"
             /\ out'[j].v = "failed" => spc'[j] # "set" /\ inp'[j].v = "none"
             /\ cpc'[j] # "end" /\ out'[j].s = "Closed" => ~isRunning' /\ phase'[j] = "dropped"
  BY <1>2 DEF ResultInv, IInv, Answered, Stable
<1>4. \A w \in Workers :
        wpc'[w] = "complete" /\ cpc'[cur'[w]] # "end" => out'[cur'[w]].s # "NotReady"
  BY <1>1 DEF ResultInv, IInv, Answered, Stable
<1> QED
  BY <1>3, <1>4, Zenon DEF Answered

LEMMA AnsweredStep == ResultInv /\ [Next]_vars => Answered'
<1> SUFFICES ASSUME ResultInv, [Next]_vars PROVE Answered'
  OBVIOUS
<1>0. TypeOK /\ OnWorkers /\ InQueue /\ Promised /\ Answered /\ \A j \in Jobs : Stable(j)
  BY StableStep, Zenon DEF ResultInv, IInv
<1>00. \A j \in Jobs : inp[j] \in InChan /\ out[j] \in OutChan
  BY <1>0, Zenon DEF TypeOK, InChan, OutChan, Chan
<1>01. ASSUME NEW j \in Jobs
       PROVE  /\ out[j].s \in Statuses /\ out[j].v \in {"none", "value", "failed"}
              /\ inp[j].s \in Statuses /\ inp[j].v \in {"none", "value"}
              /\ AfterPoll(out[j]).s = out[j].s /\ AfterPoll(out[j]).v = out[j].v
              /\ CloseReceiver(out[j]).s = "Closed" /\ CloseReceiver(out[j]).v = out[j].v
              /\ CloseSender(out[j]).v = out[j].v /\ CloseSender(out[j]) \in OutChan
              /\ CloseSender(out[j]).s = IF out[j].s = "NotReady" THEN "Closed" ELSE out[j].s
  <2> DEFINE V == {"none", "value", "failed"}
  <2>1. "value" \in V /\ out[j] \in Chan(V)
    BY <1>00, Zenon DEF OutChan
  <2>2. inp[j].s \in Statuses /\ inp[j].v \in {"none", "value"}
    BY <1>00, Zenon DEF InChan, Chan
  <2>3. OutChan = Chan(V)
    BY Zenon DEF OutChan
  <2> HIDE DEF V
  <2>4. /\ out[j].s \in Statuses /\ out[j].v \in V
        /\ AfterPoll(out[j]).s = out[j].s /\ AfterPoll(out[j]).v = out[j].v
        /\ CloseReceiver(out[j]).s = "Closed" /\ CloseReceiver(out[j]).v = out[j].v
        /\ CloseSender(out[j]).v = out[j].v /\ CloseSender(out[j]) \in Chan(V)
        /\ CloseSender(out[j]).s = IF out[j].s = "NotReady" THEN "Closed" ELSE out[j].s
    BY <2>1, ChannelFacts
  <2> QED
    BY <2>2, <2>3, <2>4, Zenon DEF V
<1>02. \A j \in Jobs : inp[j].v = "value" => spc[j] # "set"
  BY <1>0, Zenon DEF Promised
<1>03. \A w \in Workers : wpc[w] = "complete" => cur[w] \in Jobs
  BY <1>0, Zenon DEF OnWorkers, Busy
<1>04. ASSUME NEW k \in Jobs
       PROVE  /\ out[k].v = "value" => inp'[k].v = "value"
              /\ out[k].v = "failed" => spc'[k] # "set" /\ inp'[k].v = "none"
  <2>1. /\ out[k].v = "value" => inp[k].v = "value" /\ spc[k] # "set"
        /\ out[k].v = "failed" => spc[k] # "set" /\ inp[k].v = "none"
    BY <1>0, <1>02, Zenon DEF Answered
  <2>2. spc[k] # "set" => spc'[k] # "set" /\ inp'[k].v = inp[k].v
    BY <1>0, Zenon DEF Stable
  <2> QED
    BY <2>1, <2>2, Zenon
<1>1. ASSUME NEW w \in Workers, \/ WorkerWait(w) \/ SpuriousWakeup(w) \/ WorkerExit(w)
                                 \/ WorkerPop(w) \/ Poll(w) \/ Wait(w)
      PROVE  Answered'
  <2>1. out' = out
    BY <1>1, Zenon DEF WorkerWait, SpuriousWakeup, WorkerExit, WorkerPop, Poll, Wait
  <2>2. wpc[w] # "complete" /\
        \E l \in {"cv_wait", "loop", "exited", "poll", "wait", "send"} : wpc' = [wpc EXCEPT ![w] = l]
    BY <1>1, Zenon DEF WorkerWait, SpuriousWakeup, WorkerExit, WorkerPop, Poll, Wait
  <2>3. cur' = cur \/ \E j : cur' = [cur EXCEPT ![w] = j]
    BY <1>1, Zenon DEF WorkerWait, SpuriousWakeup, WorkerExit, WorkerPop, Poll, Wait
  <2>4. \A v \in Workers : /\ wpc'[v] = "complete" <=> wpc[v] = "complete"
                           /\ wpc[v] = "complete" => cur'[v] = cur[v]
    BY <1>0, <2>2, <2>3 DEF TypeOK
  <2> QED
    BY <1>0, <2>1, <2>4, AnsweredFrame, Zenon
<1>2. ASSUME NEW w \in Workers, SendResult(w) PROVE Answered'
  <2> DEFINE j == cur[w]
             x == IF PollResult(inp[j]) = "cancelled" THEN "failed" ELSE "value"
  <2>1. /\ wpc[w] = "send" /\ ToClient(j, Send(out[j], x)) /\ wpc' = [wpc EXCEPT ![w] = "complete"]
        /\ UNCHANGED <<cur, phase, inp, spc, isRunning, cpc>>
    BY <1>2, Zenon DEF SendResult, AfterSend, poolVars, taskVars
  <2>2. j \in Jobs /\ phase[j] = "polling" /\ inp[j].s # "NotReady"
    BY <1>0, <2>1, Zenon DEF OnWorkers, Busy, Promised
  <2>3. x \in {"value", "failed"}
    BY Zenon
  <2>4. /\ x = "value" => inp[j].v = "value"
        /\ x = "failed" => spc[j] # "set" /\ inp[j].v = "none"
    <3>1. spc[j] # "set" /\ (inp[j].s = "Closed" => inp[j].v = "none")
      BY <1>0, <2>2, Zenon DEF Promised
    <3>2. PollResult(inp[j]) = IF inp[j].s = "Closed" THEN "cancelled"
                               ELSE IF inp[j].v = "none" THEN "cancelled" ELSE inp[j].v
      BY <1>01, <2>2, PollFacts, Zenon
    <3> QED
      BY <1>01, <2>2, <3>1, <3>2, Zenon
  <2> HIDE DEF x
  <2>5. /\ Send(out[j], x) \in OutChan
        /\ Send(out[j], x).s = IF out[j].s = "Closed" THEN "Closed" ELSE "Ready"
        /\ Send(out[j], x).v = IF out[j].s = "Closed" THEN out[j].v ELSE x
    <3> DEFINE V == {"none", "value", "failed"}
    <3>1. x \in V /\ out[j] \in Chan(V) /\ OutChan = Chan(V)
      BY <1>00, <2>2, <2>3, Zenon DEF OutChan
    <3> HIDE DEF V, j
    <3>2. Send(out[j], x) \in Chan(V)
      BY <3>1, ChannelFacts, Zenon
    <3>3. /\ Send(out[j], x).s = IF out[j].s = "Closed" THEN "Closed" ELSE "Ready"
          /\ Send(out[j], x).v = IF out[j].s = "Closed" THEN out[j].v ELSE x
      BY <3>1, SendFacts, SMTT(30)
    <3> QED
      BY <3>1, <3>2, <3>3, Zenon
  <2>6. /\ out'[j].s = IF out[j].s = "Closed" THEN "Closed" ELSE "Ready"
        /\ out'[j].v = IF out[j].s = "Closed" THEN out[j].v ELSE x
        /\ \A k \in Jobs : k # j => out'[k] = out[k]
    BY <1>0, <2>1, <2>2, <2>5, ToClientFacts, Zenon
  <2>7. wpc'[w] = "complete" /\ cur'[w] = j /\ \A v \in Workers : v # w => wpc'[v] = wpc[v]
    BY <1>0, <2>1, Zenon DEF TypeOK
  <2>8. \A v \in Workers : wpc[v] = "complete" => v # w /\ cur[v] # j
    BY <1>0, <2>1, Zenon DEF OnWorkers, Busy
  <2> HIDE DEF j
  <2>9. ASSUME NEW k \in Jobs
        PROVE  /\ out'[k].s = "Ready" =>
                    /\ out'[k].v # "none"
                    /\ phase'[k] = "done" \/ \E v \in Workers : cur'[v] = k /\ wpc'[v] = "complete"
               /\ out'[k].v = "value" => inp'[k].v = "value"
               /\ out'[k].v = "failed" => spc'[k] # "set" /\ inp'[k].v = "none"
               /\ cpc'[k] # "end" /\ out'[k].s = "Closed" => ~isRunning' /\ phase'[k] = "dropped"
    <3>1. CASE k = j
      <4>1. CASE out[k].s = "Closed"
        <5>1. out'[k].s = "Closed" /\ out'[k].v = out[k].v
          BY <2>6, <3>1, <4>1, Zenon
        <5>2. cpc'[k] = "end"
          <6>1. cpc[k] # "end" => phase[k] = "dropped"
            BY <1>0, <4>1, Zenon DEF Answered
          <6> QED
            BY <2>1, <2>2, <3>1, <6>1, Zenon
        <5> QED
          BY <1>04, <5>1, <5>2, Zenon
      <4>2. CASE out[k].s # "Closed"
        <5>1. out'[k].s = "Ready" /\ out'[k].v = x
          BY <2>6, <3>1, <4>2, Zenon
        <5>2. inp' = inp /\ spc' = spc
          BY <2>1, Zenon
        <5>3. \E v \in Workers : cur'[v] = k /\ wpc'[v] = "complete"
          BY <2>7, <3>1, Zenon
        <5> QED
          BY <2>3, <2>4, <3>1, <5>1, <5>2, <5>3, Zenon
      <4> QED
        BY <4>1, <4>2, Zenon
    <3>2. CASE k # j
      <4>1. \A v \in Workers : wpc[v] = "complete" => wpc'[v] = "complete" /\ cur'[v] = cur[v]
        BY <2>1, <2>7, <2>8, Zenon
      <4> QED
        <5>1. out'[k] = out[k]
          BY <2>6, <3>2, Zenon
        <5>2. UNCHANGED <<phase, inp, spc, isRunning, cpc>>
          BY <2>1, Zenon
        <5>3. /\ out[k].s = "Ready" =>
                    /\ out[k].v # "none"
                    /\ phase[k] = "done" \/ \E v \in Workers : cur[v] = k /\ wpc[v] = "complete"
              /\ cpc[k] # "end" /\ out[k].s = "Closed" => ~isRunning /\ phase[k] = "dropped"
          BY <1>0, Zenon DEF Answered
        <5> QED
          BY <1>04, <4>1, <5>1, <5>2, <5>3, Zenon
    <3> QED
      BY <3>1, <3>2, Zenon
  <2>10. ASSUME NEW v \in Workers, wpc'[v] = "complete", cpc'[cur'[v]] # "end"
         PROVE  out'[cur'[v]].s # "NotReady"
    <3>1. CASE v = w
      BY <2>6, <2>7, <3>1, Zenon
    <3>2. CASE v # w
      <4>1. wpc[v] = "complete" /\ cur'[v] = cur[v] /\ cur[v] # j /\ cur[v] \in Jobs
        BY <1>03, <2>1, <2>7, <2>8, <2>10, <3>2, Zenon
      <4>2. cpc[cur[v]] # "end"
        BY <2>1, <2>10, <4>1, Zenon
      <4>3. out[cur[v]].s # "NotReady"
        BY <1>0, <4>1, <4>2, Zenon DEF Answered
      <4> QED
        BY <2>6, <4>1, <4>3, Zenon
    <3> QED
      BY <3>1, <3>2, Zenon
  <2> QED
    BY <2>9, <2>10, Zenon DEF Answered
<1>3. ASSUME NEW w \in Workers, Complete(w) PROVE Answered'
  <2> DEFINE j == cur[w]
  <2>1. /\ wpc[w] = "complete" /\ ToClient(j, CloseSender(out[j])) /\ wpc' = [wpc EXCEPT ![w] = "loop"]
        /\ cur' = [cur EXCEPT ![w] = Idle] /\ phase' = [phase EXCEPT ![j] = "done"]
        /\ UNCHANGED <<spc, isRunning, cpc>>
    BY <1>3, Zenon DEF Complete, poolVars
  <2>2. j \in Jobs
    BY <1>03, <2>1, Zenon
  <2>3. /\ out'[j].s = (IF out[j].s = "NotReady" THEN "Closed" ELSE out[j].s)
        /\ out'[j].v = out[j].v /\ \A k \in Jobs : k # j => out'[k] = out[k]
    BY <1>0, <1>01, <2>1, <2>2, ToClientFacts, SMTT(30)
  <2>4. phase[j] = "polling" /\ phase'[j] = "done"
    BY <1>0, <2>1, <2>2, SMTT(30) DEF OnWorkers, Busy, TypeOK
  <2>5. cpc[j] # "end" => out'[j].s = "Ready"
    <3>1. cpc[j] # "end" => out[j].s # "NotReady"
      BY <1>0, <2>1, Zenon DEF Answered
    <3>2. cpc[j] # "end" => out[j].s # "Closed"
      BY <1>0, <2>2, <2>4, Zenon DEF Answered
    <3>3. out[j].s \in Statuses
      BY <1>01, <2>2, Zenon
    <3> QED
      BY <2>3, <3>1, <3>2, <3>3, Zenon DEF Statuses
  <2>6. wpc'[w] = "loop" /\ \A v \in Workers : v # w => wpc'[v] = wpc[v] /\ cur'[v] = cur[v]
    BY <1>0, <2>1, Zenon DEF TypeOK
  <2>7. \A v \in Workers : wpc'[v] = "complete" => v # w /\ cur'[v] = cur[v] /\ cur[v] # j
    BY <1>0, <2>1, <2>6 DEF OnWorkers, Busy
  <2> HIDE DEF j
  <2>8. ASSUME NEW k \in Jobs
        PROVE  /\ out'[k].s = "Ready" =>
                    /\ out'[k].v # "none"
                    /\ phase'[k] = "done" \/ \E v \in Workers : cur'[v] = k /\ wpc'[v] = "complete"
               /\ out'[k].v = "value" => inp'[k].v = "value"
               /\ out'[k].v = "failed" => spc'[k] # "set" /\ inp'[k].v = "none"
               /\ cpc'[k] # "end" /\ out'[k].s = "Closed" => ~isRunning' /\ phase'[k] = "dropped"
    <3>1. /\ out[k].v = "value" => inp'[k].v = "value"
          /\ out[k].v = "failed" => spc'[k] # "set" /\ inp'[k].v = "none"
      BY <1>04, Zenon
    <3>2. CASE k = j
      <4>1. out'[k].v = out[k].v /\ phase'[k] = "done"
        BY <2>3, <2>4, <3>2, Zenon
      <4>2. out'[k].s = "Ready" => out[k].s = "Ready"
        BY <2>3, <3>2, Zenon
      <4>3. out[k].s = "Ready" => out[k].v # "none"
        BY <1>0, Zenon DEF Answered
      <4>4. cpc'[k] # "end" => out'[k].s # "Closed"
        <5>1. cpc'[k] = cpc[k]
          BY <2>1, Zenon
        <5>2. cpc[k] # "end" => out'[k].s = "Ready"
          BY <2>5, <3>2, Zenon
        <5> QED
          BY <5>1, <5>2, Zenon
      <4> QED
        BY <3>1, <4>1, <4>2, <4>3, <4>4, Zenon
    <3>3. CASE k # j
      <4>1. \A v \in Workers : cur[v] = k => v # w
        BY <3>3, Zenon DEF j
      <4>2. /\ out[k].s = "Ready" =>
                  /\ out[k].v # "none"
                  /\ phase[k] = "done" \/ \E v \in Workers : cur[v] = k /\ wpc[v] = "complete"
            /\ cpc[k] # "end" /\ out[k].s = "Closed" => ~isRunning /\ phase[k] = "dropped"
        BY <1>0, Zenon DEF Answered
      <4> QED
        <5>1. out'[k] = out[k]
          BY <2>3, <3>3, Zenon
        <5>2. /\ phase[k] = "done" => phase'[k] = "done"
              /\ phase[k] = "dropped" => phase'[k] = "dropped"
              /\ cpc[k] = "end" => cpc'[k] = "end" /\ (~isRunning => ~isRunning')
          BY <1>0, Zenon DEF Stable
        <5>3. \A v \in Workers : cur[v] = k /\ wpc[v] = "complete" => cur'[v] = k /\ wpc'[v] = "complete"
          BY <2>6, <4>1, Zenon
        <5>4. isRunning' = isRunning /\ cpc' = cpc
          BY <2>1, Zenon
        <5> QED
          BY <3>1, <4>2, <5>1, <5>2, <5>3, <5>4, Zenon
    <3> QED
      BY <3>2, <3>3, Zenon
  <2>9. \A v \in Workers : wpc'[v] = "complete" /\ cpc'[cur'[v]] # "end" => out'[cur'[v]].s # "NotReady"
    <3> SUFFICES ASSUME NEW v \in Workers, wpc'[v] = "complete", cpc'[cur'[v]] # "end"
                 PROVE  out'[cur'[v]].s # "NotReady"
      OBVIOUS
    <3>1. wpc[v] = "complete" /\ cur'[v] = cur[v] /\ cur[v] # j /\ cur[v] \in Jobs
      BY <1>03, <2>6, <2>7, Zenon
    <3>2. cpc[cur[v]] # "end"
      BY <2>1, <3>1, Zenon
    <3>3. out[cur[v]].s # "NotReady"
      BY <1>0, <3>1, <3>2, Zenon DEF Answered
    <3> QED
      BY <2>3, <3>1, <3>3, Zenon
  <2> QED
    BY <2>8, <2>9, Zenon DEF Answered
<1>4. ASSUME NEW j \in Jobs, ~isRunning, isRunning' = isRunning, phase[j] # "polling", phase[j] # "done",
             phase'[j] = "dropped", wpc' = wpc, cur' = cur,
             out'[j].s = CloseSender(out[j]).s, out'[j].v = out[j].v,
             \A k \in Jobs : k # j => out'[k] = out[k]
      PROVE  Answered'
  <2>1. out[j].s # "Ready"
    BY <1>0, <1>4, SMTT(30) DEF Answered, OnWorkers, Busy
  <2>2. out'[j].s = "Closed"
    BY <1>01, <1>4, <2>1, Zenon DEF Statuses
  <2>3. \A v \in Workers : wpc[v] = "complete" => cur[v] # j
    BY <1>0, <1>4, SMTT(30) DEF OnWorkers, Busy
  <2>4. ASSUME NEW k \in Jobs
        PROVE  /\ out'[k].s = "Ready" =>
                    /\ out'[k].v # "none"
                    /\ phase'[k] = "done" \/ \E v \in Workers : cur'[v] = k /\ wpc'[v] = "complete"
               /\ out'[k].v = "value" => inp'[k].v = "value"
               /\ out'[k].v = "failed" => spc'[k] # "set" /\ inp'[k].v = "none"
               /\ cpc'[k] # "end" /\ out'[k].s = "Closed" => ~isRunning' /\ phase'[k] = "dropped"
    <3>1. /\ out[k].v = "value" => inp'[k].v = "value"
          /\ out[k].v = "failed" => spc'[k] # "set" /\ inp'[k].v = "none"
      BY <1>04, Zenon
    <3>2. CASE k = j
      BY <1>4, <2>2, <3>1, <3>2, Zenon
    <3>3. CASE k # j
      <4>1. out'[k] = out[k]
        BY <1>4, <3>3, Zenon
      <4>2. /\ out[k].s = "Ready" =>
                  /\ out[k].v # "none"
                  /\ phase[k] = "done" \/ \E v \in Workers : cur[v] = k /\ wpc[v] = "complete"
            /\ cpc[k] # "end" /\ out[k].s = "Closed" => ~isRunning /\ phase[k] = "dropped"
        BY <1>0, ZenonT(30) DEF Answered
      <4> QED
        BY <1>0, <1>4, <3>1, <4>1, <4>2, Zenon DEF Stable
    <3> QED
      BY <3>2, <3>3, Zenon
  <2>5. \A v \in Workers : wpc'[v] = "complete" /\ cpc'[cur'[v]] # "end" => out'[cur'[v]].s # "NotReady"
    <3> SUFFICES ASSUME NEW v \in Workers, wpc'[v] = "complete", cpc'[cur'[v]] # "end"
                 PROVE  out'[cur'[v]].s # "NotReady"
      OBVIOUS
    <3>1. wpc[v] = "complete" /\ cur'[v] = cur[v] /\ cur[v] # j /\ cur[v] \in Jobs
      BY <1>03, <1>4, <2>3, Zenon
    <3>2. cpc[cur[v]] # "end"
      BY <1>0, <3>1, Zenon DEF Stable
    <3>3. out[cur[v]].s # "NotReady"
      BY <1>0, <3>1, <3>2, Zenon DEF Answered
    <3> QED
      BY <1>4, <3>1, <3>3, Zenon
  <2> QED
    BY <2>4, <2>5, Zenon DEF Answered
<1>5. ASSUME NEW j \in Jobs, Execute(j) \/ Spawn(j) PROVE Answered'
  <2>1. cur' = cur /\ isRunning' = isRunning
    BY <1>5, Zenon DEF Execute, Spawn
  <2>2. phase[j] # "polling" /\ phase[j] # "done"
    BY <1>0, <1>5, Zenon DEF Execute, Spawn, InQueue
  <2>3. CASE isRunning
    <3>1. Push(j) /\ out' = out
      <4>1. CASE Execute(j)
        BY <2>3, <4>1, Zenon DEF Execute
      <4>2. CASE Spawn(j)
        BY <2>3, <4>2, Zenon DEF Spawn
      <4> QED
        BY <1>5, <4>1, <4>2, Zenon
    <3>2. \A w \in Workers : wpc'[w] = "complete" <=> wpc[w] = "complete"
      BY <1>0, <3>1, PushWakes, ZenonT(30) DEF TypeOK
    <3> QED
      BY <1>0, <2>1, <3>1, <3>2, AnsweredFrame, Zenon
  <2>4. CASE ~isRunning
    <3>1. wpc' = wpc /\ phase' = [phase EXCEPT ![j] = "dropped"]
      BY <1>5, <2>4, Zenon DEF Execute, Spawn
    <3>2. phase'[j] = "dropped"
      BY <1>0, <3>1, Zenon DEF TypeOK
    <3>3. /\ out'[j].s = CloseSender(out[j]).s /\ out'[j].v = out[j].v
          /\ \A k \in Jobs : k # j => out'[k] = out[k]
      <4>1. CASE Execute(j)
        <5>1. ToClient(j, CloseSender(out[j]))
          BY <2>4, <4>1, Zenon DEF Execute
        <5> QED
          BY <1>0, <1>01, <5>1, ToClientFacts, SMTT(30)
      <4>2. CASE Spawn(j)
        <5>1. out' = [out EXCEPT ![j] = CloseSender(@)]
          BY <2>4, <4>2, Zenon DEF Spawn
        <5> QED
          BY <1>0, <1>01, <5>1 DEF TypeOK
      <4> QED
        BY <1>5, <4>1, <4>2, Zenon
    <3> QED
      BY <1>4, <2>1, <2>2, <2>4, <3>1, <3>2, <3>3, Zenon
  <2> QED
    BY <2>3, <2>4, Zenon
<1>6. ASSUME NEW j \in Jobs,
             Set(j) \/ Unpark(j) \/ DropReceiver(j) \/ Unlock(j) \/ ClientUnparked(j)
      PROVE  Answered'
  <2>1. UNCHANGED <<out, wpc, cur>>
    BY <1>6, Zenon DEF Set, Unpark, DropReceiver, Unlock, ClientUnparked, workerVars
  <2> QED
    BY <1>0, <2>1, AnsweredFrame, Zenon
<1>7. ASSUME NEW j \in Jobs, ClientPoll(j) PROVE Answered'
  <2>1. UNCHANGED <<wpc, cur>> /\ out' = [out EXCEPT ![j] = AfterPoll(@)]
    BY <1>7, Zenon DEF ClientPoll, workerVars
  <2>2. \A k \in Jobs : out'[k].s = out[k].s /\ out'[k].v = out[k].v
    BY <1>0, <1>01, <2>1, SMTT(30) DEF TypeOK
  <2> QED
    BY <1>0, <2>1, <2>2, AnsweredFrame, Zenon
<1>8. ASSUME NEW j \in Jobs, ClientDrop(j) PROVE Answered'
  <2>1. UNCHANGED <<wpc, cur, phase, inp, spc, isRunning>> /\ out' = [out EXCEPT ![j] = CloseReceiver(@)]
        /\ cpc' = [cpc EXCEPT ![j] = "end"]
    BY <1>8, Zenon DEF ClientDrop, workerVars, taskVars, poolVars
  <2>2. /\ out'[j].s = "Closed" /\ out'[j].v = out[j].v /\ cpc'[j] = "end"
        /\ \A k \in Jobs : k # j => out'[k] = out[k] /\ cpc'[k] = cpc[k]
    BY <1>0, <1>01, <2>1 DEF TypeOK
  <2> QED
    BY <1>0, <1>03, <2>1, <2>2, SMTT(30) DEF Answered
<1>9. ASSUME Stop \/ Join \/ UNCHANGED vars PROVE Answered'
  <2>1. UNCHANGED <<out, cur>> /\ \A w \in Workers : wpc'[w] = "complete" <=> wpc[w] = "complete"
    BY <1>9, Zenon DEF Stop, Join, vars, workerVars
  <2> QED
    BY <1>0, <2>1, AnsweredFrame, Zenon
<1> QED
  BY <1>1, <1>2, <1>3, <1>5, <1>6, <1>7, <1>8, <1>9, Zenon
  DEF Next, WorkerStep, SetterStep, ClientStep

LEMMA ResultStep == ResultInv /\ [Next]_vars => ResultIsTrue'
<1> SUFFICES ASSUME ResultInv, [Next]_vars PROVE ResultIsTrue'
  OBVIOUS
<1>0. TypeOK /\ Answered /\ Promised /\ ResultIsTrue /\ \A j \in Jobs : Stable(j)
  BY StableStep, Zenon DEF ResultInv, IInv
<1>1. ASSUME NEW j \in Jobs, res'[j] = res[j]
      PROVE  /\ res'[j] = "value" => inp'[j].v = "value"
             /\ res'[j] = "failed" => spc'[j] # "set" /\ inp'[j].v = "none"
             /\ res'[j] = "cancelled" => ~isRunning' /\ phase'[j] = "dropped"
  BY <1>0, <1>1, Zenon DEF ResultIsTrue, Stable, Promised
<1>2. CASE res' = res
  BY <1>1, <1>2, Zenon DEF ResultIsTrue
<1>3. ASSUME NEW j \in Jobs, ClientPoll(j), res' = [res EXCEPT ![j] = PollResult(out[j])]
      PROVE  ResultIsTrue'
  <2>1. UNCHANGED <<inp, spc, isRunning, phase>> /\ cpc[j] = "poll"
    BY <1>3, Zenon DEF ClientPoll, poolVars, taskVars
  <2>2. out[j].s \in Statuses /\ out[j].v \in {"none", "value", "failed"}
    BY <1>0, Zenon DEF TypeOK
  <2>3. PollResult(out[j]) = IF out[j].s = "Closed" THEN "cancelled"
                             ELSE IF out[j].s = "NotReady" THEN "not_ready"
                             ELSE IF out[j].v = "none" THEN "cancelled" ELSE out[j].v
    BY <2>2, PollFacts, Zenon
  <2>4. res'[j] = PollResult(out[j]) /\ \A k \in Jobs : k # j => res'[k] = res[k]
    BY <1>0, <1>3, Zenon DEF TypeOK
  <2>5. out[j].s # "Closed" /\ out[j].s # "NotReady" => out[j].v # "none"
    BY <1>0, <2>2, Zenon DEF Answered, Statuses
  <2>6. /\ res'[j] = "value" => inp'[j].v = "value"
        /\ res'[j] = "failed" => spc'[j] # "set" /\ inp'[j].v = "none"
        /\ res'[j] = "cancelled" => ~isRunning' /\ phase'[j] = "dropped"
    BY <1>0, <2>1, <2>2, <2>3, <2>4, <2>5, Zenon DEF Answered
  <2> QED
    BY <1>1, <2>4, <2>6, Zenon DEF ResultIsTrue
<1>4. ASSUME NEW j \in Jobs, ClientDrop(j) PROVE ResultIsTrue'
  <2>1. res'[j] = "abandoned" /\ \A k \in Jobs : k # j => res'[k] = res[k]
    BY <1>0, <1>4, Zenon DEF ClientDrop, TypeOK
  <2> QED
    BY <1>1, <2>1, Zenon DEF ResultIsTrue
<1>5. \/ res' = res
      \/ \E j \in Jobs : \/ ClientPoll(j) /\ res' = [res EXCEPT ![j] = PollResult(out[j])]
                         \/ ClientDrop(j)
  <2>1. ASSUME NEW w \in Workers, WorkerStep(w) \/ SpuriousWakeup(w) PROVE res' = res
    <3>1. CASE WorkerWait(w) \/ SpuriousWakeup(w) \/ WorkerExit(w) \/ WorkerPop(w)
      BY <3>1, Zenon DEF WorkerWait, SpuriousWakeup, WorkerExit, WorkerPop, clientVars
    <3>2. CASE Poll(w) \/ SendResult(w) \/ Wait(w) \/ Complete(w)
      BY <3>2, Zenon DEF Poll, SendResult, Wait, Complete, clientVars
    <3> QED
      BY <2>1, <3>1, <3>2, Zenon DEF WorkerStep
  <2>2. ASSUME NEW j \in Jobs, SetterStep(j) \/ Spawn(j) \/ ClientUnparked(j) PROVE res' = res
    BY <2>2, Zenon DEF SetterStep, Set, Unpark, Execute, DropReceiver, Unlock, Spawn,
                       ClientUnparked, clientVars
  <2>3. ASSUME Stop \/ Join \/ UNCHANGED vars PROVE res' = res
    BY <2>3, Zenon DEF Stop, Join, vars, clientVars
  <2>4. ASSUME NEW j \in Jobs, ClientPoll(j)
        PROVE  res' = res \/ res' = [res EXCEPT ![j] = PollResult(out[j])]
    BY <2>4, Zenon DEF ClientPoll
  <2> QED
    BY <2>1, <2>2, <2>3, <2>4, Zenon DEF Next, ClientStep
<1> QED
  BY <1>2, <1>3, <1>4, <1>5, Zenon

-----------------------------------------------------------------------------
\* ResultInv is an invariant of the pool, with any number of workers and jobs.
THEOREM ResultInvariance == Spec => []ResultInv
<1>1. Init => Promised /\ Answered /\ ResultIsTrue
  <2> SUFFICES ASSUME Init PROVE Promised /\ Answered /\ ResultIsTrue
    OBVIOUS
  <2>1. NewChannel.s = "NotReady" /\ NewChannel.v = "none"
    BY Zenon DEF NewChannel
  <2> QED
    BY <2>1, Zenon DEF Init, Promised, Answered, ResultIsTrue
<1>2. ResultInv /\ [Next]_vars => Promised' /\ Answered' /\ ResultIsTrue'
  BY PromisedStep, AnsweredStep, ResultStep, Zenon
<1> QED
  BY <1>1, <1>2, Invariance, PTL DEF Spec, ResultInv

\* What a client gets is what became of its job.
THEOREM ResultIsTrueHolds == Spec => []ResultIsTrue
<1>1. ResultInv => ResultIsTrue
  BY Zenon DEF ResultInv, IInv
<1> QED
  BY <1>1, ResultInvariance, PTL

\* send() never finds the result's channel Ready.
THEOREM ResultSentOnceHolds == Spec => []ResultSentOnce
<1>1. ResultInv => ResultSentOnce
  <2> SUFFICES ASSUME ResultInv, NEW w \in Workers, wpc[w] = "send" PROVE out[cur[w]].s # "Ready"
    BY Zenon DEF ResultSentOnce, CanSend
  <2>1. cur[w] \in Jobs /\ phase[cur[w]] = "polling"
    BY Zenon DEF ResultInv, IInv, OnWorkers, Busy
  <2>2. \A v \in Workers : wpc[v] = "complete" => cur[v] # cur[w]
    BY Zenon DEF ResultInv, IInv, OnWorkers, Busy
  <2> QED
    BY <2>1, <2>2, SMTT(30) DEF ResultInv, IInv, Answered
<1> QED
  BY <1>1, ResultInvariance, PTL
=============================================================================
