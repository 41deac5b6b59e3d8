------------------------ MODULE CpuPoolExecutorProofs ------------------------
(***************************************************************************)
(* The CPU pool, with any number of workers and jobs, runs what it         *)
(* accepts: no Runnable is left in the queue while every worker sleeps,    *)
(* and stop() drains the queue.                                            *)
(*                                                                         *)
(* The inductive invariant counts: after shutdown() there are as many      *)
(* ShutdownRunnables in the queue as threads that have not exited, all of  *)
(* them behind the jobs, so that the first thread to exit finds no job     *)
(* left (Pilled).  And it says where each job is: on exactly one worker    *)
(* (OnWorkers), in the queue once, or in the hands of the thread that      *)
(* wakes it (InQueue).                                                     *)
(***************************************************************************)
EXTENDS CpuPoolExecutor, TLAPS

Busy == {"poll", "send", "wait", "complete"}
Alive == {w \in Workers : wpc[w] # "exited"}
Queued(j) == \E i \in 1..Len(q) : q[i] = j

\* The last n in the queue are ShutdownRunnables, and no others.  Jobs are before
\* them only as long as no worker has left.
Pills(n) ==
  /\ Len(q) >= n
  /\ \A i \in 1..Len(q) : q[i] = Pill <=> i > Len(q) - n
  /\ Alive # Workers => Len(q) = n

\* There are as many as there are workers to end.
Pilled ==
  /\ main = "run" <=> isRunning
  /\ main = "stopped" => Alive = {}
  /\ isRunning => Alive = Workers /\ \A i \in 1..Len(q) : q[i] # Pill
  /\ ~isRunning =>
       /\ \A w \in Workers : wpc[w] # "cv_wait"
       /\ \E n \in Nat : Numbered(Alive, n) /\ Pills(n)

\* Where the jobs are: on the workers, ...
OnWorkers ==
  /\ \A w \in Workers : wpc[w] \in Busy => cur[w] \in Jobs /\ phase[cur[w]] = "polling"
  /\ \A v, w \in Workers :
       wpc[v] \in Busy /\ wpc[w] \in Busy /\ cur[v] = cur[w] => v = w
  /\ \A j \in Jobs : phase[j] = "polling" => \E w \in Workers : wpc[w] \in Busy /\ cur[w] = j

\* ... in the queue, or with their setters.
InQueue ==
  /\ \A i \in 1..Len(q) : q[i] # Pill => phase[q[i]] = "scheduled"
  /\ \A i, k \in 1..Len(q) : q[i] # Pill /\ q[i] = q[k] => i = k
  /\ \A j \in Jobs : phase[j] = "scheduled" => Queued(j) \/ spc[j] = "execute"
  /\ \A j \in Jobs : spc[j] = "execute" => phase[j] = "scheduled" /\ ~Queued(j)
  /\ \A j \in Jobs : cpc[j] = "spawn" => phase[j] = "unspawned"

IInv == TypeOK /\ Pilled /\ QueueIsServed /\ OnWorkers /\ InQueue

-----------------------------------------------------------------------------
(* Channels *)

Chan(V) == [s : Statuses, v : V, rx : BOOLEAN]
InChan  == Chan({"none", "value"})
OutChan == Chan({"none", "value", "failed"})

\* A value gets in unless the receiver is gone.
LEMMA SendFacts ==
  ASSUME NEW V, NEW c \in Chan(V), NEW x \in V
  PROVE  /\ c.s = "Closed" => Send(c, x).s = "Closed" /\ Send(c, x).v = c.v
         /\ c.s # "Closed" => Send(c, x).s = "Ready" /\ Send(c, x).v = x
BY Zenon DEF Send, Chan, Statuses

\* What each operation does to the two fields that matter.
LEMMA ChannelFacts ==
  ASSUME NEW V, NEW c \in Chan(V), NEW x \in V
  PROVE  /\ c.s \in Statuses /\ c.v \in V
         /\ Send(c, x) \in Chan(V) /\ Cancel(c) \in Chan(V) /\ CloseSender(c) \in Chan(V)
         /\ CloseReceiver(c) \in Chan(V) /\ AfterPoll(c) \in Chan(V) /\ Notified(c) \in Chan(V)
         /\ Send(c, x).s = IF c.s = "Closed" THEN "Closed" ELSE "Ready"
         /\ Send(c, x).v = IF c.s = "Closed" THEN c.v ELSE x
         /\ Cancel(c).s = "Ready" /\ Cancel(c).v = c.v
         /\ CloseSender(c).s = (IF c.s = "NotReady" THEN "Closed" ELSE c.s) /\ CloseSender(c).v = c.v
         /\ CloseReceiver(c).s = "Closed" /\ CloseReceiver(c).v = c.v
         /\ AfterPoll(c).s = c.s /\ AfterPoll(c).v = c.v
         /\ Notified(c).s = c.s /\ Notified(c).v = c.v
<1> USE DEF Chan, Statuses
<1>1. Send(c, x) \in Chan(V) /\ Send(c, x).s = (IF c.s = "Closed" THEN "Closed" ELSE "Ready")
      /\ Send(c, x).v = IF c.s = "Closed" THEN c.v ELSE x
  BY Zenon DEF Send
<1>2. Cancel(c) \in Chan(V) /\ Cancel(c).s = "Ready" /\ Cancel(c).v = c.v
  BY Zenon DEF Cancel
<1>3. /\ CloseSender(c) \in Chan(V) /\ CloseSender(c).v = c.v
      /\ CloseSender(c).s = (IF c.s = "NotReady" THEN "Closed" ELSE c.s)
  BY Zenon DEF CloseSender
<1>4. CloseReceiver(c) \in Chan(V) /\ CloseReceiver(c).s = "Closed" /\ CloseReceiver(c).v = c.v
  BY Zenon DEF CloseReceiver
<1>5. AfterPoll(c) \in Chan(V) /\ AfterPoll(c).s = c.s /\ AfterPoll(c).v = c.v
  BY Zenon DEF AfterPoll
<1>6. Notified(c) \in Chan(V) /\ Notified(c).s = c.s /\ Notified(c).v = c.v
  BY Zenon DEF Notified
<1> QED
  BY <1>1, <1>2, <1>3, <1>4, <1>5, <1>6, Zenon

\* What poll() reports.
LEMMA PollFacts ==
  ASSUME NEW c, c.s \in Statuses
  PROVE  PollResult(c) = IF c.s = "Closed" THEN "cancelled"
                         ELSE IF c.s = "NotReady" THEN "not_ready"
                         ELSE IF c.v = "none" THEN "cancelled" ELSE c.v
BY Zenon DEF PollResult, Statuses

\* Giving the result's channel of job j the state c.
LEMMA ToClientFacts ==
  ASSUME TypeOK, NEW j \in Jobs, NEW c \in OutChan, ToClient(j, c)
  PROVE  /\ out' \in [Jobs -> OutChan] /\ ready' \in [Jobs -> BOOLEAN]
         /\ out'[j].s = c.s /\ out'[j].v = c.v
         /\ \A k \in Jobs : k # j => out'[k] = out[k]
<1>1. out \in [Jobs -> OutChan] /\ ready \in [Jobs -> BOOLEAN]
  BY Zenon DEF TypeOK, OutChan, Chan
<1>2. PICK d : /\ d \in OutChan /\ d.s = c.s /\ d.v = c.v
               /\ out' = [out EXCEPT ![j] = d]
  <2>1. CASE Unparks(out[j], c)
    <3>1. Notified(c) \in OutChan /\ Notified(c).s = c.s /\ Notified(c).v = c.v
      BY ChannelFacts DEF OutChan
    <3> QED
      BY <2>1, <3>1, Zenon DEF ToClient
  <2>2. CASE ~Unparks(out[j], c)
    BY <2>2, Zenon DEF ToClient
  <2> QED
    BY <2>1, <2>2, Zenon
<1>3. ready' \in [Jobs -> BOOLEAN]
  <2>1. Unparks(out[j], c) \in BOOLEAN
    BY <1>1, Zenon DEF Unparks
  <2> QED
    BY <1>1, <2>1, Zenon DEF ToClient
<1> QED
  BY <1>1, <1>2, <1>3, Zenon

-----------------------------------------------------------------------------
(* The queue *)

\* Taking the first Runnable.
LEMMA PopFacts ==
  ASSUME TypeOK, q # <<>>, q' = Tail(q)
  PROVE  /\ q' \in Seq(Jobs \cup {Pill})
         /\ Len(q) \in Nat /\ Len(q) >= 1 /\ Len(q') = Len(q) - 1
         /\ Head(q) = q[1] /\ q[1] \in Jobs \cup {Pill}
         /\ \A i \in 1..Len(q) - 1 : q'[i] = q[i + 1]
<1>1. q \in Seq(Jobs \cup {Pill})
  BY Zenon DEF TypeOK
<1>2. Len(q) \in Nat /\ Len(q) >= 1
  BY <1>1
<1> QED
  BY <1>1, <1>2

\* Adding a Runnable.
LEMMA PushFacts ==
  ASSUME TypeOK, NEW j \in Jobs, q' = Append(q, j)
  PROVE  /\ q' \in Seq(Jobs \cup {Pill})
         /\ Len(q) \in Nat /\ Len(q') = Len(q) + 1
         /\ q'[Len(q) + 1] = j
         /\ \A i \in 1..Len(q) : q'[i] = q[i]
<1>1. q \in Seq(Jobs \cup {Pill})
  BY Zenon DEF TypeOK
<1> QED
  BY <1>1

\* Adding the ShutdownRunnables.
LEMMA PillFacts ==
  ASSUME TypeOK, q' = WithPills
  PROVE  /\ q' \in Seq(Jobs \cup {Pill})
         /\ Len(q) \in Nat /\ NumThreads \in Nat
         /\ Len(q') = Len(q) + NumThreads
         /\ \A i \in 1..Len(q') : q'[i] = IF i <= Len(q) THEN q[i] ELSE Pill
<1> DEFINE n == NumThreads
           p == Times(n, Pill)
<1>1. n \in Nat
  BY ThreadsAssumption, Zenon
<1> HIDE DEF n
<1>2. p \in Seq(Jobs \cup {Pill}) /\ Len(p) = n /\ \A i \in 1..n : p[i] = Pill
  BY <1>1 DEF Times
<1>3. q \in Seq(Jobs \cup {Pill}) /\ Len(q) \in Nat
  BY DEF TypeOK
<1>4. q' = q \o p
  BY Zenon DEF WithPills, n
<1> HIDE DEF p
<1>5. /\ q' \in Seq(Jobs \cup {Pill}) /\ Len(q') = Len(q) + Len(p)
      /\ \A i \in 1..Len(q) + Len(p) : q'[i] = IF i <= Len(q) THEN q[i] ELSE p[i - Len(q)]
  <2>1. /\ q \o p \in Seq(Jobs \cup {Pill}) /\ Len(q \o p) = Len(q) + Len(p)
        /\ \A i \in 1..Len(q) + Len(p) : (q \o p)[i] = IF i <= Len(q) THEN q[i] ELSE p[i - Len(q)]
    BY <1>2, <1>3
  <2> QED
    BY <1>4, <2>1, Zenon
<1>6. \A i \in 1..Len(q') : q'[i] = IF i <= Len(q) THEN q[i] ELSE Pill
  <2> SUFFICES ASSUME NEW i \in 1..Len(q) + n PROVE q'[i] = IF i <= Len(q) THEN q[i] ELSE Pill
    BY <1>2, <1>5, Zenon
  <2>1. q'[i] = IF i <= Len(q) THEN q[i] ELSE p[i - Len(q)]
    BY <1>2, <1>5, Zenon
  <2>2. ~(i <= Len(q)) => i - Len(q) \in 1..n
    BY <1>1, <1>3
  <2>3. ~(i <= Len(q)) => p[i - Len(q)] = Pill
    BY <1>2, <2>2, Zenon
  <2> QED
    BY <2>1, <2>3, Zenon
<1> QED
  BY <1>1, <1>2, <1>3, <1>5, <1>6, Zenon DEF n

\* A push wakes a worker, if one waits.
LEMMA PushWakes ==
  ASSUME TypeOK, NEW j \in Jobs, Push(j)
  PROVE  \/ wpc' = wpc /\ \A w \in Workers : wpc[w] # "cv_wait"
         \/ \E w \in Workers : wpc[w] = "cv_wait" /\ wpc' = [wpc EXCEPT ![w] = "loop"]
BY Zenon DEF Push, CvWaiters

\* And it leaves the workers in places they can be in.
LEMMA PushTypes ==
  ASSUME TypeOK, NEW j \in Jobs, Push(j)
  PROVE  wpc' \in [Workers -> {"loop", "cv_wait", "poll", "send", "wait", "complete", "exited"}]
<1>1. CASE wpc' = wpc
  BY <1>1, Zenon DEF TypeOK
<1>2. ASSUME NEW w \in Workers, wpc' = [wpc EXCEPT ![w] = "loop"]
      PROVE  wpc' \in [Workers -> {"loop", "cv_wait", "poll", "send", "wait", "complete", "exited"}]
  BY <1>2, Zenon DEF TypeOK
<1> QED
  BY <1>1, <1>2, PushWakes, Zenon

-----------------------------------------------------------------------------
(* Types *)

LEMMA TypeOKStep == IInv /\ [Next]_vars => TypeOK'
<1> SUFFICES ASSUME IInv, [Next]_vars PROVE TypeOK'
  OBVIOUS
<1>0. TypeOK /\ OnWorkers
  BY Zenon DEF IInv
<1>00. \A j \in Jobs : inp[j] \in InChan /\ out[j] \in OutChan
  BY <1>0, Zenon DEF TypeOK, InChan, OutChan, Chan
<1>01. ASSUME NEW j \in Jobs
       PROVE  /\ AfterPoll(inp[j]) \in InChan /\ CloseReceiver(inp[j]) \in InChan
              /\ Send(inp[j], "value") \in InChan /\ Cancel(inp[j]) \in InChan
              /\ CloseSender(inp[j]) \in InChan /\ Notified(inp[j]) \in InChan
              /\ AfterPoll(out[j]) \in OutChan /\ CloseReceiver(out[j]) \in OutChan
              /\ Send(out[j], "value") \in OutChan /\ Send(out[j], "failed") \in OutChan
              /\ CloseSender(out[j]) \in OutChan
  <2>1. inp[j] \in InChan /\ out[j] \in OutChan
    BY <1>00, Zenon
  <2>2. /\ AfterPoll(inp[j]) \in InChan /\ CloseReceiver(inp[j]) \in InChan
        /\ Send(inp[j], "value") \in InChan /\ Cancel(inp[j]) \in InChan
        /\ CloseSender(inp[j]) \in InChan /\ Notified(inp[j]) \in InChan
    BY <2>1, ChannelFacts, Zenon DEF InChan
  <2>3. /\ AfterPoll(out[j]) \in OutChan /\ CloseReceiver(out[j]) \in OutChan
        /\ Send(out[j], "value") \in OutChan /\ Send(out[j], "failed") \in OutChan
        /\ CloseSender(out[j]) \in OutChan
    BY <2>1, ChannelFacts, Zenon DEF OutChan
  <2> QED
    BY <2>2, <2>3, Zenon
<1>02. InChan = [s : Statuses, v : {"none", "value"}, rx : BOOLEAN]
       /\ OutChan = [s : Statuses, v : {"none", "value", "failed"}, rx : BOOLEAN]
  BY Zenon DEF InChan, OutChan, Chan
<1>03. inp \in [Jobs -> InChan] /\ out \in [Jobs -> OutChan]
  BY <1>0, <1>02, Zenon DEF TypeOK
<1> USE <1>0
<1> DEFINE Wpc == [Workers -> {"loop", "cv_wait", "poll", "send", "wait", "complete", "exited"}]
<1>1. ASSUME NEW w \in Workers, WorkerWait(w) \/ SpuriousWakeup(w) PROVE TypeOK'
  <2>1. UNCHANGED <<q, isRunning, main, cur, phase, woken, inp, held, out, spc, cpc, ready, res>>
    BY <1>1, Zenon DEF WorkerWait, SpuriousWakeup, poolVars, taskVars, clientVars
  <2>2. \E l \in {"cv_wait", "loop"} : wpc' = [wpc EXCEPT ![w] = l]
    BY <1>1, Zenon DEF WorkerWait, SpuriousWakeup
  <2>3. wpc' \in Wpc
    BY <2>2, Zenon DEF TypeOK
  <2> QED
    BY <2>1, <2>3, Zenon DEF TypeOK
<1>2. ASSUME NEW w \in Workers, WorkerExit(w) PROVE TypeOK'
  <2>1. q' \in Seq(Jobs \cup {Pill})
    BY <1>2, PopFacts, Zenon DEF WorkerExit
  <2> QED
    BY <1>2, <2>1, Zenon DEF WorkerExit, TypeOK, taskVars, clientVars
<1>3. ASSUME NEW w \in Workers, WorkerPop(w) PROVE TypeOK'
  <2>1. q' \in Seq(Jobs \cup {Pill}) /\ Head(q) \in Jobs
    BY <1>3, PopFacts, Zenon DEF WorkerPop
  <2>2. woken' \in [Jobs -> BOOLEAN]
    BY <1>3, Zenon DEF WorkerPop, TypeOK
  <2> QED
    BY <1>3, <2>1, <2>2, Zenon DEF WorkerPop, TypeOK, clientVars
<1>4. ASSUME NEW w \in Workers, Poll(w) PROVE TypeOK'
  <2>1. cur[w] \in Jobs
    BY <1>4, Zenon DEF Poll, OnWorkers, Busy
  <2>2. inp' \in [Jobs -> InChan]
    BY <1>4, <1>00, <1>01, <2>1, Zenon DEF Poll, TypeOK
  <2> QED
    BY <1>4, <1>02, <2>2, Zenon DEF Poll, TypeOK, poolVars, taskVars, clientVars
<1>5. ASSUME NEW w \in Workers, SendResult(w) PROVE TypeOK'
  <2>1. cur[w] \in Jobs
    BY <1>5, Zenon DEF SendResult, OnWorkers, Busy
  <2>2. out' \in [Jobs -> OutChan] /\ ready' \in [Jobs -> BOOLEAN]
    BY <1>5, <1>01, <2>1, ToClientFacts, Zenon DEF SendResult
  <2> QED
    BY <1>5, <1>02, <2>2, Zenon DEF SendResult, AfterSend, TypeOK, poolVars, taskVars
<1>6. ASSUME NEW w \in Workers, Wait(w) PROVE TypeOK'
  <2>1. cur[w] \in Jobs
    BY <1>6, Zenon DEF Wait, OnWorkers, Busy
  <2>2. UNCHANGED <<q, isRunning, main, inp, held, out, spc, cpc, ready, res>>
    BY <1>6, Zenon DEF Wait, poolVars, clientVars
  <2>3. woken' \in [Jobs -> BOOLEAN]
    BY <1>6, Zenon DEF Wait, TypeOK
  <2>4. CASE Repolls(cur[w])
    <3>1. wpc' = [wpc EXCEPT ![w] = "poll"] /\ UNCHANGED <<phase, cur>>
      BY <1>6, <2>4, Zenon DEF Wait
    <3> QED
      BY <2>2, <2>3, <3>1, Zenon DEF TypeOK
  <2>5. CASE ~Repolls(cur[w])
    <3>1. /\ wpc' = [wpc EXCEPT ![w] = "loop"] /\ cur' = [cur EXCEPT ![w] = Idle]
          /\ phase' = [phase EXCEPT ![cur[w]] = "waiting"]
      BY <1>6, <2>5, Zenon DEF Wait
    <3> QED
      BY <2>1, <2>2, <2>3, <3>1, Zenon DEF TypeOK
  <2> QED
    BY <2>4, <2>5, Zenon
<1>7. ASSUME NEW w \in Workers, Complete(w) PROVE TypeOK'
  <2>1. cur[w] \in Jobs
    BY <1>7, Zenon DEF Complete, OnWorkers, Busy
  <2>2. out' \in [Jobs -> OutChan] /\ ready' \in [Jobs -> BOOLEAN]
    BY <1>7, <1>01, <2>1, ToClientFacts, Zenon DEF Complete
  <2>3. inp' \in [Jobs -> InChan]
    BY <1>7, <1>00, <1>01, <2>1, Zenon DEF Complete, TypeOK
  <2> QED
    BY <1>7, <1>02, <2>2, <2>3, Zenon DEF Complete, TypeOK, poolVars
<1>8. ASSUME NEW j \in Jobs, Set(j) PROVE TypeOK'
  <2>1. PICK c \in InChan : /\ inp' = [inp EXCEPT ![j] = c]
                            /\ held' = [held EXCEPT ![j] = Unparks(inp[j], c)]
    BY <1>8, <1>01, Zenon DEF Set
  <2>2. Unparks(inp[j], c) \in BOOLEAN
    BY <1>00, Zenon DEF Unparks, InChan, Chan
  <2>3. held' \in [Jobs -> BOOLEAN] /\ inp' \in [Jobs -> InChan]
    BY <1>00, <2>1, <2>2, Zenon DEF TypeOK
  <2>4. spc' \in [Jobs -> {"set", "unpark", "execute", "drop", "blocked", "unlock", "end"}]
    BY <1>8 DEF Set, TypeOK
  <2> QED
    BY <1>8, <1>02, <2>3, <2>4, Zenon DEF Set, TypeOK, poolVars, workerVars, taskVars, clientVars
<1>9. ASSUME NEW j \in Jobs, Unpark(j) PROVE TypeOK'
  <2>1. woken' \in [Jobs -> BOOLEAN]
    BY <1>9, Zenon DEF Unpark, TypeOK
  <2> QED
    BY <1>9, <2>1, Zenon DEF Unpark, TypeOK, poolVars, workerVars, clientVars
<1>10. ASSUME NEW j \in Jobs, Execute(j) PROVE TypeOK'
  <2>1. CASE isRunning
    <3>1. Push(j)
      BY <1>10, <2>1, Zenon DEF Execute
    <3>2. q' \in Seq(Jobs \cup {Pill})
      BY <3>1, PushFacts, Zenon DEF Push
    <3>3. wpc' \in Wpc
      BY <3>1, PushTypes, Zenon
    <3>4. /\ spc' = [spc EXCEPT ![j] = "unlock"]
          /\ UNCHANGED <<isRunning, main, cur, phase, woken, inp, held, out, cpc, ready, res>>
      BY <1>10, <2>1, Zenon DEF Execute
    <3> QED
      BY <3>2, <3>3, <3>4, Zenon DEF TypeOK
  <2>2. CASE ~isRunning
    <3>1. out' \in [Jobs -> OutChan] /\ ready' \in [Jobs -> BOOLEAN]
      BY <1>10, <1>01, <2>2, ToClientFacts, Zenon DEF Execute
    <3>2. /\ phase' = [phase EXCEPT ![j] = "dropped"] /\ spc' = [spc EXCEPT ![j] = "drop"]
          /\ UNCHANGED <<q, wpc, isRunning, main, cur, woken, inp, held, cpc, res>>
      BY <1>10, <2>2, Zenon DEF Execute
    <3> QED
      BY <1>02, <3>1, <3>2, Zenon DEF TypeOK
  <2> QED
    BY <2>1, <2>2, Zenon
<1>11. ASSUME NEW j \in Jobs, DropReceiver(j) \/ Unlock(j) PROVE TypeOK'
  <2>1. /\ inp' \in [Jobs -> InChan]
        /\ spc' \in [Jobs -> {"set", "unpark", "execute", "drop", "blocked", "unlock", "end"}]
    <3>1. CASE DropReceiver(j) /\ held[j]
      <4>1. inp' = inp /\ spc' = [spc EXCEPT ![j] = "blocked"]
        BY <3>1, Zenon DEF DropReceiver
      <4> QED
        BY <1>03, <4>1, Zenon DEF TypeOK
    <3>2. CASE DropReceiver(j) /\ ~held[j]
      <4>1. /\ inp' = [inp EXCEPT ![j] = CloseReceiver(inp[j])]
            /\ spc' = [spc EXCEPT ![j] = "unlock"]
        BY <3>2, Zenon DEF DropReceiver
      <4> QED
        BY <1>01, <1>03, <4>1, Zenon DEF TypeOK
    <3>3. CASE Unlock(j)
      BY <1>01, <1>03, <3>3, Zenon DEF Unlock, TypeOK
    <3> QED
      BY <1>11, <3>1, <3>2, <3>3, Zenon
  <2>2. held' \in [Jobs -> BOOLEAN]
    <3>1. held' = held \/ held' = [held EXCEPT ![j] = FALSE]
      BY <1>11, Zenon DEF DropReceiver, Unlock
    <3> QED
      BY <3>1, Zenon DEF TypeOK
  <2>3. UNCHANGED <<q, isRunning, main, wpc, cur, phase, woken, out, cpc, ready, res>>
    BY <1>11, Zenon DEF DropReceiver, Unlock, poolVars, workerVars, taskVars, clientVars
  <2> QED
    BY <1>02, <2>1, <2>2, <2>3, Zenon DEF TypeOK
<1>12. ASSUME NEW j \in Jobs, Spawn(j) PROVE TypeOK'
  <2>1. CASE isRunning
    <3>1. Push(j)
      BY <1>12, <2>1, Zenon DEF Spawn
    <3>2. q' \in Seq(Jobs \cup {Pill})
      BY <3>1, PushFacts, Zenon DEF Push
    <3>3. wpc' \in Wpc
      BY <3>1, PushTypes, Zenon
    <3>4. /\ phase' = [phase EXCEPT ![j] = "scheduled"] /\ cpc' = [cpc EXCEPT ![j] = "poll"]
          /\ UNCHANGED <<isRunning, main, cur, woken, inp, held, out, spc, ready, res>>
      BY <1>12, <2>1, Zenon DEF Spawn
    <3> QED
      BY <3>2, <3>3, <3>4, Zenon DEF TypeOK
  <2>2. CASE ~isRunning
    <3>1. out' \in [Jobs -> OutChan] /\ inp' \in [Jobs -> InChan]
      BY <1>12, <1>01, <1>03, <2>2, Zenon DEF Spawn
    <3> QED
      BY <1>12, <1>02, <2>2, <3>1, SMTT(30) DEF Spawn, TypeOK
  <2> QED
    BY <2>1, <2>2, Zenon
<1>13. ASSUME NEW j \in Jobs, ClientPoll(j) PROVE TypeOK'
  <2>1. out' \in [Jobs -> OutChan]
    BY <1>13, <1>00, <1>01, Zenon DEF ClientPoll, TypeOK
  <2>2. PollResult(out[j]) \in {"value", "failed", "cancelled", "not_ready"}
    BY <1>00, PollFacts DEF OutChan, Chan, Statuses
  <2>3. res' \in [Jobs -> {"none", "value", "failed", "cancelled", "abandoned"}]
    <3>1. \/ res' = res
          \/ PollResult(out[j]) # "not_ready" /\ res' = [res EXCEPT ![j] = PollResult(out[j])]
      BY <1>13, Zenon DEF ClientPoll
    <3>2. res \in [Jobs -> {"none", "value", "failed", "cancelled", "abandoned"}]
      BY Zenon DEF TypeOK
    <3> QED
      BY <2>2, <3>1, <3>2, Zenon
  <2>4. cpc' \in [Jobs -> {"spawn", "poll", "park", "end"}]
    <3>1. PICK l \in {"park", "end"} : cpc' = [cpc EXCEPT ![j] = l]
      BY <1>13, Zenon DEF ClientPoll
    <3> QED
      BY <3>1, Zenon DEF TypeOK
  <2>5. UNCHANGED <<q, isRunning, main, wpc, cur, phase, woken, inp, held, spc, ready>>
    BY <1>13, Zenon DEF ClientPoll, poolVars, workerVars, taskVars
  <2> QED
    BY <1>02, <2>1, <2>3, <2>4, <2>5, Zenon DEF TypeOK
<1>14. ASSUME NEW j \in Jobs, ClientUnparked(j) PROVE TypeOK'
  BY <1>14, Zenon DEF ClientUnparked, TypeOK, poolVars, workerVars, taskVars
<1>15. ASSUME NEW j \in Jobs, ClientDrop(j) PROVE TypeOK'
  <2>1. out' \in [Jobs -> OutChan]
    BY <1>15, <1>00, <1>01, Zenon DEF ClientDrop, TypeOK
  <2> QED
    BY <1>15, <1>02, <2>1, Zenon DEF ClientDrop, TypeOK, poolVars, workerVars, taskVars
<1>16. ASSUME Stop PROVE TypeOK'
  <2>1. q' \in Seq(Jobs \cup {Pill})
    BY <1>16, PillFacts, Zenon DEF Stop
  <2>2. wpc' \in Wpc
    BY <1>16, Zenon DEF Stop, TypeOK
  <2>3. /\ isRunning' \in BOOLEAN /\ main' = "join"
        /\ UNCHANGED <<cur, phase, woken, inp, held, out, spc, cpc, ready, res>>
    BY <1>16, Zenon DEF Stop, taskVars, clientVars
  <2> QED
    BY <2>1, <2>2, <2>3, Zenon DEF TypeOK
<1>17. ASSUME Join \/ UNCHANGED vars PROVE TypeOK'
  BY <1>17 DEF Join, vars, TypeOK, workerVars, taskVars, clientVars
<1> QED
  BY <1>1, <1>2, <1>3, <1>4, <1>5, <1>6, <1>7, <1>8, <1>9, <1>10, <1>11, <1>12, <1>13,
     <1>14, <1>15, <1>16, <1>17, Zenon DEF Next, WorkerStep, SetterStep, ClientStep

-----------------------------------------------------------------------------
(* The workers and the ShutdownRunnables *)

\* Only the empty set has no member.
LEMMA NoneNumbered ==
  ASSUME NEW S, NEW n \in Nat, Numbered(S, n)
  PROVE  n = 0 <=> S = {}
<1>1. PICK f \in [1..n -> S] : Once(f) /\ Elems(f) = S
  BY Zenon DEF Numbered
<1> QED
  BY <1>1 DEF Elems

\* A member less: the last of the list takes its place.
LEMMA OneLessNumbered ==
  ASSUME NEW S, NEW n \in Nat, Numbered(S, n), NEW x \in S
  PROVE  n > 0 /\ Numbered(S \ {x}, n - 1)
<1>1. PICK f \in [1..n -> S] : Once(f) /\ Elems(f) = S
  BY Zenon DEF Numbered
<1>2. Len(f) = n
  OBVIOUS
<1>3. PICK k \in 1..n : f[k] = x
  BY <1>1, <1>2, Zenon DEF Elems
<1> DEFINE g == [i \in 1..n - 1 |-> IF i = k THEN f[n] ELSE f[i]]
<1>4. n > 0 /\ Len(g) = n - 1 /\ g \in [1..n - 1 -> S \ {x}]
  BY <1>1, <1>2, <1>3 DEF Once
<1>5. Once(g)
  BY <1>1, <1>2, <1>4 DEF Once
<1>6. ASSUME NEW y \in S \ {x} PROVE y \in Elems(g)
  <2>1. PICK i \in 1..n : f[i] = y
    BY <1>1, <1>2, Zenon DEF Elems
  <2>2. \E j \in 1..Len(g) : g[j] = y
    <3>1. CASE i = n
      BY <1>3, <1>4, <2>1, <3>1
    <3>2. CASE i # n
      BY <1>3, <1>4, <2>1, <3>2
    <3> QED
      BY <3>1, <3>2, Zenon
  <2> QED
    BY <2>2, Zenon DEF Elems
<1>7. Elems(g) \subseteq S \ {x}
  BY <1>4, Zenon DEF Elems
<1> QED
  BY <1>4, <1>5, <1>6, <1>7, Zenon DEF Numbered

\* The pool starts with num_threads workers.
LEMMA AllNumbered == Numbered(Workers, NumThreads)
<1> DEFINE f == [i \in 1..NumThreads |-> i]
<1>1. NumThreads \in Nat /\ f \in [1..NumThreads -> Workers] /\ Len(f) = NumThreads
  BY ThreadsAssumption DEF Workers
<1>2. Once(f)
  BY <1>1, Zenon DEF Once
<1>3. Elems(f) = Workers
  BY <1>1, Zenon DEF Elems, Workers
<1> QED
  BY <1>1, <1>2, <1>3, Zenon DEF Numbered

\* A worker that is neither waiting for a notification nor on its way out or in
\* does not disturb the counting.
LEMMA PilledFrame ==
  ASSUME Pilled, QueueIsServed, UNCHANGED <<q, isRunning, main>>,
         \A w \in Workers : /\ wpc'[w] = "exited" <=> wpc[w] = "exited"
                            /\ wpc'[w] = "cv_wait" => wpc[w] = "cv_wait"
  PROVE  Pilled' /\ QueueIsServed'
<1>1. Alive' = Alive
  BY Zenon DEF Alive
<1>2. QueueIsServed'
  BY Zenon DEF QueueIsServed
<1> QED
  BY <1>1, <1>2, Zenon DEF Pilled, Pills

LEMMA PilledStep == IInv /\ [Next]_vars => Pilled' /\ QueueIsServed'
<1> SUFFICES ASSUME IInv, [Next]_vars PROVE Pilled' /\ QueueIsServed'
  OBVIOUS
<1>0. TypeOK /\ Pilled /\ QueueIsServed
  BY Zenon DEF IInv
<1>00. Len(q) \in Nat /\ (q = <<>> <=> Len(q) = 0)
  BY <1>0 DEF TypeOK
<1>1. ASSUME NEW w \in Workers, WorkerWait(w) PROVE Pilled' /\ QueueIsServed'
  <2>1. w \in Alive /\ q' = q /\ isRunning' = isRunning /\ main' = main
        /\ wpc' = [wpc EXCEPT ![w] = "cv_wait"] /\ q = <<>>
    BY <1>1, Zenon DEF WorkerWait, Alive, poolVars
  <2>2. ASSUME ~isRunning PROVE FALSE
    <3>1. PICK n \in Nat : Numbered(Alive, n) /\ Pills(n)
      BY <1>0, <2>2, Zenon DEF Pilled
    <3>2. n = 0
      BY <1>00, <2>1, <3>1 DEF Pills
    <3> QED
      BY <2>1, <3>1, <3>2, NoneNumbered, Zenon
  <2>3. Alive' = Alive
    BY <1>0, <2>1, Zenon DEF Alive, TypeOK
  <2> QED
    BY <1>0, <2>1, <2>2, <2>3, Zenon DEF Pilled, QueueIsServed
<1>2. ASSUME NEW w \in Workers, SpuriousWakeup(w) \/ Poll(w) \/ SendResult(w) \/ Wait(w) \/ Complete(w)
      PROVE  Pilled' /\ QueueIsServed'
  <2>1. UNCHANGED <<q, isRunning, main>>
    BY <1>2, Zenon DEF SpuriousWakeup, Poll, SendResult, Wait, Complete, poolVars
  <2>2. /\ wpc[w] # "exited"
        /\ \E l \in {"loop", "poll", "wait", "send", "complete"} : wpc' = [wpc EXCEPT ![w] = l]
    <3>1. CASE SpuriousWakeup(w) \/ Poll(w)
      BY <3>1, Zenon DEF SpuriousWakeup, Poll
    <3>2. CASE SendResult(w) \/ Wait(w) \/ Complete(w)
      BY <3>2, Zenon DEF SendResult, Wait, Complete, AfterSend
    <3> QED
      BY <1>2, <3>1, <3>2, Zenon
  <2>3. \A v \in Workers : /\ wpc'[v] = "exited" <=> wpc[v] = "exited"
                           /\ wpc'[v] = "cv_wait" => wpc[v] = "cv_wait"
    BY <1>0, <2>2, Zenon DEF TypeOK
  <2> QED
    BY <1>0, <2>1, <2>3, PilledFrame, Zenon
<1>3. ASSUME NEW w \in Workers, WorkerExit(w) PROVE Pilled' /\ QueueIsServed'
  <2>1. /\ UNCHANGED <<isRunning, main>> /\ wpc' = [wpc EXCEPT ![w] = "exited"]
        /\ q # <<>> /\ q' = Tail(q) /\ Head(q) = Pill /\ wpc[w] = "loop"
    BY <1>3, Zenon DEF WorkerExit
  <2>2. /\ Len(q) >= 1 /\ Len(q') = Len(q) - 1 /\ q[1] = Pill
        /\ \A i \in 1..Len(q) - 1 : q'[i] = q[i + 1]
    BY <1>0, <2>1, PopFacts, Zenon
  <2>3. Alive' = Alive \ {w} /\ w \in Alive
    BY <1>0, <2>1, Zenon DEF Alive, TypeOK
  <2>4. ~isRunning
    BY <1>0, <1>00, <2>2 DEF Pilled
  <2>5. PICK n \in Nat : Numbered(Alive, n) /\ Pills(n)
    BY <1>0, <2>4, Zenon DEF Pilled
  <2>6. n > 0 /\ Numbered(Alive', n - 1)
    BY <2>3, <2>5, OneLessNumbered, Zenon
  <2>7. Pills(n - 1)' /\ Len(q') = n - 1
    <3>1. Len(q) = n
      BY <1>00, <2>2, <2>5 DEF Pills
    <3>2. ASSUME NEW i \in 1..Len(q') PROVE q'[i] = Pill
      <4>1. i \in 1..Len(q) - 1 /\ i + 1 \in 1..Len(q) /\ i + 1 > Len(q) - n
        BY <2>2, <3>1
      <4> QED
        BY <2>2, <2>5, <4>1, Zenon DEF Pills
    <3> QED
      BY <2>2, <3>1, <3>2 DEF Pills
  <2>8. \A v \in Workers : wpc'[v] # "cv_wait"
    BY <1>0, <2>1, <2>4, Zenon DEF Pilled, TypeOK
  <2>9. main = "stopped" => Alive' = {}
    BY <1>0, <2>3, Zenon DEF Pilled
  <2>10. Pilled'
    BY <1>0, <2>1, <2>4, <2>6, <2>7, <2>8, <2>9 DEF Pilled
  <2>11. QueueIsServed'
    <3> SUFFICES ASSUME q' # <<>> PROVE \E v \in Workers : wpc'[v] \notin {"cv_wait", "exited"}
      BY Zenon DEF QueueIsServed
    <3>1. Len(q') # 0
      BY <1>0, <2>1, PopFacts
    <3>2. Alive' # {}
      BY <2>6, <2>7, <3>1, NoneNumbered
    <3> QED
      BY <2>8, <3>2, Zenon DEF Alive
  <2> QED
    BY <2>10, <2>11, Zenon
<1>4. ASSUME NEW w \in Workers, WorkerPop(w) PROVE Pilled' /\ QueueIsServed'
  <2>1. /\ UNCHANGED <<isRunning, main>> /\ wpc' = [wpc EXCEPT ![w] = "poll"]
        /\ q # <<>> /\ q' = Tail(q) /\ Head(q) # Pill /\ wpc[w] = "loop"
    BY <1>4, Zenon DEF WorkerPop
  <2>2. /\ Len(q) >= 1 /\ Len(q') = Len(q) - 1 /\ q[1] # Pill
        /\ \A i \in 1..Len(q) - 1 : q'[i] = q[i + 1]
    BY <1>0, <2>1, PopFacts, Zenon
  <2>3. Alive' = Alive
    BY <1>0, <2>1, Zenon DEF Alive, TypeOK
  <2>4. QueueIsServed'
    BY <1>0, <2>1 DEF QueueIsServed, TypeOK
  <2>5. \A v \in Workers : wpc'[v] = "cv_wait" => wpc[v] = "cv_wait"
    BY <1>0, <2>1, Zenon DEF TypeOK
  <2>6. \A i \in 1..Len(q') : i + 1 \in 1..Len(q) /\ q'[i] = q[i + 1]
    BY <1>00, <2>2
  <2>7. CASE isRunning
    BY <1>0, <2>1, <2>3, <2>4, <2>6, <2>7, Zenon DEF Pilled
  <2>8. CASE ~isRunning
    <3>1. PICK n \in Nat : Numbered(Alive, n) /\ Pills(n)
      BY <1>0, <2>8, Zenon DEF Pilled
    <3>2. Len(q) - 1 >= n
      BY <1>00, <2>2, <3>1 DEF Pills
    <3>3. ASSUME NEW i \in 1..Len(q') PROVE q'[i] = Pill <=> i > Len(q') - n
      <4>1. q[i + 1] = Pill <=> i + 1 > Len(q) - n
        BY <2>6, <3>1, Zenon DEF Pills
      <4>2. i + 1 > Len(q) - n <=> i > Len(q') - n
        BY <1>00, <2>2
      <4> QED
        BY <2>6, <4>1, <4>2, Zenon
    <3>4. Alive = Workers
      BY <1>00, <3>1, <3>2 DEF Pills
    <3>5. Pills(n)'
      BY <2>2, <2>3, <3>2, <3>3, <3>4, Zenon DEF Pills
    <3> QED
      BY <1>0, <2>1, <2>3, <2>4, <2>5, <2>8, <3>1, <3>4, <3>5, Zenon DEF Pilled
  <2> QED
    BY <2>7, <2>8, Zenon
<1>5. ASSUME NEW j \in Jobs, isRunning, Push(j), UNCHANGED <<isRunning, main>>
      PROVE  Pilled' /\ QueueIsServed'
  <2>1. /\ Len(q') = Len(q) + 1 /\ q'[Len(q) + 1] = j
        /\ \A i \in 1..Len(q) : q'[i] = q[i]
    BY <1>0, <1>5, PushFacts, Zenon DEF Push
  <2>2. \A i \in 1..Len(q') : q'[i] # Pill
    <3> SUFFICES ASSUME NEW i \in 1..Len(q') PROVE q'[i] # Pill
      OBVIOUS
    <3>1. i = Len(q) + 1 \/ i \in 1..Len(q)
      BY <1>00, <2>1
    <3> QED
      BY <1>0, <1>5, <2>1, <3>1, JobsAssumption, Zenon DEF Pilled
  <2>3. \A w \in Workers : wpc'[w] # "exited" /\ wpc[w] # "exited"
    BY <1>0, <1>5, PushWakes DEF Pilled, Alive, TypeOK
  <2>4. \E w \in Workers : wpc'[w] # "cv_wait"
    <3>1. CASE wpc' = wpc /\ \A w \in Workers : wpc[w] # "cv_wait"
      BY <3>1, ThreadsAssumption DEF Workers
    <3>2. ASSUME NEW w \in Workers, wpc' = [wpc EXCEPT ![w] = "loop"] PROVE wpc'[w] # "cv_wait"
      BY <1>0, <3>2, Zenon DEF TypeOK
    <3> QED
      BY <1>0, <1>5, <3>1, <3>2, PushWakes, Zenon
  <2>5. Alive' = Alive
    BY <2>3, Zenon DEF Alive
  <2> QED
    BY <1>0, <1>5, <2>2, <2>3, <2>4, <2>5, Zenon DEF Pilled, QueueIsServed
<1>6. ASSUME NEW j \in Jobs, Execute(j) \/ Spawn(j) PROVE Pilled' /\ QueueIsServed'
  <2>1. UNCHANGED <<isRunning, main>>
    BY <1>6, Zenon DEF Execute, Spawn
  <2>2. CASE isRunning
    BY <1>5, <1>6, <2>1, <2>2, Zenon DEF Execute, Spawn
  <2>3. CASE ~isRunning
    BY <1>0, <1>6, <2>1, <2>3, PilledFrame, Zenon DEF Execute, Spawn
  <2> QED
    BY <2>2, <2>3, Zenon
<1>7. ASSUME NEW j \in Jobs,
             \/ Set(j) \/ Unpark(j) \/ DropReceiver(j) \/ Unlock(j)
             \/ ClientPoll(j) \/ ClientUnparked(j) \/ ClientDrop(j)
      PROVE  Pilled' /\ QueueIsServed'
  <2>1. UNCHANGED <<q, isRunning, main, wpc>>
    BY <1>7, Zenon DEF Set, Unpark, DropReceiver, Unlock, ClientPoll, ClientUnparked, ClientDrop,
                poolVars, workerVars
  <2> QED
    BY <1>0, <2>1, PilledFrame, Zenon
<1>8. ASSUME Stop PROVE Pilled' /\ QueueIsServed'
  <2>1. /\ isRunning /\ isRunning' = FALSE /\ main' = "join" /\ q' = WithPills
        /\ wpc' = [w \in Workers |-> IF wpc[w] = "cv_wait" THEN "loop" ELSE wpc[w]]
    BY <1>8, Zenon DEF Stop
  <2>2. Alive = Workers /\ \A i \in 1..Len(q) : q[i] # Pill
    BY <1>0, <2>1, Zenon DEF Pilled
  <2>3. Alive' = Workers
    BY <2>1, <2>2, Zenon DEF Alive
  <2>4. /\ NumThreads \in Nat /\ Len(q') = Len(q) + NumThreads
        /\ \A i \in 1..Len(q') : q'[i] = IF i <= Len(q) THEN q[i] ELSE Pill
    BY <1>0, <2>1, PillFacts, Zenon
  <2>5. Pills(NumThreads)'
    BY <1>00, <2>2, <2>3, <2>4 DEF Pills
  <2>6. \A w \in Workers : wpc'[w] # "cv_wait" /\ wpc'[w] # "exited"
    BY <2>1, <2>2, Zenon DEF Alive
  <2>7. Pilled'
    BY <2>1, <2>2, <2>3, <2>4, <2>5, <2>6, AllNumbered, Zenon DEF Pilled
  <2> QED
    BY <2>6, <2>7, ThreadsAssumption DEF QueueIsServed, Workers
<1>9. ASSUME Join PROVE Pilled' /\ QueueIsServed'
  <2>1. UNCHANGED <<q, isRunning, wpc>> /\ main = "join" /\ main' = "stopped" /\ Alive = {}
    BY <1>9, Zenon DEF Join, workerVars, Alive
  <2>2. Alive' = Alive
    BY <2>1, Zenon DEF Alive
  <2> QED
    BY <1>0, <2>1, <2>2, Zenon DEF Pilled, Pills, QueueIsServed
<1>10. ASSUME UNCHANGED vars PROVE Pilled' /\ QueueIsServed'
  BY <1>0, <1>10, PilledFrame, Zenon DEF vars
<1> QED
  BY <1>1, <1>2, <1>3, <1>4, <1>6, <1>7, <1>8, <1>9, <1>10, Zenon
  DEF Next, WorkerStep, SetterStep, ClientStep

-----------------------------------------------------------------------------
(* Where the jobs are *)

\* Workers that are not busy come and go, and jobs that are not polled change.
LEMMA OnWorkersFrame ==
  ASSUME TypeOK, OnWorkers, cur' = cur,
         \A w \in Workers : wpc'[w] \in Busy <=> wpc[w] \in Busy,
         \A j \in Jobs : phase'[j] = "polling" <=> phase[j] = "polling"
  PROVE  OnWorkers'
BY Zenon DEF OnWorkers

LEMMA OnWorkersStep == IInv /\ [Next]_vars => OnWorkers'
<1> SUFFICES ASSUME IInv, [Next]_vars PROVE OnWorkers'
  OBVIOUS
<1>0. TypeOK /\ OnWorkers /\ InQueue
  BY Zenon DEF IInv
<1>1. ASSUME NEW w \in Workers, WorkerWait(w) \/ SpuriousWakeup(w) \/ WorkerExit(w)
      PROVE  OnWorkers'
  <2>1. \A v \in Workers : wpc'[v] \in Busy <=> wpc[v] \in Busy
    BY <1>0, <1>1 DEF WorkerWait, SpuriousWakeup, WorkerExit, Busy, TypeOK
  <2>2. cur' = cur /\ phase' = phase
    BY <1>1, Zenon DEF WorkerWait, SpuriousWakeup, WorkerExit, taskVars
  <2> QED
    BY <1>0, <2>1, <2>2, OnWorkersFrame, Zenon
<1>2. ASSUME NEW w \in Workers, WorkerPop(w) PROVE OnWorkers'
  <2> DEFINE j == Head(q)
  <2>1. /\ wpc[w] = "loop" /\ wpc' = [wpc EXCEPT ![w] = "poll"]
        /\ cur' = [cur EXCEPT ![w] = j] /\ phase' = [phase EXCEPT ![j] = "polling"]
    BY <1>2, Zenon DEF WorkerPop
  <2>2. j \in Jobs /\ phase[j] = "scheduled"
    <3>1. q # <<>> /\ q' = Tail(q) /\ Head(q) # Pill
      BY <1>2, Zenon DEF WorkerPop
    <3>2. Len(q) \in Nat /\ Len(q) >= 1 /\ j = q[1] /\ j \in Jobs \cup {Pill}
      BY <1>0, <3>1, PopFacts, Zenon
    <3>3. 1 \in 1..Len(q)
      BY <3>2
    <3> QED
      BY <1>0, <3>1, <3>2, <3>3 DEF InQueue
  <2> HIDE DEF j
  <2>3. \A v \in Workers : v # w => wpc'[v] = wpc[v] /\ cur'[v] = cur[v]
    BY <1>0, <2>1, Zenon DEF TypeOK
  <2>4. wpc'[w] = "poll" /\ cur'[w] = j
    BY <1>0, <2>1, Zenon DEF TypeOK
  <2>5. phase'[j] = "polling" /\ \A k \in Jobs : k # j => phase'[k] = phase[k]
    BY <1>0, <2>1, <2>2, Zenon DEF TypeOK
  <2>6. \A v \in Workers : wpc[v] \in Busy => v # w /\ cur[v] \in Jobs /\ cur[v] # j
    BY <1>0, <2>1, <2>2, Zenon DEF OnWorkers, Busy
  <2>7. \A v \in Workers : wpc'[v] \in Busy => cur'[v] \in Jobs /\ phase'[cur'[v]] = "polling"
    BY <1>0, <2>2, <2>3, <2>4, <2>5, <2>6, SMTT(30) DEF OnWorkers
  <2>8. \A u, v \in Workers : wpc'[u] \in Busy /\ wpc'[v] \in Busy /\ cur'[u] = cur'[v] => u = v
    BY <1>0, <2>3, <2>4, <2>6, Zenon DEF OnWorkers
  <2>9. \A k \in Jobs : phase'[k] = "polling" =>
           \E v \in Workers : wpc'[v] \in Busy /\ cur'[v] = k
    <3> SUFFICES ASSUME NEW k \in Jobs, phase'[k] = "polling"
                 PROVE  \E v \in Workers : wpc'[v] \in Busy /\ cur'[v] = k
      OBVIOUS
    <3>1. CASE k = j
      BY <2>4, <3>1, Zenon DEF Busy
    <3>2. CASE k # j
      <4>1. PICK v \in Workers : wpc[v] \in Busy /\ cur[v] = k
        BY <1>0, <2>5, <3>2, Zenon DEF OnWorkers
      <4> QED
        BY <2>3, <2>6, <4>1, Zenon
    <3> QED
      BY <3>1, <3>2, Zenon
  <2> QED
    BY <2>7, <2>8, <2>9, Zenon DEF OnWorkers
<1>3. ASSUME NEW w \in Workers, Poll(w) \/ SendResult(w) PROVE OnWorkers'
  <2>1. cur' = cur /\ phase' = phase
    BY <1>3, Zenon DEF Poll, SendResult, taskVars
  <2>2. wpc[w] \in Busy /\ \E l \in Busy : wpc' = [wpc EXCEPT ![w] = l]
    BY <1>3, Zenon DEF Poll, SendResult, AfterSend, Busy
  <2>3. \A v \in Workers : wpc'[v] \in Busy <=> wpc[v] \in Busy
    BY <1>0, <2>2 DEF TypeOK
  <2> QED
    BY <1>0, <2>1, <2>3, OnWorkersFrame, Zenon
<1>4. ASSUME NEW w \in Workers, wpc[w] \in Busy, wpc' = [wpc EXCEPT ![w] = "loop"],
             cur' = [cur EXCEPT ![w] = Idle], NEW l, l # "polling",
             phase' = [phase EXCEPT ![cur[w]] = l]
      PROVE  OnWorkers'
  <2>1. \A v \in Workers : v # w => wpc'[v] = wpc[v] /\ cur'[v] = cur[v]
    BY <1>0, <1>4, Zenon DEF TypeOK
  <2>2. wpc'[w] \notin Busy
    BY <1>0, <1>4, Zenon DEF TypeOK, Busy
  <2>3. cur[w] \in Jobs /\ \A v \in Workers : wpc'[v] \in Busy => wpc[v] \in Busy /\ cur[v] # cur[w]
    BY <1>0, <1>4, <2>1, <2>2, Zenon DEF OnWorkers
  <2>4. phase'[cur[w]] # "polling" /\ \A k \in Jobs : k # cur[w] => phase'[k] = phase[k]
    BY <1>0, <1>4, <2>3 DEF TypeOK
  <2> QED
    BY <1>0, <2>1, <2>2, <2>3, <2>4 DEF OnWorkers
<1>5. ASSUME NEW w \in Workers, Wait(w) PROVE OnWorkers'
  <2>1. CASE Repolls(cur[w])
    <3>1. cur' = cur /\ phase' = phase /\ wpc[w] = "wait" /\ wpc' = [wpc EXCEPT ![w] = "poll"]
      BY <1>5, <2>1, Zenon DEF Wait
    <3>2. \A v \in Workers : wpc'[v] \in Busy <=> wpc[v] \in Busy
      BY <1>0, <3>1, Zenon DEF TypeOK, Busy
    <3> QED
      BY <1>0, <3>1, <3>2, OnWorkersFrame, Zenon
  <2>2. CASE ~Repolls(cur[w])
    BY <1>4, <1>5, <2>2, Zenon DEF Wait, Busy
  <2> QED
    BY <2>1, <2>2, Zenon
<1>6. ASSUME NEW w \in Workers, Complete(w) PROVE OnWorkers'
  BY <1>4, <1>6, Zenon DEF Complete, Busy
<1>7. ASSUME NEW j \in Jobs, Unpark(j) PROVE OnWorkers'
  <2>1. cur' = cur /\ wpc' = wpc
    BY <1>7, Zenon DEF Unpark, workerVars
  <2>2. \A k \in Jobs : phase'[k] = "polling" <=> phase[k] = "polling"
    BY <1>0, <1>7, Zenon DEF Unpark, TypeOK
  <2> QED
    BY <1>0, <2>1, <2>2, OnWorkersFrame, Zenon
<1>8. ASSUME NEW j \in Jobs, Execute(j) \/ Spawn(j) PROVE OnWorkers'
  <2>1. cur' = cur
    BY <1>8, Zenon DEF Execute, Spawn
  <2>2. \A w \in Workers : wpc'[w] \in Busy <=> wpc[w] \in Busy
    <3>1. CASE isRunning
      <4>1. Push(j)
        <5>1. CASE Execute(j)
          BY <3>1, <5>1, Zenon DEF Execute
        <5>2. CASE Spawn(j)
          BY <3>1, <5>2, Zenon DEF Spawn
        <5> QED
          BY <1>8, <5>1, <5>2, Zenon
      <4> QED
        BY <1>0, <4>1, PushWakes, SMTT(30) DEF Busy, TypeOK
    <3>2. CASE ~isRunning
      BY <1>8, <3>2, Zenon DEF Execute, Spawn
    <3> QED
      BY <3>1, <3>2, Zenon
  <2>3. phase[j] # "polling"
    BY <1>0, <1>8, Zenon DEF Execute, Spawn, InQueue
  <2>4. phase' = phase \/ \E l \in {"scheduled", "dropped"} : phase' = [phase EXCEPT ![j] = l]
    BY <1>8, Zenon DEF Execute, Spawn
  <2>5. \A k \in Jobs : phase'[k] = "polling" <=> phase[k] = "polling"
    BY <1>0, <2>3, <2>4, Zenon DEF TypeOK
  <2> QED
    BY <1>0, <2>1, <2>2, <2>5, OnWorkersFrame, Zenon
<1>9. ASSUME NEW j \in Jobs,
             \/ Set(j) \/ DropReceiver(j) \/ Unlock(j)
             \/ ClientPoll(j) \/ ClientUnparked(j) \/ ClientDrop(j)
      PROVE  OnWorkers'
  <2>1. UNCHANGED <<wpc, cur, phase>>
    BY <1>9, Zenon DEF Set, DropReceiver, Unlock, ClientPoll, ClientUnparked, ClientDrop,
                workerVars, taskVars
  <2> QED
    BY <1>0, <2>1, OnWorkersFrame, Zenon
<1>10. ASSUME Stop PROVE OnWorkers'
  BY <1>0, <1>10, OnWorkersFrame, Zenon DEF Stop, Busy, taskVars
<1>11. ASSUME Join \/ UNCHANGED vars PROVE OnWorkers'
  BY <1>0, <1>11, OnWorkersFrame, Zenon DEF Join, vars, workerVars, taskVars
<1> QED
  BY <1>1, <1>2, <1>3, <1>5, <1>6, <1>7, <1>8, <1>9, <1>10, <1>11, Zenon
  DEF Next, WorkerStep, SetterStep, ClientStep

\* Nothing is queued or taken, and no job becomes or stops being scheduled.
LEMMA InQueueFrame ==
  ASSUME TypeOK, InQueue, q' = q,
         \A j \in Jobs : /\ phase'[j] = "scheduled" <=> phase[j] = "scheduled"
                         /\ spc'[j] = "execute" <=> spc[j] = "execute"
                         /\ cpc'[j] = "spawn" => cpc[j] = "spawn" /\ phase'[j] = phase[j]
  PROVE  InQueue'
<1>1. \A i \in 1..Len(q) : q[i] # Pill => q[i] \in Jobs
  BY DEF TypeOK
<1>2. \A j \in Jobs : Queued(j)' <=> Queued(j)
  BY Zenon DEF Queued
<1>3. /\ \A i \in 1..Len(q') : q'[i] # Pill => phase'[q'[i]] = "scheduled"
      /\ \A i, k \in 1..Len(q') : q'[i] # Pill /\ q'[i] = q'[k] => i = k
  BY <1>1 DEF InQueue
<1>4. \A j \in Jobs : phase'[j] = "scheduled" => Queued(j)' \/ spc'[j] = "execute"
  BY <1>2, Zenon DEF InQueue
<1>5. \A j \in Jobs : spc'[j] = "execute" => phase'[j] = "scheduled" /\ ~Queued(j)'
  BY <1>2, Zenon DEF InQueue
<1>6. \A j \in Jobs : cpc'[j] = "spawn" => phase'[j] = "unspawned"
  BY Zenon DEF InQueue
<1> QED
  BY <1>3, <1>4, <1>5, <1>6, Zenon DEF InQueue

LEMMA InQueueStep == IInv /\ [Next]_vars => InQueue'
<1> SUFFICES ASSUME IInv, [Next]_vars PROVE InQueue'
  OBVIOUS
<1>0. TypeOK /\ OnWorkers /\ InQueue
  BY Zenon DEF IInv
<1>00. Len(q) \in Nat /\ \A i \in 1..Len(q) : q[i] # Pill => q[i] \in Jobs
  BY <1>0 DEF TypeOK
<1>1. ASSUME NEW w \in Workers, WorkerWait(w) \/ SpuriousWakeup(w) \/ Poll(w) \/ SendResult(w)
      PROVE  InQueue'
  <2>1. UNCHANGED <<q, phase, spc, cpc>>
    BY <1>1, Zenon DEF WorkerWait, SpuriousWakeup, Poll, SendResult, poolVars, taskVars, clientVars
  <2> QED
    BY <1>0, <2>1, InQueueFrame, Zenon
<1>2. ASSUME q # <<>>, q' = Tail(q), UNCHANGED <<spc, cpc>>,
             NEW l, phase' = [phase EXCEPT ![Head(q)] = l], l # "scheduled"
      PROVE  InQueue'
  <2>1. /\ Len(q) >= 1 /\ Len(q') = Len(q) - 1 /\ Head(q) = q[1] /\ q[1] \in Jobs \cup {Pill}
        /\ \A i \in 1..Len(q) - 1 : q'[i] = q[i + 1]
    BY <1>0, <1>2, PopFacts, Zenon
  <2>2. \A i \in 1..Len(q') : i + 1 \in 1..Len(q) /\ q'[i] = q[i + 1] /\ i + 1 # 1
    BY <1>00, <2>1
  <2>3. 1 \in 1..Len(q) /\ \A i \in 1..Len(q) : i # 1 => i - 1 \in 1..Len(q') /\ q'[i - 1] = q[i]
    BY <1>00, <2>1
  <2>4. \A j \in Jobs : phase'[j] = IF j = q[1] THEN l ELSE phase[j]
    BY <1>0, <1>2, <2>1, Zenon DEF TypeOK
  <2>5. \A i \in 1..Len(q') : q'[i] # Pill => q'[i] # q[1]
    <3> SUFFICES ASSUME NEW i \in 1..Len(q'), q'[i] # Pill, q'[i] = q[1] PROVE FALSE
      OBVIOUS
    <3>1. /\ i + 1 \in 1..Len(q) /\ 1 \in 1..Len(q) /\ i + 1 # 1
          /\ q[i + 1] # Pill /\ q[i + 1] = q[1]
      BY <2>2, <2>3, Zenon
    <3>2. \A m, k \in 1..Len(q) : q[m] # Pill /\ q[m] = q[k] => m = k
      BY <1>0, Zenon DEF InQueue
    <3> QED
      BY <3>1, <3>2, Zenon
  <2>6. \A i \in 1..Len(q') : q'[i] # Pill => phase'[q'[i]] = "scheduled"
    BY <1>0, <1>00, <2>2, <2>4, <2>5 DEF InQueue
  <2>7. \A i, k \in 1..Len(q') : q'[i] # Pill /\ q'[i] = q'[k] => i = k
    <3> SUFFICES ASSUME NEW i \in 1..Len(q'), NEW k \in 1..Len(q'), q'[i] # Pill, q'[i] = q'[k]
                 PROVE  i = k
      BY Zenon
    <3>1. i + 1 = k + 1
      BY <1>0, <2>2 DEF InQueue
    <3> QED
      BY <3>1
  <2>8. ASSUME NEW j \in Jobs, j # q[1] PROVE Queued(j)' <=> Queued(j)
    <3>1. ASSUME NEW i \in 1..Len(q'), q'[i] = j PROVE Queued(j)
      BY <2>2, <3>1, Zenon DEF Queued
    <3>2. ASSUME NEW i \in 1..Len(q), q[i] = j PROVE \E k \in 1..Len(q') : q'[k] = j
      BY <2>3, <2>8, <3>2, Zenon
    <3> QED
      BY <3>1, <3>2, Zenon DEF Queued
  <2>9. \A j \in Jobs : j = q[1] => Queued(j)
    BY <2>3, Zenon DEF Queued
  <2>10. \A j \in Jobs : phase'[j] = "scheduled" => Queued(j)' \/ spc'[j] = "execute"
    BY <1>0, <1>2, <2>4, <2>8, Zenon DEF InQueue
  <2>11. \A j \in Jobs : spc'[j] = "execute" => phase'[j] = "scheduled" /\ ~Queued(j)'
    BY <1>0, <1>2, <2>4, <2>8, <2>9, SMTT(30) DEF InQueue
  <2>12. \A j \in Jobs : j = q[1] => phase[j] = "scheduled"
    BY <1>0, <2>3, JobsAssumption, SMTT(30) DEF InQueue
  <2>13. \A j \in Jobs : cpc'[j] = "spawn" => phase'[j] = "unspawned"
    BY <1>0, <1>2, <2>4, <2>12, Zenon DEF InQueue
  <2> QED
    BY <2>6, <2>7, <2>10, <2>11, <2>13, Zenon DEF InQueue
<1>3. ASSUME NEW w \in Workers, WorkerExit(w) PROVE InQueue'
  <2>1. Head(q) \notin Jobs /\ q # <<>> /\ q' = Tail(q) /\ UNCHANGED <<spc, cpc, phase>>
    BY <1>3, JobsAssumption, Zenon DEF WorkerExit, taskVars, clientVars
  <2>2. phase' = [phase EXCEPT ![Head(q)] = "dropped"]
    BY <1>0, <2>1, Zenon DEF TypeOK
  <2> QED
    BY <1>2, <2>1, <2>2, Zenon
<1>4. ASSUME NEW w \in Workers, WorkerPop(w) PROVE InQueue'
  <2>1. /\ q # <<>> /\ q' = Tail(q) /\ UNCHANGED <<spc, cpc>>
        /\ phase' = [phase EXCEPT ![Head(q)] = "polling"]
    BY <1>4, Zenon DEF WorkerPop, clientVars
  <2> QED
    BY <1>2, <2>1, Zenon
<1>5. ASSUME NEW w \in Workers, Wait(w) \/ Complete(w) PROVE InQueue'
  <2>1. UNCHANGED <<q, spc, cpc>>
    BY <1>5, Zenon DEF Wait, Complete, poolVars, clientVars
  <2>2. cur[w] \in Jobs /\ phase[cur[w]] = "polling"
    <3>1. wpc[w] \in Busy
      BY <1>5, Zenon DEF Wait, Complete, Busy
    <3> QED
      BY <1>0, <3>1, Zenon DEF OnWorkers
  <2>3. phase' = phase \/ \E l \in {"waiting", "done"} : phase' = [phase EXCEPT ![cur[w]] = l]
    <3>1. CASE Wait(w)
      BY <3>1, Zenon DEF Wait
    <3>2. CASE Complete(w)
      BY <3>2, Zenon DEF Complete
    <3> QED
      BY <1>5, <3>1, <3>2, Zenon
  <2>4. cpc[cur[w]] # "spawn"
    BY <1>0, <2>2, Zenon DEF InQueue
  <2>5. \A j \in Jobs : /\ phase'[j] = "scheduled" <=> phase[j] = "scheduled"
                        /\ cpc'[j] = "spawn" => cpc[j] = "spawn" /\ phase'[j] = phase[j]
    BY <1>0, <2>1, <2>2, <2>3, <2>4, SMTT(30) DEF TypeOK
  <2> QED
    BY <1>0, <2>1, <2>5, InQueueFrame, Zenon
<1>6. ASSUME NEW j \in Jobs, Set(j) \/ DropReceiver(j) \/ Unlock(j) PROVE InQueue'
  <2>1. UNCHANGED <<q, phase, cpc>>
    BY <1>6, Zenon DEF Set, DropReceiver, Unlock, poolVars, taskVars, clientVars
  <2>2. \A k \in Jobs : spc'[k] = "execute" <=> spc[k] = "execute"
    BY <1>0, <1>6 DEF Set, DropReceiver, Unlock, TypeOK
  <2> QED
    BY <1>0, <2>1, <2>2, InQueueFrame, Zenon
<1>7. ASSUME NEW j \in Jobs, Unpark(j) PROVE InQueue'
  <2>1. q' = q /\ cpc' = cpc
    BY <1>7, Zenon DEF Unpark, poolVars, clientVars
  <2>2. CASE phase[j] # "waiting"
    <3>1. phase' = phase
      BY <1>0, <1>7, <2>2, Zenon DEF Unpark, TypeOK
    <3>2. \A k \in Jobs : spc'[k] = "execute" <=> spc[k] = "execute"
      BY <1>0, <1>7, <2>2, Zenon DEF Unpark, TypeOK
    <3> QED
      BY <1>0, <2>1, <3>1, <3>2, InQueueFrame, Zenon
  <2>3. CASE phase[j] = "waiting"
    <3>1. /\ phase'[j] = "scheduled" /\ spc'[j] = "execute"
          /\ \A k \in Jobs : k # j => phase'[k] = phase[k] /\ spc'[k] = spc[k]
      BY <1>0, <1>7, <2>3, Zenon DEF Unpark, TypeOK
    <3>2. ~Queued(j) /\ cpc[j] # "spawn"
      BY <1>0, <1>00, <2>3, JobsAssumption DEF InQueue, Queued
    <3>3. \A k \in Jobs : Queued(k)' <=> Queued(k)
      BY <2>1, Zenon DEF Queued
    <3> QED
      BY <1>0, <1>00, <2>1, <3>1, <3>2, <3>3, SMTT(30) DEF InQueue
  <2> QED
    BY <2>2, <2>3, Zenon
<1>8. ASSUME NEW j \in Jobs, q' = Append(q, j), ~Queued(j), phase'[j] = "scheduled",
             spc'[j] # "execute", cpc'[j] # "spawn",
             \A k \in Jobs : k # j =>
               phase'[k] = phase[k] /\ spc'[k] = spc[k] /\ cpc'[k] = cpc[k]
      PROVE  InQueue'
  <2>1. /\ Len(q') = Len(q) + 1 /\ q'[Len(q) + 1] = j
        /\ \A i \in 1..Len(q) : q'[i] = q[i]
    BY <1>0, <1>8, PushFacts, Zenon
  <2>2. \A i \in 1..Len(q') : i = Len(q) + 1 \/ i \in 1..Len(q)
    BY <1>00, <2>1
  <2>3. Len(q) + 1 \in 1..Len(q') /\ \A i \in 1..Len(q) : i \in 1..Len(q') /\ q[i] # j
    BY <1>00, <1>8, <2>1, SMTT(30) DEF Queued
  <2>4. \A i \in 1..Len(q') : q'[i] # Pill => phase'[q'[i]] = "scheduled"
    BY <1>0, <1>00, <1>8, <2>1, <2>2, <2>3 DEF InQueue
  <2>5. \A i, k \in 1..Len(q') : q'[i] # Pill /\ q'[i] = q'[k] => i = k
    <3>1. \A i, k \in 1..Len(q) : q[i] # Pill /\ q[i] = q[k] => i = k
      BY <1>0, Zenon DEF InQueue
    <3> SUFFICES ASSUME NEW i \in 1..Len(q'), NEW k \in 1..Len(q'), q'[i] # Pill, q'[i] = q'[k]
                 PROVE  i = k
      OBVIOUS
    <3>2. CASE i = Len(q) + 1
      BY <2>1, <2>2, <2>3, <3>2, Zenon
    <3>3. CASE i \in 1..Len(q)
      BY <2>1, <2>2, <2>3, <3>1, <3>3, Zenon
    <3> QED
      BY <2>2, <3>2, <3>3, Zenon
  <2>6. \A k \in Jobs : k # j => (Queued(k)' <=> Queued(k))
    BY <2>1, <2>2, <2>3, Zenon DEF Queued
  <2>7. Queued(j)'
    BY <2>1, <2>3, Zenon DEF Queued
  <2> QED
    BY <1>0, <1>8, <2>4, <2>5, <2>6, <2>7 DEF InQueue
<1>9. ASSUME NEW j \in Jobs, Execute(j) PROVE InQueue'
  <2>1. cpc' = cpc /\ spc[j] = "execute"
    BY <1>9, Zenon DEF Execute
  <2>2. phase[j] = "scheduled" /\ ~Queued(j) /\ cpc[j] # "spawn"
    BY <1>0, <2>1, Zenon DEF InQueue
  <2>3. CASE isRunning
    <3>1. q' = Append(q, j) /\ phase' = phase /\ spc' = [spc EXCEPT ![j] = "unlock"]
      BY <1>9, <2>3, Zenon DEF Execute, Push
    <3>2. spc'[j] # "execute" /\ \A k \in Jobs : k # j => spc'[k] = spc[k]
      BY <1>0, <3>1, Zenon DEF TypeOK
    <3> QED
      BY <1>8, <2>1, <2>2, <3>1, <3>2, Zenon
  <2>4. CASE ~isRunning
    <3>1. /\ q' = q /\ phase' = [phase EXCEPT ![j] = "dropped"]
          /\ spc' = [spc EXCEPT ![j] = "drop"]
      BY <1>9, <2>4, Zenon DEF Execute
    <3>2. /\ phase'[j] = "dropped" /\ spc'[j] = "drop"
          /\ \A k \in Jobs : k # j => spc'[k] = spc[k] /\ phase'[k] = phase[k]
      BY <1>0, <3>1 DEF TypeOK
    <3>3. \A k \in Jobs : Queued(k)' <=> Queued(k)
      BY <3>1, Zenon DEF Queued
    <3>4. \A i \in 1..Len(q) : q[i] # j
      BY <2>2, Zenon DEF Queued
    <3> QED
      BY <1>0, <1>00, <2>1, <2>2, <3>1, <3>2, <3>3, <3>4 DEF InQueue
  <2> QED
    BY <2>3, <2>4, Zenon
<1>10. ASSUME NEW j \in Jobs, Spawn(j) PROVE InQueue'
  <2>1. /\ spc' = spc /\ cpc[j] = "spawn" /\ cpc' = [cpc EXCEPT ![j] = "poll"]
        /\ phase[j] = "unspawned"
    BY <1>0, <1>10, Zenon DEF Spawn, InQueue
  <2>2. spc[j] # "execute" /\ ~Queued(j)
    BY <1>0, <1>00, <2>1, JobsAssumption DEF InQueue, Queued
  <2>3. cpc'[j] # "spawn" /\ \A k \in Jobs : k # j => cpc'[k] = cpc[k]
    BY <1>0, <2>1, Zenon DEF TypeOK
  <2>4. CASE isRunning
    <3>1. q' = Append(q, j) /\ phase' = [phase EXCEPT ![j] = "scheduled"]
      BY <1>10, <2>4, Zenon DEF Spawn, Push
    <3>2. phase'[j] = "scheduled" /\ \A k \in Jobs : k # j => phase'[k] = phase[k]
      BY <1>0, <3>1, Zenon DEF TypeOK
    <3> QED
      BY <1>8, <2>1, <2>2, <2>3, <3>1, <3>2, Zenon
  <2>5. CASE ~isRunning
    <3>1. q' = q /\ phase' = [phase EXCEPT ![j] = "dropped"]
      BY <1>10, <2>5, Zenon DEF Spawn
    <3>2. \A k \in Jobs : /\ phase'[k] = "scheduled" <=> phase[k] = "scheduled"
                          /\ cpc'[k] = "spawn" => cpc[k] = "spawn" /\ phase'[k] = phase[k]
      BY <1>0, <2>1, <2>3, <3>1, Zenon DEF TypeOK
    <3> QED
      BY <1>0, <2>1, <3>1, <3>2, InQueueFrame, Zenon
  <2> QED
    BY <2>4, <2>5, Zenon
<1>11. ASSUME NEW j \in Jobs, ClientPoll(j) \/ ClientUnparked(j) \/ ClientDrop(j) PROVE InQueue'
  <2>1. UNCHANGED <<q, phase, spc>>
    BY <1>11, Zenon DEF ClientPoll, ClientUnparked, ClientDrop, poolVars, taskVars
  <2>2. \E l \in {"poll", "park", "end"} : cpc' = [cpc EXCEPT ![j] = l]
    BY <1>11, Zenon DEF ClientPoll, ClientUnparked, ClientDrop
  <2>3. \A k \in Jobs : cpc'[k] = "spawn" => cpc[k] = "spawn"
    BY <1>0, <2>2, Zenon DEF TypeOK
  <2> QED
    BY <1>0, <2>1, <2>3, InQueueFrame, Zenon
<1>12. ASSUME Stop PROVE InQueue'
  <2>1. UNCHANGED <<phase, spc, cpc>> /\ q' = WithPills
    BY <1>12, Zenon DEF Stop, taskVars, clientVars
  <2>2. /\ NumThreads \in Nat /\ Len(q') = Len(q) + NumThreads
        /\ \A i \in 1..Len(q') : q'[i] = IF i <= Len(q) THEN q[i] ELSE Pill
    BY <1>0, <2>1, PillFacts, Zenon
  <2>3. \A i \in 1..Len(q') : q'[i] # Pill => i \in 1..Len(q) /\ q'[i] = q[i]
    BY <1>00, <2>2
  <2>4. \A i \in 1..Len(q) : i \in 1..Len(q') /\ q'[i] = q[i]
    BY <1>00, <2>2
  <2>5. \A j \in Jobs : Queued(j)' <=> Queued(j)
    BY <2>3, <2>4, JobsAssumption, Zenon DEF Queued
  <2>6. \A i \in 1..Len(q') : q'[i] # Pill => phase'[q'[i]] = "scheduled"
    BY <1>0, <2>1, <2>3, SMTT(30) DEF InQueue
  <2>7. \A i, k \in 1..Len(q') : q'[i] # Pill /\ q'[i] = q'[k] => i = k
    <3> SUFFICES ASSUME NEW i \in 1..Len(q'), NEW k \in 1..Len(q'), q'[i] # Pill, q'[i] = q'[k]
                 PROVE  i = k
      OBVIOUS
    <3>1. i \in 1..Len(q) /\ k \in 1..Len(q) /\ q[i] # Pill /\ q[i] = q[k]
      BY <2>3, Zenon
    <3> QED
      BY <1>0, <3>1, Zenon DEF InQueue
  <2>8. \A j \in Jobs : /\ phase'[j] = "scheduled" => Queued(j)' \/ spc'[j] = "execute"
                        /\ spc'[j] = "execute" => phase'[j] = "scheduled" /\ ~Queued(j)'
                        /\ cpc'[j] = "spawn" => phase'[j] = "unspawned"
    BY <1>0, <2>1, <2>5, Zenon DEF InQueue
  <2> QED
    BY <2>6, <2>7, <2>8, Zenon DEF InQueue
<1>13. ASSUME Join \/ UNCHANGED vars PROVE InQueue'
  BY <1>0, <1>13, InQueueFrame, Zenon DEF Join, vars, taskVars, clientVars
<1> QED
  BY <1>1, <1>3, <1>4, <1>5, <1>6, <1>7, <1>9, <1>10, <1>11, <1>12, <1>13, Zenon
  DEF Next, WorkerStep, SetterStep, ClientStep

-----------------------------------------------------------------------------
\* IInv is an invariant of the pool, with any number of workers and jobs.
THEOREM Invariance == Spec => []IInv
<1>1. Init => IInv
  <2> SUFFICES ASSUME Init PROVE IInv
    OBVIOUS
  <2> USE DEF Init
  <2>1. q \in Seq(Jobs \cup {Pill}) /\ Len(q) = 0
    OBVIOUS
  <2>2. NewChannel \in InChan /\ NewChannel \in OutChan /\ NewChannel.s = "NotReady" /\ NewChannel.v = "none"
    BY Zenon DEF NewChannel, InChan, OutChan, Chan, Statuses
  <2>3. TypeOK
    <3>1. inp \in [Jobs -> InChan] /\ out \in [Jobs -> OutChan]
      BY <2>2, Zenon
    <3>2. /\ isRunning \in BOOLEAN /\ woken \in [Jobs -> BOOLEAN] /\ held \in [Jobs -> BOOLEAN]
          /\ ready \in [Jobs -> BOOLEAN]
      BY Zenon
    <3> QED
      BY <2>1, <3>1, <3>2, Zenon DEF TypeOK, InChan, OutChan, Chan
  <2>4. Pilled /\ QueueIsServed
    <3>1. Alive = Workers
      BY Zenon DEF Alive
    <3>2. main = "run" /\ isRunning /\ \A i \in 1..Len(q) : q[i] # Pill
      BY <2>1
    <3> QED
      BY <3>1, <3>2, Zenon DEF Pilled, QueueIsServed
  <2>5. OnWorkers /\ InQueue
    BY <2>1 DEF OnWorkers, Busy, InQueue, Queued
  <2> QED
    BY <2>3, <2>4, <2>5, Zenon DEF IInv
<1>2. IInv /\ [Next]_vars => IInv'
  BY TypeOKStep, PilledStep, OnWorkersStep, InQueueStep, Zenon DEF IInv
<1> QED
  BY <1>1, <1>2, PTL DEF Spec

\* A Runnable in the queue always has a worker on its way to it.
THEOREM QueueIsServedHolds == Spec => []QueueIsServed
<1>1. IInv => QueueIsServed
  BY Zenon DEF IInv
<1> QED
  BY <1>1, Invariance, PTL

\* When stop() has returned, everything the pool accepted has been run.
THEOREM StopDrainsHolds == Spec => []StopDrains
<1>1. IInv => StopDrains
  <2> SUFFICES ASSUME IInv, main = "stopped"
               PROVE  q = <<>> /\ \A j \in Jobs :
                        phase[j] # "polling" /\ (phase[j] = "scheduled" => spc[j] = "execute")
    BY Zenon DEF StopDrains
  <2>1. Alive = {} /\ Alive # Workers /\ ~isRunning
    BY ThreadsAssumption DEF IInv, Pilled, Workers
  <2>2. Len(q) = 0
    <3>1. PICK n \in Nat : Numbered(Alive, n) /\ Pills(n)
      BY <2>1, Zenon DEF IInv, Pilled
    <3> QED
      BY <2>1, <3>1, NoneNumbered, Zenon DEF Pills
  <2>3. q = <<>>
    BY <2>2 DEF IInv, TypeOK
  <2>4. \A w \in Workers : wpc[w] \notin Busy
    BY <2>1, Zenon DEF Alive, Busy
  <2> QED
    BY <2>2, <2>3, <2>4 DEF IInv, OnWorkers, InQueue, Queued
<1> QED
  BY <1>1, Invariance, PTL
=============================================================================
