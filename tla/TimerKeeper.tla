---------------------------- MODULE TimerKeeper ----------------------------
(***************************************************************************)
(* Timeouts.  A TimerKeeper serves any number of timeouts of one length    *)
(* with one libev timer: a list of CompletionTokens in the order they were *)
(* made, and a watcher that is armed for the first.  Each client is a task *)
(* of the event loop that runs timeout(keeper, f): a TimeoutFuture over a  *)
(* TimerKeeperFuture and the future f, which another thread or another I/O *)
(* object makes ready at any time.                                         *)
(*                                                                         *)
(* Everything here runs on the loop's thread; `now` is the loop's time,    *)
(* which stands still while tasks are polled and callbacks run.  stop() of *)
(* the executor cancels the keeper with the rest of pendings_.             *)
(***************************************************************************)
EXTENDS Lists

CONSTANTS Clients,  \* tasks
          Timeout,  \* timeout_
          MaxTime   \* bound: the loop's time

ASSUME TimeAssumption == Timeout \in Nat \ {0} /\ MaxTime \in Nat

VARIABLES
  now,       \* getExecutor()->getNow()
  armed,     \* when timer_ goes off, or Off
  list,      \* getPending(OpRead)
  tok,       \* each token's s_, or "none" where there is no token
  deadline,  \* each token's deadline_
  fut,       \* each f
  task,      \* each task
  outcome,   \* what each TimeoutFuture came to
  stopping   \* the executor's wait_stop_

keeperVars == <<now, armed, list, tok, deadline, fut, task, outcome, stopping>>

Off == -1

KeeperInit ==
  /\ now = 0 /\ armed = Off /\ list = <<>>
  /\ tok = [c \in Clients |-> "none"]
  /\ deadline = [c \in Clients |-> 0]
  /\ fut = [c \in Clients |-> "pending"]
  /\ task = [c \in Clients |-> "queued"]
  /\ outcome = [c \in Clients |-> "none"]
  /\ stopping = FALSE

\* addTimer(): the watcher is armed anew for a token that is the first.
ArmedWith(c) == IF list = <<>> THEN now + Timeout ELSE armed

\* Variant: a woken task is not queued.
Wake_Forgotten(C) == UNCHANGED task

\* The tasks in C are unparked.
Wake(C) == task' = [c \in Clients |-> IF c \in C /\ task[c] = "idle" THEN "queued" ELSE task[c]]

\* The task is over, its TimeoutFuture destroyed, with the token in it.
Clear(c, result) ==
  /\ task' = [task EXCEPT ![c] = "over"]
  /\ tok' = [tok EXCEPT ![c] = "none"]
  /\ deadline' = [deadline EXCEPT ![c] = 0]
  /\ outcome' = [outcome EXCEPT ![c] = result]

-----------------------------------------------------------------------------
(* TimeoutFuture::poll: first the timer, then f *)

\* Both are not ready: the first poll makes the token.
PollNotReady(c) ==
  /\ task[c] = "queued" /\ tok[c] \in {"none", "STARTED"} /\ fut[c] = "pending"
  /\ IF tok[c] = "none"
       THEN /\ tok' = [tok EXCEPT ![c] = "STARTED"]
            /\ deadline' = [deadline EXCEPT ![c] = now + Timeout]
            /\ list' = Append(list, c)
            /\ armed' = ArmedWith(c)
       ELSE UNCHANGED <<tok, deadline, list, armed>>
  /\ task' = [task EXCEPT ![c] = "idle"]
  /\ UNCHANGED <<now, fut, outcome, stopping>>

\* Variant: a token that is destroyed stays on the list.
Dropped_StaysListed(c, new) == new = list

\* ~CompletionToken: stop() takes a token that still waits off the list.
Dropped(c, new) == Unlinked(list, c, new)

\* f is ready: timer_.clear().  A token made by this same poll has armed the
\* watcher, which stays so.
PollValue(c) ==
  /\ task[c] = "queued" /\ tok[c] \in {"none", "STARTED"} /\ fut[c] = "ready"
  /\ Dropped(c, list')
  /\ armed' = IF tok[c] = "none" THEN ArmedWith(c) ELSE armed
  /\ Clear(c, "value")
  /\ UNCHANGED <<now, fut, stopping>>

\* The time is up, or the token was cancelled: f is dropped, ready or not.
PollTimer(c) ==
  /\ task[c] = "queued" /\ tok[c] \in {"DONE", "CANCELLED"}
  /\ Clear(c, IF tok[c] = "DONE" THEN "timeout" ELSE "cancelled")
  /\ UNCHANGED <<now, armed, list, fut, stopping>>

Poll(c) == PollNotReady(c) \/ PollValue(c) \/ PollTimer(c)

\* The future is dropped before it is ready, by a select or with its owner.
DropFuture(c) ==
  /\ task[c] # "over"
  /\ Dropped(c, list')
  /\ Clear(c, "dropped")
  /\ UNCHANGED <<now, armed, fut, stopping>>

\* f becomes ready, and unparks the task.
FinishWork(c) ==
  /\ fut[c] = "pending" /\ task[c] # "over"
  /\ fut' = [fut EXCEPT ![c] = "ready"]
  /\ Wake({c})
  /\ UNCHANGED <<now, armed, list, tok, deadline, outcome, stopping>>

-----------------------------------------------------------------------------
(* The watcher *)

Due(c) == now >= deadline[c]

\* Variant: the watcher is left off while others wait.
Rearmed_Not(rest) == Off

\* onTimer() arms the watcher for the first of those that go on waiting.
Rearmed(rest) == IF rest = <<>> THEN Off ELSE deadline[Head(rest)]

\* onTimer(): notifyDone() from the front on, as long as the time is up
OnTimer ==
  /\ armed # Off /\ armed <= now
  /\ \E n \in 0..Len(list) :
       /\ \A i \in 1..n : Due(list[i])
       /\ n < Len(list) => ~Due(list[n + 1])
       /\ list' = From(list, n)
       /\ LET done == Elems(Upto(list, n))
          IN  /\ tok' = [c \in Clients |-> IF c \in done THEN "DONE" ELSE tok[c]]
              /\ Wake(done)
  /\ armed' = Rearmed(list')
  /\ UNCHANGED <<now, deadline, fut, outcome, stopping>>

\* IOObject::cleanup: every token is cancelled, then the watcher stopped.
Cleanup ==
  /\ stopping /\ list # <<>>
  /\ tok' = [c \in Clients |-> IF c \in Elems(list) THEN "CANCELLED" ELSE tok[c]]
  /\ Wake(Elems(list))
  /\ list' = <<>>
  /\ armed' = Off
  /\ UNCHANGED <<now, deadline, fut, outcome, stopping>>

\* The executor is told to stop.
Stop ==
  /\ ~stopping /\ stopping' = TRUE
  /\ UNCHANGED <<now, armed, list, tok, deadline, fut, task, outcome>>

\* An iteration of the loop finds that time has passed.
Tick ==
  /\ now < MaxTime /\ now' = now + 1
  /\ UNCHANGED <<armed, list, tok, deadline, fut, task, outcome, stopping>>

-----------------------------------------------------------------------------
KeeperNext ==
  \/ OnTimer \/ Cleanup \/ Stop \/ Tick
  \/ \E c \in Clients : Poll(c) \/ DropFuture(c) \/ FinishWork(c)

KeeperSpec == KeeperInit /\ [][KeeperNext]_keeperVars

\* The loop goes on: time passes, watchers that are due call back, queued tasks
\* are polled.  Nobody stops it, drops a future or makes one ready for sure.
KeeperFairSpec ==
  /\ KeeperSpec
  /\ WF_keeperVars(OnTimer) /\ WF_keeperVars(Cleanup) /\ WF_keeperVars(Tick)
  /\ \A c \in Clients : WF_keeperVars(Poll(c))

-----------------------------------------------------------------------------
(* Properties *)

\* Every variable has its type.
KeeperTypeOK ==
  /\ now \in Nat /\ armed \in Nat \cup {Off} /\ list \in Seq(Clients)
  /\ tok \in [Clients -> {"none", "STARTED", "DONE", "CANCELLED"}]
  /\ deadline \in [Clients -> Nat]
  /\ fut \in [Clients -> {"pending", "ready"}]
  /\ task \in [Clients -> {"queued", "idle", "over"}]
  /\ outcome \in [Clients -> {"none", "value", "timeout", "cancelled", "dropped"}]
  /\ stopping \in BOOLEAN

\* The one watcher is early enough for every token that waits, although it is
\* armed for the front only, and stopTimer() leaves it alone when the token it
\* was armed for goes away.
NoTokenIsMissed ==
  \A c \in Clients : tok[c] = "STARTED" => armed # Off /\ armed <= deadline[c]

\* The list holds the tokens that wait, each once, and none of a task that is
\* over: onTimer() and cleanup() never reach into a destroyed token.
ListIsAlive ==
  /\ \A c \in Clients : c \in Elems(list) <=> tok[c] = "STARTED"
  /\ \A i, j \in 1..Len(list) : list[i] = list[j] => i = j
  /\ \A c \in Elems(list) : task[c] # "over"

\* A task with a timeout ends, whatever its future does, once the loop's time has
\* got that far.
TimeoutEnds ==
  \A c \in Clients : tok[c] = "STARTED" /\ deadline[c] <= MaxTime ~> outcome[c] # "none"
=============================================================================
