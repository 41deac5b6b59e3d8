--------------------------- MODULE BufferedChannel ---------------------------
(***************************************************************************)
(* The bounded channel: a queue of at most max_size_ values and two lists  *)
(* of waiters, all under mu_.  A writer is a task that sends one value     *)
(* with trySend or with a SendFuture, a reader one that receives one value *)
(* with tryRecv or a RecvFuture; either may drop its future at any poll.   *)
(* Writers stand for the values they send.                                 *)
(*                                                                         *)
(* A waiter parks its task when it is made, under mu_, and is served by    *)
(* the other side, under mu_ too.  Serving a WriteWaiter also sets its     *)
(* ptr_ to nullptr, and isReady() and the destructor read ptr_ before they *)
(* lock: doing so after the waiter was served is a null dereference, which *)
(* ends the process.                                                       *)
(***************************************************************************)
EXTENDS Lists

CONSTANTS Writers, Readers,  \* tasks
          MaxSize            \* max_size_

ASSUME MaxSizeAssumption == MaxSize \in Nat \ {0}
ASSUME ClientsAssumption == Writers \cap Readers = {}

VARIABLES
  q,                 \* q_
  writers, readers,  \* writers_ and readers_
  st,                \* each waiter
  pc, woken,         \* each task, and whether it was unparked while polled
  crashed,           \* the process has dereferenced a null pointer
  got                \* history: the values handed to readers, in order

vars == <<q, writers, readers, st, pc, woken, crashed, got>>

Clients == Writers \cup Readers

Init ==
  /\ q = <<>> /\ writers = <<>> /\ readers = <<>>
  /\ st = [c \in Clients |-> "new"]
  /\ pc = [c \in Clients |-> "create"]
  /\ woken = [c \in Clients |-> FALSE]
  /\ crashed = FALSE
  /\ got = <<>>

Fewest(m, n) == IF m <= n THEN m ELSE n

Goto(c, label) == pc' = [pc EXCEPT ![c] = label]

\* Variant: a served task is not unparked.
UnparkAndGoto_Forgotten(S, c, label) == Goto(c, label) /\ UNCHANGED woken

\* The tasks in S are unparked, and client c goes on at label.
UnparkAndGoto(S, c, label) ==
  /\ pc' = [d \in Clients |-> IF d = c THEN label
                              ELSE IF d \in S /\ pc[d] = "waiting" THEN "scheduled" ELSE pc[d]]
  /\ woken' = [d \in Clients |-> woken[d] \/ (d \in S /\ d # c /\ pc[d] # "waiting")]

\* Where client c's waiter and those of the served clients S get to.
Waiters(c, new, S, served) ==
  [d \in Clients |-> IF d = c THEN new ELSE IF d \in S THEN served ELSE st[d]]

-----------------------------------------------------------------------------
(* Every task *)

\* The executor polls a task that was unparked.
StartPoll(c) ==
  /\ pc[c] = "scheduled"
  /\ Goto(c, "check")
  /\ woken' = [woken EXCEPT ![c] = FALSE]
  /\ UNCHANGED <<q, writers, readers, st, crashed, got>>

\* The poll was not ready: wait, or poll again if unparked meanwhile.
Wait(c) ==
  /\ pc[c] = "wait"
  /\ Goto(c, IF woken[c] THEN "check" ELSE "waiting")
  /\ woken' = [woken EXCEPT ![c] = FALSE]
  /\ UNCHANGED <<q, writers, readers, st, crashed, got>>

-----------------------------------------------------------------------------
(* Writers *)

\* Variants: the bound is checked with <= instead of <, or one place is kept free.
HasRoom_OffByOne == Len(q) <= MaxSize
HasRoom_OneLess == Len(q) + 1 < MaxSize

\* q_.size() < max_size_
HasRoom == Len(q) < MaxSize

\* q_.push_back, then notifyReader(): the first waiting readers get the first
\* values, and their tasks are unparked.  The writer is through: a SendFuture
\* that never waited is ready, and destroying it has no effect.
NotifyReader(w) ==
  LET all == Append(q, w)
      n   == Fewest(Len(all), Len(readers))
      S   == Elems(Upto(readers, n))
  IN  /\ q' = From(all, n)
      /\ readers' = From(readers, n)
      /\ got' = got \o Upto(all, n)
      /\ st' = Waiters(w, "sent", S, "full")
      /\ UnparkAndGoto(S, w, "over")

\* doSend() or trySend(), and there is room
SendNow(w) ==
  /\ pc[w] = "create" /\ HasRoom
  /\ NotifyReader(w)
  /\ UNCHANGED <<writers, crashed>>

\* doSend(): wait behind the other writers
SendWait(w) ==
  /\ pc[w] = "create" /\ ~HasRoom
  /\ writers' = Append(writers, w)
  /\ st' = [st EXCEPT ![w] = "waiting"]
  /\ Goto(w, "check")
  /\ UNCHANGED <<q, readers, woken, crashed, got>>

\* trySend() returns false.
SendFails(w) ==
  /\ pc[w] = "create" /\ ~HasRoom
  /\ Goto(w, "over")
  /\ UNCHANGED <<q, writers, readers, st, woken, crashed, got>>

\* ptr_ is nullptr: moveValue() has served the waiter.
Dangles(w) == st[w] = "served"

\* isReady() or ~WriteWaiter reads ptr_, on its way to lock ptr_->mu_.
ReadPtr(w) ==
  /\ pc[w] \in {"check", "finish"}
  /\ IF Dangles(w)
       THEN crashed' = TRUE /\ UNCHANGED pc
       ELSE /\ \/ pc[w] = "check" /\ Goto(w, "is_ready")
               \/ Goto(w, "detach")
            /\ UNCHANGED crashed
  /\ UNCHANGED <<q, writers, readers, st, woken, got>>

\* isReady(), under mu_: no value is left in the waiter
IsReady(w) ==
  /\ pc[w] = "is_ready"
  /\ Goto(w, IF st[w] = "waiting" THEN "wait" ELSE "finish")
  /\ UNCHANGED <<q, writers, readers, st, woken, crashed, got>>

\* ~WriteWaiter, under mu_: closeWriter() takes a waiting value back.
DetachWriter(w) ==
  /\ pc[w] = "detach"
  /\ Unlinked(writers, w, writers')
  /\ st' = [st EXCEPT ![w] = "gone"]
  /\ Goto(w, "over")
  /\ UNCHANGED <<q, readers, woken, crashed, got>>

WriterStep(w) == \/ StartPoll(w) \/ SendNow(w) \/ SendWait(w) \/ SendFails(w) \/ ReadPtr(w)
                 \/ IsReady(w) \/ Wait(w) \/ DetachWriter(w)

-----------------------------------------------------------------------------
(* Readers *)

\* Variant: a value is taken and no writer gets the room.
NotifyWriter_Not(r, new, label) ==
  /\ q' = Tail(q) /\ writers' = writers /\ got' = Append(got, Head(q))
  /\ st' = [st EXCEPT ![r] = new]
  /\ Goto(r, label) /\ UNCHANGED woken

\* q_.pop_front, then notifyWriter(): the values of the first waiting writers
\* fill the room, and their tasks are unparked.
NotifyWriter(r, new, label) ==
  LET n == Fewest(Len(writers), MaxSize - Len(Tail(q)))
      S == Elems(Upto(writers, n))
  IN  /\ q' = Tail(q) \o Upto(writers, n)
      /\ writers' = From(writers, n)
      /\ got' = Append(got, Head(q))
      /\ st' = Waiters(r, new, S, "served")
      /\ UnparkAndGoto(S, r, label)

\* doRecv(): take the first value, or wait behind the other readers
DoRecv(r) ==
  /\ pc[r] = "create"
  /\ \/ q # <<>> /\ NotifyWriter(r, "full", "check") /\ UNCHANGED readers
     \/ /\ q = <<>>
        /\ readers' = Append(readers, r)
        /\ st' = [st EXCEPT ![r] = "waiting"]
        /\ Goto(r, "check")
        /\ UNCHANGED <<q, writers, woken, got>>
  /\ UNCHANGED crashed

\* tryRecv()
TryRecv(r) ==
  /\ pc[r] = "create"
  /\ \/ q # <<>> /\ NotifyWriter(r, "taken", "over") /\ UNCHANGED <<readers, crashed>>
     \/ /\ q = <<>>
        /\ Goto(r, "over")
        /\ UNCHANGED <<q, writers, readers, st, woken, crashed, got>>

\* RecvFuture::poll calls value(): the value is moved out once it is there, and
\* the waiter, which is on no list then, destroyed.
Value(r) ==
  /\ pc[r] = "check"
  /\ Goto(r, IF st[r] = "full" THEN "over" ELSE "wait")
  /\ st' = [st EXCEPT ![r] = IF @ = "full" THEN "taken" ELSE @]
  /\ UNCHANGED <<q, writers, readers, woken, crashed, got>>

\* The task drops the RecvFuture instead of polling it: closeReader(), and a value
\* the waiter has got is lost with it.
DropRecv(r) ==
  /\ pc[r] = "check"
  /\ Unlinked(readers, r, readers')
  /\ st' = [st EXCEPT ![r] = "gone"]
  /\ Goto(r, "over")
  /\ UNCHANGED <<q, writers, woken, crashed, got>>

ReaderStep(r) == \/ StartPoll(r) \/ DoRecv(r) \/ TryRecv(r) \/ Value(r) \/ Wait(r)

-----------------------------------------------------------------------------
Next == /\ ~crashed
        /\ \/ \E w \in Writers : WriterStep(w)
           \/ \E r \in Readers : ReaderStep(r) \/ DropRecv(r)

Spec == Init /\ [][Next]_vars

\* The executors of the tasks keep running.
FairSpec == /\ Spec
            /\ \A w \in Writers : WF_vars(~crashed /\ WriterStep(w))
            /\ \A r \in Readers : WF_vars(~crashed /\ ReaderStep(r))

-----------------------------------------------------------------------------
(* Properties *)

\* Every variable has its type.
TypeOK ==
  /\ q \in Seq(Writers) /\ writers \in Seq(Writers) /\ readers \in Seq(Readers)
  /\ st \in [Clients -> {"new", "sent", "waiting", "served", "full", "taken", "gone"}]
  /\ pc \in [Clients -> {"scheduled", "create", "check", "is_ready", "wait", "waiting",
                         "finish", "detach", "over"}]
  /\ woken \in [Clients -> BOOLEAN]
  /\ crashed \in BOOLEAN
  /\ got \in Seq(Writers)

Fifo == INSTANCE FifoChannel WITH
          Values <- Writers, pending <- q, waiting <- writers,
          gone <- {w \in Writers : st[w] = "gone"}, got <- got,
          open <- TRUE, state <- "open"

\* The queue is a FIFO channel and the writers' list its line of waiting values: a
\* value that had to wait for room is not overtaken by one sent later and is queued
\* exactly once, when a reader makes room; a queued value leaves only with a
\* reader; and the end of a writer (closeWriter) takes no value along but its own,
\* and that only while it still waits.
ImplementsFifo == Fifo!Spec

\* The bound holds, and nobody waits in vain: writers wait only on a full queue
\* and readers on an empty one, whatever is dropped in between, although
\* closeWriter and closeReader notify nobody.
Balanced ==
  /\ Len(q) <= MaxSize
  /\ writers # <<>> => Len(q) = MaxSize
  /\ readers # <<>> => q = <<>>

\* A waiter that is served has been taken off its list, is in it only once, and
\* its task is not left asleep.
ServedIsAwake ==
  \A c \in Clients :
    /\ st[c] \in {"full", "served"} => pc[c] # "waiting"
    /\ st[c] = "waiting" <=> c \in Elems(writers) \cup Elems(readers)

\* A reader with a value gets to take it, or is dropped, unless the process dies.
HandedIsTaken == \A r \in Readers : st[r] = "full" ~> (st[r] # "full" \/ crashed)

\* The null pointer needs back-pressure: the process has taken in more values than
\* fit, and handed out one, before isReady() or ~WriteWaiter can find ptr_ cleared.
\* A channel that never overflowed, or that nobody has read from, kills nobody,
\* however its futures are polled and dropped.
CrashNeedsBackpressure == crashed => got # <<>> /\ Len(got) + Len(q) > MaxSize
=============================================================================
