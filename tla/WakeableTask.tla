---------------------------- MODULE WakeableTask ----------------------------
(***************************************************************************)
(* What the library promises about one spawned task, whatever executor     *)
(* runs it and whoever wakes it: the abstract view of FutureSpawnRun, of   *)
(* its Inner and of the UnparkMutex inside it.                             *)
(*                                                                         *)
(*   - polls of a task never overlap: there is one `phase`;                *)
(*   - an unpark of a waiting task schedules it exactly once;              *)
(*   - an unpark during a poll is remembered (`woken`) and makes that poll *)
(*     be followed by another one, never by waiting;                       *)
(*   - a finished or dropped task stays so.                                *)
(*                                                                         *)
(* Modules that are about something else (channels, the executors) take a  *)
(* task to be this; module UnparkMutex shows that the code implements it.  *)
(***************************************************************************)
VARIABLES phase, woken

vars == <<phase, woken>>

Phases == {"scheduled", "polling", "waiting", "done", "dropped"}

Init == phase = "scheduled" /\ woken = FALSE

\* Task::unpark, by any thread at any time.  In every other phase it has no
\* effect: the poll to come sees whatever the caller did before it unparked.
Unpark == \/ phase = "waiting" /\ phase' = "scheduled" /\ UNCHANGED woken
          \/ phase = "polling" /\ woken' = TRUE /\ UNCHANGED phase

StartPoll == phase = "scheduled" /\ phase' = "polling" /\ woken' = FALSE

\* The poll was not ready: wait, or poll again at once if woken meanwhile.
Park   == phase = "polling" /\ ~woken /\ phase' = "waiting" /\ UNCHANGED woken

Repoll == phase = "polling" /\ woken /\ woken' = FALSE /\ UNCHANGED phase

Finish == phase = "polling" /\ phase' = "done" /\ woken' = FALSE

\* A stopped executor destroys a task handed to it instead of queueing it.
Drop   == phase = "scheduled" /\ phase' = "dropped" /\ UNCHANGED woken

Next == Unpark \/ StartPoll \/ Park \/ Repoll \/ Finish \/ Drop

Spec == Init /\ [][Next]_vars

\* A woken task is polled again, provided the executor keeps working.
LiveSpec == Spec /\ WF_vars(StartPoll \/ Drop) /\ WF_vars(Park \/ Repoll \/ Finish)
=============================================================================
