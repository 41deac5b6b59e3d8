---------------------------- MODULE FifoChannel ----------------------------
(***************************************************************************)
(* What a channel promises, whatever it is made of: values come out in the *)
(* order in which they went in, each at most once and none invented.  A    *)
(* value that finds no room waits, and takes its turn before any that is   *)
(* sent later.  Once it is accepted only a receiver takes it out, or the   *)
(* end of the receiver; a value that still waits goes away with its own    *)
(* sender, and with nothing else.  The receiver sees the end only after    *)
(* the last value of the last sender.                                      *)
(*                                                                         *)
(* UnboundedMPSCChannel, where nothing waits and no sender takes anything  *)
(* along, and BufferedChannel are shown to implement it.                   *)
(***************************************************************************)
EXTENDS Lists

CONSTANT Values

VARIABLES pending,  \* values accepted and not yet received, oldest first
          waiting,  \* values whose senders wait for room, oldest first
          gone,     \* values whose senders went away after they had waited
          got,      \* values received, in order
          open,     \* somebody may still send
          state     \* the receiver: "open", "ended" or "abandoned"

vars == <<pending, waiting, gone, got, open, state>>

Init == /\ pending = <<>> /\ waiting = <<>> /\ gone = {} /\ got = <<>>
        /\ open = TRUE /\ state = "open"

\* A value is accepted, if none waits before it.
Send == /\ open /\ state = "open" /\ waiting = <<>>
        /\ \E v \in Values : pending' = Append(pending, v)
        /\ UNCHANGED <<waiting, gone, got, open, state>>

\* There is no room, and the sender waits behind the others.
SendWait == /\ open /\ state = "open" /\ pending # <<>>
            /\ \E v \in Values : waiting' = Append(waiting, v)
            /\ UNCHANGED <<pending, gone, got, open, state>>

\* The oldest value is received, and the first that waits gets its room.
Receive == /\ pending # <<>> /\ state = "open"
           /\ got' = Append(got, Head(pending))
           /\ \/ /\ waiting = <<>> /\ waiting' = waiting
                 /\ pending' = Tail(pending)
              \/ /\ waiting # <<>> /\ waiting' = Tail(waiting)
                 /\ pending' = Append(Tail(pending), Head(waiting))
           /\ UNCHANGED <<gone, open, state>>

\* A value sent while a receiver waits is received by the same step.
Pass == /\ pending = <<>> /\ waiting = <<>> /\ open /\ state = "open"
        /\ \E v \in Values : got' = Append(got, v)
        /\ UNCHANGED <<pending, waiting, gone, open, state>>

\* The sender of v goes away.  Its value goes with it only if it still waits.
Leave == /\ \E v \in Values : gone' = gone \cup {v} /\ Unlinked(waiting, v, waiting')
         /\ UNCHANGED <<pending, got, open, state>>

CloseSenders == open /\ open' = FALSE /\ UNCHANGED <<pending, waiting, gone, got, state>>

End == /\ state = "open" /\ ~open /\ pending = <<>> /\ waiting = <<>>
       /\ state' = "ended"
       /\ UNCHANGED <<pending, waiting, gone, got, open>>

Abandon == /\ state = "open"
           /\ state' = "abandoned"
           /\ pending' = <<>>
           /\ UNCHANGED <<waiting, gone, got, open>>

Next == Send \/ SendWait \/ Receive \/ Pass \/ Leave \/ CloseSenders \/ End \/ Abandon

Spec == Init /\ [][Next]_vars
=============================================================================
