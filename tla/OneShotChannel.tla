--------------------------- MODULE OneShotChannel ---------------------------
(***************************************************************************)
(* OnshotChannelImpl: the channel behind Promise and behind the results of *)
(* CpuPoolExecutor::spawn.  A channel is a record                          *)
(*     s   its Status        v   the Optional value, "none" when empty     *)
(*     rx  whether rx_task_ holds the receiver's Task                      *)
(* and each operation is what it does to the record while it holds mu_.    *)
(* Unparking the receiver is the caller's next step, taken with mu_ still  *)
(* held, so the operations leave rx alone; Notified then clears it.        *)
(***************************************************************************)

NewChannel == [s |-> "NotReady", v |-> "none", rx |-> FALSE]

Statuses == {"NotReady", "Ready", "Closed"}

\* send() throws when the channel is Ready, and returns false when it is Closed.
CanSend(c) == c.s # "Ready"

Send(c, v) == IF c.s = "Closed" THEN c ELSE [c EXCEPT !.s = "Ready", !.v = v]

\* cancel() throws when the channel is Ready; a Closed channel becomes Ready.
Cancel(c) == [c EXCEPT !.s = "Ready"]

\* Variant: the destructor of the sender closes a channel that holds a value.
CloseSender_Always(c) == [c EXCEPT !.s = "Closed"]

CloseSender(c) == IF c.s = "NotReady" THEN [c EXCEPT !.s = "Closed"] ELSE c

CloseReceiver(c) == [c EXCEPT !.s = "Closed"]

\* poll(): ready with the value, cancelled, or not ready.  The value is moved
\* from, but v_ stays engaged.
PollResult(c) ==
  CASE c.s = "Closed" -> "cancelled"
    [] c.s = "Ready" -> IF c.v = "none" THEN "cancelled" ELSE c.v
    [] c.s = "NotReady" -> "not_ready"

\* poll() that is not ready leaves the current Task in rx_task_.
AfterPoll(c) == IF c.s = "NotReady" THEN [c EXCEPT !.rx = TRUE] ELSE c

\* Going from c to d, send(), cancel() or closeSender() calls notify(), and
\* there is a receiver to unpark.
Unparks(c, d) == c.s # d.s /\ c.rx

\* notify(): rx_task_.clear()
Notified(c) == [c EXCEPT !.rx = FALSE]
=============================================================================
