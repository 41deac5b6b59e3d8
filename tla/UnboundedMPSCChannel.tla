------------------------ MODULE UnboundedMPSCChannel ------------------------
(***************************************************************************)
(* The unbounded channel: any number of sender objects, each used by some  *)
(* thread, and one receiver, read by a task through a ReceiverStream.      *)
(*                                                                         *)
(* A sender object is made by makeUnboundedMPSCChannel or by copying one   *)
(* that is alive, which counts it in senders_; destroying it takes two     *)
(* steps, because closeSender counts down before it locks mu_.             *)
(*                                                                         *)
(* The receiver's task is a WakeableTask of an executor that runs.  It     *)
(* polls until the channel has nothing more, and may end early, with the   *)
(* receiver in it.  Every other critical section is one step.              *)
(***************************************************************************)
EXTENDS Lists

CONSTANTS Senders,   \* sender objects that may come to exist
          First,     \* the one makeUnboundedMPSCChannel returns
          MaxSends   \* bound: values each sender sends

ASSUME SendersAssumption == First \in Senders
ASSUME MaxSendsAssumption == MaxSends \in Nat

VARIABLES
  q_,            \* q_
  rx,            \* rx_task_ holds the receiver's Task
  senders,       \* senders_
  senderClosed,  \* sender_closed_
  recvClosed,    \* recv_closed_
  spc, sends,    \* each sender object, and how many values it has sent
  rxPhase, rxWoken, \* the receiver's task
  rpc,           \* what the polling task does next
  received, ended \* history: what it received, and whether it saw the end

channelVars ==
  <<q_, rx, senders, senderClosed, recvClosed, spc, sends, rxPhase, rxWoken, rpc, received, ended>>

chanVars == <<q_, rx, senders, senderClosed, recvClosed>>
sendVars == <<spc, sends>>
taskVars == <<rxPhase, rxWoken>>
readVars == <<rpc, received, ended>>

RxTask == INSTANCE WakeableTask WITH phase <- rxPhase, woken <- rxWoken

ChannelInit ==
  /\ q_ = <<>> /\ rx = FALSE
  /\ senders = 1
  /\ senderClosed = FALSE /\ recvClosed = FALSE
  /\ spc = [s \in Senders |-> IF s = First THEN "open" ELSE "unborn"]
  /\ sends = [s \in Senders |-> 0]
  /\ RxTask!Init
  /\ rpc = "poll" /\ received = <<>> /\ ended = FALSE

\* Variant: the receiver is not unparked.
UnparkRx_Never == UNCHANGED taskVars

\* rx_task_->unpark(), which leaves rx_task_ where it is
UnparkRx ==
  IF rx /\ rxPhase \in {"waiting", "polling"} THEN RxTask!Unpark ELSE UNCHANGED taskVars

-----------------------------------------------------------------------------
(* The senders *)

\* send(): false when the receiver is gone
Send(s) ==
  /\ spc[s] = "open" /\ sends[s] < MaxSends
  /\ sends' = [sends EXCEPT ![s] = @ + 1]
  /\ IF recvClosed
       THEN UNCHANGED <<q_, taskVars>>
       ELSE q_' = Append(q_, <<s, sends[s]>>) /\ UnparkRx
  /\ UNCHANGED <<rx, senders, senderClosed, recvClosed, spc, readVars>>

\* Variant: a copy is not counted, as in the copy assignment.
OneMore_No == senders

\* addSender(): senders_++
OneMore == senders + 1

\* UnboundedMPSCChannelSender(const UnboundedMPSCChannelSender&)
Copy(s, t) ==
  /\ spc[s] = "open" /\ spc[t] = "unborn"
  /\ spc' = [spc EXCEPT ![t] = "open"]
  /\ senders' = OneMore
  /\ UNCHANGED <<q_, rx, senderClosed, recvClosed, sends, taskVars, readVars>>

\* closeSender(): senders_.fetch_sub(1), done unless that was the last one
CloseSender(s) ==
  /\ spc[s] = "open"
  /\ senders' = senders - 1
  /\ spc' = [spc EXCEPT ![s] = IF senders <= 1 THEN "closing" ELSE "gone"]
  /\ UNCHANGED <<q_, rx, senderClosed, recvClosed, sends, taskVars, readVars>>

\* closeSender(), the last one: sender_closed_ = true, and unpark
CloseLast(s) ==
  /\ spc[s] = "closing"
  /\ senderClosed' = TRUE
  /\ UnparkRx
  /\ spc' = [spc EXCEPT ![s] = "gone"]
  /\ UNCHANGED <<q_, rx, senders, recvClosed, sends, readVars>>

-----------------------------------------------------------------------------
(* The receiver *)

RxStartPoll ==
  /\ RxTask!StartPoll
  /\ rpc' = "poll"
  /\ UNCHANGED <<chanVars, sendVars, received, ended>>

\* Variant: the value is popped and not returned.
PollItem_Lost ==
  /\ rxPhase = "polling" /\ rpc = "poll" /\ q_ # <<>>
  /\ q_' = Tail(q_)
  /\ UNCHANGED <<rx, senders, senderClosed, recvClosed, sendVars, taskVars, readVars>>

\* poll(): q_ has a value
PollItem ==
  /\ rxPhase = "polling" /\ rpc = "poll" /\ q_ # <<>>
  /\ q_' = Tail(q_)
  /\ received' = Append(received, Head(q_))
  /\ UNCHANGED <<rx, senders, senderClosed, recvClosed, sendVars, taskVars, rpc, ended>>

\* poll(): nothing yet, leave the Task in rx_task_
PollEmpty ==
  /\ rxPhase = "polling" /\ rpc = "poll" /\ q_ = <<>> /\ ~senderClosed
  /\ rx' = TRUE
  /\ rpc' = "wait"
  /\ UNCHANGED <<q_, senders, senderClosed, recvClosed, sendVars, taskVars, received, ended>>

\* poll(): FutureCancelledException, the end of the ReceiverStream.  The task
\* ends with it and destroys the receiver.
PollEnd ==
  /\ rxPhase = "polling" /\ rpc = "poll" /\ q_ = <<>> /\ senderClosed
  /\ ended' = TRUE
  /\ rx' = FALSE
  /\ recvClosed' = TRUE
  /\ RxTask!Finish
  /\ UNCHANGED <<q_, senders, senderClosed, sendVars, rpc, received>>

\* The task returns not_ready to its executor.
ParkOrRepoll ==
  /\ rpc = "wait"
  /\ RxTask!Park \/ RxTask!Repoll
  /\ rpc' = "poll"
  /\ UNCHANGED <<chanVars, sendVars, received, ended>>

\* The task is satisfied before the end, and destroys the receiver:
\* closeReceiver().
Abandon ==
  /\ rxPhase = "polling" /\ rpc = "poll"
  /\ recvClosed' = TRUE
  /\ rx' = FALSE
  /\ RxTask!Finish
  /\ UNCHANGED <<q_, senders, senderClosed, sendVars, readVars>>

ReceiverStep == RxStartPoll \/ PollItem \/ PollEmpty \/ PollEnd \/ ParkOrRepoll

-----------------------------------------------------------------------------
ChannelNext ==
  \/ \E s \in Senders : Send(s) \/ CloseSender(s) \/ CloseLast(s)
  \/ \E s, t \in Senders : Copy(s, t)
  \/ ReceiverStep
  \/ Abandon

ChannelSpec == ChannelInit /\ [][ChannelNext]_channelVars

\* The receiver's executor keeps running, and a destructor that has begun goes
\* on.  Nobody has to send, to copy, to destroy a sender or to lose interest.
ChannelFairSpec ==
  /\ ChannelSpec
  /\ WF_channelVars(ReceiverStep)
  /\ \A s \in Senders : WF_channelVars(CloseLast(s))

-----------------------------------------------------------------------------
(* Properties *)

\* What a sender s sends is <<s, 0>>, then <<s, 1>> and so on.
Values == Senders \X (0..MaxSends - 1)

\* Every variable has its type.
ChannelTypeOK ==
  /\ q_ \in Seq(Values) /\ rx \in BOOLEAN
  /\ senders \in Nat
  /\ senderClosed \in BOOLEAN /\ recvClosed \in BOOLEAN
  /\ spc \in [Senders -> {"unborn", "open", "closing", "gone"}]
  /\ sends \in [Senders -> 0..MaxSends]
  /\ rxPhase \in {"scheduled", "polling", "waiting", "done"}
  /\ rxWoken \in BOOLEAN
  /\ rpc \in {"poll", "wait"}
  /\ received \in Seq(Values) /\ ended \in BOOLEAN

Alive == {s \in Senders : spc[s] = "open"}

ChannelFifo == INSTANCE FifoChannel WITH
          Values <- Values,
          pending <- IF recvClosed THEN <<>> ELSE q_,
          waiting <- <<>>, gone <- {},
          got <- received,
          open <- Alive # {},
          state <- CASE ended -> "ended"
                     [] ~ended /\ recvClosed -> "abandoned"
                     [] ~recvClosed -> "open"

\* The channel is a FIFO channel in which no sender ever waits or takes its value
\* back: what send() accepted leaves q_ only when poll() returns it, in order and
\* once, or with a receiver that is destroyed; and the stream ends only when the
\* last sender is gone and everything it sent was received, however the
\* destructors of copies interleave with sends and polls.
ChannelIsFifo == ChannelFifo!Spec

\* The receiver's task sleeps only while there is nothing for it: the channel is
\* empty, not all senders have closed it, and the next send or close has the
\* Task it must unpark (poll stores it before it returns, send keeps it).
SleepsOnNothing == rxPhase = "waiting" => q_ = <<>> /\ ~senderClosed /\ rx

\* When every sender object is gone the receiver ends or abandons the channel:
\* the destructor that counts down to zero still finds the Task to unpark.
EndIsSeen == Alive = {} ~> rxPhase = "done"

\* Each value that send() accepted is received, or the receiver gave up: send()
\* always finds the Task to unpark, however the poll that left it there overlaps.
SentIsReceived ==
  \A v \in Values : v \in Elems(q_) ~> (v \in Elems(received) \/ rxPhase = "done")
=============================================================================
