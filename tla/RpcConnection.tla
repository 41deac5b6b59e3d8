---------------------------- MODULE RpcConnection ----------------------------
(***************************************************************************)
(* A client and a server of the RPC layer and the connection between them. *)
(* Each side is a task that polls an RpcFuture: a FramedStream, a          *)
(* FramedSink and a dispatcher, over a SocketChannel.  The client's        *)
(* dispatcher turns calls into frames and frames into the values of        *)
(* promises, the server's passes frames to a service and sends its         *)
(* answers.  mode tells whether the dispatchers are the pipeline or the    *)
(* multiplex ones.                                                         *)
(*                                                                         *)
(* A frame has the callid of its call in both directions; callids grow     *)
(* with the calls.  The channels keep what SocketChannel shows of them:    *)
(* one write at a time, done in a later event, and a shutdown that waits   *)
(* for it.  Each poll runs in its loop's thread and is one step.           *)
(***************************************************************************)
EXTENDS Lists

CONSTANTS NCalls,       \* bound: calls the user makes
          MaxInflight   \* max_inflight_ of the server's dispatcher

Calls == 1..NCalls

ASSUME MaxInflightAssumption == MaxInflight \in Nat \ {0}

VARIABLES
  mode,
  todo, promises, closed,  \* the client's dispatcher: in_flight_, promise_, closed_
  answer, late,            \* what the future of each call has got; calls after the close
  work, result,            \* the server's in_flight_, and the service's results
  sched, over,             \* of each side: its task is to be polled; its RpcFuture ended
  q, req, w,               \* its sink: q_, write_req_ and the frames being written
  shut,                    \* its channel's write side
  rbuf, rend,              \* its stream: frames read, and how reading ended
  rc, wc,                  \* read_closed_, write_closed_
  wire                     \* its frames on their way

clientVars == <<todo, promises, closed, answer, late>>
serverVars == <<work, result>>
sinkVars == <<q, req, w, shut>>
closedVars == <<rc, wc, over>>
streamVars == <<rbuf, rend>>
vars == <<mode, clientVars, serverVars, sinkVars, closedVars, streamVars, sched, wire>>

Sides == {"client", "server"}
Other(x) == IF x = "client" THEN "server" ELSE "client"

Init ==
  /\ mode \in {"pipeline", "multiplex"}
  /\ todo = <<>> /\ promises = <<>> /\ closed = FALSE
  /\ answer = [c \in Calls |-> "none"] /\ late = {}
  /\ work = <<>> /\ result = [c \in Calls |-> "none"]
  /\ sched = [x \in Sides |-> TRUE] /\ over = [x \in Sides |-> "no"]
  /\ q = [x \in Sides |-> <<>>] /\ req = [x \in Sides |-> "none"]
  /\ w = [x \in Sides |-> <<>>] /\ shut = [x \in Sides |-> "no"]
  /\ rbuf = [x \in Sides |-> <<>>] /\ rend = [x \in Sides |-> "open"]
  /\ rc = [x \in Sides |-> FALSE] /\ wc = [x \in Sides |-> FALSE]
  /\ wire = [x \in Sides |-> <<>>]

\* Variant: the task is not unparked.
Notify_Forgotten(x) == UNCHANGED sched

\* The task of side x is unparked.
Notify(x) == sched' = [sched EXCEPT ![x] = TRUE]

-----------------------------------------------------------------------------
(* The client's dispatcher *)

\* operator(), which does not look at closed_.  Its notify() finds a parked task unless
\* the task is to be polled anyway, or the dispatcher was closed: then poll() ends, and
\* parks no more.
Call(c) ==
  /\ answer[c] = "none"
  /\ \A d \in 1..(c - 1) : answer[d] # "none"
  /\ todo' = Append(todo, c) /\ promises' = Append(promises, c)
  /\ answer' = [answer EXCEPT ![c] = "waiting"]
  /\ late' = IF closed THEN late \cup {c} ELSE late
  /\ IF closed THEN UNCHANGED sched ELSE Notify("client")
  /\ UNCHANGED <<mode, closed, serverVars, sinkVars, closedVars, streamVars, wire>>

\* close(): the promises are dropped, unfulfilled.
Close ==
  /\ ~closed
  /\ todo' = <<>> /\ promises' = <<>> /\ closed' = TRUE
  /\ answer' = [c \in Calls |-> IF c \in Elems(promises) THEN "broken" ELSE answer[c]]
  /\ Notify("client")
  /\ UNCHANGED <<mode, late, serverVars, sinkVars, closedVars, streamVars, wire>>

\* How many of the frames in are dispatched before one that nobody waits for
Expected(in) ==
  IF mode = "pipeline" THEN IF Len(in) <= Len(promises) THEN Len(in) ELSE Len(promises)
  ELSE CHOOSE n \in 0..Len(in) :
         /\ Elems(Upto(in, n)) \subseteq Elems(promises)
         /\ n < Len(in) => in[n + 1] \notin Elems(promises)

\* What the future of call c gets with frame f
Value(c, f) == IF f = c THEN "own" ELSE "another's"

\* dispatch() of the first n frames of in.  The pipeline fulfills its promises in
\* order, the multiplexer by callid.
Dispatched(in, n) ==
  [c \in Calls |->
     IF mode = "pipeline"
       THEN IF \E i \in 1..n : promises[i] = c
              THEN Value(c, in[CHOOSE i \in 1..n : promises[i] = c]) ELSE answer[c]
       ELSE IF c \in Elems(Upto(in, n)) THEN "own" ELSE answer[c]]

\* The promises that are left after that
Left(in, n) ==
  IF mode = "pipeline" THEN From(promises, n)
  ELSE Omit(promises, Elems(Upto(in, n)))

\* dispatchErr() with the promises p left: they get the error, and closeNow().
DispatchErr(a, p) ==
  /\ answer' = [c \in Calls |-> IF c \in Elems(p) THEN "error" ELSE a[c]]
  /\ todo' = <<>> /\ promises' = <<>> /\ closed' = TRUE

-----------------------------------------------------------------------------
(* RpcFuture::poll, the part that both sides share *)

\* shutdownWrite(), with a write in state r
ShutdownWrite(r) == IF r = "pending" THEN "pending" ELSE "yes"

\* FramedSink::pollComplete with the frames f in q_.  A write that is done is only
\* forgotten: frames that came meanwhile stay in q_.
PollComplete(x, f, sh) ==
  IF req[x] = "none" /\ f # <<>>
    THEN [q |-> <<>>, w |-> f, req |-> IF sh = "no" THEN "pending" ELSE "error"]
    ELSE [q |-> f, w |-> w[x], req |-> IF req[x] = "done" THEN "none" ELSE req[x]]

\* Variant: the write side is left open after the last answer.
LastSent_Never(eof, busy) == FALSE

\* !has_in_flight() && read_closed_
LastSent(eof, busy) == eof /\ ~busy

\* From the outbound frames f on, with read_closed_ eof and write_closed_ or the
\* dispatcher's end wclosed: flush, shut down after the last answer, end.
Flushed(x, f, eof, wclosed, busy) ==
  LET sh  == IF wclosed /\ ~wc[x] THEN ShutdownWrite(req[x]) ELSE shut[x]
      p   == PollComplete(x, f, sh)
      fin == LastSent(eof, busy)
  IN  [q |-> p.q, w |-> p.w, req |-> p.req,
       shut |-> IF fin THEN ShutdownWrite(p.req) ELSE sh,
       wc |-> wclosed \/ fin, rc |-> eof,
       over |-> IF p.req = "error" THEN "error"
                ELSE IF eof /\ (wclosed \/ fin) THEN "ok" ELSE "no"]

\* The RpcFuture goes on as t says; one that is over is destroyed, with what its
\* sink holds.
Become(x, t) ==
  /\ over' = [over EXCEPT ![x] = t.over]
  /\ shut' = [shut EXCEPT ![x] = t.shut]
  /\ rc' = [rc EXCEPT ![x] = t.rc] /\ wc' = [wc EXCEPT ![x] = t.wc]
  /\ q' = [q EXCEPT ![x] = IF t.over = "no" THEN t.q ELSE <<>>]
  /\ w' = [w EXCEPT ![x] = IF t.over = "no" THEN t.w ELSE <<>>]
  /\ req' = [req EXCEPT ![x] = IF t.over = "no" THEN t.req ELSE "none"]
  /\ rbuf' = [rbuf EXCEPT ![x] = <<>>]
  /\ UNCHANGED rend

\* The poll returns an exception.
Fails(x) == Become(x, [over |-> "error", shut |-> "yes", rc |-> rc[x], wc |-> wc[x]])

StartPoll(x) ==
  /\ over[x] = "no" /\ sched[x]
  /\ sched' = [sched EXCEPT ![x] = FALSE]

Eof(x) == rc[x] \/ rend[x] = "eof"

-----------------------------------------------------------------------------
(* The client's task *)

\* The stream failed.
ClientReadError ==
  /\ rend["client"] = "error"
  /\ Fails("client") /\ DispatchErr(answer, promises)

\* dispatch() throws "unexpected server response": the promises are left alone.
ClientUnexpected ==
  /\ rend["client"] # "error" /\ Expected(rbuf["client"]) < Len(rbuf["client"])
  /\ Fails("client")
  /\ LET in == rbuf["client"]
         n  == Expected(in)
     IN  answer' = Dispatched(in, n) /\ promises' = Left(in, n)
  /\ UNCHANGED <<todo, closed>>

\* The responses are dispatched; the requests are sent, unless the write side is
\* closed or one cannot be encoded.
ClientProceeds ==
  LET in == rbuf["client"]
      n  == Len(in)
      a  == Dispatched(in, n)
      p  == Left(in, n)
      no == wc["client"]
      t  == Flushed("client", IF no THEN q["client"] ELSE q["client"] \o todo,
                    Eof("client"), no \/ closed, no /\ todo # <<>>)
  IN  /\ rend["client"] # "error" /\ Expected(in) = n
      /\ \/ /\ Become("client", t)
            /\ IF t.over = "no"
                 THEN /\ answer' = a /\ promises' = p /\ UNCHANGED closed
                      /\ todo' = IF no THEN todo ELSE <<>>
                 ELSE DispatchErr(a, p)
         \/ ~no /\ todo # <<>> /\ Fails("client") /\ DispatchErr(a, p)

ClientPoll ==
  /\ StartPoll("client")
  /\ ClientReadError \/ ClientUnexpected \/ ClientProceeds
  /\ UNCHANGED <<mode, late, serverVars, wire>>

-----------------------------------------------------------------------------
(* The server's task and its service *)

Done(res, c) == res[c] \in {"ready", "failed"}

\* Variant: the pipeline sends whatever is ready, like the multiplexer.
Completed_AnyOrder(in, res) == Omit(in, {c \in Calls : ~Done(res, c)})

\* The requests among in whose future dispatcher_->poll() finds done: the front ones
\* of a pipeline, any of a multiplexer.
Completed(in, res) ==
  IF mode = "multiplex" THEN Omit(in, {c \in Calls : ~Done(res, c)})
  ELSE Upto(in, CHOOSE n \in 0..Len(in) : /\ \A i \in 1..n : Done(res, in[i])
                                          /\ n < Len(in) => ~Done(res, in[n + 1]))

\* The requests among in that stay in flight when those are gone
InFlight(in, done) ==
  IF mode = "multiplex" THEN Omit(in, Elems(done)) ELSE From(in, Len(done))

\* The stream failed, or dispatch() throws "too many inflight requests".
ServerFails ==
  /\ rend["server"] = "error" \/ Len(work \o rbuf["server"]) > MaxInflight
  /\ Fails("server")
  /\ work' = <<>> /\ UNCHANGED result

\* The requests go to the service, which may end them at once; what it has done is
\* answered.  A request that failed ends the RpcFuture, as does an answer that cannot
\* be encoded.
ServerProceeds ==
  LET in == work \o rbuf["server"] IN
  /\ rend["server"] # "error" /\ Len(in) <= MaxInflight
  /\ \E new \in [Elems(rbuf["server"]) -> {"busy", "ready", "failed"}] :
       LET res  == [c \in Calls |-> IF c \in DOMAIN new THEN new[c] ELSE result[c]]
           done == Completed(in, res)
           left == InFlight(in, done)
       IN  /\ result' = res
           /\ \/ /\ \A c \in Elems(done) : res[c] = "ready"
                 /\ Become("server", Flushed("server", q["server"] \o done, Eof("server"),
                                             wc["server"], left # <<>>))
                 /\ work' = left
              \/ done # <<>> /\ Fails("server") /\ work' = <<>>

ServerPoll ==
  /\ StartPoll("server")
  /\ ServerFails \/ ServerProceeds
  /\ UNCHANGED <<mode, clientVars, wire>>

\* The service ends a request; the server's task waits for the ones it has polled.
Serve(c) ==
  /\ c \in Elems(work) /\ result[c] = "busy"
  /\ result' \in {[result EXCEPT ![c] = "ready"], [result EXCEPT ![c] = "failed"]}
  /\ IF mode = "multiplex" \/ c = Head(work) THEN Notify("server") ELSE UNCHANGED sched
  /\ UNCHANGED <<mode, clientVars, work, sinkVars, closedVars, streamVars, wire>>

-----------------------------------------------------------------------------
(* The channels *)

\* The write of side x is done, and a shutdown that waited for it carried out.
WriteDone(x) ==
  /\ req[x] = "pending"
  /\ wire' = [wire EXCEPT ![x] = @ \o w[x]]
  /\ req' = [req EXCEPT ![x] = "done"] /\ w' = [w EXCEPT ![x] = <<>>]
  /\ shut' = [shut EXCEPT ![x] = IF @ = "pending" THEN "yes" ELSE @]
  /\ Notify(x)
  /\ UNCHANGED <<mode, clientVars, serverVars, q, closedVars, streamVars>>

\* The other side is gone: the write fails, and the read is cancelled.
WriteFails(x) ==
  /\ req[x] = "pending" /\ over[Other(x)] # "no"
  /\ req' = [req EXCEPT ![x] = "error"] /\ w' = [w EXCEPT ![x] = <<>>]
  /\ shut' = [shut EXCEPT ![x] = "yes"]
  /\ rend' = [rend EXCEPT ![x] = IF @ = "open" THEN "error" ELSE @]
  /\ Notify(x)
  /\ UNCHANGED <<mode, clientVars, serverVars, q, closedVars, rbuf, wire>>

\* Some frames arrive at side x.
Arrive(x) ==
  LET y == Other(x) IN
  /\ over[x] = "no" /\ rend[x] = "open"
  /\ \E n \in 1..Len(wire[y]) :
       /\ rbuf' = [rbuf EXCEPT ![x] = @ \o Upto(wire[y], n)]
       /\ wire' = [wire EXCEPT ![y] = From(@, n)]
  /\ Notify(x)
  /\ UNCHANGED <<mode, clientVars, serverVars, sinkVars, closedVars, rend>>

\* Side x gets to the end of the stream, or finds the connection broken.
ArriveEnd(x) ==
  LET y == Other(x) IN
  /\ over[x] = "no" /\ rend[x] = "open" /\ wire[y] = <<>>
  /\ \/ (shut[y] = "yes" \/ over[y] # "no") /\ rend' = [rend EXCEPT ![x] = "eof"]
     \/ over[y] # "no" /\ rend' = [rend EXCEPT ![x] = "error"]
  /\ Notify(x)
  /\ UNCHANGED <<mode, clientVars, serverVars, sinkVars, closedVars, rbuf, wire>>

-----------------------------------------------------------------------------
System == \/ ClientPoll \/ ServerPoll \/ \E c \in Calls : Serve(c)
          \/ \E x \in Sides : WriteDone(x) \/ WriteFails(x) \/ Arrive(x) \/ ArriveEnd(x)

Next == System \/ Close \/ \E c \in Calls : Call(c)

Spec == Init /\ [][Next]_vars

\* Both event loops run, bytes arrive, and the service ends what it starts.
FairSpec == Spec /\ WF_vars(System)

-----------------------------------------------------------------------------
(* Properties *)

\* A call gets the answer to its own request, whatever the order in which the service
\* ends requests, and whatever is closed or fails in between.  A pipelined call made
\* after close() may get the answer to one made before.
AnswersMatch == \A c \in Calls \ late : answer[c] # "another's"

\* Frames wait in the sink of side x, and no write is under way that would wake it.
Stranded(x) == q[x] # <<>> /\ req[x] = "none" /\ ~sched[x] /\ over[x] = "no"

\* Every call made before the close ends, with an answer or an error, unless one side
\* keeps frames in its sink for good: those that came while a write was under way are
\* sent only when something else wakes the side after that write.
CallsEnd ==
  \/ <>[](\E x \in Sides : Stranded(x))
  \/ \A c \in Calls : answer[c] = "waiting" /\ c \notin late ~> answer[c] # "waiting"

\* After close(), or once either side has failed, both sides end.
BothEnd == (closed \/ \E x \in Sides : over[x] # "no") ~> \A x \in Sides : over[x] # "no"
=============================================================================
