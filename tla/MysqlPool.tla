------------------------------ MODULE MysqlPool ------------------------------
(***************************************************************************)
(* The MySQL client: connections, each a state machine around MariaDB's    *)
(* non-blocking calls, and the pool of idle ones.  Everything runs on one  *)
(* thread, the event loop's.  stateMachine() goes from state to state      *)
(* until a call has to wait for the server: `run' is the connection whose  *)
(* stateMachine() is running, and each call it makes is a step, with the   *)
(* state (CONNECTED, ..._DONE, USE_RESULT) that handles what it returns.   *)
(*                                                                         *)
(* The _START and _CONT states of the five commands are START and CONT     *)
(* here: the kind of the current request tells them apart.  Requests are   *)
(* made in the order 1, 2, ...; a client uses a connection only between    *)
(* getConnection and checkin.                                              *)
(*                                                                         *)
(* The asserts are compiled in, and a failed one, like a fatal log entry,  *)
(* ends the process.                                                       *)
(***************************************************************************)
EXTENDS Lists

CONSTANTS NConns,    \* connections alive at a time
          NReqs,     \* requests, the pool's own ConnClose requests among them
          MaxIdles,  \* max_idles_
          MaxRows    \* rows of a result

ASSUME SizesAssumption == {NConns, NReqs, MaxIdles, MaxRows} \subseteq Nat

VARIABLES
  run,      \* the connection whose stateMachine() is on the stack, 0 if none
  s, ret,   \* s_ and whether ret_ is set
  current,  \* current_, 0 if empty
  writes,   \* the pending OpWrite requests
  connect,  \* the state of the ConnectRequest
  errors,   \* errors_ is not 0
  rows,     \* rows the server still has for the current query
  place,    \* who owns the connection
  conns,    \* conns_
  req,      \* the requests
  died      \* the process was aborted

connVars == <<s, ret, current, writes, connect, errors, rows>>
vars == <<run, connVars, place, conns, req, died>>

Conns == 1..NConns
Reqs == 1..NReqs

\* The types of requests.  Which command one is matters when its call returns.
Kinds == {"Command", "ConnClose"}

\* A request that is over.
Gone == [tok |-> "over", kind |-> "Command", on |-> 0, held |-> FALSE]

Init ==
  /\ run = 0
  /\ s = [k \in Conns |-> "CLOSED"] /\ ret = [k \in Conns |-> FALSE]
  /\ current = [k \in Conns |-> 0] /\ writes = [k \in Conns |-> <<>>]
  /\ connect = [k \in Conns |-> "none"]
  /\ errors = [k \in Conns |-> FALSE]
  /\ rows = [k \in Conns |-> 0]
  /\ place = [k \in Conns |-> "none"]
  /\ conns = <<>>
  /\ req = [r \in Reqs |-> [Gone EXCEPT !.tok = "none"]]
  /\ died = FALSE

\* Requests are made and connections created in the order of their names.
Unused(r) == req[r].tok = "none" /\ \A q \in 1..(r - 1) : req[q].tok # "none"
Fresh(k) == place[k] = "none" /\ \A j \in 1..(k - 1) : place[j] # "none"

\* setError() and cleanup(): a STARTED request is detached and its task unparked.  A
\* connection still needs the kind of the request it is working on.
Ended(S) == req' = [r \in Reqs |->
                      IF r \notin S THEN req[r]
                      ELSE IF \E k \in Conns : current[k] = r
                        THEN [Gone EXCEPT !.kind = req[r].kind] ELSE Gone]

Without(r, k) == Omit(writes[k], {r})

-----------------------------------------------------------------------------
(* Connection::stateMachine *)

\* nextEvent(): the call of this state is to wait for the server.
CallWaits(k) ==
  /\ run = k /\ s[k] # "ESTABLISHED"
  /\ s' = [s EXCEPT ![k] = IF @ = "CLOSED" THEN "CONNECTING"
                           ELSE IF @ = "START" THEN "CONT"
                           ELSE IF @ = "FETCH_ROW_START" THEN "FETCH_ROW_CONT" ELSE @]
  /\ run' = 0
  /\ UNCHANGED <<ret, current, writes, connect, errors, rows, place, conns, req, died>>

\* mysql_real_connect_start or _cont returns 0, and CONNECTED: the connection is
\* ready for requests, or failed, closeOnError().
ConnectReturns(k) ==
  /\ run = k /\ s[k] \in {"CLOSED", "CONNECTING"}
  /\ \E ok \in BOOLEAN :
       /\ ret' = [ret EXCEPT ![k] = ok]
       /\ connect' = [connect EXCEPT ![k] = IF @ # "STARTED" THEN @
                                             ELSE IF ok THEN "DONE" ELSE "failed"]
       /\ IF ok
            THEN s' = [s EXCEPT ![k] = "ESTABLISHED"] /\ UNCHANGED <<run, writes, errors, req>>
            ELSE /\ s' = [s EXCEPT ![k] = "CLOSED"] /\ run' = 0
                 /\ writes' = [writes EXCEPT ![k] = <<>>] /\ Ended(Elems(writes[k]))
                 /\ errors' = [errors EXCEPT ![k] = TRUE]
  /\ UNCHANGED <<current, rows, place, conns, died>>

\* ESTABLISHED: start the first pending request, or return.
Established(k) ==
  /\ run = k /\ s[k] = "ESTABLISHED"
  /\ IF writes[k] = <<>>
       THEN run' = 0 /\ UNCHANGED <<s, current>>
       ELSE /\ current' = [current EXCEPT ![k] = Head(writes[k])]
            /\ s' = [s EXCEPT ![k] = "START"]
            /\ UNCHANGED run
  /\ UNCHANGED <<ret, writes, connect, errors, rows, place, conns, req, died>>

\* Variant: the request is let go of without notifyDone().
FinishCurrentQuery_Silent(k, to) ==
  /\ current' = [current EXCEPT ![k] = 0]
  /\ rows' = [rows EXCEPT ![k] = 0]
  /\ s' = [s EXCEPT ![k] = to]
  /\ UNCHANGED <<req, writes, connect, place, conns, died>>

\* finishCurrentQuery(), and on to state `to'
FinishCurrentQuery(k, to) ==
  /\ req' = [req EXCEPT ![current[k]] = Gone]
  /\ writes' = [writes EXCEPT ![k] = Without(current[k], k)]
  /\ current' = [current EXCEPT ![k] = 0]
  /\ rows' = [rows EXCEPT ![k] = 0]
  /\ s' = [s EXCEPT ![k] = to]
  /\ UNCHANGED <<connect, place, conns, died>>

\* Variant: stateMachine returns after a request.
Resumed_Not(k) == 0

\* NEXT_IMMEDIATE(ESTABLISHED): the next request is looked for at once.
Resumed(k) == k

\* errors_++
Counted(k, failed) == errors' = [errors EXCEPT ![k] = @ \/ failed]

FetchRow(k, n) == /\ rows' = [rows EXCEPT ![k] = n]
                  /\ s' = [s EXCEPT ![k] = "FETCH_ROW_START"]
                  /\ UNCHANGED <<run, ret, current, writes, connect, errors, place, conns, req, died>>

\* The current command's _start or _cont call returns 0, and the state after it.
\* Query: USE_RESULT goes on with the rows if it is to have any.  PREPARE_STMT_DONE
\* and PREPARE_STMT_CLOSE_DONE count no error; PREPARE_STMT_EXEC_DONE and USE_RESULT
\* do.  (PREPARE_STMT_EXEC_START goes on to _CONT even if the call has returned: the
\* second call then fails with CR_COMMANDS_OUT_OF_SYNC, and the request with it.)
CommandReturns(k) ==
  /\ run = k /\ s[k] \in {"START", "CONT"} /\ req[current[k]].kind = "Command"
  /\ \/ \E n \in 0..MaxRows : FetchRow(k, n)
     \/ /\ \E failed \in BOOLEAN : Counted(k, failed)
        /\ FinishCurrentQuery(k, "ESTABLISHED")
        /\ run' = Resumed(k) /\ UNCHANGED ret

\* createStatement() or bind() throws, and the exception leaves stateMachine() and
\* its caller: the request stays current in its _START state, with no call under way.
\* (If the caller is doCommand, the future never gets to hold the request; it holds
\* the connection, which is all that `held' means for a request that is current.)
Throws(k) ==
  /\ run = k /\ s[k] = "START" /\ req[current[k]].kind = "Command"
  /\ run' = 0
  /\ UNCHANGED <<connVars, place, conns, req, died>>

\* FUTURES_CHECK(stmt_) in bind(), for a statement whose close came first, or the
\* fatal log entry of USE_RESULT, for a query that is to have rows and has none
Aborts(k) ==
  /\ run = k /\ s[k] \in {"START", "CONT"} /\ req[current[k]].kind = "Command"
  /\ died' = TRUE
  /\ UNCHANGED <<run, connVars, place, conns, req>>

\* mysql_close_start or _cont returns 0, and CLOSE_DONE: stateMachine returns with
\* whatever is still pending.
CloseReturns(k) ==
  /\ run = k /\ s[k] \in {"START", "CONT"} /\ req[current[k]].kind = "ConnClose"
  /\ FinishCurrentQuery(k, "CLOSED")
  /\ ret' = [ret EXCEPT ![k] = FALSE] /\ run' = 0
  /\ UNCHANGED errors

\* mysql_fetch_row_start or _cont returns 0, and FETCH_ROW_DONE: a row, and more to
\* fetch; or the end; or an error
FetchReturns(k) ==
  /\ run = k /\ s[k] \in {"FETCH_ROW_START", "FETCH_ROW_CONT"}
  /\ \/ rows[k] > 0 /\ FetchRow(k, rows[k] - 1)
     \/ /\ \E failed \in BOOLEAN : (rows[k] > 0 => failed) /\ Counted(k, failed)
        /\ FinishCurrentQuery(k, "ESTABLISHED")
        /\ run' = Resumed(k) /\ UNCHANGED ret

\* Neither an owner nor a future is left, and the connection goes with the last.
Unowned(k) == run = 0 /\ place[k] = "dropped" /\ \A r \in Reqs : req[r].held => req[r].on # k

\* A call of connection k waits for the server.
Waits(k) == s[k] \in {"CONNECTING", "CONT", "FETCH_ROW_CONT"}

\* onEvent() and onTimout(): the server is ready for a waiting call.  The watcher is
\* not stopped when the call returns, so it may fire on an idle connection, too, or
\* on one whose command threw, which is then started again.
OnEvent(k) ==
  /\ run = 0 /\ (Waits(k) \/ s[k] \in {"ESTABLISHED", "START"})
  /\ \A j \in Conns : ~Unowned(j)
  /\ run' = k
  /\ UNCHANGED <<connVars, place, conns, req, died>>

-----------------------------------------------------------------------------
(* Clients *)

\* getConnection(): the connection used last, or a new one, which ConnFuture connects
GetConnection ==
  /\ run = 0
  /\ \/ /\ conns # <<>>
        /\ place' = [place EXCEPT ![conns[Len(conns)]] = "client"]
        /\ conns' = Upto(conns, Len(conns) - 1)
        /\ UNCHANGED <<run, connect>>
     \/ /\ conns = <<>>
        /\ \E k \in Conns :
             /\ Fresh(k)
             /\ place' = [place EXCEPT ![k] = "client"]
             /\ connect' = [connect EXCEPT ![k] = "STARTED"]
             /\ run' = k
        /\ UNCHANGED conns
  /\ UNCHANGED <<s, ret, current, writes, errors, rows, req, died>>

\* good()
Good(k) == /\ ret[k] /\ s[k] # "CLOSED"
           /\ current[k] # 0 => req[current[k]].kind # "ConnClose"

\* doCommand() and doStmtCommand(): refused, or queued and started if there is
\* nothing to wait for
DoCommand(k, kind) ==
  /\ run = 0
  /\ \E r \in Reqs :
       /\ Unused(r)
       /\ IF Good(k)
            THEN /\ req' = [req EXCEPT ![r] = [tok |-> "STARTED", kind |-> kind,
                                               on |-> k, held |-> TRUE]]
                 /\ writes' = [writes EXCEPT ![k] = Append(@, r)]
                 /\ run' = IF s[k] = "ESTABLISHED" THEN k ELSE 0
            ELSE req' = [req EXCEPT ![r] = Gone] /\ UNCHANGED <<writes, run>>
  /\ UNCHANGED <<s, ret, current, connect, errors, rows, conns, died>>

\* A client's ExecFuture, StmtFuture or DropExecFuture is polled for the first time.
Command(k) == /\ place[k] = "client" /\ connect[k] = "DONE"
              /\ \E kind \in Kinds : DoCommand(k, kind)
              /\ UNCHANGED place

\* A client drops its future.  current_ keeps the request the connection is working
\* on.  Any other is destroyed while it is STARTED and queued, since a
\* WriteCommandRequest, unlike a ConnectRequest, does not cancel itself first: the
\* assertions of ~CompletionToken fail.
DropFuture(r) ==
  /\ run = 0 /\ req[r].held
  /\ req' = [req EXCEPT ![r].held = FALSE]
  /\ died' = (current[req[r].on] # r)
  /\ UNCHANGED <<run, connVars, place, conns>>

\* Variant: any connection may be reused.
IsIdle_Always(k) == TRUE

\* isIdle()
IsIdle(k) == s[k] = "ESTABLISHED"

\* checkin(): kept, closed by a request, or dropped.  The client's own dropping of a
\* connection, or of a ConnFuture, is the last case.
Checkin(k) ==
  /\ run = 0 /\ place[k] = "client"
  /\ \/ /\ connect[k] = "DONE" /\ IsIdle(k) /\ Len(conns) < MaxIdles /\ ~errors[k]
        /\ conns' = Append(conns, k) /\ place' = [place EXCEPT ![k] = "pool"]
     \/ /\ connect[k] = "DONE" /\ IsIdle(k) /\ ~(Len(conns) < MaxIdles /\ ~errors[k])
        /\ place' = [place EXCEPT ![k] = "closing"] /\ UNCHANGED conns
     \/ place' = [place EXCEPT ![k] = "dropped"] /\ UNCHANGED conns
  /\ UNCHANGED <<run, connVars, req, died>>

\* onTimer(), reapConnections(): connections not used for a while are closed
OnTimer ==
  /\ run = 0
  /\ \E S \in SUBSET Elems(conns) \ {{}} :
       /\ conns' = Omit(conns, S)
       /\ place' = [k \in Conns |-> IF k \in S THEN "closing" ELSE place[k]]
  /\ UNCHANGED <<run, connVars, req, died>>

\* The future of close() is polled; it is then the connection's last owner.
Close(k) == place[k] = "closing" /\ DoCommand(k, "ConnClose")
            /\ place' = [place EXCEPT ![k] = "dropped"]

\* ~Connection: closeOnError()
Destroy(k) ==
  /\ Unowned(k)
  /\ req' = [r \in Reqs |-> IF r = current[k] \/ r \in Elems(writes[k]) THEN Gone ELSE req[r]]
  /\ s' = [s EXCEPT ![k] = "CLOSED"] /\ ret' = [ret EXCEPT ![k] = FALSE]
  /\ current' = [current EXCEPT ![k] = 0] /\ writes' = [writes EXCEPT ![k] = <<>>]
  /\ connect' = [connect EXCEPT ![k] = "none"]
  /\ errors' = [errors EXCEPT ![k] = FALSE]
  /\ rows' = [rows EXCEPT ![k] = 0]
  /\ place' = [place EXCEPT ![k] = "none"]
  /\ UNCHANGED <<run, conns, died>>

\* EventExecutor::stop() cancels what is pending; onCancel() leaves current_ alone
\* and the call it waits for goes on.
Cleanup(k) ==
  /\ run = 0 /\ (writes[k] # <<>> \/ connect[k] = "STARTED")
  /\ Ended(Elems(writes[k]))
  /\ writes' = [writes EXCEPT ![k] = <<>>]
  /\ connect' = [connect EXCEPT ![k] = IF @ = "STARTED" THEN "failed" ELSE @]
  /\ UNCHANGED <<run, s, ret, current, errors, rows, place, conns, died>>

-----------------------------------------------------------------------------
Returns(k) == ConnectReturns(k) \/ CommandReturns(k) \/ CloseReturns(k) \/ FetchReturns(k)
Round(k) == CallWaits(k) \/ Returns(k) \/ Throws(k) \/ Aborts(k) \/ Established(k)

Next ==
  /\ ~died
  /\ \/ \E k \in Conns : Destroy(k)
     \/ /\ \A k \in Conns : ~Unowned(k)
        /\ \/ GetConnection \/ OnTimer
           \/ \E k \in Conns : \/ Round(k) \/ OnEvent(k) \/ Command(k) \/ Checkin(k)
                               \/ Close(k) \/ Cleanup(k)
           \/ \E r \in Reqs : DropFuture(r)

Spec == Init /\ [][Next]_vars

\* stateMachine() runs on, the loop reports the events that calls wait for, and the
\* server answers every call in the end, while the process lives.
FairSpec ==
  /\ Spec
  /\ WF_vars(~died /\ \E k \in Conns : Round(k) \/ Destroy(k))
  /\ \A k \in Conns : SF_vars(~died /\ Waits(k) /\ OnEvent(k)) /\ SF_vars(~died /\ Returns(k))

-----------------------------------------------------------------------------
(* Properties *)

\* One command at a time, and none forgotten: when a connection looks for work
\* nothing is current (the assertion on current_ in ESTABLISHED); between events an
\* ESTABLISHED connection has nothing pending and any other open one has a current
\* command, also after an exception; and the requests that are STARTED are exactly the
\* pending ones, the current one, unless it was cancelled, first.
OneAtATime ==
  \A k \in Conns :
    /\ s[k] = "ESTABLISHED" => current[k] = 0 /\ (run # k => writes[k] = <<>>)
    /\ s[k] \notin {"CLOSED", "CONNECTING", "ESTABLISHED"} => current[k] # 0
    /\ current[k] # 0 /\ req[current[k]].tok = "STARTED" => Head(writes[k]) = current[k]
    /\ Elems(writes[k]) = {r \in Reqs : req[r].tok = "STARTED" /\ req[r].on = k}

\* "only reuse GOOD connections" (Pool.h): a pooled connection is open and idle, has
\* counted no error in errors_, has no request left of its last client, is pooled
\* once, and there are never more than max_idles_ of them.
OnlyGoodOnesArePooled ==
  /\ Len(conns) <= MaxIdles
  /\ \A i \in DOMAIN conns :
       LET k == conns[i]
       IN  /\ place[k] = "pool" /\ \A j \in DOMAIN conns : conns[j] = k => j = i
           /\ s[k] = "ESTABLISHED" /\ ret[k] /\ ~errors[k]
           /\ current[k] = 0 /\ \A r \in Reqs : req[r].held => req[r].on # k

\* "assert(s_ != STARTED)" (WaitHandleBase.h, ~CompletionToken): a request that is
\* STARTED belongs to its future or to current_, so that nothing destroys it half way:
\* not the end of another one, a checkin, a cancellation, an exception, nor the end of
\* the connection.  Dropping a request that is queued does, and kills the process.
StartedIsOwned ==
  died \/ \A r \in Reqs : req[r].tok = "STARTED" => req[r].held \/ \E k \in Conns : current[k] = r

\* Nothing waits for a call of connection k, which threw.
Stuck(k) == run = 0 /\ s[k] = "START"

\* Every request ends, whatever other clients send, cancel or check in meanwhile, as
\* long as the process lives, with two exceptions: one queued behind a ConnClose,
\* which CLOSE_DONE leaves pending on a CLOSED connection, and those of a connection
\* whose current command threw, which nothing resumes.
RequestsEnd ==
  \A r \in Reqs : req[r].tok = "STARTED" ~>
                  \/ req[r].tok = "STARTED" => s[req[r].on] = "CLOSED" \/ Stuck(req[r].on)
                  \/ died
=============================================================================
