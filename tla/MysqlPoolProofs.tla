-------------------------- MODULE MysqlPoolProofs ---------------------------
(***************************************************************************)
(* For any number of connections, requests and pooled connections, a       *)
(* connection works on one request at a time and forgets none, exceptions  *)
(* included, only good connections are in the pool, and no request is      *)
(* destroyed half way while the process lives.                             *)
(*                                                                         *)
(* None of them is inductive by itself.  The first needs that nothing      *)
(* is current before a connection is established, that a request is queued *)
(* once, and that a request whose future is held has not ended; the second *)
(* needs the first, for what checkin() leaves behind, and that nothing is  *)
(* queued on a pooled connection even while a late event runs its state    *)
(* machine; the third needs that a future holds only what is started.      *)
(***************************************************************************)
EXTENDS MysqlPool, ListsProofs

States == {"CLOSED", "CONNECTING", "ESTABLISHED", "START", "CONT",
           "FETCH_ROW_START", "FETCH_ROW_CONT"}
Requests == [tok : {"none", "STARTED", "over"}, kind : Kinds, on : Conns \cup {0}, held : BOOLEAN]

TypeOK ==
  /\ run \in Conns \cup {0}
  /\ s \in [Conns -> States]
  /\ ret \in [Conns -> BOOLEAN]
  /\ errors \in [Conns -> BOOLEAN]
  /\ current \in [Conns -> Reqs \cup {0}]
  /\ writes \in [Conns -> Seq(Reqs)]
  /\ place \in [Conns -> {"none", "client", "pool", "closing", "dropped"}]
  /\ conns \in Seq(Conns)
  /\ req \in [Reqs -> Requests]

\* What the state of a connection says of its requests, in the terms of OneAtATime
Serial(k) ==
  /\ s[k] = "ESTABLISHED" /\ run # k => writes[k] = <<>>
  /\ current[k] = 0 <=> s[k] \in {"CLOSED", "CONNECTING", "ESTABLISHED"}
  /\ s[k] \notin {"CLOSED", "CONNECTING"} => ret[k]
  /\ current[k] # 0 => /\ req[current[k]].tok # "none"
                       /\ req[current[k]].tok = "STARTED" => writes[k] # <<>> /\ writes[k][1] = current[k]
  /\ Elems(writes[k]) = {r \in Reqs : req[r].tok = "STARTED" /\ req[r].on = k}

\* A future holds a request that has not ended.
Held == \A r \in Reqs : req[r].held => req[r].tok = "STARTED" /\ req[r].on \in Conns

\* A pooled connection is good and has nothing to do.
Pooled ==
  /\ Len(conns) <= MaxIdles /\ Once(conns)
  /\ \A k \in Elems(conns) : /\ place[k] = "pool" /\ s[k] = "ESTABLISHED" /\ ~errors[k]
                             /\ writes[k] = <<>>

IInv == TypeOK /\ (\A k \in Conns : Serial(k)) /\ Held /\ Pooled

-----------------------------------------------------------------------------
(* What a step does to the requests and to the connections that it is not  *)
(* about                                                                   *)

\* The requests of S end, and the others stay.
Over(S) ==
  /\ req' \in [Reqs -> Requests]
  /\ \A r \in Reqs \ S : req'[r] = req[r]
  /\ \A r \in Reqs \cap S : req'[r].tok = "over" /\ ~req'[r].held

\* Connection j has no part in the step.
Same(j) == s'[j] = s[j] /\ ret'[j] = ret[j] /\ current'[j] = current[j] /\ writes'[j] = writes[j]

\* Ending the requests of a set leaves the others as they are.
LEMMA EndedFacts ==
  ASSUME TypeOK, NEW S, Ended(S)
  PROVE  Over(S)
<1>1. Gone \in Requests
  BY Zenon DEF Gone, Requests, Kinds
<1>2. \A r \in Reqs : req[r] \in Requests
  BY Zenon DEF TypeOK
<1>3. ASSUME NEW r \in Reqs
      PROVE  /\ [Gone EXCEPT !.kind = req[r].kind] \in Requests
             /\ [Gone EXCEPT !.kind = req[r].kind].tok = "over"
             /\ ~[Gone EXCEPT !.kind = req[r].kind].held
  BY <1>2, Zenon DEF Gone, Requests, Kinds
<1>4. ~Gone.held /\ Gone.tok = "over"
  BY Zenon DEF Gone
<1> QED
  BY <1>1, <1>2, <1>3, <1>4, Zenon DEF Ended, Over

\* A future's request has not ended, and still has not when others have.
LEMMA HeldKept ==
  ASSUME Held, NEW S, Over(S)
  PROVE  Held'
BY Zenon DEF Held, Over

\* A connection with no part in a step that ends requests of another goes on as
\* before: those are neither queued on it nor started by it.
LEMMA OthersKept ==
  ASSUME IInv, NEW k \in Conns, NEW S, Over(S),
         \A r \in Reqs \cap S : req[r].tok = "STARTED" => req[r].on = k,
         NEW j \in Conns \ {k}, Same(j), run # j
  PROVE  Serial(j)'
<1>1. Serial(j) /\ TypeOK
  BY Zenon DEF IInv
<1>2. \A r \in Reqs : (req'[r].tok = "STARTED" /\ req'[r].on = j) <=> (req[r].tok = "STARTED" /\ req[r].on = j)
  BY SMTT(30) DEF Over
<1>3. Elems(writes[j])' = {r \in Reqs : req'[r].tok = "STARTED" /\ req'[r].on = j}
  BY <1>1, <1>2 DEF Serial, Same, Elems
<1>4. current[j] # 0 => /\ req'[current[j]].tok # "none"
                        /\ req'[current[j]].tok = "STARTED" => req[current[j]].tok = "STARTED"
  BY <1>1, ZenonT(30) DEF Serial, Over, TypeOK
<1> QED
  BY <1>1, <1>3, <1>4, Zenon DEF Serial, Same

\* The pool is as good as before when a step leaves it and its connections alone.
LEMMA PooledKept ==
  ASSUME Pooled, conns' = conns,
         \A k \in Elems(conns) : /\ place'[k] = place[k] /\ s'[k] = s[k]
                                 /\ errors'[k] = errors[k] /\ writes'[k] = writes[k]
  PROVE  Pooled'
BY DEF Pooled, Elems, Once

-----------------------------------------------------------------------------
(* The steps of stateMachine() *)

\* No connection and no request is 0, and Gone is a request that is over.
LEMMA SetFacts ==
  /\ Conns \subseteq Nat \ {0} /\ Reqs \subseteq Nat \ {0}
  /\ Gone \in Requests /\ Gone.tok = "over" /\ ~Gone.held
BY SizesAssumption DEF Conns, Reqs, Gone, Requests, Kinds

\* nextEvent() leaves everything but the state alone.
LEMMA CallWaitsKeeps ==
  ASSUME IInv, NEW k \in Conns, CallWaits(k)
  PROVE  IInv'
<1>1. s[k] \in States /\ s[k] # "ESTABLISHED"
  BY Zenon DEF IInv, TypeOK, CallWaits
<1>2. /\ s' \in [Conns -> States] /\ s'[k] # "ESTABLISHED"
      /\ (s'[k] \in {"CLOSED", "CONNECTING"} <=> s[k] \in {"CLOSED", "CONNECTING"})
      /\ \A j \in Conns \ {k} : s'[j] = s[j]
  BY <1>1, Zenon DEF IInv, TypeOK, CallWaits, States
<1>3. TypeOK'
  BY <1>2, Zenon DEF IInv, TypeOK, CallWaits
<1>4. Over({})
  BY Zenon DEF Over, IInv, TypeOK, CallWaits
<1>5. ASSUME NEW j \in Conns \ {k} PROVE Serial(j)'
  <2>1. Same(j) /\ run # j
    BY <1>2, Zenon DEF CallWaits, Same
  <2> QED
    BY <1>4, <2>1, OthersKept, Zenon
<1>6. Serial(k)'
  <2>1. Serial(k) /\ UNCHANGED <<ret, current, writes, req>>
    BY Zenon DEF IInv, CallWaits
  <2> QED
    BY <1>1, <1>2, <2>1 DEF Serial, Elems
<1>7. Held'
  BY <1>4, HeldKept, Zenon DEF IInv
<1>8. Pooled'
  BY <1>1, <1>2, PooledKept DEF IInv, Pooled, CallWaits, TypeOK, Elems
<1> QED
  BY <1>3, <1>5, <1>6, <1>7, <1>8, Zenon DEF IInv

\* A connection that fails to connect fails all that is queued on it.
LEMMA ConnectReturnsKeeps ==
  ASSUME IInv, NEW k \in Conns, ConnectReturns(k)
  PROVE  IInv'
<1>1. PICK ok \in BOOLEAN :
        /\ ret' = [ret EXCEPT ![k] = ok]
        /\ IF ok
             THEN s' = [s EXCEPT ![k] = "ESTABLISHED"] /\ UNCHANGED <<run, writes, errors, req>>
             ELSE /\ s' = [s EXCEPT ![k] = "CLOSED"] /\ run' = 0
                  /\ writes' = [writes EXCEPT ![k] = <<>>] /\ Ended(Elems(writes[k]))
                  /\ errors' = [errors EXCEPT ![k] = TRUE]
  BY Zenon DEF ConnectReturns
<1>2. /\ run = k /\ s[k] \in {"CLOSED", "CONNECTING"} /\ UNCHANGED <<current, place, conns>>
      /\ TypeOK /\ Serial(k)
  BY Zenon DEF ConnectReturns, IInv
<1>3. current[k] = 0 /\ k \notin Elems(conns)
  BY <1>2, Zenon DEF Serial, IInv, Pooled
<1>4. ret' \in [Conns -> BOOLEAN] /\ errors' \in [Conns -> BOOLEAN]
  BY <1>1, <1>2, Zenon DEF TypeOK
<1>5. CASE ok
  <2>1. TypeOK'
    BY <1>1, <1>2, <1>4, <1>5, ZenonT(30) DEF TypeOK, States
  <2>2. Over({})
    BY <1>1, <1>2, <1>5, Zenon DEF Over, TypeOK
  <2>3. ASSUME NEW j \in Conns \ {k} PROVE Serial(j)'
    BY <1>1, <1>2, <1>5, <2>2, OthersKept, Zenon DEF Same, TypeOK
  <2>4. Serial(k)'
    BY <1>1, <1>2, <1>3, <1>5, SMTT(30) DEF Serial, TypeOK, Elems
  <2>5. Pooled'
    <3>1. \A j \in Elems(conns) : j # k /\ j \in Conns
      BY <1>2, <1>3 DEF TypeOK, Elems
    <3>2. \A j \in Conns \ {k} : /\ place'[j] = place[j] /\ s'[j] = s[j]
                                 /\ errors'[j] = errors[j] /\ writes'[j] = writes[j]
      BY <1>1, <1>2, <1>5, Zenon DEF TypeOK
    <3> QED
      BY <1>2, <3>1, <3>2, PooledKept, Zenon DEF IInv
  <2> QED
    BY <2>1, <2>2, <2>3, <2>4, <2>5, HeldKept, Zenon DEF IInv
<1>6. CASE ~ok
  <2>1. Over(Elems(writes[k])) /\ \A r \in Elems(writes[k]) : req[r].on = k
    BY <1>1, <1>2, <1>6, EndedFacts, Zenon DEF Serial
  <2>2. TypeOK'
    <3>1. s' \in [Conns -> States] /\ run' \in Conns \cup {0}
      BY <1>1, <1>2, <1>6, Zenon DEF TypeOK, States
    <3>2. <<>> \in Seq(Reqs)
      OBVIOUS
    <3>3. writes' \in [Conns -> Seq(Reqs)]
      BY <1>1, <1>2, <1>6, <3>2, Zenon DEF TypeOK
    <3> QED
      BY <1>2, <1>4, <2>1, <3>1, <3>3, Zenon DEF TypeOK, Over
  <2>3. ASSUME NEW j \in Conns \ {k} PROVE Serial(j)'
    BY <1>1, <1>2, <1>6, <2>1, OthersKept, Zenon DEF Same, TypeOK
  <2>4. Serial(k)'
    <3>1. s'[k] = "CLOSED" /\ writes'[k] = <<>> /\ current'[k] = 0
      BY <1>1, <1>2, <1>3, <1>6, Zenon DEF TypeOK
    <3>2. Elems(<<>>) = {}
      BY DEF Elems
    <3>3. ASSUME NEW r \in Reqs PROVE ~(req'[r].tok = "STARTED" /\ req'[r].on = k)
      <4>1. CASE r \in Elems(writes[k])
        BY <2>1, <4>1, Zenon DEF Over
      <4>2. CASE r \notin Elems(writes[k])
        BY <1>2, <2>1, <4>2, Zenon DEF Serial, Over
      <4> QED
        BY <4>1, <4>2, Zenon
    <3>4. Elems(writes'[k]) = {r \in Reqs : req'[r].tok = "STARTED" /\ req'[r].on = k}
      BY <3>1, <3>2, <3>3
    <3> QED
      BY <3>1, <3>4, Zenon DEF Serial
  <2>5. Pooled'
    <3>1. \A j \in Elems(conns) : j # k /\ j \in Conns
      BY <1>2, <1>3 DEF TypeOK, Elems
    <3>2. \A j \in Conns \ {k} : /\ place'[j] = place[j] /\ s'[j] = s[j]
                                 /\ errors'[j] = errors[j] /\ writes'[j] = writes[j]
      BY <1>1, <1>2, <1>6, Zenon DEF TypeOK
    <3> QED
      BY <1>2, <3>1, <3>2, PooledKept, Zenon DEF IInv
  <2> QED
    BY <2>1, <2>2, <2>3, <2>4, <2>5, HeldKept, Zenon DEF IInv
<1> QED
  BY <1>5, <1>6, Zenon

\* ESTABLISHED finds nothing current, and starts the head of the queue.
LEMMA EstablishedKeeps ==
  ASSUME IInv, NEW k \in Conns, Established(k)
  PROVE  IInv'
<1>1. /\ run = k /\ s[k] = "ESTABLISHED" /\ UNCHANGED <<ret, writes, errors, place, conns, req>>
      /\ TypeOK /\ Serial(k)
  BY Zenon DEF Established, IInv
<1>2. Over({})
  BY <1>1, Zenon DEF Over, TypeOK
<1>3. CASE writes[k] = <<>>
  <2>1. run' = 0 /\ UNCHANGED <<s, current>>
    BY <1>3, Zenon DEF Established
  <2>2. TypeOK'
    BY <1>1, <2>1, Zenon DEF TypeOK
  <2>3. ASSUME NEW j \in Conns \ {k} PROVE Serial(j)'
    BY <1>1, <1>2, <2>1, OthersKept, Zenon DEF Same
  <2>4. Serial(k)'
    BY <1>1, <1>3, <2>1 DEF Serial, Elems
  <2>5. Pooled'
    BY <1>1, <2>1, PooledKept, Zenon DEF IInv
  <2> QED
    BY <1>2, <2>2, <2>3, <2>4, <2>5, HeldKept, Zenon DEF IInv
<1>4. CASE writes[k] # <<>>
  <2>1. /\ current' = [current EXCEPT ![k] = writes[k][1]] /\ run' = run
        /\ s' = [s EXCEPT ![k] = "START"] /\ k \notin Elems(conns)
    BY <1>1, <1>4, SMTT(30) DEF Established, TypeOK, IInv, Pooled
  <2>2. writes[k][1] \in Reqs /\ req[writes[k][1]].tok = "STARTED" /\ writes[k][1] # 0
    <3>1. writes[k][1] \in Elems(writes[k])
      BY <1>1, <1>4 DEF Elems, TypeOK
    <3> QED
      BY <1>1, <3>1, SetFacts, Zenon DEF Serial
  <2>3. TypeOK'
    BY <1>1, <2>1, <2>2, Zenon DEF TypeOK, States
  <2>4. ASSUME NEW j \in Conns \ {k} PROVE Serial(j)'
    BY <1>1, <1>2, <2>1, OthersKept, Zenon DEF Same, TypeOK
  <2>5. Serial(k)'
    <3>1. s'[k] = "START" /\ current'[k] = writes[k][1] /\ writes'[k] = writes[k] /\ ret'[k]
      BY <1>1, <2>1, Zenon DEF Serial, TypeOK
    <3>2. Elems(writes[k])' = {r \in Reqs : req'[r].tok = "STARTED" /\ req'[r].on = k}
      BY <1>1 DEF Serial, Elems
    <3> QED
      BY <1>1, <1>4, <2>2, <3>1, <3>2, Zenon DEF Serial
  <2>6. Pooled'
    BY <1>1, <2>1, PooledKept DEF IInv, TypeOK, Elems
  <2> QED
    BY <1>2, <2>3, <2>4, <2>5, <2>6, HeldKept, Zenon DEF IInv
<1> QED
  BY <1>3, <1>4, Zenon

\* finishCurrentQuery() ends the current request and no other, and takes it off the
\* queue, where it may no longer be.
LEMMA FinishKeeps ==
  ASSUME IInv, NEW k \in Conns, NEW to \in {"ESTABLISHED", "CLOSED"}, FinishCurrentQuery(k, to),
         run = k, s[k] \notin {"CLOSED", "CONNECTING", "ESTABLISHED"},
         run' = IF to = "ESTABLISHED" THEN k ELSE 0,
         ret' = IF to = "ESTABLISHED" THEN ret ELSE [ret EXCEPT ![k] = FALSE],
         errors' \in [Conns -> BOOLEAN], \A j \in Conns \ {k} : errors'[j] = errors[j]
  PROVE  IInv'
<1> DEFINE c == current[k]
<1>1. /\ TypeOK /\ Serial(k) /\ UNCHANGED <<place, conns>> /\ k \notin Elems(conns)
      /\ req' = [req EXCEPT ![c] = Gone] /\ current' = [current EXCEPT ![k] = 0]
      /\ writes' = [writes EXCEPT ![k] = Omit(@, {c})] /\ s' = [s EXCEPT ![k] = to]
  BY Zenon DEF IInv, Pooled, FinishCurrentQuery, Without
<1>2. c \in Reqs /\ (req[c].tok = "STARTED" => req[c].on = k)
  <2>1. c \in Reqs
    BY <1>1, Zenon DEF TypeOK, Serial
  <2>2. ASSUME req[c].tok = "STARTED" PROVE c \in Elems(writes[k])
    BY <1>1, <2>1, <2>2, SetFacts, SMTT(30) DEF TypeOK, Serial, Elems
  <2> QED
    BY <1>1, <2>1, <2>2, Zenon DEF Serial
<1>3. Over({c})
  BY <1>1, <1>2, SetFacts, Zenon DEF Over, TypeOK
<1>4. Omit(writes[k], {c}) \in Seq(Reqs) /\ Elems(Omit(writes[k], {c})) = Elems(writes[k]) \ {c}
  BY <1>1, OmitFacts, SMTT(30) DEF TypeOK
<1>5. TypeOK'
  <2>1. s' \in [Conns -> States] /\ run' \in Conns \cup {0} /\ current' \in [Conns -> Reqs \cup {0}]
    BY <1>1, Zenon DEF TypeOK, States
  <2>2. writes' \in [Conns -> Seq(Reqs)]
    BY <1>1, <1>4, Zenon DEF TypeOK
  <2>3. ret' \in [Conns -> BOOLEAN]
    BY <1>1, Zenon DEF TypeOK
  <2> QED
    BY <1>1, <1>3, <2>1, <2>2, <2>3, Zenon DEF TypeOK, Over
<1>6. ASSUME NEW j \in Conns \ {k} PROVE Serial(j)'
  <2>1. Same(j)
    BY <1>1, Zenon DEF Same, TypeOK
  <2> QED
    BY <1>2, <1>3, <2>1, OthersKept, Zenon
<1>7. Serial(k)'
  <2>1. s'[k] = to /\ current'[k] = 0 /\ writes'[k] = Omit(writes[k], {c})
    BY <1>1, Zenon DEF TypeOK
  <2>2. to = "ESTABLISHED" => ret'[k] /\ run' = k
    BY <1>1, Zenon DEF Serial
  <2>3. Elems(writes'[k]) = {r \in Reqs : req'[r].tok = "STARTED" /\ req'[r].on = k}
    BY <1>1, <1>2, <1>3, <1>4, <2>1, Zenon DEF Serial, Over
  <2>4. Elems(writes[k])' = Elems(writes'[k])
    BY Zenon DEF Elems
  <2> QED
    BY <2>1, <2>2, <2>3, <2>4, Zenon DEF Serial
<1>8. Pooled'
  BY <1>1, PooledKept DEF IInv, TypeOK, Elems
<1> QED
  BY <1>3, <1>5, <1>6, <1>7, <1>8, HeldKept, Zenon DEF IInv

\* Going on to the next row changes nothing but the state.
LEMMA FetchRowKeeps ==
  ASSUME IInv, NEW k \in Conns, NEW n, FetchRow(k, n),
         run = k, s[k] \notin {"CLOSED", "CONNECTING", "ESTABLISHED"}
  PROVE  IInv'
<1>1. /\ TypeOK /\ Serial(k) /\ k \notin Elems(conns) /\ s' = [s EXCEPT ![k] = "FETCH_ROW_START"]
      /\ UNCHANGED <<run, ret, current, writes, errors, place, conns, req>>
  BY Zenon DEF IInv, Pooled, FetchRow
<1>2. Over({})
  BY <1>1, Zenon DEF Over, TypeOK
<1>3. TypeOK'
  BY <1>1, Zenon DEF TypeOK, States
<1>4. ASSUME NEW j \in Conns \ {k} PROVE Serial(j)'
  BY <1>1, <1>2, OthersKept, Zenon DEF Same, TypeOK
<1>5. Serial(k)'
  <2>1. s'[k] = "FETCH_ROW_START"
    BY <1>1, Zenon DEF TypeOK
  <2>2. Elems(writes[k])' = Elems(writes[k])
    BY <1>1, Zenon DEF Elems
  <2> QED
    BY <1>1, <2>1, <2>2, Zenon DEF Serial
<1>6. Pooled'
  BY <1>1, PooledKept DEF IInv, TypeOK, Elems
<1> QED
  BY <1>2, <1>3, <1>4, <1>5, <1>6, HeldKept, Zenon DEF IInv

\* An exception, or the end of the process, leaves everything as it is; the command
\* that threw is still the current one.
LEMMA ThrowsKeeps ==
  ASSUME IInv, NEW k \in Conns, Throws(k) \/ Aborts(k)
  PROVE  IInv'
<1>1. /\ UNCHANGED <<s, ret, current, writes, errors, req, place, conns>> /\ run = k
      /\ run' = run \/ (run' = 0 /\ s[k] = "START")
  BY Zenon DEF Throws, Aborts, connVars
<1>2. TypeOK'
  BY <1>1, Zenon DEF IInv, TypeOK
<1>3. ASSUME NEW j \in Conns PROVE Serial(j)'
  <2>1. Serial(j) /\ Elems(writes[j])' = Elems(writes[j])
    BY <1>1, Zenon DEF IInv, Elems
  <2>2. s[j] = "ESTABLISHED" /\ run' # j => run # j
    BY <1>1, Zenon
  <2> QED
    BY <1>1, <2>1, <2>2, Zenon DEF Serial
<1>4. Held' /\ Pooled'
  BY <1>1, PooledKept, Zenon DEF IInv, Held
<1> QED
  BY <1>2, <1>3, <1>4, Zenon DEF IInv

\* Whatever a call of stateMachine() returns, and whether it waits or throws, the
\* invariant is kept.
LEMMA RoundKeeps ==
  ASSUME IInv, NEW k \in Conns, Round(k)
  PROVE  IInv'
<1>1. ASSUME NEW failed \in BOOLEAN, Counted(k, failed)
      PROVE  errors' \in [Conns -> BOOLEAN] /\ \A j \in Conns \ {k} : errors'[j] = errors[j]
  BY <1>1, Zenon DEF IInv, TypeOK, Counted
<1>2. ASSUME CommandReturns(k) PROVE IInv'
  <2>1. run = k /\ s[k] \in {"START", "CONT"}
    BY <1>2, Zenon DEF CommandReturns
  <2>2. CASE \E n \in 0..MaxRows : FetchRow(k, n)
    BY <2>1, <2>2, FetchRowKeeps, Zenon
  <2>3. CASE /\ \E failed \in BOOLEAN : Counted(k, failed)
             /\ FinishCurrentQuery(k, "ESTABLISHED") /\ run' = Resumed(k) /\ UNCHANGED ret
    BY <1>1, <2>1, <2>3, FinishKeeps, Zenon DEF Resumed
  <2> QED
    BY <1>2, <2>2, <2>3, Zenon DEF CommandReturns
<1>3. ASSUME CloseReturns(k) PROVE IInv'
  <2>1. errors' \in [Conns -> BOOLEAN] /\ \A j \in Conns \ {k} : errors'[j] = errors[j]
    BY <1>3, Zenon DEF CloseReturns, IInv, TypeOK
  <2> QED
    BY <1>3, <2>1, FinishKeeps, Zenon DEF CloseReturns
<1>4. ASSUME FetchReturns(k) PROVE IInv'
  <2>1. run = k /\ s[k] \in {"FETCH_ROW_START", "FETCH_ROW_CONT"}
    BY <1>4, Zenon DEF FetchReturns
  <2>2. CASE FetchRow(k, rows[k] - 1)
    BY <2>1, <2>2, FetchRowKeeps, Zenon
  <2>3. CASE /\ \E failed \in BOOLEAN : Counted(k, failed)
             /\ FinishCurrentQuery(k, "ESTABLISHED") /\ run' = Resumed(k) /\ UNCHANGED ret
    BY <1>1, <2>1, <2>3, FinishKeeps, Zenon DEF Resumed
  <2> QED
    BY <1>4, <2>2, <2>3, Zenon DEF FetchReturns
<1> QED
  BY <1>2, <1>3, <1>4, CallWaitsKeeps, ConnectReturnsKeeps, EstablishedKeeps, ThrowsKeeps, Zenon
     DEF Round, Returns

-----------------------------------------------------------------------------
(* The steps of the clients, the pool and the loop *)

\* A step that only says who owns which connection, or runs a state machine when
\* none is running
LEMMA OwnersChange ==
  ASSUME IInv, UNCHANGED <<s, ret, current, writes, errors, req>>, run = 0, run' \in Conns \cup {0},
         place' \in [Conns -> {"none", "client", "pool", "closing", "dropped"}],
         conns' \in Seq(Conns), Pooled'
  PROVE  IInv'
<1>1. TypeOK /\ TypeOK'
  BY Zenon DEF IInv, TypeOK
<1>2. ASSUME NEW k \in Conns PROVE Serial(k)'
  <2>1. Serial(k) /\ run # k
    BY SetFacts, Zenon DEF IInv
  <2>2. Elems(writes[k])' = Elems(writes[k])
    BY Zenon DEF Elems
  <2> QED
    BY <2>1, <2>2, Zenon DEF Serial
<1>3. Held'
  BY Zenon DEF IInv, Held
<1> QED
  BY <1>1, <1>2, <1>3, Zenon DEF IInv

\* getConnection() takes the last connection out of the pool, or has a new one.
LEMMA GetConnectionKeeps ==
  ASSUME IInv, GetConnection
  PROVE  IInv'
<1>1. run = 0 /\ UNCHANGED <<s, ret, current, writes, errors, req>> /\ TypeOK /\ Pooled
  BY Zenon DEF GetConnection, IInv
<1>2. CASE /\ conns # <<>> /\ place' = [place EXCEPT ![conns[Len(conns)]] = "client"]
           /\ conns' = Upto(conns, Len(conns) - 1) /\ run' = run
  <2> DEFINE n == Len(conns)
  <2>1. n \in Nat /\ n > 0 /\ conns[n] \in Conns /\ n \in 1..n
    BY <1>1, <1>2 DEF TypeOK
  <2>2. /\ conns' \in Seq(Conns) /\ Len(conns') = n - 1
        /\ \A i \in 1..(n - 1) : conns'[i] = conns[i]
    <3>1. n - 1 \in 0..n
      BY <2>1
    <3> HIDE DEF n
    <3> QED
      BY <1>1, <1>2, <3>1, UptoFacts, SMTT(30) DEF TypeOK, n
  <2>3. \A k \in Elems(conns') : k \in Elems(conns) /\ k # conns[n] /\ k \in Conns
    BY <1>1, <2>1, <2>2, SMTT(30) DEF Elems, Pooled, Once, TypeOK
  <2>4. \A k \in Elems(conns') : place'[k] = place[k]
    BY <1>1, <1>2, <2>3, Zenon DEF TypeOK
  <2>5. Once(conns')
    BY <1>1, <2>1, <2>2 DEF Pooled, Once
  <2>6. n - 1 <= MaxIdles
    BY <1>1, <2>1, SizesAssumption DEF Pooled
  <2>7. Pooled'
    BY <1>1, <2>2, <2>3, <2>4, <2>5, <2>6, Zenon DEF Pooled, Elems, Once
  <2>8. place' \in [Conns -> {"none", "client", "pool", "closing", "dropped"}]
    BY <1>1, <1>2, <2>1, Zenon DEF TypeOK
  <2> QED
    BY <1>1, <1>2, <2>2, <2>7, <2>8, OwnersChange, Zenon
<1>3. CASE /\ conns = <<>> /\ UNCHANGED conns
           /\ \E k \in Conns : place' = [place EXCEPT ![k] = "client"] /\ run' = k
  <2>1. Elems(conns) = {}
    BY <1>3, SMTT(30) DEF Elems
  <2>2. Pooled'
    BY <1>1, <1>3, <2>1, PooledKept, Zenon
  <2>3. place' \in [Conns -> {"none", "client", "pool", "closing", "dropped"}] /\ run' \in Conns
    BY <1>1, <1>3, Zenon DEF TypeOK
  <2> QED
    BY <1>1, <1>3, <2>2, <2>3, OwnersChange, Zenon DEF TypeOK
<1> QED
  BY <1>2, <1>3, Zenon DEF GetConnection

\* checkin() keeps an idle connection if it had no error and there is room.
LEMMA CheckinKeeps ==
  ASSUME IInv, NEW k \in Conns, Checkin(k)
  PROVE  IInv'
<1>1. /\ run = 0 /\ place[k] = "client" /\ TypeOK /\ Pooled /\ Serial(k) /\ k \notin Elems(conns)
      /\ UNCHANGED <<run, s, ret, current, writes, errors, req>>
  BY Zenon DEF Checkin, IInv, Pooled, connVars
<1>2. CASE /\ IsIdle(k) /\ Len(conns) < MaxIdles /\ ~errors[k]
           /\ conns' = Append(conns, k) /\ place' = [place EXCEPT ![k] = "pool"]
  <2>1. /\ conns' \in Seq(Conns) /\ Len(conns') = Len(conns) + 1 /\ Len(conns) \in Nat
        /\ Elems(conns') = Elems(conns) \cup {k} /\ Once(conns')
    BY <1>1, <1>2, AppendFacts, SMTT(30) DEF TypeOK, Pooled
  <2>2. Elems(conns) \subseteq Conns
    BY <1>1, SMTT(30) DEF Elems, TypeOK
  <2>4. s[k] = "ESTABLISHED" /\ writes[k] = <<>>
    BY <1>1, <1>2, SetFacts, ZenonT(30) DEF IsIdle, Serial
  <2>5. place'[k] = "pool" /\ \A j \in Elems(conns) : place'[j] = place[j]
    BY <1>1, <1>2, <2>2, Zenon DEF TypeOK
  <2>6. Len(conns') <= MaxIdles
    BY <1>2, <2>1, SizesAssumption, SMTT(30)
  <2>7. Pooled'
    <3>1. \A j \in Elems(conns') : /\ place'[j] = "pool" /\ s'[j] = "ESTABLISHED" /\ ~errors'[j]
                                   /\ writes'[j] = <<>>
      BY <1>1, <1>2, <2>1, <2>2, <2>4, <2>5, Zenon DEF Pooled
    <3> QED
      BY <2>1, <2>6, <3>1, Zenon DEF Pooled, Elems, Once
  <2>8. place' \in [Conns -> {"none", "client", "pool", "closing", "dropped"}]
    BY <1>1, <1>2, Zenon DEF TypeOK
  <2> QED
    BY <1>1, <2>1, <2>7, <2>8, OwnersChange, Zenon
<1>3. CASE (place' = [place EXCEPT ![k] = "closing"] \/ place' = [place EXCEPT ![k] = "dropped"]) /\ UNCHANGED conns
  <2>1. /\ place' \in [Conns -> {"none", "client", "pool", "closing", "dropped"}]
        /\ \A j \in Conns \ {k} : place'[j] = place[j]
    BY <1>1, <1>3, Zenon DEF TypeOK
  <2>2. Elems(conns) \subseteq Conns
    BY <1>1 DEF Elems, TypeOK
  <2>3. Pooled'
    BY <1>1, <1>3, <2>1, <2>2, PooledKept, ZenonT(30)
  <2> QED
    BY <1>1, <1>3, <2>1, <2>3, OwnersChange, Zenon DEF TypeOK
<1> QED
  BY <1>2, <1>3, Zenon DEF Checkin

\* reapConnections() takes some connections out of the pool.
LEMMA OnTimerKeeps ==
  ASSUME IInv, OnTimer
  PROVE  IInv'
<1>1. run = 0 /\ UNCHANGED <<run, s, ret, current, writes, errors, req>> /\ TypeOK /\ Pooled
  BY Zenon DEF OnTimer, IInv, connVars
<1>2. PICK S \in SUBSET Elems(conns) :
        /\ conns' = Omit(conns, S)
        /\ place' = [k \in Conns |-> IF k \in S THEN "closing" ELSE place[k]]
  BY Zenon DEF OnTimer
<1>3. /\ conns' \in Seq(Conns) /\ Len(conns') <= Len(conns) /\ Once(conns')
      /\ Elems(conns') = Elems(conns) \ S
  BY <1>1, <1>2, OmitFacts DEF TypeOK, Pooled
<1>4. place' \in [Conns -> {"none", "client", "pool", "closing", "dropped"}]
  BY <1>1, <1>2, Zenon DEF TypeOK
<1>5. Elems(conns) \subseteq Conns
  BY <1>1 DEF TypeOK, Elems
<1>6. Pooled'
  <2>1. \A k \in Elems(conns') : /\ place'[k] = "pool" /\ s'[k] = "ESTABLISHED" /\ ~errors'[k]
                                 /\ writes'[k] = <<>>
    BY <1>1, <1>2, <1>3, <1>5, Zenon DEF Pooled
  <2>2. Len(conns') <= MaxIdles
    BY <1>1, <1>3, SizesAssumption DEF Pooled, TypeOK
  <2> QED
    BY <1>3, <2>1, <2>2, Zenon DEF Pooled, Elems, Once
<1> QED
  BY <1>1, <1>3, <1>4, <1>6, OwnersChange, Zenon DEF TypeOK

\* doCommand() refuses a request, or queues it and runs the state machine of a
\* connection that has nothing else to do.
LEMMA DoCommandKeeps ==
  ASSUME IInv, NEW k \in Conns, NEW kind \in Kinds, DoCommand(k, kind), place[k] # "pool",
         place' \in [Conns -> {"none", "client", "pool", "closing", "dropped"}],
         \A j \in Conns \ {k} : place'[j] = place[j]
  PROVE  IInv'
<1>1. /\ run = 0 /\ TypeOK /\ Serial(k) /\ Held /\ Pooled /\ k \notin Elems(conns)
      /\ UNCHANGED <<s, ret, current, errors, conns>>
  BY Zenon DEF IInv, DoCommand, Pooled
<1>2. PICK r \in Reqs :
        /\ req[r].tok = "none"
        /\ IF Good(k)
             THEN /\ req' = [req EXCEPT ![r] = [tok |-> "STARTED", kind |-> kind,
                                                on |-> k, held |-> TRUE]]
                  /\ writes' = [writes EXCEPT ![k] = Append(@, r)]
                  /\ run' = IF s[k] = "ESTABLISHED" THEN k ELSE 0
             ELSE req' = [req EXCEPT ![r] = Gone] /\ UNCHANGED <<writes, run>>
  BY Zenon DEF DoCommand, Unused
<1>3. Elems(conns) \subseteq Conns
  BY <1>1 DEF TypeOK, Elems
<1>4. CASE ~Good(k)
  <2>1. Over({r})
    BY <1>1, <1>2, <1>4, SetFacts DEF Over, TypeOK
  <2>2. TypeOK'
    BY <1>1, <1>2, <1>4, <2>1, Zenon DEF TypeOK, Over
  <2>3. ASSUME NEW j \in Conns PROVE Serial(j)'
    <3>1. Serial(j) /\ Same(j) /\ run' # j
      BY <1>1, <1>2, <1>4, SetFacts, Zenon DEF IInv, Same
    <3>2. Elems(writes[j])' = {z \in Reqs : req'[z].tok = "STARTED" /\ req'[z].on = j}
      BY <1>2, <2>1, <3>1 DEF Serial, Same, Elems, Over
    <3>3. current[j] # 0 => current[j] \in Reqs /\ req'[current[j]] = req[current[j]]
      BY <1>1, <1>2, <2>1, <3>1 DEF Serial, TypeOK, Over
    <3> QED
      BY <1>1, <3>1, <3>2, <3>3, SetFacts, Zenon DEF Serial, Same
  <2>4. Pooled'
    BY <1>1, <1>2, <1>3, <1>4, PooledKept, Zenon
  <2> QED
    BY <1>1, <2>1, <2>2, <2>3, <2>4, HeldKept, Zenon DEF IInv
<1>5. CASE Good(k)
  <2> DEFINE new == [tok |-> "STARTED", kind |-> kind, on |-> k, held |-> TRUE]
  <2>1. new \in Requests /\ new.tok = "STARTED" /\ new.on = k
    BY Zenon DEF Requests
  <2>2. /\ req' = [req EXCEPT ![r] = new] /\ writes' = [writes EXCEPT ![k] = Append(@, r)]
        /\ run' = IF s[k] = "ESTABLISHED" THEN k ELSE 0
    BY <1>2, <1>5, Zenon
  <2> HIDE DEF new
  <2>3. /\ req' \in [Reqs -> Requests] /\ req'[r] = new
        /\ \A z \in Reqs \ {r} : req'[z] = req[z]
    BY <1>1, <2>1, <2>2, Zenon DEF TypeOK
  <2>4. /\ Append(writes[k], r) \in Seq(Reqs) /\ Append(writes[k], r) # <<>>
        /\ Elems(Append(writes[k], r)) = Elems(writes[k]) \cup {r}
        /\ writes[k] # <<>> => Append(writes[k], r)[1] = writes[k][1]
    BY <1>1, AppendFacts, SMTT(30) DEF TypeOK
  <2>5. /\ writes' \in [Conns -> Seq(Reqs)] /\ writes'[k] = Append(writes[k], r)
        /\ \A j \in Conns \ {k} : writes'[j] = writes[j]
    BY <1>1, <2>2, <2>4, Zenon DEF TypeOK
  <2>6. TypeOK'
    BY <1>1, <2>2, <2>3, <2>5, Zenon DEF TypeOK
  <2>7. ASSUME NEW j \in Conns PROVE current[j] # 0 => current[j] \in Reqs /\ req'[current[j]] = req[current[j]]
    <3>1. Serial(j)
      BY Zenon DEF IInv
    <3> QED
      BY <1>1, <1>2, <2>3, <3>1 DEF Serial, TypeOK
  <2>8. ASSUME NEW j \in Conns \ {k} PROVE Serial(j)'
    <3>1. Serial(j) /\ Same(j) /\ run # j
      BY <1>1, <2>5, SetFacts, Zenon DEF IInv, Same
    <3>2. Elems(writes[j])' = {z \in Reqs : req'[z].tok = "STARTED" /\ req'[z].on = j}
      BY <1>2, <2>1, <2>3, <3>1, SMTT(30) DEF Serial, Same, Elems
    <3> QED
      BY <1>1, <2>7, <3>1, <3>2, ZenonT(30) DEF Serial, Same
  <2>9. Serial(k)'
    <3>1. Elems(writes'[k]) = {z \in Reqs : req'[z].tok = "STARTED" /\ req'[z].on = k}
      <4>1. Elems(writes[k]) = {z \in Reqs : req[z].tok = "STARTED" /\ req[z].on = k}
        BY <1>1, Zenon DEF Serial
      <4>2. \A z \in Reqs : req'[z].tok = "STARTED" /\ req'[z].on = k
                             <=> z = r \/ (req[z].tok = "STARTED" /\ req[z].on = k)
        BY <2>1, <2>3, ZenonT(30)
      <4> QED
        BY <2>4, <2>5, <4>1, <4>2
    <3>2. Elems(writes[k])' = Elems(writes'[k])
      BY Zenon DEF Elems
    <3>3. current[k] # 0 /\ req[current[k]].tok = "STARTED" => writes'[k] # <<>> /\ writes'[k][1] = current[k]
      BY <1>1, <2>4, <2>5, Zenon DEF Serial
    <3>4. s[k] = "ESTABLISHED" => run' = k
      BY <2>2, Zenon
    <3> QED
      BY <1>1, <2>7, <3>1, <3>2, <3>3, <3>4, Zenon DEF Serial
  <2>10. Held'
    BY <1>1, <2>1, <2>3, ZenonT(30) DEF Held
  <2>11. Pooled'
    BY <1>1, <1>3, <2>5, PooledKept, Zenon
  <2> QED
    BY <2>6, <2>8, <2>9, <2>10, <2>11, Zenon DEF IInv
<1> QED
  BY <1>4, <1>5, Zenon

\* Dropping a future leaves the queues alone, whether or not the process survives it.
LEMMA DropFutureKeeps ==
  ASSUME IInv, NEW r \in Reqs, DropFuture(r)
  PROVE  IInv'
<1>1. /\ TypeOK /\ Held /\ Pooled /\ req' = [req EXCEPT ![r].held = FALSE]
      /\ UNCHANGED <<run, s, ret, current, writes, errors, place, conns>>
  BY Zenon DEF DropFuture, IInv, connVars
<1>2. /\ req' \in [Reqs -> Requests]
      /\ \A z \in Reqs : req'[z].tok = req[z].tok /\ req'[z].on = req[z].on /\ (req'[z].held => req[z].held)
  BY <1>1, ZenonT(30) DEF TypeOK, Requests
<1>3. TypeOK'
  BY <1>1, <1>2, Zenon DEF TypeOK
<1>4. ASSUME NEW j \in Conns PROVE Serial(j)'
  <2>1. Serial(j) /\ current[j] \in Reqs \cup {0}
    BY <1>1, Zenon DEF IInv, TypeOK
  <2>2. Elems(writes[j])' = {z \in Reqs : req'[z].tok = "STARTED" /\ req'[z].on = j}
    BY <1>1, <1>2, <2>1 DEF Serial, Elems
  <2> QED
    BY <1>1, <1>2, <2>1, <2>2, Zenon DEF Serial
<1>5. Held' /\ Pooled'
  BY <1>1, <1>2, PooledKept, Zenon DEF Held
<1> QED
  BY <1>3, <1>4, <1>5, Zenon DEF IInv

\* The executor's stop cancels what is queued; what is under way goes on.
LEMMA CleanupKeeps ==
  ASSUME IInv, NEW k \in Conns, Cleanup(k)
  PROVE  IInv'
<1>1. /\ run = 0 /\ TypeOK /\ Held /\ Pooled /\ Serial(k)
      /\ Ended(Elems(writes[k])) /\ writes' = [writes EXCEPT ![k] = <<>>]
      /\ UNCHANGED <<run, s, ret, current, errors, place, conns>>
  BY Zenon DEF Cleanup, IInv
<1>2. Over(Elems(writes[k])) /\ \A r \in Elems(writes[k]) : req[r].on = k
  BY <1>1, EndedFacts, Zenon DEF Serial
<1>3. <<>> \in Seq(Reqs)
  BY SMTT(30)
<1>4. /\ writes' \in [Conns -> Seq(Reqs)] /\ writes'[k] = <<>>
      /\ \A j \in Conns \ {k} : writes'[j] = writes[j]
  BY <1>1, <1>3, Zenon DEF TypeOK
<1>5. TypeOK'
  BY <1>1, <1>2, <1>4, Zenon DEF TypeOK, Over
<1>6. ASSUME NEW j \in Conns \ {k} PROVE Serial(j)'
  BY <1>1, <1>2, <1>4, OthersKept, SetFacts, Zenon DEF Same
<1>7. Serial(k)'
  <2>1. Elems(writes[k])' = {}
    BY <1>4, SMTT(30) DEF Elems
  <2>2. \A r \in Reqs : ~(req'[r].tok = "STARTED" /\ req'[r].on = k)
    BY <1>1, <1>2, Zenon DEF Serial, Over
  <2>3. current[k] # 0 => req'[current[k]].tok \notin {"none", "STARTED"}
    <3> SUFFICES ASSUME current[k] # 0 PROVE req'[current[k]].tok \notin {"none", "STARTED"}
      BY ZenonT(30)
    <3>1. current[k] \in Reqs /\ req[current[k]].tok # "none"
      BY <1>1, Zenon DEF TypeOK, Serial
    <3>2. req[current[k]].tok = "STARTED" => current[k] \in Elems(writes[k])
      BY <1>1, <3>1, SMTT(30) DEF Serial, TypeOK, Elems
    <3> QED
      BY <1>2, <3>1, <3>2, ZenonT(30) DEF Over
  <2> QED
    BY <1>1, <1>4, <2>1, <2>2, <2>3, ZenonT(30) DEF Serial
<1>8. Pooled'
  <2>1. Elems(conns) \subseteq Conns
    BY <1>1, SMTT(30) DEF TypeOK, Elems
  <2>2. \A j \in Elems(conns) : writes'[j] = writes[j]
    BY <1>1, <1>4, <2>1, Zenon DEF Pooled
  <2> QED
    BY <1>1, <2>2, PooledKept, Zenon
<1> QED
  BY <1>1, <1>2, <1>5, <1>6, <1>7, <1>8, HeldKept, Zenon DEF IInv

\* A connection that nobody owns goes, with its requests.
LEMMA DestroyKeeps ==
  ASSUME IInv, NEW k \in Conns, Destroy(k)
  PROVE  IInv'
<1> DEFINE S == {current[k]} \cup Elems(writes[k])
<1>1. /\ run = 0 /\ place[k] = "dropped" /\ TypeOK /\ Held /\ Pooled /\ Serial(k)
      /\ req' = [r \in Reqs |-> IF r \in S THEN Gone ELSE req[r]]
      /\ s' = [s EXCEPT ![k] = "CLOSED"] /\ ret' = [ret EXCEPT ![k] = FALSE]
      /\ current' = [current EXCEPT ![k] = 0] /\ writes' = [writes EXCEPT ![k] = <<>>]
      /\ errors' = [errors EXCEPT ![k] = FALSE] /\ place' = [place EXCEPT ![k] = "none"]
      /\ UNCHANGED <<run, conns>>
  BY Zenon DEF Destroy, Unowned, IInv
<1>2. \A r \in Reqs \cap S : req[r].tok = "STARTED" => req[r].on = k
  <2>1. \A r \in Elems(writes[k]) : req[r].on = k
    BY <1>1, Zenon DEF Serial
  <2>2. current[k] \in Reqs /\ req[current[k]].tok = "STARTED" => current[k] \in Elems(writes[k])
    BY <1>1, SetFacts DEF Serial, TypeOK, Elems
  <2> QED
    BY <2>1, <2>2, Zenon
<1>3. Over(S)
  BY <1>1, SetFacts, Zenon DEF Over, TypeOK
<1>4. <<>> \in Seq(Reqs)
  OBVIOUS
<1> HIDE DEF S
<1>5. /\ s' \in [Conns -> States] /\ ret' \in [Conns -> BOOLEAN] /\ errors' \in [Conns -> BOOLEAN]
      /\ current' \in [Conns -> Reqs \cup {0}] /\ writes' \in [Conns -> Seq(Reqs)]
      /\ place' \in [Conns -> {"none", "client", "pool", "closing", "dropped"}]
      /\ \A j \in Conns \ {k} : Same(j) /\ errors'[j] = errors[j] /\ place'[j] = place[j]
      /\ s'[k] = "CLOSED" /\ current'[k] = 0 /\ writes'[k] = <<>>
  BY <1>1, <1>4, Zenon DEF TypeOK, States, Same
<1>6. TypeOK'
  BY <1>1, <1>3, <1>5, Zenon DEF TypeOK, Over
<1>7. ASSUME NEW j \in Conns \ {k} PROVE Serial(j)'
  BY <1>1, <1>2, <1>3, <1>5, OthersKept, SetFacts, Zenon
<1>8. Serial(k)'
  <2>1. Elems(writes[k])' = {}
    BY <1>5, SMTT(30) DEF Elems
  <2>2. \A r \in Reqs : ~(req'[r].tok = "STARTED" /\ req'[r].on = k)
    BY <1>1, <1>3, Zenon DEF Serial, Over, S
  <2> QED
    BY <1>5, <2>1, <2>2, Zenon DEF Serial
<1>9. Pooled'
  <2>1. Elems(conns) \subseteq Conns /\ k \notin Elems(conns)
    BY <1>1, SMTT(30) DEF TypeOK, Elems, Pooled
  <2> QED
    BY <1>1, <1>5, <2>1, PooledKept, ZenonT(30) DEF Same
<1> QED
  BY <1>1, <1>3, <1>6, <1>7, <1>8, <1>9, HeldKept, Zenon DEF IInv

-----------------------------------------------------------------------------
(* The theorems *)

\* IInv holds in every state of every behaviour of the pool and its connections.
THEOREM Invariance == Spec => []IInv
<1>1. Init => IInv
  <2> SUFFICES ASSUME Init PROVE IInv
    OBVIOUS
  <2>1. /\ [Gone EXCEPT !.tok = "none"] \in Requests
        /\ <<>> \in Seq(Reqs) /\ <<>> \in Seq(Conns)
    <3>1. [Gone EXCEPT !.tok = "none"] \in Requests
      BY Zenon DEF Gone, Requests, Kinds
    <3> QED
      BY <3>1
  <2>2. TypeOK
    BY <2>1, Zenon DEF Init, TypeOK, States
  <2>3. \A r \in Reqs : req[r].tok = "none" /\ ~req[r].held
    BY Zenon DEF Init, Gone
  <2>4. ASSUME NEW k \in Conns PROVE Serial(k)
    BY <2>3 DEF Init, Serial, Elems
  <2>5. Pooled
    BY SizesAssumption, SMTT(30) DEF Init, Pooled, Once, Elems
  <2> QED
    BY <2>2, <2>3, <2>4, <2>5, Zenon DEF IInv, Held
<1>2. IInv /\ [Next]_vars => IInv'
  <2> SUFFICES ASSUME IInv, [Next]_vars PROVE IInv'
    OBVIOUS
  <2>1. ASSUME NEW k \in Conns, OnEvent(k) PROVE IInv'
    <3>1. UNCHANGED <<s, ret, current, writes, errors, req, place, conns>> /\ run = 0 /\ run' = k
      BY <2>1, Zenon DEF OnEvent, connVars
    <3>2. Pooled'
      BY <3>1, PooledKept, ZenonT(30) DEF IInv
    <3> QED
      BY <3>1, <3>2, OwnersChange, Zenon DEF IInv, TypeOK
  <2>2. ASSUME NEW k \in Conns, Command(k) PROVE IInv'
    BY <2>2, DoCommandKeeps, Zenon DEF Command, IInv, TypeOK
  <2>3. ASSUME NEW k \in Conns, Close(k) PROVE IInv'
    <3>1. /\ place' \in [Conns -> {"none", "client", "pool", "closing", "dropped"}]
          /\ \A j \in Conns \ {k} : place'[j] = place[j]
      BY <2>3, Zenon DEF Close, IInv, TypeOK
    <3> QED
      BY <2>3, <3>1, DoCommandKeeps, Zenon DEF Close, Kinds
  <2>4. CASE UNCHANGED vars
    <3>1. UNCHANGED <<run, s, ret, current, writes, errors, req, place, conns>>
      BY <2>4, Zenon DEF vars, connVars
    <3> QED
      BY <3>1 DEF IInv, TypeOK, Serial, Held, Pooled, Elems, Once
  <2> QED
    BY Zenon, <2>1, <2>2, <2>3, <2>4, RoundKeeps, GetConnectionKeeps, CheckinKeeps, OnTimerKeeps,
       DropFutureKeeps, CleanupKeeps, DestroyKeeps
    DEF Next
<1> QED
  BY <1>1, <1>2, PTL DEF Spec

\* For any number of connections and requests, a connection works on one request at
\* a time, and every request that is STARTED is queued on its connection.
THEOREM OneAtATimeHolds == Spec => []OneAtATime
<1>1. IInv => OneAtATime
  <2> SUFFICES ASSUME IInv, NEW k \in Conns
               PROVE  /\ s[k] = "ESTABLISHED" => current[k] = 0 /\ (run # k => writes[k] = <<>>)
                      /\ s[k] \notin {"CLOSED", "CONNECTING", "ESTABLISHED"} => current[k] # 0
                      /\ current[k] # 0 /\ req[current[k]].tok = "STARTED" => Head(writes[k]) = current[k]
                      /\ Elems(writes[k]) = {r \in Reqs : req[r].tok = "STARTED" /\ req[r].on = k}
    BY ZenonT(30) DEF OneAtATime
  <2>1. Serial(k) /\ writes[k] \in Seq(Reqs)
    BY Zenon DEF IInv, TypeOK
  <2>2. writes[k] # <<>> => Head(writes[k]) = writes[k][1]
    BY <2>1, SMTT(30)
  <2> QED
    BY <2>1, <2>2, ZenonT(30) DEF Serial
<1> QED
  BY <1>1, Invariance, PTL

\* For any max_idles_, only open connections that are idle, had no error and have no
\* request left are in the pool, each once.
THEOREM OnlyGoodOnesArePooledHolds == Spec => []OnlyGoodOnesArePooled
<1>1. IInv => OnlyGoodOnesArePooled
  <2> SUFFICES ASSUME IInv PROVE OnlyGoodOnesArePooled
    BY Zenon
  <2>1. Len(conns) <= MaxIdles /\ DOMAIN conns = 1..Len(conns)
    BY SMTT(30) DEF IInv, Pooled, TypeOK
  <2>2. ASSUME NEW i \in DOMAIN conns
        PROVE  /\ place[conns[i]] = "pool" /\ \A j \in DOMAIN conns : conns[j] = conns[i] => j = i
               /\ s[conns[i]] = "ESTABLISHED" /\ ret[conns[i]] /\ ~errors[conns[i]]
               /\ current[conns[i]] = 0 /\ \A r \in Reqs : req[r].held => req[r].on # conns[i]
    <3>1. PICK k \in Conns : k = conns[i] /\ k \in Elems(conns)
      BY <2>1, SMTT(30) DEF IInv, TypeOK, Elems
    <3>2. Serial(k) /\ place[k] = "pool" /\ s[k] = "ESTABLISHED" /\ ~errors[k] /\ writes[k] = <<>>
      BY <3>1, Zenon DEF IInv, Pooled
    <3>3. ret[k] /\ current[k] = 0
      BY <3>2, Zenon DEF Serial
    <3>4. \A r \in Reqs : ~(req[r].tok = "STARTED" /\ req[r].on = k)
      BY <3>2, SMTT(30) DEF Serial, Elems
    <3>5. \A r \in Reqs : req[r].held => req[r].on # k
      BY <3>4, Zenon DEF IInv, Held
    <3>6. \A j \in DOMAIN conns : conns[j] = conns[i] => j = i
      BY <2>1, Zenon DEF IInv, Pooled, Once
    <3> QED
      BY <3>1, <3>2, <3>3, <3>5, <3>6, ZenonT(30)
  <2> QED
    BY <2>1, <2>2, Zenon DEF OnlyGoodOnesArePooled
<1> QED
  BY <1>1, Invariance, PTL

\* Request r is owned after a step if it was and its owner did not let go of it.
Carried(r) ==
  req'[r].tok = "STARTED" =>
    \/ req'[r].held
    \/ \E k \in Conns : current'[k] = r
    \/ req[r].tok = "STARTED" /\ req'[r].held = req[r].held /\ current' = current

\* Ending requests takes no owner from the others.
LEMMA OverCarries ==
  ASSUME NEW S, Over(S), current' = current
  PROVE  \A r \in Reqs : Carried(r)
BY Zenon DEF Over, Carried

\* Neither does the end of the current request of a connection.
LEMMA FinishCarries ==
  ASSUME IInv, ~died, StartedIsOwned, NEW k \in Conns, NEW S, Over(S), current[k] \in S \cup {0},
         current' = [current EXCEPT ![k] = 0]
  PROVE  \A r \in Reqs : Carried(r)
<1> SUFFICES ASSUME NEW r \in Reqs, req'[r].tok = "STARTED"
             PROVE  req'[r].held \/ \E j \in Conns : current'[j] = r
  BY Zenon DEF Carried
<1>1. r \notin S /\ req'[r] = req[r]
  BY Zenon DEF Over
<1>2. current[k] # r
  BY <1>1, SetFacts
<1>3. \A j \in Conns : current[j] = r => current'[j] = r
  BY <1>2, Zenon DEF IInv, TypeOK
<1> QED
  BY <1>1, <1>3, Zenon DEF StartedIsOwned

\* No step of a connection's state machine takes the owner from a request that goes on.
LEMMA RoundCarries ==
  ASSUME IInv, ~died, StartedIsOwned, NEW k \in Conns, Round(k), ~died'
  PROVE  \A r \in Reqs : Carried(r)
<1>1. ASSUME UNCHANGED <<current, req>> PROVE \A r \in Reqs : Carried(r)
  BY <1>1, Zenon DEF Carried
<1>2. ASSUME NEW to, FinishCurrentQuery(k, to), s[k] \notin {"CLOSED", "CONNECTING", "ESTABLISHED"}
      PROVE  \A r \in Reqs : Carried(r)
  <2>1. current[k] \in Reqs
    BY <1>2, Zenon DEF IInv, Serial, TypeOK
  <2>2. Over({current[k]})
    BY <1>2, <2>1, SetFacts, Zenon DEF FinishCurrentQuery, Over, IInv, TypeOK
  <2> QED
    BY <1>2, <2>2, FinishCarries, Zenon DEF FinishCurrentQuery
<1>3. ASSUME ConnectReturns(k) PROVE \A r \in Reqs : Carried(r)
  <2>1. current' = current /\ (req' = req \/ Ended(Elems(writes[k])))
    BY <1>3, Zenon DEF ConnectReturns
  <2> QED
    BY <1>1, <2>1, EndedFacts, OverCarries, Zenon DEF IInv
<1>4. ASSUME Established(k), NEW r \in Reqs PROVE Carried(r)
  <2>1. current[k] = 0 /\ req' = req /\ current \in [Conns -> Reqs \cup {0}] /\ r # 0
    BY <1>4, SetFacts, Zenon DEF Established, IInv, Serial, TypeOK
  <2>2. \A j \in Conns : current[j] = r => current'[j] = r
    BY <1>4, <2>1, Zenon DEF Established
  <2> QED
    BY <2>1, <2>2, Zenon DEF Carried, StartedIsOwned
<1>5. ASSUME Returns(k), ~ConnectReturns(k) PROVE \A r \in Reqs : Carried(r)
  <2>1. \/ UNCHANGED <<current, req>>
        \/ \E to \in {"ESTABLISHED", "CLOSED"} : FinishCurrentQuery(k, to)
    BY <1>5, Zenon DEF Returns, CommandReturns, CloseReturns, FetchReturns, FetchRow
  <2>2. s[k] \notin {"CLOSED", "CONNECTING", "ESTABLISHED"}
    BY <1>5, Zenon DEF Returns, CommandReturns, CloseReturns, FetchReturns
  <2> QED
    BY <1>1, <1>2, <2>1, <2>2, Zenon
<1>6. ASSUME CallWaits(k) \/ Throws(k) \/ Aborts(k) PROVE UNCHANGED <<current, req>>
  BY <1>6, Zenon DEF CallWaits, Throws, Aborts, connVars
<1> QED
  BY <1>1, <1>3, <1>4, <1>5, <1>6, Zenon DEF Round

\* While the process lives, whatever the number of connections and requests, a
\* request that is STARTED has an owner, its future or current_: ~CompletionToken finds
\* none half way but for the drop of a queued request, which ends the process.
THEOREM StartedIsOwnedHolds == Spec => []StartedIsOwned
<1>1. Init => StartedIsOwned
  <2> SUFFICES ASSUME Init PROVE StartedIsOwned
    OBVIOUS
  <2>1. \A r \in Reqs : req[r].tok = "none"
    BY Zenon DEF Init, Gone
  <2> QED
    BY <2>1 DEF StartedIsOwned
<1>2. IInv /\ StartedIsOwned /\ [Next]_vars => StartedIsOwned'
  <2> SUFFICES ASSUME IInv, StartedIsOwned, Next, ~died' PROVE StartedIsOwned'
    <3>1. CASE UNCHANGED vars
      BY <3>1, Zenon DEF vars, connVars, StartedIsOwned
    <3> QED
      BY <3>1, Zenon DEF StartedIsOwned
  <2>1. ~died
    BY Zenon DEF Next
  <2>2. ASSUME \A r \in Reqs : Carried(r) PROVE StartedIsOwned'
    BY <2>1, <2>2, Zenon DEF Carried, StartedIsOwned
  <2>3. ASSUME UNCHANGED <<current, req>> PROVE \A r \in Reqs : Carried(r)
    BY <2>3, Zenon DEF Carried
  <2>4. ASSUME NEW k \in Conns, Destroy(k) PROVE \A r \in Reqs : Carried(r)
    <3>1. Over({current[k]} \cup Elems(writes[k]))
      BY <2>4, SetFacts, Zenon DEF Destroy, Over, IInv, TypeOK
    <3> QED
      BY <2>1, <2>4, <3>1, FinishCarries, Zenon DEF Destroy
  <2>5. ASSUME NEW k \in Conns, Cleanup(k) PROVE \A r \in Reqs : Carried(r)
    BY <2>5, EndedFacts, OverCarries, Zenon DEF Cleanup, IInv
  <2>6. ASSUME NEW k \in Conns, NEW kind \in Kinds, DoCommand(k, kind), NEW r \in Reqs PROVE Carried(r)
    <3> DEFINE new == [tok |-> "STARTED", kind |-> kind, on |-> k, held |-> TRUE]
    <3>1. new.held
      BY Zenon
    <3>2. PICK q \in Reqs : req' = [req EXCEPT ![q] = new] \/ req' = [req EXCEPT ![q] = Gone]
      BY <2>6, Zenon DEF DoCommand
    <3> HIDE DEF new
    <3>3. (req'[r] = req[r] \/ req'[r] = new \/ req'[r] = Gone) /\ current' = current
      BY <2>6, <3>2, Zenon DEF IInv, TypeOK, DoCommand
    <3>4. Gone.tok # "STARTED"
      BY Zenon DEF Gone
    <3> QED
      BY <3>1, <3>3, <3>4, Zenon DEF Carried
  <2>7. ASSUME NEW q \in Reqs, DropFuture(q), NEW r \in Reqs PROVE Carried(r)
    <3>1. /\ req' = [req EXCEPT ![q].held = FALSE] /\ current' = current
          /\ current[req[q].on] = q /\ req[q].on \in Conns
      BY <2>7, Zenon DEF DropFuture, connVars, IInv, Held
    <3>2. r # q => req'[r] = req[r]
      BY <3>1, Zenon DEF IInv, TypeOK
    <3> QED
      BY <3>1, <3>2, Zenon DEF Carried
  <2>8. ASSUME NEW k \in Conns, Command(k) \/ Close(k) PROVE \A r \in Reqs : Carried(r)
    BY <2>6, <2>8, Zenon DEF Command, Close, Kinds
  <2>9. ASSUME NEW k \in Conns, OnEvent(k) \/ Checkin(k) PROVE UNCHANGED <<current, req>>
    BY <2>9, Zenon DEF OnEvent, Checkin, connVars
  <2>10. ASSUME GetConnection \/ OnTimer PROVE UNCHANGED <<current, req>>
    BY <2>10, Zenon DEF GetConnection, OnTimer, connVars
  <2>11. ASSUME NEW k \in Conns, Round(k) PROVE \A r \in Reqs : Carried(r)
    BY <2>1, <2>11, RoundCarries, Zenon
  <2> QED
    BY <2>2, <2>3, <2>4, <2>5, <2>7, <2>8, <2>9, <2>10, <2>11, Zenon DEF Next
<1> QED
  BY <1>1, <1>2, Invariance, PTL DEF Spec
=============================================================================
