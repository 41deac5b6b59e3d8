----------------------------- MODULE CallProofs -----------------------------
(***************************************************************************)
(* Calls over a connection, and the timeouts of calls.                     *)
(*                                                                         *)
(* TimerKeeper: one watcher is enough for any number of timeouts of one    *)
(* length.                                                                 *)
(*                                                                         *)
(* RpcConnection: for any number of calls and any bound on the requests in *)
(* flight, a call gets the answer to its own request.  In a multiplexer the*)
(* callid sees to it.  In a pipeline nothing in a frame tells whose answer *)
(* it is, and the property depends on everything between the two           *)
(* dispatchers: the promises of the client are, in this order, the calls   *)
(* whose answers it has read, those whose answers are on the wire, in the  *)
(* server's sink, being served, read by the server, on the wire to it, in  *)
(* the client's sink, and not yet sent (InOrder).                          *)
(***************************************************************************)
EXTENDS TimerKeeper, RpcConnection, ListsProofs

-----------------------------------------------------------------------------
(* The timeouts of one length *)

\* The deadlines on a list do not decrease.
Sorted(s) == \A i, j \in 1..Len(s) : i < j => deadline[s[i]] <= deadline[s[j]]

\* The list is in the order of the deadlines, all of them at most one timeout
\* away: that is why the watcher may be armed for the front alone.
Ordered ==
  /\ Sorted(list)
  /\ \A c \in Elems(list) : deadline[c] <= now + Timeout

\* The tokens that wait are those on the list.
Waiting ==
  /\ Elems(list) = {c \in Clients : tok[c] = "STARTED"}
  /\ Once(list)
  /\ \A c \in Elems(list) : task[c] # "over"
  /\ \A c \in Clients : task[c] = "over" => tok[c] = "none"

\* The watcher is early enough for the list.
Covered == \A c \in Elems(list) : armed # Off /\ armed <= deadline[c]

KeeperInv == KeeperTypeOK /\ Waiting /\ Ordered /\ Covered

-----------------------------------------------------------------------------
\* Every step keeps the types.
LEMMA KeeperTypes == KeeperTypeOK /\ Waiting /\ [KeeperNext]_keeperVars => KeeperTypeOK'
<1> SUFFICES ASSUME KeeperTypeOK, Waiting, [KeeperNext]_keeperVars PROVE KeeperTypeOK'
  OBVIOUS
<1> USE TimeAssumption
<1>1. ASSUME NEW c \in Clients, PollNotReady(c) PROVE KeeperTypeOK'
  <2>1. list' \in Seq(Clients)
    <3>1. list' = list \/ list' = Append(list, c)
      BY <1>1, Zenon DEF PollNotReady
    <3>2. list \in Seq(Clients)
      BY Zenon DEF KeeperTypeOK
    <3> QED
      BY <3>1, <3>2
  <2>2. armed' \in Nat \cup {Off}
    BY <1>1 DEF KeeperTypeOK, PollNotReady, ArmedWith
  <2>3. deadline' \in [Clients -> Nat]
    <3>1. deadline' = deadline \/ deadline' = [deadline EXCEPT ![c] = now + Timeout]
      BY <1>1, Zenon DEF PollNotReady
    <3>2. now + Timeout \in Nat /\ deadline \in [Clients -> Nat]
      BY DEF KeeperTypeOK
    <3> QED
      BY <3>1, <3>2, Zenon
  <2> QED
    BY <1>1, <2>1, <2>2, <2>3, Zenon DEF KeeperTypeOK, PollNotReady
<1>2. ASSUME NEW c \in Clients, PollValue(c) PROVE KeeperTypeOK'
  <2>1. list' \in Seq(Clients)
    BY <1>2, UnlinkedFacts, Zenon DEF KeeperTypeOK, Waiting, PollValue, Dropped
  <2>2. armed' \in Nat \cup {Off}
    BY <1>2 DEF KeeperTypeOK, PollValue, ArmedWith
  <2> QED
    BY <1>2, <2>1, <2>2, Zenon DEF KeeperTypeOK, PollValue, Clear
<1>3. ASSUME NEW c \in Clients, PollTimer(c) PROVE KeeperTypeOK'
  BY <1>3, Zenon DEF KeeperTypeOK, PollTimer, Clear
<1>4. ASSUME NEW c \in Clients, DropFuture(c) PROVE KeeperTypeOK'
  <2>1. list' \in Seq(Clients)
    BY <1>4, UnlinkedFacts, Zenon DEF KeeperTypeOK, Waiting, DropFuture, Dropped
  <2> QED
    BY <1>4, <2>1, Zenon DEF KeeperTypeOK, DropFuture, Clear
<1>5. ASSUME NEW c \in Clients, FinishWork(c) PROVE KeeperTypeOK'
  BY <1>5, Zenon DEF KeeperTypeOK, FinishWork, Wake
<1>6. ASSUME OnTimer PROVE KeeperTypeOK'
  <2>1. PICK n \in 0..Len(list) :
           /\ list' = From(list, n)
           /\ tok' = [c \in Clients |-> IF c \in Elems(Upto(list, n)) THEN "DONE" ELSE tok[c]]
           /\ Wake(Elems(Upto(list, n)))
           /\ n < Len(list) => ~Due(list[n + 1])
    BY <1>6, Zenon DEF OnTimer
  <2>2. Len(list) \in Nat /\ \A i \in 1..Len(list) : list[i] \in Clients
    BY DEF KeeperTypeOK
  <2>3. list' \in Seq(Clients)
    BY <2>1, FromFacts, Zenon DEF KeeperTypeOK, Waiting
  <2>4. armed' \in Nat \cup {Off}
    <3>1. CASE n = Len(list)
      BY <1>6, <2>1, <3>1, FromFacts, Zenon DEF OnTimer, Rearmed, KeeperTypeOK, Waiting
    <3>2. CASE n < Len(list)
      <4>1. list' # <<>> /\ Head(list') = list[n + 1] /\ n + 1 \in 1..Len(list)
        BY <2>1, <2>2, <3>2, FromFacts, SMTT(30) DEF KeeperTypeOK, Waiting
      <4>2. armed' = deadline[list[n + 1]]
        BY <1>6, <4>1, Zenon DEF OnTimer, Rearmed
      <4> QED
        BY <2>2, <4>1, <4>2, Zenon DEF KeeperTypeOK
    <3>3. n = Len(list) \/ n < Len(list)
      BY <2>1, <2>2
    <3> QED
      BY <3>1, <3>2, <3>3, Zenon
  <2>5. tok' \in [Clients -> {"none", "STARTED", "DONE", "CANCELLED"}]
    BY <2>1, Zenon DEF KeeperTypeOK
  <2>6. task' \in [Clients -> {"queued", "idle", "over"}]
    BY <2>1, Zenon DEF KeeperTypeOK, Wake
  <2> QED
    BY <1>6, <2>3, <2>4, <2>5, <2>6, Zenon DEF KeeperTypeOK, OnTimer
<1>7. ASSUME Cleanup PROVE KeeperTypeOK'
  <2>1. list' \in Seq(Clients)
    BY <1>7 DEF Cleanup
  <2> QED
    BY <1>7, <2>1, Zenon DEF KeeperTypeOK, Cleanup, Wake
<1>8. ASSUME Stop \/ Tick \/ UNCHANGED keeperVars PROVE KeeperTypeOK'
  <2>1. CASE Tick
    BY <2>1 DEF KeeperTypeOK, Tick
  <2>2. CASE Stop
    BY <2>2, Zenon DEF KeeperTypeOK, Stop
  <2>3. CASE UNCHANGED keeperVars
    BY <2>3, Zenon DEF KeeperTypeOK, keeperVars
  <2> QED
    BY <1>8, <2>1, <2>2, <2>3, Zenon
<1> QED
  BY <1>1, <1>2, <1>3, <1>4, <1>5, <1>6, <1>7, <1>8, Zenon DEF KeeperNext, Poll

-----------------------------------------------------------------------------
\* A list that loses elements stays in order and covered.
LEMMA FewerWait ==
  ASSUME KeeperInv, KeeperTypeOK', NEW s, Once(s), list' = s, SubList(s, list),
         Elems(s) \subseteq Elems(list),
         \A c \in Elems(s) : deadline'[c] = deadline[c],
         now' = now
  PROVE  Ordered'
<1>1. Sorted(list)'
  <2> SUFFICES ASSUME NEW i \in 1..Len(s), NEW j \in 1..Len(s), i < j
               PROVE  deadline'[s[i]] <= deadline'[s[j]]
    BY Zenon DEF Sorted
  <2>1. PICK k \in 1..Len(list), l \in 1..Len(list) : k < l /\ s[i] = list[k] /\ s[j] = list[l]
    BY Zenon DEF SubList
  <2>2. deadline[list[k]] <= deadline[list[l]]
    BY <2>1, Zenon DEF KeeperInv, Ordered, Sorted
  <2>3. s[i] \in Elems(s) /\ s[j] \in Elems(s)
    BY Zenon DEF Elems
  <2> QED
    BY <2>1, <2>2, <2>3
<1>2. \A c \in Elems(s) : deadline'[c] <= now' + Timeout
  BY Zenon DEF KeeperInv, Ordered
<1> QED
  BY <1>1, <1>2, Zenon DEF Ordered

\* Every step keeps the list alive, in order and covered.
LEMMA ListStep == KeeperInv /\ KeeperTypeOK' /\ [KeeperNext]_keeperVars => Waiting' /\ Ordered' /\ Covered'
<1> SUFFICES ASSUME KeeperInv, KeeperTypeOK', [KeeperNext]_keeperVars PROVE Waiting' /\ Ordered' /\ Covered'
  OBVIOUS
<1> USE TimeAssumption
<1>0. /\ list \in Seq(Clients) /\ Once(list)
      /\ Elems(list) = {c \in Clients : tok[c] = "STARTED"}
      /\ \A c \in Elems(list) : deadline[c] \in Nat /\ now + Timeout \in Nat
      /\ \A c \in Elems(list) : armed # Off /\ armed <= deadline[c] /\ deadline[c] <= now + Timeout
  BY DEF KeeperInv, KeeperTypeOK, Waiting, Covered, Ordered
<1>1. ASSUME NEW c \in Clients, PollNotReady(c) PROVE Waiting' /\ Ordered' /\ Covered'
  <2>1. CASE tok[c] = "none"
    <3>1. c \notin Elems(list) /\ list' = Append(list, c)
      BY <1>0, <1>1, <2>1, Zenon DEF PollNotReady
    <3>2. /\ list' \in Seq(Clients) /\ Once(list') /\ Elems(list') = Elems(list) \cup {c}
          /\ Len(list) \in Nat /\ Len(list') = Len(list) + 1 /\ list'[Len(list) + 1] = c
          /\ \A i \in 1..Len(list) : list'[i] = list[i]
      BY <1>0, <3>1, AppendFacts
    <3>3. \A d \in Clients : /\ tok'[d] = IF d = c THEN "STARTED" ELSE tok[d]
                             /\ task'[d] = IF d = c THEN "idle" ELSE task[d]
                             /\ deadline'[d] = IF d = c THEN now + Timeout ELSE deadline[d]
      BY <1>1, <2>1, SMTT(30) DEF PollNotReady, KeeperInv, KeeperTypeOK
    <3>4. Waiting'
      BY <1>0, <3>2, <3>3, SMTT(30) DEF KeeperInv, Waiting, Once
    <3>5. Sorted(list)'
      <4> SUFFICES ASSUME NEW i \in 1..Len(list'), NEW j \in 1..Len(list'), i < j
                   PROVE  deadline'[list'[i]] <= deadline'[list'[j]]
        BY Zenon DEF Sorted
      <4>1. i \in 1..Len(list) /\ list'[i] = list[i] /\ list[i] \in Elems(list)
        BY <3>2 DEF Elems
      <4>2. deadline'[list'[i]] = deadline[list[i]] /\ deadline[list[i]] <= now + Timeout
        BY <1>0, <3>1, <3>3, <4>1, Zenon
      <4>3. CASE j = Len(list) + 1
        BY <3>2, <3>3, <4>2, <4>3, Zenon
      <4>4. CASE j \in 1..Len(list)
        <5>1. list'[j] = list[j] /\ list[j] \in Elems(list)
          BY <3>2, <4>4, Zenon DEF Elems
        <5>2. deadline'[list'[j]] = deadline[list[j]]
          BY <1>0, <3>1, <3>3, <5>1, Zenon
        <5>3. deadline[list[i]] <= deadline[list[j]]
          BY <4>1, <4>4, Zenon DEF KeeperInv, Ordered, Sorted
        <5> QED
          BY <4>2, <5>2, <5>3, Zenon
      <4> QED
        BY <3>2, <4>3, <4>4
    <3>6. now' = now /\ \A d \in Elems(list') : deadline'[d] <= now' + Timeout
      BY <1>0, <1>1, <3>2, <3>3, SMTT(30) DEF PollNotReady, KeeperInv, KeeperTypeOK
    <3>7. armed' = IF list = <<>> THEN now + Timeout ELSE armed
      BY <1>1, <2>1, Zenon DEF PollNotReady, ArmedWith
    <3>8. Covered'
      <4>1. CASE list = <<>>
        <5>1. Elems(list) = {}
          BY <4>1 DEF Elems
        <5> QED
          BY <3>2, <3>3, <3>7, <4>1, <5>1 DEF Covered, Off, KeeperInv, KeeperTypeOK
      <4>2. CASE list # <<>>
        <5>1. list[1] \in Elems(list)
          BY <1>0, <4>2 DEF Elems
        <5>2. armed # Off /\ armed \in Nat /\ armed <= now + Timeout
          BY <1>0, <5>1 DEF KeeperInv, KeeperTypeOK
        <5> QED
          BY <1>0, <3>2, <3>3, <3>7, <4>2, <5>2, Zenon DEF Covered
      <4> QED
        BY <4>1, <4>2, Zenon
    <3> QED
      BY <3>4, <3>5, <3>6, <3>8, Zenon DEF Ordered
  <2>2. CASE tok[c] # "none"
    <3>1. UNCHANGED <<tok, deadline, list, armed, now>> /\ tok[c] = "STARTED"
      BY <1>1, <2>2, Zenon DEF PollNotReady
    <3>2. \A d \in Clients : task'[d] = IF d = c THEN "idle" ELSE task[d]
      BY <1>1 DEF PollNotReady, KeeperInv, KeeperTypeOK
    <3>3. Waiting'
      <4>1. Elems(list') = Elems(list) /\ Once(list')
        BY <1>0, <3>1, Zenon DEF Elems
      <4>2. \A d \in Clients : task'[d] = "over" => tok'[d] = "none"
        BY <3>1, <3>2, Zenon DEF KeeperInv, Waiting
      <4>3. \A d \in Elems(list) : task'[d] # "over"
        BY <1>0, <3>1, <3>2, Zenon DEF KeeperInv, Waiting
      <4> QED
        BY <1>0, <3>1, <4>1, <4>2, <4>3, Zenon DEF Waiting, Once, Elems
    <3> QED
      BY <3>1, <3>3, Zenon DEF KeeperInv, Ordered, Sorted, Covered, Elems
  <2> QED
    BY <2>1, <2>2, Zenon
<1>2. ASSUME NEW c \in Clients, NEW out, NEW s, Clear(c, out), Unlinked(list, c, s),
             list' = s, now' = now, armed' = armed \/ (list = <<>>)
      PROVE  Waiting' /\ Ordered' /\ Covered'
  <2>1. s \in Seq(Clients) /\ Once(s) /\ Elems(s) = Elems(list) \ {c} /\ SubList(s, list)
    BY <1>0, <1>2, UnlinkedFacts, Zenon
  <2>2. \A d \in Clients : /\ tok'[d] = IF d = c THEN "none" ELSE tok[d]
                           /\ task'[d] = IF d = c THEN "over" ELSE task[d]
                           /\ deadline'[d] = IF d = c THEN 0 ELSE deadline[d]
    BY <1>2, SMTT(30) DEF Clear, KeeperInv, KeeperTypeOK
  <2>3. Waiting'
    BY <1>0, <1>2, <2>1, <2>2, SMTT(60) DEF KeeperInv, Waiting, Once
  <2>4. \A d \in Elems(s) : deadline'[d] = deadline[d]
    BY <1>0, <2>1, <2>2, Zenon
  <2>5. Ordered'
    BY <1>2, <2>1, <2>4, FewerWait, Zenon
  <2>6. Covered'
    <3>1. CASE list = <<>>
      <4>1. Elems(list) = {}
        BY <3>1 DEF Elems
      <4> QED
        BY <1>2, <2>1, <4>1, Zenon DEF Covered
    <3>2. CASE armed' = armed
      BY <1>0, <1>2, <2>1, <2>4, <3>2, Zenon DEF Covered
    <3> QED
      BY <1>2, <3>1, <3>2, Zenon
  <2> QED
    BY <2>3, <2>5, <2>6, Zenon
<1>3. ASSUME NEW c \in Clients, PollValue(c) \/ DropFuture(c) PROVE Waiting' /\ Ordered' /\ Covered'
  <2>1. Unlinked(list, c, list') /\ now' = now /\ (armed' = armed \/ list = <<>>)
    BY <1>3, Zenon DEF PollValue, DropFuture, Dropped, ArmedWith
  <2>2. \E out : Clear(c, out)
    BY <1>3, Zenon DEF PollValue, DropFuture
  <2> QED
    BY <1>2, <2>1, <2>2, Zenon
<1>4. ASSUME NEW c \in Clients, PollTimer(c) PROVE Waiting' /\ Ordered' /\ Covered'
  <2>1. c \notin Elems(list)
    BY <1>0, <1>4, Zenon DEF PollTimer
  <2>2. Unlinked(list, c, list)
    BY <2>1, Zenon DEF Unlinked
  <2>3. list' = list /\ now' = now /\ armed' = armed /\ \E out : Clear(c, out)
    BY <1>4, Zenon DEF PollTimer
  <2> QED
    BY <1>2, <2>2, <2>3, Zenon
<1>5. ASSUME NEW c \in Clients, FinishWork(c) PROVE Waiting' /\ Ordered' /\ Covered'
  <2>1. UNCHANGED <<tok, deadline, list, armed, now>>
    BY <1>5, Zenon DEF FinishWork
  <2>2. \A d \in Clients : task'[d] = "over" <=> task[d] = "over"
    BY <1>5, Zenon DEF FinishWork, Wake
  <2>3. Waiting'
    BY <1>0, <2>1, <2>2 DEF KeeperInv, Waiting, Elems, Once
  <2> QED
    BY <2>1, <2>3, Zenon DEF KeeperInv, Ordered, Sorted, Covered, Elems
<1>6. ASSUME OnTimer PROVE Waiting' /\ Ordered' /\ Covered'
  <2>1. PICK n \in 0..Len(list) :
           /\ list' = From(list, n)
           /\ tok' = [c \in Clients |-> IF c \in Elems(Upto(list, n)) THEN "DONE" ELSE tok[c]]
           /\ Wake(Elems(Upto(list, n)))
    BY <1>6, Zenon DEF OnTimer
  <2> DEFINE done == Elems(Upto(list, n))
             s == From(list, n)
  <2>2. /\ s \in Seq(Clients) /\ Once(s) /\ SubList(s, list)
        /\ Elems(s) = Elems(list) \ done
        /\ n = Len(list) => s = <<>>
        /\ n < Len(list) => s # <<>> /\ Head(s) = list[n + 1]
    BY <1>0, FromFacts, SMTT(30)
  <2>3. /\ list' = s /\ now' = now /\ deadline' = deadline /\ armed' = Rearmed(s)
        /\ \A c \in Clients : /\ tok'[c] = IF c \in done THEN "DONE" ELSE tok[c]
                              /\ task'[c] = "over" <=> task[c] = "over"
        /\ done \subseteq Elems(list)
    <3>1. done \subseteq Elems(list)
      BY <1>0, FromFacts, Zenon
    <3>2. \A c \in Clients : task'[c] = "over" <=> task[c] = "over"
      BY <2>1, Zenon DEF Wake
    <3>3. list' = s /\ now' = now /\ deadline' = deadline /\ armed' = Rearmed(s)
      BY <1>6, <2>1, Zenon DEF OnTimer, Rearmed
    <3> QED
      BY <2>1, <3>1, <3>2, <3>3, Zenon
  <2> HIDE DEF done, s
  <2>4. Waiting'
    BY <1>0, <2>2, <2>3, SMTT(60) DEF KeeperInv, Waiting, Once
  <2>5. Ordered'
    BY <2>2, <2>3, FewerWait, Zenon
  <2>6. Covered'
    <3>1. CASE s = <<>>
      <4>1. Elems(s) = {}
        BY <3>1 DEF Elems
      <4> QED
        BY <2>3, <4>1, Zenon DEF Covered
    <3>2. CASE s # <<>>
      <4>1. armed' = deadline'[s[1]] /\ Len(s) \in Nat \ {0}
        BY <2>2, <2>3, <3>2, SMTT(60) DEF Rearmed
      <4>2. ASSUME NEW c \in Elems(s) PROVE deadline'[s[1]] <= deadline'[c]
        <5>1. PICK j \in 1..Len(s) : c = s[j]
          BY Zenon DEF Elems
        <5>2. CASE j = 1
          <6>1. c \in Clients /\ deadline'[c] \in Nat
            BY <1>0, <2>2, <2>3, Zenon DEF KeeperTypeOK
          <6> QED
            BY <5>1, <5>2, <6>1
        <5>3. CASE j > 1
          BY <2>3, <2>5, <4>1, <5>1, <5>3 DEF Ordered, Sorted
        <5> QED
          BY <4>1, <5>2, <5>3
      <4>3. s[1] \in Clients
        BY <2>2, <4>1
      <4>4. armed' # Off
        BY <2>3, <4>1, <4>3 DEF Off, KeeperInv, KeeperTypeOK
      <4> QED
        BY <2>3, <4>1, <4>2, <4>4, Zenon DEF Covered
    <3> QED
      BY <3>1, <3>2, Zenon
  <2> QED
    BY <2>4, <2>5, <2>6, Zenon
<1>7. ASSUME Cleanup PROVE Waiting' /\ Ordered' /\ Covered'
  <2>1. list' = <<>> /\ Len(<<>>) = 0 /\ Elems(list') = {}
    BY <1>7 DEF Cleanup, Elems
  <2>2. \A c \in Clients : /\ tok'[c] = IF c \in Elems(list) THEN "CANCELLED" ELSE tok[c]
                           /\ task'[c] = "over" <=> task[c] = "over"
    BY <1>7, Zenon DEF Cleanup, Wake
  <2>3. Waiting'
    <3>1. Once(list')
      BY <2>1 DEF Once
    <3>2. {c \in Clients : tok'[c] = "STARTED"} = {}
      BY <1>0, <2>2, Zenon
    <3>3. \A c \in Clients : task'[c] = "over" => tok'[c] = "none"
      BY <2>2, Zenon DEF KeeperInv, Waiting
    <3> QED
      BY <2>1, <3>1, <3>2, <3>3, Zenon DEF Waiting, Once, Elems
  <2>4. Ordered' /\ Covered'
    BY <2>1 DEF Ordered, Sorted, Covered
  <2> QED
    BY <2>3, <2>4, Zenon
<1>8. ASSUME Tick PROVE Waiting' /\ Ordered' /\ Covered'
  <2>1. UNCHANGED <<tok, task, deadline, list, armed>> /\ now \in Nat /\ now' = now + 1
    BY <1>8, Zenon DEF Tick, KeeperInv, KeeperTypeOK
  <2>2. Waiting' /\ Covered' /\ Sorted(list)'
    BY <2>1, SMTT(60) DEF KeeperInv, Waiting, Once, Elems, Covered, Ordered, Sorted
  <2>3. \A c \in Elems(list) : deadline[c] <= now' + Timeout
    BY <1>0, <2>1
  <2> QED
    BY <2>1, <2>2, <2>3, Zenon DEF Ordered, Elems
<1>9. ASSUME Stop \/ UNCHANGED keeperVars PROVE Waiting' /\ Ordered' /\ Covered'
  <2>1. UNCHANGED <<tok, task, deadline, list, armed, now>>
    BY <1>9, Zenon DEF Stop, keeperVars
  <2> QED
    BY <2>1, SMTT(60) DEF KeeperInv, Waiting, Once, Elems, Covered, Ordered, Sorted
<1> QED
  BY <1>1, <1>3, <1>4, <1>5, <1>6, <1>7, <1>8, <1>9, Zenon DEF KeeperNext, Poll

\* The invariant holds from the start on.
THEOREM KeeperInvariance == KeeperSpec => []KeeperInv
<1>1. KeeperInit => KeeperInv
  <2> SUFFICES ASSUME KeeperInit PROVE KeeperInv
    OBVIOUS
  <2>1. list = <<>> /\ Len(<<>>) = 0 /\ list \in Seq(Clients) /\ Elems(list) = {}
    BY DEF KeeperInit, Elems
  <2>2. KeeperTypeOK
    BY <2>1, Zenon DEF KeeperInit, KeeperTypeOK
  <2>3. Waiting /\ Ordered /\ Covered
    BY <2>1 DEF KeeperInit, Waiting, Once, Ordered, Sorted, Covered
  <2> QED
    BY <2>2, <2>3, Zenon DEF KeeperInv
<1>2. KeeperInv /\ [KeeperNext]_keeperVars => KeeperInv'
  BY KeeperTypes, ListStep, Zenon DEF KeeperInv
<1> QED
  BY <1>1, <1>2, PTL DEF KeeperSpec

\* The watcher is early enough for every token that waits, for any number of
\* clients, any length of the timeout and for ever.
THEOREM NoTokenIsMissedHolds == KeeperSpec => []NoTokenIsMissed
<1>1. KeeperInv => NoTokenIsMissed
  BY Zenon DEF KeeperInv, Waiting, Covered, NoTokenIsMissed
<1> QED
  BY <1>1, KeeperInvariance, PTL

\* The list holds exactly the tokens that wait, each once, and all alive.
THEOREM ListIsAliveHolds == KeeperSpec => []ListIsAlive
<1>1. KeeperInv => ListIsAlive
  BY Zenon DEF KeeperInv, Waiting, Once, ListIsAlive
<1> QED
  BY <1>1, KeeperInvariance, PTL

-----------------------------------------------------------------------------
(* The connection: RpcFuture, dispatchers and sinks *)

Answers == {"none", "waiting", "own", "another's", "broken", "error"}
Ends == {"no", "ok", "error"}
Reqs == {"none", "pending", "done", "error"}

TypeOK ==
  /\ mode \in {"pipeline", "multiplex"} /\ closed \in BOOLEAN
  /\ todo \in Seq(Calls) /\ promises \in Seq(Calls) /\ work \in Seq(Calls)
  /\ answer \in [Calls -> Answers]
  /\ over \in [Sides -> Ends] /\ req \in [Sides -> Reqs]
  /\ q \in [Sides -> Seq(Calls)] /\ w \in [Sides -> Seq(Calls)]
  /\ rbuf \in [Sides -> Seq(Calls)] /\ wire \in [Sides -> Seq(Calls)]

\* Only a write that is under way, of an RpcFuture that is not over, has frames.
Writing == \A x \in Sides : req[x] # "pending" \/ over[x] # "no" => w[x] = <<>>

\* The calls under way, from the answers that come next to the requests not yet sent
Coming == Then(rbuf["client"], wire["server"])
Answered == Then(w["server"], q["server"])
Asked == Then(work, rbuf["server"])
Going == Then(wire["client"], w["client"])
Unsent == Then(q["client"], todo)

\* The promises of a pipeline are those calls, in that order; what the server held
\* is lost when it is over.
Flow(rest) ==
  /\ promises = Then(Coming, rest)
  /\ over["server"] = "no" => rest = Then(Then(Answered, Asked), Then(Going, Unsent))
InOrder ==
  mode = "pipeline" /\ ~closed /\ over["client"] = "no" => \E rest \in Seq(Calls) : Flow(rest)

\* After close() only the calls made since are waited for.
LateOnly == closed => Elems(promises) \subseteq late

IInv == TypeOK /\ Writing /\ InOrder /\ LateOnly /\ AnswersMatch

-----------------------------------------------------------------------------
\* The client has read the frames fs.
Read(fs) == fs = rbuf["client"]

\* What dispatch() of answers does to the calls.  In a pipeline that is open the
\* answers and the promises have the same order; in one that is closed only late
\* calls get answers.
LEMMA DispatchedFacts ==
  ASSUME IInv, over["client"] = "no", NEW fs, Read(fs), NEW n,
         mode = "pipeline" => n \in 0..Len(fs) /\ n <= Len(promises)
  PROVE  /\ Dispatched(fs, n) \in [Calls -> Answers]
         /\ \A c \in Calls \ late : Dispatched(fs, n)[c] # "another's"
         /\ Left(fs, n) \in Seq(Calls) /\ Elems(Left(fs, n)) \subseteq Elems(promises)
<1> DEFINE a == Dispatched(fs, n)  p == Left(fs, n)
           on == wire["server"]
<1>1. /\ fs \in Seq(Calls) /\ promises \in Seq(Calls) /\ answer \in [Calls -> Answers]
      /\ on \in Seq(Calls)
  BY Zenon DEF IInv, TypeOK, Sides, Read
<1>2. \A c \in Calls \ late : answer[c] # "another's"
  BY Zenon DEF IInv, AnswersMatch
<1>3. CASE mode = "multiplex"
  <2>1. a = [c \in Calls |-> IF c \in Elems(Upto(fs, n)) THEN "own" ELSE answer[c]]
    BY <1>3, Zenon DEF Dispatched
  <2>2. p = Omit(promises, Elems(Upto(fs, n)))
    BY <1>3, Zenon DEF Left
  <2>3. p \in Seq(Calls) /\ Elems(p) \subseteq Elems(promises)
    BY <1>1, <2>2, OmitFacts
  <2> HIDE DEF a, p
  <2>4. a \in [Calls -> Answers] /\ \A c \in Calls \ late : a[c] # "another's"
    BY <1>1, <1>2, <2>1, Zenon DEF Answers
  <2> QED
    BY <2>3, <2>4, Zenon DEF a, p
<1>4. CASE mode = "pipeline"
  <2>1. n \in 0..Len(fs) /\ n \in 0..Len(promises)
    BY <1>1, <1>4
  <2>2. a = [c \in Calls |->
               IF \E i \in 1..n : promises[i] = c
                 THEN Value(c, fs[CHOOSE i \in 1..n : promises[i] = c]) ELSE answer[c]]
    BY <1>4, Zenon DEF Dispatched
  <2>3. p = From(promises, n)
    BY <1>4, Zenon DEF Left
  <2>4. p \in Seq(Calls) /\ Elems(p) \subseteq Elems(promises)
    BY <1>1, <2>1, <2>3, CutFacts, ZenonT(30)
  <2>5. a \in [Calls -> Answers]
    BY <1>1, <2>2, Zenon DEF Value, Answers
  <2>6. ASSUME NEW c \in Calls \ late PROVE a[c] # "another's"
    <3>1. CASE \E i \in 1..n : promises[i] = c
      <4> DEFINE i == CHOOSE i \in 1..n : promises[i] = c
      <4>1. i \in 1..n /\ promises[i] = c
        BY <3>1, Zenon
      <4>2. a[c] = Value(c, fs[i])
        BY <2>2, <3>1, Zenon
      <4> HIDE DEF i
      <4>3. CASE closed
        BY <1>1, <2>1, <4>1, <4>3 DEF IInv, LateOnly, Elems
      <4>4. CASE ~closed
        <5>1. PICK rest \in Seq(Calls) : promises = Then(Then(fs, on), rest)
          BY <1>4, <4>4, Zenon DEF IInv, InOrder, Flow, Coming, Read
        <5> HIDE DEF on
        <5> DEFINE b == Then(on, rest)
        <5>2. Joins(Calls)
          BY JoinFacts, Zenon
        <5>3. b \in Seq(Calls) /\ promises = Then(fs, b)
          BY <1>1, <5>1, <5>2 DEF Joins
        <5> HIDE DEF b
        <5>4. \A j \in 1..Len(fs) : promises[j] = fs[j]
          BY <1>1, <5>3, FromConcat, Zenon
        <5>5. i \in 1..Len(fs)
          BY <1>1, <2>1, <4>1
        <5> QED
          BY <4>1, <4>2, <5>4, <5>5, Zenon DEF Value
      <4> QED
        BY <4>3, <4>4, Zenon
    <3>2. CASE ~\E i \in 1..n : promises[i] = c
      BY <1>2, <2>2, <3>2, Zenon
    <3> QED
      BY <3>1, <3>2, Zenon
  <2> QED
    BY <2>4, <2>5, <2>6, Zenon
<1> QED
  BY <1>3, <1>4, Zenon DEF IInv, TypeOK

-----------------------------------------------------------------------------
(* The part of a poll that both sides share *)

\* Side x has been polled, with the frames f to send: unless it is over they follow
\* what it was writing.
Turn(x, f) ==
  /\ over' \in [Sides -> Ends] /\ req' \in [Sides -> Reqs]
  /\ q' \in [Sides -> Seq(Calls)] /\ w' \in [Sides -> Seq(Calls)]
  /\ rbuf' \in [Sides -> Seq(Calls)] /\ rbuf'[x] = <<>>
  /\ req'[x] # "pending" \/ over'[x] # "no" => w'[x] = <<>>
  /\ over'[x] = "no" => Then(w'[x], q'[x]) = Then(w[x], f)
  /\ \A y \in Sides \ {x} : /\ over'[y] = over[y] /\ req'[y] = req[y]
                            /\ q'[y] = q[y] /\ w'[y] = w[y] /\ rbuf'[y] = rbuf[y]

\* The RpcFuture goes on, or ends, as t says.
LEMMA BecomeTurns ==
  ASSUME TypeOK, NEW x \in Sides, NEW f, NEW t, Become(x, t), t.over \in Ends,
         t.over = "no" => /\ t.q \in Seq(Calls) /\ t.w \in Seq(Calls) /\ t.req \in Reqs
                          /\ t.req # "pending" => t.w = <<>>
                          /\ Then(t.w, t.q) = Then(w[x], f)
  PROVE  Turn(x, f) /\ over'[x] = t.over
<1>1. <<>> \in Seq(Calls)
  BY JoinFacts, Zenon DEF Joins
<1>2. /\ over \in [Sides -> Ends] /\ req \in [Sides -> Reqs]
      /\ q \in [Sides -> Seq(Calls)] /\ w \in [Sides -> Seq(Calls)] /\ rbuf \in [Sides -> Seq(Calls)]
  BY Zenon DEF TypeOK
<1>3. /\ over' = [over EXCEPT ![x] = t.over]
      /\ q' = [q EXCEPT ![x] = IF t.over = "no" THEN t.q ELSE <<>>]
      /\ w' = [w EXCEPT ![x] = IF t.over = "no" THEN t.w ELSE <<>>]
      /\ req' = [req EXCEPT ![x] = IF t.over = "no" THEN t.req ELSE "none"]
      /\ rbuf' = [rbuf EXCEPT ![x] = <<>>]
  BY Zenon DEF Become
<1>4. "none" \in Reqs
  BY Zenon DEF Reqs
<1> DEFINE no == t.over = "no"  o == t.over  tq == t.q  tw == t.w  tr == t.req
<1> HIDE DEF o, tq, tw, tr
<1>5. CASE no
  <2>1. /\ over' = [over EXCEPT ![x] = o] /\ q' = [q EXCEPT ![x] = tq] /\ o \in Ends
        /\ w' = [w EXCEPT ![x] = tw] /\ req' = [req EXCEPT ![x] = tr]
        /\ tq \in Seq(Calls) /\ tw \in Seq(Calls) /\ tr \in Reqs
        /\ tr # "pending" => tw = <<>>
        /\ Then(tw, tq) = Then(w[x], f)
    BY <1>3, <1>5, Zenon DEF o, tq, tw, tr
  <2> HIDE DEF no
  <2>3. w'[x] = tw /\ q'[x] = tq /\ req'[x] = tr /\ over'[x] = o /\ rbuf'[x] = <<>>
    BY <1>2, <1>3, <2>1, Zenon
  <2>4. /\ Then(w'[x], q'[x]) = Then(w[x], f)
        /\ req'[x] # "pending" \/ over'[x] # "no" => w'[x] = <<>>
    BY <1>5, <2>1, <2>3, Zenon DEF no, o
  <2>5. /\ over' \in [Sides -> Ends] /\ req' \in [Sides -> Reqs]
        /\ q' \in [Sides -> Seq(Calls)] /\ w' \in [Sides -> Seq(Calls)]
        /\ rbuf' \in [Sides -> Seq(Calls)]
    BY <1>1, <1>2, <1>3, <2>1, SMTT(30)
  <2>6. \A y \in Sides \ {x} : /\ over'[y] = over[y] /\ req'[y] = req[y]
                                /\ q'[y] = q[y] /\ w'[y] = w[y] /\ rbuf'[y] = rbuf[y]
    BY <1>2, <1>3, <2>1
  <2>2. Turn(x, f) /\ over'[x] = o
    BY <2>3, <2>4, <2>5, <2>6, Zenon DEF Turn
  <2> QED
    BY <2>2, Zenon DEF o
<1>6. CASE ~no
  <2>1. /\ over' = [over EXCEPT ![x] = o] /\ q' = [q EXCEPT ![x] = <<>>] /\ o \in Ends
        /\ w' = [w EXCEPT ![x] = <<>>] /\ req' = [req EXCEPT ![x] = "none"] /\ o # "no"
    BY <1>3, <1>6, Zenon DEF o
  <2> HIDE DEF no
  <2>3. over'[x] = o /\ w'[x] = <<>> /\ rbuf'[x] = <<>>
    BY <1>2, <1>3, <2>1, Zenon
  <2>4. /\ over' \in [Sides -> Ends] /\ req' \in [Sides -> Reqs]
        /\ q' \in [Sides -> Seq(Calls)] /\ w' \in [Sides -> Seq(Calls)]
        /\ rbuf' \in [Sides -> Seq(Calls)]
    BY <1>1, <1>2, <1>3, <1>4, <2>1
  <2>5. \A y \in Sides \ {x} : /\ over'[y] = over[y] /\ req'[y] = req[y]
                                /\ q'[y] = q[y] /\ w'[y] = w[y] /\ rbuf'[y] = rbuf[y]
    BY <1>2, <1>3, <2>1
  <2>2. Turn(x, f) /\ over'[x] = o
    BY <2>1, <2>3, <2>4, <2>5, Zenon DEF Turn
  <2> QED
    BY <2>2, Zenon DEF o
<1> QED
  BY <1>5, <1>6, Zenon

\* A poll that fails
LEMMA FailsTurns ==
  ASSUME TypeOK, NEW x \in Sides, NEW f, Fails(x)
  PROVE  Turn(x, f) /\ over'[x] = "error"
<1> DEFINE t == [over |-> "error", shut |-> "yes", rc |-> rc[x], wc |-> wc[x]]
<1>1. t.over = "error" /\ Become(x, t)
  BY Zenon DEF Fails
<1> HIDE DEF t
<1>2. t.over \in Ends /\ t.over # "no"
  BY <1>1, Zenon DEF Ends
<1> QED
  BY <1>1, <1>2, BecomeTurns, Zenon

\* A poll that flushes the frames f: a write starts with all of them, or they wait
\* for the one that is under way.
LEMMA FlushedTurns ==
  ASSUME TypeOK, Writing, NEW x \in Sides, NEW f \in Seq(Calls),
         NEW eof, NEW wclosed, NEW busy,
         Become(x, Flushed(x, f, eof, wclosed, busy))
  PROVE  Turn(x, f) /\ over'[x] = Flushed(x, f, eof, wclosed, busy).over
<1> DEFINE sh == IF wclosed /\ ~wc[x] THEN ShutdownWrite(req[x]) ELSE shut[x]
           p == PollComplete(x, f, sh)
           fin == LastSent(eof, busy)
           t == Flushed(x, f, eof, wclosed, busy)
<1>1. /\ t.q = p.q /\ t.w = p.w /\ t.req = p.req
      /\ t.over = IF p.req = "error" THEN "error"
                  ELSE IF eof /\ (wclosed \/ fin) THEN "ok" ELSE "no"
  BY Zenon DEF Flushed
<1>2. Become(x, t)
  OBVIOUS
<1>3. Joins(Calls)
  BY JoinFacts, Zenon
<1>4. req[x] \in Reqs /\ w[x] \in Seq(Calls) /\ (req[x] # "pending" => w[x] = <<>>)
  BY Zenon DEF TypeOK, Writing
<1> HIDE DEF t, fin, sh
<1>5. CASE req[x] = "none" /\ f # <<>>
  <2>1. p = [q |-> <<>>, w |-> f, req |-> IF sh = "no" THEN "pending" ELSE "error"]
    BY <1>5, Zenon DEF PollComplete
  <2>2. p.q = <<>> /\ p.w = f /\ p.req = IF sh = "no" THEN "pending" ELSE "error"
    BY <2>1, SMTT(30)
  <2> HIDE DEF p
  <2>3. Then(f, <<>>) = Then(w[x], f)
    BY <1>3, <1>4, <1>5, Zenon DEF Joins
  <2>4. t.over \in Ends /\ (t.over = "no" => t.req = "pending")
    <3>1. p.req = "pending" \/ p.req = "error"
      BY <2>2, Zenon
    <3>2. p.req = "error" => t.over = "error"
      BY <1>1, Zenon
    <3>3. t.over = "error" \/ t.over = "ok" \/ t.over = "no"
      BY <1>1, Zenon
    <3> QED
      BY <1>1, <3>1, <3>2, <3>3, Zenon DEF Ends
  <2>5. t.q \in Seq(Calls) /\ t.w \in Seq(Calls) /\ Then(t.w, t.q) = Then(w[x], f)
    BY <1>1, <1>3, <2>2, <2>3, Zenon DEF Joins
  <2> QED
    BY <1>2, <2>4, <2>5, BecomeTurns, ZenonT(30) DEF Reqs, t
<1>6. CASE ~(req[x] = "none" /\ f # <<>>)
  <2>1. p = [q |-> f, w |-> w[x], req |-> IF req[x] = "done" THEN "none" ELSE req[x]]
    BY <1>6, Zenon DEF PollComplete
  <2>2. p.q = f /\ p.w = w[x] /\ p.req = IF req[x] = "done" THEN "none" ELSE req[x]
    BY <2>1, SMTT(30)
  <2> HIDE DEF p
  <2>4. t.over \in Ends /\ t.req \in Reqs /\ (t.req # "pending" => w[x] = <<>>)
    BY <1>1, <1>4, <2>2, Zenon DEF Ends, Reqs
  <2>5. t.q \in Seq(Calls) /\ t.w \in Seq(Calls) /\ t.q = f /\ t.w = w[x]
    BY <1>1, <1>4, <2>2, Zenon
  <2> QED
    BY <1>2, <2>4, <2>5, BecomeTurns, Zenon DEF t
<1> QED
  BY <1>5, <1>6, Zenon

-----------------------------------------------------------------------------
(* The client's steps *)

\* A call is made: it is the last one in the order.
LEMMA CallKeeps == ASSUME IInv, NEW c \in Calls, Call(c) PROVE IInv'
<1>1. /\ todo \in Seq(Calls) /\ promises \in Seq(Calls) /\ answer \in [Calls -> Answers]
      /\ todo' = Append(todo, c) /\ promises' = Append(promises, c)
      /\ answer' = [answer EXCEPT ![c] = "waiting"]
      /\ UNCHANGED <<mode, closed, work, over, req, q, w, rbuf, wire>>
  BY Zenon DEF IInv, TypeOK, Call, serverVars, sinkVars, closedVars, streamVars
<1>2. /\ late' = IF closed THEN late \cup {c} ELSE late
  BY Zenon DEF Call
<1>3. todo' \in Seq(Calls) /\ promises' \in Seq(Calls) /\ Elems(promises') = Elems(promises) \cup {c}
  BY <1>1, AppendFacts
<1>4. TypeOK'
  BY <1>1, <1>3, Zenon DEF IInv, TypeOK, Answers
<1>5. Writing'
  BY <1>1, Zenon DEF IInv, Writing
<1>6. LateOnly'
  BY <1>1, <1>2, <1>3, Zenon DEF IInv, LateOnly
<1>7. AnswersMatch'
  BY <1>1, <1>2, Zenon DEF IInv, AnswersMatch
<1>8. InOrder'
  <2> SUFFICES ASSUME mode = "pipeline", ~closed, over["client"] = "no"
               PROVE  \E rest \in Seq(Calls) : Flow(rest)'
    BY <1>1, Zenon DEF InOrder
  <2> DEFINE u == <<c>>  in == Coming  a == Then(Answered, Asked)  g == Going  qc == q["client"]
  <2>1. PICK rest \in Seq(Calls) : Flow(rest)
    BY Zenon DEF IInv, InOrder
  <2>2. u \in Seq(Calls) /\ Joins(Calls)
    BY JoinFacts
  <2>3. /\ in \in Seq(Calls) /\ a \in Seq(Calls) /\ g \in Seq(Calls) /\ qc \in Seq(Calls)
    BY <2>2, Zenon DEF Joins, IInv, TypeOK, Sides, Coming, Answered, Asked, Going
  <2>4. in' = in /\ a' = a /\ g' = g /\ qc' = qc
    BY <1>1, Zenon DEF Coming, Answered, Asked, Going
  <2>5. todo' = Then(todo, u) /\ promises' = Then(promises, u)
    <3>1. \A v \in Seq(Calls) : Append(v, c) = Then(v, u)
      BY DEF Then
    <3> QED
      BY <1>1, <3>1, Zenon
  <2>6. /\ promises = Then(in, rest)
        /\ over["server"] = "no" => rest = Then(a, Then(g, Then(qc, todo)))
    BY <2>1, Zenon DEF Flow, Unsent
  <2> HIDE DEF u, in, a, g, qc
  <2> DEFINE next == Then(rest, u)
  <2>7. next \in Seq(Calls) /\ promises' = Then(in, next)
    BY <2>2, <2>3, <2>5, <2>6 DEF Joins
  <2>8. over["server"] = "no" => next = Then(a, Then(g, Then(qc, todo')))
    <3>1. Then(qc, todo) \in Seq(Calls) /\ Then(g, Then(qc, todo)) \in Seq(Calls)
      BY <1>1, <2>2, <2>3, Zenon DEF Joins
    <3> QED
      BY <1>1, <2>2, <2>3, <2>5, <2>6, <3>1 DEF Joins
  <2> HIDE DEF next
  <2>9. Flow(next)'
    <3>1. promises' = Then(in', next')
      BY <2>4, <2>7, Zenon
    <3>2. over'["server"] = "no" => next' = Then(a', Then(g', Then(qc', todo')))
      BY <1>1, <2>4, <2>8, Zenon
    <3> QED
      BY <3>1, <3>2, Zenon DEF Flow, in, a, g, qc, Unsent
  <2> QED
    BY <2>7, <2>9, Zenon
<1> QED
  BY <1>4, <1>5, <1>6, <1>7, <1>8, Zenon DEF IInv

\* Nothing is in order when the promises are given up, and nothing has to be.
LEMMA GivenUpKeeps ==
  ASSUME IInv, NEW a \in [Calls -> Answers], \A c \in Calls \ late : a[c] # "another's",
         NEW S, NEW v \in Answers \ {"another's"},
         answer' = [c \in Calls |-> IF c \in S THEN v ELSE a[c]],
         todo' = <<>>, promises' = <<>>, closed' = TRUE, late' = late
  PROVE  /\ todo' \in Seq(Calls) /\ promises' \in Seq(Calls) /\ answer' \in [Calls -> Answers]
         /\ InOrder' /\ LateOnly' /\ AnswersMatch'
<1>1. todo' \in Seq(Calls) /\ promises' \in Seq(Calls)
  BY JoinFacts, Zenon DEF Joins
<1>2. answer' \in [Calls -> Answers] /\ AnswersMatch'
  BY Zenon DEF AnswersMatch
<1>3. InOrder' /\ LateOnly'
  BY DEF InOrder, LateOnly, Elems
<1> QED
  BY <1>1, <1>2, <1>3, Zenon

\* close() leaves no promise to answer.
LEMMA CloseKeeps == ASSUME IInv, Close PROVE IInv'
<1>1. /\ answer \in [Calls -> Answers] /\ \A c \in Calls \ late : answer[c] # "another's"
  BY Zenon DEF IInv, TypeOK, AnswersMatch
<1>2. /\ answer' = [c \in Calls |-> IF c \in Elems(promises) THEN "broken" ELSE answer[c]]
      /\ todo' = <<>> /\ promises' = <<>> /\ closed' = TRUE
      /\ UNCHANGED <<mode, late, work, over, req, q, w, rbuf, wire>>
  BY Zenon DEF Close, serverVars, sinkVars, closedVars, streamVars
<1>3. "broken" \in Answers \ {"another's"}
  BY Zenon DEF Answers
<1>4. /\ todo' \in Seq(Calls) /\ promises' \in Seq(Calls) /\ answer' \in [Calls -> Answers]
      /\ InOrder' /\ LateOnly' /\ AnswersMatch'
  BY <1>1, <1>2, <1>3, GivenUpKeeps, Zenon
<1>5. TypeOK' /\ Writing'
  BY <1>2, <1>4, Zenon DEF IInv, TypeOK, Writing
<1> QED
  BY <1>4, <1>5, Zenon DEF IInv

\* The types and Writing after a turn of side x, given those of the rest
LEMMA TurnFacts ==
  ASSUME IInv, NEW x \in Sides, NEW f, Turn(x, f), mode' = mode, wire' = wire,
         closed' \in BOOLEAN, todo' \in Seq(Calls), promises' \in Seq(Calls),
         work' \in Seq(Calls), answer' \in [Calls -> Answers]
  PROVE  TypeOK' /\ Writing'
BY Zenon DEF IInv, TypeOK, Writing, Turn

\* dispatchErr() answers every promise that is left with the error.
LEMMA DispatchErrKeeps ==
  ASSUME IInv, NEW a \in [Calls -> Answers], \A c \in Calls \ late : a[c] # "another's",
         NEW p, DispatchErr(a, p), NEW f, Turn("client", f),
         UNCHANGED <<mode, late, work, wire>>
  PROVE  IInv'
<1>1. "error" \in Answers \ {"another's"} /\ "client" \in Sides
  BY Zenon DEF Answers, Sides
<1>2. /\ todo' \in Seq(Calls) /\ promises' \in Seq(Calls) /\ answer' \in [Calls -> Answers]
      /\ InOrder' /\ LateOnly' /\ AnswersMatch'
  BY <1>1, GivenUpKeeps, Zenon DEF DispatchErr
<1>3. closed' \in BOOLEAN /\ work' \in Seq(Calls)
  BY Zenon DEF DispatchErr, IInv, TypeOK
<1>4. TypeOK' /\ Writing'
  BY <1>1, <1>2, <1>3, TurnFacts, Zenon
<1> QED
  BY <1>2, <1>4, Zenon DEF IInv

\* The answers in leave the front of the order, and the requests not yet sent move on
\* within what the client holds.
LEMMA ClientFlow ==
  ASSUME IInv, NEW f \in Seq(Calls), Turn("client", f), over'["client"] = "no",
         UNCHANGED <<mode, closed, work, wire>>, mode = "pipeline", ~closed,
         over["client"] = "no", NEW fs, Read(fs), promises' = From(promises, Len(fs)),
         todo' \in Seq(Calls), NEW old, old = q["client"], Then(f, todo') = Then(old, todo)
  PROVE  InOrder'
<1> DEFINE in == rbuf["client"]  on == wire["server"]  a == Then(Answered, Asked)
           g == wire["client"]  wc0 == w["client"]  qc == q["client"]
<1>1. PICK rest \in Seq(Calls) : Flow(rest)
  BY Zenon DEF IInv, InOrder
<1>2. Joins(Calls)
  BY JoinFacts, Zenon
<1>3. /\ in \in Seq(Calls) /\ on \in Seq(Calls) /\ a \in Seq(Calls) /\ g \in Seq(Calls)
      /\ wc0 \in Seq(Calls) /\ qc \in Seq(Calls) /\ todo \in Seq(Calls)
  BY <1>2, Zenon DEF Joins, IInv, TypeOK, Sides, Answered, Asked
<1>4. /\ in' = <<>> /\ on' = on /\ a' = a /\ g' = g /\ over'["server"] = over["server"]
      /\ wc0' \in Seq(Calls) /\ qc' \in Seq(Calls) /\ Then(wc0', qc') = Then(wc0, f)
  BY Zenon DEF Turn, Sides, Answered, Asked
<1>5. /\ promises = Then(Then(in, on), rest)
      /\ over["server"] = "no" => rest = Then(a, Then(Then(g, wc0), Then(qc, todo)))
  BY <1>1, Zenon DEF Flow, Coming, Going, Unsent
<1>6. promises' = From(promises, Len(in)) /\ Then(f, todo') = Then(qc, todo)
  BY Zenon DEF Read
<1> HIDE DEF in, on, a, g, wc0, qc
<1>7. promises' = Then(Then(in', on'), rest)
  <2>1. Then(on, rest) \in Seq(Calls) /\ promises = Then(in, Then(on, rest))
    BY <1>2, <1>3, <1>5, SMTT(30) DEF Joins
  <2>2. promises' = Then(on, rest)
    BY <1>3, <1>6, <2>1, FromConcat, ZenonT(30)
  <2> QED
    BY <1>2, <1>3, <1>4, <2>2, Zenon DEF Joins
<1>8. Then(Then(g, wc0'), Then(qc', todo')) = Then(Then(g, wc0), Then(qc, todo))
  <2>1. Then(Then(g, wc0'), Then(qc', todo')) = Then(g, Then(Then(wc0', qc'), todo'))
    BY <1>2, <1>3, <1>4, SMTT(30) DEF Joins
  <2>2. Then(Then(wc0, f), todo') = Then(wc0, Then(qc, todo))
    BY <1>2, <1>3, <1>6, SMTT(30) DEF Joins
  <2>3. Then(g, Then(wc0, Then(qc, todo))) = Then(Then(g, wc0), Then(qc, todo))
    BY <1>2, <1>3, SMTT(30) DEF Joins
  <2> QED
    BY <1>4, <2>1, <2>2, <2>3, Zenon
<1>9. over'["server"] = "no" => rest = Then(a', Then(Then(g', wc0'), Then(qc', todo')))
  BY <1>4, <1>5, <1>8, Zenon
<1>10. Flow(rest)'
  BY <1>7, <1>9, Zenon DEF Flow, Coming, Going, Unsent, in, on, a, g, wc0, qc
<1> QED
  BY <1>1, <1>10, Zenon DEF InOrder

\* RpcFuture::poll of the client: the answers it has read leave the front of the
\* promises, and the requests move from the dispatcher to the sink.
LEMMA ClientPollKeeps == ASSUME IInv, ClientPoll PROVE IInv'
<1> DEFINE in == rbuf["client"]
<1>1. /\ over["client"] = "no"
      /\ ClientReadError \/ ClientUnexpected \/ ClientProceeds
      /\ UNCHANGED <<mode, late, work, wire>> /\ "client" \in Sides
  BY Zenon DEF ClientPoll, StartPoll, serverVars, Sides
<1>2. /\ TypeOK /\ Writing /\ answer \in [Calls -> Answers] /\ in \in Seq(Calls)
      /\ promises \in Seq(Calls) /\ todo \in Seq(Calls) /\ q["client"] \in Seq(Calls)
      /\ closed \in BOOLEAN /\ work \in Seq(Calls) /\ mode \in {"pipeline", "multiplex"}
      /\ \A c \in Calls \ late : answer[c] # "another's"
  BY Zenon DEF IInv, TypeOK, Sides, AnswersMatch
<1>3. ASSUME ClientReadError PROVE IInv'
  <2>1. Turn("client", <<>>) /\ DispatchErr(answer, promises)
    BY <1>1, <1>2, <1>3, FailsTurns, Zenon DEF ClientReadError
  <2> QED
    BY <1>1, <1>2, <2>1, DispatchErrKeeps, Zenon
<1>8. Read(in)
  BY Zenon DEF Read
<1> HIDE DEF in
<1>4. ASSUME NEW n, mode = "pipeline" => n = IF Len(in) <= Len(promises) THEN Len(in) ELSE Len(promises)
      PROVE  /\ Dispatched(in, n) \in [Calls -> Answers]
             /\ \A c \in Calls \ late : Dispatched(in, n)[c] # "another's"
             /\ Left(in, n) \in Seq(Calls) /\ Elems(Left(in, n)) \subseteq Elems(promises)
  <2>1. mode = "pipeline" => n \in 0..Len(in) /\ n <= Len(promises)
    BY <1>2, <1>4
  <2> QED
    BY <1>1, <1>8, <2>1, DispatchedFacts, Zenon
<1>5. mode = "pipeline" => Expected(in) = IF Len(in) <= Len(promises) THEN Len(in) ELSE Len(promises)
  BY Zenon DEF Expected
<1> USE DEF in
<1>6. ASSUME ClientUnexpected PROVE IInv'
  <2> DEFINE n == Expected(in)
  <2>1. /\ Fails("client") /\ UNCHANGED <<todo, closed>>
        /\ answer' = Dispatched(in, n) /\ promises' = Left(in, n)
    BY <1>6, Zenon DEF ClientUnexpected
  <2>2. /\ Dispatched(in, n) \in [Calls -> Answers]
        /\ \A c \in Calls \ late : Dispatched(in, n)[c] # "another's"
        /\ Left(in, n) \in Seq(Calls) /\ Elems(Left(in, n)) \subseteq Elems(promises)
    BY <1>4, <1>5, Zenon
  <2> HIDE DEF n, in
  <2>3. Turn("client", <<>>) /\ over'["client"] = "error"
    BY <1>1, <1>2, <2>1, FailsTurns, Zenon
  <2>4. TypeOK' /\ Writing'
    BY <1>1, <1>2, <2>1, <2>2, <2>3, TurnFacts, Zenon
  <2>5. InOrder' /\ LateOnly' /\ AnswersMatch'
    BY <1>1, <2>1, <2>2, <2>3, Zenon DEF IInv, InOrder, LateOnly, AnswersMatch
  <2> QED
    BY <2>4, <2>5, Zenon DEF IInv
<1>7. ASSUME ClientProceeds PROVE IInv'
  <2> DEFINE n == Len(in)
             a == Dispatched(in, n)
             p == Left(in, n)
             no == wc["client"]
             f == IF no THEN q["client"] ELSE q["client"] \o todo
             e == Eof("client")  wcl == no \/ closed  busy == no /\ todo # <<>>
             t == Flushed("client", f, e, wcl, busy)
  <2>1. /\ Expected(in) = n
        /\ \/ /\ Become("client", t)
              /\ IF t.over = "no"
                   THEN /\ answer' = a /\ promises' = p /\ UNCHANGED closed
                        /\ todo' = IF no THEN todo ELSE <<>>
                   ELSE DispatchErr(a, p)
           \/ Fails("client") /\ DispatchErr(a, p)
    BY <1>7, Zenon DEF ClientProceeds
  <2>2. /\ a \in [Calls -> Answers] /\ \A c \in Calls \ late : a[c] # "another's"
        /\ p \in Seq(Calls) /\ Elems(p) \subseteq Elems(promises)
    BY <1>4, <1>5, <2>1, Zenon
  <2>3. mode = "pipeline" => p = From(promises, Len(in))
    BY Zenon DEF Left
  <2>4. f \in Seq(Calls)
    BY <1>2
  <2> HIDE DEF n, a, p, in
  <2>5. CASE Fails("client") /\ DispatchErr(a, p)
    BY <1>1, <1>2, <2>2, <2>5, FailsTurns, DispatchErrKeeps, Zenon
  <2>6. CASE Become("client", t) /\ t.over # "no" /\ DispatchErr(a, p)
    <3> HIDE DEF f, e, wcl, busy
    <3>1. Turn("client", f)
      BY <1>1, <1>2, <2>4, <2>6, FlushedTurns, Zenon
    <3> QED
      BY <1>1, <2>2, <2>6, <3>1, DispatchErrKeeps, Zenon
  <2>7. CASE /\ Become("client", t) /\ t.over = "no" /\ answer' = a /\ promises' = p
             /\ UNCHANGED closed /\ todo' = IF no THEN todo ELSE <<>>
    <3> HIDE DEF f, e, wcl, busy
    <3>1. Turn("client", f) /\ over'["client"] = "no"
      BY <1>1, <1>2, <2>4, <2>7, FlushedTurns
    <3> HIDE DEF t
    <3> USE DEF f
    <3>2. Joins(Calls)
      BY JoinFacts, Zenon
    <3>3. todo' \in Seq(Calls)
      BY <1>2, <2>7, <3>2, Zenon DEF Joins
    <3>4. TypeOK' /\ Writing'
      BY <1>1, <1>2, <2>2, <2>7, <3>1, <3>3, TurnFacts, Zenon
    <3>5. LateOnly' /\ AnswersMatch'
      BY <1>1, <2>2, <2>7, Zenon DEF IInv, LateOnly, AnswersMatch
    <3>6. Then(f, todo') = Then(q["client"], todo)
      <4>1. CASE no
        BY <2>7, <4>1, Zenon
      <4>2. CASE ~no
        <5>1. f = Then(q["client"], todo) /\ todo' = <<>>
          BY <2>7, <4>2, Zenon DEF Then
        <5> QED
          BY <2>4, <3>2, <5>1, Zenon DEF Joins
      <4> QED
        BY <4>1, <4>2, Zenon
    <3> HIDE DEF f
    <3>7. InOrder'
      <4>1. CASE mode = "pipeline" /\ ~closed
        BY <1>1, <1>8, <2>3, <2>4, <2>7, <3>1, <3>3, <3>6, <4>1, ClientFlow, Zenon
      <4>2. CASE ~(mode = "pipeline" /\ ~closed)
        BY <1>1, <2>7, <4>2, Zenon DEF InOrder
      <4> QED
        BY <4>1, <4>2, Zenon
    <3> QED
      BY <3>4, <3>5, <3>7, Zenon DEF IInv
  <2> HIDE DEF t, f
  <2> QED
    BY <2>1, <2>5, <2>6, <2>7, Zenon
<1> QED
  BY <1>1, <1>3, <1>6, <1>7, Zenon

-----------------------------------------------------------------------------
(* The server's steps *)

\* The pipeline answers a first part of its requests and keeps the others.
LEMMA CompletedFacts ==
  ASSUME NEW in \in Seq(Calls), NEW res, TypeOK
  PROVE  LET done == Completed(in, res)
             left == InFlight(in, done)
         IN  /\ done \in Seq(Calls) /\ left \in Seq(Calls)
             /\ mode = "pipeline" => Then(done, left) = in
<1> DEFINE done == Completed(in, res)  left == InFlight(in, done)
<1>1. CASE mode = "multiplex"
  <2>1. done = Omit(in, {c \in Calls : ~Done(res, c)})
    BY <1>1, Zenon DEF Completed
  <2>2. done \in Seq(Calls)
    BY <2>1, OmitFacts
  <2>3. left = Omit(in, Elems(done))
    BY <1>1, Zenon DEF InFlight
  <2>4. left \in Seq(Calls)
    BY <2>3, OmitFacts
  <2> QED
    BY <1>1, <2>2, <2>4, Zenon
<1>2. CASE mode = "pipeline"
  <2> DEFINE P(n) == /\ \A i \in 1..n : Done(res, in[i])
                     /\ n < Len(in) => ~Done(res, in[n + 1])
             n == CHOOSE n \in 0..Len(in) : P(n)
             E == {m \in Nat : m = Len(in) \/ (m < Len(in) /\ ~Done(res, in[m + 1]))}
  <2>1. E \in SUBSET Nat /\ Len(in) \in E /\ Len(in) \in Nat
    OBVIOUS
  <2>2. PICK m \in E : \A k \in E : m <= k
    <3> HIDE DEF E
    <3> QED
      BY <2>1, LeastNumber, Zenon
  <2>3. m \in 0..Len(in)
    BY <2>1, <2>2
  <2>4. ASSUME NEW i \in 1..m PROVE Done(res, in[i])
    <3>1. i - 1 \in Nat /\ i - 1 < m /\ i - 1 < Len(in) /\ (i - 1) + 1 = i
      BY <2>1, <2>3
    <3>2. i - 1 \notin E
      BY <2>1, <2>2, <3>1, SMTT(30)
    <3> QED
      BY <3>1, <3>2, Zenon
  <2>5. P(m)
    BY <2>1, <2>2, <2>4
  <2>6. n \in 0..Len(in)
    <3> HIDE DEF P
    <3> QED
      BY <2>3, <2>5, Zenon
  <2>7. done = Upto(in, n)
    BY <1>2, Zenon DEF Completed
  <2> HIDE DEF n, done
  <2>8. done \in Seq(Calls) /\ Len(done) = n
    BY <2>6, <2>7, UptoFacts, Zenon
  <2>9. left = From(in, n)
    BY <1>2, <2>8, Zenon DEF InFlight
  <2>10. left \in Seq(Calls) /\ Then(done, left) = in
    BY <2>6, <2>7, <2>9, CutFacts
  <2> QED
    BY <2>8, <2>10, Zenon DEF done
<1> QED
  BY <1>1, <1>2, Zenon DEF TypeOK

\* The client's half of the invariant, when its dispatcher is left alone and the order
\* is kept
LEMMA ClientSame ==
  ASSUME IInv, UNCHANGED <<closed, promises, answer, late>>
  PROVE  LateOnly' /\ AnswersMatch'
BY Zenon DEF IInv, LateOnly, AnswersMatch

\* When the server is over, what the client has read and what is on the way to it is
\* still a first part of the order.
LEMMA ServerGone ==
  ASSUME IInv, NEW f, Turn("server", f), over'["server"] # "no", work' \in Seq(Calls),
         UNCHANGED <<mode, todo, promises, closed, answer, late, wire>>
  PROVE  IInv'
<1>1. "server" \in Sides /\ "client" \in Sides \ {"server"}
  BY Zenon DEF Sides
<1>2. TypeOK' /\ Writing'
  <2>1. /\ closed' \in BOOLEAN /\ todo' \in Seq(Calls) /\ promises' \in Seq(Calls)
        /\ answer' \in [Calls -> Answers]
    BY Zenon DEF IInv, TypeOK
  <2> QED
    BY <1>1, <2>1, TurnFacts, Zenon
<1>3. Coming' = Coming /\ over'["client"] = over["client"]
  BY <1>1, Zenon DEF Coming, Turn
<1>4. InOrder'
  BY <1>3, Zenon DEF IInv, InOrder, Flow
<1> QED
  BY <1>2, <1>4, ClientSame, Zenon DEF IInv

\* RpcFuture::poll of the server: the requests it has read go to the service, and the
\* answers that are ready move to the sink, a pipeline's in the order of the requests.
LEMMA ServerPollKeeps == ASSUME IInv, ServerPoll PROVE IInv'
<1>1. /\ ServerFails \/ ServerProceeds
      /\ UNCHANGED <<mode, todo, promises, closed, answer, late, wire>> /\ "server" \in Sides
  BY Zenon DEF ServerPoll, clientVars, Sides
<1>2. TypeOK /\ Writing /\ Joins(Calls)
  BY JoinFacts, Zenon DEF IInv
<1>3. ASSUME Fails("server"), work' = <<>> PROVE IInv'
  <2>1. Turn("server", <<>>) /\ over'["server"] # "no"
    BY <1>1, <1>2, <1>3, FailsTurns, Zenon
  <2>2. work' \in Seq(Calls)
    BY <1>2, <1>3, Zenon DEF Joins
  <2> QED
    BY <1>1, <2>1, <2>2, ServerGone, Zenon
<1>4. ASSUME ServerProceeds, ~(Fails("server") /\ work' = <<>>) PROVE IInv'
  <2> DEFINE b == rbuf["server"]  in == work \o b  qs == q["server"]  ws == w["server"]
             e == Eof("server")  c == wc["server"]
  <2>1. /\ b \in Seq(Calls) /\ work \in Seq(Calls) /\ in \in Seq(Calls) /\ in = Then(work, b)
        /\ qs \in Seq(Calls) /\ ws \in Seq(Calls)
    BY <1>2, Zenon DEF TypeOK, Sides, Joins, Then
  <2>2. PICK res : LET done == Completed(in, res)
                       left == InFlight(in, done)
                   IN  /\ Become("server", Flushed("server", qs \o done, e, c, left # <<>>))
                       /\ work' = left
    BY <1>4, ZenonT(30) DEF ServerProceeds
  <2> DEFINE done == Completed(in, res)  left == InFlight(in, done)  f == qs \o done
             busy == left # <<>>
  <2>3. /\ done \in Seq(Calls) /\ left \in Seq(Calls)
        /\ mode = "pipeline" => Then(done, left) = in
    BY <1>2, <2>1, CompletedFacts, Zenon
  <2>4. /\ Become("server", Flushed("server", f, e, c, busy)) /\ work' = left
        /\ f = Then(qs, done) /\ f \in Seq(Calls)
    BY <1>2, <2>1, <2>2, <2>3, Zenon DEF Then, Joins
  <2> HIDE DEF b, in, qs, ws, e, c, done, left, f, busy
  <2>5. Turn("server", f) /\ work' \in Seq(Calls)
    BY <1>1, <1>2, <2>3, <2>4, FlushedTurns, ZenonT(30)
  <2>6. CASE over'["server"] # "no"
    BY <1>1, <2>5, <2>6, ServerGone, Zenon
  <2>7. CASE over'["server"] = "no"
    <3>1. TypeOK' /\ Writing'
      <4>1. /\ closed' \in BOOLEAN /\ todo' \in Seq(Calls) /\ promises' \in Seq(Calls)
            /\ answer' \in [Calls -> Answers]
        BY <1>1, Zenon DEF IInv, TypeOK
      <4> QED
        BY <1>1, <2>5, <4>1, TurnFacts, Zenon
    <3>2. InOrder'
      <4> SUFFICES ASSUME mode = "pipeline", InOrder PROVE InOrder'
        BY <1>1, Zenon DEF InOrder, IInv
      <4> DEFINE w2 == w'["server"]  q2 == q'["server"]
      <4>1. w2 \in Seq(Calls) /\ q2 \in Seq(Calls) /\ Then(w2, q2) = Then(ws, f)
        BY <1>1, <2>5, <2>7, ZenonT(30) DEF Turn, ws
      <4>2. Then(Then(w2, q2), Then(work', <<>>)) = Then(Then(ws, qs), Then(work, b))
        <5> HIDE DEF w2, q2
        <5>1. Then(work', <<>>) = left /\ Then(done, left) = Then(work, b)
          BY <1>2, <2>1, <2>3, <2>4, Zenon DEF Joins
        <5>2. Then(Then(ws, Then(qs, done)), left) = Then(Then(ws, qs), Then(done, left))
          BY <1>2, <2>1, <2>3, SMTT(30) DEF Joins
        <5> QED
          BY <2>4, <4>1, <5>1, <5>2, Zenon
      <4>3. Then(Answered', Asked') = Then(Answered, Asked)
        BY <1>1, <2>5, <4>2, Zenon DEF Turn, Answered, Asked, w2, q2, ws, qs, b
      <4>4. Coming' = Coming /\ Going' = Going /\ Unsent' = Unsent /\ over'["client"] = over["client"]
        BY <1>1, <2>5, Zenon DEF Turn, Coming, Going, Unsent, Sides
      <4>5. over["server"] = "no"
        BY Zenon DEF ServerPoll, StartPoll
      <4> QED
        BY <1>1, <4>3, <4>4, <4>5, Zenon DEF InOrder, Flow
    <3> QED
      BY <1>1, <3>1, <3>2, ClientSame, Zenon DEF IInv
  <2> QED
    BY <2>6, <2>7, Zenon
<1> QED
  BY <1>1, <1>3, <1>4, Zenon DEF ServerFails

\* The service ends a request, which changes no order.
LEMMA ServeKeeps == ASSUME IInv, NEW c \in Calls, Serve(c) PROVE IInv'
<1>1. UNCHANGED <<mode, todo, promises, closed, answer, late, work, over, req, q, w, rbuf, wire>>
  BY Zenon DEF Serve, clientVars, sinkVars, closedVars, streamVars
<1>2. TypeOK' /\ Writing' /\ LateOnly' /\ AnswersMatch'
  BY <1>1, Zenon DEF IInv, TypeOK, Writing, LateOnly, AnswersMatch
<1>3. Coming' = Coming /\ Answered' = Answered /\ Asked' = Asked /\ Going' = Going /\ Unsent' = Unsent
  BY <1>1, ZenonT(30) DEF Coming, Answered, Asked, Going, Unsent
<1>4. InOrder'
  BY <1>1, <1>3, Zenon DEF IInv, InOrder, Flow
<1> QED
  BY <1>2, <1>4, Zenon DEF IInv

-----------------------------------------------------------------------------
(* The channels *)

\* Frames written are on the wire: they stay where they are in the order.
LEMMA WriteDoneKeeps == ASSUME IInv, NEW x \in Sides, WriteDone(x) PROVE IInv'
<1>1. /\ wire' = [wire EXCEPT ![x] = @ \o w[x]]
      /\ req' = [req EXCEPT ![x] = "done"] /\ w' = [w EXCEPT ![x] = <<>>]
      /\ UNCHANGED <<mode, todo, promises, closed, answer, late, work, over, q, rbuf>>
  BY Zenon DEF WriteDone, clientVars, serverVars, closedVars, streamVars
<1>2. /\ TypeOK /\ Writing /\ Joins(Calls) /\ x \in {"client", "server"}
  BY JoinFacts, Zenon DEF IInv, Sides
<1>3. TypeOK'
  <2>1. wire[x] \o w[x] \in Seq(Calls) /\ <<>> \in Seq(Calls) /\ "done" \in Reqs
    BY <1>2, Zenon DEF TypeOK, Joins, Then, Reqs
  <2> QED
    BY <1>1, <1>2, <2>1, Zenon DEF TypeOK
<1>4. Writing'
  BY <1>1, <1>2, Zenon DEF Writing, TypeOK
<1> DEFINE r == rbuf["client"]  on == wire["server"]  ws == w["server"]  qs == q["server"]
           g == wire["client"]  wc0 == w["client"]
<1>5. /\ r \in Seq(Calls) /\ on \in Seq(Calls) /\ ws \in Seq(Calls) /\ qs \in Seq(Calls)
      /\ g \in Seq(Calls) /\ wc0 \in Seq(Calls) /\ Asked \in Seq(Calls)
      /\ Going \in Seq(Calls) /\ Unsent \in Seq(Calls)
  BY <1>2, SMTT(30) DEF TypeOK, Sides, Joins, Asked, Going, Unsent
<1>6. Asked' = Asked /\ Unsent' = Unsent
  BY <1>1, Zenon DEF Asked, Unsent
<1>7. InOrder'
  <2> SUFFICES ASSUME mode = "pipeline", ~closed, over["client"] = "no"
               PROVE  \E rest \in Seq(Calls) : Flow(rest)'
    BY <1>1, Zenon DEF InOrder
  <2>1. PICK rest \in Seq(Calls) : Flow(rest)
    BY Zenon DEF IInv, InOrder
  <2>2. CASE x = "client"
    <3>1. Going' = Then(Then(g, wc0), <<>>) /\ Coming' = Coming /\ Answered' = Answered
      BY <1>1, <1>2, <2>2, Zenon DEF Going, Coming, Answered, Then, TypeOK, Sides
    <3>2. Going = Then(g, wc0)
      BY Zenon DEF Going
    <3> HIDE DEF g, wc0
    <3>3. Going' = Going
      BY <1>2, <1>5, <3>1, <3>2, Zenon DEF Joins
    <3> QED
      BY <1>1, <1>6, <2>1, <3>1, <3>3, Zenon DEF Flow
  <2>3. CASE x = "server"
    <3>1. Coming' = Then(r, Then(on, ws)) /\ Answered' = Then(<<>>, qs) /\ Going' = Going
      BY <1>1, <1>2, <2>3, Zenon DEF Going, Coming, Answered, Then, TypeOK, Sides
    <3>2. Coming = Then(r, on) /\ Answered = Then(ws, qs)
      BY Zenon DEF Coming, Answered
    <3>3. CASE over["server"] = "no"
      <4> DEFINE c == Then(Going, Unsent)
      <4>1. rest = Then(Then(Then(ws, qs), Asked), c) /\ promises = Then(Then(r, on), rest)
        BY <2>1, <3>2, <3>3, Zenon DEF Flow
      <4>2. c \in Seq(Calls)
        BY <1>2, <1>5, Zenon DEF Joins
      <4>3. PICK next : next = Then(Then(qs, Asked), c)
        BY Zenon
      <4> HIDE DEF r, on, ws, qs, c
      <4>4. next \in Seq(Calls) /\ Then(qs, Asked) \in Seq(Calls)
        BY <1>2, <1>5, <4>2, <4>3, Zenon DEF Joins
      <4>5. rest = Then(ws, next)
        <5>1. Then(Then(ws, qs), Asked) = Then(ws, Then(qs, Asked))
          BY <1>2, <1>5 DEF Joins
        <5>2. Then(Then(ws, Then(qs, Asked)), c) = Then(ws, Then(Then(qs, Asked), c))
          BY <1>2, <1>5, <4>2, <4>4, SMTT(30) DEF Joins
        <5> QED
          BY <4>1, <4>3, <5>1, <5>2, Zenon
      <4>6. promises' = Then(Coming', next)
        BY <1>1, <1>2, <1>5, <3>1, <4>1, <4>4, <4>5, SMTT(30) DEF Joins
      <4>7. next = Then(Then(Answered', Asked'), Then(Going', Unsent'))
        <5>1. Answered' = qs
          BY <1>2, <1>5, <3>1, Zenon DEF Joins
        <5> QED
          BY <1>6, <3>1, <4>3, <5>1, Zenon DEF c
      <4>8. Flow(next)'
        BY <4>6, <4>7, Zenon DEF Flow
      <4> QED
        BY <4>4, <4>8, Zenon
    <3>4. CASE over["server"] # "no"
      <4>1. ws = <<>>
        BY <1>2, <3>4, Zenon DEF Writing, Sides
      <4> HIDE DEF r, on, ws, qs
      <4>2. Coming' = Coming
        BY <1>2, <1>5, <3>1, <3>2, <4>1, Zenon DEF Joins
      <4> QED
        BY <1>1, <2>1, <3>4, <4>2, Zenon DEF Flow
    <3> QED
      BY <3>3, <3>4, Zenon
  <2> QED
    BY <1>2, <2>2, <2>3, Zenon
<1> QED
  BY <1>1, <1>3, <1>4, <1>7, ClientSame, Zenon DEF IInv

\* A write fails only when the other side is over, which nothing reads any more.
LEMMA WriteFailsKeeps == ASSUME IInv, NEW x \in Sides, WriteFails(x) PROVE IInv'
<1>1. /\ over[Other(x)] # "no"
      /\ req' = [req EXCEPT ![x] = "error"] /\ w' = [w EXCEPT ![x] = <<>>]
      /\ UNCHANGED <<mode, todo, promises, closed, answer, late, work, over, q, rbuf, wire>>
  BY Zenon DEF WriteFails, clientVars, serverVars, closedVars
<1>2. TypeOK /\ Writing /\ Joins(Calls) /\ x \in {"client", "server"}
  BY JoinFacts, Zenon DEF IInv, Sides
<1>3. TypeOK'
  <2>1. <<>> \in Seq(Calls) /\ "error" \in Reqs
    BY <1>2, Zenon DEF Joins, Reqs
  <2> QED
    BY <1>1, <1>2, <2>1, Zenon DEF TypeOK
<1>4. Writing'
  BY <1>1, <1>2, Zenon DEF Writing, TypeOK
<1>5. InOrder'
  <2>1. Coming' = Coming
    BY <1>1, Zenon DEF Coming
  <2>2. over["client"] = "no" => over["server"] # "no"
    BY <1>1, <1>2, Zenon DEF Other
  <2> QED
    BY <1>1, <2>1, <2>2, Zenon DEF IInv, InOrder, Flow
<1> QED
  BY <1>1, <1>3, <1>4, <1>5, ClientSame, Zenon DEF IInv

\* Frames that arrive stay where they are in the order.
LEMMA ArriveKeeps == ASSUME IInv, NEW x \in Sides, Arrive(x) PROVE IInv'
<1> DEFINE y == Other(x)
<1>1. PICK n \in 1..Len(wire[y]) : /\ rbuf' = [rbuf EXCEPT ![x] = @ \o Upto(wire[y], n)]
                                   /\ wire' = [wire EXCEPT ![y] = From(@, n)]
  BY Zenon DEF Arrive
<1>2. /\ over[x] = "no"
      /\ UNCHANGED <<mode, todo, promises, closed, answer, late, work, over, req, q, w>>
  BY Zenon DEF Arrive, clientVars, serverVars, sinkVars, closedVars
<1>3. /\ TypeOK /\ Joins(Calls) /\ y \in Sides
      /\ \/ x = "client" /\ y = "server"
         \/ x = "server" /\ y = "client"
  BY JoinFacts, Zenon DEF IInv, Sides, Other
<1> HIDE DEF y
<1> DEFINE b == rbuf[x]  on == wire[y]  u == Upto(on, n)  v == From(on, n)
<1>4. b \in Seq(Calls) /\ on \in Seq(Calls) /\ n \in 0..Len(on)
  BY <1>1, <1>3 DEF TypeOK
<1>5. u \in Seq(Calls) /\ v \in Seq(Calls) /\ Then(u, v) = on
  <2> HIDE DEF on
  <2> QED
    BY <1>4, UptoFacts, CutFacts, Zenon
<1>6. rbuf' = [rbuf EXCEPT ![x] = Then(b, u)] /\ wire' = [wire EXCEPT ![y] = v]
  BY <1>1, <1>3, Zenon DEF Then, TypeOK
<1> HIDE DEF b, on, u, v
<1>7. Then(b, u) \in Seq(Calls) /\ Then(Then(b, u), v) = Then(b, on)
  BY <1>3, <1>4, <1>5 DEF Joins
<1>8. TypeOK' /\ Writing'
  BY <1>2, <1>3, <1>5, <1>6, <1>7, Zenon DEF IInv, TypeOK, Writing
<1>9. InOrder'
  <2>1. CASE x = "client"
    <3>1. Coming' = Then(Then(b, u), v) /\ Coming = Then(b, on)
      BY <1>3, <1>6, <2>1, Zenon DEF Coming, TypeOK, Sides, b, on
    <3>2. Answered' = Answered /\ Asked' = Asked /\ Going' = Going /\ Unsent' = Unsent
      BY <1>2, <1>3, <1>6, <2>1, Zenon DEF Answered, Asked, Going, Unsent, TypeOK, Sides
    <3> QED
      BY <1>2, <1>7, <3>1, <3>2, Zenon DEF IInv, InOrder, Flow
  <2>2. CASE x = "server"
    <3> DEFINE wc0 == w["client"]
    <3>1. /\ Asked' = Then(work, Then(b, u)) /\ Asked = Then(work, b)
          /\ Going' = Then(v, wc0) /\ Going = Then(on, wc0)
      BY <1>2, <1>3, <1>6, <2>2, Zenon DEF Asked, Going, TypeOK, Sides, b, on
    <3>2. Coming' = Coming /\ Answered' = Answered /\ Unsent' = Unsent
      BY <1>2, <1>3, <1>6, <2>2, Zenon DEF Coming, Answered, Unsent, TypeOK, Sides
    <3>3. work \in Seq(Calls) /\ wc0 \in Seq(Calls) /\ Answered \in Seq(Calls) /\ Unsent \in Seq(Calls)
      BY <1>3, Zenon DEF TypeOK, Sides, Joins, Answered, Unsent
    <3> HIDE DEF wc0
    <3>4. Then(Asked', Going') = Then(Asked, Going)
      <4>1. Then(Then(work, Then(b, u)), Then(v, wc0)) = Then(work, Then(Then(Then(b, u), v), wc0))
        BY <1>3, <1>4, <1>5, <1>7, <3>3, SMTT(30) DEF Joins
      <4>2. Then(work, Then(Then(b, on), wc0)) = Then(Then(work, b), Then(on, wc0))
        BY <1>3, <1>4, <3>3, SMTT(30) DEF Joins
      <4> QED
        BY <1>7, <3>1, <4>1, <4>2, Zenon
    <3>5. /\ Asked \in Seq(Calls) /\ Going \in Seq(Calls)
          /\ Asked' \in Seq(Calls) /\ Going' \in Seq(Calls)
      BY <1>3, <1>4, <1>5, <1>7, <3>1, <3>3, Zenon DEF Joins
    <3>6. ASSUME NEW k \in Seq(Calls), NEW g \in Seq(Calls)
          PROVE  Then(Then(Answered, k), Then(g, Unsent)) = Then(Answered, Then(Then(k, g), Unsent))
      BY <1>3, <3>3 DEF Joins
    <3>7. Then(Then(Answered', Asked'), Then(Going', Unsent'))
            = Then(Then(Answered, Asked), Then(Going, Unsent))
      BY <3>2, <3>4, <3>5, <3>6, SMTT(30)
    <3> QED
      BY <1>2, <3>2, <3>7, Zenon DEF IInv, InOrder, Flow
  <2> QED
    BY <1>3, <2>1, <2>2, Zenon
<1> QED
  BY <1>2, <1>8, <1>9, ClientSame, Zenon DEF IInv

\* The end of the stream moves no frame.
LEMMA ArriveEndKeeps == ASSUME IInv, NEW x \in Sides, ArriveEnd(x) PROVE IInv'
<1>1. UNCHANGED <<mode, todo, promises, closed, answer, late, work, over, req, q, w, rbuf, wire>>
  BY Zenon DEF ArriveEnd, clientVars, serverVars, sinkVars, closedVars
<1>2. TypeOK' /\ Writing' /\ LateOnly' /\ AnswersMatch'
  BY <1>1, Zenon DEF IInv, TypeOK, Writing, LateOnly, AnswersMatch
<1>3. Coming' = Coming /\ Answered' = Answered /\ Asked' = Asked /\ Going' = Going /\ Unsent' = Unsent
  BY <1>1, Zenon DEF Coming, Answered, Asked, Going, Unsent
<1>4. InOrder'
  BY <1>1, <1>3, Zenon DEF IInv, InOrder, Flow
<1> QED
  BY <1>2, <1>4, Zenon DEF IInv

-----------------------------------------------------------------------------
\* IInv holds in every state of every behaviour of the two sides.
THEOREM RpcInvariance == Spec => []IInv
<1>1. Init => IInv
  <2> SUFFICES ASSUME Init PROVE IInv
    OBVIOUS
  <2>1. <<>> \in Seq(Calls) /\ Joins(Calls)
    BY JoinFacts, Zenon DEF Joins
  <2>2. TypeOK
    BY <2>1, Zenon DEF Init, TypeOK, Answers, Ends, Reqs
  <2>3. Writing /\ LateOnly /\ AnswersMatch
    BY Zenon DEF Init, Writing, LateOnly, AnswersMatch, Elems
  <2>4. Flow(<<>>)
    <3>1. Then(<<>>, <<>>) = <<>>
      BY <2>1, ZenonT(30) DEF Joins
    <3> QED
      BY <3>1, Zenon DEF Init, Flow, Coming, Answered, Asked, Going, Unsent, Sides
  <2> QED
    BY <2>1, <2>2, <2>3, <2>4, Zenon DEF IInv, InOrder
<1>2. IInv /\ [Next]_vars => IInv'
  <2> SUFFICES ASSUME IInv, [Next]_vars PROVE IInv'
    OBVIOUS
  <2>1. CASE UNCHANGED vars
    <3>1. UNCHANGED <<mode, todo, promises, closed, answer, late, work, over, req, q, w, rbuf, wire>>
      BY <2>1, Zenon DEF vars, clientVars, serverVars, sinkVars, closedVars, streamVars
    <3>2. TypeOK' /\ Writing' /\ LateOnly' /\ AnswersMatch'
      BY <3>1, Zenon DEF IInv, TypeOK, Writing, LateOnly, AnswersMatch
    <3>3. /\ Coming' = Coming /\ Answered' = Answered /\ Asked' = Asked
          /\ Going' = Going /\ Unsent' = Unsent
      BY <3>1, Zenon DEF Coming, Answered, Asked, Going, Unsent
    <3>4. InOrder'
      BY <3>1, <3>3, Zenon DEF IInv, InOrder, Flow
    <3> QED
      BY <3>2, <3>4, Zenon DEF IInv
  <2> QED
    BY <2>1, CallKeeps, CloseKeeps, ClientPollKeeps, ServerPollKeeps, ServeKeeps,
       WriteDoneKeeps, WriteFailsKeeps, ArriveKeeps, ArriveEndKeeps, Zenon
    DEF Next, System
<1> QED
  BY <1>1, <1>2, PTL DEF Spec

\* For any number of calls, a call made before close() never gets the answer to another
\* one, in whatever order the service ends requests and whatever is closed or fails.
THEOREM AnswersMatchHolds == Spec => []AnswersMatch
<1>1. IInv => AnswersMatch
  BY Zenon DEF IInv
<1> QED
  BY <1>1, RpcInvariance, PTL
=============================================================================
