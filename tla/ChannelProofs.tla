--------------------------- MODULE ChannelProofs ----------------------------
(***************************************************************************)
(* The two channels, each of which implements a FifoChannel.               *)
(*                                                                         *)
(* BufferedChannel, for any number of writers and readers and any size: the*)
(* bound holds, a served waiter is awake, and values keep their order while*)
(* writers wait and go away.                                               *)
(*                                                                         *)
(* UnboundedMPSCChannel, for any set of sender objects and any number of   *)
(* values: the receiver sleeps on nothing, and the stream ends after the   *)
(* last value of the last sender.                                          *)
(***************************************************************************)
EXTENDS BufferedChannel, UnboundedMPSCChannel, ListsProofs

-----------------------------------------------------------------------------
(* The buffered channel *)

\* The list s and the waiters of the clients T agree, and each is on the list once.
OnList(s, f, T) ==
  /\ \A i, j \in 1..Len(s) : s[i] = s[j] => i = j
  /\ \A i \in 1..Len(s) : f[s[i]] = "waiting"
  /\ \A c \in T : f[c] = "waiting" => \E i \in 1..Len(s) : s[i] = c

\* So it is for both lists, and a task that is about to make a waiter has none.
Listed ==
  /\ OnList(writers, st, Writers)
  /\ OnList(readers, st, Readers)
  /\ \A c \in Clients : pc[c] = "create" => st[c] = "new"

\* A served waiter's task is awake, also when it is just about to wait.
Awake ==
  /\ \A c \in Clients : st[c] \in {"full", "served"} =>
       pc[c] # "waiting" /\ (pc[c] = "wait" => woken[c])
  /\ \A r \in Readers : st[r] # "served"

\* More values than fit were taken in, and one of them handed out.
Overflowed == got # <<>> /\ Len(got) + Len(q) > MaxSize

\* That is so as soon as a writer has been served, long before it reads ptr_.
ServedAfterOverflow == crashed \/ (\E w \in Writers : st[w] = "served") => Overflowed

IInv == TypeOK /\ Balanced /\ Listed /\ Awake /\ ServedAfterOverflow

-----------------------------------------------------------------------------
(* The lists *)

\* The first n elements and the others, for the n that matter.
LEMMA Ends ==
  ASSUME NEW T, NEW s \in Seq(T)
  PROVE  /\ Upto(s, 0) = <<>> /\ From(s, 0) = s
         /\ s # <<>> => Upto(s, 1) = <<Head(s)>> /\ From(s, 1) = Tail(s)
         /\ Elems(<<>>) = {}
         /\ s # <<>> => Elems(<<Head(s)>>) = {Head(s)}
<1>1. Upto(s, 0) = <<>> /\ From(s, 0) = s
  BY DEF Upto, From
<1>2. ASSUME s # <<>> PROVE Upto(s, 1) = <<Head(s)>> /\ From(s, 1) = Tail(s)
  <2>1. Len(s) \in Nat \ {0}
    BY <1>2
  <2>2. SubSeq(s, 1, 1) = <<s[1]>> \o SubSeq(s, 2, 1)
    BY <2>1
  <2>3. SubSeq(s, 2, 1) = <<>>
    OBVIOUS
  <2>4. s[1] \in T
    BY <2>1
  <2>5. <<s[1]>> \o <<>> = <<s[1]>>
    BY <2>4
  <2>6. Tail(s) = SubSeq(s, 2, Len(s)) /\ Head(s) = s[1]
    BY <1>2
  <2>7. Upto(s, 1) = <<Head(s)>>
    BY <2>2, <2>3, <2>5, <2>6, Zenon DEF Upto
  <2>8. From(s, 1) = Tail(s)
    BY <2>6 DEF From
  <2> QED
    BY <2>7, <2>8, Zenon
<1>3. Elems(<<>>) = {} /\ Elems(<<Head(s)>>) = {Head(s)}
  BY DEF Elems
<1> QED
  BY <1>1, <1>2, <1>3, Zenon

-----------------------------------------------------------------------------
(* The loops.  Balance makes each of them run at most once. *)

\* notifyReader() hands the new value to the first waiting reader, if there is
\* one: the queue was empty then.
LEMMA NotifyReaderCases ==
  ASSUME TypeOK, Balanced, NEW w \in Writers, HasRoom, NotifyReader(w)
  PROVE  \/ /\ readers = <<>> /\ readers' = readers
            /\ q' = Append(q, w) /\ got' = got
            /\ st' = Waiters(w, "sent", {}, "full") /\ UnparkAndGoto({}, w, "over")
         \/ /\ readers # <<>> /\ readers' = Tail(readers)
            /\ q = <<>> /\ q' = <<>> /\ got' = Append(got, w)
            /\ st' = Waiters(w, "sent", {Head(readers)}, "full")
            /\ UnparkAndGoto({Head(readers)}, w, "over")
<1> DEFINE all == Append(q, w)
           n == Fewest(Len(all), Len(readers))
           S == Elems(Upto(readers, n))
<1>1. /\ q' = From(all, n) /\ readers' = From(readers, n) /\ got' = got \o Upto(all, n)
      /\ st' = Waiters(w, "sent", S, "full") /\ UnparkAndGoto(S, w, "over")
  BY Zenon DEF NotifyReader
<1>2. all \in Seq(Writers) /\ all # <<>> /\ Len(all) = Len(q) + 1 /\ Len(q) \in Nat
  <2>1. q \in Seq(Writers)
    BY Zenon DEF TypeOK
  <2> QED
    BY <2>1
<1>3. CASE readers = <<>>
  <2>1. n = 0
    BY <1>2, <1>3 DEF Fewest
  <2>2. From(all, 0) = all /\ Upto(all, 0) = <<>> /\ From(readers, 0) = readers
        /\ Elems(Upto(readers, 0)) = {}
    BY <1>2, Ends, Zenon DEF TypeOK
  <2>3. got \o <<>> = got
    BY DEF TypeOK
  <2>4. S = {}
    BY <2>1, <2>2, Zenon
  <2>5. st' = Waiters(w, "sent", {}, "full") /\ UnparkAndGoto({}, w, "over")
    BY <1>1, <2>4, Zenon
  <2>6. q' = Append(q, w) /\ got' = got /\ readers' = readers
    BY <1>1, <2>1, <2>2, <2>3, Zenon
  <2> QED
    BY <1>3, <2>5, <2>6, Zenon
<1>4. CASE readers # <<>>
  <2>1. q = <<>> /\ Len(readers) \in Nat \ {0}
    BY <1>4 DEF TypeOK, Balanced
  <2>2. Len(all) = 1
    BY <1>2, <2>1
  <2>3. n = 1
    BY <2>1, <2>2 DEF Fewest
  <2>4. Head(all) = w /\ Tail(all) = <<>>
    BY <2>1 DEF TypeOK
  <2>5. From(all, 1) = <<>> /\ Upto(all, 1) = <<w>> /\ From(readers, 1) = Tail(readers)
        /\ Elems(Upto(readers, 1)) = {Head(readers)}
    BY <1>2, <1>4, <2>4, Ends, Zenon DEF TypeOK
  <2>6. got \o <<w>> = Append(got, w)
    BY DEF TypeOK
  <2> QED
    BY <1>1, <1>4, <2>1, <2>3, <2>5, <2>6, Zenon
<1> QED
  BY <1>3, <1>4, Zenon

\* notifyWriter() queues the value of the first waiting writer, if there is one:
\* the queue was full then, and has room for one.
LEMMA NotifyWriterCases ==
  ASSUME TypeOK, Balanced, q # <<>>, NEW r \in Readers, NEW new, NEW label,
         NotifyWriter(r, new, label)
  PROVE  /\ got' = Append(got, Head(q))
         /\ \/ /\ writers = <<>> /\ writers' = writers /\ q' = Tail(q)
               /\ st' = Waiters(r, new, {}, "served") /\ UnparkAndGoto({}, r, label)
            \/ /\ writers # <<>> /\ writers' = Tail(writers)
               /\ q' = Append(Tail(q), Head(writers))
               /\ st' = Waiters(r, new, {Head(writers)}, "served")
               /\ UnparkAndGoto({Head(writers)}, r, label)
<1> DEFINE n == Fewest(Len(writers), MaxSize - Len(Tail(q)))
           S == Elems(Upto(writers, n))
<1>1. /\ q' = Tail(q) \o Upto(writers, n) /\ writers' = From(writers, n)
      /\ got' = Append(got, Head(q))
      /\ st' = Waiters(r, new, S, "served") /\ UnparkAndGoto(S, r, label)
  BY Zenon DEF NotifyWriter
<1>2. Tail(q) \in Seq(Writers) /\ Len(Tail(q)) = Len(q) - 1 /\ Len(q) \in Nat \ {0}
  BY DEF TypeOK
<1>3. CASE writers = <<>>
  <2>1. n = 0
    <3>1. \A k \in 1..MaxSize : Fewest(0, MaxSize - (k - 1)) = 0
      BY MaxSizeAssumption DEF Fewest
    <3>2. Len(writers) = 0
      BY <1>3, Zenon
    <3>3. Len(q) \in 1..MaxSize
      <4>1. Len(q) <= MaxSize
        BY Zenon DEF Balanced
      <4> HIDE DEF n, S
      <4> QED
        BY <1>2, <4>1, MaxSizeAssumption
    <3> QED
      BY <1>2, <3>1, <3>2, <3>3, Zenon
  <2>2. From(writers, 0) = writers /\ Upto(writers, 0) = <<>> /\ Elems(Upto(writers, 0)) = {}
    BY Ends, Zenon DEF TypeOK
  <2>3. Tail(q) \o <<>> = Tail(q)
    BY <1>2
  <2>4. S = {}
    BY <2>1, <2>2, Zenon
  <2>5. st' = Waiters(r, new, {}, "served") /\ UnparkAndGoto({}, r, label)
    BY <1>1, <2>4, Zenon
  <2>6. q' = Tail(q) /\ writers' = writers
    BY <1>1, <2>1, <2>2, <2>3, Zenon
  <2> QED
    BY <1>1, <1>3, <2>5, <2>6, Zenon
<1>4. CASE writers # <<>>
  <2>1. Len(writers) \in Nat \ {0} /\ Len(q) = MaxSize /\ Head(writers) \in Writers
    BY <1>4 DEF TypeOK, Balanced
  <2>2. n = 1
    <3>1. MaxSize - Len(Tail(q)) = 1
      BY <1>2, <2>1, MaxSizeAssumption
    <3>2. \A m \in Nat \ {0} : Fewest(m, 1) = 1
      BY DEF Fewest
    <3> QED
      BY <2>1, <3>1, <3>2, Zenon
  <2>3. /\ From(writers, 1) = Tail(writers) /\ Upto(writers, 1) = <<Head(writers)>>
        /\ Elems(Upto(writers, 1)) = {Head(writers)}
    BY <1>4, Ends, Zenon DEF TypeOK
  <2>4. Tail(q) \o <<Head(writers)>> = Append(Tail(q), Head(writers))
    BY <1>2, <2>1
  <2> QED
    BY <1>1, <1>4, <2>2, <2>3, <2>4, Zenon
<1> QED
  BY <1>1, <1>3, <1>4, Zenon

-----------------------------------------------------------------------------
(* The invariant *)

\* Serving the set S and moving client c on keeps the types of the tables.
LEMMA ServeTypes ==
  ASSUME TypeOK, NEW c, NEW S,
         NEW new \in {"sent", "full", "taken"}, NEW served \in {"full", "served"},
         NEW label \in {"check", "over"},
         st' = Waiters(c, new, S, served), UnparkAndGoto(S, c, label)
  PROVE  /\ st' \in [Clients -> {"new", "sent", "waiting", "served", "full", "taken", "gone"}]
         /\ pc' \in [Clients -> {"scheduled", "create", "check", "is_ready", "wait", "waiting",
                                "finish", "detach", "over"}]
         /\ woken' \in [Clients -> BOOLEAN]
<1>1. st' \in [Clients -> {"new", "sent", "waiting", "served", "full", "taken", "gone"}]
  BY Zenon DEF TypeOK, Waiters
<1>2. pc' \in [Clients -> {"scheduled", "create", "check", "is_ready", "wait", "waiting",
                          "finish", "detach", "over"}]
  BY Zenon DEF TypeOK, UnparkAndGoto
<1>3. woken' \in [Clients -> BOOLEAN]
  BY Zenon DEF TypeOK, UnparkAndGoto
<1> QED
  BY <1>1, <1>2, <1>3, Zenon

\* Every step keeps the types.
LEMMA TypeOKStep == TypeOK /\ Balanced /\ [Next]_vars => TypeOK'
<1> SUFFICES ASSUME TypeOK, Balanced, [Next]_vars PROVE TypeOK'
  OBVIOUS
<1>1. ASSUME NEW c \in Clients, StartPoll(c) \/ Wait(c) PROVE TypeOK'
  <2>1. woken' \in [Clients -> BOOLEAN]
    BY <1>1, Zenon DEF TypeOK, StartPoll, Wait
  <2> QED
    BY <1>1, <2>1, Zenon DEF TypeOK, StartPoll, Wait, Goto
<1>2. ASSUME NEW w \in Writers, SendNow(w) PROVE TypeOK'
  <2>1. HasRoom /\ NotifyReader(w) /\ writers' = writers /\ crashed' = crashed
    BY <1>2, Zenon DEF SendNow
  <2>2. CASE readers = <<>>
    <3>1. /\ readers' = readers /\ q' = Append(q, w) /\ got' = got
          /\ st' = Waiters(w, "sent", {}, "full") /\ UnparkAndGoto({}, w, "over")
      BY <2>1, <2>2, NotifyReaderCases, Zenon
    <3>2. q' \in Seq(Writers)
      BY <3>1 DEF TypeOK
    <3> QED
      BY <2>1, <3>1, <3>2, ServeTypes, Zenon DEF TypeOK
  <2>3. CASE readers # <<>>
    <3>1. /\ readers' = Tail(readers) /\ q' = <<>> /\ got' = Append(got, w)
          /\ st' = Waiters(w, "sent", {Head(readers)}, "full")
          /\ UnparkAndGoto({Head(readers)}, w, "over")
      BY <2>1, <2>3, NotifyReaderCases, Zenon
    <3>2. q' \in Seq(Writers) /\ got' \in Seq(Writers)
      BY <3>1 DEF TypeOK
    <3>3. readers' \in Seq(Readers)
      BY <2>3, <3>1 DEF TypeOK
    <3> QED
      BY <2>1, <3>1, <3>2, <3>3, ServeTypes, Zenon DEF TypeOK
  <2> QED
    BY <2>2, <2>3, Zenon
<1>3. ASSUME NEW w \in Writers, SendWait(w) PROVE TypeOK'
  <2>1. writers' \in Seq(Writers)
    BY <1>3 DEF TypeOK, SendWait
  <2> QED
    BY <1>3, <2>1, Zenon DEF TypeOK, SendWait, Goto
<1>4. ASSUME NEW w \in Writers, SendFails(w) \/ ReadPtr(w) \/ IsReady(w) PROVE TypeOK'
  BY <1>4, Zenon DEF TypeOK, SendFails, ReadPtr, IsReady, Goto
<1>5. ASSUME NEW w \in Writers, DetachWriter(w) PROVE TypeOK'
  <2>1. writers' \in Seq(Writers)
    BY <1>5, WithoutAtFacts DEF TypeOK, DetachWriter, Unlinked
  <2> QED
    BY <1>5, <2>1, Zenon DEF TypeOK, DetachWriter, Goto
<1>6. ASSUME NEW r \in Readers, NEW new \in {"full", "taken"}, NEW label \in {"check", "over"},
             q # <<>>, NotifyWriter(r, new, label), UNCHANGED <<readers, crashed>>
      PROVE  TypeOK'
  <2>1. Head(q) \in Writers /\ Tail(q) \in Seq(Writers)
    BY <1>6 DEF TypeOK
  <2>2. got' \in Seq(Writers)
    <3>1. got' = Append(got, Head(q)) /\ got \in Seq(Writers)
      BY <1>6, NotifyWriterCases, Zenon DEF TypeOK
    <3> QED
      BY <2>1, <3>1
  <2>3. CASE writers = <<>>
    <3>1. /\ writers' = writers /\ q' = Tail(q)
          /\ st' = Waiters(r, new, {}, "served") /\ UnparkAndGoto({}, r, label)
      BY <1>6, <2>3, NotifyWriterCases, Zenon
    <3> QED
      BY <1>6, <2>1, <2>2, <3>1, ServeTypes DEF TypeOK
  <2>4. CASE writers # <<>>
    <3>1. /\ writers' = Tail(writers) /\ q' = Append(Tail(q), Head(writers))
          /\ st' = Waiters(r, new, {Head(writers)}, "served")
          /\ UnparkAndGoto({Head(writers)}, r, label)
      BY <1>6, <2>4, NotifyWriterCases, Zenon
    <3>2. writers' \in Seq(Writers) /\ Head(writers) \in Writers
      BY <2>4, <3>1 DEF TypeOK
    <3>3. q' \in Seq(Writers)
      BY <2>1, <3>1, <3>2
    <3>4. /\ st' \in [Clients -> {"new", "sent", "waiting", "served", "full", "taken", "gone"}]
          /\ pc' \in [Clients -> {"scheduled", "create", "check", "is_ready", "wait", "waiting",
                                 "finish", "detach", "over"}]
          /\ woken' \in [Clients -> BOOLEAN]
      BY <3>1, ServeTypes, Zenon
    <3> QED
      BY <1>6, <2>2, <3>2, <3>3, <3>4, Zenon DEF TypeOK
  <2> QED
    BY <2>3, <2>4, Zenon
<1>7. ASSUME NEW r \in Readers, DoRecv(r) PROVE TypeOK'
  <2>1. CASE q # <<>>
    BY <1>6, <1>7, <2>1, Zenon DEF DoRecv
  <2>2. CASE q = <<>>
    <3>1. readers' \in Seq(Readers)
      <4>1. readers' = Append(readers, r) /\ readers \in Seq(Readers)
        BY <1>7, <2>2, Zenon DEF TypeOK, DoRecv
      <4> QED
        BY <4>1
    <3> QED
      BY <1>7, <2>2, <3>1, Zenon DEF TypeOK, DoRecv, Goto
  <2> QED
    BY <2>1, <2>2, Zenon
<1>8. ASSUME NEW r \in Readers, TryRecv(r) PROVE TypeOK'
  <2>1. CASE q # <<>>
    BY <1>6, <1>8, <2>1, Zenon DEF TryRecv
  <2>2. CASE q = <<>>
    BY <1>8, <2>2, Zenon DEF TypeOK, TryRecv, Goto
  <2> QED
    BY <2>1, <2>2, Zenon
<1>9. ASSUME NEW r \in Readers, Value(r) PROVE TypeOK'
  BY <1>9, Zenon DEF TypeOK, Value, Goto, Clients
<1>10. ASSUME NEW r \in Readers, DropRecv(r) PROVE TypeOK'
  <2>1. readers' \in Seq(Readers)
    BY <1>10, WithoutAtFacts DEF TypeOK, DropRecv, Unlinked
  <2> QED
    BY <1>10, <2>1, Zenon DEF TypeOK, DropRecv, Goto
<1>11. ASSUME UNCHANGED vars PROVE TypeOK'
  BY <1>11, Zenon DEF TypeOK, vars
<1> QED
  BY <1>1, <1>2, <1>3, <1>4, <1>5, <1>7, <1>8, <1>9, <1>10, <1>11, Zenon
     DEF Next, WriterStep, ReaderStep, Clients

\* Every step keeps the bound, and leaves nobody waiting in vain.
LEMMA BalancedStep == TypeOK /\ Balanced /\ [Next]_vars => Balanced'
<1> SUFFICES ASSUME TypeOK, Balanced, [Next]_vars PROVE Balanced'
  OBVIOUS
<1>0. Len(q) \in Nat /\ Len(writers) \in Nat /\ Len(readers) \in Nat
  BY DEF TypeOK
<1>1. ASSUME UNCHANGED <<q, writers, readers>> PROVE Balanced'
  BY <1>1, Zenon DEF Balanced
<1>2. ASSUME NEW w \in Writers, SendNow(w) PROVE Balanced'
  <2>1. HasRoom /\ NotifyReader(w) /\ writers' = writers
    BY <1>2, Zenon DEF SendNow
  <2>2. writers = <<>>
    BY <1>0, <2>1, MaxSizeAssumption DEF HasRoom, Balanced
  <2>3. CASE readers = <<>>
    <3>1. readers' = <<>> /\ q' = Append(q, w)
      BY <2>1, <2>3, NotifyReaderCases, Zenon
    <3>2. Len(Append(q, w)) = Len(q) + 1
      BY DEF TypeOK
    <3> QED
      BY <1>0, <2>1, <2>2, <3>1, <3>2, MaxSizeAssumption DEF HasRoom, Balanced
  <2>4. CASE readers # <<>>
    BY <2>1, <2>2, <2>4, NotifyReaderCases, MaxSizeAssumption, Zenon DEF Balanced
  <2> QED
    BY <2>3, <2>4, Zenon
<1>3. ASSUME NEW w \in Writers, SendWait(w) PROVE Balanced'
  BY <1>0, <1>3, MaxSizeAssumption DEF Balanced, SendWait, HasRoom
<1>4. ASSUME NEW w \in Writers, DetachWriter(w) PROVE Balanced'
  <2>1. writers' # <<>> => writers # <<>>
    BY <1>4 DEF DetachWriter, Unlinked
  <2> QED
    BY <1>4, <2>1, Zenon DEF Balanced, DetachWriter
<1>5. ASSUME NEW r \in Readers, NEW new, NEW label,
             q # <<>>, NotifyWriter(r, new, label), readers' = readers
      PROVE  Balanced'
  <2>1. Tail(q) \in Seq(Writers) /\ Len(Tail(q)) = Len(q) - 1
    BY <1>5 DEF TypeOK
  <2>2. readers' = <<>>
    BY <1>5, Zenon DEF Balanced
  <2>3. CASE writers = <<>>
    <3>1. writers' = <<>> /\ q' = Tail(q)
      BY <1>5, <2>3, NotifyWriterCases, Zenon
    <3>2. Len(q') <= MaxSize
      <4>1. Len(q) <= MaxSize
        BY Zenon DEF Balanced
      <4> QED
        BY <1>0, <2>1, <3>1, <4>1, MaxSizeAssumption
    <3> QED
      BY <2>2, <3>1, <3>2, Zenon DEF Balanced
  <2>4. CASE writers # <<>>
    <3>1. q' = Append(Tail(q), Head(writers))
      BY <1>5, <2>4, NotifyWriterCases, Zenon
    <3>2. Head(writers) \in Writers
      BY <2>4 DEF TypeOK
    <3>3. Len(q') = Len(Tail(q)) + 1
      BY <2>1, <3>1, <3>2
    <3>4. Len(q) = MaxSize
      BY <2>4, Zenon DEF Balanced
    <3>5. Len(q') = MaxSize
      BY <1>0, <2>1, <3>3, <3>4
    <3> QED
      BY <2>2, <3>5, MaxSizeAssumption DEF Balanced
  <2> QED
    BY <2>3, <2>4, Zenon
<1>6. ASSUME NEW r \in Readers, DoRecv(r) PROVE Balanced'
  <2>1. CASE q # <<>>
    BY <1>5, <1>6, <2>1, Zenon DEF DoRecv
  <2>2. CASE q = <<>>
    BY <1>6, <2>2, Zenon DEF DoRecv, Balanced
  <2> QED
    BY <2>1, <2>2, Zenon
<1>7. ASSUME NEW r \in Readers, TryRecv(r) PROVE Balanced'
  <2>1. CASE q # <<>>
    BY <1>5, <1>7, <2>1, Zenon DEF TryRecv
  <2>2. CASE q = <<>>
    BY <1>1, <1>7, <2>2, Zenon DEF TryRecv
  <2> QED
    BY <2>1, <2>2, Zenon
<1>8. ASSUME NEW r \in Readers, DropRecv(r) PROVE Balanced'
  <2>1. readers' # <<>> => readers # <<>>
    BY <1>8 DEF DropRecv, Unlinked
  <2> QED
    BY <1>8, <2>1, Zenon DEF Balanced, DropRecv
<1>9. ASSUME NEW c \in Clients,
             \/ StartPoll(c) \/ Wait(c) \/ SendFails(c) \/ ReadPtr(c) \/ IsReady(c) \/ Value(c)
      PROVE  Balanced'
  BY <1>1, <1>9, Zenon DEF StartPoll, Wait, SendFails, ReadPtr, IsReady, Value
<1> QED
  BY <1>1, <1>2, <1>3, <1>4, <1>6, <1>7, <1>8, <1>9, Zenon
     DEF Next, WriterStep, ReaderStep, Clients, vars

-----------------------------------------------------------------------------
(* The lists *)

\* A list is kept when the same clients wait.
LEMMA ListSame ==
  ASSUME NEW T, NEW s \in Seq(T), NEW f, NEW g, OnList(s, f, T),
         \A c \in T : f[c] = "waiting" <=> g[c] = "waiting"
  PROVE  OnList(s, g, T)
<1>1. \A i \in 1..Len(s) : s[i] \in T
  OBVIOUS
<1> QED
  BY <1>1, Zenon DEF OnList

\* A client that starts to wait is put at the end.
LEMMA ListAppend ==
  ASSUME NEW T, NEW s \in Seq(T), NEW f, NEW g, NEW x \in T, OnList(s, f, T),
         f[x] # "waiting", g[x] = "waiting",
         \A c \in T : c # x => (f[c] = "waiting" <=> g[c] = "waiting")
  PROVE  OnList(Append(s, x), g, T)
<1>1. \A i \in 1..Len(s) : s[i] \in T
  OBVIOUS
<1>2. /\ Len(s) \in Nat /\ Len(Append(s, x)) = Len(s) + 1
      /\ \A i \in 1..Len(s) : Append(s, x)[i] = s[i]
      /\ Append(s, x)[Len(s) + 1] = x
  OBVIOUS
<1> DEFINE t == Append(s, x)
           n == Len(s)
<1>3. n \in Nat /\ Len(t) = n + 1 /\ (\A i \in 1..n : t[i] = s[i]) /\ t[n + 1] = x
  BY <1>2, Zenon
<1>4. /\ \A i, j \in 1..n : s[i] = s[j] => i = j
      /\ \A i \in 1..n : f[s[i]] = "waiting"
      /\ \A c \in T : f[c] = "waiting" => \E i \in 1..n : s[i] = c
  BY Zenon DEF OnList
<1> SUFFICES OnList(t, g, T)
  OBVIOUS
<1> HIDE DEF t, n
<1>5. \A i \in 1..n : s[i] # x
  BY <1>4, Zenon
<1>6. \A i, j \in 1..n + 1 : t[i] = t[j] => i = j
  BY <1>3, <1>4, <1>5
<1>7. \A i \in 1..n + 1 : g[t[i]] = "waiting"
  BY <1>1, <1>3, <1>4, <1>5 DEF n
<1>8. \A c \in T : g[c] = "waiting" => \E i \in 1..n + 1 : t[i] = c
  BY <1>3, <1>4, SMTT(30)
<1> QED
  BY <1>3, <1>6, <1>7, <1>8, Zenon DEF OnList

\* t is s without its element k.
Cut(s, k, t) ==
  /\ Len(t) = Len(s) - 1
  /\ \A j \in 1..Len(s) - 1 : t[j] = IF j < k THEN s[j] ELSE s[j + 1]

\* Client x does not wait any more, and nothing else happens to the waiting.
Stops(x, f, g, T) ==
  /\ g[x] # "waiting"
  /\ \A c \in T : c # x => (f[c] = "waiting" <=> g[c] = "waiting")

\* A client that stops waiting is taken out, wherever it is.
LEMMA ListWithout ==
  ASSUME NEW T, NEW s \in Seq(T), NEW f, NEW g, NEW k \in 1..Len(s), NEW t,
         OnList(s, f, T), Stops(s[k], f, g, T), Cut(s, k, t)
  PROVE  OnList(t, g, T)
<1> USE DEF Cut, Stops
<1>1. Len(s) \in Nat /\ \A i \in 1..Len(s) : s[i] \in T
  OBVIOUS
<1>2. /\ \A i, j \in 1..Len(s) : s[i] = s[j] => i = j
      /\ \A i \in 1..Len(s) : f[s[i]] = "waiting"
      /\ \A c \in T : f[c] = "waiting" => \E i \in 1..Len(s) : s[i] = c
  BY Zenon DEF OnList
<1>3. ASSUME NEW i \in 1..Len(s) - 1, NEW j \in 1..Len(s) - 1, t[i] = t[j] PROVE i = j
  <2> DEFINE Was(m) == IF m < k THEN m ELSE m + 1
  <2>1. Was(i) \in 1..Len(s) /\ Was(j) \in 1..Len(s)
    BY <1>1
  <2>2. t[i] = s[Was(i)] /\ t[j] = s[Was(j)]
    BY <1>1, Zenon
  <2>3. Was(i) = Was(j)
    <3>1. s[Was(i)] = s[Was(j)]
      BY <1>3, <2>2, Zenon
    <3> HIDE DEF Was
    <3> QED
      BY <1>2, <2>1, <3>1, Zenon
  <2> QED
    BY <1>1, <2>3
<1>4. \A i \in 1..Len(s) - 1 : g[t[i]] = "waiting"
  <2> TAKE i \in 1..Len(s) - 1
  <2>1. PICK j \in 1..Len(s) : t[i] = s[j] /\ j # k
    BY <1>1
  <2> QED
    BY <1>1, <1>2, <2>1
<1>5. ASSUME NEW c \in T, g[c] = "waiting" PROVE \E i \in 1..Len(s) - 1 : t[i] = c
  <2>1. PICK j \in 1..Len(s) : s[j] = c /\ j # k
    BY <1>2, <1>5, Zenon
  <2>2. CASE j < k
    <3>1. j \in 1..Len(s) - 1 /\ t[j] = c
      BY <1>1, <2>1, <2>2
    <3> QED
      BY <3>1, Zenon
  <2>3. CASE j > k
    <3>1. j - 1 \in 1..Len(s) - 1 /\ t[j - 1] = c
      BY <1>1, <2>1, <2>3
    <3> QED
      BY <3>1, Zenon
  <2> QED
    BY <1>1, <2>1, <2>2, <2>3
<1> QED
  BY <1>3, <1>4, <1>5, Zenon DEF OnList

\* The first client on a list is served.
LEMMA ListTail ==
  ASSUME NEW T, NEW s \in Seq(T), NEW f, NEW g, s # <<>>, OnList(s, f, T),
         Stops(Head(s), f, g, T)
  PROVE  OnList(Tail(s), g, T)
<1>1. Len(s) \in Nat \ {0} /\ Head(s) = s[1]
  OBVIOUS
<1>2. Len(Tail(s)) = Len(s) - 1 /\ \A j \in 1..Len(s) - 1 : Tail(s)[j] = s[j + 1]
  OBVIOUS
<1>3. PICK k \in 1..Len(s) : k = 1
  BY <1>1
<1>4. Cut(s, k, Tail(s))
  BY <1>1, <1>2, <1>3 DEF Cut
<1> QED
  BY <1>1, <1>3, <1>4, ListWithout, Zenon

\* The first client on a list is one of its clients, and waits.
LEMMA HeadWaits ==
  ASSUME NEW T, NEW s \in Seq(T), NEW f, s # <<>>, OnList(s, f, T)
  PROVE  Head(s) \in T /\ f[Head(s)] = "waiting"
<1>1. Len(s) \in Nat \ {0} /\ Head(s) = s[1]
  OBVIOUS
<1>2. 1 \in 1..Len(s) /\ Head(s) \in T
  BY <1>1
<1>3. f[s[1]] = "waiting"
  BY <1>2, Zenon DEF OnList
<1> QED
  BY <1>1, <1>2, <1>3, Zenon

\* What one step changes in the tables: nothing that matters to the lists, for
\* every action that leaves them alone.
LEMMA ListedSame ==
  ASSUME TypeOK, Listed, UNCHANGED <<writers, readers>>,
         \A c \in Clients : /\ st[c] = "waiting" <=> st'[c] = "waiting"
                            /\ pc'[c] = "create" => pc[c] = "create" /\ st'[c] = st[c]
  PROVE  Listed'
<1>1. OnList(writers, st', Writers)
  BY ListSame, Zenon DEF TypeOK, Listed, Clients
<1>2. OnList(readers, st', Readers)
  BY ListSame, Zenon DEF TypeOK, Listed, Clients
<1> QED
  BY <1>1, <1>2 DEF Listed, OnList

\* What serving the set S does to client d.
LEMMA ServeFacts ==
  ASSUME NEW c, NEW S, NEW new, NEW served, NEW label, NEW d \in Clients,
         st' = Waiters(c, new, S, served), UnparkAndGoto(S, c, label)
  PROVE  /\ st'[d] = IF d = c THEN new ELSE IF d \in S THEN served ELSE st[d]
         /\ pc'[d] = IF d = c THEN label
                     ELSE IF d \in S /\ pc[d] = "waiting" THEN "scheduled" ELSE pc[d]
         /\ woken[d] => woken'[d]
         /\ d \in S /\ d # c /\ pc[d] # "waiting" => woken'[d]
<1>1. st'[d] = IF d = c THEN new ELSE IF d \in S THEN served ELSE st[d]
  BY Zenon DEF Waiters
<1>2. pc'[d] = IF d = c THEN label
               ELSE IF d \in S /\ pc[d] = "waiting" THEN "scheduled" ELSE pc[d]
  BY Zenon DEF UnparkAndGoto
<1>3. woken'[d] = (woken[d] \/ (d \in S /\ d # c /\ pc[d] # "waiting"))
  BY Zenon DEF UnparkAndGoto
<1> QED
  BY <1>1, <1>2, <1>3, Zenon

\* Every step keeps the lists right.
LEMMA ListedStep == TypeOK /\ Balanced /\ Listed /\ [Next]_vars => Listed'
<1> SUFFICES ASSUME TypeOK, Balanced, Listed, [Next]_vars PROVE Listed'
  OBVIOUS
<1>0. /\ OnList(writers, st, Writers) /\ OnList(readers, st, Readers)
      /\ \A c \in Clients : pc[c] = "create" => st[c] = "new"
      /\ writers \in Seq(Writers) /\ readers \in Seq(Readers)
  BY Zenon DEF Listed, TypeOK
<1>1. ASSUME NEW c \in Clients, StartPoll(c) \/ Wait(c) \/ SendFails(c) \/ ReadPtr(c) \/ IsReady(c)
      PROVE  Listed'
  <2>1. UNCHANGED <<writers, readers, st>>
    BY <1>1, Zenon DEF StartPoll, Wait, SendFails, ReadPtr, IsReady
  <2>2. \A d \in Clients : pc'[d] = "create" => pc[d] = "create"
    BY <1>1, Zenon DEF StartPoll, Wait, SendFails, ReadPtr, IsReady, Goto, TypeOK
  <2> QED
    BY <2>1, <2>2, ListedSame, Zenon
<1>2. ASSUME NEW w \in Writers, SendNow(w) PROVE Listed'
  <2>1. HasRoom /\ NotifyReader(w) /\ writers' = writers /\ st[w] = "new" /\ w \in Clients
    BY <1>0, <1>2, Zenon DEF SendNow, Clients
  <2>2. CASE readers = <<>>
    <3>1. /\ readers' = readers
          /\ st' = Waiters(w, "sent", {}, "full") /\ UnparkAndGoto({}, w, "over")
      BY <2>1, <2>2, NotifyReaderCases, Zenon
    <3>2. ASSUME NEW d \in Clients
          PROVE  /\ st[d] = "waiting" <=> st'[d] = "waiting"
                 /\ pc'[d] = "create" => pc[d] = "create" /\ st'[d] = st[d]
      <4>1. /\ st'[d] = IF d = w THEN "sent" ELSE IF d \in {} THEN "full" ELSE st[d]
            /\ pc'[d] = IF d = w THEN "over"
                        ELSE IF d \in {} /\ pc[d] = "waiting" THEN "scheduled" ELSE pc[d]
        BY <3>1, ServeFacts
      <4> QED
        BY <2>1, <4>1, Zenon
    <3> QED
      BY <2>1, <3>1, <3>2, ListedSame, Zenon
  <2>3. CASE readers # <<>>
    <3> DEFINE h == Head(readers)
    <3>1. /\ readers' = Tail(readers)
          /\ st' = Waiters(w, "sent", {h}, "full") /\ UnparkAndGoto({h}, w, "over")
      BY <2>1, <2>3, NotifyReaderCases, Zenon
    <3>2. h \in Readers /\ st[h] = "waiting" /\ h # w /\ h \notin Writers
      BY <1>0, <2>1, <2>3, HeadWaits, ClientsAssumption, Zenon
    <3>3. \A d \in Clients :
             /\ st'[d] = IF d = w THEN "sent" ELSE IF d \in {h} THEN "full" ELSE st[d]
             /\ pc'[d] = IF d = w THEN "over"
                         ELSE IF d \in {h} /\ pc[d] = "waiting" THEN "scheduled" ELSE pc[d]
      <4> HIDE DEF h
      <4> QED
        BY <3>1, Zenon DEF Waiters, UnparkAndGoto
    <3>4. Stops(h, st, st', Readers)
      BY <2>1, <3>2, <3>3, Zenon DEF Stops, Clients
    <3>5. OnList(Tail(readers), st', Readers)
      BY <1>0, <2>3, <3>4, ListTail, Zenon
    <3>6. \A d \in Writers : st[d] = "waiting" <=> st'[d] = "waiting"
      BY <2>1, <3>2, <3>3, Zenon DEF Clients
    <3>7. OnList(writers, st', Writers)
      BY <1>0, <3>6, ListSame, Zenon
    <3>8. \A d \in Clients : pc'[d] = "create" => st'[d] = "new"
      BY <1>0, <2>1, <3>2, <3>3, Zenon
    <3>9. OnList(writers', st', Writers) /\ OnList(readers', st', Readers)
      BY <2>1, <3>1, <3>5, <3>7, Zenon
    <3> QED
      BY <3>8, <3>9, Zenon DEF Listed, OnList
  <2> QED
    BY <2>2, <2>3, Zenon
<1>3. ASSUME NEW w \in Writers, SendWait(w) PROVE Listed'
  <2>1. /\ writers' = Append(writers, w) /\ readers' = readers /\ w \in Clients
        /\ st[w] = "new" /\ w \notin Readers
    BY <1>0, <1>3, ClientsAssumption, Zenon DEF SendWait, Clients
  <2>2. \A d \in Clients : /\ st'[d] = IF d = w THEN "waiting" ELSE st[d]
                           /\ pc'[d] = IF d = w THEN "check" ELSE pc[d]
    BY <1>3, Zenon DEF SendWait, Goto, TypeOK
  <2>3. OnList(Append(writers, w), st', Writers)
    <3>1. /\ st[w] # "waiting" /\ st'[w] = "waiting"
          /\ \A d \in Writers : d # w => (st[d] = "waiting" <=> st'[d] = "waiting")
      BY <2>1, <2>2, Zenon DEF Clients
    <3> QED
      BY <1>0, <3>1, ListAppend, Zenon
  <2>4. OnList(readers, st', Readers)
    <3>1. \A d \in Readers : st[d] = "waiting" <=> st'[d] = "waiting"
      BY <2>1, <2>2, Zenon DEF Clients
    <3> QED
      BY <1>0, <3>1, ListSame, Zenon
  <2>5. \A d \in Clients : pc'[d] = "create" => st'[d] = "new"
    BY <1>0, <2>2, Zenon
  <2> QED
    BY <2>1, <2>3, <2>4, <2>5 DEF Listed, OnList
<1>4. ASSUME NEW w \in Writers, DetachWriter(w) PROVE Listed'
  <2>1. /\ readers' = readers /\ w \in Clients /\ w \notin Readers
        /\ st' = [st EXCEPT ![w] = "gone"] /\ pc' = [pc EXCEPT ![w] = "over"]
    BY <1>4, ClientsAssumption, Zenon DEF DetachWriter, Clients, Goto
  <2>2. \A d \in Clients : /\ st'[d] = IF d = w THEN "gone" ELSE st[d]
                           /\ pc'[d] = IF d = w THEN "over" ELSE pc[d]
    BY <2>1, Zenon DEF TypeOK
  <2>3. OnList(readers, st', Readers)
    <3>1. \A d \in Readers : st[d] = "waiting" <=> st'[d] = "waiting"
      BY <2>1, <2>2, Zenon DEF Clients
    <3> QED
      BY <1>0, <3>1, ListSame, Zenon
  <2>4. OnList(writers', st', Writers)
    <3>1. CASE \E i \in 1..Len(writers) : writers[i] = w /\ writers' = WithoutAt(writers, i)
      <4>1. PICK i \in 1..Len(writers) : writers[i] = w /\ writers' = WithoutAt(writers, i)
        BY <3>1, Zenon
      <4>2. Cut(writers, i, writers')
        BY <1>0, <4>1, WithoutAtFacts, Zenon DEF Cut
      <4>3. Stops(writers[i], st, st', Writers)
        BY <2>1, <2>2, <4>1 DEF Stops, Clients
      <4> QED
        BY <1>0, <4>2, <4>3, ListWithout, Zenon
    <3>2. CASE w \notin Elems(writers) /\ writers' = writers
      <4>1. st[w] # "waiting"
        BY <1>0, <3>2 DEF OnList, Elems
      <4>2. \A d \in Writers : st[d] = "waiting" <=> st'[d] = "waiting"
        BY <2>1, <2>2, <4>1 DEF Clients
      <4> QED
        BY <1>0, <3>2, <4>2, ListSame, Zenon
    <3> QED
      BY <1>4, <3>1, <3>2, Zenon DEF DetachWriter, Unlinked
  <2>5. \A d \in Clients : pc'[d] = "create" => st'[d] = "new"
    BY <1>0, <2>2, Zenon
  <2> QED
    BY <2>1, <2>3, <2>4, <2>5 DEF Listed, OnList
<1>5. ASSUME NEW r \in Readers, NEW new \in {"full", "taken"}, NEW label \in {"check", "over"},
             pc[r] = "create", q # <<>>, NotifyWriter(r, new, label), readers' = readers
      PROVE  Listed'
  <2>1. st[r] = "new" /\ r \in Clients
    BY <1>0, <1>5, Zenon DEF Clients
  <2>2. CASE writers = <<>>
    <3>1. /\ writers' = writers
          /\ st' = Waiters(r, new, {}, "served") /\ UnparkAndGoto({}, r, label)
      BY <1>5, <2>2, NotifyWriterCases, Zenon
    <3>2. ASSUME NEW d \in Clients
          PROVE  /\ st[d] = "waiting" <=> st'[d] = "waiting"
                 /\ pc'[d] = "create" => pc[d] = "create" /\ st'[d] = st[d]
      <4>1. /\ st'[d] = IF d = r THEN new ELSE IF d \in {} THEN "served" ELSE st[d]
            /\ pc'[d] = IF d = r THEN label
                        ELSE IF d \in {} /\ pc[d] = "waiting" THEN "scheduled" ELSE pc[d]
        BY <3>1, ServeFacts
      <4> QED
        BY <2>1, <4>1, Zenon
    <3> QED
      BY <1>5, <3>1, <3>2, ListedSame, Zenon
  <2>3. CASE writers # <<>>
    <3> DEFINE h == Head(writers)
    <3>1. /\ writers' = Tail(writers)
          /\ st' = Waiters(r, new, {h}, "served") /\ UnparkAndGoto({h}, r, label)
      BY <1>5, <2>3, NotifyWriterCases, Zenon
    <3>2. h \in Writers /\ st[h] = "waiting" /\ h # r /\ h \notin Readers
      BY <1>0, <2>1, <2>3, HeadWaits, ClientsAssumption, Zenon
    <3>3. \A d \in Clients :
             /\ st'[d] = IF d = r THEN new ELSE IF d \in {h} THEN "served" ELSE st[d]
             /\ pc'[d] = IF d = r THEN label
                         ELSE IF d \in {h} /\ pc[d] = "waiting" THEN "scheduled" ELSE pc[d]
      <4> HIDE DEF h
      <4> QED
        BY <3>1, Zenon DEF Waiters, UnparkAndGoto
    <3>4. Stops(h, st, st', Writers)
      BY <2>1, <3>2, <3>3, Zenon DEF Stops, Clients
    <3>5. OnList(Tail(writers), st', Writers)
      BY <1>0, <2>3, <3>4, ListTail, Zenon
    <3>6. \A d \in Readers : st[d] = "waiting" <=> st'[d] = "waiting"
      BY <2>1, <3>2, <3>3, Zenon DEF Clients
    <3>7. OnList(readers, st', Readers)
      BY <1>0, <3>6, ListSame, Zenon
    <3>8. \A d \in Clients : pc'[d] = "create" => st'[d] = "new"
      BY <1>0, <2>1, <3>2, <3>3, Zenon
    <3>9. OnList(writers', st', Writers) /\ OnList(readers', st', Readers)
      BY <1>5, <3>1, <3>5, <3>7, Zenon
    <3> QED
      BY <3>8, <3>9, Zenon DEF Listed, OnList
  <2> QED
    BY <2>2, <2>3, Zenon
<1>6. ASSUME NEW r \in Readers, DoRecv(r) PROVE Listed'
  <2>1. CASE q # <<>>
    BY <1>5, <1>6, <2>1, Zenon DEF DoRecv
  <2>2. CASE q = <<>>
    <3>1. /\ readers' = Append(readers, r) /\ writers' = writers /\ r \in Clients
          /\ st[r] = "new" /\ r \notin Writers
      BY <1>0, <1>6, <2>2, ClientsAssumption, Zenon DEF DoRecv, Clients
    <3>2. \A d \in Clients : /\ st'[d] = IF d = r THEN "waiting" ELSE st[d]
                             /\ pc'[d] = IF d = r THEN "check" ELSE pc[d]
      BY <1>6, <2>2, Zenon DEF DoRecv, Goto, TypeOK
    <3>3. OnList(Append(readers, r), st', Readers)
      <4>1. /\ st[r] # "waiting" /\ st'[r] = "waiting"
            /\ \A d \in Readers : d # r => (st[d] = "waiting" <=> st'[d] = "waiting")
        BY <3>1, <3>2, Zenon DEF Clients
      <4> QED
        BY <1>0, <4>1, ListAppend, Zenon
    <3>4. OnList(writers, st', Writers)
      <4>1. \A d \in Writers : st[d] = "waiting" <=> st'[d] = "waiting"
        BY <3>1, <3>2, Zenon DEF Clients
      <4> QED
        BY <1>0, <4>1, ListSame, Zenon
    <3>5. \A d \in Clients : pc'[d] = "create" => st'[d] = "new"
      BY <1>0, <3>2, Zenon
    <3> QED
      BY <3>1, <3>3, <3>4, <3>5 DEF Listed, OnList
  <2> QED
    BY <2>1, <2>2, Zenon
<1>7. ASSUME NEW r \in Readers, TryRecv(r) PROVE Listed'
  <2>1. CASE q # <<>>
    BY <1>5, <1>7, <2>1, Zenon DEF TryRecv
  <2>2. CASE q = <<>>
    <3>1. UNCHANGED <<writers, readers, st>>
      BY <1>7, <2>2, Zenon DEF TryRecv
    <3>2. \A d \in Clients : pc'[d] = "create" => pc[d] = "create"
      BY <1>7, <2>2, Zenon DEF TryRecv, Goto, TypeOK
    <3> QED
      BY <3>1, <3>2, ListedSame, Zenon
  <2> QED
    BY <2>1, <2>2, Zenon
<1>8. ASSUME NEW r \in Readers, Value(r) PROVE Listed'
  <2>1. UNCHANGED <<writers, readers>>
    BY <1>8, Zenon DEF Value
  <2>2. \A d \in Clients : /\ pc'[d] = "create" => pc[d] = "create" /\ st'[d] = st[d]
                           /\ st[d] = "waiting" <=> st'[d] = "waiting"
    BY <1>8, Zenon DEF Value, Goto, TypeOK
  <2> QED
    BY <2>1, <2>2, ListedSame, Zenon
<1>9. ASSUME NEW r \in Readers, DropRecv(r) PROVE Listed'
  <2>1. /\ writers' = writers /\ r \in Clients /\ r \notin Writers
        /\ st' = [st EXCEPT ![r] = "gone"] /\ pc' = [pc EXCEPT ![r] = "over"]
    BY <1>9, ClientsAssumption, Zenon DEF DropRecv, Clients, Goto
  <2>2. \A d \in Clients : /\ st'[d] = IF d = r THEN "gone" ELSE st[d]
                           /\ pc'[d] = IF d = r THEN "over" ELSE pc[d]
    BY <2>1, Zenon DEF TypeOK
  <2>3. OnList(writers, st', Writers)
    <3>1. \A d \in Writers : st[d] = "waiting" <=> st'[d] = "waiting"
      BY <2>1, <2>2, Zenon DEF Clients
    <3> QED
      BY <1>0, <3>1, ListSame, Zenon
  <2>4. OnList(readers', st', Readers)
    <3>1. CASE \E i \in 1..Len(readers) : readers[i] = r /\ readers' = WithoutAt(readers, i)
      <4>1. PICK i \in 1..Len(readers) : readers[i] = r /\ readers' = WithoutAt(readers, i)
        BY <3>1, Zenon
      <4>2. Cut(readers, i, readers')
        BY <1>0, <4>1, WithoutAtFacts, Zenon DEF Cut
      <4>3. Stops(readers[i], st, st', Readers)
        BY <2>1, <2>2, <4>1 DEF Stops, Clients
      <4> QED
        BY <1>0, <4>2, <4>3, ListWithout, Zenon
    <3>2. CASE r \notin Elems(readers) /\ readers' = readers
      <4>1. st[r] # "waiting"
        BY <1>0, <3>2 DEF OnList, Elems
      <4>2. \A d \in Readers : st[d] = "waiting" <=> st'[d] = "waiting"
        BY <2>1, <2>2, <4>1 DEF Clients
      <4> QED
        BY <1>0, <3>2, <4>2, ListSame, Zenon
    <3> QED
      BY <1>9, <3>1, <3>2, Zenon DEF DropRecv, Unlinked
  <2>5. \A d \in Clients : pc'[d] = "create" => st'[d] = "new"
    BY <1>0, <2>2, Zenon
  <2> QED
    BY <2>1, <2>3, <2>4, <2>5 DEF Listed, OnList
<1>10. ASSUME UNCHANGED vars PROVE Listed'
  BY <1>10 DEF Listed, OnList, vars
<1> QED
  BY <1>1, <1>2, <1>3, <1>4, <1>6, <1>7, <1>8, <1>9, <1>10, Zenon
     DEF Next, WriterStep, ReaderStep, Clients

-----------------------------------------------------------------------------
(* Waking up *)

\* Every step leaves the served tasks awake, and only readers with a value.
LEMMA AwakeStep == TypeOK /\ Balanced /\ Listed /\ Awake /\ [Next]_vars => Awake'
<1> SUFFICES ASSUME TypeOK, Balanced, Listed, Awake, [Next]_vars PROVE Awake'
  OBVIOUS
<1> USE DEF Clients
<1>1. ASSUME NEW c \in Clients, StartPoll(c) \/ Wait(c) PROVE Awake'
  <2>1. st' = st /\ \A d \in Clients : d # c => pc'[d] = pc[d] /\ woken'[d] = woken[d]
    BY <1>1, Zenon DEF StartPoll, Wait, Goto, TypeOK
  <2>2. st[c] \in {"full", "served"} => pc'[c] = "check"
    BY <1>1, Zenon DEF StartPoll, Wait, Goto, TypeOK, Awake
  <2> QED
    BY <2>1, <2>2, Zenon DEF Awake
<1>2. ASSUME NEW w \in Writers, SendFails(w) \/ ReadPtr(w) \/ IsReady(w) PROVE Awake'
  <2>1. st' = st /\ woken' = woken /\ \A d \in Clients : d # w => pc'[d] = pc[d]
    BY <1>2, Zenon DEF SendFails, ReadPtr, IsReady, Goto, TypeOK
  <2>2. st[w] \in {"full", "served"} => pc'[w] \notin {"wait", "waiting"}
    BY <1>2, Zenon DEF SendFails, ReadPtr, IsReady, Goto, TypeOK, Awake
  <2> QED
    BY <2>1, <2>2, Zenon DEF Awake
<1>3. ASSUME NEW c \in Clients, woken' = woken,
             NEW new \in {"waiting", "gone", "taken"}, st' = [st EXCEPT ![c] = new],
             NEW label \in {"check", "over"}, pc' = [pc EXCEPT ![c] = label]
      PROVE  Awake'
  BY <1>3, Zenon DEF Awake, TypeOK
<1>4. ASSUME NEW w \in Writers, SendWait(w) \/ DetachWriter(w) PROVE Awake'
  BY <1>3, <1>4, Zenon DEF SendWait, DetachWriter, Goto
<1>5. ASSUME NEW c \in Clients, NEW S, NEW new \in {"sent", "full", "taken"},
             NEW label \in {"check", "over"}, NEW served \in {"full", "served"},
             c \in Readers \/ new = "sent", S \cap Readers = {} \/ served = "full",
             st' = Waiters(c, new, S, served), UnparkAndGoto(S, c, label)
      PROVE  Awake'
  <2>1. ASSUME NEW d \in Clients, st'[d] \in {"full", "served"}
        PROVE  pc'[d] # "waiting" /\ (pc'[d] = "wait" => woken'[d])
    <3>1. /\ st'[d] = IF d = c THEN new ELSE IF d \in S THEN served ELSE st[d]
          /\ pc'[d] = IF d = c THEN label
                      ELSE IF d \in S /\ pc[d] = "waiting" THEN "scheduled" ELSE pc[d]
          /\ woken[d] => woken'[d]
          /\ d \in S /\ d # c /\ pc[d] # "waiting" => woken'[d]
      BY <1>5, ServeFacts, Zenon
    <3>2. st[d] \in {"full", "served"} => pc[d] # "waiting" /\ (pc[d] = "wait" => woken[d])
      BY Zenon DEF Awake
    <3>3. CASE d = c
      BY <3>1, <3>3, Zenon
    <3>4. CASE d # c /\ d \in S
      BY <3>1, <3>4, Zenon
    <3>5. CASE d # c /\ d \notin S
      BY <2>1, <3>1, <3>2, <3>5, Zenon
    <3> QED
      BY <3>3, <3>4, <3>5, Zenon
  <2>2. \A r \in Readers : st'[r] # "served"
    BY <1>5, Zenon DEF Awake, Waiters
  <2> QED
    BY <2>1, <2>2, Zenon DEF Awake
<1>6. ASSUME NEW w \in Writers, SendNow(w) PROVE Awake'
  <2>1. HasRoom /\ NotifyReader(w)
    BY <1>6, Zenon DEF SendNow
  <2>2. \E S : st' = Waiters(w, "sent", S, "full") /\ UnparkAndGoto(S, w, "over")
    BY <2>1, Zenon DEF NotifyReader
  <2> QED
    BY <1>5, <2>2, Zenon
<1>7. ASSUME NEW r \in Readers, NEW new \in {"full", "taken"}, NEW label \in {"check", "over"},
             q # <<>>, NotifyWriter(r, new, label)
      PROVE  Awake'
  <2>1. CASE writers = <<>>
    <3>1. st' = Waiters(r, new, {}, "served") /\ UnparkAndGoto({}, r, label)
      BY <1>7, <2>1, NotifyWriterCases, Zenon
    <3>2. {} \cap Readers = {}
      OBVIOUS
    <3> QED
      BY <1>5, <3>1, <3>2, Zenon
  <2>2. CASE writers # <<>>
    <3>1. /\ st' = Waiters(r, new, {Head(writers)}, "served")
          /\ UnparkAndGoto({Head(writers)}, r, label)
      BY <1>7, <2>2, NotifyWriterCases, Zenon
    <3>2. {Head(writers)} \cap Readers = {}
      BY <2>2, ClientsAssumption DEF TypeOK
    <3> QED
      BY <1>5, <3>1, <3>2, Zenon
  <2> QED
    BY <2>1, <2>2, Zenon
<1>8. ASSUME NEW r \in Readers, DoRecv(r) PROVE Awake'
  <2>1. CASE q # <<>>
    BY <1>7, <1>8, <2>1, Zenon DEF DoRecv
  <2>2. CASE q = <<>>
    BY <1>3, <1>8, <2>2, Zenon DEF DoRecv, Goto
  <2> QED
    BY <2>1, <2>2, Zenon
<1>9. ASSUME NEW r \in Readers, TryRecv(r) PROVE Awake'
  <2>1. CASE q # <<>>
    BY <1>7, <1>9, <2>1, Zenon DEF TryRecv
  <2>2. CASE q = <<>>
    BY <1>9, <2>2, Zenon DEF TryRecv, Goto, Awake, TypeOK
  <2> QED
    BY <2>1, <2>2, Zenon
<1>10. ASSUME NEW r \in Readers, Value(r) PROVE Awake'
  BY <1>10, Zenon DEF Value, Goto, Awake, TypeOK
<1>11. ASSUME NEW r \in Readers, DropRecv(r) PROVE Awake'
  BY <1>3, <1>11, Zenon DEF DropRecv, Goto
<1>12. ASSUME UNCHANGED vars PROVE Awake'
  BY <1>12, Zenon DEF Awake, vars
<1> QED
  BY <1>1, <1>2, <1>4, <1>6, <1>8, <1>9, <1>10, <1>11, <1>12, Zenon DEF Next, WriterStep, ReaderStep

\* Nobody becomes a served writer, and what was taken in and handed out stays so.
LEMMA OverflowKept ==
  ASSUME ServedAfterOverflow, Overflowed => Overflowed',
         \A w \in Writers : st'[w] = "served" => st[w] = "served",
         crashed' => crashed \/ \E w \in Writers : st[w] = "served"
  PROVE  ServedAfterOverflow'
BY Zenon DEF ServedAfterOverflow

\* A step serves a writer only when it hands out a value of a full queue, and a
\* step that reads a cleared ptr_ comes after one that has.
LEMMA OverflowStep ==
  TypeOK /\ Balanced /\ ServedAfterOverflow /\ [Next]_vars => ServedAfterOverflow'
<1> SUFFICES ASSUME TypeOK, Balanced, ServedAfterOverflow, [Next]_vars
             PROVE  ServedAfterOverflow'
  OBVIOUS
<1>0. /\ q \in Seq(Writers) /\ got \in Seq(Writers) /\ Len(q) \in Nat /\ Len(got) \in Nat
      /\ MaxSize \in Nat
  BY MaxSizeAssumption DEF TypeOK
<1>1. ASSUME UNCHANGED <<q, got>> PROVE Overflowed => Overflowed'
  BY <1>1, Zenon DEF Overflowed
<1>2. ASSUME NEW v \in Writers, got' = Append(got, v) PROVE got' # <<>> /\ Len(got') = Len(got) + 1
  BY <1>0, <1>2
<1>3. ASSUME NEW w \in Writers, SendNow(w) PROVE ServedAfterOverflow'
  <2>1. HasRoom /\ NotifyReader(w) /\ crashed' = crashed
    BY <1>3, Zenon DEF SendNow
  <2>2. \A x \in Writers : st'[x] = "served" => st[x] = "served"
    BY <2>1, Zenon DEF NotifyReader, Waiters, Clients
  <2>3. Overflowed => Overflowed'
    <3>1. CASE q' = Append(q, w) /\ got' = got
      <4>1. Len(q') = Len(q) + 1
        BY <1>0, <3>1
      <4> QED
        BY <1>0, <3>1, <4>1 DEF Overflowed
    <3>2. CASE q = <<>> /\ q' = <<>> /\ got' = Append(got, w)
      <4>1. got' # <<>> /\ Len(got') = Len(got) + 1 /\ q' = q
        BY <1>2, <3>2, Zenon
      <4> QED
        BY <1>0, <4>1 DEF Overflowed
    <3> QED
      BY <2>1, <3>1, <3>2, NotifyReaderCases, Zenon
  <2> QED
    BY <2>1, <2>2, <2>3, OverflowKept, Zenon
<1>4. ASSUME NEW r \in Readers, NEW new \in {"full", "taken"}, NEW label, q # <<>>,
             NotifyWriter(r, new, label), crashed' = crashed
      PROVE  ServedAfterOverflow'
  <2>1. got' = Append(got, Head(q)) /\ Head(q) \in Writers /\ Len(Tail(q)) = Len(q) - 1
        /\ Tail(q) \in Seq(Writers)
    <3>1. Head(q) \in Writers /\ Len(Tail(q)) = Len(q) - 1 /\ Tail(q) \in Seq(Writers)
      BY <1>0, <1>4
    <3> QED
      BY <1>4, <3>1, NotifyWriterCases, Zenon
  <2>2. got' # <<>> /\ Len(got') = Len(got) + 1
    BY <1>2, <2>1, Zenon
  <2>3. CASE writers = <<>>
    <3>1. q' = Tail(q) /\ st' = Waiters(r, new, {}, "served")
      BY <1>4, <2>3, NotifyWriterCases, Zenon
    <3>2. \A x \in Writers : st'[x] = "served" => st[x] = "served"
      BY <3>1, Zenon DEF Waiters, Clients
    <3>3. Overflowed => Overflowed'
      BY <1>0, <2>1, <2>2, <3>1 DEF Overflowed
    <3> QED
      BY <1>4, <3>2, <3>3, OverflowKept, Zenon
  <2>4. CASE writers # <<>>
    <3>1. q' = Append(Tail(q), Head(writers))
      BY <1>4, <2>4, NotifyWriterCases, Zenon
    <3>2. Len(q') = MaxSize
      <4>1. Len(q) = MaxSize /\ Head(writers) \in Writers
        BY <2>4 DEF Balanced, TypeOK
      <4> QED
        BY <1>0, <2>1, <3>1, <4>1
    <3>3. Overflowed'
      BY <1>0, <2>2, <3>2 DEF Overflowed
    <3> QED
      BY <3>3, Zenon DEF ServedAfterOverflow
  <2> QED
    BY <2>3, <2>4, Zenon
<1>5. ASSUME UNCHANGED <<q, got, crashed>>, NEW c, NEW new \in {"waiting", "gone", "taken"},
             st' = st \/ st' = [st EXCEPT ![c] = new]
      PROVE  ServedAfterOverflow'
  <2>1. \A x \in Writers : st'[x] = "served" => st[x] = "served"
    BY <1>5, Zenon DEF TypeOK, Clients
  <2> QED
    BY <1>1, <1>5, <2>1, OverflowKept, Zenon
<1>6. ASSUME NEW c \in Clients,
             StartPoll(c) \/ Wait(c) \/ SendFails(c) \/ IsReady(c) \/ SendWait(c) \/ DetachWriter(c)
             \/ DropRecv(c)
      PROVE  ServedAfterOverflow'
  BY <1>5, <1>6, Zenon DEF StartPoll, Wait, SendFails, IsReady, SendWait, DetachWriter, DropRecv
<1>7. ASSUME NEW w \in Writers, ReadPtr(w) PROVE ServedAfterOverflow'
  <2>1. UNCHANGED <<q, got, st>>
    BY <1>7, Zenon DEF ReadPtr
  <2>2. crashed' => crashed \/ st[w] = "served"
    BY <1>7, Zenon DEF ReadPtr, Dangles
  <2> QED
    BY <1>1, <2>1, <2>2, OverflowKept, Zenon
<1>8. ASSUME NEW r \in Readers, DoRecv(r) \/ TryRecv(r) PROVE ServedAfterOverflow'
  <2>1. CASE q # <<>>
    BY <1>4, <1>8, <2>1, Zenon DEF DoRecv, TryRecv
  <2>2. CASE q = <<>>
    BY <1>5, <1>8, <2>2, Zenon DEF DoRecv, TryRecv
  <2> QED
    BY <2>1, <2>2, Zenon
<1>9. ASSUME NEW r \in Readers, Value(r) PROVE ServedAfterOverflow'
  <2>1. UNCHANGED <<q, got, crashed>>
    BY <1>9, Zenon DEF Value
  <2>2. \A x \in Writers : st'[x] = "served" => st[x] = "served"
    BY <1>9, Zenon DEF Value, TypeOK, Clients
  <2> QED
    BY <1>1, <2>1, <2>2, OverflowKept, Zenon
<1>10. ASSUME UNCHANGED vars PROVE ServedAfterOverflow'
  BY <1>10, Zenon DEF ServedAfterOverflow, Overflowed, vars
<1> QED
  BY <1>3, <1>6, <1>7, <1>8, <1>9, <1>10, Zenon DEF Next, WriterStep, ReaderStep, Clients

\* The invariant holds from the start on.
THEOREM Invariance == Spec => []IInv
<1>1. Init => IInv
  <2> SUFFICES ASSUME Init PROVE IInv
    OBVIOUS
  <2>1. q = <<>> /\ writers = <<>> /\ readers = <<>> /\ got = <<>> /\ Len(<<>>) = 0
    BY Zenon DEF Init
  <2>2. TypeOK
    <3>1. /\ q \in Seq(Writers) /\ writers \in Seq(Writers) /\ readers \in Seq(Readers)
          /\ got \in Seq(Writers)
      BY <2>1
    <3>2. woken \in [Clients -> BOOLEAN] /\ crashed \in BOOLEAN
      BY Zenon DEF Init
    <3> QED
      BY <3>1, <3>2, Zenon DEF Init, TypeOK
  <2>3. Balanced
    BY <2>1, MaxSizeAssumption DEF Balanced
  <2>4. \A c \in Clients : st[c] = "new" /\ pc[c] = "create"
    BY Zenon DEF Init
  <2>5. Listed /\ Awake
    BY <2>1, <2>4 DEF Listed, OnList, Awake, Clients
  <2>6. ServedAfterOverflow
    BY <2>4, Zenon DEF Init, ServedAfterOverflow, Clients
  <2> QED
    BY <2>2, <2>3, <2>5, <2>6, Zenon DEF IInv
<1>2. IInv /\ [Next]_vars => IInv'
  BY TypeOKStep, BalancedStep, ListedStep, AwakeStep, OverflowStep, Zenon DEF IInv
<1> QED
  BY <1>1, <1>2, PTL DEF Spec

\* The channel is never fuller than max_size_, and no task waits in vain, for any
\* number of writers and readers and any bound.
THEOREM BalancedHolds == Spec => []Balanced
BY Invariance, PTL DEF IInv

\* No task is left asleep once its waiter has been served, and the lists hold
\* exactly the waiters that were not.
THEOREM ServedIsAwakeHolds == Spec => []ServedIsAwake
<1>1. IInv => ServedIsAwake
  <2> SUFFICES ASSUME IInv PROVE ServedIsAwake
    OBVIOUS
  <2>1. \A c \in Clients : st[c] \in {"full", "served"} => pc[c] # "waiting"
    BY Zenon DEF IInv, Awake
  <2>2. \A c \in Clients : st[c] = "waiting" <=> c \in Elems(writers) \cup Elems(readers)
    <3> TAKE c \in Clients
    <3>1. /\ \A i \in 1..Len(writers) : st[writers[i]] = "waiting"
          /\ \A i \in 1..Len(readers) : st[readers[i]] = "waiting"
      BY Zenon DEF IInv, Listed, OnList
    <3>2. st[c] = "waiting" => \/ \E i \in 1..Len(writers) : writers[i] = c
                              \/ \E i \in 1..Len(readers) : readers[i] = c
      BY Zenon DEF IInv, Listed, OnList, Clients
    <3> QED
      BY <3>1, <3>2, Zenon DEF Elems
  <2> QED
    BY <2>1, <2>2, Zenon DEF ServedIsAwake
<1> QED
  BY <1>1, Invariance, PTL

\* For any bound and any number of tasks, the process lives as long as no more
\* values than fit were sent or none was received.
THEOREM CrashNeedsBackpressureHolds == Spec => []CrashNeedsBackpressure
<1>1. IInv => CrashNeedsBackpressure
  BY Zenon DEF IInv, ServedAfterOverflow, Overflowed, CrashNeedsBackpressure
<1> QED
  BY <1>1, Invariance, PTL

-----------------------------------------------------------------------------
(* The refinement *)

\* The writers whose destructor has run.
Gone == {w \in Writers : st[w] = "gone"}

\* Every step of the channel is a step of the abstract one, or none.
LEMMA FifoStep ==
  ASSUME IInv, [Next]_vars
  PROVE  [Fifo!Next]_(Fifo!vars)
<1>0. /\ q \in Seq(Writers) /\ writers \in Seq(Writers) /\ got \in Seq(Writers)
      /\ TypeOK /\ Balanced
  BY Zenon DEF IInv, TypeOK
<1>1. ASSUME UNCHANGED <<q, writers, got>>, Gone' = Gone PROVE [Fifo!Next]_(Fifo!vars)
  BY <1>1, Zenon DEF Fifo!vars, Gone
<1>2. ASSUME \A w \in Writers : st'[w] = "gone" <=> st[w] = "gone" PROVE Gone' = Gone
  BY <1>2, Zenon DEF Gone
<1>3. \A c \in Clients : pc[c] = "create" => st[c] = "new"
  BY Zenon DEF IInv, Listed
<1>4. /\ readers # <<>> => st[Head(readers)] = "waiting"
      /\ writers # <<>> => st[Head(writers)] = "waiting"
  BY HeadWaits, Zenon DEF IInv, TypeOK, Listed
<1>5. ASSUME NEW w \in Writers, SendNow(w) PROVE [Fifo!Next]_(Fifo!vars)
  <2>1. HasRoom /\ NotifyReader(w) /\ writers' = writers /\ st[w] = "new"
    BY <1>3, <1>5, Zenon DEF SendNow, Clients
  <2>2. writers = <<>>
    <3>1. Len(q) \in Nat
      BY <1>0
    <3> QED
      BY <1>0, <2>1, <3>1, MaxSizeAssumption DEF HasRoom, Balanced
  <2>3. CASE readers = <<>>
    <3>1. q' = Append(q, w) /\ got' = got /\ st' = Waiters(w, "sent", {}, "full")
      BY <1>0, <2>1, <2>3, NotifyReaderCases, Zenon
    <3>2. \A x \in Writers : st'[x] = "gone" <=> st[x] = "gone"
      BY <2>1, <3>1, Zenon DEF Waiters, Clients
    <3>3. Gone' = Gone
      BY <1>2, <3>2, Zenon
    <3> QED
      BY <2>1, <2>2, <3>1, <3>3, Zenon DEF Fifo!Next, Fifo!Send, Gone
  <2>4. CASE readers # <<>>
    <3>1. /\ q = <<>> /\ q' = <<>> /\ got' = Append(got, w)
          /\ st' = Waiters(w, "sent", {Head(readers)}, "full")
      BY <1>0, <2>1, <2>4, NotifyReaderCases, Zenon
    <3>2. \A x \in Writers : st'[x] = "gone" <=> st[x] = "gone"
      BY <1>4, <2>1, <2>4, <3>1, Zenon DEF Waiters, Clients
    <3>3. Gone' = Gone
      BY <1>2, <3>2, Zenon
    <3> QED
      BY <2>1, <2>2, <3>1, <3>3, Zenon DEF Fifo!Next, Fifo!Pass, Gone
  <2> QED
    BY <2>3, <2>4, Zenon
<1>6. ASSUME NEW w \in Writers, SendWait(w) PROVE [Fifo!Next]_(Fifo!vars)
  <2>1. q' = q /\ writers' = Append(writers, w) /\ got' = got
    BY <1>6, Zenon DEF SendWait
  <2>2. q # <<>>
    BY <1>6, MaxSizeAssumption DEF SendWait, HasRoom
  <2>3. Gone' = Gone
    <3>1. st' = [st EXCEPT ![w] = "waiting"] /\ st[w] = "new"
      BY <1>3, <1>6, Zenon DEF SendWait, Clients
    <3> QED
      BY <1>0, <1>2, <3>1, Zenon DEF TypeOK, Clients
  <2> QED
    BY <2>1, <2>2, <2>3, Zenon DEF Fifo!Next, Fifo!SendWait, Gone
<1>7. ASSUME NEW w \in Writers, DetachWriter(w) PROVE [Fifo!Next]_(Fifo!vars)
  <2>1. q' = q /\ got' = got /\ Unlinked(writers, w, writers') /\ st' = [st EXCEPT ![w] = "gone"]
    BY <1>7, Zenon DEF DetachWriter
  <2>2. \A x \in Writers : st'[x] = "gone" <=> st[x] = "gone" \/ x = w
    BY <1>0, <2>1, Zenon DEF TypeOK, Clients
  <2>3. Gone' = Gone \cup {w}
    BY <2>2, Zenon DEF Gone
  <2>4. Fifo!Unlinked(writers, w, writers')
    BY <2>1, Zenon DEF Unlinked, Elems, WithoutAt, Upto, From,
                       Fifo!Unlinked, Fifo!Elems, Fifo!WithoutAt, Fifo!Upto, Fifo!From
  <2> QED
    BY <2>1, <2>3, <2>4, Zenon DEF Fifo!Next, Fifo!Leave, Gone
<1>8. ASSUME NEW r \in Readers, NEW new \in {"full", "taken"}, NEW label, q # <<>>,
             st[r] = "new", NotifyWriter(r, new, label)
      PROVE  [Fifo!Next]_(Fifo!vars)
  <2>1. got' = Append(got, Head(q))
    BY <1>0, <1>8, NotifyWriterCases, Zenon
  <2>2. CASE writers = <<>>
    <3>1. writers' = writers /\ q' = Tail(q) /\ st' = Waiters(r, new, {}, "served")
      BY <1>0, <1>8, <2>2, NotifyWriterCases, Zenon
    <3>2. \A x \in Writers : st'[x] = "gone" <=> st[x] = "gone"
      BY <1>8, <3>1, Zenon DEF Waiters, Clients
    <3>3. Gone' = Gone
      BY <1>2, <3>2, Zenon
    <3> QED
      BY <1>8, <2>1, <2>2, <3>1, <3>3, Zenon DEF Fifo!Next, Fifo!Receive, Gone
  <2>3. CASE writers # <<>>
    <3>1. /\ writers' = Tail(writers) /\ q' = Append(Tail(q), Head(writers))
          /\ st' = Waiters(r, new, {Head(writers)}, "served")
      BY <1>0, <1>8, <2>3, NotifyWriterCases, Zenon
    <3>2. \A x \in Writers : st'[x] = "gone" <=> st[x] = "gone"
      BY <1>4, <1>8, <2>3, <3>1, Zenon DEF Waiters, Clients
    <3>3. Gone' = Gone
      BY <1>2, <3>2, Zenon
    <3> QED
      BY <1>8, <2>1, <2>3, <3>1, <3>3, Zenon DEF Fifo!Next, Fifo!Receive, Gone
  <2> QED
    BY <2>2, <2>3, Zenon
<1>9. ASSUME NEW r \in Readers, NEW new \in {"waiting", "gone", "taken"},
              UNCHANGED <<q, writers, got>>, st' = [st EXCEPT ![r] = new]
       PROVE  [Fifo!Next]_(Fifo!vars)
  <2>1. \A w \in Writers : st'[w] = st[w]
    BY <1>0, <1>9, ClientsAssumption, Zenon DEF TypeOK, Clients
  <2> QED
    BY <1>1, <1>2, <1>9, <2>1, Zenon
<1>10. ASSUME NEW r \in Readers, DoRecv(r) \/ TryRecv(r) PROVE [Fifo!Next]_(Fifo!vars)
  <2>1. st[r] = "new"
    BY <1>3, <1>10, Zenon DEF DoRecv, TryRecv, Clients
  <2>2. CASE q # <<>>
    BY <1>8, <1>10, <2>1, <2>2, Zenon DEF DoRecv, TryRecv
  <2>3. CASE q = <<>>
    BY <1>1, <1>9, <1>10, <2>3, Zenon DEF DoRecv, TryRecv, Gone
  <2> QED
    BY <2>2, <2>3, Zenon
<1>11. ASSUME NEW r \in Readers, DropRecv(r) \/ Value(r) PROVE [Fifo!Next]_(Fifo!vars)
  <2>1. CASE DropRecv(r)
    BY <1>9, <2>1, Zenon DEF DropRecv
  <2>2. CASE Value(r)
    <3>1. UNCHANGED <<q, writers, got>> /\ \A w \in Writers : st'[w] = st[w]
      BY <1>0, <2>2, ClientsAssumption, Zenon DEF Value, TypeOK, Clients
    <3> QED
      BY <1>1, <1>2, <3>1, Zenon
  <2> QED
    BY <1>11, <2>1, <2>2, Zenon
<1>12. ASSUME NEW c \in Clients,
              StartPoll(c) \/ Wait(c) \/ SendFails(c) \/ ReadPtr(c) \/ IsReady(c)
       PROVE  [Fifo!Next]_(Fifo!vars)
  BY <1>1, <1>12, Zenon DEF StartPoll, Wait, SendFails, ReadPtr, IsReady, Gone
<1>13. CASE UNCHANGED vars
  BY <1>1, <1>13, Zenon DEF vars, Gone
<1> QED
  BY <1>5, <1>6, <1>7, <1>10, <1>11, <1>12, <1>13, Zenon DEF Next, WriterStep, ReaderStep, Clients

\* BufferedChannel implements the abstract channel, whatever waits and whatever is
\* dropped, for any number of tasks and any bound.
THEOREM FifoRefinement == Spec => ImplementsFifo
<1>1. Init => Fifo!Init
  <2> SUFFICES ASSUME Init PROVE Fifo!Init
    OBVIOUS
  <2>1. q = <<>> /\ writers = <<>> /\ got = <<>>
    BY Zenon DEF Init
  <2>2. {w \in Writers : st[w] = "gone"} = {}
    BY Zenon DEF Init, Clients
  <2> QED
    BY <2>1, <2>2, Zenon DEF Fifo!Init
<1>2. IInv /\ [Next]_vars => [Fifo!Next]_(Fifo!vars)
  BY FifoStep, Zenon
<1> QED
  BY <1>1, <1>2, Invariance, PTL DEF Spec, ImplementsFifo, Fifo!Spec

-----------------------------------------------------------------------------
(* The unbounded channel *)

\* What senders_ and the two flags mean: senders_ counts the sender objects that
\* are alive, so that a destructor on its way to set sender_closed_ is the last.
Counting ==
  /\ Numbered(Alive, senders)
  /\ (senderClosed \/ \E x \in Senders : spc[x] = "closing") => Alive = {}

\* What the receiver's task knows: the channel is closed with it, and once poll()
\* has returned not_ready the Task stays in rx_task_, so that whatever comes next
\* wakes the task, or has woken it already.
Watching ==
  /\ recvClosed <=> rxPhase = "done"
  /\ ended => recvClosed
  /\ rxPhase = "polling" /\ rpc = "wait" => rx /\ (rxWoken \/ (q_ = <<>> /\ ~senderClosed))
  /\ SleepsOnNothing

ChannelInv == ChannelTypeOK /\ Counting /\ Watching

-----------------------------------------------------------------------------
(* How many sender objects there are *)

\* Only the empty set has no member.
LEMMA NoneNumbered ==
  ASSUME NEW S, NEW n \in Nat, Numbered(S, n)
  PROVE  n = 0 <=> S = {}
<1>1. PICK f \in [1..n -> S] : Once(f) /\ Elems(f) = S
  BY Zenon DEF Numbered
<1> QED
  BY <1>1 DEF Elems

\* A set with a single member.
LEMMA OneNumbered == ASSUME NEW x PROVE Numbered({x}, 1)
<1> DEFINE f == [i \in 1..1 |-> x]
<1>1. f \in [1..1 -> {x}] /\ Len(f) = 1 /\ f[1] = x
  OBVIOUS
<1>2. Once(f)
  BY <1>1 DEF Once
<1>3. Elems(f) = {x}
  BY <1>1 DEF Elems
<1> QED
  BY <1>1, <1>2, <1>3, Zenon DEF Numbered

\* A member more.
LEMMA OneMoreNumbered ==
  ASSUME NEW S, NEW n \in Nat, Numbered(S, n), NEW x, x \notin S
  PROVE  Numbered(S \cup {x}, n + 1)
<1>1. PICK f \in [1..n -> S] : Once(f) /\ Elems(f) = S
  BY Zenon DEF Numbered
<1> DEFINE g == [i \in 1..n + 1 |-> IF i = n + 1 THEN x ELSE f[i]]
<1>2. g \in [1..n + 1 -> S \cup {x}] /\ Len(f) = n /\ Len(g) = n + 1
  OBVIOUS
<1>3. Once(g)
  BY <1>1, <1>2 DEF Once
<1>4. ASSUME NEW y \in S \cup {x} PROVE y \in Elems(g)
  <2>1. CASE y = x
    BY <1>2, <2>1 DEF Elems
  <2>2. CASE y # x
    <3>1. PICK i \in 1..n : f[i] = y
      BY <1>1, <1>2, <2>2, Zenon DEF Elems
    <3>2. i \in 1..Len(g) /\ g[i] = y
      BY <1>2, <3>1
    <3> QED
      BY <3>2, Zenon DEF Elems
  <2> QED
    BY <2>1, <2>2, Zenon
<1>5. Elems(g) \subseteq S \cup {x}
  BY <1>2, Zenon DEF Elems
<1> QED
  BY <1>2, <1>3, <1>4, <1>5, Zenon DEF Numbered

\* A member less: the last of the list takes its place.
LEMMA OneLessNumbered ==
  ASSUME NEW S, NEW n \in Nat, Numbered(S, n), NEW x \in S
  PROVE  n > 0 /\ Numbered(S \ {x}, n - 1)
<1>1. PICK f \in [1..n -> S] : Once(f) /\ Elems(f) = S
  BY Zenon DEF Numbered
<1>2. Len(f) = n
  OBVIOUS
<1>3. PICK k \in 1..n : f[k] = x
  BY <1>1, <1>2, Zenon DEF Elems
<1> DEFINE g == [i \in 1..n - 1 |-> IF i = k THEN f[n] ELSE f[i]]
<1>4. n > 0 /\ Len(g) = n - 1 /\ g \in [1..n - 1 -> S \ {x}]
  BY <1>1, <1>2, <1>3 DEF Once
<1>5. Once(g)
  BY <1>1, <1>2, <1>4 DEF Once
<1>6. ASSUME NEW y \in S \ {x} PROVE y \in Elems(g)
  <2>1. PICK i \in 1..n : f[i] = y
    BY <1>1, <1>2, Zenon DEF Elems
  <2>2. \E j \in 1..Len(g) : g[j] = y
    <3>1. CASE i = n
      BY <1>3, <1>4, <2>1, <3>1
    <3>2. CASE i # n
      BY <1>3, <1>4, <2>1, <3>2
    <3> QED
      BY <3>1, <3>2, Zenon
  <2> QED
    BY <2>2, Zenon DEF Elems
<1>7. Elems(g) \subseteq S \ {x}
  BY <1>4, Zenon DEF Elems
<1> QED
  BY <1>4, <1>5, <1>6, <1>7, Zenon DEF Numbered

-----------------------------------------------------------------------------
\* Every step of the senders and the receiver keeps the types.
LEMMA ChannelTypes == ChannelTypeOK /\ Counting /\ [ChannelNext]_channelVars => ChannelTypeOK'
<1> SUFFICES ASSUME ChannelTypeOK, Counting, [ChannelNext]_channelVars PROVE ChannelTypeOK'
  OBVIOUS
<1> USE MaxSendsAssumption
    DEF ChannelTypeOK, chanVars, sendVars, taskVars, readVars
<1>0. ASSUME UnparkRx PROVE rxPhase' \in {"scheduled", "polling", "waiting", "done"} /\ rxWoken' \in BOOLEAN
  BY <1>0, Zenon DEF UnparkRx, RxTask!Unpark
<1>1. ASSUME NEW x \in Senders, Send(x) PROVE ChannelTypeOK'
  <2>1. sends' \in [Senders -> 0..MaxSends] /\ <<x, sends[x]>> \in Values
    BY <1>1 DEF Send, Values
  <2>2. q_' = q_ \/ q_' = Append(q_, <<x, sends[x]>>)
    BY <1>1, Zenon DEF Send
  <2>4. q_' \in Seq(Values)
    <3>1. ASSUME NEW v \in Values PROVE Append(q_, v) \in Seq(Values)
      OBVIOUS
    <3>2. Append(q_, <<x, sends[x]>>) \in Seq(Values)
      BY <2>1, <3>1, Zenon
    <3> QED
      BY <2>2, <3>2, Zenon
  <2>3. rxPhase' \in {"scheduled", "polling", "waiting", "done"} /\ rxWoken' \in BOOLEAN
    BY <1>1, <1>0, Zenon DEF Send
  <2> QED
    BY <1>1, <2>1, <2>3, <2>4, Zenon DEF Send
<1>2. ASSUME NEW x \in Senders, NEW t \in Senders, Copy(x, t) PROVE ChannelTypeOK'
  BY <1>2 DEF Copy, OneMore
<1>3. ASSUME NEW x \in Senders, CloseSender(x) PROVE ChannelTypeOK'
  <2>1. senders # 0
    <3>1. x \in Alive
      BY <1>3, Zenon DEF CloseSender, Alive
    <3> QED
      BY <3>1, NoneNumbered, Zenon DEF Counting
  <2> QED
    BY <1>3, <2>1 DEF CloseSender
<1>4. ASSUME NEW x \in Senders, CloseLast(x) PROVE ChannelTypeOK'
  BY <1>4, <1>0, Zenon DEF CloseLast
<1>5. ASSUME RxStartPoll PROVE ChannelTypeOK'
  BY <1>5, Zenon DEF RxStartPoll, RxTask!StartPoll
<1>6. ASSUME PollItem PROVE ChannelTypeOK'
  BY <1>6 DEF PollItem
<1>7. ASSUME PollEmpty PROVE ChannelTypeOK'
  BY <1>7, Zenon DEF PollEmpty
<1>8. ASSUME PollEnd PROVE ChannelTypeOK'
  BY <1>8, Zenon DEF PollEnd, RxTask!Finish
<1>9. ASSUME ParkOrRepoll PROVE ChannelTypeOK'
  BY <1>9, Zenon DEF ParkOrRepoll, RxTask!Park, RxTask!Repoll
<1>10. ASSUME Abandon PROVE ChannelTypeOK'
  BY <1>10, Zenon DEF Abandon, RxTask!Finish
<1>11. CASE UNCHANGED channelVars
  BY <1>11, Zenon DEF channelVars
<1> HIDE DEF ChannelTypeOK, chanVars, sendVars, taskVars, readVars
<1> QED
  BY <1>1, <1>2, <1>3, <1>4, <1>5, <1>6, <1>7, <1>8, <1>9, <1>10, <1>11, Zenon
  DEF ChannelNext, ReceiverStep

\* senders_ goes on counting the sender objects: a copy adds one that was not
\* there, a destructor takes one away, and nothing else touches them.
LEMMA CountingStep == ChannelTypeOK /\ Counting /\ [ChannelNext]_channelVars => Counting'
<1> SUFFICES ASSUME ChannelTypeOK, Counting, [ChannelNext]_channelVars PROVE Counting'
  OBVIOUS
<1> USE DEF ChannelTypeOK, Counting, chanVars, sendVars, taskVars, readVars
<1>1. ASSUME UNCHANGED <<spc, senders, senderClosed>> PROVE Counting'
  BY <1>1, Zenon DEF Alive
<1>2. ASSUME NEW x \in Senders, NEW t \in Senders, Copy(x, t) PROVE Counting'
  <2>1. x \in Alive /\ t \notin Alive /\ Alive' = Alive \cup {t}
    BY <1>2, Zenon DEF Copy, Alive
  <2>2. Numbered(Alive', senders + 1)
    BY <2>1, OneMoreNumbered, Zenon
  <2> QED
    BY <1>2, <2>1, <2>2, Zenon DEF Copy, OneMore
<1>3. ASSUME NEW x \in Senders, CloseSender(x) PROVE Counting'
  <2>1. x \in Alive /\ Alive' = Alive \ {x}
    BY <1>3, Zenon DEF CloseSender, Alive
  <2>2. senders > 0 /\ senders' = senders - 1 /\ Numbered(Alive', senders')
    BY <1>3, <2>1, OneLessNumbered, Zenon DEF CloseSender
  <2>3. ASSUME NEW r \in Senders, spc'[r] = "closing" PROVE Alive' = {}
    <3>1. senders' = 0
      BY <1>3, <2>1, <2>2, <2>3 DEF CloseSender
    <3> QED
      BY <2>2, <3>1, NoneNumbered, Zenon
  <2> QED
    BY <1>3, <2>1, <2>2, <2>3, Zenon DEF CloseSender
<1>4. ASSUME NEW x \in Senders, CloseLast(x) PROVE Counting'
  <2>1. Alive = {} /\ Alive' = {}
    BY <1>4, Zenon DEF CloseLast, Alive
  <2> QED
    BY <1>4, <2>1, Zenon DEF CloseLast
<1>5. ASSUME ReceiverStep \/ Abandon \/ \E x \in Senders : Send(x)
      PROVE UNCHANGED <<spc, senders, senderClosed>>
  BY <1>5, Zenon DEF ReceiverStep, RxStartPoll, PollItem, PollEmpty, PollEnd, ParkOrRepoll, Abandon, Send
<1>6. CASE UNCHANGED channelVars
  BY <1>1, <1>6, Zenon DEF channelVars
<1> QED
  BY <1>1, <1>2, <1>3, <1>4, <1>5, <1>6, Zenon DEF ChannelNext

\* Every step leaves the receiver's task with something to wake it: a send or the
\* last close unparks the Task that poll() has left, and only poll() takes a value.
LEMMA WatchingStep == ChannelInv /\ [ChannelNext]_channelVars => Watching'
<1> SUFFICES ASSUME ChannelInv, [ChannelNext]_channelVars PROVE Watching'
  OBVIOUS
<1> USE DEF ChannelInv, ChannelTypeOK, Watching, SleepsOnNothing, chanVars, sendVars, taskVars, readVars
<1>1. ASSUME NEW x \in Senders, Send(x) PROVE Watching'
  BY <1>1, Zenon DEF Send, UnparkRx, RxTask!Unpark
<1>2. ASSUME NEW x \in Senders, NEW t \in Senders, Copy(x, t) PROVE Watching'
  BY <1>2, Zenon DEF Copy
<1>3. ASSUME NEW x \in Senders, CloseSender(x) PROVE Watching'
  BY <1>3, Zenon DEF CloseSender
<1>4. ASSUME NEW x \in Senders, CloseLast(x) PROVE Watching'
  BY <1>4, Zenon DEF CloseLast, UnparkRx, RxTask!Unpark
<1>5. ASSUME RxStartPoll PROVE Watching'
  BY <1>5, Zenon DEF RxStartPoll, RxTask!StartPoll
<1>6. ASSUME PollItem PROVE Watching'
  BY <1>6, Zenon DEF PollItem
<1>7. ASSUME PollEmpty PROVE Watching'
  BY <1>7, Zenon DEF PollEmpty
<1>8. ASSUME PollEnd PROVE Watching'
  BY <1>8, Zenon DEF PollEnd, RxTask!Finish
<1>9. ASSUME ParkOrRepoll PROVE Watching'
  BY <1>9, Zenon DEF ParkOrRepoll, RxTask!Park, RxTask!Repoll
<1>10. ASSUME Abandon PROVE Watching'
  BY <1>10, Zenon DEF Abandon, RxTask!Finish
<1>11. CASE UNCHANGED channelVars
  BY <1>11, Zenon DEF channelVars
<1> HIDE DEF ChannelInv, ChannelTypeOK, Watching, SleepsOnNothing, chanVars, sendVars,
             taskVars, readVars
<1> QED
  BY <1>1, <1>2, <1>3, <1>4, <1>5, <1>6, <1>7, <1>8, <1>9, <1>10, <1>11, Zenon
  DEF ChannelNext, ReceiverStep

\* IInv holds in every state of every behaviour of the channel.
THEOREM ChannelInvariance == ChannelSpec => []ChannelInv
<1>1. ChannelInit => ChannelInv
  <2> SUFFICES ASSUME ChannelInit PROVE ChannelInv
    OBVIOUS
  <2> USE MaxSendsAssumption, SendersAssumption DEF ChannelInit, RxTask!Init
  <2>1. ChannelTypeOK
    <3>1. /\ spc \in [Senders -> {"unborn", "open", "closing", "gone"}]
          /\ sends \in [Senders -> 0..MaxSends]
      OBVIOUS
    <3>2. q_ \in Seq(Values) /\ received \in Seq(Values) /\ senders \in Nat
      OBVIOUS
    <3> QED
      BY <3>1, <3>2, Zenon DEF ChannelTypeOK
  <2>2. Alive = {First}
    BY Zenon DEF Alive
  <2>3. Counting
    BY <2>2, OneNumbered, Zenon DEF Counting
  <2> QED
    BY <2>1, <2>3, Zenon DEF ChannelInv, Watching, SleepsOnNothing
<1>2. ChannelInv /\ [ChannelNext]_channelVars => ChannelInv'
  BY ChannelTypes, CountingStep, WatchingStep, Zenon DEF ChannelInv
<1> QED
  BY <1>1, <1>2, PTL DEF ChannelSpec

\* For any number of senders, the receiver never sleeps on a value or on the end.
THEOREM SleepsOnNothingHolds == ChannelSpec => []SleepsOnNothing
<1>1. ChannelInv => SleepsOnNothing
  BY Zenon DEF ChannelInv, Watching
<1> QED
  BY <1>1, ChannelInvariance, PTL

-----------------------------------------------------------------------------
\* Every step of a sender object or of the receiver is a step of the abstract
\* channel, or leaves it alone.
LEMMA ChannelFifoStep ==
  ASSUME ChannelInv, [ChannelNext]_channelVars
  PROVE  [ChannelFifo!Next]_(ChannelFifo!vars)
<1> USE MaxSendsAssumption
    DEF ChannelInv, ChannelTypeOK, Counting, Watching, chanVars, sendVars, taskVars, readVars,
        ChannelFifo!vars, ChannelFifo!Next
<1>1. ASSUME NEW x \in Senders, Send(x) PROVE [ChannelFifo!Next]_(ChannelFifo!vars)
  <2>1. <<x, sends[x]>> \in Values /\ x \in Alive /\ Alive' = Alive
    BY <1>1 DEF Send, Values, Alive
  <2>2. CASE recvClosed
    BY <1>1, <2>1, <2>2, Zenon DEF Send
  <2>3. CASE ~recvClosed
    <3>1. q_' = Append(q_, <<x, sends[x]>>) /\ UNCHANGED <<received, ended, recvClosed>>
      BY <1>1, <2>3, Zenon DEF Send
    <3> QED
      BY <2>1, <2>3, <3>1, Zenon DEF ChannelFifo!Send
  <2> QED
    BY <2>2, <2>3, Zenon
<1>2. ASSUME NEW x \in Senders, NEW t \in Senders, Copy(x, t) PROVE [ChannelFifo!Next]_(ChannelFifo!vars)
  <2>1. Alive # {} /\ Alive' # {}
    BY <1>2, Zenon DEF Copy, Alive
  <2> QED
    BY <1>2, <2>1, Zenon DEF Copy
<1>3. ASSUME NEW x \in Senders, CloseSender(x) PROVE [ChannelFifo!Next]_(ChannelFifo!vars)
  <2>1. Alive # {}
    BY <1>3, Zenon DEF CloseSender, Alive
  <2>2. UNCHANGED <<q_, received, ended, recvClosed>>
    BY <1>3, Zenon DEF CloseSender
  <2> QED
    BY <2>1, <2>2, Zenon DEF ChannelFifo!CloseSenders
<1>4. ASSUME NEW x \in Senders, CloseLast(x) PROVE [ChannelFifo!Next]_(ChannelFifo!vars)
  <2>1. Alive' = Alive
    BY <1>4, Zenon DEF CloseLast, Alive
  <2> QED
    BY <1>4, <2>1, Zenon DEF CloseLast
<1>5. ASSUME ReceiverStep \/ Abandon PROVE Alive' = Alive
  BY <1>5, Zenon DEF ReceiverStep, RxStartPoll, PollItem, PollEmpty, PollEnd, ParkOrRepoll, Abandon, Alive
<1>6. ASSUME PollItem PROVE [ChannelFifo!Next]_(ChannelFifo!vars)
  BY <1>5, <1>6, Zenon DEF ReceiverStep, PollItem, ChannelFifo!Receive
<1>7. ASSUME PollEnd PROVE [ChannelFifo!Next]_(ChannelFifo!vars)
  <2>1. Alive = {} /\ Alive' = {} /\ q_ = <<>> /\ q_' = <<>>
    BY <1>5, <1>7, Zenon DEF ReceiverStep, PollEnd
  <2>2. ~ended /\ ~recvClosed /\ ended' = TRUE /\ received' = received
    BY <1>7, Zenon DEF PollEnd
  <2> QED
    BY <2>1, <2>2 DEF ChannelFifo!End
<1>8. ASSUME Abandon PROVE [ChannelFifo!Next]_(ChannelFifo!vars)
  BY <1>5, <1>8, ZenonT(30) DEF Abandon, ChannelFifo!Abandon
<1>9. ASSUME RxStartPoll \/ PollEmpty \/ ParkOrRepoll PROVE [ChannelFifo!Next]_(ChannelFifo!vars)
  <2>1. Alive' = Alive
    BY <1>5, <1>9, Zenon DEF ReceiverStep
  <2>2. UNCHANGED <<q_, received, ended, recvClosed>>
    BY <1>9, Zenon DEF RxStartPoll, PollEmpty, ParkOrRepoll
  <2> QED
    BY <2>1, <2>2, Zenon
<1>10. CASE UNCHANGED channelVars
  BY <1>10, Zenon DEF channelVars, Alive
<1> QED
  BY <1>1, <1>2, <1>3, <1>4, <1>6, <1>7, <1>8, <1>9, <1>10, Zenon DEF ChannelNext, ReceiverStep

\* UnboundedMPSCChannelImpl implements the abstract channel, for any number of
\* sender objects, copied and destroyed at any time.
THEOREM ChannelRefinement == ChannelSpec => ChannelIsFifo
<1>1. ChannelInit => ChannelFifo!Init
  BY SendersAssumption, Zenon DEF ChannelInit, ChannelFifo!Init, Alive
<1>2. ChannelInv /\ [ChannelNext]_channelVars => [ChannelFifo!Next]_(ChannelFifo!vars)
  BY ChannelFifoStep, Zenon
<1> QED
  BY <1>1, <1>2, ChannelInvariance, PTL DEF ChannelSpec, ChannelIsFifo, ChannelFifo!Spec
=============================================================================
