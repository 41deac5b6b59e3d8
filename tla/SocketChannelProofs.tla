------------------------- MODULE SocketChannelProofs -------------------------
(***************************************************************************)
(* For any writes, of any length, the channel watches whatever waits, a    *)
(* stream's end is the last thing its user gets, and the peer gets whole   *)
(* writes, one after the other.                                            *)
(*                                                                         *)
(* PendingIsWatched is not inductive by itself: that nothing is attached   *)
(* to a channel before it is connected, that a closed one is shut down,    *)
(* and that a stream without a token holds no data has to be known, too.   *)
(*                                                                         *)
(* StreamIsWhole needs to know how the wire and the queue of writes fit    *)
(* together.  The wire is a sequence of blocks, one for each write, and    *)
(* all but the last one complete or of a dropped write (Blocks).  What is  *)
(* left of a write's vector is what is missing of its block (Portions).    *)
(* Only the first write of the queue can have begun, and then its block is *)
(* the last; a block that failed is the last, too, because that shut the   *)
(* stream (AtEnd).                                                         *)
(***************************************************************************)
EXTENDS SocketChannel, ListsProofs

States == {"INITED", "CONNECTING", "CONNECTED", "CLOSED"}

\* What the phases of the channel and of the stream imply
Phases ==
  /\ s \in States
  /\ s \in {"INITED", "CONNECTING"} => writers = <<>>
  /\ s = "CLOSED" => "SHUT_WRITE" \in flags
  /\ buf \in Nat /\ inbox \in Nat
  /\ reader = "none" => buf = 0
  /\ reader = "eof" => inbox = 0 /\ peer = "closed"

IInv == Phases /\ PendingIsWatched

\* cleanup() leaves a closed channel, whatever it was before.
LEMMA CleanupCloses ==
  ASSUME NEW c, NEW t, NEW r, Cleanup(c, t, r)
  PROVE  /\ s' = "CLOSED" /\ "SHUT_WRITE" \in flags' /\ ~rio' /\ ~wio' /\ writers' = <<>>
         /\ connect' # "started" /\ reader' # "started" /\ ~parked'
         /\ reader' = r \/ reader' = "cancelled"
BY Zenon DEF Cleanup, ForceClose

LEMMA CleanupKeeps ==
  ASSUME IInv, NEW c, NEW t, NEW r, Cleanup(c, t, r), r # "none" \/ (reader = "none" /\ buf' = buf),
         r # "eof" \/ (reader = "eof" /\ inbox' = inbox /\ peer' = peer),
         buf' \in Nat, inbox' \in Nat
  PROVE  IInv'
BY CleanupCloses, Zenon DEF IInv, Phases, PendingIsWatched, States

\* shutdownWriteNow() on a channel that is not closed
LEMMA ShutdownKeeps ==
  ASSUME IInv, NEW t, ShutdownWriteNow(t), s # "CLOSED", UNCHANGED <<buf, inbox, peer>>
  PROVE  IInv'
<1>1. CASE "SHUT_READ" \in flags
  <2>1. Cleanup(connect, t, reader)
    BY <1>1, Zenon DEF ShutdownWriteNow
  <2>2. buf' \in Nat /\ inbox' \in Nat
    BY Zenon DEF IInv, Phases
  <2> QED
    BY <2>1, <2>2, CleanupKeeps, Zenon
<1>2. CASE "SHUT_READ" \notin flags
  <2>1. /\ flags' = flags \cup {IF s = "CONNECTED" THEN "SHUT_WRITE" ELSE "SHUT_WRITE_PENDING"}
        /\ s # "CONNECTED" => (wio' <=> wio)
        /\ writers' = <<>>
        /\ UNCHANGED <<s, rio, connect, reader, parked>>
    BY <1>2, Zenon DEF ShutdownWriteNow
  <2>2. "SHUT_WRITE" \in flags => "SHUT_WRITE" \in flags'
    BY <2>1, Zenon
  <2>3. s = "CONNECTED" => "SHUT_WRITE" \in flags'
    BY <2>1, Zenon
  <2> QED
    BY <2>1, <2>2, <2>3, Zenon DEF IInv, Phases, PendingIsWatched
<1> QED
  BY <1>1, <1>2, Zenon

LEMMA IInvStep == IInv /\ [Next]_vars => IInv'
<1> SUFFICES ASSUME IInv, [Next]_vars PROVE IInv'
  OBVIOUS
<1> USE DEF socketVars, writeVars, readVars
<1>0. buf \in Nat /\ inbox \in Nat /\ s \in States
  BY Zenon DEF IInv, Phases
<1>1. ASSUME DoConnect PROVE IInv'
  BY <1>1, Zenon DEF DoConnect, IInv, Phases, PendingIsWatched, States
<1>2. ASSUME NEW w \in Writes, DoWrite(w) PROVE IInv'
  <2>1. UNCHANGED <<s, flags, rio, connect, reader, buf, parked, inbox, peer>>
    BY <1>2, Zenon DEF DoWrite
  <2>2. \/ UNCHANGED <<writers, wio>>
        \/ s = "CONNECTED" /\ wio' = TRUE
    BY <1>2, Zenon DEF DoWrite
  <2> QED
    BY <2>1, <2>2 DEF IInv, Phases, PendingIsWatched
<1>3. ASSUME NEW w \in Writes, DropWrite(w) PROVE IInv'
  <2>1. UNCHANGED <<s, flags, rio, wio, connect, reader, buf, parked, inbox, peer>>
        /\ Unlinked(writers, w, writers')
    BY <1>3, Zenon DEF DropWrite
  <2>2. writers = <<>> => writers' = <<>>
    BY <2>1 DEF Unlinked
  <2> QED
    BY <2>1, <2>2, Zenon DEF IInv, Phases, PendingIsWatched
<1>4. ASSUME DoRead PROVE IInv'
  BY <1>4, Zenon DEF DoRead, IInv, Phases, PendingIsWatched
<1>5. ASSUME PollRead PROVE IInv'
  <2>1. buf' = 0 /\ UNCHANGED <<s, flags, rio, wio, connect, writers, inbox, peer>>
    BY <1>5, Zenon DEF PollRead
  <2>2. \/ UNCHANGED <<reader, parked>>
        \/ reader = "started" /\ reader' = reader
        \/ reader' \in {"none", "ended"} /\ ~parked'
    BY <1>5, Zenon DEF PollRead
  <2> QED
    BY <2>1, <2>2 DEF IInv, Phases, PendingIsWatched
<1>6. ASSUME DropRead PROVE IInv'
  BY <1>6, Zenon DEF DropRead, IInv, Phases, PendingIsWatched
<1>7. ASSUME ShutdownWrite PROVE IInv'
  <2>1. s # "CLOSED" /\ UNCHANGED <<buf, inbox, peer>>
    BY <1>7, Zenon DEF ShutdownWrite, IInv, Phases
  <2>2. CASE writers = <<>>
    BY <1>7, <2>1, <2>2, ShutdownKeeps, Zenon DEF ShutdownWrite
  <2>3. CASE writers # <<>>
    <3>1. flags' = flags \cup {"SHUT_WRITE_PENDING"}
          /\ UNCHANGED <<s, rio, wio, connect, writers, reader, parked>>
      BY <1>7, <2>3, Zenon DEF ShutdownWrite
    <3>2. s = "CONNECTED" /\ wio
      BY <1>0, <2>1, <2>3, Zenon DEF IInv, Phases, PendingIsWatched, States
    <3> QED
      BY <2>1, <3>1, <3>2, Zenon DEF IInv, Phases, PendingIsWatched
  <2> QED
    BY <2>2, <2>3, Zenon
<1>8. ASSUME Stop PROVE IInv'
  <2>1. Cleanup(connect, tok, reader) /\ UNCHANGED <<buf, inbox, peer>>
    BY <1>8, Zenon DEF Stop
  <2> QED
    BY <1>0, <2>1, CleanupKeeps, Zenon
<1>9. ASSUME OnRead PROVE IInv'
  <2>1. CASE reader # "started"
    <3>1. rio' = FALSE
          /\ UNCHANGED <<s, flags, wio, connect, writers, reader, buf, parked, inbox, peer>>
      BY <1>9, <2>1, Zenon DEF OnRead
    <3> QED
      BY <2>1, <3>1, Zenon DEF IInv, Phases, PendingIsWatched
  <2>2. CASE reader = "started"
    <3>1. PICK k \in 0..inbox :
             /\ buf' = buf + k
             /\ \/ /\ k > 0
                   /\ inbox' = inbox - k /\ parked' = FALSE
                   /\ UNCHANGED <<s, flags, rio, wio, connect, writers, reader>>
                \/ /\ peer = "closed" /\ inbox' = 0 /\ reader' = "eof" /\ parked' = FALSE
                   /\ rio' = FALSE /\ flags' = flags \cup {"SHUT_READ"}
                   /\ UNCHANGED <<s, wio, connect, writers>>
                \/ inbox' = 0 /\ Cleanup(connect, tok, "error")
      BY <1>9, <2>2, Zenon DEF OnRead
    <3>2. buf' \in Nat /\ (inbox' = 0 \/ inbox' = inbox - k => inbox' \in Nat)
      BY <1>0, <3>1
    <3>3. peer' = peer /\ s = "CONNECTED"
      BY <1>9, Zenon DEF OnRead
    <3>4. CASE inbox' = inbox - k /\ parked' = FALSE
               /\ UNCHANGED <<s, flags, rio, wio, connect, writers, reader>>
      BY <2>2, <3>2, <3>3, <3>4, Zenon DEF IInv, Phases, PendingIsWatched
    <3>5. CASE /\ peer = "closed" /\ inbox' = 0 /\ reader' = "eof" /\ parked' = FALSE
               /\ rio' = FALSE /\ flags' = flags \cup {"SHUT_READ"}
               /\ UNCHANGED <<s, wio, connect, writers>>
      BY <3>2, <3>3, <3>5, Zenon DEF IInv, Phases, PendingIsWatched
    <3>6. CASE inbox' = 0 /\ Cleanup(connect, tok, "error")
      BY <3>2, <3>6, CleanupKeeps, Zenon
    <3> QED
      BY <3>1, <3>4, <3>5, <3>6, Zenon
  <2> QED
    BY <2>1, <2>2, Zenon
<1>10. ASSUME OnConnected PROVE IInv'
  <2>1. UNCHANGED <<buf, inbox, peer>> /\ s = "CONNECTING"
    BY <1>10, Zenon DEF OnConnected
  <2>2. CASE /\ connect' # "started" /\ s' = "CONNECTED" /\ (rio' <=> reader = "started")
             /\ flags' = (IF ShutdownPending THEN flags \cup {"SHUT_WRITE"} ELSE flags)
             /\ UNCHANGED <<writers, reader, parked>>
    BY <2>1, <2>2, Zenon DEF IInv, Phases, PendingIsWatched, ShutdownPending, States
  <2>3. CASE \E c : Cleanup(c, tok, reader)
    BY <1>0, <2>1, <2>3, CleanupKeeps, Zenon
  <2> QED
    BY <1>10, <2>2, <2>3, Zenon DEF OnConnected
<1>11. ASSUME OnWrite PROVE IInv'
  <2>1. s = "CONNECTED" /\ wio /\ UNCHANGED <<buf, inbox, peer>>
    BY <1>11, Zenon DEF OnWrite
  <2>2. \/ \E t : ShutdownWriteNow(t)
        \/ /\ ~ShutdownPending /\ writers' = <<>>
           /\ UNCHANGED <<s, flags, rio, connect, reader, parked>>
        \/ UNCHANGED <<s, flags, rio, wio, connect, reader, parked>>
        \/ \E t : Cleanup(connect, t, reader)
    BY <1>11, ZenonT(30) DEF OnWrite
  <2>3. CASE \E t : ShutdownWriteNow(t)
    BY <2>1, <2>3, ShutdownKeeps, Zenon
  <2>4. CASE /\ ~ShutdownPending /\ writers' = <<>>
             /\ UNCHANGED <<s, flags, rio, connect, reader, parked>>
    BY <2>1, <2>4, Zenon DEF IInv, Phases, PendingIsWatched, ShutdownPending
  <2>5. CASE UNCHANGED <<s, flags, rio, wio, connect, reader, parked>>
    BY <2>1, <2>5, Zenon DEF IInv, Phases, PendingIsWatched
  <2>6. CASE \E t : Cleanup(connect, t, reader)
    BY <1>0, <2>1, <2>6, CleanupKeeps, Zenon
  <2> QED
    BY <2>2, <2>3, <2>4, <2>5, <2>6, Zenon
<1>12. ASSUME PeerSends \/ PeerLeaves PROVE IInv'
  <2>1. UNCHANGED <<s, flags, rio, wio, connect, writers, reader, buf, parked>> /\ peer = "open"
        /\ (inbox' = inbox \/ inbox' = inbox + 1)
    BY <1>12, Zenon DEF PeerSends, PeerLeaves
  <2>2. inbox' \in Nat
    BY <1>0, <2>1
  <2> QED
    BY <2>1, <2>2, Zenon DEF IInv, Phases, PendingIsWatched
<1>13. ASSUME UNCHANGED vars PROVE IInv'
  BY <1>13, Zenon DEF vars, IInv, Phases, PendingIsWatched
<1>14. ASSUME DropConnect PROVE IInv'
  <2>1. /\ UNCHANGED <<s, flags, rio, wio, writers, reader, buf, parked, inbox, peer>>
        /\ connect = "started" /\ connect' = "dropped"
    BY <1>14, Zenon DEF DropConnect
  <2> QED
    BY <2>1, Zenon DEF IInv, Phases, PendingIsWatched
<1> QED
  BY <1>1, <1>2, <1>3, <1>4, <1>5, <1>6, <1>7, <1>8, <1>9, <1>10, <1>11, <1>12, <1>13, <1>14,
     Zenon
  DEF Next, Loop, User

-----------------------------------------------------------------------------
\* Whatever waits on a channel is watched, with any number of writes.
THEOREM PendingIsWatchedHolds == Spec => []PendingIsWatched
<1>1. Init => IInv
  BY DEF Init, IInv, Phases, PendingIsWatched, States
<1>2. IInv => PendingIsWatched
  BY Zenon DEF IInv
<1> QED
  BY <1>1, <1>2, IInvStep, PTL DEF Spec

\* The user of a stream has all the peer sent before it is told of the end.
THEOREM EofIsLastHolds == Spec => EofIsLast
<1>1. Init => IInv
  BY DEF Init, IInv, Phases, PendingIsWatched, States
<1>2. IInv /\ [Next]_vars => [reader' = "ended" /\ reader # "ended" => buf = 0 /\ inbox = 0]_vars
  <2> SUFFICES ASSUME IInv, Next, reader' = "ended", reader # "ended"
               PROVE  buf = 0 /\ inbox = 0
    OBVIOUS
  <2>1. PollRead
    <3>1. ASSUME NEW c, NEW t, NEW r, Cleanup(c, t, r), r \in {reader, "error"} PROVE FALSE
      BY <3>1, CleanupCloses, Zenon
    <3>2. ASSUME NEW t, ShutdownWriteNow(t) PROVE FALSE
      BY <3>1, <3>2, Zenon DEF ShutdownWriteNow
    <3>3. ~OnRead
      BY <3>1, Zenon DEF OnRead
    <3>4. ~OnConnected /\ ~OnWrite
      BY <3>1, <3>2, Zenon DEF OnConnected, OnWrite
    <3>5. ~DoConnect /\ ~DropConnect /\ ~DoRead /\ ~DropRead /\ ~ShutdownWrite /\ ~Stop
      BY <3>1, <3>2, Zenon DEF DoConnect, DropConnect, DoRead, DropRead, ShutdownWrite, Stop, readVars
    <3>6. \A w \in Writes : ~DoWrite(w) /\ ~DropWrite(w)
      BY Zenon DEF DoWrite, DropWrite, readVars
    <3>7. ~PeerSends /\ ~PeerLeaves
      BY Zenon DEF PeerSends, PeerLeaves, readVars
    <3> QED
      BY <3>3, <3>4, <3>5, <3>6, <3>7, Zenon DEF Next, Loop, User
  <2>2. reader = "eof" /\ ~(buf > 0)
    BY <2>1, Zenon DEF PollRead, HasData
  <2> QED
    BY <2>2 DEF IInv, Phases
<1> QED
  BY <1>1, <1>2, IInvStep, PTL DEF Spec, EofIsLast

-----------------------------------------------------------------------------
(* The stream that the peer gets *)

\* updateIov() leaves what was not written: n bytes less, and no empty buffer.
LEMMA AdvancedFacts ==
  ASSUME NEW v \in Seq(Nat \ {0}), NEW n \in Nat, n < Total(v)
  PROVE  Advanced(v, n) \in Seq(Nat \ {0}) /\ Total(Advanced(v, n)) = Total(v) - n
<1>0. v \in Seq(Nat) /\ Len(v) \in Nat /\ \A i \in 1..Len(v) : v[i] \in Nat \ {0}
  OBVIOUS
<1>1. PICK f : Sums(f, v)
  BY <1>0, SumsExist, Zenon
<1>2. Total(v) = f[Len(v)] /\ \A i \in 0..Len(v) : Total(Upto(v, i)) = f[i]
  BY <1>0, <1>1, TotalIs, Zenon
<1>3. /\ \A i \in 0..Len(v) : f[i] \in Nat
      /\ f[0] = 0 /\ \A i \in 1..Len(v) : f[i] = f[i - 1] + v[i]
  BY <1>1, Zenon DEF Sums
<1> DEFINE Here(i) == Total(Upto(v, i)) <= n /\ (i < Len(v) => Total(Upto(v, i + 1)) > n)
           count == CHOOSE i \in 0..Len(v) : Here(i)
           left == From(v, count)
           a == Advanced(v, n)
<1>4. \E i \in 0..Len(v) : Here(i)
  <2> DEFINE T == {i \in Nat : i <= Len(v) /\ f[i] > n}
  <2>1. Len(v) \in T
    BY <1>0, <1>2
  <2>2. T \in SUBSET Nat
    OBVIOUS
  <2>3. PICK m \in T : \A i \in T : m <= i
    <3> HIDE DEF T
    <3> QED
      BY <2>1, <2>2, LeastNumber, Zenon
  <2>4. m # 0
    BY <1>3, <2>3
  <2>5. m - 1 \in 0..Len(v) /\ m \in 0..Len(v) /\ (m - 1) + 1 = m /\ f[m] > n
    BY <1>0, <2>3, <2>4
  <2>6. ~(f[m - 1] > n)
    BY <2>3, <2>5
  <2>7. f[m - 1] <= n
    BY <1>3, <2>5, <2>6
  <2>8. Here(m - 1)
    BY <1>2, <2>5, <2>7, Zenon
  <2> QED
    BY <2>5, <2>8, Zenon
<1>5. count \in 0..Len(v) /\ Here(count)
  <2> HIDE DEF Here
  <2> QED
    BY <1>4, Zenon
<1>6. a = [i \in 1..Len(left) |-> IF i = 1 THEN left[1] - (n - Total(Upto(v, count))) ELSE left[i]]
  BY Zenon DEF Advanced
<1> HIDE DEF count, a
<1>7. /\ count \in Nat /\ count < Len(v) /\ f[count] <= n /\ f[count + 1] > n
      /\ f[count + 1] = f[count] + v[count + 1] /\ f[count] \in Nat /\ f[count + 1] \in Nat
      /\ v[count + 1] \in Nat
  <2>1. count \in Nat /\ count <= Len(v) /\ f[count] <= n
    BY <1>0, <1>2, <1>5
  <2>2. count # Len(v)
    BY <1>2, <1>3, <2>1
  <2>3. count < Len(v) /\ count + 1 \in 1..Len(v) /\ (count + 1) - 1 = count
    BY <1>0, <2>1, <2>2
  <2> QED
    BY <1>0, <1>2, <1>3, <1>5, <2>1, <2>3, SMTT(30)
<1>8. /\ left \in Seq(Nat \ {0}) /\ Len(left) = Len(v) - count
      /\ \A i \in 1..Len(left) : left[i] = v[count + i]
  BY <1>0, <1>7 DEF From
<1> HIDE DEF left
<1>9. /\ Len(a) = Len(v) - count /\ Len(a) \in Nat /\ Len(a) >= 1
      /\ a \in Seq(Nat \ {0})
      /\ a[1] = f[count + 1] - n
      /\ \A i \in 2..Len(a) : a[i] = v[count + i]
  <2>1. Len(left) \in Nat /\ Len(left) >= 1
    <3>1. Len(v) \in Nat /\ count \in Nat /\ count < Len(v) /\ Len(left) = Len(v) - count
      BY <1>0, <1>7, <1>8, Zenon
    <3> QED
      BY <3>1
  <2>2. left[1] - (n - Total(Upto(v, count))) = f[count + 1] - n
    <3>1. left[1] = v[count + 1]
      BY <1>8, <2>1, SMTT(30)
    <3>2. Total(Upto(v, count)) = f[count]
      BY <1>2, <1>5, Zenon
    <3>3. /\ f[count + 1] = f[count] + v[count + 1] /\ f[count] \in Nat
          /\ v[count + 1] \in Nat
      BY <1>7, Zenon
    <3>4. v[count + 1] - (n - f[count]) = (f[count] + v[count + 1]) - n
      BY <3>3
    <3> QED
      BY <3>1, <3>2, <3>3, <3>4, Zenon
  <2>3. a = [i \in 1..Len(left) |-> IF i = 1 THEN f[count + 1] - n ELSE left[i]]
    BY <1>6, <2>2, Zenon
  <2>4. a \in [1..Len(left) -> Nat \ {0}]
    <3>1. f[count + 1] - n \in Nat \ {0}
      BY <1>7, SMTT(30)
    <3>2. \A i \in 1..Len(left) : left[i] \in Nat \ {0}
      BY <1>8
    <3> QED
      BY <2>3, <3>1, <3>2, Zenon
  <2>5. a \in Seq(Nat \ {0}) /\ Len(a) = Len(left)
    BY <2>1, <2>4
  <2> QED
    BY <1>8, <2>1, <2>3, <2>5
<1>10. a \in Seq(Nat)
  BY <1>9
<1>11. PICK h : Sums(h, a) /\ Total(a) = h[Len(a)]
  BY <1>10, SumsExist, Zenon
<1>12. /\ \A i \in 0..Len(a) : h[i] \in Nat
       /\ h[0] = 0 /\ \A i \in 1..Len(a) : h[i] = h[i - 1] + a[i]
  BY <1>11, Zenon DEF Sums
<1> DEFINE G == {m \in Nat : m + 1 <= Len(a) => h[m + 1] = f[count + (m + 1)] - n}
<1>13. 0 \in G
  <2>1. 1 \in 1..Len(a) /\ 0 \in 0..Len(a)
    BY <1>9
  <2>2. h[1] = h[0] + a[1] /\ h[0] = 0
    BY <1>12, <2>1
  <2>3. h[1] = f[count + 1] - n
    BY <1>7, <1>9, <2>2
  <2> QED
    BY <2>3
<1>14. ASSUME NEW m \in G PROVE m + 1 \in G
  <2> SUFFICES ASSUME (m + 1) + 1 <= Len(a)
               PROVE  h[(m + 1) + 1] = f[count + ((m + 1) + 1)] - n
    OBVIOUS
  <2> DEFINE k == (m + 1) + 1
  <2>1. /\ m \in Nat /\ k \in 1..Len(a) /\ k \in 2..Len(a) /\ k - 1 = m + 1
        /\ count + k \in 1..Len(v) /\ (count + k) - 1 = count + (m + 1)
    BY <1>7, <1>9
  <2>2. h[m + 1] = f[count + (m + 1)] - n
    BY <2>1, <1>9
  <2> HIDE DEF k
  <2>3. h[k] = h[k - 1] + a[k] /\ a[k] = v[count + k]
    BY <1>9, <1>12, <2>1, Zenon
  <2>4. f[count + k] = f[(count + k) - 1] + v[count + k]
    BY <1>3, <2>1, Zenon
  <2>5. f[(count + k) - 1] \in Nat /\ v[count + k] \in Nat
    BY <1>0, <1>3, <2>1, SMTT(30)
  <2>6. h[k] = f[count + k] - n
    BY <2>1, <2>2, <2>3, <2>4, <2>5, SMTT(30)
  <2> QED
    BY <2>6, Zenon DEF k
<1>15. Len(a) - 1 \in G
  <2>1. G \in SUBSET Nat /\ Len(a) - 1 \in Nat
    BY <1>9
  <2> HIDE DEF G
  <2> QED
    BY <1>13, <1>14, <2>1, Induction, Zenon
<1>16. (Len(a) - 1) + 1 = Len(a) /\ count + Len(a) = Len(v)
  BY <1>0, <1>7, <1>9
<1>17. h[Len(a)] = f[Len(v)] - n
  BY <1>9, <1>15, <1>16
<1> QED
  BY <1>2, <1>9, <1>11, <1>17, Zenon DEF a

-----------------------------------------------------------------------------
(* Adding to the stream *)

End(x) == x[Len(x)]

\* Every write on stream x but the last is in one piece that has its size, unless
\* it is one of D.
Blocks(x, sz, D) ==
  \A i \in 1..(Len(x) - 1) :
    x[i + 1] # x[i] =>
      /\ \A j \in (i + 1)..Len(x) : x[j] # x[i]
      /\ Count(x, x[i]) = sz[x[i]] \/ x[i] \in D

\* y is x with n more bytes of w.
Grown(T, x, w, n, y) ==
  /\ y \in Seq(T) /\ Len(x) \in Nat /\ Len(y) = Len(x) + n
  /\ \A i \in 1..Len(y) : y[i] = IF i <= Len(x) THEN x[i] ELSE w
  /\ Elems(y) \subseteq Elems(x) \cup {w}
  /\ \A u \in T : Count(y, u) = IF u = w THEN Count(x, u) + n ELSE Count(x, u)
  /\ n > 0 => y # <<>> /\ End(y) = w
  /\ n = 0 => y = x

\* What n more bytes of w do to the stream x
LEMMA MoreFacts ==
  ASSUME NEW T, NEW x \in Seq(T), NEW w \in T, NEW n \in Nat, NEW y, y = x \o Times(n, w)
  PROVE  Grown(T, x, w, n, y)
<1> DEFINE t == Times(n, w)
<1>1. t \in Seq(T) /\ Len(t) = n /\ \A i \in 1..n : t[i] = w
  <2>1. t \in [1..n -> T]
    BY Zenon DEF Times
  <2>2. t \in Seq(T) /\ Len(t) = n
    BY <2>1
  <2> QED
    BY <2>2, Zenon DEF Times
<1> HIDE DEF t
<1>2. /\ y \in Seq(T) /\ Len(x) \in Nat /\ Len(y) = Len(x) + n
      /\ \A i \in 1..(Len(x) + n) : y[i] = IF i <= Len(x) THEN x[i] ELSE t[i - Len(x)]
  <2> DEFINE q == x \o t
  <2>1. y = q
    BY Zenon DEF t
  <2>2. /\ q \in Seq(T) /\ Len(x) \in Nat /\ Len(q) = Len(x) + n
        /\ \A i \in 1..(Len(x) + n) : q[i] = IF i <= Len(x) THEN x[i] ELSE t[i - Len(x)]
    <3>1. Len(x) \in Nat
      OBVIOUS
    <3> QED
      BY <1>1, <3>1, InARow, Zenon
  <2> HIDE DEF q
  <2> QED
    BY <2>1, <2>2, Zenon
<1>3. ASSUME NEW i \in 1..Len(y) PROVE y[i] = IF i <= Len(x) THEN x[i] ELSE w
  <2>1. i \in 1..(Len(x) + n)
    BY <1>2, Zenon
  <2>2. CASE i <= Len(x)
    BY <1>2, <2>1, <2>2, Zenon
  <2>3. CASE ~(i <= Len(x))
    <3>1. i - Len(x) \in 1..n
      BY <1>2, <2>1, <2>3
    <3> QED
      BY <1>1, <1>2, <2>1, <2>3, <3>1, Zenon
  <2> QED
    BY <2>2, <2>3, Zenon
<1>4. Elems(y) \subseteq Elems(x) \cup {w}
  BY <1>2, <1>3 DEF Elems
<1>5. ASSUME NEW u \in T PROVE Count(y, u) = IF u = w THEN Count(x, u) + n ELSE Count(x, u)
  <2>1. Longer(x, n, w, y) /\ y \in Seq(T)
    BY <1>2, <1>3, Zenon DEF Longer
  <2>2. ASSUME NEW z \in Seq(T), Longer(x, n, w, z)
        PROVE  (u = w => Count(z, u) = Count(x, u) + n) /\ (u # w => Count(z, u) = Count(x, u))
    BY <2>2, CountMore
  <2> QED
    BY <2>1, <2>2, Zenon
<1>6. n > 0 => y # <<>> /\ End(y) = w
  BY <1>2, <1>3, SMTT(30) DEF End
<1>7. n = 0 => y = x
  <2>1. ASSUME n = 0 PROVE t = <<>>
    BY <1>1, <2>1
  <2> QED
    BY <2>1 DEF t
<1> QED
  BY <1>2, <1>3, <1>4, <1>5, <1>6, <1>7, Zenon DEF Grown

\* On x the write before w is whole, and w, if it was begun, is the last.
Fits(x, w, sz, D) ==
  /\ x # <<>> /\ End(x) # w => Count(x, End(x)) = sz[End(x)] \/ End(x) \in D
  /\ w \in Elems(x) => End(x) = w

\* Blocks stay blocks if what is added fits.
LEMMA MoreBlocks ==
  ASSUME NEW T, NEW x \in Seq(T), NEW w \in T, NEW n \in Nat, NEW y, Grown(T, x, w, n, y),
         NEW sz, NEW D, Blocks(x, sz, D), Fits(x, w, sz, D)
  PROVE  Blocks(y, sz, D)
<1>1. /\ y \in Seq(T) /\ Len(x) \in Nat /\ Len(y) = Len(x) + n
      /\ \A i \in 1..Len(y) : y[i] = IF i <= Len(x) THEN x[i] ELSE w
      /\ \A u \in T : Count(y, u) = IF u = w THEN Count(x, u) + n ELSE Count(x, u)
  BY Zenon DEF Grown
<1> SUFFICES ASSUME NEW i \in 1..(Len(y) - 1), y[i + 1] # y[i]
             PROVE  /\ \A j \in (i + 1)..Len(y) : y[j] # y[i]
                    /\ Count(y, y[i]) = sz[y[i]] \/ y[i] \in D
  BY Zenon DEF Blocks
<1>2. i \in 1..Len(x) /\ i \in 1..Len(y) /\ i + 1 \in 1..Len(y)
  <2>1. i \in 1..Len(y) /\ i + 1 \in 1..Len(y)
    BY <1>1
  <2>2. ~(i <= Len(x)) => y[i] = w /\ y[i + 1] = w
    BY <1>1, <2>1, SMTT(30)
  <2> QED
    BY <2>1, <2>2
<1>3. y[i] = x[i] /\ x[i] \in T
  BY <1>1, <1>2
<1>4. CASE i = Len(x)
  <2>1. y[i + 1] = w /\ x[i] # w /\ End(x) = x[i] /\ x # <<>>
    BY <1>1, <1>2, <1>3, <1>4 DEF End
  <2>2. \A j \in (i + 1)..Len(y) : y[j] = w
    BY <1>1, <1>2, <1>4, SMTT(30)
  <2>3. Count(y, x[i]) = Count(x, x[i])
    BY <1>1, <1>3, <2>1, Zenon
  <2>4. Count(x, x[i]) = sz[x[i]] \/ x[i] \in D
    BY <2>1, Zenon DEF Fits
  <2> QED
    BY <1>3, <2>1, <2>2, <2>3, <2>4, Zenon
<1>5. CASE i # Len(x)
  <2>1. i \in 1..(Len(x) - 1) /\ i + 1 \in 1..Len(x) /\ Len(x) \in (i + 1)..Len(x)
    BY <1>1, <1>2, <1>5
  <2>2. y[i + 1] = x[i + 1]
    BY <1>1, <1>2, <2>1
  <2>3. /\ \A j \in (i + 1)..Len(x) : x[j] # x[i]
        /\ Count(x, x[i]) = sz[x[i]] \/ x[i] \in D
    BY <1>3, <2>1, <2>2, Zenon DEF Blocks
  <2>4. x[i] # w
    BY <1>2, <2>1, <2>3, Zenon DEF Elems, End, Fits
  <2>5. ASSUME NEW j \in (i + 1)..Len(y) PROVE y[j] # y[i]
    BY <1>1, <1>2, <1>3, <2>3, <2>4, SMTT(30)
  <2>6. Count(y, x[i]) = Count(x, x[i])
    BY <1>1, <1>3, <2>4, Zenon
  <2> QED
    BY <1>3, <2>3, <2>5, <2>6, Zenon
<1> QED
  BY <1>4, <1>5, Zenon

-----------------------------------------------------------------------------
(* The invariant *)

Dropped == {w \in Writes : tok[w] = "dropped"}

\* The queue holds the tokens that are attached, and none once writes are shut down.
Queue ==
  /\ writers \in Seq(Writes) /\ Once(writers)
  /\ Elems(writers) = {w \in Writes : tok[w] = "started"}
  /\ "SHUT_WRITE" \in flags => writers = <<>>

\* What is on the wire of a write, and what is left of it
Portions ==
  /\ vec \in [Writes -> Seq(Nat \ {0})]
  /\ \A w \in Writes :
       /\ tok[w] \in {"none", "unattached"} => w \notin Elems(wire)
       /\ tok[w] = "started" => Count(wire, w) + Total(vec[w]) = size[w]
       /\ tok[w] = "done" => Count(wire, w) = size[w]

\* Only the first of the queue can have begun, and then it is the last on the wire;
\* the wire may otherwise end within a write that was dropped, or for good.
AtEnd ==
  /\ wire # <<>> => \/ tok[End(wire)] \in {"done", "dropped"}
                    \/ writers # <<>> /\ writers[1] = End(wire)
                    \/ "SHUT_WRITE" \in flags
  /\ writers # <<>> /\ writers[1] \in Elems(wire) => End(wire) = writers[1]
  /\ \A i \in 2..Len(writers) : writers[i] \notin Elems(wire)

StreamInv ==
  /\ tok \in [Writes -> TokenStates] /\ size \in [Writes -> Nat] /\ wire \in Seq(Writes)
  /\ Blocks(wire, size, Dropped)
  /\ Queue /\ Portions /\ AtEnd

\* The first i of the queue
Front(i) == {writers[j] : j \in 1..i}

\* x is the wire once the first i of the queue are on it.
Ready(x, i) ==
  /\ x \in Seq(Writes) /\ Blocks(x, size, Dropped)
  /\ Elems(x) \subseteq Elems(wire) \cup Front(i)
  /\ \A u \in Writes \ Front(i) : Count(x, u) = Count(wire, u)
  /\ \A u \in Front(i) : Count(x, u) = size[u]
  /\ x # <<>> => \/ tok[End(x)] \in {"done", "dropped"} \/ End(x) \in Front(i)
                 \/ i < Len(writers) /\ End(x) = writers[i + 1]
                 \/ "SHUT_WRITE" \in flags
  /\ i < Len(writers) /\ writers[i + 1] \in Elems(x) => End(x) = writers[i + 1]

\* A vector of buffers has a length in bytes.
LEMMA TotalNat ==
  ASSUME NEW v \in Seq(Nat \ {0})
  PROVE  Total(v) \in Nat
<1>1. v \in Seq(Nat) /\ Len(v) \in Nat
  OBVIOUS
<1>2. PICK f : Sums(f, v) /\ Total(v) = f[Len(v)]
  BY <1>1, SumsExist, Zenon
<1> QED
  BY <1>1, <1>2 DEF Sums

\* The wire before anything is done to the queue
LEMMA ReadyAtFirst == ASSUME StreamInv PROVE Ready(wire, 0)
<1>1. Front(0) = {}
  BY DEF Front
<1>2. wire \in Seq(Writes) /\ Blocks(wire, size, Dropped)
  BY Zenon DEF StreamInv
<1>3. /\ wire # <<>> => \/ tok[End(wire)] \in {"done", "dropped"}
                        \/ writers # <<>> /\ writers[1] = End(wire)
                        \/ "SHUT_WRITE" \in flags
      /\ writers # <<>> /\ writers[1] \in Elems(wire) => End(wire) = writers[1]
  BY Zenon DEF StreamInv, AtEnd
<1>4. (writers # <<>> <=> 0 < Len(writers)) /\ 0 + 1 = 1
  BY SMTT(30) DEF StreamInv, Queue
<1> QED
  BY <1>1, <1>2, <1>3, <1>4, Zenon DEF Ready

\* The next of the queue is not one of the first, and all there is of it on x is at
\* the end.
LEMMA ReadyNext ==
  ASSUME StreamInv, NEW i \in 0..(Len(writers) - 1), NEW x, Ready(x, i)
  PROVE  /\ writers[i + 1] \in Writes \ Front(i) /\ tok[writers[i + 1]] = "started"
         /\ "SHUT_WRITE" \notin flags
         /\ Fits(x, writers[i + 1], size, Dropped)
         /\ Count(x, writers[i + 1]) = Count(wire, writers[i + 1])
<1>1. /\ writers \in Seq(Writes) /\ Once(writers) /\ Len(writers) \in Nat
      /\ Elems(writers) = {w \in Writes : tok[w] = "started"}
      /\ "SHUT_WRITE" \in flags => writers = <<>>
  BY DEF StreamInv, Queue
<1>2. i \in Nat /\ i < Len(writers) /\ i + 1 \in 1..Len(writers)
  BY <1>1
<1>3. "SHUT_WRITE" \notin flags
  BY <1>1, <1>2, SMTT(30)
<1>4. writers[i + 1] \in Writes /\ tok[writers[i + 1]] = "started"
  BY <1>1, <1>2, Zenon DEF Elems
<1>5. writers[i + 1] \notin Front(i)
  <2> SUFFICES ASSUME NEW j \in 1..i, writers[i + 1] = writers[j] PROVE FALSE
    BY Zenon DEF Front
  <2>1. j \in 1..Len(writers) /\ j # i + 1
    BY <1>1, <1>2
  <2> QED
    BY <1>1, <1>2, <2>1, Zenon DEF Once
<1>6. ASSUME x # <<>>, End(x) # writers[i + 1]
      PROVE  Count(x, End(x)) = size[End(x)] \/ End(x) \in Dropped
  <2>1. End(x) \in Writes
    BY <1>6 DEF Ready, End
  <2>2. tok[End(x)] \in {"done", "dropped"} \/ End(x) \in Front(i)
    BY <1>3, <1>6, Zenon DEF Ready
  <2>3. End(x) \in Front(i) => Count(x, End(x)) = size[End(x)]
    BY Zenon DEF Ready
  <2>4. End(x) \notin Front(i) => Count(x, End(x)) = Count(wire, End(x))
    BY <2>1, Zenon DEF Ready
  <2>5. tok[End(x)] = "done" => Count(wire, End(x)) = size[End(x)]
    BY <2>1, Zenon DEF StreamInv, Portions
  <2> QED
    BY <2>1, <2>2, <2>3, <2>4, <2>5, Zenon DEF Dropped
<1> QED
  BY <1>2, <1>3, <1>4, <1>5, <1>6, Zenon DEF Ready, Fits

\* A write of the queue that is completed is on the wire entirely.
LEMMA ReadyStep ==
  ASSUME StreamInv, NEW i \in 0..(Len(writers) - 1), NEW x, Ready(x, i), NEW y,
         Grown(Writes, x, writers[i + 1], Total(vec[writers[i + 1]]), y)
  PROVE  Ready(y, i + 1)
<1>0. writers \in Seq(Writes) /\ Len(writers) \in Nat /\ i \in Nat /\ i < Len(writers)
  BY SMTT(30) DEF StreamInv, Queue
<1>1. PICK w \in Writes, n \in Nat : w = writers[i + 1] /\ n = Total(vec[w])
  <2>1. writers[i + 1] \in Writes
    BY ReadyNext, Zenon
  <2>2. vec[writers[i + 1]] \in Seq(Nat \ {0})
    BY <2>1, Zenon DEF StreamInv, Portions
  <2>3. Total(vec[writers[i + 1]]) \in Nat
    BY <2>2, TotalNat, Zenon
  <2> QED
    BY <2>1, <2>3, Zenon
<1>2. /\ w \notin Front(i) /\ tok[w] = "started" /\ "SHUT_WRITE" \notin flags
      /\ Fits(x, w, size, Dropped)
      /\ Count(x, w) = Count(wire, w)
  BY <1>1, ReadyNext, Zenon
<1>3. Grown(Writes, x, w, n, y)
  BY <1>1, Zenon
<1>4. /\ x \in Seq(Writes) /\ Blocks(x, size, Dropped)
      /\ Elems(x) \subseteq Elems(wire) \cup Front(i)
      /\ \A u \in Writes \ Front(i) : Count(x, u) = Count(wire, u)
      /\ \A u \in Front(i) : Count(x, u) = size[u]
  BY Zenon DEF Ready
<1>5. Blocks(y, size, Dropped)
  BY <1>2, <1>3, <1>4, MoreBlocks, Zenon
<1>6. /\ y \in Seq(Writes) /\ Elems(y) \subseteq Elems(x) \cup {w}
      /\ \A u \in Writes : Count(y, u) = IF u = w THEN Count(x, u) + n ELSE Count(x, u)
      /\ n > 0 => End(y) = w
      /\ n = 0 => y = x
  BY <1>3, Zenon DEF Grown
<1>7. Front(i + 1) = Front(i) \cup {w} /\ Front(i) \subseteq Writes
  <2>1. Front(i + 1) \subseteq Front(i) \cup {w}
    BY <1>0, <1>1 DEF Front
  <2>2. Front(i) \cup {w} \subseteq Front(i + 1)
    BY <1>0, <1>1 DEF Front
  <2>3. Front(i) \subseteq Writes
    BY <1>0 DEF Front
  <2> QED
    BY <2>1, <2>2, <2>3, Zenon
<1>8. Count(y, w) = size[w]
  <2>1. Count(wire, w) + n = size[w]
    BY <1>1, <1>2, Zenon DEF StreamInv, Portions
  <2>2. Count(y, w) = Count(x, w) + n
    BY <1>6, Zenon
  <2> QED
    BY <1>2, <2>1, <2>2, Zenon
<1>9. Elems(y) \subseteq Elems(wire) \cup Front(i + 1)
  BY <1>4, <1>6, <1>7, Zenon
<1>10. \A u \in Writes \ Front(i + 1) : Count(y, u) = Count(wire, u)
  BY <1>4, <1>6, <1>7, Zenon
<1>11. \A u \in Front(i + 1) : Count(y, u) = size[u]
  BY <1>2, <1>4, <1>6, <1>7, <1>8, Zenon
<1>12. y # <<>> => tok[End(y)] \in {"done", "dropped"} \/ End(y) \in Front(i + 1)
  <2>1. CASE n > 0
    BY <1>6, <1>7, <2>1, Zenon
  <2>2. CASE n = 0
    BY <1>1, <1>2, <1>6, <1>7, <2>2, Zenon DEF Ready
  <2> QED
    BY <2>1, <2>2
<1>13. ASSUME i + 1 < Len(writers) PROVE writers[(i + 1) + 1] \notin Elems(y)
  <2> DEFINE k == (i + 1) + 1
  <2>1. k \in 2..Len(writers) /\ k \in 1..Len(writers) /\ \A j \in 1..(i + 1) : j \in 1..Len(writers) /\ j # k
    BY <1>0, <1>13
  <2> HIDE DEF k
  <2>2. writers[k] \notin Elems(wire)
    BY <2>1, Zenon DEF StreamInv, AtEnd
  <2>3. writers[k] \notin Front(i + 1)
    BY <2>1, SMTT(30) DEF Front, Once, StreamInv, Queue
  <2> QED
    BY <1>9, <2>2, <2>3, Zenon DEF k
<1> QED
  BY <1>5, <1>6, <1>9, <1>10, <1>11, <1>12, <1>13, Zenon DEF Ready

\* Completing the first d writes of the queue
LEMMA WireAfterReady ==
  ASSUME StreamInv, NEW d \in 0..Len(writers)
  PROVE  Ready(WireAfter(d), d)
<1> DEFINE Much(i) == Times(Total(vec[writers[i]]), writers[i])
           Rec(f) == [i \in 0..d |-> IF i = 0 THEN wire ELSE f[i - 1] \o Much(i)]
           after == CHOOSE f : f = Rec(f)
<1>0. /\ writers \in Seq(Writes) /\ Len(writers) \in Nat /\ d \in Nat /\ d <= Len(writers)
      /\ wire \in Seq(Writes)
  BY DEF StreamInv, Queue
<1>1. ASSUME NEW i \in 1..d PROVE Much(i) \in Seq(Writes)
  <2>1. writers[i] \in Writes
    BY <1>0
  <2>2. vec[writers[i]] \in Seq(Nat \ {0})
    BY <2>1, Zenon DEF StreamInv, Portions
  <2>3. Total(vec[writers[i]]) \in Nat
    BY <2>2, TotalNat, Zenon
  <2>4. Much(i) \in [1..Total(vec[writers[i]]) -> Writes]
    BY <2>1, Zenon DEF Times
  <2> QED
    BY <2>3, <2>4, SMTT(30)
<1> HIDE DEF Much
<1>2. PICK f : f = Rec(f)
  <2> DEFINE V == Seq(Writes)
             step == [p \in V \X Nat |-> IF p[2] \in 1..d THEN p[1] \o Much(p[2]) ELSE p[1]]
  <2>1. step \in [V \X Nat -> V]
    <3>1. ASSUME NEW p \in V \X Nat
          PROVE  (IF p[2] \in 1..d THEN p[1] \o Much(p[2]) ELSE p[1]) \in V
      <4>1. p[1] \in Seq(Writes)
        OBVIOUS
      <4>2. ASSUME p[2] \in 1..d PROVE p[1] \o Much(p[2]) \in Seq(Writes)
        BY <1>1, <4>1, <4>2
      <4> QED
        BY <4>1, <4>2, Zenon
    <3> QED
      BY <3>1, Zenon
  <2>2. ASSUME NEW q \in V, NEW i \in 1..d PROVE step[<<q, i>>] = q \o Much(i)
    <3>1. <<q, i>> \in V \X Nat /\ <<q, i>>[1] = q /\ <<q, i>>[2] = i
      OBVIOUS
    <3> QED
      BY <3>1, Zenon
  <2> HIDE DEF step
  <2>3. wire \in V
    BY <1>0, Zenon
  <2> HIDE DEF V
  <2>4. PICK f : Recurs(f, d, V, wire, step)
    BY <1>0, <2>1, <2>3, Recursion, Zenon
  <2>5. f \in [0..d -> V] /\ f[0] = wire /\ \A i \in 1..d : f[i] = step[<<f[i - 1], i>>]
    BY <2>4, Zenon DEF Recurs
  <2>6. ASSUME NEW i \in 1..d PROVE f[i] = f[i - 1] \o Much(i)
    <3>1. i - 1 \in 0..d
      BY <1>0
    <3>2. f[i - 1] \in V
      BY <2>5, <3>1, Zenon
    <3> QED
      BY <2>2, <2>5, <3>2, Zenon
  <2>7. ASSUME NEW i \in 0..d PROVE f[i] = IF i = 0 THEN wire ELSE f[i - 1] \o Much(i)
    <3>1. i = 0 \/ i \in 1..d
      BY <1>0
    <3>2. 0 \notin 1..d
      BY <1>0
    <3> QED
      BY <2>5, <2>6, <3>1, <3>2, Zenon
  <2>8. f = Rec(f)
    BY <2>5, <2>7, Zenon
  <2> QED
    BY <2>8, Zenon
<1>3. after = Rec(after)
  BY <1>2, Zenon
<1>4. WireAfter(d) = after[d]
  BY Zenon DEF WireAfter, Much
<1> HIDE DEF after
<1>5. ASSUME NEW i \in 0..d PROVE after[i] = IF i = 0 THEN wire ELSE after[i - 1] \o Much(i)
  BY <1>3, Zenon
<1> DEFINE G == {i \in Nat : i <= d => Ready(after[i], i)}
<1>6. 0 \in G
  BY <1>0, <1>5, ReadyAtFirst
<1>7. ASSUME NEW i \in G PROVE i + 1 \in G
  <2> SUFFICES ASSUME i + 1 <= d PROVE Ready(after[i + 1], i + 1)
    OBVIOUS
  <2>1. /\ i \in 0..(Len(writers) - 1) /\ i + 1 \in 0..d /\ i + 1 # 0 /\ (i + 1) - 1 = i
        /\ i \in Nat /\ i <= d
    BY <1>0
  <2>2. Ready(after[i], i)
    BY <2>1, Zenon
  <2>3. after[i + 1] = after[i] \o Much(i + 1)
    BY <1>5, <2>1, Zenon
  <2>4. writers[i + 1] \in Writes
    BY <2>1, <2>2, ReadyNext, ZenonT(30)
  <2>5. vec[writers[i + 1]] \in Seq(Nat \ {0})
    BY <2>4, Zenon DEF StreamInv, Portions
  <2>6. Total(vec[writers[i + 1]]) \in Nat
    BY <2>5, TotalNat, Zenon
  <2>7. after[i] \in Seq(Writes)
    BY <2>2, Zenon DEF Ready
  <2>8. after[i + 1] = after[i] \o Times(Total(vec[writers[i + 1]]), writers[i + 1])
    BY <2>3, Zenon DEF Much
  <2>9. Grown(Writes, after[i], writers[i + 1], Total(vec[writers[i + 1]]), after[i + 1])
    BY <2>4, <2>6, <2>7, <2>8, MoreFacts, Zenon
  <2> QED
    BY <2>1, <2>2, <2>9, ReadyStep, Zenon
<1>8. d \in G
  <2>1. G \in SUBSET Nat
    OBVIOUS
  <2> HIDE DEF G
  <2> QED
    BY <1>0, <1>6, <1>7, <2>1, Induction, Zenon
<1> QED
  BY <1>0, <1>4, <1>8

-----------------------------------------------------------------------------
(* The steps *)

\* In t the first d of the queue are done, the others have failed, and what is not in
\* the queue is as it was.
Halted(t, d) ==
  /\ t \in [Writes -> TokenStates]
  /\ \A w \in Front(d) : t[w] = "done"
  /\ \A w \in Writes \ Elems(writers) : t[w] = tok[w]
  /\ \A w \in Elems(writers) \ Front(d) : t[w] \in {"error", "cancelled"}

\* The first d of the queue are done and the others fail, which ends the stream
\* unless there are none.
LEMMA HaltKeeps ==
  ASSUME StreamInv, NEW d \in 0..Len(writers), NEW x, Ready(x, d),
         wire' = x, writers' = <<>>, vec' = vec, size' = size, Halted(tok', d),
         \/ "SHUT_WRITE" \in flags'
         \/ d = Len(writers) /\ "SHUT_WRITE" \notin flags
  PROVE  StreamInv'
<1>1. /\ writers \in Seq(Writes) /\ Len(writers) \in Nat /\ d \in Nat /\ d <= Len(writers)
      /\ Elems(writers) = {w \in Writes : tok[w] = "started"}
  BY DEF StreamInv, Queue
<1>2. Front(d) \subseteq Elems(writers)
  BY <1>1, SMTT(30) DEF Front, Elems
<1>3. /\ x \in Seq(Writes) /\ Blocks(x, size, Dropped)
      /\ Elems(x) \subseteq Elems(wire) \cup Front(d)
      /\ \A u \in Writes \ Front(d) : Count(x, u) = Count(wire, u)
      /\ \A u \in Front(d) : Count(x, u) = size[u]
  BY Zenon DEF Ready
<1>4. Dropped' = Dropped
  <2>1. ASSUME NEW w \in Writes PROVE tok[w] = "dropped" <=> tok'[w] = "dropped"
    <3>1. CASE w \in Elems(writers)
      BY <1>1, <3>1, Zenon DEF Halted
    <3>2. CASE w \notin Elems(writers)
      BY <3>2, Zenon DEF Halted
    <3> QED
      BY <3>1, <3>2, Zenon
  <2> QED
    BY <2>1, Zenon DEF Dropped
<1>5. Blocks(wire, size, Dropped)'
  BY <1>3, <1>4, Zenon
<1>6. Elems(writers') = {} /\ writers' \in Seq(Writes) /\ Once(writers')
  BY DEF Elems, Once
<1>7. \A w \in Writes : tok'[w] # "started"
  BY <1>1, Zenon DEF Halted
<1>8. Queue'
  BY <1>6, <1>7, Zenon DEF Queue
<1>9. Portions'
  <2>1. vec' \in [Writes -> Seq(Nat \ {0})]
    BY Zenon DEF StreamInv, Portions
  <2>2. ASSUME NEW w \in Writes
        PROVE  /\ tok'[w] \in {"none", "unattached"} => w \notin Elems(wire')
               /\ tok'[w] = "done" => Count(wire', w) = size'[w]
    <3>1. CASE w \in Front(d)
      BY <1>3, <3>1, Zenon DEF Halted
    <3>2. CASE w \in Elems(writers) \ Front(d)
      BY <3>2, Zenon DEF Halted
    <3>3. CASE w \notin Elems(writers)
      <4>1. tok'[w] = tok[w] /\ w \notin Front(d)
        BY <1>2, <3>3, Zenon DEF Halted
      <4>2. /\ tok[w] \in {"none", "unattached"} => w \notin Elems(wire)
            /\ tok[w] = "done" => Count(wire, w) = size[w]
        BY Zenon DEF StreamInv, Portions
      <4> QED
        BY <1>3, <4>1, <4>2, Zenon
    <3> QED
      BY <1>2, <3>1, <3>2, <3>3, Zenon
  <2> QED
    BY <1>7, <2>1, <2>2, Zenon DEF Portions
<1>10. AtEnd'
  <2>1. Len(writers') = 0
    OBVIOUS
  <2>2. ASSUME x # <<>> PROVE tok'[End(x)] \in {"done", "dropped"} \/ "SHUT_WRITE" \in flags'
    <3> SUFFICES ASSUME "SHUT_WRITE" \notin flags' PROVE tok'[End(x)] \in {"done", "dropped"}
      OBVIOUS
    <3>1. d = Len(writers) /\ "SHUT_WRITE" \notin flags
      BY Zenon
    <3>2. tok[End(x)] \in {"done", "dropped"} \/ End(x) \in Front(d)
      BY <1>1, <2>2, <3>1, SMTT(30) DEF Ready
    <3>3. End(x) \in Writes
      BY <1>3, <2>2 DEF End
    <3>4. tok[End(x)] \in {"done", "dropped"} => tok'[End(x)] = tok[End(x)]
      BY <1>1, <3>3, Zenon DEF Halted
    <3> QED
      BY <3>2, <3>4, Zenon DEF Halted
  <2> QED
    BY <2>1, <2>2 DEF AtEnd
<1> QED
  BY <1>3, <1>5, <1>8, <1>9, <1>10, Zenon DEF StreamInv, Halted

\* Where the i-th of a queue of m was when there were d before it
Shifted(m, d, i) ==
  /\ d + i \in 1..m /\ d + i \in 2..m /\ d + 1 \in 1..m /\ d + 1 # d + i
  /\ \A j \in 1..d : j \in 1..m /\ j # d + i

\* All but the first of what is left of a queue are behind the one that was first.
LEMMA ShiftFacts ==
  ASSUME NEW m \in Nat, NEW d \in Nat, NEW i \in Nat, i >= 2, i <= m - d
  PROVE  Shifted(m, d, i)
BY SMTT(30) DEF Shifted

\* A step that leaves y on the wire, the first d of the queue being done and n bytes of
\* w written.
SomeSent(d, w, n, y) ==
  /\ wire' = y /\ size' = size /\ flags' = flags
  /\ writers' = From(writers, d) /\ vec' = [vec EXCEPT ![w] = Advanced(@, n)]
  /\ tok' = [u \in Writes |-> IF u \in Front(d) THEN "done" ELSE tok[u]]

\* The first d of the queue are done, and n bytes of the next are written.
LEMMA SomeKeeps ==
  ASSUME StreamInv, NEW d \in 0..(Len(writers) - 1), NEW x, Ready(x, d), NEW y,
         NEW w, w = writers[d + 1], NEW n \in Nat, n < Total(vec[w]), Grown(Writes, x, w, n, y),
         SomeSent(d, w, n, y)
  PROVE  StreamInv'
<1>0. wire' = y /\ size' = size /\ flags' = flags
  BY Zenon DEF SomeSent
<1>1. /\ writers \in Seq(Writes) /\ Len(writers) \in Nat /\ d \in Nat /\ d < Len(writers)
      /\ Elems(writers) = {u \in Writes : tok[u] = "started"}
      /\ \A i, j \in 1..Len(writers) : writers[i] = writers[j] => i = j
      /\ tok \in [Writes -> TokenStates] /\ size \in [Writes -> Nat]
  BY SMTT(30) DEF StreamInv, Queue, Once
<1>2. /\ w \in Writes \ Front(d) /\ tok[w] = "started" /\ "SHUT_WRITE" \notin flags
      /\ Fits(x, w, size, Dropped)
      /\ Count(x, w) = Count(wire, w)
  BY ReadyNext, Zenon
<1>3. /\ x \in Seq(Writes) /\ Blocks(x, size, Dropped)
      /\ Elems(x) \subseteq Elems(wire) \cup Front(d)
      /\ \A u \in Writes \ Front(d) : Count(x, u) = Count(wire, u)
      /\ \A u \in Front(d) : Count(x, u) = size[u]
  BY Zenon DEF Ready
<1>4. /\ y \in Seq(Writes) /\ Elems(y) \subseteq Elems(x) \cup {w}
      /\ \A u \in Writes : Count(y, u) = IF u = w THEN Count(x, u) + n ELSE Count(x, u)
      /\ n > 0 => End(y) = w
      /\ n = 0 => y = x
  BY Zenon DEF Grown
<1>5. Front(d) \subseteq Elems(writers) /\ Front(d) \subseteq Writes
  BY <1>1, SMTT(30) DEF Front, Elems
<1>6. /\ tok' \in [Writes -> TokenStates]
      /\ \A u \in Front(d) : tok'[u] = "done"
      /\ \A u \in Writes \ Front(d) : tok'[u] = tok[u]
  BY <1>1, <1>5, Zenon DEF SomeSent, TokenStates
<1>7. /\ writers' \in Seq(Writes) /\ Len(writers') = Len(writers) - d
      /\ \A i \in 1..Len(writers') : writers'[i] = writers[d + i]
  <2> DEFINE q == From(writers, d)
  <2>1. /\ q \in Seq(Writes) /\ Len(q) = Len(writers) - d
        /\ \A i \in 1..Len(q) : q[i] = writers[d + i]
    BY <1>1, SMTT(30) DEF From
  <2>2. writers' = q
    BY Zenon DEF SomeSent
  <2> HIDE DEF q
  <2> QED
    BY <2>1, <2>2, Zenon
<1>71. Len(writers') = Len(writers) - d /\ Len(writers) \in Nat /\ d \in Nat /\ d < Len(writers)
  BY <1>1, <1>7, Zenon
<1>8. Blocks(wire, size, Dropped)'
  <2>1. Dropped' = Dropped
    BY <1>1, <1>5, <1>6, Zenon DEF Dropped
  <2>2. Blocks(y, size, Dropped)
    <3>1. w \in Writes
      BY <1>2, Zenon
    <3> QED
      BY <1>2, <1>3, <3>1, MoreBlocks, ZenonT(30)
  <2> QED
    BY <1>0, <2>1, <2>2, Zenon
<1>9. Queue'
  <2>1. Once(writers')
    <3> SUFFICES ASSUME NEW i \in 1..Len(writers'), NEW j \in 1..Len(writers'),
                        writers'[i] = writers'[j]
                 PROVE  i = j
      BY Zenon DEF Once
    <3>1. d + i \in 1..Len(writers) /\ d + j \in 1..Len(writers) /\ i \in Nat /\ j \in Nat
      BY <1>71
    <3>2. writers[d + i] = writers[d + j]
      BY <1>7, Zenon
    <3>3. d + i = d + j
      BY <1>1, <3>1, <3>2, Zenon
    <3> QED
      BY <1>1, <3>1, <3>3
  <2>2. ASSUME NEW u \in Elems(writers') PROVE u \in Writes /\ tok'[u] = "started"
    <3>1. PICK i \in 1..Len(writers') : u = writers'[i]
      BY Zenon DEF Elems
    <3>2. d + i \in 1..Len(writers) /\ u = writers[d + i] /\ \A j \in 1..d : j # d + i
      BY <1>1, <1>7, <3>1, SMTT(60)
    <3>3. u \notin Front(d)
      <4> SUFFICES ASSUME u \in Front(d) PROVE FALSE
        OBVIOUS
      <4>1. PICK j \in 1..d : u = writers[j]
        BY Zenon DEF Front
      <4>2. j \in 1..Len(writers)
        BY <1>1
      <4> QED
        BY <1>1, <3>2, <4>1, <4>2, Zenon
    <3>4. u \in Elems(writers)
      BY <3>2, Zenon DEF Elems
    <3> QED
      BY <1>1, <1>6, <3>3, <3>4, Zenon
  <2>3. ASSUME NEW u \in Writes, tok'[u] = "started" PROVE u \in Elems(writers')
    <3>1. u \notin Front(d) /\ u \in Elems(writers)
      BY <1>1, <1>6, <2>3, Zenon
    <3>2. PICK k \in 1..Len(writers) : u = writers[k]
      BY <3>1, Zenon DEF Elems
    <3>3. ~(k <= d)
      BY <3>1, <3>2, SMTT(30) DEF Front
    <3>4. k - d \in 1..Len(writers') /\ d + (k - d) = k
      BY <1>1, <1>7, <3>3, SMTT(30)
    <3> QED
      BY <1>7, <3>2, <3>4, ZenonT(30) DEF Elems
  <2> QED
    BY <1>0, <1>2, <1>7, <2>1, <2>2, <2>3, Zenon DEF Queue
<1>10. Portions'
  <2>1. vec[w] \in Seq(Nat \ {0}) /\ vec \in [Writes -> Seq(Nat \ {0})]
    BY <1>2, Zenon DEF StreamInv, Portions
  <2>2. Advanced(vec[w], n) \in Seq(Nat \ {0}) /\ Total(Advanced(vec[w], n)) = Total(vec[w]) - n
        /\ Total(vec[w]) \in Nat
    BY <2>1, AdvancedFacts, TotalNat, Zenon
  <2>3. /\ vec' \in [Writes -> Seq(Nat \ {0})] /\ vec'[w] = Advanced(vec[w], n)
        /\ \A u \in Writes : u # w => vec'[u] = vec[u]
    BY <1>2, <2>1, <2>2, Zenon DEF SomeSent
  <2>4. ASSUME NEW u \in Writes
        PROVE  /\ tok'[u] \in {"none", "unattached"} => u \notin Elems(y)
               /\ tok'[u] = "started" => Count(y, u) + Total(vec'[u]) = size[u]
               /\ tok'[u] = "done" => Count(y, u) = size[u]
    <3>1. /\ tok[u] \in {"none", "unattached"} => u \notin Elems(wire)
          /\ tok[u] = "started" => Count(wire, u) + Total(vec[u]) = size[u]
          /\ tok[u] = "done" => Count(wire, u) = size[u]
      BY Zenon DEF StreamInv, Portions
    <3>2. CASE u \in Front(d)
      <4>1. tok'[u] = "done" /\ u # w
        BY <1>2, <1>6, <3>2, Zenon
      <4>2. Count(y, u) = Count(x, u) /\ Count(x, u) = size[u]
        BY <1>3, <1>4, <3>2, <4>1, Zenon
      <4> QED
        BY <4>1, <4>2, Zenon
    <3>3. CASE u = w
      <4>1. tok'[u] = "started"
        BY <1>2, <1>6, <3>3, Zenon
      <4>2. Count(y, u) = Count(x, u) + n /\ Count(x, u) = Count(wire, u)
        BY <1>2, <1>4, <3>3, Zenon
      <4>3. Count(wire, u) + Total(vec[u]) = size[u]
        BY <1>2, <3>1, <3>3, Zenon
      <4>4. Total(vec'[u]) = Total(vec[u]) - n /\ Total(vec[u]) \in Nat
        BY <2>2, <2>3, <3>3, Zenon
      <4>5. Count(wire, u) \in Nat
        <5>1. wire \in Seq(Writes)
          BY Zenon DEF StreamInv
        <5> QED
          BY <5>1, CountFacts, Zenon
      <4>6. (Count(wire, u) + n) + (Total(vec[u]) - n) = Count(wire, u) + Total(vec[u])
        BY <4>4, <4>5, SMTT(30)
      <4> QED
        BY <4>1, <4>2, <4>3, <4>4, <4>6, Zenon
    <3>4. CASE u \notin Front(d) /\ u # w
      <4>1. tok'[u] = tok[u] /\ vec'[u] = vec[u]
        BY <1>6, <2>3, <3>4, Zenon
      <4>2. Count(y, u) = Count(wire, u)
        BY <1>3, <1>4, <3>4, Zenon
      <4>3. u \notin Elems(wire) => u \notin Elems(y)
        BY <1>3, <1>4, <3>4, Zenon
      <4> QED
        BY <3>1, <4>1, <4>2, <4>3, Zenon
    <3> QED
      BY <3>2, <3>3, <3>4, Zenon
  <2> QED
    BY <1>0, <2>3, <2>4, Zenon DEF Portions
<1>11. AtEnd'
  <2>1. writers' # <<>> /\ writers'[1] = w
    <3>1. 1 \in 1..Len(writers') /\ Len(writers') # 0
      BY <1>1, <1>7, SMTT(30)
    <3> QED
      BY <1>7, <3>1, SMTT(30)
  <2>2. y # <<>> => tok'[End(y)] \in {"done", "dropped"} \/ End(y) = w
    <3> SUFFICES ASSUME y # <<>>, n = 0 PROVE tok'[End(y)] \in {"done", "dropped"} \/ End(y) = w
      BY <1>4, SMTT(30)
    <3>1. y = x
      BY <1>4, Zenon
    <3>2. End(x) \in Writes
      BY <1>3, <3>1, SMTT(30) DEF End
    <3>3. tok[End(x)] \in {"done", "dropped"} \/ End(x) \in Front(d) \/ End(x) = w
      BY <1>2, <3>1, ZenonT(30) DEF Ready
    <3> QED
      BY <1>6, <3>1, <3>2, <3>3, Zenon
  <2>3. w \in Elems(y) => End(y) = w
    BY <1>2, <1>4 DEF Fits
  <2>4. ASSUME NEW i \in 2..Len(writers') PROVE writers'[i] \notin Elems(y)
    <3> DEFINE k == d + i
    <3>1. /\ k \in 1..Len(writers) /\ k \in 2..Len(writers) /\ d + 1 \in 1..Len(writers) /\ d + 1 # k
          /\ writers'[i] = writers[k]
          /\ \A j \in 1..d : j \in 1..Len(writers) /\ j # k
      <4>1. i \in 1..Len(writers') /\ i \in Nat /\ i >= 2 /\ i <= Len(writers) - d
        BY <1>71
      <4>2. writers'[i] = writers[k]
        BY <1>7, <4>1, Zenon
      <4>3. Shifted(Len(writers), d, i)
        BY <1>71, <4>1, ShiftFacts, Zenon
      <4> QED
        BY <4>2, <4>3, Zenon DEF Shifted
    <3> HIDE DEF k
    <3>2. writers[k] # w /\ writers[k] \notin Front(d)
      <4>1. \A j \in 1..Len(writers) : writers[k] = writers[j] => k = j
        BY <1>1, <3>1, Zenon
      <4> QED
        BY <3>1, <4>1, Zenon DEF Front
    <3>3. writers[k] \notin Elems(wire)
      BY <3>1, Zenon DEF StreamInv, AtEnd
    <3> QED
      BY <1>3, <1>4, <3>1, <3>2, <3>3, Zenon
  <2> QED
    BY <1>0, <2>1, <2>2, <2>3, <2>4, Zenon DEF AtEnd
<1> QED
  BY <1>0, <1>1, <1>4, <1>6, <1>8, <1>9, <1>10, <1>11, Zenon DEF StreamInv

\* In t the first d of the queue are done, the others are attached or have failed, and
\* what is not in the queue is as it was.
Settled(t, d) ==
  /\ t \in [Writes -> TokenStates]
  /\ \A w \in Front(d) : t[w] = "done"
  /\ \A w \in Writes \ Elems(writers) : t[w] = tok[w]
  /\ \A w \in Elems(writers) \ Front(d) : t[w] \in {"started", "error"}

\* Ending the attached tokens of t
LEMMA EndedKeeps ==
  ASSUME StreamInv, NEW d \in 0..Len(writers), NEW x, Ready(x, d), NEW t, Settled(t, d),
         wire' = x, writers' = <<>>, vec' = vec, size' = size,
         NEW state \in {"error", "cancelled"}, tok' = Ended(t, state),
         \/ "SHUT_WRITE" \in flags'
         \/ d = Len(writers) /\ "SHUT_WRITE" \notin flags
  PROVE  StreamInv'
<1>1. /\ writers \in Seq(Writes) /\ Len(writers) \in Nat /\ d \in Nat /\ d <= Len(writers)
      /\ Elems(writers) = {w \in Writes : tok[w] = "started"}
  BY DEF StreamInv, Queue
<1>2. Front(d) \subseteq Elems(writers)
  BY <1>1 DEF Front, Elems
<1>3. \A w \in Writes : tok'[w] = IF t[w] = "started" THEN state ELSE t[w]
  BY Zenon DEF Ended
<1>4. tok' \in [Writes -> TokenStates]
  BY Zenon DEF Ended, Settled, TokenStates
<1>5. \A w \in Front(d) : tok'[w] = "done"
  BY <1>1, <1>2, <1>3, Zenon DEF Settled
<1>6. \A w \in Writes \ Elems(writers) : tok'[w] = tok[w]
  BY <1>1, <1>3, Zenon DEF Settled
<1>7. \A w \in Elems(writers) \ Front(d) : tok'[w] \in {"error", "cancelled"}
  BY <1>1, <1>3, Zenon DEF Settled
<1>8. Halted(tok', d)
  BY <1>4, <1>5, <1>6, <1>7, Zenon DEF Halted
<1> QED
  BY <1>8, HaltKeeps, Zenon

\* cleanup() cancels the writes that are left, and shuts the stream.
LEMMA CleanupStream ==
  ASSUME StreamInv, NEW d \in 0..Len(writers), NEW x, Ready(x, d), NEW t, Settled(t, d),
         wire' = x, vec' = vec, size' = size, NEW c, NEW r, Cleanup(c, t, r)
  PROVE  StreamInv'
<1>1. writers' = <<>> /\ tok' = Ended(t, "cancelled") /\ "SHUT_WRITE" \in flags'
  BY Zenon DEF Cleanup, ForceClose
<1> QED
  BY <1>1, EndedKeeps, Zenon

\* shutdownWriteNow() fails the writes that are left, and ends the stream.
LEMMA ShutdownStream ==
  ASSUME StreamInv, NEW d \in 0..Len(writers), NEW x, Ready(x, d), NEW t, Settled(t, d),
         wire' = x, vec' = vec, size' = size, ShutdownWriteNow(t),
         s = "CONNECTED" \/ (d = Len(writers) /\ "SHUT_WRITE" \notin flags)
  PROVE  StreamInv'
<1>1. CASE "SHUT_READ" \in flags
  <2>1. Cleanup(connect, t, reader)
    BY <1>1, Zenon DEF ShutdownWriteNow
  <2> QED
    BY <2>1, CleanupStream, Zenon
<1>2. CASE "SHUT_READ" \notin flags
  <2>1. /\ writers' = <<>> /\ tok' = Ended(t, "error")
        /\ s = "CONNECTED" => "SHUT_WRITE" \in flags'
    BY <1>2, Zenon DEF ShutdownWriteNow
  <2> QED
    BY <2>1, EndedKeeps, Zenon
<1> QED
  BY <1>1, <1>2, Zenon

\* The tokens as they are
LEMMA SettledAtFirst == ASSUME StreamInv PROVE Settled(tok, 0) /\ 0 \in 0..Len(writers)
<1>1. Len(writers) \in Nat /\ Elems(writers) = {w \in Writes : tok[w] = "started"}
  BY DEF StreamInv, Queue
<1>2. Front(0) = {} /\ tok \in [Writes -> TokenStates]
  BY DEF Front, StreamInv
<1> QED
  BY <1>1, <1>2 DEF Settled

\* Steps that leave the writes alone
LEMMA SameStream ==
  ASSUME StreamInv, UNCHANGED writeVars,
         "SHUT_WRITE" \in flags => "SHUT_WRITE" \in flags',
         "SHUT_WRITE" \in flags' => "SHUT_WRITE" \in flags \/ writers = <<>>
  PROVE  StreamInv'
<1>1. UNCHANGED <<writers, tok, size, vec, wire>>
  BY Zenon DEF writeVars
<1>2. Blocks(wire, size, Dropped)'
  BY <1>1, Zenon DEF StreamInv, Blocks, Dropped
<1>3. Queue' /\ AtEnd'
  BY <1>1 DEF StreamInv, Queue, AtEnd, Once, Elems, End
<1>4. Portions'
  <2>1. Elems(wire)' = Elems(wire) /\ \A w : Count(wire', w) = Count(wire, w)
    BY <1>1, Zenon
  <2> QED
    BY <1>1, <2>1, Zenon DEF StreamInv, Portions
<1> QED
  BY <1>1, <1>2, <1>3, <1>4, Zenon DEF StreamInv

\* doWrite() adds a write of which nothing is on the wire.
LEMMA DoWriteStream ==
  ASSUME StreamInv, NEW w \in Writes, DoWrite(w)
  PROVE  StreamInv'
<1>1. PICK v \in Vecs : vec' = [vec EXCEPT ![w] = v] /\ size' = [size EXCEPT ![w] = Total(v)]
  BY Zenon DEF DoWrite
<1>2. v \in Seq(Nat \ {0}) /\ Total(v) \in Nat
  BY VecsAssumption, TotalNat, Zenon
<1>3. /\ tok[w] = "none" /\ wire' = wire /\ flags' = flags
      /\ \/ tok' = [tok EXCEPT ![w] = "error"] /\ writers' = writers
         \/ tok' = [tok EXCEPT ![w] = "unattached"] /\ writers' = writers
         \/ /\ tok' = [tok EXCEPT ![w] = "started"] /\ writers' = Append(writers, w)
            /\ "SHUT_WRITE" \notin flags
  BY Zenon DEF DoWrite, NoMoreWrites
<1>4. /\ tok \in [Writes -> TokenStates] /\ size \in [Writes -> Nat] /\ wire \in Seq(Writes)
      /\ vec \in [Writes -> Seq(Nat \ {0})] /\ w \notin Elems(wire)
      /\ writers \in Seq(Writes) /\ Once(writers) /\ Len(writers) \in Nat
      /\ Elems(writers) = {u \in Writes : tok[u] = "started"}
      /\ "SHUT_WRITE" \in flags => writers = <<>>
  BY <1>3, SMTT(30) DEF StreamInv, Queue, Portions
<1>5. /\ size' \in [Writes -> Nat] /\ size'[w] = Total(v)
      /\ vec' \in [Writes -> Seq(Nat \ {0})] /\ vec'[w] = v
      /\ \A u \in Writes \ {w} : size'[u] = size[u] /\ vec'[u] = vec[u] /\ tok'[u] = tok[u]
      /\ tok' \in [Writes -> TokenStates] /\ tok'[w] \in {"error", "unattached", "started"}
  <2>1. \A x \in {"error", "unattached", "started"} : x \in TokenStates
    BY Zenon DEF TokenStates
  <2> QED
    BY <1>1, <1>2, <1>3, <1>4, <2>1, ZenonT(30)
<1>6. Blocks(wire, size, Dropped)'
  <2>1. Dropped' = Dropped
    BY <1>3, <1>5, Zenon DEF Dropped
  <2>2. ASSUME NEW i \in 1..(Len(wire) - 1) PROVE size'[wire[i]] = size[wire[i]]
    <3>1. i \in 1..Len(wire)
      BY <1>4
    <3>2. wire[i] \in Writes /\ wire[i] # w
      <4>1. wire[i] \in Elems(wire)
        BY <3>1, Zenon DEF Elems
      <4>2. wire[i] \in Writes
        BY <1>4, <3>1, SMTT(30)
      <4> QED
        BY <1>4, <4>1, <4>2, Zenon
    <3> QED
      BY <1>5, <3>2, Zenon
  <2>3. Blocks(wire, size', Dropped)
    BY <2>2, Zenon DEF StreamInv, Blocks
  <2> QED
    BY <1>3, <2>1, <2>3, ZenonT(30) DEF Blocks
<1>7. Count(wire, w) = 0
  BY <1>4, CountFacts, Zenon DEF StreamInv
<1>8. Portions'
  <2>1. ASSUME NEW u \in Writes
        PROVE  /\ tok'[u] \in {"none", "unattached"} => u \notin Elems(wire)
               /\ tok'[u] = "started" => Count(wire, u) + Total(vec'[u]) = size'[u]
               /\ tok'[u] = "done" => Count(wire, u) = size'[u]
    <3>1. CASE u = w
      BY <1>2, <1>4, <1>5, <1>7, <3>1, SMTT(30)
    <3>2. CASE u # w
      BY <1>5, <3>2, Zenon DEF StreamInv, Portions
    <3> QED
      BY <3>1, <3>2, Zenon
  <2> QED
    BY <1>3, <1>5, <2>1, Zenon DEF Portions
<1>9. CASE writers' = writers /\ tok'[w] # "started"
  <2>1. Queue'
    BY <1>3, <1>4, <1>5, <1>9, Zenon DEF Queue
  <2>2. AtEnd'
    <3>1. wire # <<>> => End(wire) \in Writes \ {w}
      BY <1>4, SMTT(30) DEF End, Elems
    <3> QED
      BY <1>3, <1>5, <1>9, <3>1, Zenon DEF StreamInv, AtEnd
  <2> QED
    BY <1>3, <1>4, <1>5, <1>6, <1>8, <2>1, <2>2, Zenon DEF StreamInv
<1>10. CASE /\ tok' = [tok EXCEPT ![w] = "started"] /\ writers' = Append(writers, w)
            /\ "SHUT_WRITE" \notin flags
  <2>1. tok'[w] = "started" /\ w \notin Elems(writers)
    BY <1>3, <1>4, <1>10, Zenon
  <2> DEFINE r == Append(writers, w)
  <2>2. /\ r \in Seq(Writes) /\ Len(r) = Len(writers) + 1 /\ r # <<>>
        /\ Elems(r) = Elems(writers) \cup {w} /\ Once(r)
        /\ writers # <<>> => r[1] = writers[1]
        /\ writers = <<>> => r[1] = w
    <3>1. writers \in Seq(Writes) /\ Once(writers)
      BY <1>4, Zenon
    <3>2. /\ r \in Seq(Writes) /\ Len(r) = Len(writers) + 1 /\ r # <<>>
          /\ Elems(r) = Elems(writers) \cup {w}
          /\ Once(writers) /\ w \notin Elems(writers) => Once(r)
          /\ writers # <<>> => r[1] = writers[1]
          /\ writers = <<>> => r[1] = w
      BY <3>1, AppendFacts, SMTT(60)
    <3> QED
      BY <2>1, <3>1, <3>2, Zenon
  <2>3. \A i \in 1..Len(r) : r[i] = IF i <= Len(writers) THEN writers[i] ELSE w
    BY <1>4
  <2> HIDE DEF r
  <2>4. writers' = r
    BY <1>10, Zenon DEF r
  <2>5. Queue'
    <3>1. Elems(r) = {u \in Writes : tok'[u] = "started"}
      BY <1>4, <1>5, <2>1, <2>2, ZenonT(30)
    <3> QED
      BY <1>3, <1>10, <2>2, <2>4, <3>1, Zenon DEF Queue
  <2>6. AtEnd'
    <3>1. wire # <<>> => End(wire) \in Writes \ {w}
      BY <1>4 DEF End, Elems
    <3>2. wire # <<>> => tok'[End(wire)] \in {"done", "dropped"} \/ r[1] = End(wire)
      BY <1>5, <1>10, <2>2, <3>1, Zenon DEF StreamInv, AtEnd
    <3>3. r[1] \in Elems(wire) => End(wire) = r[1]
      BY <1>4, <2>2, Zenon DEF StreamInv, AtEnd
    <3>4. ASSUME NEW i \in 2..Len(r) PROVE r[i] \notin Elems(wire)
      <4>1. i \in 1..Len(r) /\ (i <= Len(writers) => i \in 2..Len(writers))
        BY <1>4, <2>2
      <4> QED
        BY <1>4, <2>3, <4>1, ZenonT(30) DEF StreamInv, AtEnd
    <3> QED
      BY <1>3, <2>2, <2>4, <3>2, <3>3, <3>4, Zenon DEF AtEnd
  <2> QED
    BY <1>3, <1>4, <1>5, <1>6, <1>8, <2>5, <2>6, ZenonT(30) DEF StreamInv
<1> QED
  BY <1>3, <1>4, <1>9, <1>10, Zenon

\* A write that is dropped leaves the queue, and may leave its first bytes on the wire.
LEMMA DropWriteStream ==
  ASSUME StreamInv, NEW w \in Writes, DropWrite(w)
  PROVE  StreamInv'
<1>1. /\ tok[w] \in {"started", "unattached"} /\ tok' = [tok EXCEPT ![w] = "dropped"]
      /\ Unlinked(writers, w, writers')
      /\ UNCHANGED <<flags, size, vec, wire>>
  BY Zenon DEF DropWrite, socketVars
<1>2. /\ tok \in [Writes -> TokenStates] /\ size \in [Writes -> Nat] /\ wire \in Seq(Writes)
      /\ vec \in [Writes -> Seq(Nat \ {0})]
      /\ writers \in Seq(Writes) /\ Once(writers) /\ Len(writers) \in Nat
      /\ Elems(writers) = {u \in Writes : tok[u] = "started"}
      /\ "SHUT_WRITE" \in flags => writers = <<>>
  BY SMTT(30) DEF StreamInv, Queue, Portions
<1>3. /\ writers' \in Seq(Writes) /\ Once(writers') /\ Elems(writers') = Elems(writers) \ {w}
      /\ SubList(writers', writers)
  BY <1>1, <1>2, UnlinkedFacts, Zenon
<1>4. /\ tok' \in [Writes -> TokenStates] /\ tok'[w] = "dropped"
      /\ \A u \in Writes \ {w} : tok'[u] = tok[u]
  BY <1>1, <1>2, Zenon DEF TokenStates
<1>5. Blocks(wire, size, Dropped)'
  <2>1. Dropped \subseteq Dropped'
    BY <1>4, Zenon DEF Dropped
  <2>2. Blocks(wire, size, Dropped')
    BY <2>1, Zenon DEF StreamInv, Blocks
  <2> QED
    BY <1>1, <2>2, Zenon DEF Blocks
<1>6. Queue'
  <2>1. Elems(writers') = {u \in Writes : tok'[u] = "started"}
    BY <1>2, <1>3, <1>4, Zenon
  <2>2. ASSUME writers = <<>> PROVE writers' = <<>>
    <3>1. Elems(writers') = {}
      <4>1. Elems(<<>>) = {}
        BY DEF Elems
      <4> QED
        BY <1>3, <2>2, <4>1, Zenon
    <3>2. Len(writers') \in Nat /\ ~(1 <= Len(writers'))
      BY <1>3, <3>1, SMTT(30) DEF Elems
    <3> QED
      BY <1>3, <3>2
  <2> QED
    BY <1>1, <1>2, <1>3, <2>1, <2>2, Zenon DEF Queue
<1>7. Portions'
  <2>1. ASSUME NEW u \in Writes
        PROVE  /\ tok'[u] \in {"none", "unattached"} => u \notin Elems(wire)
               /\ tok'[u] = "started" => Count(wire, u) + Total(vec[u]) = size[u]
               /\ tok'[u] = "done" => Count(wire, u) = size[u]
    <3>1. CASE u = w
      BY <1>4, <3>1, Zenon
    <3>2. CASE u # w
      BY <1>4, <3>2, Zenon DEF StreamInv, Portions
    <3> QED
      BY <3>1, <3>2, Zenon
  <2> QED
    BY <1>1, <1>2, <2>1, Zenon DEF Portions
<1>8. AtEnd'
  <2>1. Len(writers') \in Nat /\ (writers' # <<>> <=> 1 <= Len(writers'))
    BY <1>3, SMTT(30)
  <2>2. ASSUME NEW i \in 2..Len(writers')
        PROVE  \E l \in 2..Len(writers) : writers'[i] = writers[l]
    <3>1. 1 \in 1..Len(writers') /\ i \in 1..Len(writers') /\ 1 < i
      BY <2>1
    <3>2. PICK k \in 1..Len(writers), l \in 1..Len(writers) : k < l /\ writers'[i] = writers[l]
      BY <1>3, <3>1 DEF SubList
    <3>3. l \in 2..Len(writers)
      BY <1>2, <3>2
    <3> QED
      BY <3>2, <3>3, Zenon
  <2>3. \A i \in 2..Len(writers') : writers'[i] \notin Elems(wire)
    BY <2>2, ZenonT(30) DEF StreamInv, AtEnd
  <2>4. ASSUME writers # <<>>, writers[1] # w
        PROVE  writers' # <<>> /\ writers'[1] = writers[1]
    <3>1. 1 \in 1..Len(writers)
      BY <1>2, <2>4, SMTT(30)
    <3>2. writers[1] \in Elems(writers')
      BY <1>3, <2>4, <3>1, Zenon DEF Elems
    <3>3. PICK j \in 1..Len(writers') : writers[1] = writers'[j]
      BY <3>2, Zenon DEF Elems
    <3>4. ~(j \in 2..Len(writers'))
      <4> SUFFICES ASSUME j \in 2..Len(writers') PROVE FALSE
        OBVIOUS
      <4>1. PICK l \in 2..Len(writers) : writers'[j] = writers[l]
        BY <2>2, Zenon
      <4>2. l \in 1..Len(writers) /\ l # 1
        BY <1>2
      <4> QED
        BY <1>2, <3>1, <3>3, <4>1, <4>2, Zenon DEF Once
    <3>5. j = 1
      BY <2>1, <3>4
    <3> QED
      BY <2>1, <3>3, <3>5
  <2>5. ASSUME wire # <<>>
        PROVE  \/ tok'[End(wire)] \in {"done", "dropped"}
               \/ writers' # <<>> /\ writers'[1] = End(wire)
               \/ "SHUT_WRITE" \in flags
    <3>1. End(wire) \in Writes
      BY <1>2, <2>5, SMTT(30) DEF End
    <3> QED
      BY <1>4, <2>4, <2>5, <3>1, Zenon DEF StreamInv, AtEnd
  <2>6. ASSUME writers' # <<>>, writers'[1] \in Elems(wire) PROVE End(wire) = writers'[1]
    <3>1. 1 \in 1..Len(writers')
      BY <2>1, <2>6, SMTT(30)
    <3>2. writers'[1] \in Elems(writers) /\ writers'[1] # w
      BY <1>3, <3>1, Zenon DEF Elems
    <3>3. PICK k \in 1..Len(writers) : writers'[1] = writers[k]
      BY <3>2, Zenon DEF Elems
    <3>4. ~(k \in 2..Len(writers))
      BY <2>6, <3>3, Zenon DEF StreamInv, AtEnd
    <3>5. k = 1 /\ writers # <<>>
      BY <1>2, <3>4
    <3> QED
      BY <2>6, <3>3, <3>5, Zenon DEF StreamInv, AtEnd
  <2> QED
    BY <1>1, <2>3, <2>5, <2>6, Zenon DEF AtEnd
<1> QED
  BY <1>1, <1>2, <1>4, <1>5, <1>6, <1>7, <1>8, Zenon DEF StreamInv

\* The outcomes of the WRITE event, where the first d of the queue are done
LEMMA OnWriteStream ==
  ASSUME StreamInv, OnWrite
  PROVE  StreamInv'
<1> DEFINE Done(d) == [w \in Writes |-> IF w \in Elems(Upto(writers, d)) THEN "done" ELSE tok[w]]
           Failed(d) == [Done(d) EXCEPT ![writers[d + 1]] = "error"]
           Some(d, n) == /\ tok' = Done(d) /\ writers' = From(writers, d)
                         /\ vec' = [vec EXCEPT ![writers[d + 1]] = Advanced(@, n)]
                         /\ wire' = WireAfter(d) \o Times(n, writers[d + 1])
                         /\ UNCHANGED socketVars
<1>1. /\ s = "CONNECTED" /\ size' = size
      /\ \E d \in 0..Len(writers) :
           \/ ShutdownWriteNow(Done(d)) /\ wire' = WireAfter(d) /\ UNCHANGED vec
           \/ /\ d = Len(writers) /\ tok' = Done(d) /\ writers' = <<>> /\ wire' = WireAfter(d)
              /\ UNCHANGED <<flags, vec>>
           \/ d < Len(writers) /\ \E n \in 0..(Total(vec[writers[d + 1]]) - 1) : Some(d, n)
           \/ /\ d < Len(writers) /\ Cleanup(connect, Failed(d), reader)
              /\ wire' = WireAfter(d) /\ UNCHANGED vec
  BY ZenonT(30) DEF OnWrite
<1>2. PICK d \in 0..Len(writers) :
           \/ ShutdownWriteNow(Done(d)) /\ wire' = WireAfter(d) /\ UNCHANGED vec
           \/ /\ d = Len(writers) /\ tok' = Done(d) /\ writers' = <<>> /\ wire' = WireAfter(d)
              /\ UNCHANGED <<flags, vec>>
           \/ d < Len(writers) /\ \E n \in 0..(Total(vec[writers[d + 1]]) - 1) : Some(d, n)
           \/ /\ d < Len(writers) /\ Cleanup(connect, Failed(d), reader)
              /\ wire' = WireAfter(d) /\ UNCHANGED vec
  BY <1>1, Zenon
<1>3. PICK x : x = WireAfter(d)
  OBVIOUS
<1>4. Ready(x, d)
  BY <1>3, WireAfterReady, Zenon
<1>5. /\ writers \in Seq(Writes) /\ Len(writers) \in Nat /\ d \in Nat /\ d <= Len(writers)
      /\ Elems(writers) = {w \in Writes : tok[w] = "started"}
      /\ tok \in [Writes -> TokenStates]
  BY DEF StreamInv, Queue
<1>6. Elems(Upto(writers, d)) = Front(d) /\ Front(d) \subseteq Elems(writers)
  <2>1. Len(Upto(writers, d)) = d /\ \A i \in 1..d : Upto(writers, d)[i] = writers[i]
    BY <1>5, UptoFacts, Zenon
  <2>2. Elems(Upto(writers, d)) = Front(d)
    BY <2>1, Zenon DEF Elems, Front
  <2>3. Front(d) \subseteq Elems(writers)
    BY <1>5 DEF Front, Elems
  <2> QED
    BY <2>2, <2>3, Zenon
<1>7. Done(d) = [w \in Writes |-> IF w \in Front(d) THEN "done" ELSE tok[w]]
  BY <1>6, Zenon
<1>8. /\ Done(d) \in [Writes -> TokenStates]
      /\ \A w \in Front(d) : Done(d)[w] = "done"
      /\ \A w \in Writes \ Front(d) : Done(d)[w] = tok[w]
  BY <1>5, <1>6, <1>7, Zenon DEF TokenStates
<1>9. Settled(Done(d), d)
  BY <1>5, <1>6, <1>8, Zenon DEF Settled
<1>10. CASE ShutdownWriteNow(Done(d)) /\ wire' = x /\ UNCHANGED vec
  BY <1>1, <1>4, <1>9, <1>10, ShutdownStream, ZenonT(30)
<1>11. CASE /\ d = Len(writers) /\ tok' = Done(d) /\ writers' = <<>> /\ wire' = x
            /\ UNCHANGED <<flags, vec>>
  <2>1. Elems(writers) = Front(d)
    BY <1>5, <1>11, Zenon DEF Elems, Front
  <2>2. tok' \in [Writes -> TokenStates] /\ \A w \in Front(d) : tok'[w] = "done"
    BY <1>8, <1>11, Zenon
  <2>3. \A w \in Writes \ Elems(writers) : tok'[w] = tok[w]
    BY <1>8, <1>11, <2>1, Zenon
  <2>4. \A w \in Elems(writers) \ Front(d) : tok'[w] \in {"error", "cancelled"}
    BY <2>1, Zenon
  <2>5. \/ "SHUT_WRITE" \in flags'
        \/ d = Len(writers) /\ "SHUT_WRITE" \notin flags
    BY <1>11, Zenon
  <2> QED
    <3>1. Halted(tok', d)
      BY <2>2, <2>3, <2>4, Zenon DEF Halted
    <3> QED
      BY <1>1, <1>4, <1>11, <2>5, <3>1, HaltKeeps, Zenon
<1>12. ASSUME d < Len(writers), NEW n \in 0..(Total(vec[writers[d + 1]]) - 1), Some(d, n)
       PROVE  StreamInv'
  <2>1. d \in 0..(Len(writers) - 1)
    BY <1>5, <1>12, SMTT(30)
  <2>2. PICK w : w = writers[d + 1]
    BY Zenon
  <2>3. w \in Writes
    BY <1>4, <2>1, <2>2, ReadyNext, Zenon
  <2>4. vec[w] \in Seq(Nat \ {0})
    BY <2>3, Zenon DEF StreamInv, Portions
  <2>5. n \in Nat /\ n < Total(vec[w])
    BY <2>2, <2>4, TotalNat, SMTT(30)
  <2>6. PICK y : y = x \o Times(n, w)
    BY ZenonT(30)
  <2>7. x \in Seq(Writes)
    BY <1>4, Zenon DEF Ready
  <2>8. Grown(Writes, x, w, n, y)
    BY <2>3, <2>5, <2>6, <2>7, MoreFacts, Zenon
  <2>9. SomeSent(d, w, n, y)
    BY <1>1, <1>3, <1>7, <1>12, <2>2, <2>6, Zenon DEF SomeSent, socketVars
  <2> QED
    BY <1>1, <1>4, <2>1, <2>2, <2>5, <2>8, <2>9, SomeKeeps, Zenon
<1>13. CASE /\ d < Len(writers) /\ Cleanup(connect, Failed(d), reader)
            /\ wire' = x /\ UNCHANGED vec
  <2>1. d \in 0..(Len(writers) - 1)
    BY <1>5, <1>13
  <2>2. PICK w : w = writers[d + 1]
    BY Zenon
  <2>3. w \in Writes \ Front(d) /\ tok[w] = "started"
    BY <1>4, <2>1, <2>2, ReadyNext, Zenon
  <2>4. w \in Elems(writers)
    BY <1>5, <2>3, Zenon
  <2>5. PICK t : t = Done(d)
    BY Zenon
  <2>6. Settled(t, d)
    BY <1>9, <2>5, Zenon
  <2>7. Settled([t EXCEPT ![w] = "error"], d)
    BY <2>3, <2>4, <2>6 DEF Settled, TokenStates
  <2>8. Failed(d) = [t EXCEPT ![w] = "error"]
    BY <2>2, <2>5, Zenon
  <2>9. Cleanup(connect, [t EXCEPT ![w] = "error"], reader) /\ wire' = x /\ vec' = vec
    BY <1>13, <2>8, Zenon
  <2> QED
    BY <1>1, <1>4, <2>7, <2>9, CleanupStream, Zenon
<1> QED
  BY <1>2, <1>3, <1>10, <1>11, <1>12, <1>13, Zenon

\* Every step of the writes, the events, the shutdowns and the peer leaves the wire in
\* blocks and the queue as what is missing of them.
LEMMA StreamStep == IInv /\ StreamInv /\ [Next]_vars => StreamInv'
<1> SUFFICES ASSUME IInv, StreamInv, [Next]_vars PROVE StreamInv'
  OBVIOUS
<1>0. Settled(tok, 0) /\ 0 \in 0..Len(writers) /\ Ready(wire, 0)
  BY SettledAtFirst, ReadyAtFirst, Zenon
<1>1. ASSUME NEW c, NEW r, Cleanup(c, tok, r), UNCHANGED <<size, vec, wire>> PROVE StreamInv'
  BY <1>0, <1>1, CleanupStream, Zenon
<1>2. ASSUME \/ DoConnect \/ DropConnect \/ DoRead \/ PollRead \/ DropRead
              \/ PeerSends \/ PeerLeaves \/ UNCHANGED vars
      PROVE  StreamInv'
  <2>1. UNCHANGED writeVars /\ flags' = flags
    BY <1>2, Zenon DEF DoConnect, DropConnect, DoRead, PollRead, DropRead, PeerSends, PeerLeaves, vars, socketVars
  <2> QED
    BY <2>1, SameStream, Zenon
<1>3. ASSUME ShutdownWrite PROVE StreamInv'
  <2>1. "SHUT_WRITE" \notin flags /\ UNCHANGED <<size, vec, wire>>
    BY <1>3, Zenon DEF ShutdownWrite
  <2>2. CASE writers = <<>>
    <3>1. ShutdownWriteNow(tok) /\ Len(writers) = 0
      BY <1>3, <2>2, Zenon DEF ShutdownWrite
    <3> QED
      BY <1>0, <2>1, <3>1, ShutdownStream, Zenon
  <2>3. CASE writers # <<>>
    <3>1. flags' = flags \cup {"SHUT_WRITE_PENDING"} /\ UNCHANGED <<writers, tok>>
      BY <1>3, <2>3, Zenon DEF ShutdownWrite
    <3>2. UNCHANGED writeVars
      BY <2>1, <3>1, Zenon DEF writeVars
    <3> QED
      BY <2>1, <3>1, <3>2, SameStream, Zenon
  <2> QED
    BY <2>2, <2>3, Zenon
<1>4. ASSUME Stop PROVE StreamInv'
  BY <1>1, <1>4, Zenon DEF Stop
<1>5. ASSUME OnRead PROVE StreamInv'
  <2>1. UNCHANGED <<size, vec, wire>>
    BY <1>5, Zenon DEF OnRead
  <2>2. \/ UNCHANGED <<writers, tok>> /\ (flags' = flags \/ flags' = flags \cup {"SHUT_READ"})
        \/ Cleanup(connect, tok, "error")
    BY <1>5, ZenonT(30) DEF OnRead, socketVars
  <2>3. CASE UNCHANGED <<writers, tok>> /\ (flags' = flags \/ flags' = flags \cup {"SHUT_READ"})
    <3>1. UNCHANGED writeVars
      BY <2>1, <2>3, Zenon DEF writeVars
    <3> QED
      BY <2>3, <3>1, SameStream, Zenon
  <2>4. CASE Cleanup(connect, tok, "error")
    BY <1>1, <2>1, <2>4, Zenon
  <2> QED
    BY <2>2, <2>3, <2>4, Zenon
<1>6. ASSUME OnConnected PROVE StreamInv'
  <2>1. UNCHANGED <<size, vec, wire>> /\ s = "CONNECTING"
    BY <1>6, Zenon DEF OnConnected
  <2>2. \/ UNCHANGED <<writers, tok>> /\ (flags' = flags \/ flags' = flags \cup {"SHUT_WRITE"})
        \/ \E c : Cleanup(c, tok, reader)
    BY <1>6, Zenon DEF OnConnected
  <2>3. CASE UNCHANGED <<writers, tok>> /\ (flags' = flags \/ flags' = flags \cup {"SHUT_WRITE"})
    <3>1. UNCHANGED writeVars
      BY <2>1, <2>3, Zenon DEF writeVars
    <3>2. writers = <<>>
      BY <2>1, Zenon DEF IInv, Phases
    <3> QED
      BY <2>3, <3>1, <3>2, SameStream, Zenon
  <2>4. CASE \E c : Cleanup(c, tok, reader)
    BY <1>1, <2>1, <2>4, Zenon
  <2> QED
    BY <2>2, <2>3, <2>4, Zenon
<1>7. ASSUME NEW w \in Writes, DoWrite(w) \/ DropWrite(w) PROVE StreamInv'
  BY <1>7, DoWriteStream, DropWriteStream, Zenon
<1> QED
  BY <1>2, <1>3, <1>4, <1>5, <1>6, <1>7, OnWriteStream, Zenon DEF Next, Loop, User

\* The peer gets whole writes, whatever the writes are, however the kernel cuts them
\* and whenever the channel is shut down, stopped or broken.
THEOREM StreamIsWholeHolds == Spec => []StreamIsWhole
<1>1. Init => IInv
  BY DEF Init, IInv, Phases, PendingIsWatched, States
<1>2. Init => StreamInv
  <2> SUFFICES ASSUME Init PROVE StreamInv
    OBVIOUS
  <2>1. /\ wire = <<>> /\ writers = <<>> /\ flags = {} /\ tok = [w \in Writes |-> "none"]
        /\ size = [w \in Writes |-> 0] /\ vec = [w \in Writes |-> <<>>]
    BY Zenon DEF Init
  <2>2. Elems(<<>>) = {} /\ Once(<<>>)
    BY DEF Elems, Once
  <2>3. Blocks(wire, size, Dropped)
    BY <2>1 DEF Blocks
  <2>4. Queue
    BY <2>1, <2>2 DEF Queue
  <2>5. Portions
    BY <2>1, <2>2 DEF Portions
  <2>6. AtEnd
    BY <2>1 DEF AtEnd
  <2>7. tok \in [Writes -> TokenStates] /\ size \in [Writes -> Nat] /\ wire \in Seq(Writes)
    BY <2>1, SMTT(30) DEF TokenStates
  <2> QED
    BY <2>3, <2>4, <2>5, <2>6, <2>7, Zenon DEF StreamInv
<1>3. StreamInv => StreamIsWhole
  <2> SUFFICES ASSUME StreamInv PROVE StreamIsWhole
    OBVIOUS
  <2> QED
    BY Zenon DEF StreamInv, Portions, Blocks, Dropped, StreamIsWhole
<1>4. IInv /\ StreamInv /\ [Next]_vars => (IInv /\ StreamInv)'
  BY IInvStep, StreamStep, Zenon
<1> QED
  BY <1>1, <1>2, <1>3, <1>4, PTL DEF Spec
=============================================================================
