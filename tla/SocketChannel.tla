---------------------------- MODULE SocketChannel ----------------------------
(***************************************************************************)
(* A TCP or Unix socket in an event loop: SocketChannel with the           *)
(* CompletionTokens of its connect, of its writes and of one ReadStream,   *)
(* used by a task of the loop and driven by the loop's two io watchers.    *)
(* Everything runs in the loop's thread, so a handler is one step.  The    *)
(* kernel and the peer are the environment: they choose how many bytes a   *)
(* call moves, and when a connection is made, closed or broken.            *)
(*                                                                         *)
(* A write is a vector of buffer lengths, the iovec of its IOBuf chain.    *)
(***************************************************************************)
EXTENDS Lists

CONSTANTS Writes,    \* writes the user makes
          Vecs,      \* the vectors they have
          PeerMax    \* bound: bytes of the peer on their way to the user

\* fillIov() leaves out empty buffers.
ASSUME VecsAssumption == Vecs \subseteq Seq(Nat \ {0})

VARIABLES
  s, flags,          \* s_ and the ShutdownFlags set in shutdown_flags_
  rio, wio,          \* rio_ and wio_ are started
  connect,           \* the connect token
  writers,           \* the pending write tokens
  tok, size, vec,    \* each write token, its length and what is left of its iovec
  reader, buf, parked,   \* the stream's token, its buf_, whether its task sleeps
  peer, inbox,       \* the peer's side, and its bytes not yet read
  wire               \* history: the write every sent byte belongs to

socketVars == <<s, flags, rio, wio>>
writeVars == <<writers, tok, size, vec, wire>>
readVars == <<reader, buf, parked, inbox>>
vars == <<socketVars, connect, writeVars, readVars, peer>>

\* A channel to connect, or one made from an accepted socket
Init ==
  /\ s \in {"INITED", "CONNECTED"}
  /\ flags = {} /\ rio = FALSE /\ wio = FALSE
  /\ connect = IF s = "INITED" THEN "none" ELSE "done"
  /\ writers = <<>> /\ wire = <<>>
  /\ tok = [w \in Writes |-> "none"]
  /\ size = [w \in Writes |-> 0]
  /\ vec = [w \in Writes |-> <<>>]
  /\ reader = "none" /\ buf = 0 /\ parked = FALSE
  /\ peer = "open" /\ inbox = 0

-----------------------------------------------------------------------------
(* Ending tokens and the channel *)

\* Variant: wio_ goes on after the socket is closed.
ForceClose_KeepsWio ==
  /\ s' = "CLOSED" /\ flags' = flags \cup {"SHUT_READ", "SHUT_WRITE"}
  /\ rio' = FALSE /\ UNCHANGED wio

\* forceClose()
ForceClose ==
  /\ s' = "CLOSED" /\ flags' = flags \cup {"SHUT_READ", "SHUT_WRITE"}
  /\ rio' = FALSE /\ wio' = FALSE

\* The write tokens t, where those still attached end in state
Ended(t, state) == [w \in Writes |-> IF t[w] = "started" THEN state ELSE t[w]]

\* cleanup(): cancels the attached tokens, connect, read and write; then onCancel().
\* The token of the handler that calls it has ended: t and r are its outcome.
Cleanup(c, t, r) ==
  /\ connect' = IF c = "started" THEN "cancelled" ELSE c
  /\ reader' = IF r = "started" THEN "cancelled" ELSE r
  /\ parked' = FALSE
  /\ writers' = <<>> /\ tok' = Ended(t, "cancelled")
  /\ ForceClose

\* shutdownWriteNow(), on an open channel
ShutdownWriteNow(t) ==
  IF "SHUT_READ" \in flags THEN Cleanup(connect, t, reader)
  ELSE
    /\ flags' = flags \cup {IF s = "CONNECTED" THEN "SHUT_WRITE" ELSE "SHUT_WRITE_PENDING"}
    /\ wio' = (wio /\ s # "CONNECTED")
    /\ writers' = <<>> /\ tok' = Ended(t, "error")
    /\ UNCHANGED <<s, rio, connect, reader, parked>>

-----------------------------------------------------------------------------
(* The user *)

\* doConnect().  startConnect() may connect at once, be under way, or fail; the
\* token of a connect that failed at once is attached and has its error.
DoConnect ==
  /\ s = "INITED" /\ connect = "none"
  /\ \/ /\ connect' \in {"done", "started"}
        /\ s' = "CONNECTING" /\ wio' = TRUE
     \/ connect' = "started" /\ UNCHANGED <<s, wio>>
  /\ UNCHANGED <<flags, rio, writeVars, readVars, peer>>

\* The user drops a connect that is not over: the token is taken off its list, and the
\* channel goes on connecting.
DropConnect ==
  /\ connect = "started" /\ connect' = "dropped"
  /\ UNCHANGED <<socketVars, writeVars, readVars, peer>>

NoMoreWrites == s = "CLOSED" \/ flags \cap {"SHUT_WRITE_PENDING", "SHUT_WRITE"} # {}

\* doWrite().  While connecting the token is neither attached nor completed.
DoWrite(w) ==
  /\ s # "INITED" /\ tok[w] = "none"
  /\ \E v \in Vecs :
       /\ vec' = [vec EXCEPT ![w] = v]
       /\ size' = [size EXCEPT ![w] = Total(v)]
  /\ IF NoMoreWrites
       THEN tok' = [tok EXCEPT ![w] = "error"] /\ UNCHANGED <<writers, wio>>
     ELSE IF s = "CONNECTED"
       THEN tok' = [tok EXCEPT ![w] = "started"] /\ writers' = Append(writers, w) /\ wio' = TRUE
       ELSE tok' = [tok EXCEPT ![w] = "unattached"] /\ UNCHANGED <<writers, wio>>
  /\ UNCHANGED <<s, flags, rio, connect, wire, readVars, peer>>

\* The user drops a write that is not over: cleanup(UserCancel) takes its token off
\* the list.
DropWrite(w) ==
  /\ tok[w] \in {"started", "unattached"}
  /\ tok' = [tok EXCEPT ![w] = "dropped"]
  /\ Unlinked(writers, w, writers')
  /\ UNCHANGED <<socketVars, connect, size, vec, wire, readVars, peer>>

\* The first poll of a ReadStream: doRead() attaches a token, and the task parks;
\* or the read fails at once.
DoRead ==
  /\ s # "INITED" /\ reader = "none"
  /\ IF s = "CLOSED" \/ "SHUT_READ" \in flags
       THEN reader' = "error" /\ UNCHANGED <<parked, rio>>
       ELSE reader' = "started" /\ parked' = TRUE /\ rio' = TRUE
  /\ UNCHANGED <<s, flags, wio, connect, writeVars, buf, inbox, peer>>

\* Variant: a token that is done reports its end first.
HasData_Started == buf > 0 /\ reader = "started"

HasData == buf > 0 /\ reader # "cancelled"

\* pollStream(): what was read comes before the end or the error; a cancelled token
\* gives up what it has.
PollRead ==
  /\ reader \notin {"none", "ended"} /\ ~parked
  /\ buf' = 0
  /\ \/ HasData /\ UNCHANGED <<reader, parked>>
     \/ ~HasData /\ reader = "started" /\ parked' = TRUE /\ UNCHANGED reader
     \/ /\ ~HasData /\ reader # "started"
        /\ reader' = IF reader = "eof" THEN "ended" ELSE "none"
        /\ UNCHANGED parked
  /\ UNCHANGED <<socketVars, connect, writeVars, inbox, peer>>

\* The user drops the stream.
DropRead ==
  /\ reader \notin {"none", "ended"}
  /\ reader' = "none" /\ parked' = FALSE /\ buf' = 0
  /\ UNCHANGED <<socketVars, connect, writeVars, inbox, peer>>

\* shutdownWrite()
ShutdownWrite ==
  /\ "SHUT_WRITE" \notin flags
  /\ IF writers = <<>> THEN ShutdownWriteNow(tok)
     ELSE /\ flags' = flags \cup {"SHUT_WRITE_PENDING"}
          /\ UNCHANGED <<s, rio, wio, connect, writers, tok, reader, parked>>
  /\ UNCHANGED <<size, vec, wire, buf, inbox, peer>>

\* The executor stops, and cleans up a channel with attached tokens.
Stop ==
  /\ connect = "started" \/ writers # <<>> \/ reader = "started"
  /\ Cleanup(connect, tok, reader)
  /\ UNCHANGED <<size, vec, wire, buf, inbox, peer>>

-----------------------------------------------------------------------------
(* The event loop: onEvent() *)

\* READ: without a reader the watcher stops.  Otherwise handleRead() reads some of
\* what is there, and may get to the end, closeRead(), or to an error, cleanup().
OnRead ==
  /\ rio /\ s = "CONNECTED" /\ (inbox > 0 \/ peer # "open")
  /\ \/ /\ reader # "started"
        /\ rio' = FALSE
        /\ UNCHANGED <<s, flags, wio, connect, writers, tok, reader, buf, parked, inbox>>
     \/ /\ reader = "started"
        /\ \E k \in 0..inbox :
             /\ buf' = buf + k
             /\ \/ /\ k > 0
                   /\ inbox' = inbox - k /\ parked' = FALSE
                   /\ UNCHANGED <<socketVars, connect, writers, tok, reader>>
                \/ /\ peer = "closed" /\ k = inbox
                   /\ inbox' = 0 /\ reader' = "eof" /\ parked' = FALSE
                   /\ rio' = FALSE /\ flags' = flags \cup {"SHUT_READ"}
                   /\ UNCHANGED <<s, wio, connect, writers, tok>>
                \/ /\ peer = "reset"
                   /\ inbox' = 0
                   /\ Cleanup(connect, tok, "error")
  /\ UNCHANGED <<size, vec, wire, peer>>

\* Variant: a shutdown that was put off is forgotten.
ShutdownPending_Not == FALSE

ShutdownPending == "SHUT_WRITE_PENDING" \in flags

\* WRITE, while connecting: is_connected() tells how it went.  An attached connect
\* token is done; handleInitialReadWrite() and a pending shutdown follow, or cleanup().
OnConnected ==
  /\ wio /\ s = "CONNECTING"
  /\ \/ /\ connect' = IF connect = "started" THEN "done" ELSE connect
        /\ s' = "CONNECTED" /\ wio' = FALSE /\ rio' = (reader = "started")
        /\ flags' = IF ShutdownPending THEN flags \cup {"SHUT_WRITE"} ELSE flags
        /\ UNCHANGED <<writers, tok, reader, parked>>
     \/ Cleanup(IF connect = "started" THEN "error" ELSE connect, tok, reader)
  /\ UNCHANGED <<size, vec, wire, buf, inbox, peer>>

\* Variant: the front buffer is not advanced past what was written of it.
Advanced_WholeBuffers(v, n) ==
  LET count == CHOOSE i \in 0..Len(v) : Total(Upto(v, i)) <= n
                                        /\ (i < Len(v) => Total(Upto(v, i + 1)) > n)
  IN  From(v, count)

\* performWrite() and updateIov(): n bytes of iovec v are written.  The buffers
\* written entirely are left behind, the next one starts where the write stopped.
Advanced(v, n) ==
  LET count == CHOOSE i \in 0..Len(v) : Total(Upto(v, i)) <= n
                                        /\ (i < Len(v) => Total(Upto(v, i + 1)) > n)
      left  == From(v, count)
  IN  [i \in 1..Len(left) |-> IF i = 1 THEN left[1] - (n - Total(Upto(v, count))) ELSE left[i]]

\* The wire after the first d pending writes
WireAfter(d) ==
  LET after[i \in 0..d] ==
        IF i = 0 THEN wire ELSE after[i - 1] \o Times(Total(vec[writers[i]]), writers[i])
  IN  after[d]

\* WRITE: the first d pending writes complete, until the next one would block or
\* fails.  With a shutdown pending the loop ends with the first write that had
\* anything to send, and shutdownWriteNow() fails the others.
OnWrite ==
  /\ wio /\ s = "CONNECTED"
  /\ \E d \in 0..Len(writers) :
       LET done == [w \in Writes |-> IF w \in Elems(Upto(writers, d)) THEN "done" ELSE tok[w]]
           cut  == ShutdownPending /\ \E i \in 1..d : vec[writers[i]] # <<>>
       IN  /\ ShutdownPending => \A i \in 1..(d - 1) : vec[writers[i]] = <<>>
           /\ \/ /\ cut \/ (ShutdownPending /\ d = Len(writers))
                 /\ ShutdownWriteNow(done)
                 /\ wire' = WireAfter(d) /\ UNCHANGED vec
              \/ /\ ~ShutdownPending /\ d = Len(writers)
                 /\ tok' = done /\ writers' = <<>> /\ wio' = FALSE
                 /\ wire' = WireAfter(d)
                 /\ UNCHANGED <<s, flags, rio, connect, vec, reader, parked>>
              \/ /\ ~cut /\ d < Len(writers)
                 /\ LET w == writers[d + 1] IN
                    /\ vec[w] # <<>>
                    /\ \/ \E n \in 0..(Total(vec[w]) - 1) :
                            /\ d + n > 0
                            /\ tok' = done /\ writers' = From(writers, d)
                            /\ vec' = [vec EXCEPT ![w] = Advanced(@, n)]
                            /\ wire' = WireAfter(d) \o Times(n, w)
                            /\ UNCHANGED <<socketVars, connect, reader, parked>>
                       \/ /\ Cleanup(connect, [done EXCEPT ![w] = "error"], reader)
                          /\ wire' = WireAfter(d) /\ UNCHANGED vec
  /\ UNCHANGED <<size, buf, inbox, peer>>

-----------------------------------------------------------------------------
(* The peer *)

PeerSends ==
  /\ peer = "open" /\ s = "CONNECTED" /\ buf + inbox < PeerMax
  /\ inbox' = inbox + 1
  /\ UNCHANGED <<socketVars, connect, writeVars, reader, buf, parked, peer>>

PeerLeaves ==
  /\ peer = "open" /\ s = "CONNECTED"
  /\ peer' \in {"closed", "reset"}
  /\ UNCHANGED <<socketVars, connect, writeVars, readVars>>

-----------------------------------------------------------------------------
Loop == OnRead \/ OnConnected \/ OnWrite \/ PollRead
User == \/ DoConnect \/ DropConnect \/ DoRead \/ DropRead \/ ShutdownWrite \/ Stop
        \/ \E w \in Writes : DoWrite(w) \/ DropWrite(w)

Next == Loop \/ User \/ PeerSends \/ PeerLeaves

Spec == Init /\ [][Next]_vars

\* The loop runs, and the peer reads, so that the socket gets writable again.
FairSpec == Spec /\ WF_vars(OnRead) /\ WF_vars(OnConnected \/ OnWrite) /\ WF_vars(PollRead)

-----------------------------------------------------------------------------
(* Properties *)

TokenStates == {"none", "started", "done", "error", "cancelled", "dropped", "unattached"}

\* Every variable has its type.
TypeOK ==
  /\ s \in {"INITED", "CONNECTING", "CONNECTED", "CLOSED"}
  /\ flags \subseteq {"SHUT_WRITE_PENDING", "SHUT_WRITE", "SHUT_READ"}
  /\ rio \in BOOLEAN /\ wio \in BOOLEAN /\ parked \in BOOLEAN
  /\ connect \in TokenStates /\ reader \in TokenStates \cup {"eof", "ended"}
  /\ tok \in [Writes -> TokenStates]
  /\ writers \in Seq(Writes) /\ wire \in Seq(Writes)
  /\ buf \in Nat /\ inbox \in Nat

\* Whatever waits is watched: an attached token, a connect under way and a shutdown
\* that is pending have the watcher whose event will see to them, a closed channel
\* has neither tokens nor watchers, and the reader sleeps only while it has nothing.
PendingIsWatched ==
  /\ s = "CONNECTING" => wio
  /\ s = "CONNECTED" =>
       /\ writers # <<>> => wio
       /\ reader = "started" => rio
       /\ "SHUT_WRITE_PENDING" \in flags /\ "SHUT_WRITE" \notin flags => wio
  /\ s = "CLOSED" => /\ ~rio /\ ~wio /\ writers = <<>>
                     /\ connect # "started" /\ reader # "started"
  /\ parked => reader = "started" /\ buf = 0

\* The peer gets whole writes: a write reported done is on the wire entirely, no two
\* are mixed, and after a write that is cut short nothing follows, unless its user
\* dropped it half way.
StreamIsWhole ==
  /\ \A w \in Writes : tok[w] = "done" => Count(wire, w) = size[w]
  /\ \A i \in 1..(Len(wire) - 1) :
       wire[i + 1] # wire[i] =>
         /\ \A j \in (i + 1)..Len(wire) : wire[j] # wire[i]
         /\ Count(wire, wire[i]) = size[wire[i]] \/ tok[wire[i]] = "dropped"

\* A stream tells its user of the peer's end only once the user has all the peer sent.
EofIsLast == [][reader' = "ended" /\ reader # "ended" => buf = 0 /\ inbox = 0]_vars

\* As long as the peer reads, a pending write ends, and a shutdown that waits for
\* writes, or for the connection, is carried out.
ShutdownHappens ==
  /\ \A w \in Writes : tok[w] = "started" ~> tok[w] # "started"
  /\ ("SHUT_WRITE_PENDING" \in flags /\ s # "INITED") ~> "SHUT_WRITE" \in flags
=============================================================================
