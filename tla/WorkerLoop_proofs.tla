-------------------------- MODULE WorkerLoop_proofs --------------------------
(***************************************************************************)
(* Proofs about WorkerLoop, for any number of connections and every value  *)
(* of the watermark, the time-outs and the kernel's buffer.                *)
(*                                                                         *)
(* The argument: what the handlers do to one Connection keeps RecordOK;    *)
(* what the loop does to its own variables keeps the table, the event      *)
(* queue and the pending flushes pointing at connections that are open.    *)
(***************************************************************************)
EXTENDS WorkerLoop, FiniteSetTheorems, TLAPS

\* How often channelInactive was fired for a connection.
Told(r) ==
  \/ r.inactive = 0
  \/ r.inactive = 1 /\ r.closed
  \/ r.inactive = 2 /\ r.closed /\ InactiveShares

\* One Connection, by itself.
RecordOK(r) ==
  /\ r \in Connection
  /\ r.fd = "none" => r = NoConnection
  /\ r.fd = "open" => "read" \in r.interest /\ r.unregistered = 0
  /\ r.fd = "closed" => r.closed /\ r.interest = {} /\ r.unregistered = 1 /\ r.wbuf = 0
  /\ Told(r)
  /\ ~r.closed /\ ~r.ws => r.written = r.sent + r.wbuf
  /\ Overflows(r) => r.closed \/ r.ws

\* The write interest follows the write buffer.
Waits(r) == r.wbuf > 0 /\ ~r.closed => "write" \in r.interest

RecordsOK == \A c \in Conns : RecordOK(conn[c])

\* An open connection is in the table, or is the one being set up.
TableInv ==
  /\ \A c \in Conns : conn[c].fd = "open" <=> c \in table \cup starting
  /\ starting \cap table = {}
  /\ loopPc # "active" => starting = {}

\* poll() reported only connections that were set up, and onRead() calls the
\* handlers of an open one only.
QueueInv ==
  /\ loopPc \in {"events", "read"} => queue # <<>>
  /\ \A i \in DOMAIN queue : conn[queue[i]].fd # "none"
  /\ loopPc = "read" => conn[queue[1]].fd = "open"

\* Flushes are made by user code that is still running, on open connections.
CallsInv ==
  /\ \A i \in DOMAIN calls : conn[calls[i]].fd = "open"
  /\ calls # <<>> => loopPc \notin {"poll", "events", "expire"}

\* The connections onTimerTick() has still to remove are in the table, and
\* none of them was told more than once, nor closed unless the handlers of
\* another connection reached it; the one being told is in the table too.
DoomedInv ==
  /\ doomed \cup leaving \subseteq table /\ doomed \cap leaving = {}
  /\ \A c \in doomed : conn[c].inactive <= 1 /\ (~InactiveShares => ~conn[c].closed)
  /\ \A c \in leaving : conn[c].closed
  /\ loopPc \notin {"expire", "expiring"} => doomed = {}
  /\ loopPc \notin {"inactive", "expiring"} => leaving = {}
  /\ ~InactiveShares /\ loopPc = "expiring" => \A i \in DOMAIN calls : calls[i] \in leaving

\* Unsent bytes are polled for, or a flush is about to try them.
WaitInv == \A c \in Conns : (\A i \in DOMAIN calls : calls[i] # c) => Waits(conn[c])

WorkerInv ==
  TypeOK /\ RecordsOK /\ TableInv /\ QueueInv /\ CallsInv /\ DoomedInv /\ WaitInv

\* What user code does to a connection: it never reopens it, and tells it at
\* most once more, if it was not told before.
Grows(r, s) ==
  /\ r.closed => s.closed
  /\ s.inactive = r.inactive \/ s.inactive = 1

-----------------------------------------------------------------------------
(* Operations on one Connection.                                           *)

\* A Connection keeps its type: a counter, the write buffer or the interest
\* set is replaced by a value of its type.
LEMMA ConnectionTypes ==
  ASSUME NEW r \in Connection
  PROVE  /\ Closing(r) \in Connection
         /\ Removed(r) \in Connection
         /\ EnableWriting(r) \in Connection /\ DisableWriting(r) \in Connection
         /\ \A k \in Nat : Appended(r, k) \in Connection
         /\ \A k \in 0..r.wbuf : Discarded(r, k) \in Connection
<1>1. Closing(r) \in Connection
  <2>1. \A n \in Nat : [r EXCEPT !.closed = TRUE, !.inactive = n] \in Connection
    BY DEF Connection
  <2>2. r.inactive + 1 \in Nat BY DEF Connection
  <2> QED BY <2>1, <2>2 DEF Closing
<1>2. Removed(r) \in Connection
  <2>1. \A n \in Nat :
          [r EXCEPT !.unregistered = n, !.fd = "closed", !.interest = {}, !.wbuf = 0,
                    !.keepAlive = TRUE, !.readAge = 0, !.writeAge = 0] \in Connection
    BY DEF Connection
  <2>2. r.unregistered + 1 \in Nat BY DEF Connection
  <2> QED BY <2>1, <2>2 DEF Removed
<1>3. EnableWriting(r) \in Connection /\ DisableWriting(r) \in Connection
  BY DEF EnableWriting, DisableWriting, Connection
<1>4. ASSUME NEW k \in Nat PROVE Appended(r, k) \in Connection
  <2>1. \A m, n \in Nat : [r EXCEPT !.wbuf = m, !.written = n] \in Connection
    BY DEF Connection
  <2>2. r.wbuf + k \in Nat /\ r.written + k \in Nat BY DEF Connection
  <2> QED BY <2>1, <2>2 DEF Appended
<1>5. ASSUME NEW k \in 0..r.wbuf PROVE Discarded(r, k) \in Connection
  <2>1. \A m, n \in Nat : [r EXCEPT !.wbuf = m, !.sent = n] \in Connection
    BY DEF Connection
  <2>2. r.wbuf - k \in Nat /\ (IF r.ws THEN r.sent ELSE r.sent + k) \in Nat
    BY DEF Connection
  <2>3. Discarded(r, k) =
          [r EXCEPT !.wbuf = r.wbuf - k, !.sent = IF r.ws THEN r.sent ELSE r.sent + k]
    BY DEF Connection, Discarded
  <2> QED BY <2>1, <2>2, <2>3
<1> QED BY <1>1, <1>2, <1>3, <1>4, <1>5

\* Context::close() tells the handlers once.
LEMMA CloseKeeps ==
  ASSUME NEW r, RecordOK(r), r.fd = "open"
  PROVE  /\ RecordOK(ContextClose(r)) /\ ContextClose(r).closed
         /\ ContextClose(r).fd = "open" /\ Grows(r, ContextClose(r))
<1>1. CASE r.closed
  BY <1>1 DEF RecordOK, ContextClose, Grows
<1>2. CASE ~r.closed
  <2> DEFINE s == Closing(r)
  <2>1. s \in Connection
    BY ConnectionTypes DEF RecordOK
  <2>2. /\ s.fd = "open" /\ s.interest = r.interest /\ s.closed
        /\ s.inactive = r.inactive + 1 /\ s.unregistered = r.unregistered
    BY DEF RecordOK, Connection, Closing
  <2> HIDE DEF s
  <2>3. RecordOK(s)
    BY <1>2, <2>1, <2>2 DEF RecordOK, Told
  <2>4. Grows(r, s)
    BY <1>2, <2>2 DEF Grows, RecordOK, Told
  <2> QED BY <1>2, <2>2, <2>3, <2>4 DEF ContextClose, s
<1> QED BY <1>1, <1>2

\* removeConn() of a closed connection.
LEMMA RemovedKeeps ==
  ASSUME NEW r, RecordOK(r), r.fd = "open", r.closed
  PROVE  RecordOK(Removed(r)) /\ Removed(r).fd = "closed"
<1> DEFINE s == Removed(r)
<1>1. s \in Connection
  BY ConnectionTypes DEF RecordOK
<1>2. /\ s.fd = "closed" /\ s.wbuf = 0 /\ s.interest = {} /\ s.unregistered = 1
      /\ s.closed /\ s.inactive = r.inactive
  BY DEF RecordOK, Removed, Connection
<1> HIDE DEF s
<1>3. RecordOK(s)
  BY <1>1, <1>2 DEF RecordOK, Told
<1> QED BY <1>2, <1>3 DEF s

\* setClosed(true) and fireInactive(), without looking at closed_.
LEMMA InactiveKeeps ==
  ASSUME NEW r, RecordOK(r), r.fd = "open",
         r.closed => InactiveShares /\ r.inactive <= 1
  PROVE  /\ RecordOK(Closing(r)) /\ Closing(r).fd = "open" /\ Closing(r).closed
         /\ Waits(Closing(r))
<1> DEFINE s == Closing(r)
<1>1. s \in Connection /\ r.inactive \in Nat
  BY ConnectionTypes DEF RecordOK, Connection
<1>2. /\ s.fd = "open" /\ s.interest = r.interest /\ s.closed
      /\ s.inactive = r.inactive + 1 /\ s.unregistered = r.unregistered
  BY DEF RecordOK, Connection, Closing
<1> HIDE DEF s
<1>3. Told(s)
  BY <1>1, <1>2 DEF RecordOK, Told
<1>4. RecordOK(s) /\ Waits(s)
  BY <1>1, <1>2, <1>3 DEF RecordOK, Waits
<1> QED BY <1>2, <1>4 DEF s

\* A connection that was set up and is not marked closed has its descriptor.
LEMMA NotClosedIsOpen ==
  ASSUME NEW r, RecordOK(r), r.fd # "none", ~r.closed
  PROVE  r.fd = "open"
  BY DEF RecordOK, Connection

\* Two connections that differ in their ages and the keep-alive flag only.
SameButAges(r, s) ==
  /\ s \in Connection
  /\ s.fd = r.fd /\ s.interest = r.interest /\ s.closed = r.closed /\ s.ws = r.ws
  /\ s.inactive = r.inactive /\ s.unregistered = r.unregistered
  /\ s.written = r.written /\ s.sent = r.sent /\ s.wbuf = r.wbuf

\* setLastReadMs(), setLastWriteMs() and setConnKeepAlive().
LEMMA AgesAlone ==
  ASSUME NEW r \in Connection, NEW a \in Nat, NEW b \in Nat, NEW k \in BOOLEAN
  PROVE  /\ SameButAges(r, [r EXCEPT !.keepAlive = k, !.readAge = a])
         /\ SameButAges(r, [r EXCEPT !.readAge = a])
         /\ SameButAges(r, [r EXCEPT !.writeAge = b])
         /\ SameButAges(r, [r EXCEPT !.readAge = a, !.writeAge = b])
  BY DEF SameButAges, Connection

\* Ages and keep-alive flag matter to none of the invariants.
LEMMA AgeKeeps ==
  ASSUME NEW r, RecordOK(r), r.fd = "open", NEW s, SameButAges(r, s)
  PROVE  RecordOK(s) /\ Grows(r, s)
  BY DEF RecordOK, SameButAges, Overflows, Told, Grows

\* What fireWrite() leaves of a connection once the bytes are appended.
Checked(s) == IF Overflows(s) THEN ContextClose(s) ELSE s

\* The test for the watermark: a buffer beyond it closes the connection.
LEMMA CheckedKeeps ==
  ASSUME NEW s \in Connection, s.fd = "open", "read" \in s.interest, s.unregistered = 0,
         Told(s),
         ~s.closed /\ ~s.ws => s.written = s.sent + s.wbuf
  PROVE  RecordOK(Checked(s)) /\ Checked(s).fd = "open" /\ Grows(s, Checked(s))
<1>1. CASE ~Overflows(s)
  BY <1>1 DEF RecordOK, Checked, Grows
<1>2. CASE Overflows(s) /\ s.closed
  BY <1>2 DEF RecordOK, Checked, ContextClose, Grows
<1>3. CASE Overflows(s) /\ ~s.closed
  <2> DEFINE t == Closing(s)
  <2>1. t \in Connection
    BY ConnectionTypes
  <2>2. /\ t.fd = "open" /\ t.interest = s.interest /\ t.closed
        /\ t.inactive = s.inactive + 1 /\ t.unregistered = s.unregistered
    BY DEF Closing, Connection
  <2>3. t = Checked(s)
    BY <1>3 DEF Checked, ContextClose
  <2> HIDE DEF t
  <2>4. RecordOK(t)
    BY <1>3, <2>1, <2>2 DEF RecordOK, Told
  <2>5. Grows(s, t)
    BY <1>3, <2>2 DEF Grows, Told
  <2> QED BY <2>2, <2>3, <2>4, <2>5
<1> QED BY <1>1, <1>2, <1>3

\* fireWrite() of k bytes, by writeAndFlush() and, with the connection's
\* protocol changed, by the upgrade.
LEMMA WriteKeeps ==
  ASSUME NEW r, RecordOK(r), r.fd = "open", NEW k \in Nat,
         NEW s \in {Appended(r, k),
                   [Appended(r, k) EXCEPT !.keepAlive = TRUE, !.ws = TRUE,
                                          !.written = 0, !.sent = 0]}
  PROVE  RecordOK(Checked(s)) /\ Checked(s).fd = "open" /\ Grows(r, Checked(s))
<1> DEFINE q == Appended(r, k)
<1>1. q \in Connection
  BY ConnectionTypes DEF RecordOK
<1>2. /\ q.fd = "open" /\ q.interest = r.interest /\ q.closed = r.closed
      /\ q.inactive = r.inactive /\ q.unregistered = r.unregistered /\ q.ws = r.ws
      /\ q.written = r.written + k /\ q.sent = r.sent /\ q.wbuf = r.wbuf + k
  BY DEF RecordOK, Connection, Appended
<1>3. r.sent \in Nat /\ r.wbuf \in Nat /\ r.written \in Nat
  BY DEF RecordOK, Connection
<1>4. s \in {q, [q EXCEPT !.keepAlive = TRUE, !.ws = TRUE, !.written = 0, !.sent = 0]}
  OBVIOUS
<1> HIDE DEF q
<1>5. s \in Connection
  <2>1. [q EXCEPT !.keepAlive = TRUE, !.ws = TRUE, !.written = 0, !.sent = 0] \in Connection
    BY <1>1 DEF Connection
  <2> QED BY <1>1, <1>4, <2>1
<1>6. /\ s.fd = q.fd /\ s.interest = q.interest /\ s.closed = q.closed
      /\ s.inactive = q.inactive /\ s.unregistered = q.unregistered
      /\ s.ws \/ (s.ws = q.ws /\ s.written = q.written /\ s.sent = q.sent)
      /\ s.wbuf = q.wbuf
  <2>1. CASE s = q
    BY <2>1
  <2>2. CASE s = [q EXCEPT !.keepAlive = TRUE, !.ws = TRUE, !.written = 0, !.sent = 0]
    BY <1>1, <2>2 DEF Connection
  <2> QED BY <1>4, <2>1, <2>2
<1>7. ~s.closed /\ ~s.ws => s.written = s.sent + s.wbuf
  BY <1>2, <1>3, <1>6 DEF RecordOK
<1>8. /\ "read" \in s.interest /\ s.unregistered = 0 /\ s.fd = "open"
      /\ Told(s) /\ s.closed = r.closed /\ s.inactive = r.inactive
  BY <1>2, <1>6 DEF RecordOK, Told
<1>9. RecordOK(Checked(s)) /\ Checked(s).fd = "open" /\ Grows(s, Checked(s))
  BY <1>5, <1>7, <1>8, CheckedKeeps
<1> QED BY <1>8, <1>9 DEF Grows

\* A write of part or all of the buffer.
LEMMA DiscardKeeps ==
  ASSUME NEW r, RecordOK(r), r.fd = "open", NEW k \in 0..r.wbuf
  PROVE  LET s == Discarded(r, k)
         IN  /\ RecordOK(s) /\ s.fd = "open" /\ s.interest = r.interest
             /\ s.closed = r.closed /\ s.wbuf = r.wbuf - k /\ s.inactive = r.inactive
<1> DEFINE s == Discarded(r, k)
<1>1. s \in Connection
  BY ConnectionTypes DEF RecordOK
<1>2. /\ s.fd = "open" /\ s.interest = r.interest /\ s.closed = r.closed
      /\ s.inactive = r.inactive /\ s.unregistered = r.unregistered /\ s.ws = r.ws
      /\ s.written = r.written /\ s.wbuf = r.wbuf - k
      /\ ~r.ws => s.sent = r.sent + k
  BY DEF RecordOK, Connection, Discarded
<1>3. r.sent \in Nat /\ r.wbuf \in Nat /\ r.written \in Nat
  BY DEF RecordOK, Connection
<1> HIDE DEF s
<1>4. ~s.closed /\ ~s.ws => s.written = s.sent + s.wbuf
  BY <1>2, <1>3 DEF RecordOK
<1>5. Overflows(s) => Overflows(r)
  BY <1>2, <1>3, LimitsAssumption DEF Overflows
<1>6. RecordOK(s)
  BY <1>1, <1>2, <1>4, <1>5 DEF RecordOK, Told
<1> QED BY <1>2, <1>6 DEF s

\* enableWriting() and disableWriting() leave the rest of a connection alone.
LEMMA InterestKeeps ==
  ASSUME NEW r, RecordOK(r), r.fd = "open",
         NEW s \in {EnableWriting(r), DisableWriting(r)}
  PROVE  /\ RecordOK(s) /\ s.fd = "open" /\ s.closed = r.closed /\ s.wbuf = r.wbuf
         /\ s.inactive = r.inactive
         /\ s = EnableWriting(r) => "write" \in s.interest
<1>1. s \in Connection
  BY ConnectionTypes DEF RecordOK
<1>2. /\ s.fd = "open" /\ s.closed = r.closed
      /\ s.inactive = r.inactive /\ s.unregistered = r.unregistered /\ s.ws = r.ws
      /\ s.written = r.written /\ s.sent = r.sent /\ s.wbuf = r.wbuf
  BY DEF RecordOK, Connection, EnableWriting, DisableWriting
<1>3. "read" \in r.interest => "read" \in s.interest
  BY DEF RecordOK, Connection, EnableWriting, DisableWriting
<1>4. s = EnableWriting(r) => "write" \in s.interest
  BY DEF RecordOK, Connection, EnableWriting
<1> QED BY <1>1, <1>2, <1>3, <1>4 DEF RecordOK, Overflows, Told

\* setClosed(true) without fireInactive(), as flushWriteBuf() and onWrite() do.
LEMMA MarkKeeps ==
  ASSUME NEW r, RecordOK(r), r.fd = "open", NEW b \in BOOLEAN, r.closed => b
  PROVE  LET s == [r EXCEPT !.closed = b]
         IN  /\ RecordOK(s) /\ s.fd = "open" /\ s.closed = b /\ s.wbuf = r.wbuf
             /\ s.interest = r.interest /\ s.inactive = r.inactive
<1> DEFINE s == [r EXCEPT !.closed = b]
<1>1. s \in Connection
  BY DEF RecordOK, Connection
<1>2. /\ s.fd = "open" /\ s.interest = r.interest /\ s.closed = b
      /\ s.inactive = r.inactive /\ s.unregistered = r.unregistered /\ s.ws = r.ws
      /\ s.written = r.written /\ s.sent = r.sent /\ s.wbuf = r.wbuf
  BY DEF RecordOK, Connection
<1> HIDE DEF s
<1>3. RecordOK(s)
  BY <1>1, <1>2 DEF RecordOK, Overflows, Told
<1> QED BY <1>2, <1>3 DEF s

\* WebSocketCodec::write(): the buffer is replaced by the frame.
LEMMA FrameKeeps ==
  ASSUME NEW r, RecordOK(r), r.fd = "open", r.ws, NEW k \in Nat
  PROVE  LET s == [r EXCEPT !.wbuf = k]
         IN  RecordOK(s) /\ s.fd = "open" /\ Grows(r, s)
<1> DEFINE s == [r EXCEPT !.wbuf = k]
<1>1. s \in Connection
  BY DEF RecordOK, Connection
<1>2. /\ s.fd = "open" /\ s.interest = r.interest /\ s.closed = r.closed
      /\ s.inactive = r.inactive /\ s.unregistered = r.unregistered /\ s.ws = r.ws
  BY DEF RecordOK, Connection
<1> HIDE DEF s
<1>3. RecordOK(s) /\ Grows(r, s)
  BY <1>1, <1>2 DEF RecordOK, Told, Grows
<1> QED BY <1>2, <1>3 DEF s

-----------------------------------------------------------------------------
(* Steps that change one open connection.                                  *)

\* The connection stays open and owned, or is closed and leaves the table.
LEMMA OneConnection ==
  ASSUME WorkerInv, NEW c \in Conns, NEW s, RecordOK(s), conn[c].fd = "open",
         conn' = [conn EXCEPT ![c] = s],
         \/ s.fd = "open" /\ table' = table
         \/ s.fd = "closed" /\ table' = table \ {c} /\ loopPc # "active",
         starting' = starting,
         loopPc' = "active" <=> loopPc = "active"
  PROVE  /\ conn' \in [Conns -> Connection] /\ table' \in SUBSET Conns
         /\ RecordsOK' /\ TableInv'
         /\ \A d \in Conns : conn'[d].fd = "none" <=> conn[d].fd = "none"
<1>1. \A d \in Conns : conn'[d] = IF d = c THEN s ELSE conn[d]
  BY DEF WorkerInv, TypeOK
<1>2. s \in Connection
  BY DEF RecordOK
<1>3. conn' \in [Conns -> Connection] /\ table' \in SUBSET Conns
  BY <1>2 DEF WorkerInv, TypeOK
<1>4. RecordsOK'
  BY <1>1 DEF WorkerInv, RecordsOK, RecordOK, Overflows, Told
<1>5. TableInv'
  BY <1>1 DEF WorkerInv, TableInv
<1>6. \A d \in Conns : conn'[d].fd = "none" <=> conn[d].fd = "none"
  BY <1>1
<1> QED BY <1>3, <1>4, <1>5, <1>6

\* User code, and the flushes it causes.
LEMMA UserKeeps ==
  ASSUME WorkerInv, NEW c \in Conns, NEW s, RecordOK(s), conn[c].fd = "open",
         conn' = [conn EXCEPT ![c] = s], s.fd = "open", Grows(conn[c], s),
         UNCHANGED <<table, loopVars, due>>,
         net' \in [Conns -> [peer : {"up", "fin", "reset"}, in : BOOLEAN, out : 0..SockBuf]],
         calls' \in Seq(Conns),
         \A i \in DOMAIN calls' : calls'[i] = c \/ \E j \in DOMAIN calls : calls'[i] = calls[j],
         calls' # <<>> => loopPc \notin {"poll", "events", "expire"},
         loopPc # "expire", loopPc = "expiring" /\ ~InactiveShares => c \in leaving,
         (\A i \in DOMAIN calls' : calls'[i] # c) => Waits(s),
         \A d \in Conns \ {c} :
           (\A i \in DOMAIN calls' : calls'[i] # d) => (\A i \in DOMAIN calls : calls[i] # d)
  PROVE  WorkerInv'
<1>1. /\ conn' \in [Conns -> Connection] /\ RecordsOK' /\ TableInv'
      /\ \A d \in Conns : conn'[d].fd = "none" <=> conn[d].fd = "none"
  BY OneConnection DEF loopVars
<1>2. \A d \in Conns : conn'[d] = IF d = c THEN s ELSE conn[d]
  BY DEF WorkerInv, TypeOK
<1>3. TypeOK'
  BY <1>1 DEF WorkerInv, TypeOK, loopVars
<1>4. QueueInv'
  <2>1. \A i \in DOMAIN queue : queue[i] \in Conns
    BY DEF WorkerInv, TypeOK
  <2>2. queue # <<>> => 1 \in DOMAIN queue
    BY DEF WorkerInv, TypeOK
  <2> QED BY <1>2, <2>1, <2>2 DEF WorkerInv, QueueInv, loopVars
<1>5. CallsInv'
  <2>1. \A i \in DOMAIN calls : calls[i] \in Conns
    BY DEF WorkerInv, TypeOK
  <2> QED BY <1>2, <2>1 DEF WorkerInv, CallsInv, loopVars
<1>6. WaitInv'
  BY <1>2 DEF WorkerInv, WaitInv
<1>7. DoomedInv'
  <2>1. UNCHANGED <<table, loopPc, leaving, doomed>>
    BY DEF loopVars
  <2>2. \A d \in doomed : conn'[d].inactive <= 1 /\ (~InactiveShares => ~conn'[d].closed)
    BY <1>2 DEF WorkerInv, DoomedInv, TypeOK, Grows
  <2>3. \A d \in leaving : conn'[d].closed
    BY <1>2 DEF WorkerInv, DoomedInv, TypeOK, Grows
  <2>4. ~InactiveShares /\ loopPc = "expiring" => \A i \in DOMAIN calls' : calls'[i] \in leaving
    BY DEF WorkerInv, DoomedInv
  <2> QED BY <2>1, <2>2, <2>3, <2>4 DEF WorkerInv, DoomedInv
<1> QED BY <1>1, <1>3, <1>4, <1>5, <1>6, <1>7 DEF WorkerInv

\* User code that writes: its flushes are still to be made.
LEMMA WritesKeep ==
  ASSUME WorkerInv, NEW c \in Conns, NEW s, RecordOK(s), conn[c].fd = "open",
         conn' = [conn EXCEPT ![c] = s], s.fd = "open", Grows(conn[c], s),
         loopPc # "expire", loopPc = "expiring" /\ ~InactiveShares => c \in leaving,
         UNCHANGED <<table, net, loopVars, due>>,
         calls = <<>>, calls' \in {<<c>>, <<c, c>>}, loopPc \notin {"poll", "events"}
  PROVE  WorkerInv'
<1>1. net' \in [Conns -> [peer : {"up", "fin", "reset"}, in : BOOLEAN, out : 0..SockBuf]]
  BY DEF WorkerInv, TypeOK
<1>2. calls' \in Seq(Conns) /\ \A i \in DOMAIN calls' : calls'[i] = c
  <2>1. CASE calls' = <<c>> BY <2>1
  <2>2. CASE calls' = <<c, c>> BY <2>2
  <2> QED BY <2>1, <2>2
<1>3. ~ \A i \in DOMAIN calls' : calls'[i] # c
  <2>1. 1 \in DOMAIN calls' OBVIOUS
  <2> QED BY <1>2, <2>1
<1>4. DOMAIN calls = {}
  OBVIOUS
<1> QED BY <1>1, <1>2, <1>3, <1>4, UserKeeps

\* User code that does not write.
LEMMA QuietKeeps ==
  ASSUME WorkerInv, NEW c \in Conns, NEW s, RecordOK(s), conn[c].fd = "open", Waits(s),
         conn' = [conn EXCEPT ![c] = s], s.fd = "open", Grows(conn[c], s),
         loopPc # "expire", loopPc = "expiring" /\ ~InactiveShares => c \in leaving,
         UNCHANGED <<table, net, loopVars, due>>,
         calls = <<>>, calls' = <<>>
  PROVE  WorkerInv'
<1>1. net' \in [Conns -> [peer : {"up", "fin", "reset"}, in : BOOLEAN, out : 0..SockBuf]]
  BY DEF WorkerInv, TypeOK
<1>2. calls' \in Seq(Conns) /\ DOMAIN calls' = {} /\ DOMAIN calls = {}
  OBVIOUS
<1> QED BY <1>1, <1>2, UserKeeps

\* handleEvent() and loop() go on to the next bit or channel.
LEMMA TakenKeeps ==
  ASSUME WorkerInv, NEW c \in Conns, NEW event, EventTaken(c, event),
         loopPc \in {"events", "read"}, loopPc' \in {AfterEvent(queue'), "inactive"},
         \A d \in Conns : conn'[d].fd = "none" <=> conn[d].fd = "none"
  PROVE  /\ QueueInv' /\ queue' \in Seq(Conns) /\ starting' = starting /\ doomed' = {}
         /\ revents' \in [Conns -> SUBSET {"read", "write", "error"}]
         /\ loopPc' \in {"events", "timer", "inactive"} /\ leaving = {}
<1>1. queue \in Seq(Conns) /\ queue # <<>>
  BY DEF WorkerInv, TypeOK, QueueInv
<1>2. queue' \in Seq(Conns)
  BY <1>1 DEF EventTaken
<1>3. \A i \in DOMAIN queue' : \E j \in DOMAIN queue : queue'[i] = queue[j]
  <2>1. CASE queue' = queue
    BY <2>1
  <2>2. CASE queue' = Tail(queue)
    <3>1. \A i \in DOMAIN queue' : i + 1 \in DOMAIN queue /\ queue'[i] = queue[i + 1]
      BY <1>1, <2>2
    <3> QED BY <3>1
  <2> QED BY <2>1, <2>2 DEF EventTaken
<1>4. \A i \in DOMAIN queue : queue[i] \in Conns
  BY <1>1
<1>5. \A i \in DOMAIN queue' : conn'[queue'[i]].fd # "none"
  BY <1>3, <1>4 DEF WorkerInv, QueueInv
<1>6. revents' \in [Conns -> SUBSET {"read", "write", "error"}]
  BY DEF EventTaken, WorkerInv, TypeOK
<1>7. loopPc' \in {"events", "timer", "inactive"} /\ (loopPc' = "events" => queue' # <<>>)
  BY DEF AfterEvent
<1>8. doomed' = {} /\ leaving = {} /\ starting' = starting
  BY DEF EventTaken, WorkerInv, DoomedInv
<1> QED BY <1>2, <1>5, <1>6, <1>7, <1>8 DEF QueueInv

\* One bit of handleEvent() that changes one connection.
LEMMA EventKeeps ==
  ASSUME WorkerInv, NEW c \in Conns, NEW event, EventTaken(c, event),
         loopPc \in {"events", "read"}, calls = <<>>, UNCHANGED <<calls, due>>,
         NEW s, RecordOK(s), Waits(s), conn[c].fd = "open", conn' = [conn EXCEPT ![c] = s],
         \/ /\ loopPc' = AfterEvent(queue') /\ leaving' = leaving
            /\ \/ s.fd = "open" /\ table' = table
               \/ s.fd = "closed" /\ table' = table \ {c}
         \/ loopPc' = "inactive" /\ leaving' = {c} /\ s.closed /\ s.fd = "open" /\ table' = table,
         net' \in [Conns -> [peer : {"up", "fin", "reset"}, in : BOOLEAN, out : 0..SockBuf]]
  PROVE  WorkerInv'
<1>1. /\ loopPc' # "active" /\ loopPc # "active" /\ starting' = starting
      /\ loopPc' \in {AfterEvent(queue'), "inactive"}
  BY DEF EventTaken, AfterEvent
<1>2. /\ conn' \in [Conns -> Connection] /\ table' \in SUBSET Conns /\ RecordsOK' /\ TableInv'
      /\ \A d \in Conns : conn'[d].fd = "none" <=> conn[d].fd = "none"
  BY <1>1, OneConnection
<1>3. /\ QueueInv' /\ queue' \in Seq(Conns) /\ loopPc' \in {"events", "timer", "inactive"}
      /\ revents' \in [Conns -> SUBSET {"read", "write", "error"}]
      /\ doomed' = {} /\ leaving = {}
  BY <1>1, <1>2, TakenKeeps
<1>4. TypeOK'
  BY <1>1, <1>2, <1>3 DEF WorkerInv, TypeOK
<1>5. CallsInv'
  BY DEF CallsInv
<1>6. \A d \in Conns : conn'[d] = IF d = c THEN s ELSE conn[d]
  BY DEF WorkerInv, TypeOK
<1>7. WaitInv'
  BY <1>6 DEF WorkerInv, WaitInv
<1>8. DoomedInv'
  <2>1. CASE loopPc' = "inactive" /\ leaving' = {c} /\ s.closed /\ table' = table
    <3>1. c \in table
      BY DEF WorkerInv, TableInv
    <3> QED BY <1>3, <1>6, <2>1, <3>1 DEF DoomedInv
  <2>2. CASE loopPc' = AfterEvent(queue') /\ leaving' = {}
    <3>1. loopPc' # "inactive"
      BY <2>2 DEF AfterEvent
    <3> QED BY <1>3, <2>2, <3>1 DEF DoomedInv
  <2> QED BY <1>3, <2>1, <2>2
<1> QED BY <1>2, <1>3, <1>4, <1>5, <1>7, <1>8 DEF WorkerInv

\* One bit of handleEvent() that changes nothing.
LEMMA EventIgnored ==
  ASSUME WorkerInv, NEW c \in Conns, NEW event, Handled(c, event),
         loopPc \in {"events", "read"}, calls = <<>>, UNCHANGED <<conn, table, net, calls, due>>
  PROVE  WorkerInv'
<1>1. EventTaken(c, event) /\ loopPc' = AfterEvent(queue') /\ leaving' = leaving
  BY DEF Handled
<1>2. /\ QueueInv' /\ queue' \in Seq(Conns) /\ loopPc' \in {"events", "timer"}
      /\ revents' \in [Conns -> SUBSET {"read", "write", "error"}] /\ starting' = starting
      /\ doomed' = {} /\ leaving' = {}
  <2>1. loopPc' # "inactive"
    BY <1>1 DEF AfterEvent
  <2> QED BY <1>1, <2>1, TakenKeeps
<1>3. TypeOK'
  BY <1>2 DEF WorkerInv, TypeOK
<1>4. RecordsOK' /\ TableInv' /\ CallsInv' /\ WaitInv'
  BY <1>2 DEF WorkerInv, RecordsOK, RecordOK, Overflows, Told, TableInv, CallsInv, WaitInv, Waits
<1>5. DoomedInv'
  BY <1>2 DEF DoomedInv
<1> QED BY <1>2, <1>3, <1>4, <1>5 DEF WorkerInv

-----------------------------------------------------------------------------
(* The actions.                                                            *)

\* A worker starts with no connection.
LEMMA WorkerInit == Init => WorkerInv
<1> SUFFICES ASSUME Init PROVE WorkerInv OBVIOUS
<1>1. NoConnection \in Connection
  BY DEF NoConnection, Connection
<1>2. RecordOK(NoConnection)
  BY <1>1, LimitsAssumption DEF RecordOK, NoConnection, Overflows, Told
<1>3. TypeOK
  <2>1. conn \in [Conns -> Connection]
    BY <1>1 DEF Init
  <2>2. net \in [Conns -> [peer : {"up", "fin", "reset"}, in : BOOLEAN, out : 0..SockBuf]]
    BY LimitsAssumption DEF Init
  <2>3. revents \in [Conns -> SUBSET {"read", "write", "error"}]
    BY DEF Init
  <2>4. /\ table \in SUBSET Conns /\ starting \in SUBSET Conns
        /\ leaving \in SUBSET Conns /\ doomed \in SUBSET Conns
        /\ queue \in Seq(Conns) /\ calls \in Seq(Conns)
    BY DEF Init
  <2>5. loopPc = "poll" /\ due = FALSE
    BY DEF Init
  <2> QED BY <2>1, <2>2, <2>3, <2>4, <2>5 DEF TypeOK
<1>4. \A c \in Conns : conn[c] = NoConnection
  BY DEF Init
<1>5. RecordsOK
  BY <1>2, <1>4 DEF RecordsOK
<1>6. TableInv /\ QueueInv /\ CallsInv /\ DoomedInv /\ WaitInv
  BY <1>4 DEF Init, DoomedInv, TableInv, QueueInv, CallsInv, WaitInv, Waits, NoConnection
<1> QED BY <1>3, <1>5, <1>6 DEF WorkerInv

\* What the handlers, tasks and timer callbacks do to a connection.
LEMMA UserSteps ==
  ASSUME WorkerInv, NEW c \in Conns, UserStep(c)
  PROVE  WorkerInv'
<1> USE DEF UserStep
<1>1. RecordOK(conn[c])
  BY DEF WorkerInv, RecordsOK
<1>2. UserCodeRuns => loopPc \notin {"poll", "events", "expire"}
  BY DEF UserCodeRuns
<1>3. Reachable(c) =>
        /\ conn[c].fd = "open"
        /\ loopPc = "expiring" /\ ~InactiveShares => c \in leaving
  BY DEF WorkerInv, TableInv, Reachable
<1>4. loopPc = "read" /\ c = Head(queue) => conn[c].fd = "open"
  BY DEF WorkerInv, QueueInv
<1>6. calls = <<>> => Waits(conn[c])
  BY DEF WorkerInv, WaitInv
<1>7. Sizes \subseteq Nat
  BY SizesAssumption
<1>8. conn \in [Conns -> Connection]
  BY DEF WorkerInv, TypeOK
<1>9. CASE \E keepAlive \in BOOLEAN : Request(c, keepAlive)
  <2> PICK k \in BOOLEAN : Request(c, k)
    BY <1>9
  <2> DEFINE s == [conn[c] EXCEPT !.keepAlive = k, !.readAge = 0]
  <2>1. conn[c].fd = "open" /\ calls = <<>> /\ calls' = <<>> /\ loopPc = "read"
    BY <1>4 DEF Request
  <2>2. SameButAges(conn[c], s)
    BY <1>8, AgesAlone
  <2>3. RecordOK(s) /\ Grows(conn[c], s)
    BY <1>1, <2>1, <2>2, AgeKeeps
  <2>4. conn' = [conn EXCEPT ![c] = s]
    BY <1>8 DEF Request
  <2> HIDE DEF s
  <2>5. Waits(s)
    BY <1>6, <2>1, <2>2 DEF Waits, SameButAges
  <2>6. s.fd = "open"
    BY <2>1, <2>2 DEF SameButAges
  <2> QED BY <2>1, <2>3, <2>4, <2>5, <2>6, QuietKeeps DEF Request
<1>10. ASSUME NEW k \in Sizes, WriteAndFlush(c, k) PROVE WorkerInv'
  <2> DEFINE s == Appended(conn[c], k)
  <2>1. conn[c].fd = "open" /\ loopPc \notin {"poll", "events", "expire"} /\ calls = <<>>
        /\ (loopPc = "expiring" /\ ~InactiveShares => c \in leaving)
    BY <1>2, <1>3, <1>10 DEF WriteAndFlush, UserCodeRuns
  <2>2. RecordOK(Checked(s)) /\ Checked(s).fd = "open" /\ Grows(conn[c], Checked(s))
    BY <1>1, <1>7, <2>1, WriteKeeps
  <2>3. conn' = [conn EXCEPT ![c] = Checked(s)] /\ calls' \in {<<c>>, <<c, c>>}
    BY <1>10 DEF WriteAndFlush, WriteChecked, Checked
  <2> HIDE DEF s
  <2> QED BY <1>10, <2>1, <2>2, <2>3, WritesKeep DEF WriteAndFlush
<1>11. ASSUME NEW k \in Sizes, Upgrade(c, k) PROVE WorkerInv'
  <2> DEFINE s == [Appended(conn[c], k) EXCEPT !.keepAlive = TRUE, !.ws = TRUE,
                                               !.written = 0, !.sent = 0]
  <2>1. conn[c].fd = "open" /\ loopPc = "read" /\ calls = <<>>
    BY <1>4, <1>11 DEF Upgrade
  <2>2. RecordOK(Checked(s)) /\ Checked(s).fd = "open" /\ Grows(conn[c], Checked(s))
    BY <1>1, <1>7, <2>1, WriteKeeps
  <2>3. conn' = [conn EXCEPT ![c] = Checked(s)] /\ calls' \in {<<c>>, <<c, c>>}
    BY <1>11 DEF Upgrade, WriteChecked, Checked
  <2> HIDE DEF s
  <2> QED BY <1>11, <2>1, <2>2, <2>3, WritesKeep DEF Upgrade
<1>12. ASSUME NEW k \in Sizes, WriteFrame(c, k) PROVE WorkerInv'
  <2> DEFINE s == [conn[c] EXCEPT !.wbuf = k]
  <2>1. conn[c].fd = "open" /\ loopPc \notin {"poll", "events", "expire"} /\ calls = <<>>
        /\ (loopPc = "expiring" /\ ~InactiveShares => c \in leaving) /\ conn[c].ws
    BY <1>2, <1>3, <1>12 DEF WriteFrame, UserCodeRuns
  <2>2. RecordOK(s) /\ s.fd = "open" /\ Grows(conn[c], s)
    BY <1>1, <1>7, <2>1, FrameKeeps
  <2>3. conn' = [conn EXCEPT ![c] = s] /\ calls' = <<c>>
    BY <1>8, <1>12 DEF WriteFrame
  <2> HIDE DEF s
  <2> QED BY <1>12, <2>1, <2>2, <2>3, WritesKeep DEF WriteFrame
<1>13. CASE Close(c)
  <2> DEFINE s == ContextClose(conn[c])
  <2>1. /\ conn[c].fd = "open" /\ calls = <<>> /\ calls' = <<>> /\ loopPc # "expire"
        /\ (loopPc = "expiring" /\ ~InactiveShares => c \in leaving)
    BY <1>2, <1>3, <1>13 DEF Close, UserCodeRuns
  <2>2. RecordOK(s) /\ s.fd = "open" /\ s.closed /\ Grows(conn[c], s)
    BY <1>1, <2>1, CloseKeeps
  <2>3. conn' = [conn EXCEPT ![c] = s]
    BY <1>13 DEF Close
  <2> HIDE DEF s
  <2>4. Waits(s)
    BY <2>2 DEF Waits
  <2> QED BY <1>13, <2>1, <2>2, <2>3, <2>4, QuietKeeps DEF Close
<1>14. CASE Flush(c)
  <2> DEFINE s == conn[c]
  <2>1. /\ s.fd = "open" /\ calls = <<>> /\ loopPc \notin {"poll", "events", "expire"}
        /\ (loopPc = "expiring" /\ ~InactiveShares => c \in leaving)
    BY <1>2, <1>3, <1>14 DEF Flush, UserCodeRuns
  <2>2. RecordOK(s) /\ Grows(conn[c], s)
    BY <1>1 DEF Grows
  <2>3. conn' = [conn EXCEPT ![c] = s] /\ calls' = <<c>>
    BY <1>8, <1>14 DEF Flush
  <2> QED BY <1>14, <2>1, <2>2, <2>3, WritesKeep DEF Flush
<1> QED BY <1>9, <1>10, <1>11, <1>12, <1>13, <1>14

\* writev() takes no more than there is and no more than fits.
LEMMA TakenFits ==
  ASSUME TypeOK, NEW c \in Conns
  PROVE  /\ Taken(c) \in 0..conn[c].wbuf
         /\ net[c].out + Taken(c) \in 0..SockBuf
         /\ [net EXCEPT ![c].out = @ + Taken(c)] \in
              [Conns -> [peer : {"up", "fin", "reset"}, in : BOOLEAN, out : 0..SockBuf]]
<1>1. conn[c].wbuf \in Nat /\ net[c].out \in 0..SockBuf /\ SockBuf \in Nat
  BY LimitsAssumption DEF TypeOK, Connection
<1>2. Taken(c) \in 0..conn[c].wbuf /\ net[c].out + Taken(c) \in 0..SockBuf
  BY <1>1 DEF Taken
<1>3. \A n \in 0..SockBuf :
        [net EXCEPT ![c].out = n] \in
          [Conns -> [peer : {"up", "fin", "reset"}, in : BOOLEAN, out : 0..SockBuf]]
  BY DEF TypeOK
<1> QED BY <1>2, <1>3

\* flushWriteBuf() keeps an open connection open, and leaves it with the write
\* interest if bytes remain.
LEMMA FlushStep == WorkerInv /\ FlushWriteBuf => WorkerInv'
<1> SUFFICES ASSUME WorkerInv, FlushWriteBuf PROVE WorkerInv' OBVIOUS
<1> DEFINE c == Head(calls)
           r == [conn[c] EXCEPT !.writeAge = 0]
           n == Taken(c)
           w == Discarded(r, n)
           v == IF w.wbuf > 0 THEN EnableWriting(w) ELSE w
           s == IF r.wbuf = 0 THEN r
                ELSE IF net[c].peer = "reset" THEN [r EXCEPT !.closed = TRUE]
                ELSE IF n = 0 THEN EnableWriting(r)
                ELSE [v EXCEPT !.closed = @ \/ ~r.keepAlive]
<1>1. /\ conn' = [conn EXCEPT ![c] = s]
      /\ net' = [net EXCEPT ![c].out = IF net[c].peer # "reset" THEN @ + n ELSE @]
      /\ calls # <<>> /\ calls' = Tail(calls)
  BY DEF FlushWriteBuf
<1>2. calls \in Seq(Conns) /\ c \in Conns /\ 1 \in DOMAIN calls /\ c = calls[1]
  BY <1>1 DEF WorkerInv, TypeOK
<1>3. /\ conn[c].fd = "open" /\ loopPc \notin {"poll", "events", "expire"}
      /\ loopPc = "expiring" /\ ~InactiveShares => c \in leaving
  BY <1>1, <1>2 DEF WorkerInv, CallsInv, DoomedInv
<1>4. RecordOK(conn[c]) /\ conn[c] \in Connection
  BY <1>2 DEF WorkerInv, RecordsOK, RecordOK
<1>5. SameButAges(conn[c], r)
  BY <1>4, AgesAlone
<1>6. RecordOK(r) /\ r.fd = "open" /\ r.wbuf = conn[c].wbuf /\ r.wbuf \in Nat
      /\ r.closed \in BOOLEAN /\ r.keepAlive \in BOOLEAN
      /\ r.closed = conn[c].closed /\ r.inactive = conn[c].inactive
  <2>1. RecordOK(r)
    BY <1>3, <1>4, <1>5, AgeKeeps
  <2>2. /\ r.fd = "open" /\ r.wbuf = conn[c].wbuf /\ r \in Connection
        /\ r.closed = conn[c].closed /\ r.inactive = conn[c].inactive
    BY <1>3, <1>5 DEF SameButAges
  <2> HIDE DEF r
  <2> QED BY <2>1, <2>2 DEF Connection
<1>7. /\ n \in 0..r.wbuf
      /\ net' \in [Conns -> [peer : {"up", "fin", "reset"}, in : BOOLEAN, out : 0..SockBuf]]
  <2>1. n \in 0..r.wbuf
    BY <1>2, <1>6, TakenFits DEF WorkerInv
  <2>2. CASE net[c].peer # "reset"
    <3>1. net' = [net EXCEPT ![c].out = @ + Taken(c)]
      BY <1>1, <1>2, <2>2 DEF WorkerInv, TypeOK
    <3> QED BY <1>2, <2>1, <3>1, TakenFits DEF WorkerInv
  <2>3. CASE net[c].peer = "reset"
    <3>1. net' = [net EXCEPT ![c].out = @]
      BY <1>1, <2>3
    <3> QED BY <1>2, <2>1, <3>1 DEF WorkerInv, TypeOK
  <2> QED BY <2>2, <2>3, <2>1
<1> HIDE DEF r, n, c
<1>8. RecordOK(s) /\ s.fd = "open" /\ Waits(s) /\ Grows(r, s)
  <2>1. CASE r.wbuf = 0
    BY <1>6, <2>1 DEF Waits, Grows
  <2>2. CASE r.wbuf # 0 /\ net[c].peer = "reset"
    <3> DEFINE q == [r EXCEPT !.closed = TRUE]
    <3>1. s = q
      BY <2>2
    <3>2. /\ RecordOK(q) /\ q.fd = "open" /\ q.closed = TRUE /\ q.inactive = r.inactive
      BY <1>6, MarkKeeps
    <3> HIDE DEF s, q
    <3> QED BY <3>1, <3>2 DEF Waits, Grows
  <2>3. CASE r.wbuf # 0 /\ net[c].peer # "reset" /\ n = 0
    <3>1. s = EnableWriting(r)
      BY <2>3
    <3>2. /\ RecordOK(s) /\ s.fd = "open" /\ s.closed = r.closed /\ s.inactive = r.inactive
          /\ "write" \in s.interest
      BY <1>6, <3>1, InterestKeeps, ZenonT(60)
    <3> HIDE DEF s
    <3> QED BY <3>2 DEF Waits, Grows
  <2>4. CASE r.wbuf # 0 /\ net[c].peer # "reset" /\ n # 0
    <3>1. s = [v EXCEPT !.closed = @ \/ ~r.keepAlive]
      BY <2>4
    <3>2. RecordOK(w) /\ w.fd = "open" /\ w.closed = r.closed /\ w.inactive = r.inactive
      BY <1>6, <1>7, DiscardKeeps
    <3> HIDE DEF w
    <3>3. RecordOK(v) /\ v.fd = "open" /\ Waits(v) /\ v.closed = r.closed /\ v.inactive = r.inactive
      BY <3>2, InterestKeeps DEF Waits, RecordOK, Connection
    <3> HIDE DEF v
    <3>4. v \in Connection
      BY <3>3 DEF RecordOK
    <3> DEFINE b == v.closed \/ ~r.keepAlive
    <3>5. s = [v EXCEPT !.closed = b]
      BY <3>1, <3>4 DEF Connection
    <3>6. b \in BOOLEAN /\ (v.closed => b)
      BY <3>3, <1>6 DEF RecordOK, Connection
    <3> HIDE DEF s, b
    <3>7. /\ RecordOK(s) /\ s.fd = "open" /\ s.closed = b /\ s.wbuf = v.wbuf
          /\ s.interest = v.interest /\ s.inactive = v.inactive
      BY <3>3, <3>5, <3>6, MarkKeeps
    <3> QED BY <3>3, <3>6, <3>7 DEF Waits, Grows
  <2> QED BY <2>1, <2>2, <2>3, <2>4
<1> HIDE DEF s
<1>9. /\ calls' \in Seq(Conns)
      /\ \A i \in DOMAIN calls' : i + 1 \in DOMAIN calls /\ calls'[i] = calls[i + 1]
      /\ \A i \in DOMAIN calls : i = 1 \/ (i - 1 \in DOMAIN calls' /\ calls'[i - 1] = calls[i])
  BY <1>1, <1>2
<1>10. \A d \in Conns \ {c} :
         (\A i \in DOMAIN calls' : calls'[i] # d) => (\A i \in DOMAIN calls : calls[i] # d)
  BY <1>2, <1>9
<1>11. \A i \in DOMAIN calls' : \E j \in DOMAIN calls : calls'[i] = calls[j]
  BY <1>9
<1>12. UNCHANGED <<table, loopVars, due>>
  BY DEF FlushWriteBuf
<1>13. Grows(conn[c], s)
  BY <1>6, <1>8 DEF Grows
<1> QED BY <1>1, <1>2, <1>3, <1>7, <1>8, <1>9, <1>10, <1>11, <1>12, <1>13, UserKeeps, ZenonT(60)

\* onTimerTick() tells the next connection of its list, closed or not.
LEMMA ExpireStep ==
  ASSUME WorkerInv, NEW c \in Conns, ExpireNext(c)
  PROVE  WorkerInv'
<1> DEFINE s == Closing(conn[c])
<1>1. /\ loopPc = "expire" /\ loopPc' = "expiring" /\ c \in doomed /\ doomed' = doomed \ {c}
      /\ conn' = [conn EXCEPT ![c] = s] /\ leaving' = {c}
      /\ UNCHANGED <<table, net, queue, revents, starting, calls, due>>
  BY DEF ExpireNext, FireInactive
<1>2. calls = <<>> /\ leaving = {}
  BY <1>1 DEF WorkerInv, CallsInv, DoomedInv
<1>3. RecordOK(conn[c]) /\ c \in table /\ conn[c].fd = "open"
  BY <1>1 DEF WorkerInv, RecordsOK, DoomedInv, TableInv
<1>4. conn[c].closed => InactiveShares /\ conn[c].inactive <= 1
  BY <1>1, LimitsAssumption DEF WorkerInv, DoomedInv
<1>5. RecordOK(s) /\ s.fd = "open" /\ s.closed /\ Waits(s)
  BY <1>3, <1>4, InactiveKeeps
<1> HIDE DEF s
<1>6. /\ conn' \in [Conns -> Connection] /\ RecordsOK' /\ TableInv'
      /\ \A d \in Conns : conn'[d].fd = "none" <=> conn[d].fd = "none"
  BY <1>1, <1>3, <1>5, OneConnection
<1>7. \A d \in Conns : conn'[d] = IF d = c THEN s ELSE conn[d]
  BY <1>1 DEF WorkerInv, TypeOK
<1>8. TypeOK'
  BY <1>1, <1>6 DEF WorkerInv, TypeOK
<1>9. QueueInv'
  <2>1. \A i \in DOMAIN queue : queue[i] \in Conns
    BY DEF WorkerInv, TypeOK
  <2> QED BY <1>1, <1>6, <2>1 DEF WorkerInv, QueueInv
<1>10. CallsInv' /\ WaitInv'
  BY <1>1, <1>2, <1>5, <1>7 DEF WorkerInv, CallsInv, WaitInv
<1>11. DoomedInv'
  <2>1. \A d \in doomed' : d \in Conns /\ d # c
    BY <1>1 DEF WorkerInv, TypeOK
  <2> QED BY <1>1, <1>2, <1>3, <1>5, <1>7, <2>1 DEF WorkerInv, DoomedInv
<1> QED BY <1>6, <1>8, <1>9, <1>10, <1>11 DEF WorkerInv

\* removeConn() after fireInactive() has returned.
LEMMA DropStep ==
  ASSUME WorkerInv, NEW c \in Conns, DropConn(c)
  PROVE  WorkerInv'
<1> DEFINE s == Removed(conn[c])
<1>1. /\ loopPc \in {"inactive", "expiring"} /\ calls = <<>> /\ c \in leaving
      /\ conn' = [conn EXCEPT ![c] = s] /\ table' = table \ {c} /\ leaving' = {}
      /\ loopPc' = (IF loopPc = "expiring" THEN "expire" ELSE AfterEvent(queue))
      /\ UNCHANGED <<net, queue, revents, starting, doomed, calls, due>>
  BY DEF DropConn, RemoveConn
<1>2. /\ RecordOK(conn[c]) /\ c \in table /\ conn[c].fd = "open" /\ conn[c].closed
      /\ c \notin doomed
  BY <1>1 DEF WorkerInv, RecordsOK, DoomedInv, TableInv
<1>3. RecordOK(s) /\ s.fd = "closed"
  BY <1>2, RemovedKeeps
<1> HIDE DEF s
<1>4. loopPc' \in {"expire", "events", "timer"} /\ (loopPc' = "events" => queue # <<>>)
      /\ (loopPc' # "expire" => loopPc = "inactive")
  BY <1>1 DEF AfterEvent
<1>5. /\ conn' \in [Conns -> Connection] /\ table' \in SUBSET Conns /\ RecordsOK' /\ TableInv'
      /\ \A d \in Conns : conn'[d].fd = "none" <=> conn[d].fd = "none"
  BY <1>1, <1>2, <1>3, <1>4, OneConnection
<1>6. \A d \in Conns : conn'[d] = IF d = c THEN s ELSE conn[d]
  BY <1>1 DEF WorkerInv, TypeOK
<1>7. TypeOK'
  BY <1>1, <1>4, <1>5 DEF WorkerInv, TypeOK
<1>8. QueueInv'
  <2>1. \A i \in DOMAIN queue : queue[i] \in Conns
    BY DEF WorkerInv, TypeOK
  <2> QED BY <1>1, <1>4, <1>5, <2>1 DEF WorkerInv, QueueInv
<1>9. CallsInv'
  BY <1>1 DEF CallsInv
<1>10. WaitInv'
  <2>1. Waits(s)
    BY <1>3 DEF Waits, RecordOK
  <2> QED BY <1>1, <1>6, <2>1 DEF WorkerInv, WaitInv
<1>11. DoomedInv'
  <2>1. \A d \in doomed : d \in Conns /\ d # c /\ conn'[d] = conn[d]
    BY <1>2, <1>6 DEF WorkerInv, TypeOK
  <2>2. loopPc' # "expire" => doomed = {}
    BY <1>4 DEF WorkerInv, DoomedInv
  <2> QED BY <1>1, <1>4, <2>1, <2>2 DEF WorkerInv, DoomedInv
<1> QED BY <1>5, <1>7, <1>8, <1>9, <1>10, <1>11 DEF WorkerInv

\* onRead(), onWrite() and onError().
LEMMA EventSteps ==
  ASSUME WorkerInv, NEW c \in Conns, EventStep(c)
  PROVE  WorkerInv'
<1>1. /\ RecordOK(conn[c]) /\ conn \in [Conns -> Connection]
      /\ net \in [Conns -> [peer : {"up", "fin", "reset"}, in : BOOLEAN, out : 0..SockBuf]]
  BY DEF WorkerInv, RecordsOK, TypeOK
<1>2. loopPc = "events" => calls = <<>> /\ queue # <<>>
  BY DEF WorkerInv, CallsInv, QueueInv
<1>3. queue # <<>> => Head(queue) = queue[1] /\ 1 \in DOMAIN queue
  BY DEF WorkerInv, TypeOK
<1>4. ASSUME NEW event, IsNext(c, event), ~conn[c].closed
      PROVE  conn[c].fd = "open" /\ calls = <<>> /\ loopPc = "events"
  <2>1. conn[c].fd # "none"
    BY <1>2, <1>3, <1>4 DEF WorkerInv, QueueInv, IsNext
  <2> QED BY <1>1, <1>2, <1>4, <2>1, NotClosedIsOpen DEF IsNext
<1>5. calls = <<>> => Waits(conn[c])
  BY DEF WorkerInv, WaitInv
<1>6. ASSUME NEW event, IgnoreEvent(c, event) PROVE WorkerInv'
  BY <1>2, <1>6, EventIgnored DEF IgnoreEvent, IsNext
<1>7. CASE OnReadData(c)
  <2> DEFINE s == [conn[c] EXCEPT !.readAge = 0]
  <2>1. conn[c].fd = "open" /\ calls = <<>> /\ loopPc = "events" /\ c = Head(queue)
    BY <1>4, <1>7 DEF OnReadData, IsNext
  <2>2. SameButAges(conn[c], s)
    BY <1>1, AgesAlone
  <2>3. RecordOK(s)
    BY <1>1, <2>1, <2>2, AgeKeeps
  <2>4. conn' = [conn EXCEPT ![c] = s]
    BY <1>1, <1>7 DEF OnReadData
  <2> HIDE DEF s
  <2>5. s.fd = "open" /\ Waits(s)
    BY <1>5, <2>1, <2>2 DEF SameButAges, Waits
  <2>6. UNCHANGED <<table, queue, revents, starting, leaving, doomed, calls, due>> /\ loopPc' = "read"
    BY <1>7 DEF OnReadData
  <2>7. /\ conn' \in [Conns -> Connection] /\ RecordsOK' /\ TableInv'
        /\ \A d \in Conns : conn'[d].fd = "none" <=> conn[d].fd = "none"
    BY <2>1, <2>3, <2>4, <2>5, <2>6, OneConnection
  <2>8. \A d \in Conns : conn'[d] = IF d = c THEN s ELSE conn[d]
    BY <1>1, <2>4
  <2>9. net' \in [Conns -> [peer : {"up", "fin", "reset"}, in : BOOLEAN, out : 0..SockBuf]]
    BY <1>1, <1>7 DEF OnReadData
  <2>10. TypeOK'
    BY <2>6, <2>7, <2>9 DEF WorkerInv, TypeOK
  <2>11. QueueInv'
    <3>1. \A i \in DOMAIN queue : queue[i] \in Conns
      BY DEF WorkerInv, TypeOK
    <3> QED BY <1>2, <1>3, <2>1, <2>5, <2>6, <2>7, <2>8, <3>1 DEF WorkerInv, QueueInv
  <2>12. CallsInv' /\ WaitInv' /\ DoomedInv'
    BY <2>1, <2>5, <2>6, <2>8 DEF WorkerInv, CallsInv, WaitInv, DoomedInv
  <2> QED BY <2>7, <2>10, <2>11, <2>12 DEF WorkerInv
<1>8. CASE OnReadDone(c)
  <2>1. conn[c].fd = "open" /\ calls = <<>> /\ loopPc = "read" /\ Handled(c, "read")
        /\ UNCHANGED <<net, calls, due>>
    BY <1>3, <1>8 DEF OnReadDone, WorkerInv, QueueInv
  <2>2. CASE conn[c].closed
    <3> DEFINE s == Removed(conn[c])
    <3>1. RecordOK(s) /\ s.fd = "closed"
      BY <1>1, <2>1, <2>2, RemovedKeeps
    <3>2. conn' = [conn EXCEPT ![c] = s] /\ table' = table \ {c}
      BY <1>8, <2>2 DEF OnReadDone, RemoveConn
    <3> HIDE DEF s
    <3>3. Waits(s)
      BY <3>1 DEF Waits, RecordOK
    <3> QED BY <1>1, <2>1, <3>1, <3>2, <3>3, EventKeeps DEF Handled
  <2>3. CASE ~conn[c].closed
    BY <1>8, <2>1, <2>3, EventIgnored DEF OnReadDone
  <2> QED BY <2>2, <2>3
<1>9. ASSUME NEW event, IsNext(c, event), ~conn[c].closed, FireInactive(c),
             EventTaken(c, event), loopPc' = "inactive", UNCHANGED <<table, net, calls, due>>
      PROVE  WorkerInv'
  <2> DEFINE s == Closing(conn[c])
  <2>1. RecordOK(s) /\ s.fd = "open" /\ s.closed /\ Waits(s)
    BY <1>1, <1>4, <1>9, InactiveKeeps
  <2>2. conn' = [conn EXCEPT ![c] = s] /\ leaving' = {c}
    BY <1>9 DEF FireInactive
  <2> HIDE DEF s
  <2> QED BY <1>1, <1>4, <1>9, <2>1, <2>2, EventKeeps
<1>10. CASE OnReadEnd(c)
  <2>1. CASE net[c].peer # "up"
    BY <1>9, <1>10, <2>1 DEF OnReadEnd
  <2>2. CASE net[c].peer = "up"
    BY <1>4, <1>10, <2>2, EventIgnored DEF OnReadEnd
  <2> QED BY <2>1, <2>2
<1>11. CASE OnWrite(c)
  <2> DEFINE r == [conn[c] EXCEPT !.writeAge = 0]
             w == Discarded(r, Taken(c))
  <2>1. conn[c].fd = "open" /\ calls = <<>> /\ loopPc = "events" /\ Handled(c, "write")
        /\ UNCHANGED <<table, calls, due>>
    BY <1>4, <1>11 DEF OnWrite
  <2>2. SameButAges(conn[c], r)
    BY <1>1, AgesAlone
  <2>3. RecordOK(r)
    BY <1>1, <2>1, <2>2, AgeKeeps
  <2>4. \/ /\ conn' = [conn EXCEPT ![c] = [r EXCEPT !.closed = TRUE]]
           /\ UNCHANGED net
        \/ /\ conn' = [conn EXCEPT ![c] = IF w.wbuf = 0 THEN DisableWriting(w) ELSE w]
           /\ net' = [net EXCEPT ![c].out = @ + Taken(c)]
    BY <1>11 DEF OnWrite
  <2> HIDE DEF r
  <2>5. r.fd = "open" /\ Waits(r) /\ r.wbuf = conn[c].wbuf
    BY <1>5, <2>1, <2>2 DEF SameButAges, Waits
  <2>6. CASE conn' = [conn EXCEPT ![c] = [r EXCEPT !.closed = TRUE]] /\ UNCHANGED net
    <3> DEFINE s == [r EXCEPT !.closed = TRUE]
    <3>1. RecordOK(s) /\ s.fd = "open" /\ s.closed
      BY <2>3, <2>5, MarkKeeps
    <3>2. conn' = [conn EXCEPT ![c] = s]
      BY <2>6
    <3> HIDE DEF s
    <3>3. Waits(s)
      BY <3>1 DEF Waits
    <3> QED BY <1>1, <2>1, <2>6, <3>1, <3>2, <3>3, EventKeeps DEF Handled
  <2>7. CASE /\ conn' = [conn EXCEPT ![c] = IF w.wbuf = 0 THEN DisableWriting(w) ELSE w]
             /\ net' = [net EXCEPT ![c].out = @ + Taken(c)]
    <3> DEFINE s == IF w.wbuf = 0 THEN DisableWriting(w) ELSE w
    <3>1. Taken(c) \in 0..r.wbuf
      BY <2>5, TakenFits DEF WorkerInv
    <3>2. /\ RecordOK(w) /\ w.fd = "open" /\ w.interest = r.interest /\ w.closed = r.closed
          /\ w.wbuf = r.wbuf - Taken(c)
      BY <2>3, <2>5, <3>1, DiscardKeeps
    <3>3. net' \in [Conns -> [peer : {"up", "fin", "reset"}, in : BOOLEAN, out : 0..SockBuf]]
      BY <2>7, TakenFits DEF WorkerInv
    <3>4. conn' = [conn EXCEPT ![c] = s]
      BY <2>7
    <3>5. r.wbuf \in Nat
      BY <2>3 DEF RecordOK, Connection
    <3> HIDE DEF w
    <3>6. CASE w.wbuf = 0
      <4>1. s = DisableWriting(w)
        BY <3>6
      <4>2. RecordOK(s) /\ s.fd = "open" /\ s.wbuf = 0
        BY <3>2, <3>6, <4>1, InterestKeeps
      <4> HIDE DEF s
      <4>3. Waits(s)
        BY <4>2 DEF Waits
      <4> QED BY <2>1, <3>3, <3>4, <4>2, <4>3, EventKeeps DEF Handled
    <3>7. CASE w.wbuf # 0
      <4>1. s = w
        BY <3>7
      <4>2. Waits(s)
        BY <2>5, <3>1, <3>2, <3>5, <4>1 DEF Waits
      <4> HIDE DEF s
      <4> QED BY <2>1, <3>2, <3>3, <3>4, <4>1, <4>2, EventKeeps DEF Handled
    <3> QED BY <3>6, <3>7
  <2> QED BY <2>4, <2>6, <2>7
<1>12. CASE OnError(c)
  BY <1>9, <1>12 DEF OnError
<1>13. CASE ExpireNext(c)
  BY <1>13, ExpireStep
<1>14. CASE DropConn(c)
  BY <1>14, DropStep
<1> QED BY <1>6, <1>7, <1>8, <1>10, <1>11, <1>12, <1>13, <1>14 DEF EventStep

\* poll() reports connections that are in the poller, so that were set up.
LEMMA PollStep == WorkerInv /\ Poll => WorkerInv'
<1> SUFFICES ASSUME WorkerInv, Poll PROVE WorkerInv' OBVIOUS
<1> DEFINE active == {c \in Conns : Ready(c) # {}}
<1>1. PICK order \in [1..Cardinality(active) -> active] : queue' = order
  BY DEF Poll
<1>2. IsFiniteSet(active) /\ Cardinality(active) \in Nat
  BY ConnsAssumption, FS_Subset, FS_CardinalityType
<1>3. active # {} => Cardinality(active) # 0
  BY <1>2, FS_EmptySet
<1>4. /\ loopPc = "poll" /\ loopPc' = (IF active = {} THEN "timer" ELSE "events")
      /\ revents' = [c \in Conns |-> Ready(c)]
      /\ UNCHANGED <<conn, table, net, starting, leaving, doomed, calls, due>>
  BY DEF Poll
<1>5. queue' \in Seq(Conns) /\ DOMAIN queue' = 1..Cardinality(active)
      /\ \A i \in DOMAIN queue' : queue'[i] \in active
  <2>1. active \subseteq Conns
    OBVIOUS
  <2> HIDE DEF active
  <2>2. queue' \in [1..Cardinality(active) -> Conns]
    BY <1>1, <2>1
  <2>3. queue' \in Seq(Conns)
    BY <1>2, <2>2
  <2> QED BY <1>1, <2>3
<1>6. \A c \in active : conn[c].fd # "none"
  <2> SUFFICES ASSUME NEW c \in active, conn[c].fd = "none" PROVE FALSE OBVIOUS
  <2>1. conn[c] = NoConnection
    BY DEF WorkerInv, RecordsOK, RecordOK
  <2>2. conn[c].interest = {}
    BY <2>1 DEF NoConnection
  <2> QED BY <2>2 DEF Ready
<1>7. \A c \in Conns : Ready(c) \in SUBSET {"read", "write", "error"}
  BY DEF Ready, WorkerInv, TypeOK, Connection
<1>8. TypeOK'
  BY <1>4, <1>5, <1>7 DEF WorkerInv, TypeOK
<1>9. QueueInv'
  <2>1. active # {} => queue' # <<>>
    BY <1>2, <1>3, <1>5
  <2> QED BY <1>4, <1>5, <1>6, <2>1 DEF QueueInv
<1>10. RecordsOK' /\ TableInv' /\ CallsInv' /\ WaitInv'
  BY <1>4 DEF WorkerInv, RecordsOK, RecordOK, Overflows, Told, TableInv, CallsInv, WaitInv, Waits
<1>11. DoomedInv'
  BY <1>4 DEF WorkerInv, DoomedInv
<1> QED BY <1>8, <1>9, <1>10, <1>11 DEF WorkerInv

\* onTimerTick() collects connections of the table that are not yet closed.
LEMMA TimerStep == WorkerInv /\ OnTimerTick => WorkerInv'
<1> SUFFICES ASSUME WorkerInv, OnTimerTick PROVE WorkerInv' OBVIOUS
<1>1. /\ doomed' = {c \in table : TimedOut(c)}
      /\ loopPc = "timer" /\ loopPc' = "expire" /\ calls = <<>> /\ due' = FALSE
      /\ UNCHANGED <<conn, table, net, queue, revents, starting, leaving, calls>>
  BY DEF OnTimerTick
<1>2. TypeOK'
  BY <1>1 DEF WorkerInv, TypeOK
<1>3. RecordsOK' /\ TableInv' /\ QueueInv' /\ CallsInv' /\ WaitInv'
  BY <1>1 DEF WorkerInv, RecordsOK, RecordOK, Overflows, Told, TableInv, QueueInv, CallsInv,
              WaitInv, Waits
<1>4. \A c \in doomed' : c \in table /\ conn[c].inactive <= 1 /\ ~conn[c].closed
  <2> TAKE c \in doomed'
  <2>1. c \in table /\ ~conn[c].closed /\ c \in Conns
    BY <1>1 DEF TimedOut, WorkerInv, TypeOK
  <2> QED BY <2>1 DEF WorkerInv, RecordsOK, RecordOK, Told
<1>5. DoomedInv'
  BY <1>1, <1>4 DEF WorkerInv, DoomedInv
<1> QED BY <1>2, <1>3, <1>5 DEF WorkerInv

\* setupConnection() up to the call of channelActive.
LEMMA SetupStep ==
  ASSUME WorkerInv, NEW c \in Conns, SetupConnection(c)
  PROVE  WorkerInv'
<1> DEFINE s == [NoConnection EXCEPT !.fd = "open", !.interest = {"read"}]
<1>1. conn[c] = NoConnection /\ conn \in [Conns -> Connection]
  BY DEF SetupConnection, WorkerInv, RecordsOK, RecordOK, TypeOK
<1>2. conn' = [conn EXCEPT ![c] = s]
  BY <1>1 DEF SetupConnection
<1>3. /\ loopPc = "tasks" /\ loopPc' = "active" /\ starting' = {c} /\ calls = <<>>
      /\ UNCHANGED <<table, net, queue, revents, leaving, doomed, calls, due>>
  BY DEF SetupConnection
<1>4. RecordOK(s) /\ s.fd = "open" /\ Waits(s)
  <2>1. s \in Connection
    BY DEF NoConnection, Connection
  <2>2. /\ s.fd = "open" /\ s.interest = {"read"} /\ s.closed = FALSE /\ s.wbuf = 0
        /\ s.written = 0 /\ s.sent = 0 /\ s.inactive = 0 /\ s.unregistered = 0
    BY DEF NoConnection
  <2> HIDE DEF s
  <2> QED BY <2>1, <2>2, LimitsAssumption DEF RecordOK, Overflows, Told, Waits
<1> HIDE DEF s
<1>5. \A d \in Conns : conn'[d] = IF d = c THEN s ELSE conn[d]
  BY <1>1, <1>2
<1>6. RecordsOK'
  <2>1. \A d \in Conns : RecordOK(conn'[d])
    BY <1>4, <1>5 DEF WorkerInv, RecordsOK
  <2> QED BY <2>1 DEF RecordsOK, RecordOK, Overflows, Told
<1>7. TypeOK'
  <2>1. conn' \in [Conns -> Connection]
    BY <1>1, <1>2, <1>4 DEF RecordOK
  <2> QED BY <1>3, <2>1 DEF WorkerInv, TypeOK
<1>8. TableInv'
  <2>1. conn[c].fd # "open"
    BY DEF SetupConnection
  <2> QED BY <1>3, <1>4, <1>5, <2>1 DEF WorkerInv, TableInv
<1>9. QueueInv'
  <2>1. \A i \in DOMAIN queue : queue[i] \in Conns
    BY DEF WorkerInv, TypeOK
  <2> QED BY <1>3, <1>4, <1>5, <2>1 DEF WorkerInv, QueueInv
<1>10. CallsInv' /\ WaitInv' /\ DoomedInv'
  BY <1>3, <1>4, <1>5 DEF WorkerInv, CallsInv, WaitInv, DoomedInv
<1> QED BY <1>6, <1>7, <1>8, <1>9, <1>10 DEF WorkerInv

\* The clock makes every open connection older.
LEMMA ClockStep == WorkerInv /\ ClockTick => WorkerInv'
<1> SUFFICES ASSUME WorkerInv, ClockTick PROVE WorkerInv' OBVIOUS
<1>1. due' = TRUE /\ UNCHANGED <<table, net, loopVars, calls>>
  BY DEF ClockTick
<1>2. \A a \in Nat : Older(a) \in Nat
  BY DEF Older
<1>3. \A c \in Conns :
        /\ conn'[c].fd = conn[c].fd /\ conn'[c].closed = conn[c].closed
        /\ conn'[c].inactive = conn[c].inactive
        /\ conn'[c].wbuf = conn[c].wbuf /\ conn'[c].interest = conn[c].interest
        /\ RecordOK(conn'[c])
  <2> TAKE c \in Conns
  <2>1. RecordOK(conn[c]) /\ conn[c] \in Connection
    BY DEF WorkerInv, RecordsOK, RecordOK
  <2>2. CASE conn[c].fd # "open"
    <3>1. conn'[c] = conn[c]
      BY <2>2 DEF ClockTick
    <3> QED BY <2>1, <3>1
  <2>3. CASE conn[c].fd = "open"
    <3> DEFINE a == Older(conn[c].readAge)
               b == Older(conn[c].writeAge)
               s == [conn[c] EXCEPT !.readAge = a, !.writeAge = b]
    <3>1. conn'[c] = s
      BY <2>3 DEF ClockTick
    <3>2. a \in Nat /\ b \in Nat
      BY <1>2, <2>1 DEF Connection
    <3> HIDE DEF a, b
    <3>3. SameButAges(conn[c], s)
      BY <2>1, <3>2, AgesAlone
    <3> HIDE DEF s
    <3>4. RecordOK(s)
      BY <2>1, <2>3, <3>3, AgeKeeps
    <3> QED BY <3>1, <3>3, <3>4 DEF SameButAges
  <2> QED BY <2>2, <2>3
<1>4. RecordsOK'
  BY <1>3 DEF RecordsOK, RecordOK, Overflows, Told
<1>5. TypeOK'
  <2>1. conn' \in [Conns -> Connection]
    <3>1. \A c \in Conns : conn'[c] \in Connection
      BY <1>3 DEF RecordOK
    <3> QED BY <3>1 DEF ClockTick
  <2> QED BY <1>1, <2>1 DEF WorkerInv, TypeOK, loopVars
<1>6. TableInv' /\ WaitInv'
  BY <1>1, <1>3 DEF WorkerInv, TableInv, WaitInv, Waits, loopVars
<1>7. QueueInv' /\ CallsInv'
  <2>1. /\ \A i \in DOMAIN queue : queue[i] \in Conns
        /\ \A i \in DOMAIN calls : calls[i] \in Conns
        /\ queue # <<>> => 1 \in DOMAIN queue
    BY DEF WorkerInv, TypeOK
  <2> QED BY <1>1, <1>3, <2>1 DEF WorkerInv, QueueInv, CallsInv, loopVars
<1>8. DoomedInv'
  BY <1>1, <1>3 DEF WorkerInv, DoomedInv, TypeOK, loopVars
<1> QED BY <1>4, <1>5, <1>6, <1>7, <1>8 DEF WorkerInv

\* Steps of the peer and of the loop that change no connection.
LEMMA FrameKeepsInv ==
  ASSUME WorkerInv, UNCHANGED <<conn, queue, revents, leaving, doomed, calls, due>>,
         net' \in [Conns -> [peer : {"up", "fin", "reset"}, in : BOOLEAN, out : 0..SockBuf]],
         \/ UNCHANGED <<table, starting, loopPc>>
         \/ /\ table' = table \cup starting /\ starting' = {}
            /\ loopPc \in {"timer", "expire", "tasks", "active"} /\ doomed = {}
            /\ \/ loopPc' = "tasks"
               \/ loopPc' = "poll" /\ calls = <<>>
  PROVE  WorkerInv'
<1>1. TypeOK'
  BY DEF WorkerInv, TypeOK
<1>2. RecordsOK' /\ WaitInv'
  BY DEF WorkerInv, RecordsOK, RecordOK, Overflows, Told, WaitInv, Waits
<1>3. TableInv'
  BY DEF WorkerInv, TableInv
<1>4. QueueInv' /\ CallsInv' /\ DoomedInv'
  BY DEF WorkerInv, QueueInv, CallsInv, DoomedInv
<1> QED BY <1>1, <1>2, <1>3, <1>4 DEF WorkerInv

\* The peer sends, receives, finishes or resets.
LEMMA PeerSteps ==
  ASSUME WorkerInv, NEW c \in Conns, PeerStep(c)
  PROVE  WorkerInv'
<1>1. /\ SockBuf \in Nat
      /\ net \in [Conns -> [peer : {"up", "fin", "reset"}, in : BOOLEAN, out : 0..SockBuf]]
  BY LimitsAssumption DEF WorkerInv, TypeOK
<1>2. UNCHANGED <<conn, table, loopVars, calls, due>>
  BY DEF PeerStep, PeerSends, PeerReceives, PeerFinishes, PeerResets
<1>3. net' \in [Conns -> [peer : {"up", "fin", "reset"}, in : BOOLEAN, out : 0..SockBuf]]
  <2>1. CASE PeerSends(c) BY <1>1, <2>1 DEF PeerSends
  <2>2. CASE PeerReceives(c)
    <3>1. \A n \in 0..SockBuf : [net EXCEPT ![c].out = n] \in
             [Conns -> [peer : {"up", "fin", "reset"}, in : BOOLEAN, out : 0..SockBuf]]
      BY <1>1
    <3>2. net[c].out - 1 \in 0..SockBuf
      BY <1>1, <2>2 DEF PeerReceives
    <3>3. net' = [net EXCEPT ![c].out = net[c].out - 1]
      BY <2>2 DEF PeerReceives
    <3> QED BY <3>1, <3>2, <3>3
  <2>3. CASE PeerFinishes(c) BY <1>1, <2>3 DEF PeerFinishes
  <2>4. CASE PeerResets(c)
    <3>1. \A n \in 0..SockBuf : [net EXCEPT ![c].peer = "reset", ![c].out = n] \in
             [Conns -> [peer : {"up", "fin", "reset"}, in : BOOLEAN, out : 0..SockBuf]]
      BY <1>1
    <3>2. 0 \in 0..SockBuf
      BY <1>1
    <3> QED BY <2>4, <3>1, <3>2 DEF PeerResets
  <2> QED BY <2>1, <2>2, <2>3, <2>4 DEF PeerStep
<1> QED BY <1>2, <1>3, FrameKeepsInv DEF loopVars

\* Every step of the worker, its peers and the clock keeps the invariant.
LEMMA WorkerStep == WorkerInv /\ [Next]_vars => WorkerInv'
<1> SUFFICES ASSUME WorkerInv, [Next]_vars PROVE WorkerInv' OBVIOUS
<1>1. net \in [Conns -> [peer : {"up", "fin", "reset"}, in : BOOLEAN, out : 0..SockBuf]]
  BY DEF WorkerInv, TypeOK
<1>2. loopPc # "active" => table \cup starting = table /\ starting = {}
  BY DEF WorkerInv, TableInv
<1>0. loopPc \in {"timer", "tasks", "active"} => doomed = {}
  BY DEF WorkerInv, DoomedInv
<1>3. CASE NoTimerTick
  BY <1>0, <1>1, <1>2, <1>3, FrameKeepsInv DEF NoTimerTick
<1>8. CASE TimerThrows
  BY <1>0, <1>1, <1>2, <1>8, FrameKeepsInv DEF TimerThrows
<1>4. CASE AddConnection
  BY <1>0, <1>1, <1>4, FrameKeepsInv DEF AddConnection
<1>5. CASE TasksDone
  BY <1>0, <1>1, <1>2, <1>5, FrameKeepsInv DEF TasksDone
<1>7. CASE ExpireDone
  BY <1>1, <1>2, <1>7, FrameKeepsInv DEF ExpireDone
<1>6. CASE UNCHANGED vars
  BY <1>1, <1>6, FrameKeepsInv DEF vars, loopVars
<1> QED
  BY <1>3, <1>4, <1>5, <1>6, <1>7, <1>8, UserSteps, EventSteps, SetupStep, PeerSteps, FlushStep, PollStep,
     TimerStep, ClockStep
  DEF Next, LoopStep

-----------------------------------------------------------------------------
(* Theorems.                                                               *)

\* Every behaviour of the worker satisfies the inductive invariant.
LEMMA WorkerAlways == Spec => []WorkerInv
  BY WorkerInit, WorkerStep, PTL DEF Spec

\* Each variable keeps its type: in particular the write buffer never holds a
\* negative number of bytes, and the kernel's buffer never more than fits.
THEOREM TypeCorrect == Spec => []TypeOK
<1>1. WorkerInv => TypeOK BY DEF WorkerInv
<1> QED BY <1>1, WorkerAlways, PTL

\* However handlers, tasks, timers, time-outs, end of file and socket errors
\* are interleaved, channelUnregistered is fired at most once for a connection,
\* and so is channelInactive unless the channelInactive of one connection closes
\* another one.
THEOREM ClosedOnceAlways == Spec => []ClosedOnce
<1>1. WorkerInv => ClosedOnce
  <2> SUFFICES ASSUME WorkerInv, NEW c \in Conns
               PROVE  /\ conn[c].unregistered <= 1
                      /\ conn[c].inactive <= (IF InactiveShares THEN 2 ELSE 1)
    BY DEF ClosedOnce
  <2>1. RecordOK(conn[c])
    BY DEF WorkerInv, RecordsOK
  <2>2. conn[c].unregistered <= 1
    BY <2>1 DEF RecordOK, NoConnection, Connection
  <2>3. conn[c].inactive <= (IF InactiveShares THEN 2 ELSE 1)
    BY <2>1 DEF RecordOK, Told
  <2> QED BY <2>2, <2>3
<1> QED BY <1>1, WorkerAlways, PTL

\* The table, the open descriptors and the poller agree.
THEOREM TableCorrect == Spec => []TableOwnsSockets
<1>1. WorkerInv => TableOwnsSockets
  <2> SUFFICES ASSUME WorkerInv, NEW c \in Conns
               PROVE  /\ c \in table \cup starting <=> conn[c].fd = "open"
                      /\ conn[c].fd = "open" <=> conn[c].interest # {}
    BY DEF TableOwnsSockets
  <2>1. RecordOK(conn[c])
    BY DEF WorkerInv, RecordsOK
  <2>2. conn[c].fd = "open" <=> conn[c].interest # {}
    BY <2>1 DEF RecordOK, NoConnection, Connection
  <2> QED BY <2>2 DEF WorkerInv, TableInv
<1> QED BY <1>1, WorkerAlways, PTL

\* Outside the calls that write, an open connection with unsent bytes is
\* polled for writability.
THEOREM UnsentPolled == Spec => []UnsentIsPolled
<1>1. WorkerInv => UnsentIsPolled
  BY DEF WorkerInv, WaitInv, Waits, UnsentIsPolled
<1> QED BY <1>1, WorkerAlways, PTL

\* Partial writes, EAGAIN and the second flush drop and repeat no byte of an
\* HTTP connection.
THEOREM HttpBytesAlwaysKept == Spec => []HttpBytesKept
<1>1. WorkerInv => HttpBytesKept
  BY DEF WorkerInv, RecordsOK, RecordOK, HttpBytesKept
<1> QED BY <1>1, WorkerAlways, PTL

\* Whatever is written, an open HTTP connection buffers no more than the
\* watermark.
THEOREM BacklogAlwaysBounded == Spec => []BacklogBounded
<1>1. WorkerInv => BacklogBounded
  BY DEF WorkerInv, RecordsOK, RecordOK, BacklogBounded
<1> QED BY <1>1, WorkerAlways, PTL
=============================================================================
