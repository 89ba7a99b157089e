----------------------------- MODULE WorkerLoop -----------------------------
(***************************************************************************)
(* The life of a connection on its WorkerEventLoop: setupConnection(),     *)
(* onRead(), onWrite(), onError() and onTimerTick(), and what handlers,    *)
(* tasks and timer callbacks do to it through its Context.                 *)
(*                                                                         *)
(* Everything here runs on the worker's thread; the peer and the kernel    *)
(* act between any two system calls.  A response is a number of bytes; a   *)
(* request is one readable chunk.  Times are counted in timer ticks since  *)
(* lastReadMs and lastWriteMs.                                             *)
(***************************************************************************)
EXTENDS Integers, Sequences, FiniteSets

CONSTANTS
  Conns,          \* connections the boss hands to this worker
  Sizes,          \* sizes of responses and frames
  SockBuf,        \* room in the kernel's send buffer
  WaterMark,      \* writeBufWaterMark_; 0 is unlimited
  ReadTimeout,    \* readTimeoutMs_ in ticks; 0 is off
  WriteTimeout,   \* writeTimeoutMs_ in ticks; 0 is off
  InactiveShares, \* whether a channelInactive acts on other connections than its own
  MaxBytes        \* bound: how much is written to one HTTP connection

ASSUME ConnsAssumption == IsFiniteSet(Conns)
ASSUME SizesAssumption == Sizes \subseteq Nat \ {0}
ASSUME LimitsAssumption ==
  /\ SockBuf \in Nat \ {0} /\ WaterMark \in Nat /\ MaxBytes \in Nat
  /\ ReadTimeout \in Nat /\ WriteTimeout \in Nat /\ InactiveShares \in BOOLEAN

VARIABLES
  conn,      \* the Connection objects
  table,     \* connections_
  net,       \* the kernel's end of each socket, and the peer
  loopPc,    \* where the worker is in loop()
  queue,     \* the rest of pollEvents_
  revents,   \* revents_ of each Channel, as poll() left it
  starting,  \* the connection setupConnection() is calling fireActive() for
  leaving,   \* the connection fireInactive() is running for, before removeConn()
  doomed,    \* onTimerTick's toRemove: the connections it has still to remove
  calls,     \* the flushWriteBuf() calls that running user code has still to make
  due        \* a timer tick has elapsed

loopVars == <<loopPc, queue, revents, starting, leaving, doomed>>
vars == <<conn, table, net, loopVars, calls, due>>

\* ws: the connection was upgraded to the WebSocket protocol.
\* written, sent, inactive and unregistered are history: bytes the handlers
\* wrote and the kernel took before an upgrade, and how often the pipeline saw
\* each event.
NoConnection ==
  [fd |-> "none", interest |-> {}, closed |-> FALSE, keepAlive |-> TRUE, ws |-> FALSE, wbuf |-> 0,
   readAge |-> 0, writeAge |-> 0, written |-> 0, sent |-> 0, inactive |-> 0,
   unregistered |-> 0]

Init ==
  /\ conn = [c \in Conns |-> NoConnection]
  /\ table = {}
  /\ net = [c \in Conns |-> [peer |-> "up", in |-> FALSE, out |-> 0]]
  /\ loopPc = "poll" /\ queue = <<>>
  /\ revents = [c \in Conns |-> {}]
  /\ starting = {} /\ leaving = {} /\ doomed = {} /\ calls = <<>> /\ due = FALSE

-----------------------------------------------------------------------------
(* Pieces of the handlers, on one Connection.                              *)

\* Context::close() without its test: setClosed(true) and fireInactive().
Closing(r) == [r EXCEPT !.closed = TRUE, !.inactive = @ + 1]

\* Mutant: the test for a closed connection is dropped.
ContextCloseAlways(r) == Closing(r)

ContextClose(r) == IF r.closed THEN r ELSE Closing(r)

\* Channel::enableWriting() and disableWriting(), and through update() the
\* poller's interest in the descriptor.
EnableWriting(r) == [r EXCEPT !.interest = @ \cup {"write"}]
DisableWriting(r) == [r EXCEPT !.interest = @ \ {"write"}]

\* removeConn(): fireChannelUnregistered(), leave the poller, close the
\* descriptor; the Connection and its write buffer are destroyed.
Removed(r) ==
  [r EXCEPT !.unregistered = @ + 1, !.fd = "closed", !.interest = {}, !.wbuf = 0,
            !.keepAlive = TRUE, !.readAge = 0, !.writeAge = 0]

\* writev() takes what fits.
Taken(c) ==
  LET room == SockBuf - net[c].out
  IN  IF room < conn[c].wbuf THEN room ELSE conn[c].wbuf

\* discard(n) after n > 0 bytes were written.
Discarded(r, n) == [r EXCEPT !.wbuf = @ - n, !.sent = IF r.ws THEN @ ELSE @ + n]

-----------------------------------------------------------------------------
(* User code: handlers inside fireRead(), fireActive() and fireInactive(), *)
(* timer callbacks and tasks.  It reaches a connection through its         *)
(* Context, whose weak pointer expires when the connection is removed.     *)

UserCodeRuns ==
  /\ calls = <<>>
  /\ \/ loopPc \in {"read", "active", "tasks", "inactive", "expiring"}
     \/ loopPc = "timer" /\ due

Reachable(c) ==
  /\ c \in table \cup starting
  /\ loopPc \in {"inactive", "expiring"} /\ ~InactiveShares => c \in leaving

\* HttpServerCodec::channelRead: setConnKeepAlive() and signalActivity().
Request(c, keepAlive) ==
  /\ loopPc = "read" /\ calls = <<>> /\ c = Head(queue)
  /\ conn' = [conn EXCEPT ![c].keepAlive = keepAlive, ![c].readAge = 0]
  /\ UNCHANGED <<table, net, loopVars, calls, due>>

Overflows(r) == WaterMark > 0 /\ r.wbuf > WaterMark
Appended(r, k) == [r EXCEPT !.wbuf = @ + k, !.written = @ + k]

\* Mutant: the watermark is not looked at.
WriteUnchecked(c, r) ==
  /\ conn' = [conn EXCEPT ![c] = r]
  /\ calls' = <<c, c>>

\* Context::writeAndFlush() of an HttpResponse, after the HttpServerCodec has
\* handed its bytes to ChannelHandlerContext::fireWrite(), which appended
\* them: over the watermark it closes, else it flushes; writeAndFlush()
\* flushes in either case.
WriteChecked(c, r) ==
  /\ conn' = [conn EXCEPT ![c] = IF Overflows(r) THEN ContextClose(r) ELSE r]
  /\ calls' = IF Overflows(r) THEN <<c>> ELSE <<c, c>>

WriteAndFlush(c, k) ==
  /\ UserCodeRuns /\ Reachable(c) /\ conn[c].written + k <= MaxBytes
  /\ WriteChecked(c, Appended(conn[c], k))
  /\ UNCHANGED <<table, net, loopVars, due>>

\* WebSocketUpgradeHandler::channelRead(): setConnKeepAlive(true) and the
\* response 101.
Upgrade(c, k) ==
  /\ loopPc = "read" /\ calls = <<>> /\ c = Head(queue)
  /\ ~conn[c].ws /\ conn[c].written + k <= MaxBytes
  /\ WriteChecked(c, [Appended(conn[c], k) EXCEPT !.keepAlive = TRUE, !.ws = TRUE,
                                                 !.written = 0, !.sent = 0])
  /\ UNCHANGED <<table, net, loopVars, due>>

\* WebSocketCodec::write(): the write buffer is cleared first, the watermark
\* is not looked at, one flush.  Frames go on without a bound.
WriteFrame(c, k) ==
  /\ UserCodeRuns /\ Reachable(c) /\ conn[c].ws
  /\ conn' = [conn EXCEPT ![c].wbuf = k]
  /\ calls' = <<c>>
  /\ UNCHANGED <<table, net, loopVars, due>>

\* Context::flush(), also with nothing new to write.
Flush(c) ==
  /\ UserCodeRuns /\ Reachable(c)
  /\ calls' = <<c>>
  /\ UNCHANGED <<conn, table, net, loopVars, due>>

Close(c) ==
  /\ UserCodeRuns /\ Reachable(c)
  /\ conn' = [conn EXCEPT ![c] = ContextClose(@)]
  /\ UNCHANGED <<table, net, loopVars, calls, due>>

\* Mutant: a partial write does not enable writing.
FlushForgetsInterest ==
  /\ calls # <<>>
  /\ LET c == Head(calls)
         r == [conn[c] EXCEPT !.writeAge = 0]
         n == Taken(c)
         w == Discarded(r, n)
     IN  /\ net' = [net EXCEPT ![c].out = IF net[c].peer # "reset" THEN @ + n ELSE @]
         /\ conn' = [conn EXCEPT ![c] =
              IF r.wbuf = 0 THEN r
              ELSE IF net[c].peer = "reset" THEN [r EXCEPT !.closed = TRUE]
              ELSE IF n = 0 THEN EnableWriting(r)
              ELSE [w EXCEPT !.closed = @ \/ ~r.keepAlive]]
  /\ calls' = Tail(calls)
  /\ UNCHANGED <<table, loopVars, due>>

\* flushWriteBuf(): one writev().  EAGAIN or a partial write enable writing;
\* an error closes the connection, and so does a successful write, partial or
\* not, on a connection that is not to be kept alive; neither calls
\* fireInactive().
FlushWriteBuf ==
  /\ calls # <<>>
  /\ LET c == Head(calls)
         r == [conn[c] EXCEPT !.writeAge = 0]
         n == Taken(c)
         w == Discarded(r, n)
     IN  /\ net' = [net EXCEPT ![c].out = IF net[c].peer # "reset" THEN @ + n ELSE @]
         /\ conn' = [conn EXCEPT ![c] =
              IF r.wbuf = 0 THEN r
              ELSE IF net[c].peer = "reset" THEN [r EXCEPT !.closed = TRUE]
              ELSE IF n = 0 THEN EnableWriting(r)
              ELSE [(IF w.wbuf > 0 THEN EnableWriting(w) ELSE w)
                      EXCEPT !.closed = @ \/ ~r.keepAlive]]
  /\ calls' = Tail(calls)
  /\ UNCHANGED <<table, loopVars, due>>

-----------------------------------------------------------------------------
(* poll() and the events of one Channel, in the order of handleEvent().    *)

Readable(c) == net[c].in \/ net[c].peer # "up"
Writable(c) == net[c].out < SockBuf \/ net[c].peer = "reset"

\* Level-triggered readiness of a descriptor that is in the poller: what it
\* asked for, and errors, which are always reported.
Ready(c) ==
  IF conn[c].interest = {} THEN {}
  ELSE {e \in conn[c].interest : (e = "read" /\ Readable(c)) \/ (e = "write" /\ Writable(c))}
         \cup (IF net[c].peer = "reset" THEN {"error"} ELSE {})

Poll ==
  LET active == {c \in Conns : Ready(c) # {}}
  IN  /\ loopPc = "poll"
      /\ \E order \in [1..Cardinality(active) -> active] :
           /\ \A i, j \in DOMAIN order : order[i] = order[j] => i = j
           /\ queue' = order
      /\ revents' = [c \in Conns |-> Ready(c)]
      /\ loopPc' = IF active = {} THEN "timer" ELSE "events"
      /\ UNCHANGED <<conn, table, net, starting, leaving, doomed, calls, due>>

\* handleEvent() is through with one bit of c; it goes on to the next bit, or
\* loop() to the next channel.
EventTaken(c, event) ==
  /\ revents' = [revents EXCEPT ![c] = @ \ {event}]
  /\ queue' = IF revents[c] \subseteq {event} THEN Tail(queue) ELSE queue
  /\ UNCHANGED <<starting, doomed>>

AfterEvent(q) == IF q = <<>> THEN "timer" ELSE "events"

Handled(c, event) == EventTaken(c, event) /\ loopPc' = AfterEvent(queue') /\ UNCHANGED leaving

IsNext(c, event) ==
  /\ loopPc = "events" /\ c = Head(queue) /\ event \in revents[c]
  /\ event = "write" => "read" \notin revents[c]
  /\ event = "error" => revents[c] = {"error"}

\* setClosed(true) and fireInactive(), as onRead() at end of file, onError()
\* and onTimerTick() call them, without looking at closed_ again; the handlers
\* run before removeConn() is called.
FireInactive(c) ==
  /\ conn' = [conn EXCEPT ![c] = Closing(@)]
  /\ leaving' = {c}

\* Mutant: removeConn() leaves the connection in the table.
RemoveConnKeepsEntry(c) ==
  /\ conn' = [conn EXCEPT ![c] = Removed(@)]
  /\ UNCHANGED table

\* removeConn() takes the connection out of connections_.  What handlers do in
\* channelUnregistered they could as well have done just before.
RemoveConn(c) ==
  /\ conn' = [conn EXCEPT ![c] = Removed(@)]
  /\ table' = table \ {c}

\* fireInactive() has returned: removeConn(), and on with the loop or with
\* onTimerTick().
DropConn(c) ==
  /\ loopPc \in {"inactive", "expiring"} /\ calls = <<>> /\ c \in leaving
  /\ RemoveConn(c)
  /\ leaving' = {}
  /\ loopPc' = IF loopPc = "expiring" THEN "expire" ELSE AfterEvent(queue)
  /\ UNCHANGED <<net, queue, revents, starting, doomed, calls, due>>

\* onRead(), onWrite() and onError() return at once for a closed connection
\* and for one that was removed by an earlier bit of the same handleEvent().
\* (In the latter case the Channel has been destroyed under handleEvent():
\* the bit that is read is either still the old one or gone.)
IgnoreEvent(c, event) ==
  /\ IsNext(c, event) /\ conn[c].closed
  /\ Handled(c, event)
  /\ UNCHANGED <<conn, table, net, calls, due>>

\* onRead() with data: fireRead() calls the handlers.
OnReadData(c) ==
  /\ IsNext(c, "read") /\ ~conn[c].closed /\ net[c].in
  /\ net' = [net EXCEPT ![c].in = FALSE]
  /\ conn' = [conn EXCEPT ![c].readAge = 0]
  /\ loopPc' = "read"
  /\ UNCHANGED <<table, queue, revents, starting, leaving, doomed, calls, due>>

\* The handlers have returned, or thrown; fireChannelReadComplete() and
\* buf.clear().  A connection closed meanwhile is removed.
OnReadDone(c) ==
  /\ loopPc = "read" /\ calls = <<>> /\ c = Head(queue)
  /\ IF conn[c].closed THEN RemoveConn(c) ELSE UNCHANGED <<conn, table>>
  /\ Handled(c, "read")
  /\ UNCHANGED <<net, calls, due>>

\* onRead() at the end of file or with an error.
OnReadEnd(c) ==
  /\ IsNext(c, "read") /\ ~conn[c].closed /\ ~net[c].in
  /\ IF net[c].peer # "up"
       THEN EventTaken(c, "read") /\ FireInactive(c) /\ loopPc' = "inactive"
       ELSE Handled(c, "read") /\ UNCHANGED conn
  /\ UNCHANGED <<table, net, calls, due>>

\* Mutant: EAGAIN clears the buffer as the end of the loop does.
OnWriteClears(c) ==
  /\ IsNext(c, "write") /\ ~conn[c].closed
  /\ LET r == [conn[c] EXCEPT !.writeAge = 0]
         w == Discarded(r, Taken(c))
     IN  IF net[c].peer = "reset" /\ r.wbuf > 0
           THEN /\ conn' = [conn EXCEPT ![c] = [r EXCEPT !.closed = TRUE]]
                /\ UNCHANGED net
           ELSE /\ conn' = [conn EXCEPT ![c] =
                     DisableWriting([w EXCEPT !.wbuf = 0])]
                /\ net' = [net EXCEPT ![c].out = @ + Taken(c)]
  /\ Handled(c, "write")
  /\ UNCHANGED <<table, calls, due>>

\* onWrite(): write until the buffer is empty (writing is disabled), EAGAIN
\* (it stays enabled) or an error (the connection is only marked closed).
OnWrite(c) ==
  /\ IsNext(c, "write") /\ ~conn[c].closed
  /\ LET r == [conn[c] EXCEPT !.writeAge = 0]
         w == Discarded(r, Taken(c))
     IN  IF net[c].peer = "reset" /\ r.wbuf > 0
           THEN /\ conn' = [conn EXCEPT ![c] = [r EXCEPT !.closed = TRUE]]
                /\ UNCHANGED net
           ELSE /\ conn' = [conn EXCEPT ![c] = IF w.wbuf = 0 THEN DisableWriting(w) ELSE w]
                /\ net' = [net EXCEPT ![c].out = @ + Taken(c)]
  /\ Handled(c, "write")
  /\ UNCHANGED <<table, calls, due>>

OnError(c) ==
  /\ IsNext(c, "error") /\ ~conn[c].closed
  /\ EventTaken(c, "error") /\ FireInactive(c) /\ loopPc' = "inactive"
  /\ UNCHANGED <<table, net, calls, due>>

-----------------------------------------------------------------------------
(* advanceTimer() and doPendingFunctors().                                 *)

TimedOut(c) ==
  /\ ~conn[c].closed
  /\ \/ ReadTimeout > 0 /\ conn[c].readAge > ReadTimeout
     \/ WriteTimeout > 0 /\ conn[c].writeAge > WriteTimeout

\* A timer's callback throws: advanceTimer() is left before onTimerTick() and
\* before lastTimerTick_ is moved, so the tick is still due; doPendingFunctors()
\* is not called in this iteration.  (A throw in a later pass of advanceTimer()
\* is an iteration without tasks, followed by this.)
TimerThrows ==
  /\ loopPc = "timer" /\ calls = <<>> /\ due
  /\ loopPc' = "poll"
  /\ UNCHANGED <<conn, table, net, queue, revents, starting, leaving, doomed, calls, due>>

\* Mutant: connections that wait for the socket are left to onWrite().
TimerSkipsWriters ==
  /\ loopPc = "timer" /\ calls = <<>> /\ due
  /\ doomed' = {c \in table : TimedOut(c) /\ "write" \notin conn[c].interest}
  /\ due' = FALSE
  /\ loopPc' = "expire"
  /\ UNCHANGED <<conn, table, net, queue, revents, starting, leaving, calls>>

\* onTimerTick() first collects the connections that have timed out ...
OnTimerTick ==
  /\ loopPc = "timer" /\ calls = <<>> /\ due
  /\ doomed' = {c \in table : TimedOut(c)}
  /\ due' = FALSE
  /\ loopPc' = "expire"
  /\ UNCHANGED <<conn, table, net, queue, revents, starting, leaving, calls>>

\* ... and then closes and removes them, in the order of the table.
ExpireNext(c) ==
  /\ loopPc = "expire" /\ c \in doomed
  /\ doomed' = doomed \ {c}
  /\ FireInactive(c)
  /\ loopPc' = "expiring"
  /\ UNCHANGED <<table, net, queue, revents, starting, calls, due>>

ExpireDone ==
  /\ loopPc = "expire" /\ doomed = {}
  /\ loopPc' = "tasks"
  /\ UNCHANGED <<conn, table, net, queue, revents, starting, leaving, doomed, calls, due>>

NoTimerTick ==
  /\ loopPc = "timer" /\ ~due
  /\ loopPc' = "tasks"
  /\ UNCHANGED <<conn, table, net, queue, revents, starting, leaving, doomed, calls, due>>

\* setupConnection() up to fireActive(): the handlers run before the
\* connection is in the table.
SetupConnection(c) ==
  /\ loopPc = "tasks" /\ calls = <<>> /\ conn[c].fd = "none"
  /\ conn' = [conn EXCEPT ![c].fd = "open", ![c].interest = {"read"}]
  /\ starting' = {c}
  /\ loopPc' = "active"
  /\ UNCHANGED <<table, net, queue, revents, leaving, doomed, calls, due>>

\* fireActive() has returned: addConnection().
AddConnection ==
  /\ loopPc = "active" /\ calls = <<>>
  /\ table' = table \cup starting
  /\ starting' = {}
  /\ loopPc' = "tasks"
  /\ UNCHANGED <<conn, net, queue, revents, leaving, doomed, calls, due>>

TasksDone ==
  /\ loopPc = "tasks" /\ calls = <<>>
  /\ loopPc' = "poll"
  /\ UNCHANGED <<conn, table, net, queue, revents, starting, leaving, doomed, calls, due>>

-----------------------------------------------------------------------------
(* The clock, the kernel and the peer.                                     *)

Older(age) == IF age > ReadTimeout /\ age > WriteTimeout THEN age ELSE age + 1

ClockTick ==
  /\ conn' = [c \in Conns |->
       IF conn[c].fd = "open"
         THEN [conn[c] EXCEPT !.readAge = Older(@), !.writeAge = Older(@)] ELSE conn[c]]
  /\ due' = TRUE
  /\ UNCHANGED <<table, net, loopVars, calls>>

PeerSends(c) ==
  /\ conn[c].fd = "open" /\ net[c].peer = "up" /\ ~net[c].in
  /\ net' = [net EXCEPT ![c].in = TRUE]
  /\ UNCHANGED <<conn, table, loopVars, calls, due>>

PeerReceives(c) ==
  /\ conn[c].fd = "open" /\ net[c].peer # "reset" /\ net[c].out > 0
  /\ net' = [net EXCEPT ![c].out = @ - 1]
  /\ UNCHANGED <<conn, table, loopVars, calls, due>>

PeerFinishes(c) ==
  /\ conn[c].fd = "open" /\ net[c].peer = "up"
  /\ net' = [net EXCEPT ![c].peer = "fin"]
  /\ UNCHANGED <<conn, table, loopVars, calls, due>>

\* What the peer sent before the reset can still be read; what it had not
\* read is gone.
PeerResets(c) ==
  /\ conn[c].fd = "open" /\ net[c].peer # "reset"
  /\ net' = [net EXCEPT ![c].peer = "reset", ![c].out = 0]
  /\ UNCHANGED <<conn, table, loopVars, calls, due>>

-----------------------------------------------------------------------------
UserStep(c) ==
  \/ \E keepAlive \in BOOLEAN : Request(c, keepAlive)
  \/ \E k \in Sizes : WriteAndFlush(c, k) \/ Upgrade(c, k) \/ WriteFrame(c, k)
  \/ Flush(c) \/ Close(c)

EventStep(c) ==
  \/ \E event \in {"read", "write", "error"} : IgnoreEvent(c, event)
  \/ OnReadData(c) \/ OnReadDone(c) \/ OnReadEnd(c) \/ OnWrite(c) \/ OnError(c)
  \/ ExpireNext(c) \/ DropConn(c)

LoopStep ==
  \/ FlushWriteBuf \/ Poll \/ TimerThrows \/ OnTimerTick \/ ExpireDone \/ NoTimerTick
  \/ AddConnection \/ TasksDone

\* User code comes back to the loop.
UserCodeReturns ==
  \/ \E c \in Conns : OnReadDone(c) \/ DropConn(c)
  \/ TimerThrows \/ OnTimerTick \/ AddConnection \/ TasksDone

PeerStep(c) == PeerSends(c) \/ PeerReceives(c) \/ PeerFinishes(c) \/ PeerResets(c)

Next ==
  \/ \E c \in Conns : UserStep(c) \/ EventStep(c) \/ SetupConnection(c) \/ PeerStep(c)
  \/ LoopStep
  \/ ClockTick

\* The worker's thread keeps running: no call it makes blocks, poll() returns
\* after a tick at the latest, and user code returns, however many calls it
\* makes before.  Time passes.  Nothing is assumed of the peer.
Fairness ==
  /\ \A c \in Conns : WF_vars(EventStep(c))
  /\ WF_vars(LoopStep)
  /\ SF_vars(UserCodeReturns)
  /\ WF_vars(ClockTick)

Spec == Init /\ [][Next]_vars
FairSpec == Spec /\ Fairness

-----------------------------------------------------------------------------
(* Properties.                                                             *)

Connection ==
  [fd : {"none", "open", "closed"}, interest : SUBSET {"read", "write"},
   closed : BOOLEAN, keepAlive : BOOLEAN, ws : BOOLEAN, wbuf : Nat, readAge : Nat, writeAge : Nat,
   written : Nat, sent : Nat, inactive : Nat, unregistered : Nat]

TypeOK ==
  /\ conn \in [Conns -> Connection]
  /\ table \in SUBSET Conns /\ starting \in SUBSET Conns
  /\ leaving \in SUBSET Conns /\ doomed \in SUBSET Conns
  /\ net \in [Conns -> [peer : {"up", "fin", "reset"}, in : BOOLEAN, out : 0..SockBuf]]
  /\ loopPc \in {"poll", "events", "read", "inactive", "timer", "expire", "expiring",
                 "tasks", "active"}
  /\ queue \in Seq(Conns) /\ calls \in Seq(Conns)
  /\ revents \in [Conns -> SUBSET {"read", "write", "error"}]
  /\ due \in BOOLEAN

\* A connection's handlers see channelUnregistered at most once, and
\* channelInactive at most once, whichever of handler, task, timer, end of file
\* and poll error close it, and in whatever order.  The exception: a connection
\* on onTimerTick's list that the channelInactive of another one closes is told
\* a second time.
ClosedOnce ==
  \A c \in Conns :
    /\ conn[c].unregistered <= 1
    /\ conn[c].inactive <= (IF InactiveShares THEN 2 ELSE 1)

\* connections_, the open descriptors and the poller agree: no descriptor is
\* open or polled without an owner, and none in the table is closed or
\* unpolled, so each connection in the table can still get events.
TableOwnsSockets ==
  \A c \in Conns :
    /\ c \in table \cup starting <=> conn[c].fd = "open"
    /\ conn[c].fd = "open" <=> conn[c].interest # {}

\* An open connection with unsent bytes waits for the socket to become
\* writable: onWrite() will be called for it.
UnsentIsPolled ==
  \A c \in Conns :
    conn[c].wbuf > 0 /\ ~conn[c].closed /\ calls = <<>> => "write" \in conn[c].interest

\* The write buffer of an open connection shrinks by what the kernel takes.  The
\* code does not keep to that: WriteFrame clears the buffer first.
NoByteDropped ==
  [][\A c \in Conns :
       conn'[c].wbuf < conn[c].wbuf /\ ~conn'[c].closed =>
         net'[c].out = net[c].out + conn[c].wbuf - conn'[c].wbuf]_vars

\* Until it is closed, every byte written to a connection that was not upgraded
\* is in its write buffer or was taken by the kernel: EAGAIN, partial writes,
\* onWrite() and the second flush of writeAndFlush() drop and repeat nothing.
HttpBytesKept ==
  \A c \in Conns :
    ~conn[c].closed /\ ~conn[c].ws => conn[c].written = conn[c].sent + conn[c].wbuf

\* The write buffer of an open HTTP connection never exceeds the watermark.
BacklogBounded == \A c \in Conns : Overflows(conn[c]) => conn[c].closed \/ conn[c].ws

\* If timer callbacks keep throwing, onTimerTick() still gets its turns between.
\* The code does not see to that: the tick of a callback that always throws is
\* replayed for ever.
TimerTicks == []<><<TimerThrows>>_vars => []<>(loopPc = "expire")

\* User code has at last made its last write to c, and its last flush.
LeftAlone(c) == <>[](\A i \in DOMAIN calls : calls[i] # c)

\* Unsent bytes do not stay once the application leaves the connection alone:
\* they are sent, or the connection is closed, even if the peer never reads and
\* keeps sending requests.  While the application goes on, every flush renews
\* lastWriteMs, also one that sends nothing: there only the watermark ends it,
\* and nothing ends it for a WebSocket peer that keeps asking for pongs.
UnsentDrains ==
  \A c \in Conns :
    TimerTicks /\ LeftAlone(c) => ((conn[c].wbuf > 0) ~> (conn[c].wbuf = 0 \/ conn[c].closed))

\* A closed connection is removed from the worker, its descriptor closed.  The
\* code does not keep to that for a connection closed outside of onRead().
ClosedIsRemoved == \A c \in Conns : conn[c].closed ~> c \notin table
=============================================================================
