------------------------------- MODULE PubSub -------------------------------
(***************************************************************************)
(* WebSocket connections on their workers: WebSocketHandler with its ping  *)
(* and pong timers, the WebSocket object handed to user code, and the one  *)
(* TopicTree that all workers share.                                       *)
(*                                                                         *)
(* Every operation of the tree holds its mutex and is one step; between    *)
(* two of them the other workers run.  The Context of a connection owns    *)
(* its WebSocket, which owns its Subscriber: all three go when the         *)
(* connection leaves the worker, while topics hold plain pointers.  A      *)
(* subscriber is therefore named by its socket.  A timer may fire at any   *)
(* time: the lengths of the intervals are abstracted from.                 *)
(***************************************************************************)
EXTENDS Integers, Sequences, FiniteSets

CONSTANTS
  Sockets,      \* upgraded connections
  Workers,
  WorkerOf,     \* the worker of each connection
  Topics,
  Ops,          \* the kinds of messages that peers send
  PingEnabled,  \* pingIntervalMs_ > 0
  WriteErrors,  \* whether a write may find the connection broken
  MaxReads,     \* bound: messages read from one connection
  MaxMsgs       \* bound: messages published

ASSUME SocketsAssumption == IsFiniteSet(Sockets) /\ WorkerOf \in [Sockets -> Workers]
\* The opcodes that WebSocketHandler tells apart; "other" is any other opcode
\* and "http" a message that is not a frame.
ASSUME OpsAssumption == Ops \subseteq {"text", "ping", "pong", "close", "other", "http"}
ASSUME FlagsAssumption == PingEnabled \in BOOLEAN /\ WriteErrors \in BOOLEAN
ASSUME BoundsAssumption == MaxReads \in Nat /\ MaxMsgs \in Nat

VARIABLES
  ws,         \* per connection: Connection::closed_, WsState, WebSocket
  tree,       \* TopicTree::topics, a function on the topics that exist
  call,       \* where onRead() of each connection is, and with which message;
              \* afterwards op is the last message if it was handled to the end
  timers,     \* per worker: the timers in its wheel
  nextId,     \* per worker: TimerWheel::nextId_
  inbox,      \* per connection: the tasks publish() has queued for it
  published,  \* number of messages published
  crashed     \* the process has used memory that was freed

vars == <<ws, tree, call, timers, nextId, inbox, published, crashed>>

\* ping and pong are pingTimerId and pongTimerId, where 0 stands for none.
\* got, heard and reads are history: the messages delivered, whether a frame
\* was handled since the last PING was sent, and the number of messages read.
Init ==
  /\ ws = [w \in Sockets |->
       [conn |-> "open", opened |-> FALSE, waitingPong |-> FALSE, ping |-> 0, pong |-> 0,
        sub |-> FALSE, topics |-> {}, got |-> <<>>, heard |-> TRUE, reads |-> 0]]
  /\ tree = [t \in {} |-> {}]
  /\ call = [w \in Sockets |-> [at |-> "idle", op |-> "none"]]
  /\ timers = [k \in Workers |-> {}]
  /\ nextId = [k \in Workers |-> 0]
  /\ inbox = [w \in Sockets |-> <<>>]
  /\ published = 0
  /\ crashed = FALSE

-----------------------------------------------------------------------------
(* Pieces of the handlers.                                                 *)

LoopFree(k) == \A v \in Sockets : WorkerOf[v] = k => call[v].at = "idle"

\* fireWrite() of a frame: flushWriteBuf() only marks a broken connection.
Written(r) == {r} \cup (IF WriteErrors THEN {[r EXCEPT !.conn = "closed"]} ELSE {})

\* Mutant: only the ping timer is cancelled.
StillArmedPong(w) == {t \in timers[WorkerOf[w]] : t.id # ws[w].ping \/ ws[w].ping = 0}

\* What cancelTimers() leaves in the wheel: an id of 0 is taken for no timer.
StillArmed(w) == {t \in timers[WorkerOf[w]] : t.id \notin {ws[w].ping, ws[w].pong} \ {0}}

CancelTimers(w) == timers' = [timers EXCEPT ![WorkerOf[w]] = StillArmed(w)]

WithoutTimers(r) == [r EXCEPT !.ping = 0, !.pong = 0, !.waitingPong = FALSE]

\* Mutant: the timer is not armed again.
SchedulePingOnce(w, r) ==
  /\ CancelTimers(w)
  /\ UNCHANGED nextId
  /\ ws' = [ws EXCEPT ![w] = WithoutTimers(r)]

\* schedulePing(): cancelTimers(), then a new ping timer.  r is what else the
\* step does to w.
SchedulePing(w, r) ==
  LET k == WorkerOf[w]
  IN  IF PingEnabled
        THEN /\ timers' = [timers EXCEPT ![k] =
                  StillArmed(w) \cup {[id |-> nextId[k], sock |-> w, kind |-> "ping"]}]
             /\ nextId' = [nextId EXCEPT ![k] = @ + 1]
             /\ ws' = [ws EXCEPT ![w] = [WithoutTimers(r) EXCEPT !.ping = nextId[k]]]
        ELSE /\ CancelTimers(w)
             /\ UNCHANGED nextId
             /\ ws' = [ws EXCEPT ![w] = WithoutTimers(r)]

\* Mutant: the topic goes with the first subscriber that is freed.
FreedWithTopic(w) == [t \in DOMAIN tree \ ws[w].topics |-> tree[t]]

\* The tree after freeSubscriber(): a topic goes with its only subscriber.
Freed(w) ==
  [t \in {u \in DOMAIN tree : u \in ws[w].topics => Cardinality(tree[u]) # 1} |->
     IF t \in ws[w].topics THEN tree[t] \ {w} ELSE tree[t]]

WithoutSub(r) == [r EXCEPT !.sub = FALSE, !.topics = {}]

\* WebSocketHandler::channelInactive(); r is what else the step does to w.
ChannelInactive(w, r) ==
  /\ CancelTimers(w)
  /\ tree' = Freed(w)
  /\ ws' = [ws EXCEPT ![w] = WithoutSub(WithoutTimers(r))]

\* removeConn() without channelInactive: the Connection, its Context, the
\* WebSocket and the Subscriber are destroyed.
Destroyed(r) == [WithoutSub(WithoutTimers(r)) EXCEPT !.conn = "gone"]

-----------------------------------------------------------------------------
(* onRead(): the codec hands the handler one message after the other, up   *)
(* to a CLOSE, without looking at closed_ in between.                      *)

\* User code runs: onOpen(), onMessage() or onClose().
InUserCode(w) == call[w].at \in {"onOpen", "onMessage", "onClose"}

Return(w) == call' = [call EXCEPT ![w].at = "between"]

ChannelRead(w, op) ==
  /\ \/ LoopFree(WorkerOf[w]) /\ ws[w].conn = "open"
     \/ call[w].at = "between" /\ call[w].op # "close"
  /\ ws[w].reads < MaxReads
  /\ ws' = [ws EXCEPT ![w].opened = TRUE, ![w].reads = @ + 1]
  /\ call' = [call EXCEPT ![w] = [at |-> IF ws[w].opened THEN "frame" ELSE "onOpen", op |-> op]]
  /\ UNCHANGED <<tree, timers, nextId, inbox, published, crashed>>

\* onOpen() has returned.
OpenDone(w) ==
  /\ call[w].at = "onOpen"
  /\ SchedulePing(w, ws[w])
  /\ call' = [call EXCEPT ![w].at = "frame"]
  /\ UNCHANGED <<tree, inbox, published, crashed>>

OnPong(w) ==
  /\ call[w].at = "frame" /\ call[w].op = "pong"
  /\ SchedulePing(w, [ws[w] EXCEPT !.heard = TRUE])
  /\ Return(w)
  /\ UNCHANGED <<tree, inbox, published, crashed>>

\* A PING is answered.
OnPing(w) ==
  /\ call[w].at = "frame" /\ call[w].op = "ping"
  /\ \E r \in Written([ws[w] EXCEPT !.heard = TRUE]) : SchedulePing(w, r)
  /\ Return(w)
  /\ UNCHANGED <<tree, inbox, published, crashed>>

\* TEXT and BINARY: onMessage(), then schedulePing().
OnText(w) ==
  /\ call[w].at = "frame" /\ call[w].op = "text"
  /\ call' = [call EXCEPT ![w].at = "onMessage"]
  /\ UNCHANGED <<ws, tree, timers, nextId, inbox, published, crashed>>

MessageDone(w) ==
  /\ call[w].at = "onMessage"
  /\ SchedulePing(w, [ws[w] EXCEPT !.heard = TRUE])
  /\ Return(w)
  /\ UNCHANGED <<tree, inbox, published, crashed>>

\* CLOSE: timers and subscriptions go, the frame is echoed, onClose() runs.
OnClose(w) ==
  /\ call[w].at = "frame" /\ call[w].op = "close"
  /\ \E r \in Written([ws[w] EXCEPT !.heard = TRUE]) : ChannelInactive(w, r)
  /\ call' = [call EXCEPT ![w].at = "onClose"]
  /\ UNCHANGED <<nextId, inbox, published, crashed>>

CloseDone(w) ==
  /\ call[w].at = "onClose"
  /\ Return(w)
  /\ UNCHANGED <<ws, tree, timers, nextId, inbox, published, crashed>>

\* User code throws: callH() catches it, what channelRead() had still to do is
\* left out, schedulePing() included, and the codec goes on.
HandlerThrows(w) ==
  /\ InUserCode(w)
  /\ call' = [call EXCEPT ![w] = [at |-> "between", op |-> IF @.op = "close" THEN "close" ELSE "none"]]
  /\ UNCHANGED <<ws, tree, timers, nextId, inbox, published, crashed>>

\* Neither a frame that the handler knows nor, for "http", a frame at all.
OnOther(w) ==
  /\ call[w].at = "frame" /\ call[w].op \in {"other", "http"}
  /\ Return(w)
  /\ UNCHANGED <<ws, tree, timers, nextId, inbox, published, crashed>>

\* The end of onRead(): a connection closed meanwhile is removed, without
\* channelInactive.
ReadDone(w) ==
  /\ call[w].at = "between"
  /\ call' = [call EXCEPT ![w].at = "idle"]
  /\ ws' = IF ws[w].conn = "closed" THEN [ws EXCEPT ![w] = Destroyed(@)] ELSE ws
  /\ UNCHANGED <<tree, timers, nextId, inbox, published, crashed>>

\* End of file, a socket error or a read time-out: setClosed(true),
\* fireInactive() and removeConn() on the worker.
ConnectionLost(w) ==
  /\ LoopFree(WorkerOf[w]) /\ ws[w].conn = "open"
  /\ ChannelInactive(w, [ws[w] EXCEPT !.conn = "gone"])
  /\ UNCHANGED <<call, nextId, inbox, published, crashed>>

-----------------------------------------------------------------------------
(* What user code does in onOpen(), onMessage() and onClose().             *)

\* The tree after TopicTree::subscribe(), which makes the topic if need be.
Joined(w, t) ==
  [u \in DOMAIN tree \cup {t} |->
     IF u = t THEN {w} \cup (IF t \in DOMAIN tree THEN tree[t] ELSE {}) ELSE tree[u]]

\* The tree after TopicTree::unsubscribe(): an empty topic goes.
Left(w, t) ==
  [u \in {u \in DOMAIN tree : u # t \/ tree[u] # {w}} |->
     IF u = t THEN tree[u] \ {w} ELSE tree[u]]

\* WebSocket::subscribe(): the Subscriber is made by the first call.
Subscribe(w, t) ==
  /\ InUserCode(w) /\ t \notin ws[w].topics
  /\ ws' = [ws EXCEPT ![w].sub = TRUE, ![w].topics = @ \cup {t}]
  /\ tree' = Joined(w, t)
  /\ UNCHANGED <<call, timers, nextId, inbox, published, crashed>>

\* WebSocket::unsubscribe(): the Subscriber stays.
Unsubscribe(w, t) ==
  /\ InUserCode(w) /\ t \in ws[w].topics
  /\ ws' = [ws EXCEPT ![w].topics = @ \ {t}]
  /\ tree' = Left(w, t)
  /\ UNCHANGED <<call, timers, nextId, inbox, published, crashed>>

\* TopicTree::publish(): with the mutex held, a task is queued on the worker
\* of each subscriber in to.  A Subscriber that was destroyed is used all the same.
PublishTo(to) ==
  /\ published < MaxMsgs
  /\ published' = published + 1
  /\ inbox' = [w \in Sockets |->
       IF w \in to /\ ws[w].conn # "gone" THEN Append(inbox[w], published + 1) ELSE inbox[w]]
  /\ crashed' \in {b \in BOOLEAN : b => \E w \in to : ws[w].conn = "gone"}
  /\ UNCHANGED <<ws, tree, call, timers, nextId>>

\* WebSocket::publish(): not to the sender.
Publish(w, t) == InUserCode(w) /\ ws[w].sub /\ t \in DOMAIN tree /\ PublishTo(tree[t] \ {w})

\* WebSocket::broadcast(): to all.
Broadcast(w, t) == InUserCode(w) /\ t \in DOMAIN tree /\ PublishTo(tree[t])

\* WebSocket::send(): drain() finds nothing, a frame is written.
Send(w) ==
  /\ InUserCode(w)
  /\ \E r \in Written(ws[w]) : ws' = [ws EXCEPT ![w] = r]
  /\ UNCHANGED <<tree, call, timers, nextId, inbox, published, crashed>>

\* WebSocket::close(): freeSubscriber() and a CLOSE frame.
CloseFrame(w) ==
  /\ InUserCode(w)
  /\ tree' = Freed(w)
  /\ \E r \in Written(ws[w]) : ws' = [ws EXCEPT ![w] = WithoutSub(r)]
  /\ UNCHANGED <<call, timers, nextId, inbox, published, crashed>>

\* Context::close().
ContextClose(w) ==
  /\ InUserCode(w) /\ ws[w].conn = "open"
  /\ ChannelInactive(w, [ws[w] EXCEPT !.conn = "closed"])
  /\ UNCHANGED <<call, nextId, inbox, published, crashed>>

-----------------------------------------------------------------------------
(* Timers and tasks of a worker.                                           *)

\* The handler's context is alive: its connection is, or a task holds it.
ContextAlive(w) == ws[w].conn # "gone" \/ inbox[w] # <<>>

\* The ping timer: send a PING and arm the pong timer, unless a PONG is
\* awaited.  state() looks into the Context, which goes with the connection.
PingTimer(w, t) ==
  LET k == WorkerOf[w]
      rest == timers[k] \ {t}
  IN  /\ LoopFree(k) /\ t \in timers[k] /\ t.sock = w /\ t.kind = "ping"
      /\ crashed' = (ws[w].conn = "gone" /\ ContextAlive(w))
      /\ IF ws[w].conn = "gone" \/ ws[w].waitingPong
           THEN /\ timers' = [timers EXCEPT ![k] = rest]
                /\ UNCHANGED <<ws, nextId>>
           ELSE /\ timers' = [timers EXCEPT ![k] =
                     rest \cup {[id |-> nextId[k], sock |-> w, kind |-> "pong"]}]
                /\ nextId' = [nextId EXCEPT ![k] = @ + 1]
                /\ \E r \in Written(ws[w]) :
                     ws' = [ws EXCEPT ![w] = [r EXCEPT !.waitingPong = TRUE, !.ping = 0,
                                                       !.pong = nextId[k], !.heard = FALSE]]
      /\ UNCHANGED <<tree, call, inbox, published>>

\* The pong timer: Context::close().
PongTimer(w, t) ==
  LET k == WorkerOf[w]
      rest == timers[k] \ {t}
  IN  /\ LoopFree(k) /\ t \in timers[k] /\ t.sock = w /\ t.kind = "pong"
      /\ IF ws[w].conn = "open"
           THEN /\ timers' = [timers EXCEPT ![k] = StillArmed(w) \ {t}]
                /\ tree' = Freed(w)
                /\ ws' = [ws EXCEPT ![w] =
                     WithoutSub(WithoutTimers([ws[w] EXCEPT !.conn = "closed"]))]
           ELSE /\ timers' = [timers EXCEPT ![k] = rest]
                /\ UNCHANGED <<ws, tree>>
      /\ UNCHANGED <<call, nextId, inbox, published, crashed>>

\* Mutant: the youngest task first.
DeliverLast(w) ==
  /\ LoopFree(WorkerOf[w]) /\ inbox[w] # <<>>
  /\ inbox' = [inbox EXCEPT ![w] = SubSeq(@, 1, Len(@) - 1)]
  /\ ws' = [ws EXCEPT ![w].got = Append(@, inbox[w][Len(inbox[w])])]
  /\ UNCHANGED <<tree, call, timers, nextId, published, crashed>>

\* A task of publish(): the frame is written if the connection is active.
Deliver(w) ==
  /\ LoopFree(WorkerOf[w]) /\ inbox[w] # <<>>
  /\ inbox' = [inbox EXCEPT ![w] = Tail(@)]
  /\ IF ws[w].conn = "open"
       THEN \E r \in Written([ws[w] EXCEPT !.got = Append(@, Head(inbox[w]))]) :
              ws' = [ws EXCEPT ![w] = r]
       ELSE UNCHANGED ws
  /\ UNCHANGED <<tree, call, timers, nextId, published, crashed>>

-----------------------------------------------------------------------------
ReadStep(w) ==
  \/ OpenDone(w) \/ OnPong(w) \/ OnPing(w) \/ OnText(w) \/ MessageDone(w)
  \/ OnClose(w) \/ CloseDone(w) \/ HandlerThrows(w) \/ OnOther(w) \/ ReadDone(w)

UserStep(w) ==
  \/ \E t \in Topics : Subscribe(w, t) \/ Unsubscribe(w, t) \/ Publish(w, t) \/ Broadcast(w, t)
  \/ Send(w) \/ CloseFrame(w) \/ ContextClose(w)

TimerStep(w) == \E t \in timers[WorkerOf[w]] : PingTimer(w, t) \/ PongTimer(w, t)

Next ==
  /\ ~crashed
  /\ \E w \in Sockets :
       \/ \E op \in Ops : ChannelRead(w, op)
       \/ ReadStep(w) \/ UserStep(w) \/ TimerStep(w) \/ Deliver(w) \/ ConnectionLost(w)

Spec == Init /\ [][Next]_vars

\* A worker's thread goes on: user code returns or throws, due timers fire, queued tasks
\* run.  Nothing is assumed of the peer.
Fairness ==
  \A w \in Sockets : WF_vars(~crashed /\ ReadStep(w)) /\ SF_vars(~crashed /\ TimerStep(w))
                     /\ SF_vars(~crashed /\ Deliver(w))

FairSpec == Spec /\ Fairness

-----------------------------------------------------------------------------
(* Properties.                                                             *)

Socket ==
  [conn : {"open", "closed", "gone"}, opened : BOOLEAN, waitingPong : BOOLEAN, ping : Nat,
   pong : Nat, sub : BOOLEAN, topics : SUBSET Topics, got : Seq(Nat), heard : BOOLEAN,
   reads : Nat]
Timer == [id : Nat, sock : Sockets, kind : {"ping", "pong"}]

TypeOK ==
  /\ ws \in [Sockets -> Socket]
  /\ DOMAIN tree \subseteq Topics /\ tree \in [DOMAIN tree -> SUBSET Sockets]
  /\ call \in [Sockets -> [at : {"idle", "onOpen", "frame", "onMessage", "onClose", "between"},
                           op : Ops \cup {"none"}]]
  /\ timers \in [Workers -> SUBSET Timer]
  /\ nextId \in [Workers -> Nat]
  /\ inbox \in [Sockets -> Seq(Nat)]
  /\ published \in Nat /\ crashed \in BOOLEAN

\* The two directions of the tree agree: a subscriber is in the topics it
\* knows of and in no other, and there is no empty topic.  Only a connection
\* that was removed may be left behind in a topic.
TreeMatches ==
  /\ \A t \in DOMAIN tree : tree[t] # {}
  /\ \A w \in Sockets :
       /\ \A t \in ws[w].topics : t \in DOMAIN tree /\ w \in tree[t]
       /\ \A t \in DOMAIN tree : w \in tree[t] => t \in ws[w].topics \/ ws[w].conn = "gone"

\* A connection gets the messages of all publishers once each, in the order in
\* which they were published.
InOrder ==
  \A w \in Sockets : LET all == ws[w].got \o inbox[w]
                     IN  \A i, j \in DOMAIN all : i < j => all[i] < all[j]

\* A pong time-out is pending only while no frame was handled since the PING: a
\* peer that answers, with a PONG or with anything else that user code does not
\* throw at, is not closed by it.
LivePeerKept ==
  \A w \in Sockets : \A t \in timers[WorkerOf[w]] :
    t.sock = w /\ t.kind = "pong" /\ ws[w].conn = "open" => ws[w].waitingPong /\ ~ws[w].heard

\* A peer that stops sending is closed, whatever it sent before, if the last
\* thing it sent was a message, a PING or a PONG and was handled to the end.
SilentPeerClosed ==
  \A w \in Sockets :
    (call[w].at = "idle" /\ call[w].op \in {"text", "ping", "pong"})
      ~> (call[w].at # "idle" \/ ws[w].conn # "open" \/ crashed)

\* A connection that is gone is in no topic.  The code does not keep to that:
\* Written may mark a connection closed, which ReadDone then removes without
\* channelInactive.
GoneIsUnsubscribed ==
  \A w \in Sockets : ws[w].conn = "gone" => \A t \in DOMAIN tree : w \notin tree[t]
=============================================================================
