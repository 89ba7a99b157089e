--------------------------- MODULE PubSub_proofs ---------------------------
(***************************************************************************)
(* The topic tree and the ping and pong timers of PubSub, for any number   *)
(* of connections, workers and topics.                                     *)
(***************************************************************************)
EXTENDS PubSub, FiniteSetTheorems, TLAPS

\* Timers are in the wheel of their connection's worker, under an id that was
\* given out.  A pending pong timer is the one WsState knows of, has an id that
\* is not taken for none, and nothing was heard since its PING was sent.
TimerInv ==
  \A k \in Workers : \A t \in timers[k] :
    /\ t.id < nextId[k] /\ WorkerOf[t.sock] = k
    /\ t.kind = "pong" /\ ws[t.sock].conn # "gone" =>
         /\ t.id # 0 /\ t.id = ws[t.sock].pong
         /\ ws[t.sock].waitingPong = TRUE /\ ws[t.sock].heard = FALSE

\* onRead() runs for connections that have not been removed.
CallInv == \A w \in Sockets : call[w].at # "idle" => ws[w].conn # "gone"

PubSubInv == TypeOK /\ TreeMatches /\ TimerInv /\ CallInv

-----------------------------------------------------------------------------
(* Operations on the record of one connection.                             *)

\* What the pieces of the handlers do to a record.
LEMMA RecordPieces ==
  ASSUME NEW r \in Socket
  PROVE  /\ WithoutTimers(r) \in Socket /\ WithoutTimers(r).pong = 0
         /\ WithoutTimers(r).topics = r.topics /\ WithoutTimers(r).conn = r.conn
         /\ \A n \in Nat : /\ [WithoutTimers(r) EXCEPT !.ping = n] \in Socket
                           /\ [WithoutTimers(r) EXCEPT !.ping = n].pong = 0
                           /\ [WithoutTimers(r) EXCEPT !.ping = n].topics = r.topics
                           /\ [WithoutTimers(r) EXCEPT !.ping = n].conn = r.conn
         /\ WithoutSub(r) \in Socket /\ WithoutSub(r).topics = {} /\ WithoutSub(r).conn = r.conn
         /\ WithoutSub(r).pong = r.pong /\ WithoutSub(r).waitingPong = r.waitingPong
         /\ WithoutSub(r).heard = r.heard
  BY DEF Socket, WithoutTimers, WithoutSub

\* A write changes nothing but closed_.
LEMMA WriteKeeps ==
  ASSUME NEW r \in Socket, NEW s \in Written(r)
  PROVE  /\ s \in Socket /\ s.topics = r.topics /\ s.pong = r.pong
         /\ s.waitingPong = r.waitingPong /\ s.heard = r.heard
         /\ s.conn = r.conn \/ s.conn = "closed"
  BY DEF Socket, Written

-----------------------------------------------------------------------------
(* Steps that change the record of one connection: the parts of the        *)
(* invariant.                                                              *)

\* The tree is left alone, and so are the topics of the connection, unless it
\* is removed.
LEMMA TreeKept ==
  ASSUME PubSubInv, NEW w \in Sockets, NEW s \in Socket, ws' = [ws EXCEPT ![w] = s],
         tree' = tree,
         \/ s.topics = ws[w].topics /\ (ws[w].conn = "gone" => s.conn = "gone")
         \/ s.topics = {} /\ s.conn = "gone"
  PROVE  TreeMatches'
  BY DEF PubSubInv, TypeOK, TreeMatches

\* freeSubscriber() takes the connection out of all its topics.
LEMMA FreedKeeps ==
  ASSUME PubSubInv, NEW w \in Sockets, NEW s \in Socket, ws' = [ws EXCEPT ![w] = s],
         tree' = Freed(w), s.topics = {}, ws[w].conn = "gone" => s.conn = "gone"
  PROVE  /\ TreeMatches'
         /\ DOMAIN tree' \subseteq Topics /\ tree' \in [DOMAIN tree' -> SUBSET Sockets]
<1> DEFINE D == {u \in DOMAIN tree : u \in ws[w].topics => Cardinality(tree[u]) # 1}
<1>1. /\ DOMAIN tree' = D /\ D \subseteq DOMAIN tree
      /\ \A t \in D : tree'[t] = IF t \in ws[w].topics THEN tree[t] \ {w} ELSE tree[t]
      /\ tree' = [t \in D |-> IF t \in ws[w].topics THEN tree[t] \ {w} ELSE tree[t]]
  BY DEF Freed
<1>2. \A t \in DOMAIN tree : tree[t] \subseteq Sockets /\ IsFiniteSet(tree[t])
  BY FS_Subset, SocketsAssumption DEF PubSubInv, TypeOK
<1>3. \A t \in DOMAIN tree : t \in ws[w].topics /\ Cardinality(tree[t]) = 1 => tree[t] = {w}
  <2> SUFFICES ASSUME NEW t \in DOMAIN tree, t \in ws[w].topics, Cardinality(tree[t]) = 1
               PROVE  tree[t] = {w}
    OBVIOUS
  <2>1. w \in tree[t]
    BY DEF PubSubInv, TreeMatches
  <2>2. PICK x : tree[t] = {x}
    BY <1>2, FS_Singleton
  <2> QED BY <2>1, <2>2
<1>4. \A t \in D : t \in ws[w].topics => tree[t] # {w}
  <2> SUFFICES ASSUME NEW t \in D, t \in ws[w].topics, tree[t] = {w} PROVE FALSE
    OBVIOUS
  <2>1. Cardinality({w}) = 1
    BY FS_Singleton
  <2> QED BY <2>1
<1> HIDE DEF D
<1>5. \A t \in D : tree'[t] # {}
  BY <1>1, <1>4 DEF PubSubInv, TreeMatches
<1>6. \A v \in Sockets : v # w => ws'[v] = ws[v]
  BY DEF PubSubInv, TypeOK
<1>7. ws'[w] = s
  BY DEF PubSubInv, TypeOK
<1>8. \A v \in Sockets : \A t \in ws'[v].topics : t \in D /\ v \in tree'[t]
  <2> SUFFICES ASSUME NEW v \in Sockets, NEW t \in ws'[v].topics PROVE t \in D /\ v \in tree'[t]
    OBVIOUS
  <2>1. v # w /\ ws'[v] = ws[v]
    BY <1>6, <1>7
  <2>2. t \in DOMAIN tree /\ v \in tree[t]
    BY <2>1 DEF PubSubInv, TreeMatches
  <2>3. t \in D
    BY <2>1, <2>2, <1>3 DEF D
  <2> QED BY <1>1, <2>1, <2>2, <2>3
<1>9. \A v \in Sockets : \A t \in D :
        v \in tree'[t] => t \in ws'[v].topics \/ ws'[v].conn = "gone"
  <2> SUFFICES ASSUME NEW v \in Sockets, NEW t \in D, v \in tree'[t]
               PROVE  t \in ws'[v].topics \/ ws'[v].conn = "gone"
    OBVIOUS
  <2>1. v \in tree[t] /\ t \in DOMAIN tree
    BY <1>1
  <2>2. t \in ws[v].topics \/ ws[v].conn = "gone"
    BY <2>1 DEF PubSubInv, TreeMatches
  <2>3. CASE v # w
    BY <2>2, <2>3, <1>6
  <2>4. CASE v = w
    BY <2>2, <2>4, <1>1, <1>7
  <2> QED BY <2>3, <2>4
<1>10. D \subseteq Topics
  BY <1>1 DEF PubSubInv, TypeOK
<1>11. \A t \in D : tree'[t] \subseteq Sockets
  BY <1>1, <1>2
<1>12. tree' \in [DOMAIN tree' -> SUBSET Sockets]
  BY <1>1, <1>11
<1>13. TreeMatches'
  BY <1>1, <1>5, <1>8, <1>9 DEF TreeMatches
<1> QED BY <1>1, <1>10, <1>12, <1>13

\* The timers are left alone, and so is what the record says of them, unless
\* the connection is removed.
LEMMA TimersKept ==
  ASSUME PubSubInv, NEW w \in Sockets, NEW s \in Socket, ws' = [ws EXCEPT ![w] = s],
         UNCHANGED <<timers, nextId>>,
         \/ /\ s.pong = ws[w].pong /\ s.waitingPong = ws[w].waitingPong
            /\ s.heard = ws[w].heard /\ (ws[w].conn = "gone" => s.conn = "gone")
         \/ s.conn = "gone"
  PROVE  TimerInv'
  BY DEF PubSubInv, TypeOK, TimerInv, Timer

\* After cancelTimers() no pong timer of the connection is left.
LEMMA CancelKeeps ==
  ASSUME PubSubInv, NEW w \in Sockets, NEW s \in Socket, ws' = [ws EXCEPT ![w] = s],
         ws[w].conn = "gone" => s.conn = "gone",
         CancelTimers(w), UNCHANGED nextId
  PROVE  /\ TimerInv' /\ timers' \in [Workers -> SUBSET Timer]
         /\ \A t \in timers'[WorkerOf[w]] :
              t.kind = "pong" /\ t.sock = w => ws[w].conn = "gone"
<1> DEFINE k == WorkerOf[w]
<1>1. /\ k \in Workers /\ timers' = [timers EXCEPT ![k] = StillArmed(w)]
      /\ timers'[k] = StillArmed(w) /\ StillArmed(w) \subseteq timers[k]
      /\ \A j \in Workers : timers'[j] \subseteq timers[j]
  BY SocketsAssumption DEF CancelTimers, StillArmed, PubSubInv, TypeOK
<1>2. timers' \in [Workers -> SUBSET Timer]
  BY <1>1 DEF PubSubInv, TypeOK
<1>3. \A t \in timers'[k] : t.kind = "pong" /\ t.sock = w => ws[w].conn = "gone"
  BY <1>1 DEF StillArmed, PubSubInv, TimerInv
<1>4. \A v \in Sockets : ws'[v] = IF v = w THEN s ELSE ws[v]
  BY DEF PubSubInv, TypeOK
<1>5. TimerInv'
  <2> SUFFICES ASSUME NEW j \in Workers, NEW t \in timers'[j]
               PROVE  /\ t.id < nextId[j] /\ WorkerOf[t.sock] = j
                      /\ t.kind = "pong" /\ ws'[t.sock].conn # "gone" =>
                           /\ t.id # 0 /\ t.id = ws'[t.sock].pong
                           /\ ws'[t.sock].waitingPong = TRUE /\ ws'[t.sock].heard = FALSE
    BY DEF TimerInv
  <2>1. t \in timers[j] /\ t \in Timer
    BY <1>1, <1>2
  <2>2. t.id < nextId[j] /\ WorkerOf[t.sock] = j /\ t.sock \in Sockets
    BY <2>1 DEF PubSubInv, TimerInv, Timer
  <2>3. CASE t.sock # w
    BY <2>1, <2>2, <2>3, <1>4 DEF PubSubInv, TimerInv
  <2>4. CASE t.sock = w
    BY <2>2, <2>4, <1>3, <1>4
  <2> QED BY <2>2, <2>3, <2>4
<1> QED BY <1>2, <1>3, <1>5

\* schedulePing() adds a ping timer to what cancelTimers() leaves.
LEMMA ScheduleKeeps ==
  ASSUME PubSubInv, NEW w \in Sockets, NEW r \in Socket,
         r.topics = ws[w].topics, ws[w].conn = "gone" => r.conn = "gone",
         SchedulePing(w, r)
  PROVE  /\ TimerInv' /\ timers' \in [Workers -> SUBSET Timer]
         /\ nextId' \in [Workers -> Nat]
         /\ \E s \in Socket : /\ ws' = [ws EXCEPT ![w] = s]
                              /\ s.topics = ws[w].topics /\ s.conn = r.conn
<1> DEFINE k == WorkerOf[w]
           u == WithoutTimers(r)
<1>1. /\ k \in Workers /\ nextId \in [Workers -> Nat] /\ timers \in [Workers -> SUBSET Timer]
      /\ nextId[k] \in Nat /\ ws \in [Sockets -> Socket]
  BY SocketsAssumption DEF PubSubInv, TypeOK
<1>2. CASE ~PingEnabled
  <2>1. CancelTimers(w) /\ UNCHANGED nextId /\ ws' = [ws EXCEPT ![w] = u]
    BY <1>2 DEF SchedulePing
  <2>2. u \in Socket /\ u.topics = r.topics /\ u.conn = r.conn
    BY RecordPieces
  <2> HIDE DEF u
  <2> QED BY <1>1, <2>1, <2>2, CancelKeeps
<1>3. CASE PingEnabled
  <2> DEFINE s == [u EXCEPT !.ping = nextId[k]]
             p == [id |-> nextId[k], sock |-> w, kind |-> "ping"]
  <2>1. /\ timers' = [timers EXCEPT ![k] = StillArmed(w) \cup {p}]
        /\ nextId' = [nextId EXCEPT ![k] = nextId[k] + 1]
        /\ ws' = [ws EXCEPT ![w] = s]
    BY <1>1, <1>3 DEF SchedulePing
  <2>2. s \in Socket /\ s.topics = r.topics /\ s.conn = r.conn
    BY <1>1, RecordPieces
  <2>3. p \in Timer /\ p.id = nextId[k] /\ p.sock = w /\ p.kind = "ping"
    BY <1>1 DEF Timer
  <2> HIDE DEF s, p, u
  <2>4. StillArmed(w) \subseteq timers[k]
    BY DEF StillArmed
  <2>5. /\ timers'[k] = StillArmed(w) \cup {p}
        /\ \A j \in Workers : j # k => timers'[j] = timers[j]
        /\ timers' \in [Workers -> SUBSET Timer]
    BY <1>1, <2>1, <2>3, <2>4
  <2>6. /\ nextId' \in [Workers -> Nat]
        /\ \A j \in Workers : nextId'[j] \in Nat /\ nextId[j] <= nextId'[j]
        /\ nextId[k] < nextId'[k]
    BY <1>1, <2>1
  <2>7. \A v \in Sockets : ws'[v] = IF v = w THEN s ELSE ws[v]
    BY <1>1, <2>1
  <2>8. TimerInv'
    <3> SUFFICES ASSUME NEW j \in Workers, NEW t \in timers'[j]
                 PROVE  /\ t.id < nextId'[j] /\ WorkerOf[t.sock] = j
                        /\ t.kind = "pong" /\ ws'[t.sock].conn # "gone" =>
                             /\ t.id # 0 /\ t.id = ws'[t.sock].pong
                             /\ ws'[t.sock].waitingPong = TRUE /\ ws'[t.sock].heard = FALSE
      BY DEF TimerInv
    <3>1. CASE j = k /\ t = p
      BY <1>1, <2>3, <2>6, <3>1
    <3>2. CASE ~(j = k /\ t = p)
      <4>1. /\ t \in timers[j] /\ t \in Timer /\ t.id \in Nat /\ t.sock \in Sockets
            /\ j = k => t \in StillArmed(w)
        BY <1>1, <2>4, <2>5, <3>2 DEF Timer
      <4>2. t.id < nextId[j] /\ WorkerOf[t.sock] = j
        BY <4>1 DEF PubSubInv, TimerInv
      <4>3. t.id < nextId'[j]
        BY <1>1, <2>6, <4>1, <4>2
      <4>4. CASE t.sock # w
        BY <2>7, <4>1, <4>2, <4>3, <4>4 DEF PubSubInv, TimerInv
      <4>5. CASE t.sock = w
        <5>1. t \in StillArmed(w)
          BY <4>1, <4>2, <4>5
        <5>2. t.kind = "pong" => ws[w].conn = "gone"
          BY <1>1, <4>1, <4>5, <5>1 DEF StillArmed, PubSubInv, TimerInv
        <5> QED BY <2>2, <2>7, <4>2, <4>3, <4>5, <5>2
      <4> QED BY <4>4, <4>5
    <3> QED BY <3>1, <3>2
  <2> QED BY <2>1, <2>2, <2>5, <2>6, <2>8
<1> QED BY <1>2, <1>3

\* channelInactive() cancels the timers and frees the subscriber.
LEMMA InactiveKeeps ==
  ASSUME PubSubInv, NEW w \in Sockets, NEW r \in Socket,
         ws[w].conn = "gone" => r.conn = "gone", ChannelInactive(w, r), UNCHANGED nextId
  PROVE  /\ TimerInv' /\ timers' \in [Workers -> SUBSET Timer]
         /\ TreeMatches' /\ DOMAIN tree' \subseteq Topics
         /\ tree' \in [DOMAIN tree' -> SUBSET Sockets]
         /\ \E s \in Socket : ws' = [ws EXCEPT ![w] = s] /\ s.conn = r.conn
<1> DEFINE u == WithoutTimers(r)
           s == WithoutSub(u)
<1>1. CancelTimers(w) /\ tree' = Freed(w) /\ ws' = [ws EXCEPT ![w] = s]
  BY DEF ChannelInactive
<1>2. u \in Socket /\ u.conn = r.conn
  BY RecordPieces
<1> HIDE DEF u
<1>3. s \in Socket /\ s.conn = r.conn /\ s.topics = {}
  BY <1>2, RecordPieces
<1> HIDE DEF s
<1> QED BY <1>1, <1>3, CancelKeeps, FreedKeeps

-----------------------------------------------------------------------------
(* The steps.                                                              *)

\* What the steps of onRead() do to call.
LEMMA CallMoves ==
  ASSUME PubSubInv, NEW w \in Sockets, NEW s \in Socket, ws' = [ws EXCEPT ![w] = s],
         NEW c \in [at : {"idle", "onOpen", "frame", "onMessage", "onClose", "between"},
                    op : Ops \cup {"none"}],
         call' = [call EXCEPT ![w] = c], c.at # "idle" => s.conn # "gone"
  PROVE  /\ CallInv' /\ ws' \in [Sockets -> Socket]
         /\ call' \in [Sockets -> [at : {"idle", "onOpen", "frame", "onMessage", "onClose", "between"},
                           op : Ops \cup {"none"}]]
  BY DEF PubSubInv, TypeOK, CallInv

\* channelRead() with one message, and its end.
LEMMA ReadSteps ==
  ASSUME PubSubInv, NEW w \in Sockets, ReadStep(w) \/ \E op \in Ops : ChannelRead(w, op)
  PROVE  PubSubInv'
<1> DEFINE At == {"idle", "onOpen", "frame", "onMessage", "onClose", "between"}
           c(a) == [call[w] EXCEPT !.at = a]
           q == ws[w]
           h == [q EXCEPT !.heard = TRUE]
<1>1. /\ ws \in [Sockets -> Socket] /\ q \in Socket /\ call[w].op \in Ops \cup {"none"}
      /\ \A a \in At : c(a) \in [at : At, op : Ops \cup {"none"}] /\ c(a).at = a
      /\ call[w].at # "idle" => q.conn # "gone"
  BY DEF PubSubInv, TypeOK, CallInv
<1>2. h \in Socket /\ h.topics = q.topics /\ h.conn = q.conn
  BY <1>1 DEF Socket
<1> HIDE DEF c, h, q
<1>3. ASSUME NEW r \in Socket, r.topics = q.topics, r.conn = q.conn \/ r.conn = "closed",
             SchedulePing(w, r), NEW a \in At, call' = [call EXCEPT ![w] = c(a)],
             call[w].at # "idle", UNCHANGED <<tree, inbox, published, crashed>>
      PROVE  PubSubInv'
  <2>1. q.conn # "gone" /\ r.conn # "gone"
    BY <1>1, <1>3
  <2>2. /\ TimerInv' /\ timers' \in [Workers -> SUBSET Timer] /\ nextId' \in [Workers -> Nat]
        /\ \E s \in Socket : /\ ws' = [ws EXCEPT ![w] = s]
                             /\ s.topics = q.topics /\ s.conn = r.conn
    BY <1>3, <2>1, ScheduleKeeps DEF q
  <2>3. PICK s \in Socket : ws' = [ws EXCEPT ![w] = s] /\ s.topics = q.topics /\ s.conn = r.conn
    BY <2>2
  <2>4. CallInv' /\ ws' \in [Sockets -> Socket] /\ call' \in [Sockets -> [at : At, op : Ops \cup {"none"}]]
    BY <1>1, <1>3, <2>1, <2>3, CallMoves
  <2>5. TreeMatches'
    BY <1>3, <2>1, <2>3, TreeKept DEF q
  <2> QED BY <1>3, <2>2, <2>4, <2>5 DEF PubSubInv, TypeOK
<1>4. ASSUME NEW d \in [at : At, op : Ops \cup {"none"}], call' = [call EXCEPT ![w] = d],
             call[w].at # "idle", UNCHANGED <<ws, tree, timers, nextId, inbox, published, crashed>>
      PROVE  PubSubInv'
  <2>1. ws' = [ws EXCEPT ![w] = q]
    BY <1>1, <1>4 DEF q
  <2>2. CallInv' /\ ws' \in [Sockets -> Socket] /\ call' \in [Sockets -> [at : At, op : Ops \cup {"none"}]]
    BY <1>1, <1>4, <2>1, CallMoves
  <2>3. TreeMatches' /\ TimerInv'
    BY <1>4 DEF PubSubInv, TreeMatches, TimerInv
  <2> QED BY <1>4, <2>2, <2>3 DEF PubSubInv, TypeOK
<1>5. CASE OpenDone(w)
  <2>1. SchedulePing(w, q) /\ call' = [call EXCEPT ![w] = c("frame")] /\ call[w].at # "idle"
        /\ UNCHANGED <<tree, inbox, published, crashed>>
    BY <1>5 DEF OpenDone, q, c
  <2> QED BY <1>1, <1>3, <2>1
<1>6. CASE OnPong(w) \/ MessageDone(w)
  <2>1. SchedulePing(w, h) /\ call' = [call EXCEPT ![w] = c("between")] /\ call[w].at # "idle"
        /\ UNCHANGED <<tree, inbox, published, crashed>>
    BY <1>6 DEF OnPong, MessageDone, Return, q, h, c
  <2> QED BY <1>2, <1>3, <2>1
<1>7. CASE OnPing(w)
  <2>1. PICK r \in Written(h) :
          SchedulePing(w, r) /\ call' = [call EXCEPT ![w] = c("between")] /\ call[w].at # "idle"
          /\ UNCHANGED <<tree, inbox, published, crashed>>
    BY <1>7 DEF OnPing, Return, q, h, c
  <2>2. r \in Socket /\ r.topics = q.topics /\ (r.conn = q.conn \/ r.conn = "closed")
    BY <1>2, WriteKeeps
  <2> QED BY <1>3, <2>1, <2>2
<1>8. CASE OnText(w) \/ CloseDone(w) \/ OnOther(w)
  <2>1. \E a \in At : call' = [call EXCEPT ![w] = c(a)] /\ call[w].at # "idle"
    BY <1>8 DEF OnText, CloseDone, OnOther, Return, c
  <2> QED BY <1>1, <1>4, <1>8, <2>1 DEF OnText, CloseDone, OnOther
<1>9. CASE OnClose(w)
  <2>1. PICK r \in Written(h) : ChannelInactive(w, r)
    BY <1>9 DEF OnClose, h, q
  <2>2. /\ call' = [call EXCEPT ![w] = c("onClose")] /\ call[w].at # "idle"
        /\ UNCHANGED <<nextId, inbox, published, crashed>>
    BY <1>9 DEF OnClose, c
  <2>3. r \in Socket /\ r.conn # "gone" /\ q.conn # "gone"
    BY <1>1, <1>2, <2>2, WriteKeeps
  <2>4. /\ TimerInv' /\ timers' \in [Workers -> SUBSET Timer]
        /\ TreeMatches' /\ DOMAIN tree' \subseteq Topics
        /\ tree' \in [DOMAIN tree' -> SUBSET Sockets]
        /\ \E s \in Socket : ws' = [ws EXCEPT ![w] = s] /\ s.conn = r.conn
    BY <2>1, <2>2, <2>3, InactiveKeeps DEF q
  <2>5. PICK s \in Socket : ws' = [ws EXCEPT ![w] = s] /\ s.conn = r.conn
    BY <2>4
  <2>6. CallInv' /\ ws' \in [Sockets -> Socket] /\ call' \in [Sockets -> [at : At, op : Ops \cup {"none"}]]
    BY <1>1, <2>2, <2>3, <2>5, CallMoves
  <2> QED BY <2>2, <2>4, <2>6 DEF PubSubInv, TypeOK
<1>10. CASE ReadDone(w)
  <2> DEFINE s == IF q.conn = "closed" THEN Destroyed(q) ELSE q
             u == WithoutTimers(q)
             v == WithoutSub(u)
  <2>1. /\ ws' = [ws EXCEPT ![w] = s] /\ call' = [call EXCEPT ![w] = c("idle")]
        /\ UNCHANGED <<tree, timers, nextId, inbox, published, crashed>>
    BY <1>1, <1>10 DEF ReadDone, c, q
  <2>2. s \in Socket /\ (s = q \/ (s.conn = "gone" /\ s.topics = {}))
    <3>1. CASE q.conn # "closed"
      BY <1>1, <3>1
    <3>2. CASE q.conn = "closed"
      <4>1. u \in Socket
        BY <1>1, RecordPieces
      <4> HIDE DEF u
      <4>2. v \in Socket /\ v.topics = {}
        BY <4>1, RecordPieces
      <4> HIDE DEF v
      <4>3. [v EXCEPT !.conn = "gone"] \in Socket /\ [v EXCEPT !.conn = "gone"].conn = "gone"
            /\ [v EXCEPT !.conn = "gone"].topics = {}
        BY <4>2 DEF Socket
      <4>4. s = [v EXCEPT !.conn = "gone"]
        BY <3>2 DEF Destroyed, v, u
      <4> QED BY <4>3, <4>4
    <3> QED BY <3>1, <3>2
  <2> HIDE DEF s
  <2>3. CallInv' /\ ws' \in [Sockets -> Socket] /\ call' \in [Sockets -> [at : At, op : Ops \cup {"none"}]]
    BY <1>1, <2>1, <2>2, CallMoves
  <2>4. TreeMatches' /\ TimerInv'
    BY <2>1, <2>2, TreeKept, TimersKept DEF q
  <2> QED BY <2>1, <2>3, <2>4 DEF PubSubInv, TypeOK
<1>11. CASE \E op \in Ops : ChannelRead(w, op)
  <2>1. PICK op \in Ops : ChannelRead(w, op)
    BY <1>11
  <2> DEFINE s == [q EXCEPT !.opened = TRUE, !.reads = q.reads + 1]
             d == [at |-> IF q.opened THEN "frame" ELSE "onOpen", op |-> op]
  <2>2. /\ ws' = [ws EXCEPT ![w] = s] /\ call' = [call EXCEPT ![w] = d]
        /\ UNCHANGED <<tree, timers, nextId, inbox, published, crashed>>
    BY <1>1, <2>1 DEF ChannelRead, q
  <2>3. q.conn # "gone"
    BY <1>1, <2>1 DEF ChannelRead, q
  <2>4. /\ s \in Socket /\ s.topics = q.topics /\ s.conn = q.conn /\ s.pong = q.pong
        /\ s.waitingPong = q.waitingPong /\ s.heard = q.heard
    <3>1. \A n \in Nat : LET x == [q EXCEPT !.opened = TRUE, !.reads = n]
                         IN  /\ x \in Socket /\ x.topics = q.topics /\ x.conn = q.conn
                             /\ x.pong = q.pong /\ x.waitingPong = q.waitingPong
                             /\ x.heard = q.heard
      BY <1>1 DEF Socket
    <3>2. q.reads + 1 \in Nat
      BY <1>1 DEF Socket
    <3> QED BY <3>1, <3>2
  <2>5. d \in [at : At, op : Ops \cup {"none"}] /\ d.at # "idle"
    OBVIOUS
  <2> HIDE DEF s, d
  <2>6. CallInv' /\ ws' \in [Sockets -> Socket] /\ call' \in [Sockets -> [at : At, op : Ops \cup {"none"}]]
    BY <2>2, <2>3, <2>4, <2>5, CallMoves
  <2>7. TreeMatches' /\ TimerInv'
    BY <2>2, <2>3, <2>4, TreeKept, TimersKept DEF q
  <2> QED BY <2>2, <2>6, <2>7 DEF PubSubInv, TypeOK
<1>12. CASE HandlerThrows(w)
  <2>1. /\ call' = [call EXCEPT ![w] = [at |-> "between",
                                        op |-> IF call[w].op = "close" THEN "close" ELSE "none"]]
        /\ call[w].at # "idle"
        /\ UNCHANGED <<ws, tree, timers, nextId, inbox, published, crashed>>
    BY <1>12 DEF HandlerThrows, InUserCode, PubSubInv, TypeOK
  <2>2. [at |-> "between", op |-> IF call[w].op = "close" THEN "close" ELSE "none"]
          \in [at : At, op : Ops \cup {"none"}]
    BY <1>1
  <2> QED BY <1>4, <2>1, <2>2
<1> QED BY <1>5, <1>6, <1>7, <1>8, <1>9, <1>10, <1>11, <1>12 DEF ReadStep

\* A step that changes the record of w but not where onRead() is.
LEMMA CallStays ==
  ASSUME PubSubInv, NEW w \in Sockets, NEW s \in Socket, ws' = [ws EXCEPT ![w] = s],
         UNCHANGED call, call[w].at # "idle" => s.conn # "gone"
  PROVE  CallInv' /\ ws' \in [Sockets -> Socket]
  BY DEF PubSubInv, TypeOK, CallInv

\* publish() only adds to the inboxes.
LEMMA PublishKeeps ==
  ASSUME PubSubInv, NEW to, PublishTo(to)
  PROVE  PubSubInv'
<1>1. UNCHANGED <<ws, tree, call, timers, nextId>> /\ published' \in Nat /\ crashed' \in BOOLEAN
  BY DEF PublishTo, PubSubInv, TypeOK
<1>2. inbox' \in [Sockets -> Seq(Nat)]
  <2>1. \A v \in Sockets : Append(inbox[v], published + 1) \in Seq(Nat) /\ inbox[v] \in Seq(Nat)
    BY DEF PubSubInv, TypeOK
  <2> QED BY <2>1 DEF PublishTo
<1> QED BY <1>1, <1>2 DEF PubSubInv, TypeOK, TreeMatches, TimerInv, CallInv

\* Subscribing adds the connection to the topic, which may be new.
LEMMA SubscribeKeeps ==
  ASSUME PubSubInv, NEW w \in Sockets, NEW t \in Topics, Subscribe(w, t)
  PROVE  PubSubInv'
<1> DEFINE q == ws[w]
           n == q.topics \cup {t}
           s == [q EXCEPT !.sub = TRUE, !.topics = n]
           old == IF t \in DOMAIN tree THEN tree[t] ELSE {}
<1>1. /\ ws' = [ws EXCEPT ![w] = s] /\ call[w].at # "idle"
      /\ tree' = [u \in DOMAIN tree \cup {t} |-> IF u = t THEN {w} \cup old ELSE tree[u]]
      /\ UNCHANGED <<call, timers, nextId, inbox, published, crashed>>
  BY DEF Subscribe, Joined, InUserCode, PubSubInv, TypeOK
<1>2. q \in Socket /\ q.conn # "gone" /\ ws \in [Sockets -> Socket]
  BY <1>1 DEF PubSubInv, TypeOK, CallInv
<1>3. /\ s \in Socket /\ s.topics = n /\ s.conn = q.conn /\ s.pong = q.pong
      /\ s.waitingPong = q.waitingPong /\ s.heard = q.heard
  BY <1>2 DEF Socket
<1> HIDE DEF s
<1>4. old \subseteq Sockets /\ \A u \in DOMAIN tree : tree[u] \subseteq Sockets /\ u \in Topics
  BY DEF PubSubInv, TypeOK
<1>5. /\ DOMAIN tree' = DOMAIN tree \cup {t} /\ tree'[t] = {w} \cup old
      /\ \A u \in DOMAIN tree : u # t => tree'[u] = tree[u]
      /\ DOMAIN tree' \subseteq Topics /\ tree' \in [DOMAIN tree' -> SUBSET Sockets]
  BY <1>1, <1>4
<1>6. \A v \in Sockets : ws'[v] = IF v = w THEN s ELSE ws[v]
  BY <1>1, <1>2
<1>7. TreeMatches'
  <2>1. \A u \in DOMAIN tree' : tree'[u] # {}
    BY <1>5 DEF PubSubInv, TreeMatches
  <2>2. \A v \in Sockets : \A u \in ws'[v].topics : u \in DOMAIN tree' /\ v \in tree'[u]
    <3> SUFFICES ASSUME NEW v \in Sockets, NEW u \in ws'[v].topics
                 PROVE  u \in DOMAIN tree' /\ v \in tree'[u]
      OBVIOUS
    <3>1. CASE v = w /\ u = t
      BY <1>5, <3>1
    <3>2. CASE ~(v = w /\ u = t)
      <4>1. u \in ws[v].topics
        BY <1>3, <1>6, <3>2
      <4> QED BY <1>5, <4>1 DEF PubSubInv, TreeMatches
    <3> QED BY <3>1, <3>2
  <2>3. \A v \in Sockets : \A u \in DOMAIN tree' :
          v \in tree'[u] => u \in ws'[v].topics \/ ws'[v].conn = "gone"
    <3> SUFFICES ASSUME NEW v \in Sockets, NEW u \in DOMAIN tree', v \in tree'[u]
                 PROVE  u \in ws'[v].topics \/ ws'[v].conn = "gone"
      OBVIOUS
    <3>1. CASE v = w /\ u = t
      BY <1>3, <1>6, <3>1
    <3>2. CASE ~(v = w /\ u = t)
      <4>1. u \in DOMAIN tree /\ v \in tree[u]
        BY <1>5, <3>2
      <4>2. u \in ws[v].topics \/ ws[v].conn = "gone"
        BY <4>1 DEF PubSubInv, TreeMatches
      <4> QED BY <1>3, <1>6, <4>2
    <3> QED BY <3>1, <3>2
  <2> QED BY <2>1, <2>2, <2>3 DEF TreeMatches
<1>8. TimerInv'
  BY <1>1, <1>3, TimersKept
<1>9. CallInv' /\ ws' \in [Sockets -> Socket]
  BY <1>1, <1>2, <1>3, CallStays
<1> QED BY <1>1, <1>5, <1>7, <1>8, <1>9 DEF PubSubInv, TypeOK

\* Unsubscribing takes the connection out of the topic and may end the topic.
LEMMA UnsubscribeKeeps ==
  ASSUME PubSubInv, NEW w \in Sockets, NEW t \in Topics, Unsubscribe(w, t)
  PROVE  PubSubInv'
<1> DEFINE q == ws[w]
           n == q.topics \ {t}
           s == [q EXCEPT !.topics = n]
           D == {u \in DOMAIN tree : u # t \/ tree[u] # {w}}
<1>1. /\ ws' = [ws EXCEPT ![w] = s] /\ call[w].at # "idle" /\ t \in q.topics
      /\ tree' = [u \in D |-> IF u = t THEN tree[u] \ {w} ELSE tree[u]]
      /\ UNCHANGED <<call, timers, nextId, inbox, published, crashed>>
  BY DEF Unsubscribe, Left, InUserCode, PubSubInv, TypeOK
<1>2. q \in Socket /\ q.conn # "gone" /\ ws \in [Sockets -> Socket]
  BY <1>1 DEF PubSubInv, TypeOK, CallInv
<1>3. /\ s \in Socket /\ s.topics = n /\ s.conn = q.conn /\ s.pong = q.pong
      /\ s.waitingPong = q.waitingPong /\ s.heard = q.heard
  BY <1>2 DEF Socket
<1> HIDE DEF s
<1>4. \A u \in DOMAIN tree : tree[u] \subseteq Sockets /\ u \in Topics
  BY DEF PubSubInv, TypeOK
<1>5. /\ DOMAIN tree' = D /\ D \subseteq DOMAIN tree
      /\ \A u \in D : tree'[u] = IF u = t THEN tree[u] \ {w} ELSE tree[u]
      /\ DOMAIN tree' \subseteq Topics /\ tree' \in [DOMAIN tree' -> SUBSET Sockets]
  BY <1>1, <1>4
<1>6. \A v \in Sockets : ws'[v] = IF v = w THEN s ELSE ws[v]
  BY <1>1, <1>2
<1>7. TreeMatches'
  <2>1. \A u \in DOMAIN tree' : tree'[u] # {}
    <3> SUFFICES ASSUME NEW u \in D PROVE tree'[u] # {}
      BY <1>5
    <3>1. tree[u] # {} /\ (u = t => tree[u] # {w})
      BY <1>5 DEF PubSubInv, TreeMatches
    <3>2. \E x \in tree[u] : u = t => x # w
      BY <3>1
    <3> QED BY <1>5, <3>2
  <2>2. \A v \in Sockets : \A u \in ws'[v].topics : u \in DOMAIN tree' /\ v \in tree'[u]
    <3> SUFFICES ASSUME NEW v \in Sockets, NEW u \in ws'[v].topics
                 PROVE  u \in DOMAIN tree' /\ v \in tree'[u]
      OBVIOUS
    <3>1. u \in ws[v].topics /\ ~(v = w /\ u = t)
      BY <1>3, <1>6
    <3>2. u \in DOMAIN tree /\ v \in tree[u]
      BY <3>1 DEF PubSubInv, TreeMatches
    <3> QED BY <1>5, <3>1, <3>2
  <2>3. \A v \in Sockets : \A u \in DOMAIN tree' :
          v \in tree'[u] => u \in ws'[v].topics \/ ws'[v].conn = "gone"
    <3> SUFFICES ASSUME NEW v \in Sockets, NEW u \in DOMAIN tree', v \in tree'[u]
                 PROVE  u \in ws'[v].topics \/ ws'[v].conn = "gone"
      OBVIOUS
    <3>1. u \in DOMAIN tree /\ v \in tree[u] /\ ~(v = w /\ u = t)
      BY <1>5
    <3>2. u \in ws[v].topics \/ ws[v].conn = "gone"
      BY <3>1 DEF PubSubInv, TreeMatches
    <3> QED BY <1>3, <1>6, <3>1, <3>2
  <2> QED BY <2>1, <2>2, <2>3 DEF TreeMatches
<1>8. TimerInv'
  BY <1>1, <1>3, TimersKept
<1>9. CallInv' /\ ws' \in [Sockets -> Socket]
  BY <1>1, <1>2, <1>3, CallStays
<1> QED BY <1>1, <1>5, <1>7, <1>8, <1>9 DEF PubSubInv, TypeOK

\* Everything user code can do to its own connection.
LEMMA UserSteps ==
  ASSUME PubSubInv, NEW w \in Sockets, UserStep(w)
  PROVE  PubSubInv'
<1> DEFINE q == ws[w]
<1>1. CASE \E t \in Topics : Subscribe(w, t) \/ Unsubscribe(w, t)
  BY <1>1, SubscribeKeeps, UnsubscribeKeeps
<1>2. CASE \E t \in Topics : Publish(w, t) \/ Broadcast(w, t)
  BY <1>2, PublishKeeps DEF Publish, Broadcast
<1>3. CASE Send(w)
  <2>1. PICK s \in Written(q) : ws' = [ws EXCEPT ![w] = s]
    BY <1>3 DEF Send
  <2>2. UNCHANGED <<tree, call, timers, nextId, inbox, published, crashed>> /\ call[w].at # "idle"
    BY <1>3 DEF Send, InUserCode
  <2>3. q \in Socket /\ q.conn # "gone"
    BY <2>2 DEF PubSubInv, TypeOK, CallInv
  <2>4. /\ s \in Socket /\ s.topics = q.topics /\ s.pong = q.pong /\ s.waitingPong = q.waitingPong
        /\ s.heard = q.heard /\ s.conn # "gone"
    BY <2>3, WriteKeeps
  <2>5. CallInv' /\ ws' \in [Sockets -> Socket] /\ TreeMatches' /\ TimerInv'
    BY <2>1, <2>2, <2>3, <2>4, CallStays, TreeKept, TimersKept
  <2> QED BY <2>2, <2>5 DEF PubSubInv, TypeOK
<1>4. CASE CloseFrame(w)
  <2>1. PICK r \in Written(q) : ws' = [ws EXCEPT ![w] = WithoutSub(r)]
    BY <1>4 DEF CloseFrame
  <2>2. /\ tree' = Freed(w) /\ UNCHANGED <<call, timers, nextId, inbox, published, crashed>>
        /\ call[w].at # "idle"
    BY <1>4 DEF CloseFrame, InUserCode
  <2>3. q \in Socket /\ q.conn # "gone"
    BY <2>2 DEF PubSubInv, TypeOK, CallInv
  <2>4. /\ r \in Socket /\ r.pong = q.pong /\ r.waitingPong = q.waitingPong
        /\ r.heard = q.heard /\ r.conn # "gone"
    BY <2>3, WriteKeeps
  <2> DEFINE s == WithoutSub(r)
  <2>5. /\ s \in Socket /\ s.topics = {} /\ s.pong = q.pong /\ s.waitingPong = q.waitingPong
        /\ s.heard = q.heard /\ s.conn # "gone"
    BY <2>4, RecordPieces
  <2>6. ws' = [ws EXCEPT ![w] = s]
    BY <2>1
  <2> HIDE DEF s
  <2>7. CallInv' /\ ws' \in [Sockets -> Socket] /\ TimerInv'
    BY <2>2, <2>3, <2>5, <2>6, CallStays, TimersKept
  <2>8. /\ TreeMatches' /\ DOMAIN tree' \subseteq Topics
        /\ tree' \in [DOMAIN tree' -> SUBSET Sockets]
    BY <2>2, <2>3, <2>5, <2>6, FreedKeeps
  <2> QED BY <2>2, <2>7, <2>8 DEF PubSubInv, TypeOK
<1>5. CASE ContextClose(w)
  <2> DEFINE r == [q EXCEPT !.conn = "closed"]
  <2>1. /\ ChannelInactive(w, r) /\ q.conn = "open"
        /\ UNCHANGED <<call, nextId, inbox, published, crashed>>
    BY <1>5 DEF ContextClose
  <2>2. r \in Socket /\ r.conn = "closed"
    BY ZenonT(60) DEF PubSubInv, TypeOK, Socket
  <2> HIDE DEF r
  <2>3. /\ TimerInv' /\ timers' \in [Workers -> SUBSET Timer]
        /\ TreeMatches' /\ DOMAIN tree' \subseteq Topics
        /\ tree' \in [DOMAIN tree' -> SUBSET Sockets]
        /\ \E s \in Socket : ws' = [ws EXCEPT ![w] = s] /\ s.conn = r.conn
    BY <2>1, <2>2, InactiveKeeps
  <2>4. CallInv' /\ ws' \in [Sockets -> Socket]
    BY <2>1, <2>2, <2>3, CallStays
  <2> QED BY <2>1, <2>3, <2>4 DEF PubSubInv, TypeOK
<1> QED BY <1>1, <1>2, <1>3, <1>4, <1>5 DEF UserStep

\* The ping timer: the pong timer it arms is the only one of its connection.
LEMMA PingKeeps ==
  ASSUME PubSubInv, NEW w \in Sockets, NEW p, PingTimer(w, p)
  PROVE  PubSubInv'
<1> DEFINE q == ws[w]
           k == WorkerOf[w]
           rest == timers[k] \ {p}
<1>1. /\ k \in Workers /\ q \in Socket /\ ws \in [Sockets -> Socket]
      /\ timers \in [Workers -> SUBSET Timer] /\ nextId \in [Workers -> Nat] /\ nextId[k] \in Nat
  BY SocketsAssumption DEF PubSubInv, TypeOK
<1>2. /\ p \in timers[k] /\ p \in Timer /\ p.sock = w /\ call[w].at = "idle"
      /\ UNCHANGED <<tree, call, inbox, published>> /\ crashed' \in BOOLEAN
  BY <1>1 DEF PingTimer, LoopFree
<1>3. CASE q.conn = "gone" \/ q.waitingPong
  <2>1. timers' = [timers EXCEPT ![k] = rest] /\ UNCHANGED <<ws, nextId>>
    BY <1>3 DEF PingTimer
  <2>2. timers' \in [Workers -> SUBSET Timer] /\ \A j \in Workers : timers'[j] \subseteq timers[j]
    BY <1>1, <2>1
  <2>3. TimerInv'
    BY <2>1, <2>2 DEF PubSubInv, TimerInv
  <2>4. TreeMatches' /\ CallInv'
    BY <1>2, <2>1 DEF PubSubInv, TreeMatches, CallInv
  <2> QED BY <1>2, <2>1, <2>2, <2>3, <2>4 DEF PubSubInv, TypeOK
<1>4. CASE ~(q.conn = "gone" \/ q.waitingPong)
  <2> DEFINE n == [id |-> nextId[k], sock |-> w, kind |-> "pong"]
  <2>1. PICK r \in Written(q) :
          ws' = [ws EXCEPT ![w] = [r EXCEPT !.waitingPong = TRUE, !.ping = 0,
                                            !.pong = nextId[k], !.heard = FALSE]]
    BY <1>4 DEF PingTimer
  <2>2. /\ timers' = [timers EXCEPT ![k] = rest \cup {n}]
        /\ nextId' = [nextId EXCEPT ![k] = nextId[k] + 1]
    BY <1>1, <1>4 DEF PingTimer
  <2>3. r \in Socket /\ r.topics = q.topics /\ r.conn # "gone"
    BY <1>1, <1>4, WriteKeeps
  <2> DEFINE s == [r EXCEPT !.waitingPong = TRUE, !.ping = 0, !.pong = nextId[k], !.heard = FALSE]
  <2>4. /\ s \in Socket /\ s.topics = q.topics /\ s.conn # "gone" /\ s.pong = nextId[k]
        /\ s.waitingPong = TRUE /\ s.heard = FALSE
    BY <1>1, <2>3 DEF Socket
  <2>5. ws' = [ws EXCEPT ![w] = s]
    BY <2>1
  <2>6. n \in Timer /\ n.id = nextId[k] /\ n.sock = w /\ n.kind = "pong"
    BY <1>1 DEF Timer
  <2> HIDE DEF s, n
  <2>7. /\ timers'[k] = rest \cup {n} /\ \A j \in Workers : j # k => timers'[j] = timers[j]
        /\ timers' \in [Workers -> SUBSET Timer]
    BY <1>1, <2>2, <2>6
  <2>8. /\ nextId' \in [Workers -> Nat]
        /\ \A j \in Workers : nextId'[j] \in Nat /\ nextId[j] <= nextId'[j]
        /\ nextId[k] < nextId'[k]
    BY <1>1, <2>2
  <2>9. nextId[k] # 0
    BY <1>1, <1>2 DEF PubSubInv, TimerInv, Timer
  <2>10. \A v \in Sockets : ws'[v] = IF v = w THEN s ELSE ws[v]
    BY <1>1, <2>5
  <2>11. TimerInv'
    <3> SUFFICES ASSUME NEW j \in Workers, NEW t \in timers'[j]
                 PROVE  /\ t.id < nextId'[j] /\ WorkerOf[t.sock] = j
                        /\ t.kind = "pong" /\ ws'[t.sock].conn # "gone" =>
                             /\ t.id # 0 /\ t.id = ws'[t.sock].pong
                             /\ ws'[t.sock].waitingPong = TRUE /\ ws'[t.sock].heard = FALSE
      BY DEF TimerInv
    <3>1. CASE j = k /\ t = n
      BY <2>4, <2>6, <2>8, <2>9, <2>10, <3>1
    <3>2. CASE ~(j = k /\ t = n)
      <4>1. t \in timers[j] /\ t \in Timer /\ t.id \in Nat /\ t.sock \in Sockets
        BY <1>1, <2>7, <3>2 DEF Timer
      <4>2. t.id < nextId[j] /\ WorkerOf[t.sock] = j
        BY <4>1 DEF PubSubInv, TimerInv
      <4>3. t.id < nextId'[j]
        BY <1>1, <2>8, <4>1, <4>2
      <4>4. CASE t.sock # w
        BY <2>10, <4>1, <4>2, <4>3, <4>4 DEF PubSubInv, TimerInv
      <4>5. CASE t.sock = w
        <5>1. t.kind # "pong"
          BY <1>4, <4>1, <4>5 DEF PubSubInv, TimerInv
        <5> QED BY <4>2, <4>3, <5>1
      <4> QED BY <4>4, <4>5
    <3> QED BY <3>1, <3>2
  <2>12. TreeMatches' /\ CallInv' /\ ws' \in [Sockets -> Socket]
    BY <1>2, <1>4, <2>4, <2>5, TreeKept, CallStays
  <2> QED BY <1>2, <2>7, <2>8, <2>11, <2>12 DEF PubSubInv, TypeOK
<1> QED BY <1>3, <1>4

\* The pong timer closes its connection as Context::close() does.
LEMMA PongKeeps ==
  ASSUME PubSubInv, NEW w \in Sockets, NEW p, PongTimer(w, p)
  PROVE  PubSubInv'
<1> DEFINE q == ws[w]
           k == WorkerOf[w]
<1>1. /\ k \in Workers /\ q \in Socket /\ ws \in [Sockets -> Socket]
      /\ timers \in [Workers -> SUBSET Timer]
  BY SocketsAssumption DEF PubSubInv, TypeOK
<1>2. /\ p \in timers[k] /\ p.sock = w /\ p.kind = "pong"
      /\ UNCHANGED <<call, nextId, inbox, published, crashed>>
  BY DEF PongTimer
<1>3. CASE q.conn # "open"
  <2>1. timers' = [timers EXCEPT ![k] = timers[k] \ {p}] /\ UNCHANGED <<ws, tree>>
    BY <1>3 DEF PongTimer
  <2>2. timers' \in [Workers -> SUBSET Timer] /\ \A j \in Workers : timers'[j] \subseteq timers[j]
    BY <1>1, <2>1
  <2>3. TimerInv'
    BY <1>2, <2>1, <2>2 DEF PubSubInv, TimerInv
  <2>4. TreeMatches' /\ CallInv'
    BY <1>2, <2>1 DEF PubSubInv, TreeMatches, CallInv
  <2> QED BY <1>2, <2>1, <2>2, <2>3, <2>4 DEF PubSubInv, TypeOK
<1>4. CASE q.conn = "open"
  <2> DEFINE r == [q EXCEPT !.conn = "closed"]
  <2>1. /\ timers' = [timers EXCEPT ![k] = StillArmed(w) \ {p}] /\ tree' = Freed(w)
        /\ ws' = [ws EXCEPT ![w] = WithoutSub(WithoutTimers(r))]
    BY <1>4 DEF PongTimer
  <2>2. p \notin StillArmed(w)
    BY <1>1, <1>2, <1>4 DEF StillArmed, PubSubInv, TimerInv
  <2>3. ChannelInactive(w, r)
    BY <2>1, <2>2 DEF ChannelInactive, CancelTimers
  <2>4. r \in Socket /\ r.conn = "closed"
    BY <1>1 DEF Socket
  <2> HIDE DEF r
  <2>5. /\ TimerInv' /\ timers' \in [Workers -> SUBSET Timer]
        /\ TreeMatches' /\ DOMAIN tree' \subseteq Topics
        /\ tree' \in [DOMAIN tree' -> SUBSET Sockets]
        /\ \E s \in Socket : ws' = [ws EXCEPT ![w] = s] /\ s.conn = r.conn
    BY <1>2, <1>4, <2>3, <2>4, InactiveKeeps
  <2>6. CallInv' /\ ws' \in [Sockets -> Socket]
    BY <1>2, <2>4, <2>5, CallStays
  <2> QED BY <1>2, <2>5, <2>6 DEF PubSubInv, TypeOK
<1> QED BY <1>3, <1>4

\* A task of publish() that runs.
LEMMA DeliverKeeps ==
  ASSUME PubSubInv, NEW w \in Sockets, Deliver(w)
  PROVE  PubSubInv'
<1> DEFINE q == ws[w]
           g == Append(q.got, Head(inbox[w]))
           h == [q EXCEPT !.got = g]
<1>1. /\ inbox' = [inbox EXCEPT ![w] = Tail(inbox[w])] /\ inbox[w] # <<>>
      /\ UNCHANGED <<tree, call, timers, nextId, published, crashed>> /\ call[w].at = "idle"
  BY DEF Deliver, LoopFree
<1>2. q \in Socket /\ ws \in [Sockets -> Socket] /\ inbox \in [Sockets -> Seq(Nat)]
  BY DEF PubSubInv, TypeOK
<1>3. inbox' \in [Sockets -> Seq(Nat)] /\ Head(inbox[w]) \in Nat
  BY <1>1, <1>2
<1>4. CASE q.conn # "open"
  <2>1. UNCHANGED ws
    BY <1>4 DEF Deliver
  <2> QED BY <1>1, <1>3, <2>1 DEF PubSubInv, TypeOK, TreeMatches, TimerInv, CallInv
<1>5. CASE q.conn = "open"
  <2>1. PICK s \in Written(h) : ws' = [ws EXCEPT ![w] = s]
    BY <1>5 DEF Deliver
  <2>2. g \in Seq(Nat)
    <3>1. q.got \in Seq(Nat)
      BY <1>2 DEF Socket
    <3> QED BY <1>3, <3>1
  <2> HIDE DEF g
  <2>3. /\ h \in Socket /\ h.topics = q.topics /\ h.pong = q.pong /\ h.conn = q.conn
        /\ h.waitingPong = q.waitingPong /\ h.heard = q.heard
    BY <1>2, <2>2 DEF Socket
  <2> HIDE DEF h
  <2>4. /\ s \in Socket /\ s.topics = q.topics /\ s.pong = q.pong /\ s.conn # "gone"
        /\ s.waitingPong = q.waitingPong /\ s.heard = q.heard
    BY <1>5, <2>3, WriteKeeps
  <2>5. CallInv' /\ ws' \in [Sockets -> Socket] /\ TreeMatches' /\ TimerInv'
    BY <1>1, <1>5, <2>1, <2>4, CallStays, TreeKept, TimersKept
  <2> QED BY <1>1, <1>3, <2>5 DEF PubSubInv, TypeOK
<1> QED BY <1>4, <1>5

\* End of file, error or time-out.
LEMMA LostKeeps ==
  ASSUME PubSubInv, NEW w \in Sockets, ConnectionLost(w)
  PROVE  PubSubInv'
<1> DEFINE r == [ws[w] EXCEPT !.conn = "gone"]
<1>1. /\ ChannelInactive(w, r) /\ call[w].at = "idle"
      /\ UNCHANGED <<call, nextId, inbox, published, crashed>>
  BY DEF ConnectionLost, LoopFree
<1>2. r \in Socket /\ r.conn = "gone"
  BY ZenonT(60) DEF PubSubInv, TypeOK, Socket
<1> HIDE DEF r
<1>3. /\ TimerInv' /\ timers' \in [Workers -> SUBSET Timer]
      /\ TreeMatches' /\ DOMAIN tree' \subseteq Topics
      /\ tree' \in [DOMAIN tree' -> SUBSET Sockets]
      /\ \E s \in Socket : ws' = [ws EXCEPT ![w] = s] /\ s.conn = r.conn
  BY <1>1, <1>2, InactiveKeeps
<1>4. CallInv' /\ ws' \in [Sockets -> Socket]
  BY <1>1, <1>2, <1>3, CallStays
<1> QED BY <1>1, <1>3, <1>4 DEF PubSubInv, TypeOK

-----------------------------------------------------------------------------
(* The theorems.                                                           *)

\* PubSubInv is an invariant.
LEMMA Inductive == Spec => []PubSubInv
<1>1. Init => PubSubInv
  <2> SUFFICES ASSUME Init PROVE PubSubInv
    OBVIOUS
  <2>1. ws \in [Sockets -> Socket] /\ \A w \in Sockets : ws[w].topics = {} /\ ws[w].conn = "open"
    BY DEF Init, Socket
  <2>2. tree \in [DOMAIN tree -> SUBSET Sockets] /\ DOMAIN tree = {}
    BY DEF Init
  <2>3. call \in [Sockets -> [at : {"idle", "onOpen", "frame", "onMessage", "onClose", "between"},
                              op : Ops \cup {"none"}]]
    BY DEF Init
  <2>4. timers \in [Workers -> SUBSET Timer] /\ nextId \in [Workers -> Nat]
    BY DEF Init
  <2>5. inbox \in [Sockets -> Seq(Nat)] /\ published \in Nat /\ crashed \in BOOLEAN
    <3>1. << >> \in Seq(Nat)
      OBVIOUS
    <3>2. inbox \in [Sockets -> Seq(Nat)]
      BY <3>1 DEF Init
    <3>3. published \in Nat
      BY DEF Init
    <3>4. crashed \in BOOLEAN
      BY DEF Init
    <3> QED BY <3>2, <3>3, <3>4
  <2>6. TypeOK
    BY <2>1, <2>2, <2>3, <2>4, <2>5 DEF TypeOK
  <2> QED BY <2>1, <2>2, <2>6 DEF Init, PubSubInv, TreeMatches, TimerInv, CallInv
<1>2. PubSubInv /\ [Next]_vars => PubSubInv'
  <2> SUFFICES ASSUME PubSubInv, [Next]_vars PROVE PubSubInv'
    OBVIOUS
  <2>1. CASE UNCHANGED vars
    BY <2>1 DEF vars, PubSubInv, TypeOK, TreeMatches, TimerInv, CallInv
  <2>2. CASE Next
    <3>1. PICK w \in Sockets :
            \/ \E op \in Ops : ChannelRead(w, op)
            \/ ReadStep(w) \/ UserStep(w) \/ TimerStep(w) \/ Deliver(w) \/ ConnectionLost(w)
      BY <2>2 DEF Next
    <3>2. CASE TimerStep(w)
      BY <3>2, PingKeeps, PongKeeps DEF TimerStep
    <3> QED BY <3>1, <3>2, ReadSteps, UserSteps, DeliverKeeps, LostKeeps
  <2> QED BY <2>1, <2>2
<1> QED BY <1>1, <1>2, PTL DEF Spec

\* Every variable keeps its type.
THEOREM TypeCorrect == Spec => []TypeOK
<1>1. PubSubInv => TypeOK
  BY DEF PubSubInv
<1> QED BY <1>1, Inductive, PTL

\* Topics and subscribers agree, whatever subscribe(), unsubscribe() and
\* freeSubscriber() do on however many workers.
THEOREM TreeCorrect == Spec => []TreeMatches
<1>1. PubSubInv => TreeMatches
  BY DEF PubSubInv
<1> QED BY <1>1, Inductive, PTL

\* No pong time-out is pending for a connection that was heard of since the
\* PING, even though cancelTimers() cannot cancel a timer with the id 0.
THEOREM PongTimeoutCorrect == Spec => []LivePeerKept
<1>1. PubSubInv => LivePeerKept
  BY SocketsAssumption DEF PubSubInv, TimerInv, LivePeerKept
<1> QED BY <1>1, Inductive, PTL

-----------------------------------------------------------------------------
(* Messages arrive in order.                                               *)

Increasing(s) == \A i, j \in DOMAIN s : i < j => s[i] < s[j]

\* What was delivered and what is queued are in order, the former before the
\* latter, and nothing is numbered beyond the last message published.
QueueInOrder(got, queue, last) ==
  /\ Increasing(got) /\ Increasing(queue)
  /\ \A i \in DOMAIN got, j \in DOMAIN queue : got[i] < queue[j]
  /\ \A i \in DOMAIN got : got[i] <= last
  /\ \A j \in DOMAIN queue : queue[j] <= last
OrderInv == \A w \in Sockets : QueueInOrder(ws[w].got, inbox[w], published)

\* No piece of a handler touches the history of deliveries.
LEMMA PiecesKeepGot ==
  ASSUME NEW r \in Socket
  PROVE  /\ WithoutTimers(r).got = r.got /\ WithoutSub(r).got = r.got
         /\ \A n \in Nat : [WithoutTimers(r) EXCEPT !.ping = n].got = r.got
         /\ \A n \in Nat : [r EXCEPT !.waitingPong = TRUE, !.ping = 0, !.pong = n, !.heard = FALSE].got = r.got
         /\ Destroyed(r).got = r.got
         /\ [r EXCEPT !.heard = TRUE] \in Socket /\ [r EXCEPT !.heard = TRUE].got = r.got
         /\ \A c \in {"open", "closed", "gone"} :
              [r EXCEPT !.conn = c] \in Socket /\ [r EXCEPT !.conn = c].got = r.got
         /\ \A s \in Written(r) : s \in Socket /\ s.got = r.got
  BY DEF Socket, WithoutTimers, WithoutSub, Destroyed, Written

\* schedulePing() and channelInactive() with a record r of which only other
\* fields differ.
LEMMA HandlersKeepGot ==
  ASSUME TypeOK, NEW w \in Sockets, NEW r \in Socket, r.got = ws[w].got,
         SchedulePing(w, r) \/ ChannelInactive(w, r)
  PROVE  \A v \in Sockets : ws'[v].got = ws[v].got
<1>1. ws \in [Sockets -> Socket] /\ nextId[WorkerOf[w]] \in Nat /\ WithoutTimers(r) \in Socket
  BY SocketsAssumption, RecordPieces DEF TypeOK
<1>2. PICK s : ws' = [ws EXCEPT ![w] = s] /\ s.got = r.got
  <2>1. CASE SchedulePing(w, r)
    <3>1. CASE PingEnabled
      <4>1. ws' = [ws EXCEPT ![w] = [WithoutTimers(r) EXCEPT !.ping = nextId[WorkerOf[w]]]]
        BY <2>1, <3>1 DEF SchedulePing
      <4>2. [WithoutTimers(r) EXCEPT !.ping = nextId[WorkerOf[w]]].got = r.got
        BY <1>1, PiecesKeepGot
      <4> QED BY <4>1, <4>2
    <3>2. CASE ~PingEnabled
      BY <1>1, <2>1, <3>2, PiecesKeepGot DEF SchedulePing
    <3> QED BY <3>1, <3>2
  <2>2. CASE ChannelInactive(w, r)
    <3>1. ws' = [ws EXCEPT ![w] = WithoutSub(WithoutTimers(r))]
      BY <2>2 DEF ChannelInactive
    <3>2. WithoutTimers(r).got = r.got
      BY PiecesKeepGot
    <3>3. WithoutSub(WithoutTimers(r)).got = WithoutTimers(r).got
      BY <1>1, PiecesKeepGot
    <3> QED BY <3>1, <3>2, <3>3
  <2> QED BY <2>1, <2>2
<1> QED BY <1>1, <1>2

\* Only publish() and the tasks it queues touch the queues and the deliveries.
LEMMA OthersKeepGot ==
  ASSUME TypeOK, NEW w \in Sockets,
         \/ \E op \in Ops : ChannelRead(w, op)
         \/ ReadStep(w)
         \/ \E t \in Topics : Subscribe(w, t) \/ Unsubscribe(w, t)
         \/ Send(w) \/ CloseFrame(w) \/ ContextClose(w)
         \/ TimerStep(w) \/ ConnectionLost(w)
  PROVE  UNCHANGED <<inbox, published>> /\ \A v \in Sockets : ws'[v].got = ws[v].got
<1> DEFINE q == ws[w]
           h == [q EXCEPT !.heard = TRUE]
<1>1. ws \in [Sockets -> Socket] /\ q \in Socket /\ nextId[WorkerOf[w]] \in Nat
  BY SocketsAssumption DEF TypeOK
<1>2. h \in Socket /\ h.got = q.got
  BY <1>1, PiecesKeepGot
<1> HIDE DEF h
<1>3. UNCHANGED <<inbox, published>>
  BY DEF ChannelRead, ReadStep, OpenDone, OnPong, OnPing, OnText, MessageDone, OnClose, CloseDone,
     HandlerThrows, OnOther, ReadDone, Subscribe, Unsubscribe, Send, CloseFrame, ContextClose,
     TimerStep, PingTimer, PongTimer, ConnectionLost
<1> SUFFICES \A v \in Sockets : ws'[v].got = ws[v].got
  BY <1>3
<1>4. ASSUME NEW s, ws' = [ws EXCEPT ![w] = s], s.got = q.got
      PROVE  \A v \in Sockets : ws'[v].got = ws[v].got
  BY <1>1, <1>4
<1>5. CASE \E op \in Ops : ChannelRead(w, op)
  <2>1. ws' = [ws EXCEPT ![w].opened = TRUE, ![w].reads = @ + 1]
    BY <1>5 DEF ChannelRead
  <2> QED BY <1>1, <2>1 DEF Socket
<1>6. CASE ReadStep(w)
  <2>1. CASE OpenDone(w)
    BY <1>1, <2>1, HandlersKeepGot DEF OpenDone
  <2>2. CASE OnPong(w) \/ MessageDone(w)
    BY <1>2, <2>2, HandlersKeepGot DEF OnPong, MessageDone, h
  <2>3. CASE OnPing(w)
    <3>1. PICK r \in Written(h) : SchedulePing(w, r)
      BY <2>3 DEF OnPing, h
    <3>2. r \in Socket /\ r.got = q.got
      BY <1>2, PiecesKeepGot
    <3> QED BY <3>1, <3>2, HandlersKeepGot
  <2>4. CASE OnClose(w)
    <3>1. PICK r \in Written(h) : ChannelInactive(w, r)
      BY <2>4 DEF OnClose, h
    <3>2. r \in Socket /\ r.got = q.got
      BY <1>2, PiecesKeepGot
    <3> QED BY <3>1, <3>2, HandlersKeepGot
  <2>5. CASE OnText(w) \/ CloseDone(w) \/ HandlerThrows(w) \/ OnOther(w)
    BY <2>5 DEF OnText, CloseDone, HandlerThrows, OnOther
  <2>6. CASE ReadDone(w)
    <3>1. ws' = ws \/ ws' = [ws EXCEPT ![w] = Destroyed(q)]
      BY <1>1, <2>6 DEF ReadDone
    <3>2. Destroyed(q).got = q.got
      BY <1>1, PiecesKeepGot
    <3> QED BY <1>4, <3>1, <3>2
  <2> QED BY <1>6, <2>1, <2>2, <2>3, <2>4, <2>5, <2>6 DEF ReadStep
<1>7. CASE \E t \in Topics : Subscribe(w, t) \/ Unsubscribe(w, t)
  <2>1. PICK t \in Topics : \/ ws' = [ws EXCEPT ![w].sub = TRUE, ![w].topics = @ \cup {t}]
                            \/ ws' = [ws EXCEPT ![w].topics = @ \ {t}]
    BY <1>7 DEF Subscribe, Unsubscribe
  <2>2. CASE ws' = [ws EXCEPT ![w].sub = TRUE, ![w].topics = @ \cup {t}]
    <3>1. \A v \in Sockets :
            ws'[v] = IF v = w THEN [q EXCEPT !.sub = TRUE, !.topics = @ \cup {t}] ELSE ws[v]
      BY <1>1, <2>2
    <3>2. [q EXCEPT !.sub = TRUE, !.topics = @ \cup {t}].got = q.got
      BY <1>1 DEF Socket
    <3> QED BY <3>1, <3>2
  <2>3. CASE ws' = [ws EXCEPT ![w].topics = @ \ {t}]
    <3>1. \A v \in Sockets : ws'[v] = IF v = w THEN [q EXCEPT !.topics = @ \ {t}] ELSE ws[v]
      BY <1>1, <2>3
    <3>2. [q EXCEPT !.topics = @ \ {t}].got = q.got
      BY <1>1 DEF Socket
    <3> QED BY <3>1, <3>2
  <2> QED BY <2>1, <2>2, <2>3
<1>8. CASE Send(w)
  <2>1. PICK r \in Written(q) : ws' = [ws EXCEPT ![w] = r]
    BY <1>8 DEF Send
  <2>2. r.got = q.got
    BY <1>1, PiecesKeepGot
  <2> QED BY <1>4, <2>1, <2>2
<1>9. CASE CloseFrame(w)
  <2>1. PICK r \in Written(q) : ws' = [ws EXCEPT ![w] = WithoutSub(r)]
    BY <1>9 DEF CloseFrame
  <2>2. r \in Socket /\ r.got = q.got
    BY <1>1, PiecesKeepGot
  <2>3. WithoutSub(r).got = q.got
    BY <2>2, PiecesKeepGot
  <2> QED BY <1>4, <2>1, <2>3
<1>10. CASE ContextClose(w) \/ ConnectionLost(w)
  <2>1. PICK c \in {"closed", "gone"} : ChannelInactive(w, [q EXCEPT !.conn = c])
    BY <1>10 DEF ContextClose, ConnectionLost
  <2>2. [q EXCEPT !.conn = c] \in Socket /\ [q EXCEPT !.conn = c].got = q.got
    BY <1>1, PiecesKeepGot
  <2> QED BY <2>1, <2>2, HandlersKeepGot
<1>11. ASSUME NEW t, PingTimer(w, t)
       PROVE  \A v \in Sockets : ws'[v].got = ws[v].got
  <2>1. CASE q.conn = "gone" \/ q.waitingPong
    BY <1>11, <2>1 DEF PingTimer
  <2>2. CASE ~(q.conn = "gone" \/ q.waitingPong)
    <3>1. PICK r \in Written(q) :
            ws' = [ws EXCEPT ![w] = [r EXCEPT !.waitingPong = TRUE, !.ping = 0,
                                              !.pong = nextId[WorkerOf[w]], !.heard = FALSE]]
      BY <1>11, <2>2 DEF PingTimer
    <3>2. r \in Socket /\ r.got = q.got
      BY <1>1, PiecesKeepGot
    <3>3. [r EXCEPT !.waitingPong = TRUE, !.ping = 0, !.pong = nextId[WorkerOf[w]], !.heard = FALSE].got
            = q.got
      BY <1>1, <3>2, PiecesKeepGot
    <3> QED BY <1>4, <3>1, <3>3
  <2> QED BY <2>1, <2>2
<1>12. ASSUME NEW t, PongTimer(w, t)
       PROVE  \A v \in Sockets : ws'[v].got = ws[v].got
  <2>1. CASE q.conn # "open"
    BY <1>12, <2>1 DEF PongTimer
  <2>2. CASE q.conn = "open"
    <3> DEFINE r == [q EXCEPT !.conn = "closed"]
    <3>1. ws' = [ws EXCEPT ![w] = WithoutSub(WithoutTimers(r))]
      BY <1>12, <2>2 DEF PongTimer
    <3>2. r \in Socket /\ r.got = q.got
      BY <1>1, PiecesKeepGot
    <3> HIDE DEF r
    <3>3. WithoutTimers(r) \in Socket /\ WithoutTimers(r).got = q.got
      BY <3>2, PiecesKeepGot, RecordPieces
    <3>4. WithoutSub(WithoutTimers(r)).got = q.got
      BY <3>3, PiecesKeepGot
    <3> QED BY <1>4, <3>1, <3>4
  <2> QED BY <2>1, <2>2
<1> QED BY <1>5, <1>6, <1>7, <1>8, <1>9, <1>10, <1>11, <1>12 DEF TimerStep

\* A message that is published goes behind all that are queued.
LEMMA PublishedLast ==
  ASSUME NEW got \in Seq(Nat), NEW queue \in Seq(Nat), NEW last \in Nat,
         QueueInOrder(got, queue, last)
  PROVE  /\ QueueInOrder(got, Append(queue, last + 1), last + 1)
         /\ QueueInOrder(got, queue, last + 1)
<1> DEFINE more == Append(queue, last + 1)
<1>1. /\ DOMAIN more = 1..Len(queue) + 1 /\ DOMAIN queue = 1..Len(queue) /\ Len(queue) \in Nat
      /\ \A j \in 1..Len(queue) : more[j] = queue[j] /\ queue[j] \in Nat
      /\ more[Len(queue) + 1] = last + 1
      /\ \A i \in DOMAIN got : got[i] \in Nat
  OBVIOUS
<1> HIDE DEF more
<1>2. Increasing(got) /\ Increasing(queue)
      /\ (\A i \in DOMAIN got, j \in DOMAIN queue : got[i] < queue[j])
      /\ (\A i \in DOMAIN got : got[i] <= last) /\ (\A j \in DOMAIN queue : queue[j] <= last)
  BY DEF QueueInOrder
<1>3. \A j \in DOMAIN more : (j \in DOMAIN queue /\ more[j] = queue[j] /\ more[j] <= last)
                             \/ (j = Len(queue) + 1 /\ more[j] = last + 1)
  BY <1>1, <1>2
<1>4. Increasing(more)
  <2> SUFFICES ASSUME NEW i \in DOMAIN more, NEW j \in DOMAIN more, i < j
               PROVE  more[i] < more[j]
    BY DEF Increasing
  <2>1. i \in DOMAIN queue /\ more[i] = queue[i] /\ more[i] <= last
    BY <1>1, <1>3
  <2>2. CASE j = Len(queue) + 1
    BY <1>1, <2>1, <2>2
  <2>3. CASE j \in DOMAIN queue
    BY <1>1, <1>2, <2>1, <2>3 DEF Increasing
  <2> QED BY <1>3, <2>2, <2>3
<1>5. \A i \in DOMAIN got, j \in DOMAIN more : got[i] < more[j]
  <2> SUFFICES ASSUME NEW i \in DOMAIN got, NEW j \in DOMAIN more
               PROVE  got[i] < more[j]
    OBVIOUS
  <2>1. CASE j \in DOMAIN queue /\ more[j] = queue[j]
    BY <1>2, <2>1
  <2>2. CASE j = Len(queue) + 1 /\ more[j] = last + 1
    BY <1>1, <1>2, <2>2
  <2> QED BY <1>3, <2>1, <2>2
<1>6. (\A i \in DOMAIN got : got[i] <= last + 1) /\ (\A j \in DOMAIN queue : queue[j] <= last + 1)
  BY <1>1, <1>2
<1>7. \A j \in DOMAIN more : more[j] <= last + 1
  BY <1>1, <1>3, SMTT(40)
<1>8. QueueInOrder(got, more, last + 1) /\ QueueInOrder(got, queue, last + 1)
  BY <1>2, <1>4, <1>5, <1>6, <1>7 DEF QueueInOrder
<1> QED BY <1>8 DEF more

\* A task that runs delivers the oldest message or skips it.
LEMMA DeliveredFirst ==
  ASSUME NEW got \in Seq(Nat), NEW queue \in Seq(Nat), NEW last \in Nat, queue # <<>>,
         QueueInOrder(got, queue, last)
  PROVE  /\ QueueInOrder(Append(got, Head(queue)), Tail(queue), last)
         /\ QueueInOrder(got, Tail(queue), last)
<1> DEFINE more == Append(got, Head(queue))
           less == Tail(queue)
<1>1. /\ DOMAIN more = 1..Len(got) + 1 /\ DOMAIN got = 1..Len(got) /\ Len(got) \in Nat
      /\ \A i \in 1..Len(got) : more[i] = got[i] /\ got[i] \in Nat
      /\ more[Len(got) + 1] = queue[1]
  OBVIOUS
<1>2. /\ DOMAIN queue = 1..Len(queue) /\ Len(queue) \in Nat /\ 1 \in DOMAIN queue
      /\ DOMAIN less = 1..Len(queue) - 1
      /\ \A j \in 1..Len(queue) - 1 : less[j] = queue[j + 1]
      /\ \A j \in DOMAIN queue : queue[j] \in Nat
  OBVIOUS
<1> HIDE DEF more, less
<1>3. Increasing(got) /\ Increasing(queue)
      /\ (\A i \in DOMAIN got, j \in DOMAIN queue : got[i] < queue[j])
      /\ (\A i \in DOMAIN got : got[i] <= last) /\ (\A j \in DOMAIN queue : queue[j] <= last)
  BY DEF QueueInOrder
<1>4. \A i \in DOMAIN more : (i \in DOMAIN got /\ more[i] = got[i])
                             \/ (i = Len(got) + 1 /\ more[i] = queue[1])
  BY <1>1
<1>5. \A j \in DOMAIN less : j + 1 \in DOMAIN queue /\ 1 < j + 1 /\ less[j] = queue[j + 1]
  BY <1>2
<1>6. Increasing(more)
  <2> SUFFICES ASSUME NEW i \in DOMAIN more, NEW j \in DOMAIN more, i < j
               PROVE  more[i] < more[j]
    BY DEF Increasing
  <2>1. i \in DOMAIN got /\ more[i] = got[i]
    BY <1>1
  <2>2. CASE j = Len(got) + 1
    BY <1>1, <1>2, <1>3, <2>1, <2>2
  <2>3. CASE j \in DOMAIN got
    BY <1>1, <1>3, <2>1, <2>3 DEF Increasing
  <2> QED BY <1>4, <2>2, <2>3
<1>7. Increasing(less)
  <2> SUFFICES ASSUME NEW i \in DOMAIN less, NEW j \in DOMAIN less, i < j
               PROVE  less[i] < less[j]
    BY DEF Increasing
  <2>1. i + 1 < j + 1 /\ i + 1 \in DOMAIN queue /\ j + 1 \in DOMAIN queue
    BY <1>2, SMTT(40)
  <2> QED BY <1>3, <1>5, <2>1 DEF Increasing
<1>8. \A j \in DOMAIN less : queue[1] < less[j] /\ less[j] <= last
  BY <1>2, <1>3, <1>5 DEF Increasing
<1>9. (\A i \in DOMAIN more, j \in DOMAIN less : more[i] < less[j])
      /\ (\A i \in DOMAIN got, j \in DOMAIN less : got[i] < less[j])
  BY <1>3, <1>4, <1>5, <1>8
<1>10. \A i \in DOMAIN more : more[i] <= last
  BY <1>2, <1>3, <1>4
<1>11. QueueInOrder(more, less, last) /\ QueueInOrder(got, less, last)
  BY <1>3, <1>6, <1>7, <1>8, <1>9, <1>10 DEF QueueInOrder
<1> QED BY <1>11 DEF more, less

\* publish() numbers its message past all others and appends it under the
\* mutex; the worker of a connection runs its tasks first in, first out.
LEMMA OrderStep ==
  ASSUME TypeOK, OrderInv, [Next]_vars
  PROVE  OrderInv'
<1>1. /\ ws \in [Sockets -> Socket] /\ inbox \in [Sockets -> Seq(Nat)] /\ published \in Nat
      /\ \A v \in Sockets : ws[v].got \in Seq(Nat) /\ inbox[v] \in Seq(Nat)
  BY DEF TypeOK, Socket
<1>2. \A v \in Sockets : QueueInOrder(ws[v].got, inbox[v], published)
  BY DEF OrderInv
<1>3. ASSUME UNCHANGED <<inbox, published>>, \A v \in Sockets : ws'[v].got = ws[v].got
      PROVE  OrderInv'
  BY <1>2, <1>3 DEF OrderInv
<1>4. ASSUME NEW to, PublishTo(to)
      PROVE  OrderInv'
  <2>1. /\ published' = published + 1 /\ ws' = ws
        /\ \A v \in Sockets : inbox'[v] = Append(inbox[v], published + 1) \/ inbox'[v] = inbox[v]
    BY <1>4 DEF PublishTo
  <2> SUFFICES ASSUME NEW v \in Sockets
               PROVE  QueueInOrder(ws[v].got, inbox'[v], published + 1)
    BY <2>1 DEF OrderInv
  <2>2. /\ QueueInOrder(ws[v].got, Append(inbox[v], published + 1), published + 1)
        /\ QueueInOrder(ws[v].got, inbox[v], published + 1)
    BY <1>1, <1>2, PublishedLast
  <2> QED BY <2>1, <2>2
<1>5. ASSUME NEW w \in Sockets, Deliver(w)
      PROVE  OrderInv'
  <2> DEFINE q == ws[w]
             g == Append(q.got, Head(inbox[w]))
  <2>1. inbox[w] # <<>> /\ published' = published /\ inbox' = [inbox EXCEPT ![w] = Tail(inbox[w])]
    BY <1>5 DEF Deliver
  <2>2. QueueInOrder(g, Tail(inbox[w]), published) /\ QueueInOrder(q.got, Tail(inbox[w]), published)
    BY <1>1, <1>2, <2>1, DeliveredFirst
  <2>3. g \in Seq(Nat)
    BY <1>1, <2>1
  <2> HIDE DEF g
  <2>4. (ws'[w].got = q.got \/ ws'[w].got = g) /\ \A v \in Sockets : v # w => ws'[v] = ws[v]
    <3>1. CASE q.conn # "open"
      BY <1>5, <3>1 DEF Deliver
    <3>2. CASE q.conn = "open"
      <4> DEFINE h == [q EXCEPT !.got = g]
      <4>1. PICK s \in Written(h) : ws' = [ws EXCEPT ![w] = s]
        BY <1>5, <3>2 DEF Deliver, g
      <4>2. h \in Socket /\ h.got = g
        BY <1>1, <2>3 DEF Socket
      <4> HIDE DEF h
      <4>3. s.got = g
        BY <4>2, PiecesKeepGot
      <4> QED BY <1>1, <4>1, <4>3
    <3> QED BY <3>1, <3>2
  <2>5. inbox'[w] = Tail(inbox[w]) /\ \A v \in Sockets : v # w => inbox'[v] = inbox[v]
    BY <1>1, <2>1
  <2>6. QueueInOrder(ws'[w].got, inbox'[w], published')
    BY <2>1, <2>2, <2>4, <2>5
  <2>7. \A v \in Sockets : v # w => QueueInOrder(ws'[v].got, inbox'[v], published')
    BY <1>2, <2>1, <2>4, <2>5
  <2> QED BY <2>6, <2>7 DEF OrderInv
<1>6. CASE UNCHANGED vars
  BY <1>3, <1>6 DEF vars
<1>7. CASE Next
  <2>1. PICK w \in Sockets :
          \/ \E op \in Ops : ChannelRead(w, op)
          \/ ReadStep(w) \/ UserStep(w) \/ TimerStep(w) \/ Deliver(w) \/ ConnectionLost(w)
    BY <1>7 DEF Next
  <2>2. CASE \E t \in Topics : Publish(w, t) \/ Broadcast(w, t)
    BY <1>4, <2>2 DEF Publish, Broadcast
  <2>3. CASE Deliver(w)
    BY <1>5, <2>3
  <2>4. CASE \/ \E op \in Ops : ChannelRead(w, op)
             \/ ReadStep(w)
             \/ \E t \in Topics : Subscribe(w, t) \/ Unsubscribe(w, t)
             \/ Send(w) \/ CloseFrame(w) \/ ContextClose(w)
             \/ TimerStep(w) \/ ConnectionLost(w)
    BY <1>3, <2>4, OthersKeepGot
  <2> QED BY <2>1, <2>2, <2>3, <2>4 DEF UserStep
<1> QED BY <1>6, <1>7

\* A connection gets the messages of however many publishers on however many
\* workers in the order in which they were published, none of them twice.
THEOREM DeliveredInOrder == Spec => []InOrder
<1>1. Init => OrderInv
  BY DEF Init, OrderInv, QueueInOrder, Increasing
<1>2. TypeOK /\ OrderInv /\ [Next]_vars => OrderInv'
  BY OrderStep
<1>3. TypeOK /\ OrderInv => InOrder
  <2> SUFFICES ASSUME TypeOK, OrderInv, NEW w \in Sockets,
                      NEW i \in DOMAIN (ws[w].got \o inbox[w]), NEW j \in DOMAIN (ws[w].got \o inbox[w]), i < j
               PROVE  (ws[w].got \o inbox[w])[i] < (ws[w].got \o inbox[w])[j]
    BY DEF InOrder
  <2> DEFINE got == ws[w].got
             queue == inbox[w]
             all == got \o queue
  <2>1. got \in Seq(Nat) /\ queue \in Seq(Nat)
    BY DEF TypeOK, Socket
  <2>2. QueueInOrder(got, queue, published)
    BY DEF OrderInv
  <2>d. i \in DOMAIN all /\ j \in DOMAIN all
    OBVIOUS
  <2> HIDE DEF got, queue
  <2>3. /\ Len(got) \in Nat /\ Len(queue) \in Nat
        /\ DOMAIN got = 1..Len(got) /\ DOMAIN queue = 1..Len(queue)
        /\ DOMAIN all = 1..Len(got) + Len(queue)
    BY <2>1
  <2>4. \A k \in DOMAIN all :
          \/ k \in DOMAIN got /\ all[k] = got[k]
          \/ k - Len(got) \in DOMAIN queue /\ k > Len(got) /\ all[k] = queue[k - Len(got)]
    BY <2>1, <2>3
  <2>5. i \in DOMAIN all /\ j \in DOMAIN all /\ i \in Nat /\ j \in Nat
    BY <2>3, <2>d
  <2> HIDE DEF all
  <2>6. all[i] < all[j]
    <3>1. CASE i \in DOMAIN got /\ all[i] = got[i] /\ j \in DOMAIN got /\ all[j] = got[j]
      BY <2>2, <3>1 DEF QueueInOrder, Increasing
    <3>2. CASE i \in DOMAIN got /\ all[i] = got[i] /\ j - Len(got) \in DOMAIN queue
               /\ all[j] = queue[j - Len(got)]
      BY <2>2, <3>2 DEF QueueInOrder
    <3>3. CASE i - Len(got) \in DOMAIN queue /\ all[i] = queue[i - Len(got)]
               /\ j - Len(got) \in DOMAIN queue /\ all[j] = queue[j - Len(got)]
      <4>1. i - Len(got) < j - Len(got)
        BY <2>3, <2>5
      <4> QED BY <2>2, <3>3, <4>1 DEF QueueInOrder, Increasing
    <3>4. CASE i > Len(got) /\ j \in DOMAIN got
      BY <2>3, <2>5, <3>4
    <3> QED BY <2>4, <2>5, <3>1, <3>2, <3>3, <3>4
  <2> QED BY <2>6 DEF all, got, queue
<1> QED BY <1>1, <1>2, <1>3, TypeCorrect, PTL DEF Spec
=============================================================================
