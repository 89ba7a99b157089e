-------------------------- MODULE EventLoop_proofs --------------------------
(***************************************************************************)
(* Proofs about EventLoop, for every ring size and every number of posts.  *)
(***************************************************************************)
EXTENDS EventLoop, FiniteSetTheorems, SequenceTheorems, TLAPS

\* The index computed by (t + 1) & sizeMask_ wraps at the end of the ring.
LEMMA NextIndexWraps ==
  ASSUME NEW i \in 0..Capacity - 1
  PROVE  /\ NextIndex(i) = IF i = Capacity - 1 THEN 0 ELSE i + 1
         /\ NextIndex(i) \in 0..Capacity - 1
  BY CapacityAssumption DEF NextIndex

\* The tasks of a batch are tasks: empty functors are not counted.
LEMMA TasksInType ==
  ASSUME NEW s \in Seq(Functor)
  PROVE  TasksIn(s) \subseteq Task
<1> SUFFICES ASSUME NEW t \in TasksIn(s)
             PROVE  t \in Task
  OBVIOUS
<1>1. PICK i \in DOMAIN s : s[i] # Empty /\ t = s[i]
  BY DEF TasksIn
<1>2. s[i] \in Functor
  OBVIOUS
<1> QED BY <1>1, <1>2 DEF Functor

\* A producer inside queueInLoop has a task in its hands.
LEMMA BusyTask ==
  ASSUME TypeOK, NEW p \in Producers, pc[p] # "idle"
  PROVE  TaskOf(p) \in Task
<1>1. posts[p] \in 1..MaxPosts
  BY MaxPostsAssumption DEF TypeOK
<1> QED BY <1>1 DEF TaskOf, Task

\* Every variable of the queue keeps its type: in particular the indices stay
\* inside the ring for any number of producers.
THEOREM TypeCorrect == Spec => []TypeOK
<1> USE CapacityAssumption, MaxPostsAssumption
<1>1. Init => TypeOK
  BY DEF Init, TypeOK, Functor
<1>2. TypeOK /\ [Next]_vars => TypeOK'
  <2> SUFFICES ASSUME TypeOK, [Next]_vars
               PROVE  TypeOK'
    OBVIOUS
  <2> USE DEF TypeOK
  <2>1. ASSUME NEW p \in Producers, PushLoadTail(p)
        PROVE  TypeOK'
    BY <2>1 DEF PushLoadTail, ringVars, wakeVars, loopVars, histVars
  <2>2. ASSUME NEW p \in Producers, PushCheckFull(p)
        PROVE  TypeOK'
    BY <2>2 DEF PushCheckFull, ringVars, wakeVars, loopVars, histVars
  <2>3. ASSUME NEW p \in Producers, PushWrite(p)
        PROVE  TypeOK'
    <3>1. TaskOf(p) \in Functor
      BY <2>3, BusyTask DEF PushWrite, Functor
    <3> QED BY <2>3, <3>1 DEF PushWrite, wakeVars, loopVars, histVars
  <2>4. ASSUME NEW p \in Producers, PushPublish(p)
        PROVE  TypeOK'
    <3>1. TaskOf(p) \in Task
      BY <2>4, BusyTask DEF PushPublish
    <3>2. tail' \in 0..Capacity - 1
      BY <2>4, NextIndexWraps DEF PushPublish
    <3> QED BY <2>4, <3>1, <3>2 DEF PushPublish, wakeVars, loopVars
  <2>5. ASSUME NEW p \in Producers, QueueOverflow(p)
        PROVE  TypeOK'
    BY <2>5 DEF QueueOverflow, ringVars, wakeVars, loopVars, histVars
  <2>6. ASSUME NEW p \in Producers, QueueExchange(p)
        PROVE  TypeOK'
    BY <2>6 DEF QueueExchange, ringVars, wakeVars, loopVars, histVars
  <2>7. ASSUME NEW p \in Producers, Wakeup(p)
        PROVE  TypeOK'
    BY <2>7 DEF Wakeup, ringVars, loopVars, histVars
  <2>8. CASE StopStore
    BY <2>8 DEF StopStore, ringVars, wakeVars, threadVars, loopVars, histVars
  <2>9. CASE StopWakeup
    BY <2>9 DEF StopWakeup, ringVars, threadVars, loopVars, histVars
  <2>10. CASE FlushReset
    BY <2>10 DEF FlushReset, ringVars, threadVars, loopVars, histVars
  <2>11. CASE LoopCheckQuit
    BY <2>11 DEF LoopCheckQuit, ringVars, wakeVars, threadVars, histVars
  <2>12. CASE LoopPoll \/ LoopPollThrows
    <3>1. PICK handled \in BOOLEAN : PollReturns(handled)
      BY <2>12 DEF LoopPoll, LoopPollThrows
    <3>2. pipe' \in Nat /\ UNCHANGED <<wakeupSent, resetBuffered>>
      BY <3>1 DEF PollReturns
    <3>3. loopPc' \in {"reset", "check"}
      BY <2>12 DEF LoopPoll, LoopPollThrows
    <3> QED BY <2>12, <3>2, <3>3 DEF LoopPoll, LoopPollThrows, ringVars, threadVars, histVars
  <2>13. CASE LoopReset
    BY <2>13 DEF LoopReset, ringVars, threadVars, histVars
  <2>14. CASE LoopLoad
    BY <2>14 DEF LoopLoad, ringVars, wakeVars, threadVars, histVars
  <2>15. CASE LoopPop
    BY <2>15, NextIndexWraps DEF LoopPop, wakeVars, threadVars, Functor
  <2>16. CASE LoopStoreHead
    BY <2>16 DEF LoopStoreHead, wakeVars, threadVars, histVars
  <2>17. CASE LoopDrain
    <3>1. pending \in Seq(Functor)
      BY DEF Functor
    <3> QED BY <2>17, <3>1 DEF LoopDrain, ringVars, wakeVars, threadVars, histVars
  <2>18. CASE LoopRun
    BY <2>18 DEF LoopRun, ringVars, wakeVars, threadVars, Functor
  <2>19. CASE LoopThrow
    <3>1. TasksIn(Tail(functors)) \subseteq Task
      <4>1. Tail(functors) \in Seq(Functor)
        BY <2>19 DEF LoopThrow
      <4> QED BY <4>1, TasksInType
    <3>2. executed' \in Seq(Task)
      <4>1. Head(functors) \in Functor
        BY <2>19 DEF LoopThrow
      <4>2. \/ executed' = executed
            \/ Head(functors) # Empty /\ executed' = Append(executed, Head(functors))
        BY <2>19, Zenon DEF LoopThrow
      <4>3. CASE executed' = executed
        BY <4>3
      <4>4. CASE Head(functors) # Empty /\ executed' = Append(executed, Head(functors))
        <5>1. Head(functors) \in Task
          BY <4>1, <4>4 DEF Functor
        <5> QED BY <4>4, <5>1
      <4> QED BY <4>2, <4>3, <4>4
    <3>3. dropped' \in SUBSET Task
      BY <2>19, <3>1 DEF LoopThrow
    <3>4. /\ functors' = <<>> /\ loopPc' = "check"
          /\ UNCHANGED <<head, tail, buf, pending, wakeupSent, resetBuffered, pipe, quit, pc,
                         slot, posts, stopPc, calling, cursor, limit, accepted, taken>>
      BY <2>19 DEF LoopThrow, ringVars, wakeVars, threadVars
    <3> QED BY <3>2, <3>3, <3>4
  <2>20. CASE LoopBatchDone
    BY <2>20 DEF LoopBatchDone, ringVars, wakeVars, threadVars, histVars
  <2>21. CASE UNCHANGED vars
    BY <2>21 DEF vars, ringVars, wakeVars, threadVars, loopVars, histVars
  <2> QED
    BY <2>1, <2>2, <2>3, <2>4, <2>5, <2>6, <2>7, <2>8, <2>9, <2>10, <2>11, <2>12, <2>13,
       <2>14, <2>15, <2>16, <2>17, <2>18, <2>19, <2>20, <2>21
       DEF Next, ProducerStep, LoopStep
<1> QED BY <1>1, <1>2, PTL DEF Spec

-----------------------------------------------------------------------------
(* With one producer the ring is a queue.                                  *)

OneProducer == \A p, q \in Producers : p = q

\* Between its load of tail_ and its store of tail_ the producer knows the
\* tail; once it has seen room there is room until it publishes; its slot
\* then holds its task.
ProducerKnows ==
  \A p \in Producers :
    /\ pc[p] \in {"check", "write", "publish"} => slot[p] = tail
    /\ pc[p] \in {"write", "publish"} => NextIndex(tail) # head
    /\ pc[p] = "publish" => buf[tail] = TaskOf(p)

\* popAll stays between head_ and tail_.
PopInside ==
  loopPc = "pop" =>
    /\ Distance(head, cursor) <= Distance(head, limit)
    /\ Distance(head, limit) <= Distance(head, tail)

SpscInv == TypeOK /\ ProducerKnows /\ PopInside /\ RingIsQueue

\* The ring is constructed empty.
LEMMA SpscInit == Init => SpscInv
<1> SUFFICES ASSUME Init PROVE SpscInv
  OBVIOUS
<1>1. TypeOK
  BY CapacityAssumption, MaxPostsAssumption DEF Init, TypeOK, Functor
<1>2. ProducerKnows /\ PopInside
  BY DEF Init, ProducerKnows, PopInside
<1>3. RingIsQueue
  BY DEF Init, RingIsQueue, Distance, Front
<1> QED BY <1>1, <1>2, <1>3 DEF SpscInv

\* Steps that leave the ring, the producer's view of it and popAll alone.
LEMMA SpscFrame ==
  ASSUME SpscInv, TypeOK',
         UNCHANGED <<head, tail, buf, accepted, taken, cursor, limit>>,
         loopPc' = "pop" <=> loopPc = "pop",
         \A p \in Producers :
           /\ slot'[p] = slot[p]
           /\ posts'[p] = posts[p]
           /\ pc'[p] \in {"check", "write", "publish"} => pc'[p] = pc[p]
  PROVE  SpscInv'
<1> USE DEF SpscInv
<1>1. ProducerKnows'
  BY DEF ProducerKnows, NextIndex, TaskOf
<1>2. PopInside' /\ RingIsQueue'
  BY DEF PopInside, RingIsQueue, Distance, Front, SlotAt
<1> QED BY <1>1, <1>2

\* One step of one producer, or of the loop, keeps the ring a queue.
LEMMA SpscStep ==
  ASSUME OneProducer, SpscInv, TypeOK', [Next]_vars
  PROVE  SpscInv'
<1> USE CapacityAssumption, MaxPostsAssumption
<1>t. /\ head \in 0..Capacity - 1 /\ tail \in 0..Capacity - 1
      /\ cursor \in 0..Capacity - 1 /\ limit \in 0..Capacity - 1
      /\ buf \in [0..Capacity - 1 -> Functor]
      /\ accepted \in Seq(Task) /\ taken \in Nat
      /\ slot \in [Producers -> 0..Capacity - 1]
      /\ posts \in [Producers -> 0..MaxPosts]
      /\ pc \in [Producers -> {"idle", "check", "write", "publish", "overflow", "exchange",
                              "wakeup"}]
  BY DEF SpscInv, TypeOK
<1>1. ASSUME NEW p \in Producers, PushLoadTail(p)
      PROVE  SpscInv'
  <2>1. ProducerKnows'
    BY <1>1, <1>t DEF PushLoadTail, ringVars, SpscInv, OneProducer, ProducerKnows
  <2>2. PopInside' /\ RingIsQueue'
    BY <1>1 DEF PushLoadTail, ringVars, loopVars, histVars, SpscInv, PopInside, RingIsQueue,
       Distance, Front, SlotAt
  <2> QED BY <2>1, <2>2 DEF SpscInv
<1>2. ASSUME NEW p \in Producers, PushCheckFull(p)
      PROVE  SpscInv'
  <2>1. ProducerKnows'
    BY <1>2, <1>t DEF PushCheckFull, ringVars, SpscInv, OneProducer, ProducerKnows, NextIndex
  <2>2. PopInside' /\ RingIsQueue'
    BY <1>2 DEF PushCheckFull, ringVars, loopVars, histVars, SpscInv, PopInside, RingIsQueue,
       Distance, Front, SlotAt
  <2> QED BY <2>1, <2>2 DEF SpscInv
<1>3. ASSUME NEW p \in Producers, PushWrite(p)
      PROVE  SpscInv'
  <2>1. slot[p] = tail /\ NextIndex(tail) # head
    BY <1>3 DEF PushWrite, SpscInv, ProducerKnows
  <2>2. ProducerKnows'
    BY <1>3, <1>t, <2>1
       DEF PushWrite, SpscInv, OneProducer, ProducerKnows, NextIndex, TaskOf
  <2>3. PopInside'
    BY <1>3 DEF PushWrite, loopVars, SpscInv, PopInside, Distance
  <2>4. RingIsQueue'
    <3>1. /\ UNCHANGED <<head, tail, cursor, loopPc, accepted, taken>>
          /\ Front' = Front /\ Front \in 0..Capacity - 1
      BY <1>3, <1>t DEF PushWrite, loopVars, histVars, Front
    <3>2. \A k \in 0..Distance(Front, tail) - 1 :
            SlotAt(Front, k) \in 0..Capacity - 1 /\ SlotAt(Front, k) # tail
      BY <1>t, <3>1 DEF Distance, SlotAt
    <3>3. \A i \in 0..Capacity - 1 : i # tail => buf'[i] = buf[i]
      BY <1>3, <1>t, <2>1 DEF PushWrite
    <3>4. Distance(Front, tail)' = Distance(Front, tail)
      BY <3>1 DEF Distance
    <3>5. \A k \in 0..Distance(Front, tail) - 1 : SlotAt(Front, k)' = SlotAt(Front, k)
      BY <3>1 DEF SlotAt
    <3> QED BY <3>1, <3>2, <3>3, <3>4, <3>5 DEF SpscInv, RingIsQueue
  <2> QED BY <2>2, <2>3, <2>4 DEF SpscInv
<1>4. ASSUME NEW p \in Producers, PushPublish(p)
      PROVE  SpscInv'
  <2>1. slot[p] = tail /\ NextIndex(tail) # head /\ buf[tail] = TaskOf(p)
    BY <1>4 DEF PushPublish, SpscInv, ProducerKnows
  <2>2. /\ tail' = (IF tail = Capacity - 1 THEN 0 ELSE tail + 1)
        /\ tail' # head
    BY <1>4, <1>t, <2>1, NextIndexWraps DEF PushPublish
  <2>3. ProducerKnows'
    BY <1>4, <1>t DEF PushPublish, OneProducer, ProducerKnows
  <2>4. PopInside'
    BY <1>4, <1>t, <2>2 DEF PushPublish, loopVars, SpscInv, PopInside, Distance
  <2>5. RingIsQueue'
    <3>1. /\ UNCHANGED <<head, buf, cursor, loopPc, taken>>
          /\ Front' = Front /\ Front \in 0..Capacity - 1
      BY <1>4, <1>t DEF PushPublish, loopVars, histVars, Front
    <3>2. Distance(Front, tail)' = Distance(Front, tail) + 1
      BY <1>t, <2>2, <3>1 DEF SpscInv, PopInside, Distance, Front
    <3>3. /\ Len(accepted') = Len(accepted) + 1
          /\ \A i \in 1..Len(accepted) : accepted'[i] = accepted[i]
          /\ accepted'[Len(accepted) + 1] = buf[tail]
      BY <1>4, <1>t, <2>1 DEF PushPublish
    <3>4. SlotAt(Front, Distance(Front, tail)) = tail
      BY <1>t, <3>1 DEF SlotAt, Distance
    <3>5. Distance(Front, tail) \in Nat
      BY <1>t, <3>1 DEF Distance
    <3>6. taken + Distance(Front, tail) = Len(accepted)
      BY DEF SpscInv, RingIsQueue
    <3>7. ASSUME NEW k \in 0..Distance(Front, tail)
          PROVE  buf[SlotAt(Front, k)] = accepted'[taken + 1 + k]
      <4>1. CASE k = Distance(Front, tail)
        BY <1>t, <3>3, <3>4, <3>5, <3>6, <4>1, SMTT(40)
      <4>2. CASE k < Distance(Front, tail)
        <5>1. k \in 0..Distance(Front, tail) - 1 /\ taken + 1 + k \in 1..Len(accepted)
          BY <1>t, <3>5, <3>6, <4>2
        <5> QED BY <3>3, <5>1 DEF SpscInv, RingIsQueue
      <4> QED BY <3>5, <4>1, <4>2
    <3> QED BY <1>t, <3>1, <3>2, <3>3, <3>5, <3>6, <3>7, SMTT(40) DEF RingIsQueue, SlotAt
  <2> QED BY <2>3, <2>4, <2>5 DEF SpscInv
<1>5. ASSUME NEW p \in Producers, QueueOverflow(p) \/ QueueExchange(p) \/ Wakeup(p)
      PROVE  SpscInv'
  <2>1. UNCHANGED <<head, tail, buf, accepted, taken, cursor, limit, loopPc, slot, posts>>
    BY <1>5 DEF QueueOverflow, QueueExchange, Wakeup, ringVars, loopVars, histVars
  <2>2. \A q \in Producers : pc'[q] \in {"check", "write", "publish"} => pc'[q] = pc[q]
    BY <1>5, <1>t DEF QueueOverflow, QueueExchange, Wakeup
  <2> QED BY <2>1, <2>2, SpscFrame
<1>6. CASE \/ StopStore \/ StopWakeup \/ FlushReset \/ LoopCheckQuit \/ LoopPoll
           \/ LoopPollThrows \/ LoopReset \/ LoopDrain \/ LoopRun \/ LoopThrow \/ LoopBatchDone
  <2>1. /\ UNCHANGED <<head, tail, buf, accepted, taken, cursor, limit, pc, slot, posts>>
        /\ loopPc' = "pop" <=> loopPc = "pop"
    BY <1>6 DEF StopStore, StopWakeup, FlushReset, LoopCheckQuit, LoopPoll, LoopPollThrows,
       PollReturns, LoopReset,
       LoopDrain, LoopRun, LoopThrow, LoopBatchDone, ringVars, threadVars, loopVars, histVars
  <2> QED BY <2>1, SpscFrame
<1>7. CASE LoopLoad
  <2>1. /\ UNCHANGED <<head, tail, buf, accepted, taken, pc, slot, posts>>
        /\ loopPc = "load" /\ loopPc' = "pop" /\ cursor' = head /\ limit' = tail
    BY <1>7 DEF LoopLoad, ringVars, threadVars, histVars
  <2>2. ProducerKnows'
    BY <2>1 DEF SpscInv, ProducerKnows, TaskOf, NextIndex
  <2>3. PopInside'
    BY <1>t, <2>1 DEF PopInside, Distance
  <2>4. RingIsQueue'
    BY <2>1 DEF SpscInv, RingIsQueue, Distance, Front, SlotAt
  <2> QED BY <2>2, <2>3, <2>4 DEF SpscInv
<1>8. CASE LoopPop
  <2>1. /\ UNCHANGED <<head, tail, limit, accepted, pc, slot, posts>>
        /\ loopPc = "pop" /\ loopPc' = "pop" /\ cursor # limit
        /\ taken' = taken + 1
        /\ \A i \in 0..Capacity - 1 : i # cursor => buf'[i] = buf[i]
        /\ cursor' = (IF cursor = Capacity - 1 THEN 0 ELSE cursor + 1)
    BY <1>8, <1>t, NextIndexWraps DEF LoopPop, threadVars
  <2>2. /\ Distance(head, cursor) < Distance(head, limit)
        /\ Distance(head, limit) <= Distance(head, tail)
    BY <1>t, <2>1 DEF SpscInv, PopInside, Distance
  <2>3. ProducerKnows'
    <3>1. cursor # tail
      BY <1>t, <2>2 DEF Distance
    <3> QED BY <1>t, <2>1, <3>1 DEF SpscInv, ProducerKnows, TaskOf, NextIndex
  <2>4. PopInside'
    BY <1>t, <2>1, <2>2 DEF PopInside, Distance
  <2>5. RingIsQueue'
    <3>1. Front = cursor /\ Front' = cursor' /\ cursor' \in 0..Capacity - 1
      BY <1>t, <2>1 DEF Front
    <3>2. Distance(cursor, tail) > 0 /\ Distance(cursor', tail) = Distance(cursor, tail) - 1
      BY <1>t, <2>1, <2>2 DEF Distance
    <3>3. \A k \in 0..Distance(cursor', tail) - 1 :
            /\ SlotAt(cursor', k) = SlotAt(cursor, k + 1)
            /\ SlotAt(cursor, k + 1) \in 0..Capacity - 1
            /\ SlotAt(cursor, k + 1) # cursor
      BY <1>t, <2>1, <3>2 DEF Distance, SlotAt
    <3>4. /\ taken + Distance(cursor, tail) = Len(accepted)
          /\ \A k \in 0..Distance(cursor, tail) - 1 :
               buf[SlotAt(cursor, k)] = accepted[taken + 1 + k]
      BY <3>1 DEF SpscInv, RingIsQueue
    <3>5. Distance(cursor, tail) \in Nat
      BY <1>t DEF Distance
    <3>6. ASSUME NEW k \in 0..Distance(cursor', tail) - 1
          PROVE  buf'[SlotAt(cursor', k)] = accepted[taken + 1 + 1 + k]
      <4>1. k + 1 \in 0..Distance(cursor, tail) - 1
        BY <3>2, <3>5
      <4>2. buf[SlotAt(cursor, k + 1)] = accepted[taken + 1 + (k + 1)]
        BY <3>4, <4>1
      <4>3. taken + 1 + (k + 1) = taken + 1 + 1 + k
        BY <1>t
      <4> QED BY <2>1, <3>3, <4>2, <4>3
    <3>7. taken' + Distance(cursor', tail) = Len(accepted)
      BY <1>t, <2>1, <3>2, <3>4, <3>5
    <3>8. /\ Distance(Front, tail)' = Distance(cursor', tail)
          /\ \A k \in 0..Distance(cursor', tail) - 1 :
               buf'[IF Front' + k < Capacity THEN Front' + k ELSE Front' + k - Capacity]
                 = accepted'[taken' + 1 + k]
      BY <2>1, <3>1, <3>6 DEF Distance, SlotAt
    <3> QED BY <2>1, <3>7, <3>8 DEF RingIsQueue, SlotAt
  <2> QED BY <2>3, <2>4, <2>5 DEF SpscInv
<1>9. CASE LoopStoreHead
  <2>1. /\ UNCHANGED <<tail, buf, accepted, taken, cursor, limit, pc, slot, posts>>
        /\ loopPc = "pop" /\ loopPc' = "drain" /\ cursor = limit /\ head' = cursor
    BY <1>9 DEF LoopStoreHead, threadVars, histVars
  <2>2. Distance(head, cursor) <= Distance(head, tail)
    BY <2>1 DEF SpscInv, PopInside
  <2>3. ProducerKnows'
    <3>1. ASSUME NextIndex(tail) # head
          PROVE  NextIndex(tail) # cursor
      <4>1. NextIndex(tail) = IF tail = Capacity - 1 THEN 0 ELSE tail + 1
        BY <1>t, NextIndexWraps
      <4> HIDE DEF NextIndex
      <4> QED BY <1>t, <2>2, <3>1, <4>1 DEF Distance
    <3> QED BY <2>1, <3>1 DEF SpscInv, ProducerKnows, TaskOf, NextIndex
  <2>4. PopInside'
    BY <2>1 DEF PopInside
  <2>5. RingIsQueue'
    BY <2>1 DEF SpscInv, RingIsQueue, Distance, Front, SlotAt
  <2> QED BY <2>3, <2>4, <2>5 DEF SpscInv
<1>10. CASE UNCHANGED vars
  <2>1. UNCHANGED <<head, tail, buf, accepted, taken, cursor, limit, loopPc, pc, slot, posts>>
    BY <1>10 DEF vars, ringVars, threadVars, loopVars, histVars
  <2> QED BY <2>1, SpscFrame
<1> QED
  BY <1>1, <1>2, <1>3, <1>4, <1>5, <1>6, <1>7, <1>8, <1>9, <1>10
     DEF Next, ProducerStep, LoopStep

\* With a single producer the ring never loses, duplicates or reorders a
\* task, whatever its size: it is exactly the queue of accepted tasks.
THEOREM RingCorrect ==
  ASSUME OneProducer
  PROVE  Spec => []RingIsQueue
<1>1. SpscInv /\ TypeOK' /\ [Next]_vars => SpscInv'
  BY SpscStep
<1>2. SpscInv => RingIsQueue
  BY DEF SpscInv
<1> QED BY <1>1, <1>2, SpscInit, TypeCorrect, PTL DEF Spec

-----------------------------------------------------------------------------
(* With one producer the queue implements Mailbox.                         *)

\* The tasks accepted first, lo of them, have left the mailbox: they ran or
\* were thrown away.  The next ones are in the batch, in front of the empty
\* functors that overflowed; those come in with LoopDrain.
LeftFirst(lo) ==
  /\ lo \in 0..taken
  /\ \A i \in 1..lo : accepted[i] \in dropped \/ \E k \in DOMAIN executed : executed[k] = accepted[i]
BatchFollows(lo) ==
  /\ taken - lo <= Len(functors)
  /\ \A i \in 1..Len(functors) :
       functors[i] = IF i <= taken - lo THEN accepted[lo + i] ELSE Empty
  /\ loopPc \in {"load", "pop", "drain"} => taken - lo = Len(functors)
  /\ loopPc \notin {"pop", "drain", "run"} => functors = <<>>

\* What a step does to the mailbox of which lo tasks have left: nothing, or
\* it accepts one, runs one, or throws the batch away.
MailStays(lo, new) == new = lo /\ UNCHANGED <<accepted, executed>>
MailAccepts(lo, new) ==
  new = lo /\ UNCHANGED executed /\ \E t \in Task : accepted' = Append(accepted, t)
MailRuns(lo, new) ==
  /\ new = lo + 1 /\ lo < taken /\ UNCHANGED accepted
  /\ executed' = Append(executed, accepted[lo + 1])
MailFails(lo, new) ==
  /\ new = taken /\ lo < taken /\ UNCHANGED accepted
  /\ executed' = Append(executed, accepted[lo + 1])
MailStep(lo, new) ==
  MailStays(lo, new) \/ MailAccepts(lo, new) \/ MailRuns(lo, new) \/ MailFails(lo, new)

\* A ring slot between the indices holds a task, never an empty functor.
LEMMA AcceptedAreTasks ==
  ASSUME SpscInv
  PROVE  /\ taken \in Nat /\ taken <= Len(accepted) /\ Len(accepted) \in Nat
         /\ \A i \in 1..Len(accepted) : accepted[i] \in Task /\ accepted[i] # Empty
<1>1. /\ accepted \in Seq(Task) /\ taken \in Nat /\ Len(accepted) \in Nat
      /\ head \in 0..Capacity - 1 /\ tail \in 0..Capacity - 1 /\ cursor \in 0..Capacity - 1
  BY DEF SpscInv, TypeOK
<1>2. Distance(Front, tail) \in Nat
  BY <1>1, CapacityAssumption DEF Distance, Front
<1>3. taken <= Len(accepted)
  BY <1>1, <1>2 DEF SpscInv, RingIsQueue
<1>4. \A i \in 1..Len(accepted) : accepted[i] \in Task
  BY <1>1
<1> QED BY <1>1, <1>3, <1>4, EmptyAssumption

\* Steps that touch neither the history nor the batch.
LEMMA MailFrame ==
  ASSUME NEW lo, LeftFirst(lo), BatchFollows(lo),
         UNCHANGED <<functors, accepted, taken, executed, dropped>>,
         loopPc' \in {"load", "pop", "drain"} => loopPc \in {"load", "pop", "drain"} \/ (functors = <<>> /\ taken = lo),
         loopPc' \notin {"pop", "drain", "run"} => functors = <<>>
  PROVE  LeftFirst(lo)' /\ BatchFollows(lo)' /\ MailStays(lo, lo)
<1>1. LeftFirst(lo)'
  BY DEF LeftFirst
<1>2. /\ taken' - lo <= Len(functors')
      /\ \A i \in 1..Len(functors') : functors'[i] = IF i <= taken' - lo THEN accepted'[lo + i] ELSE Empty
      /\ loopPc' \notin {"pop", "drain", "run"} => functors' = <<>>
  BY DEF BatchFollows
<1>3. loopPc' \in {"load", "pop", "drain"} => taken' - lo = Len(functors')
  <2>1. CASE loopPc \in {"load", "pop", "drain"}
    BY <2>1 DEF BatchFollows
  <2>2. CASE functors = <<>> /\ taken = lo
    BY <2>2 DEF LeftFirst
  <2> QED BY <2>1, <2>2
<1>4. BatchFollows(lo)'
  BY <1>2, <1>3 DEF BatchFollows
<1> QED BY <1>1, <1>4 DEF MailStays

\* Every step keeps the order of the batch and does to the mailbox what a
\* mailbox does.
LEMMA BatchStep ==
  ASSUME SpscInv, TypeOK', NEW lo, LeftFirst(lo), BatchFollows(lo), [Next]_vars
  PROVE  \E new : LeftFirst(new)' /\ BatchFollows(new)' /\ MailStep(lo, new)
<1>t. /\ functors \in Seq(Functor) /\ accepted \in Seq(Task) /\ executed \in Seq(Task)
      /\ Len(functors) \in Nat /\ taken \in Nat /\ lo \in Nat /\ lo <= taken
      /\ taken <= Len(accepted) /\ Len(accepted) \in Nat
      /\ \A i \in 1..Len(accepted) : accepted[i] \in Task /\ accepted[i] # Empty
      /\ pending \in Seq({Empty}) /\ buf \in [0..Capacity - 1 -> Functor]
  <2>1. TypeOK
    BY DEF SpscInv
  <2>2. /\ taken \in Nat /\ taken <= Len(accepted) /\ Len(accepted) \in Nat
        /\ \A i \in 1..Len(accepted) : accepted[i] \in Task /\ accepted[i] # Empty
    BY AcceptedAreTasks
  <2>3. lo \in 0..taken
    BY DEF LeftFirst
  <2>4. Len(functors) \in Nat /\ lo \in Nat /\ lo <= taken
    BY <2>1, <2>2, <2>3 DEF TypeOK
  <2> QED BY <2>1, <2>2, <2>4 DEF TypeOK
<1>e. ASSUME loopPc \notin {"pop", "drain", "run"}
      PROVE  functors = <<>> /\ taken = lo
  <2>1. functors = <<>> /\ taken - lo <= Len(functors)
    BY <1>e DEF BatchFollows
  <2>2. Len(functors) = 0
    BY <2>1
  <2> QED BY <1>t, <2>1, <2>2
<1>q. ASSUME LeftFirst(lo)' /\ BatchFollows(lo)' /\ MailStays(lo, lo)
      PROVE  \E new : LeftFirst(new)' /\ BatchFollows(new)' /\ MailStep(lo, new)
  BY <1>q DEF MailStep
<1>1. ASSUME NEW p \in Producers,
             PushLoadTail(p) \/ PushCheckFull(p) \/ PushWrite(p) \/ QueueOverflow(p)
               \/ QueueExchange(p) \/ Wakeup(p)
      PROVE  \E new : LeftFirst(new)' /\ BatchFollows(new)' /\ MailStep(lo, new)
  <2>1. UNCHANGED <<functors, loopPc, accepted, taken, executed, dropped>>
    BY <1>1 DEF PushLoadTail, PushCheckFull, PushWrite, QueueOverflow, QueueExchange, Wakeup,
       loopVars, histVars
  <2>2. loopPc' \notin {"pop", "drain", "run"} => functors = <<>>
    BY <1>e, <2>1
  <2>3. LeftFirst(lo)' /\ BatchFollows(lo)' /\ MailStays(lo, lo)
    BY <2>1, <2>2, MailFrame
  <2> QED BY <1>q, <2>3
<1>2. CASE StopStore \/ StopWakeup \/ FlushReset \/ LoopCheckQuit \/ LoopPoll
           \/ LoopPollThrows \/ LoopReset
           \/ LoopLoad \/ LoopStoreHead \/ LoopBatchDone \/ UNCHANGED vars
  <2>1. /\ UNCHANGED <<functors, accepted, taken, executed, dropped>>
        /\ \/ loopPc' = loopPc
           \/ loopPc = "check" /\ loopPc' \in {"exited", "poll"}
           \/ loopPc = "poll" /\ loopPc' \in {"reset", "check"}
           \/ loopPc = "reset" /\ loopPc' = "load"
           \/ loopPc = "load" /\ loopPc' = "pop"
           \/ loopPc = "pop" /\ loopPc' = "drain"
           \/ loopPc = "run" /\ loopPc' = "check" /\ functors = <<>>
    BY <1>2 DEF StopStore, StopWakeup, FlushReset, LoopCheckQuit, LoopPoll, LoopPollThrows,
       PollReturns, LoopReset, LoopLoad,
       LoopStoreHead, LoopBatchDone, vars, loopVars, histVars
  <2>2. loopPc' \notin {"pop", "drain", "run"} => functors = <<>>
    BY <1>e, <2>1
  <2>3. loopPc' \in {"load", "pop", "drain"} =>
          loopPc \in {"load", "pop", "drain"} \/ (functors = <<>> /\ taken = lo)
    BY <1>e, <2>1
  <2>4. LeftFirst(lo)' /\ BatchFollows(lo)' /\ MailStays(lo, lo)
    BY <2>1, <2>2, <2>3, MailFrame
  <2> QED BY <1>q, <2>4
<1>3. ASSUME NEW p \in Producers, PushPublish(p)
      PROVE  \E new : LeftFirst(new)' /\ BatchFollows(new)' /\ MailStep(lo, new)
  <2>1. /\ UNCHANGED <<functors, loopPc, taken, executed, dropped>>
        /\ accepted' = Append(accepted, TaskOf(p)) /\ pc[p] # "idle"
    BY <1>3 DEF PushPublish, loopVars, histVars
  <2>2. TaskOf(p) \in Task
    BY <2>1, BusyTask DEF SpscInv
  <2>3. \A i \in 1..Len(accepted) : accepted'[i] = accepted[i]
    BY <1>t, <2>1, <2>2
  <2>4. LeftFirst(lo)'
    <3>1. \A i \in 1..lo : accepted'[i] = accepted[i]
      BY <1>t, <2>3
    <3> QED BY <2>1, <3>1 DEF LeftFirst
  <2>5. BatchFollows(lo)'
    <3>1. \A i \in 1..Len(functors) : i <= taken - lo => accepted'[lo + i] = accepted[lo + i]
      BY <1>t, <2>3
    <3> QED BY <2>1, <3>1 DEF BatchFollows
  <2>6. MailAccepts(lo, lo)
    BY <2>1, <2>2 DEF MailAccepts
  <2> QED BY <2>4, <2>5, <2>6 DEF MailStep
<1>4. CASE LoopPop
  <2>1. /\ UNCHANGED <<accepted, executed, dropped>> /\ taken' = taken + 1
        /\ loopPc = "pop" /\ loopPc' = "pop" /\ cursor # limit
        /\ functors' = Append(functors, buf[cursor])
    BY <1>4 DEF LoopPop
  <2>2. taken < Len(accepted) /\ buf[cursor] = accepted[taken + 1] /\ buf[cursor] \in Functor
    <3>1. /\ head \in 0..Capacity - 1 /\ tail \in 0..Capacity - 1
          /\ cursor \in 0..Capacity - 1 /\ limit \in 0..Capacity - 1
      BY DEF SpscInv, TypeOK
    <3>2. Distance(cursor, tail) \in Nat /\ Distance(cursor, tail) > 0
      BY <2>1, <3>1, CapacityAssumption DEF SpscInv, PopInside, Distance
    <3>3. Front = cursor /\ SlotAt(cursor, 0) = cursor
      <4>1. Front = cursor
        BY <2>1 DEF Front
      <4> QED BY <3>1, <4>1, CapacityAssumption DEF SlotAt
    <3>4. taken + Distance(cursor, tail) = Len(accepted)
      BY <3>3 DEF SpscInv, RingIsQueue
    <3>5. 0 \in 0..Distance(cursor, tail) - 1
      BY <3>2
    <3>6. buf[SlotAt(cursor, 0)] = accepted[taken + 1 + 0]
      BY <3>3, <3>5 DEF SpscInv, RingIsQueue
    <3> QED BY <1>t, <3>1, <3>2, <3>3, <3>4, <3>6
  <2>3. LeftFirst(lo)'
    BY <1>t, <2>1 DEF LeftFirst
  <2>4. BatchFollows(lo)'
    <3>1. taken - lo = Len(functors)
      BY <2>1 DEF BatchFollows
    <3>2. /\ Len(functors') = Len(functors) + 1
          /\ \A i \in 1..Len(functors) : functors'[i] = functors[i]
          /\ functors'[Len(functors) + 1] = accepted[taken + 1]
      BY <1>t, <2>1, <2>2
    <3>3. ASSUME NEW i \in 1..Len(functors')
          PROVE  functors'[i] = IF i <= taken' - lo THEN accepted'[lo + i] ELSE Empty
      <4>1. CASE i = Len(functors) + 1
        BY <1>t, <2>1, <3>1, <3>2, <4>1
      <4>2. CASE i \in 1..Len(functors)
        <5>1. functors[i] = accepted[lo + i]
          BY <1>t, <3>1, <4>2 DEF BatchFollows
        <5> QED BY <1>t, <2>1, <3>1, <3>2, <4>2, <5>1
      <4> QED BY <1>t, <3>2, <4>1, <4>2
    <3>4. taken' - lo = Len(functors')
      BY <1>t, <2>1, <3>1, <3>2
    <3>5. taken' - lo <= Len(functors') /\ loopPc' = "pop"
      BY <1>t, <2>1, <3>2, <3>4
    <3> QED BY <3>3, <3>4, <3>5 DEF BatchFollows
  <2> QED BY <1>q, <2>1, <2>3, <2>4 DEF MailStays
<1>5. CASE LoopDrain
  <2>1. /\ UNCHANGED <<accepted, taken, executed, dropped>>
        /\ loopPc = "drain" /\ loopPc' = "run" /\ functors' = functors \o pending
    BY <1>5 DEF LoopDrain, histVars
  <2>2. LeftFirst(lo)'
    BY <2>1 DEF LeftFirst
  <2>3. BatchFollows(lo)'
    <3>1. taken - lo = Len(functors)
      BY <2>1 DEF BatchFollows
    <3>2. pending \in Seq(Functor)
      BY <1>t DEF Functor
    <3>3. /\ Len(pending) \in Nat /\ Len(functors') = Len(functors) + Len(pending)
          /\ \A i \in 1..Len(functors) : functors'[i] = functors[i]
          /\ \A i \in 1..Len(functors') : i > Len(functors) => functors'[i] = Empty
      BY <1>t, <2>1, <3>2
    <3>4. ASSUME NEW i \in 1..Len(functors')
          PROVE  functors'[i] = IF i <= taken' - lo THEN accepted'[lo + i] ELSE Empty
      <4>1. CASE i > Len(functors)
        BY <1>t, <2>1, <3>1, <3>3, <4>1
      <4>2. CASE i \in 1..Len(functors)
        <5>1. functors[i] = accepted[lo + i]
          BY <1>t, <3>1, <4>2 DEF BatchFollows
        <5> QED BY <1>t, <2>1, <3>1, <3>3, <4>2, <5>1
      <4> QED BY <1>t, <3>3, <4>1, <4>2
    <3>5. taken' - lo <= Len(functors') /\ loopPc' = "run"
      BY <1>t, <2>1, <3>1, <3>3
    <3> QED BY <3>4, <3>5 DEF BatchFollows
  <2> QED BY <1>q, <2>1, <2>2, <2>3 DEF MailStays
<1>6. CASE LoopRun
  <2>1. /\ UNCHANGED <<accepted, taken, dropped>> /\ loopPc = "run" /\ loopPc' = "run"
        /\ functors # <<>> /\ Head(functors) # Empty
        /\ executed' = Append(executed, Head(functors)) /\ functors' = Tail(functors)
    BY <1>6 DEF LoopRun
  <2>2. 1 \in 1..Len(functors) /\ Head(functors) = functors[1]
    BY <1>t, <2>1
  <2>3. lo < taken /\ Head(functors) = accepted[lo + 1]
    BY <1>t, <2>1, <2>2 DEF BatchFollows
  <2>4. LeftFirst(lo + 1)'
    <3>1. executed' \in Seq(Task) /\ \A k \in DOMAIN executed : k \in DOMAIN executed' /\ executed'[k] = executed[k]
      BY <1>t, <2>1, <2>3
    <3>2. Len(executed) + 1 \in DOMAIN executed' /\ executed'[Len(executed) + 1] = accepted[lo + 1]
      BY <1>t, <2>1, <2>3
    <3>3. ASSUME NEW i \in 1..lo + 1
          PROVE  accepted'[i] \in dropped' \/ \E k \in DOMAIN executed' : executed'[k] = accepted'[i]
      <4>1. CASE i = lo + 1
        BY <2>1, <3>2, <4>1
      <4>2. CASE i \in 1..lo
        BY <2>1, <3>1, <4>2 DEF LeftFirst
      <4> QED BY <1>t, <4>1, <4>2
    <3> QED BY <1>t, <2>1, <2>3, <3>3, SMTT(40) DEF LeftFirst
  <2>5. BatchFollows(lo + 1)'
    <3>1. Len(functors') = Len(functors) - 1 /\ \A i \in 1..Len(functors) - 1 : functors'[i] = functors[i + 1]
      BY <1>t, <2>1
    <3>2. ASSUME NEW i \in 1..Len(functors')
          PROVE  functors'[i] = IF i <= taken' - (lo + 1) THEN accepted'[(lo + 1) + i] ELSE Empty
      <4>1. i + 1 \in 1..Len(functors) /\ functors'[i] = functors[i + 1]
        BY <1>t, <3>1
      <4>2. functors[i + 1] = IF i + 1 <= taken - lo THEN accepted[lo + (i + 1)] ELSE Empty
        BY <4>1 DEF BatchFollows
      <4>3. lo + (i + 1) = (lo + 1) + i /\ (i + 1 <= taken - lo <=> i <= taken - (lo + 1))
        BY <1>t, <4>1
      <4> QED BY <2>1, <4>1, <4>2, <4>3
    <3>3. taken' - (lo + 1) <= Len(functors')
      BY <1>t, <2>1, <3>1 DEF BatchFollows
    <3> QED BY <2>1, <3>2, <3>3 DEF BatchFollows
  <2>6. MailRuns(lo, lo + 1)
    BY <2>1, <2>3 DEF MailRuns
  <2> QED BY <2>4, <2>5, <2>6 DEF MailStep
<1>7. CASE LoopThrow
  <2>1. /\ UNCHANGED <<accepted, taken>> /\ loopPc = "run" /\ loopPc' = "check"
        /\ functors # <<>> /\ functors' = <<>>
        /\ dropped' = dropped \cup TasksIn(Tail(functors))
    BY <1>7 DEF LoopThrow
  <2>2. \/ Head(functors) = Empty /\ executed' = executed
        \/ Head(functors) # Empty /\ executed' = Append(executed, Head(functors))
    BY <1>7, Zenon DEF LoopThrow
  <2>3. 1 \in 1..Len(functors) /\ Head(functors) = functors[1]
    BY <1>t, <2>1
  <2>4. functors[1] = IF 1 <= taken - lo THEN accepted[lo + 1] ELSE Empty
    BY <2>3 DEF BatchFollows
  <2>5. \A new : new = taken => BatchFollows(new)'
    BY <1>t, <2>1 DEF BatchFollows
  <2>6. CASE Head(functors) = Empty /\ executed' = executed
    <3>1. lo = taken
      BY <1>t, <2>3, <2>4, <2>6
    <3>2. LeftFirst(lo)'
      BY <2>1, <2>6 DEF LeftFirst
    <3> QED BY <1>q, <2>1, <2>5, <2>6, <3>1, <3>2 DEF MailStays
  <2>7. CASE Head(functors) # Empty /\ executed' = Append(executed, Head(functors))
    <3>1. lo < taken /\ Head(functors) = accepted[lo + 1]
      BY <1>t, <2>3, <2>4, <2>7
    <3>2. executed' \in Seq(Task) /\ \A k \in DOMAIN executed : k \in DOMAIN executed' /\ executed'[k] = executed[k]
      BY <1>t, <2>7, <3>1
    <3>3. Len(executed) + 1 \in DOMAIN executed' /\ executed'[Len(executed) + 1] = accepted[lo + 1]
      BY <1>t, <2>7, <3>1
    <3>4. ASSUME NEW i \in 1..taken
          PROVE  accepted'[i] \in dropped' \/ \E k \in DOMAIN executed' : executed'[k] = accepted'[i]
      <4>1. CASE i = lo + 1
        BY <2>1, <3>3, <4>1
      <4>2. CASE i \in 1..lo
        BY <2>1, <3>2, <4>2 DEF LeftFirst
      <4>3. CASE i > lo + 1
        <5>1. i - lo \in 1..Len(functors) /\ i - lo <= taken - lo /\ lo + (i - lo) = i
          BY <1>t, <4>3 DEF BatchFollows
        <5>2. functors[i - lo] = accepted[i]
          BY <5>1 DEF BatchFollows
        <5>3. i - lo - 1 \in DOMAIN Tail(functors) /\ Tail(functors)[i - lo - 1] = functors[i - lo]
          BY <1>t, <2>1, <4>3, <5>1
        <5>4. accepted[i] # Empty
          BY <1>t
        <5>5. accepted[i] \in TasksIn(Tail(functors))
          BY <5>2, <5>3, <5>4 DEF TasksIn
        <5> QED BY <2>1, <5>5
      <4> QED BY <1>t, <4>1, <4>2, <4>3
    <3>5. PICK new : new = taken
      OBVIOUS
    <3>6. LeftFirst(new)'
      BY <1>t, <2>1, <3>4, <3>5 DEF LeftFirst
    <3>7. MailFails(lo, new)
      BY <2>1, <2>7, <3>1, <3>5 DEF MailFails
    <3> QED BY <2>5, <3>5, <3>6, <3>7 DEF MailStep
  <2> QED BY <2>2, <2>6, <2>7
<1> QED
  BY <1>1, <1>2, <1>3, <1>4, <1>5, <1>6, <1>7 DEF Next, ProducerStep, LoopStep

\* Some prefix of the accepted tasks has left, the batch holds the next ones.
MailInv == \E lo : LeftFirst(lo) /\ BatchFollows(lo)

\* The mailbox is what the accepted tasks are without the first lo.
MailIsRest(lo) == Batch \o Ring = SubSeq(accepted, lo + 1, Len(accepted))

\* A loop is constructed with an empty mailbox.
LEMMA MailInvInit == Init => MailInv
<1> SUFFICES ASSUME Init PROVE LeftFirst(0) /\ BatchFollows(0)
  BY DEF MailInv
<1> QED BY DEF Init, LeftFirst, BatchFollows

\* The ring, read from its front, is the end of the accepted tasks.
LEMMA RingIsEnd ==
  ASSUME SpscInv
  PROVE  /\ Ring \in Seq(Task) /\ Len(Ring) = Len(accepted) - taken
         /\ \A k \in 1..Len(accepted) - taken : Ring[k] = accepted[taken + k]
<1> DEFINE n == Distance(Front, tail)
<1>1. /\ taken \in Nat /\ taken <= Len(accepted) /\ Len(accepted) \in Nat
      /\ \A i \in 1..Len(accepted) : accepted[i] \in Task
  BY AcceptedAreTasks
<1>2. taken + n = Len(accepted)
  BY DEF SpscInv, RingIsQueue
<1>3. n \in Nat /\ n = Len(accepted) - taken
  <2>1. /\ head \in 0..Capacity - 1 /\ tail \in 0..Capacity - 1 /\ cursor \in 0..Capacity - 1
    BY DEF SpscInv, TypeOK
  <2>2. n \in Nat
    BY <2>1, CapacityAssumption DEF Distance, Front
  <2> HIDE DEF n
  <2> QED BY <1>1, <1>2, <2>2
<1>4. \A k \in 1..n : Ring[k] = buf[SlotAt(Front, k - 1)]
  BY DEF Ring
<1>5. DOMAIN Ring = 1..n
  BY DEF Ring
<1>6. \A k \in 0..n - 1 : buf[SlotAt(Front, k)] = accepted[taken + 1 + k]
  BY DEF SpscInv, RingIsQueue
<1>7. ASSUME NEW k \in 1..n
      PROVE  Ring[k] = accepted[taken + k] /\ Ring[k] \in Task
  <2> HIDE DEF n
  <2>1. k - 1 \in 0..n - 1 /\ taken + 1 + (k - 1) = taken + k /\ taken + k \in 1..Len(accepted)
    BY <1>1, <1>2, <1>3
  <2>2. buf[SlotAt(Front, k - 1)] = accepted[taken + 1 + (k - 1)]
    BY <1>6, <2>1
  <2> QED BY <1>1, <1>4, <2>1, <2>2
<1>8. Ring \in Seq(Task)
  <2>1. Ring = [k \in 1..n |-> Ring[k]]
    BY DEF Ring
  <2> HIDE DEF n
  <2>2. Ring \in [1..n -> Task]
    BY <1>7, <2>1
  <2> QED BY <1>3, <2>2
<1>9. Len(Ring) = n
  BY <1>3, <1>5, <1>8
<1> HIDE DEF n
<1> QED BY <1>3, <1>7, <1>8, <1>9

\* The tasks of the batch are the accepted ones after the first lo.
LEMMA BatchIsMiddle ==
  ASSUME SpscInv, NEW lo, LeftFirst(lo), BatchFollows(lo)
  PROVE  /\ Batch \in Seq(Task) /\ Len(Batch) = taken - lo
         /\ \A k \in 1..taken - lo : Batch[k] = accepted[lo + k] /\ functors[k] = accepted[lo + k]
<1> DEFINE n == taken - lo
<1>1. /\ taken \in Nat /\ taken <= Len(accepted) /\ Len(accepted) \in Nat
      /\ \A i \in 1..Len(accepted) : accepted[i] \in Task /\ accepted[i] # Empty
  BY AcceptedAreTasks
<1>2. lo \in Nat /\ lo <= taken
  BY <1>1 DEF LeftFirst
<1>3. functors \in Seq(Functor) /\ Len(functors) \in Nat
  BY DEF SpscInv, TypeOK
<1>4. n \in 0..Len(functors)
  BY <1>1, <1>2, <1>3 DEF BatchFollows
<1>5. \A i \in 1..n : functors[i] = accepted[lo + i] /\ functors[i] \in Task /\ functors[i] # Empty
  <2> SUFFICES ASSUME NEW i \in 1..n
               PROVE  functors[i] = accepted[lo + i] /\ functors[i] \in Task /\ functors[i] # Empty
    OBVIOUS
  <2>1. i \in 1..Len(functors) /\ i <= taken - lo /\ lo + i \in 1..Len(accepted)
    BY <1>1, <1>2, <1>3, <1>4
  <2> QED BY <1>1, <2>1 DEF BatchFollows
<1>6. n < Len(functors) => functors[n + 1] = Empty
  <2> SUFFICES ASSUME n < Len(functors)
               PROVE  functors[n + 1] = Empty
    OBVIOUS
  <2>1. n + 1 \in 1..Len(functors) /\ ~(n + 1 <= taken - lo)
    BY <1>1, <1>2, <1>3, <1>4
  <2> QED BY <2>1 DEF BatchFollows
<1> HIDE DEF n
<1>7. ASSUME NEW m \in 0..Len(functors),
             \A i \in 1..m : functors[i] # Empty,
             m < Len(functors) => functors[m + 1] = Empty
      PROVE  m = n
  <2>1. CASE m < n
    <3>1. m + 1 \in 1..n /\ m < Len(functors)
      BY <1>3, <1>4, <2>1
    <3> QED BY <1>5, <1>7, <3>1
  <2>2. CASE n < m
    <3>1. n + 1 \in 1..m /\ n < Len(functors)
      BY <1>3, <1>4, <2>2
    <3> QED BY <1>6, <1>7, <3>1
  <2> QED BY <1>4, <2>1, <2>2
<1>8. TaskCount = n
  BY <1>4, <1>5, <1>6, <1>7 DEF TaskCount
<1>9. /\ Batch \in Seq(Functor) /\ Len(Batch) = n
      /\ \A k \in 1..n : Batch[k] = functors[k]
  BY <1>3, <1>4, <1>8 DEF Batch
<1>10. Batch \in Seq(Task)
  BY <1>4, <1>5, <1>9
<1> QED BY <1>5, <1>9, <1>10 DEF n

\* Batch and ring together are the accepted tasks that have not left.
LEMMA MailIs == \A lo : SpscInv /\ LeftFirst(lo) /\ BatchFollows(lo) => MailIsRest(lo)
<1> SUFFICES ASSUME NEW lo, SpscInv, LeftFirst(lo), BatchFollows(lo)
             PROVE  MailIsRest(lo)
  OBVIOUS
<1>1. /\ taken \in Nat /\ taken <= Len(accepted) /\ Len(accepted) \in Nat
      /\ accepted \in Seq(Task)
  BY AcceptedAreTasks DEF SpscInv, TypeOK
<1>2. lo \in Nat /\ lo <= taken
  BY <1>1 DEF LeftFirst
<1>3. /\ Ring \in Seq(Task) /\ Len(Ring) = Len(accepted) - taken
      /\ \A k \in 1..Len(accepted) - taken : Ring[k] = accepted[taken + k]
  BY RingIsEnd
<1>4. /\ Batch \in Seq(Task) /\ Len(Batch) = taken - lo
      /\ \A k \in 1..taken - lo : Batch[k] = accepted[lo + k]
  BY BatchIsMiddle
<1> DEFINE mail == Batch \o Ring
           rest == SubSeq(accepted, lo + 1, Len(accepted))
<1>5. mail \in Seq(Task) /\ Len(mail) = Len(accepted) - lo
  BY <1>1, <1>2, <1>3, <1>4
<1>6. /\ rest \in Seq(Task) /\ Len(rest) = Len(accepted) - lo
      /\ \A k \in 1..Len(accepted) - lo : rest[k] = accepted[lo + k]
  BY <1>1, <1>2
<1>7. ASSUME NEW k \in 1..Len(accepted) - lo
      PROVE  mail[k] = rest[k]
  <2>1. CASE k <= taken - lo
    <3>1. k \in 1..taken - lo
      BY <1>1, <1>2, <2>1
    <3>2. mail[k] = Batch[k]
      BY <1>3, <1>4, <3>1
    <3> HIDE DEF mail, rest
    <3> QED BY <1>4, <1>6, <3>1, <3>2, Zenon
  <2>2. CASE k > taken - lo
    <3>1. mail[k] = Ring[k - (taken - lo)]
      <4>1. k \in 1..Len(Batch) + Len(Ring) /\ ~(k <= Len(Batch))
        BY <1>1, <1>2, <1>3, <1>4, <2>2
      <4>2. mail[k] = Ring[k - Len(Batch)]
        BY <1>3, <1>4, <4>1, ConcatProperties, SMTT(40)
      <4> QED BY <1>4, <4>2
    <3>2. k - (taken - lo) \in 1..Len(accepted) - taken /\ taken + (k - (taken - lo)) = lo + k
      BY <1>1, <1>2, <2>2
    <3> QED BY <1>3, <1>6, <3>1, <3>2
  <2>3. k <= taken - lo \/ k > taken - lo
    BY <1>1, <1>2
  <2> HIDE DEF mail, rest
  <2> QED BY <2>1, <2>2, <2>3
<1>8. mail = rest
  <2> HIDE DEF mail, rest
  <2> QED BY <1>5, <1>6, <1>7
<1> QED BY <1>8 DEF MailIsRest

\* Putting a task behind a queue puts it behind the queue's rest.
LEMMA RestOfAppend ==
  ASSUME NEW S, NEW s \in Seq(S), NEW t \in S, NEW lo \in Nat, lo <= Len(s)
  PROVE  SubSeq(Append(s, t), lo + 1, Len(Append(s, t))) = Append(SubSeq(s, lo + 1, Len(s)), t)
<1> DEFINE a == SubSeq(Append(s, t), lo + 1, Len(Append(s, t)))
           b == Append(SubSeq(s, lo + 1, Len(s)), t)
<1>1. a \in Seq(S) /\ b \in Seq(S) /\ Len(a) = Len(s) + 1 - lo /\ Len(b) = Len(s) + 1 - lo
  OBVIOUS
<1>2. ASSUME NEW k \in 1..Len(s) + 1 - lo
      PROVE  a[k] = b[k]
  <2>1. a[k] = Append(s, t)[lo + k]
    OBVIOUS
  <2>2. CASE k = Len(s) + 1 - lo
    <3>1. Append(s, t)[lo + k] = t /\ b[k] = t
      BY <2>2
    <3> QED BY <2>1, <3>1
  <2>3. CASE k \in 1..Len(s) - lo
    <3>1. b[k] = SubSeq(s, lo + 1, Len(s))[k]
      BY <2>3
    <3>2. SubSeq(s, lo + 1, Len(s))[k] = s[lo + k]
      BY <2>3
    <3>3. Append(s, t)[lo + k] = s[lo + k]
      BY <2>3
    <3> QED BY <2>1, <3>1, <3>2, <3>3
  <2>4. k = Len(s) + 1 - lo \/ k \in 1..Len(s) - lo
    OBVIOUS
  <2> HIDE DEF a, b
  <2> QED BY <2>2, <2>3, <2>4
<1> HIDE DEF a, b
<1>3. a = b
  BY <1>1, <1>2, SeqEqual
<1> QED BY <1>3 DEF a, b

\* Dropping the oldest tasks of the rest leaves a smaller rest.
LEMMA RestOfRest ==
  ASSUME NEW S, NEW s \in Seq(S), NEW lo \in Nat, NEW new \in Nat, lo < new, new <= Len(s)
  PROVE  LET rest == SubSeq(s, lo + 1, Len(s))
         IN  /\ rest # <<>> /\ Head(rest) = s[lo + 1] /\ Len(rest) = Len(s) - lo
             /\ SubSeq(rest, (new - lo) + 1, Len(rest)) = SubSeq(s, new + 1, Len(s))
             /\ new = lo + 1 => Tail(rest) = SubSeq(s, new + 1, Len(s))
<1> DEFINE rest == SubSeq(s, lo + 1, Len(s))
           less == SubSeq(s, new + 1, Len(s))
           left == SubSeq(rest, (new - lo) + 1, Len(rest))
<1>1. /\ rest \in Seq(S) /\ Len(rest) = Len(s) - lo /\ Len(rest) > 0
      /\ \A k \in 1..Len(s) - lo : rest[k] = s[lo + k]
  OBVIOUS
<1>2. less \in Seq(S) /\ Len(less) = Len(s) - new /\ \A k \in 1..Len(s) - new : less[k] = s[new + k]
  OBVIOUS
<1> HIDE DEF rest, less
<1>3. rest # <<>> /\ Head(rest) = s[lo + 1]
  BY <1>1
<1>4. /\ left \in Seq(S) /\ Len(left) = Len(s) - new
      /\ \A k \in 1..Len(s) - new : left[k] = rest[(new - lo) + k]
  <2>1. Len(s) \in Nat /\ Len(rest) \in Nat
    OBVIOUS
  <2>2. (new - lo) + 1 \in 1..Len(rest) + 1 /\ Len(rest) - ((new - lo) + 1) + 1 = Len(s) - new
    BY <1>1, <2>1
  <2>3. PICK m \in 1..Len(rest) + 1 : m = (new - lo) + 1
    BY <2>2
  <2>4. /\ SubSeq(rest, m, Len(rest)) \in Seq(S)
        /\ Len(SubSeq(rest, m, Len(rest))) = Len(rest) - m + 1
        /\ \A k \in 1..Len(rest) - m + 1 : SubSeq(rest, m, Len(rest))[k] = rest[m + k - 1]
    <3>1. m \in Int /\ Len(rest) \in Int /\ \A i \in m..Len(rest) : rest[i] \in S
      BY <1>1, <2>1, <2>3
    <3>2. /\ SubSeq(rest, m, Len(rest)) \in Seq(S)
          /\ Len(SubSeq(rest, m, Len(rest))) = IF m <= Len(rest) THEN Len(rest) - m + 1 ELSE 0
          /\ \A i \in 1..Len(rest) - m + 1 : SubSeq(rest, m, Len(rest))[i] = rest[m + i - 1]
      BY <3>1, SubSeqProperties
    <3>3. (IF m <= Len(rest) THEN Len(rest) - m + 1 ELSE 0) = Len(rest) - m + 1
      BY <2>1, <2>3
    <3> QED BY <3>2, <3>3
  <2>5. left = SubSeq(rest, m, Len(rest))
    BY <2>3
  <2> HIDE DEF left
  <2>6. left \in Seq(S) /\ Len(left) = Len(rest) - m + 1 /\ \A k \in 1..Len(rest) - m + 1 : left[k] = rest[m + k - 1]
    BY <2>4, <2>5, Zenon
  <2>7. Len(rest) - m + 1 = Len(s) - new
    BY <2>2, <2>3
  <2>8. ASSUME NEW k \in 1..Len(s) - new PROVE left[k] = rest[(new - lo) + k]
    <3>1. m + k - 1 = (new - lo) + k
      BY <2>1, <2>3
    <3> QED BY <2>6, <2>7, <3>1
  <2> QED BY <2>6, <2>7, <2>8
<1>5. ASSUME NEW k \in 1..Len(s) - new
      PROVE  left[k] = less[k]
  <2>1. (new - lo) + k \in 1..Len(s) - lo /\ lo + ((new - lo) + k) = new + k
    OBVIOUS
  <2> HIDE DEF left
  <2> QED BY <1>1, <1>2, <1>4, <2>1
<1>6. left = less
  <2> HIDE DEF left
  <2> QED BY <1>2, <1>4, <1>5, SeqEqual
<1>7. ASSUME new = lo + 1
      PROVE  Tail(rest) = less
  <2>1. /\ Tail(rest) \in Seq(S) /\ Len(Tail(rest)) = Len(s) - new
        /\ \A k \in 1..Len(s) - new : Tail(rest)[k] = rest[k + 1]
    BY <1>1, <1>3, <1>7
  <2>2. ASSUME NEW k \in 1..Len(s) - new
        PROVE  Tail(rest)[k] = less[k]
    <3>1. k + 1 \in 1..Len(s) - lo /\ lo + (k + 1) = new + k
      BY <1>7
    <3> QED BY <1>1, <1>2, <2>1, <3>1
  <2> QED BY <1>2, <2>1, <2>2, SeqEqual
<1> QED BY <1>1, <1>3, <1>6, <1>7 DEF rest, less

\* A step of the queue is a step of the mailbox or leaves it alone.
LEMMA MailboxStep ==
  ASSUME SpscInv, SpscInv', NEW lo, NEW new, LeftFirst(lo), LeftFirst(new)',
         MailIsRest(lo), MailIsRest(new)', MailStep(lo, new)
  PROVE  [MB!MailNext]_(MB!mailVars)
<1> DEFINE mail == Batch \o Ring
<1>1. /\ accepted \in Seq(Task) /\ Len(accepted) \in Nat /\ taken \in Nat /\ taken <= Len(accepted)
      /\ lo \in Nat /\ lo <= taken
  <2>1. taken \in Nat /\ taken <= Len(accepted) /\ Len(accepted) \in Nat
    BY AcceptedAreTasks
  <2>2. lo \in 0..taken
    BY DEF LeftFirst
  <2> QED BY <2>1, <2>2 DEF SpscInv, TypeOK
<1>2. mail = SubSeq(accepted, lo + 1, Len(accepted))
  BY DEF MailIsRest
<1>3. mail' = SubSeq(accepted', new + 1, Len(accepted'))
  BY DEF MailIsRest
<1>4. CASE MailStays(lo, new)
  <2>1. mail' = mail /\ executed' = executed
    BY <1>2, <1>3, <1>4 DEF MailStays
  <2> QED BY <2>1 DEF MB!mailVars
<1>5. CASE MailAccepts(lo, new)
  <2>1. PICK t \in Task : accepted' = Append(accepted, t)
    BY <1>5 DEF MailAccepts
  <2>2. new = lo /\ executed' = executed
    BY <1>5 DEF MailAccepts
  <2>3. SubSeq(Append(accepted, t), lo + 1, Len(Append(accepted, t)))
          = Append(SubSeq(accepted, lo + 1, Len(accepted)), t)
    <3>1. lo <= Len(accepted)
      BY <1>1
    <3> QED BY <1>1, <3>1, RestOfAppend
  <2>4. mail' = Append(mail, t)
    <3> HIDE DEF mail
    <3> QED BY <1>2, <1>3, <2>1, <2>2, <2>3
  <2>5. MB!Accept(t)
    BY <2>2, <2>4 DEF MB!Accept
  <2> QED BY <2>5 DEF MB!MailNext
<1>6. CASE MailRuns(lo, new)
  <2>1. new = lo + 1 /\ lo < taken /\ accepted' = accepted
        /\ executed' = Append(executed, accepted[lo + 1])
    BY <1>6 DEF MailRuns
  <2>2. new \in Nat /\ lo < new /\ new <= Len(accepted)
    BY <1>1, <2>1
  <2>3. mail # <<>> /\ Head(mail) = accepted[lo + 1] /\ Tail(mail) = SubSeq(accepted, new + 1, Len(accepted))
    <3> HIDE DEF mail
    <3> QED BY <1>1, <1>2, <2>1, <2>2, RestOfRest
  <2>4. mail' = Tail(mail)
    BY <1>3, <2>1, <2>3
  <2>5. MB!Run
    BY <2>1, <2>3, <2>4 DEF MB!Run
  <2> QED BY <2>5 DEF MB!MailNext
<1>7. CASE MailFails(lo, new)
  <2>1. new = taken /\ lo < taken /\ accepted' = accepted
        /\ executed' = Append(executed, accepted[lo + 1])
    BY <1>7 DEF MailFails
  <2>2. new \in Nat /\ lo < new /\ new <= Len(accepted)
    BY <1>1, <2>1
  <2>3. /\ Head(mail) = accepted[lo + 1] /\ Len(mail) = Len(accepted) - lo
        /\ SubSeq(mail, (new - lo) + 1, Len(mail)) = SubSeq(accepted, new + 1, Len(accepted))
    <3> HIDE DEF mail
    <3> QED BY <1>1, <1>2, <2>1, <2>2, RestOfRest
  <2>4. new - lo \in 1..Len(mail)
    <3> HIDE DEF mail
    <3> QED BY <1>1, <2>2, <2>3
  <2>5. mail' = SubSeq(mail, (new - lo) + 1, Len(mail))
    BY <1>3, <2>1, <2>3
  <2>6. MB!Fail
    BY <2>1, <2>3, <2>4, <2>5 DEF MB!Fail
  <2> QED BY <2>6 DEF MB!MailNext
<1> QED BY <1>4, <1>5, <1>6, <1>7 DEF MailStep

\* With a single producer the queue is a FIFO mailbox, whatever the size of
\* the ring and whichever tasks throw: tasks run in the order push() accepted
\* them, each at most once, and leave unrun only in a batch that threw.
THEOREM ImplementsMailbox ==
  ASSUME OneProducer
  PROVE  Spec => MailboxSpec
<1>1. Init => MB!MailInit
  <2> SUFFICES ASSUME Init PROVE MB!MailInit
    OBVIOUS
  <2>1. SpscInv /\ LeftFirst(0) /\ BatchFollows(0) /\ accepted = <<>> /\ executed = <<>>
    BY SpscInit DEF Init, LeftFirst, BatchFollows
  <2>2. MailIsRest(0)
    BY <2>1, MailIs
  <2> QED BY <2>1, <2>2 DEF MailIsRest, MB!MailInit
<1>2. (\A lo : SpscInv /\ LeftFirst(lo) /\ BatchFollows(lo) => MailIsRest(lo))'
  BY MailIs, PTL
<1>3. SpscInv /\ SpscInv' /\ TypeOK' /\ MailInv /\ [Next]_vars =>
        MailInv' /\ [MB!MailNext]_(MB!mailVars)
  <2> SUFFICES ASSUME SpscInv, SpscInv', TypeOK', MailInv, [Next]_vars
               PROVE  MailInv' /\ [MB!MailNext]_(MB!mailVars)
    OBVIOUS
  <2>1. PICK lo : LeftFirst(lo) /\ BatchFollows(lo)
    BY DEF MailInv
  <2>2. PICK new : LeftFirst(new)' /\ BatchFollows(new)' /\ MailStep(lo, new)
    BY <2>1, BatchStep
  <2>3. MailIsRest(lo)
    BY <2>1, MailIs
  <2>4. MailIsRest(new)'
    BY <1>2, <2>2
  <2>5. [MB!MailNext]_(MB!mailVars)
    BY <2>1, <2>2, <2>3, <2>4, MailboxStep
  <2> QED BY <2>2, <2>5 DEF MailInv
<1>4. SpscInv /\ TypeOK' /\ [Next]_vars => SpscInv'
  BY SpscStep
<1> QED BY <1>1, <1>3, <1>4, SpscInit, MailInvInit, TypeCorrect, PTL
        DEF Spec, MailboxSpec, MB!MailSpec

\* Where a task is that was accepted as the i-th.
LEMMA TaskIsSomewhere ==
  ASSUME SpscInv, MailInv
  PROVE  NoTaskLost
<1>1. PICK lo : LeftFirst(lo) /\ BatchFollows(lo)
  BY DEF MailInv
<1>2. /\ taken \in Nat /\ taken <= Len(accepted) /\ Len(accepted) \in Nat
      /\ \A i \in 1..Len(accepted) : accepted[i] # Empty
  BY AcceptedAreTasks
<1>3. lo \in Nat /\ lo <= taken
  BY <1>1, <1>2 DEF LeftFirst
<1>4. DOMAIN accepted = 1..Len(accepted)
  BY DEF SpscInv, TypeOK
<1> SUFFICES ASSUME NEW i \in 1..Len(accepted)
             PROVE  \/ \E k \in DOMAIN Ring : Ring[k] = accepted[i]
                    \/ accepted[i] \in TasksIn(functors)
                    \/ \E k \in DOMAIN executed : executed[k] = accepted[i]
                    \/ accepted[i] \in dropped
  BY <1>4 DEF NoTaskLost
<1>5. CASE i <= lo
  BY <1>1, <1>3, <1>5 DEF LeftFirst
<1>6. CASE lo < i /\ i <= taken
  <2>1. i - lo \in 1..taken - lo /\ lo + (i - lo) = i
    BY <1>2, <1>3, <1>6
  <2>2. functors[i - lo] = accepted[i]
    BY <1>1, <2>1, BatchIsMiddle
  <2>3. i - lo \in DOMAIN functors
    <3>1. functors \in Seq(Functor) /\ Len(functors) \in Nat /\ taken - lo <= Len(functors)
      BY <1>1 DEF SpscInv, TypeOK, BatchFollows
    <3> QED BY <1>2, <1>3, <2>1, <3>1
  <2>4. accepted[i] \in TasksIn(functors)
    BY <1>2, <2>2, <2>3 DEF TasksIn
  <2> QED BY <2>4
<1>7. CASE taken < i
  <2>1. i - taken \in 1..Len(accepted) - taken /\ taken + (i - taken) = i
    BY <1>2, <1>7
  <2>2. /\ Ring \in Seq(Task) /\ Len(Ring) = Len(accepted) - taken
        /\ \A k \in 1..Len(accepted) - taken : Ring[k] = accepted[taken + k]
    BY RingIsEnd
  <2>3. i - taken \in DOMAIN Ring /\ Ring[i - taken] = accepted[i]
    BY <2>1, <2>2
  <2> QED BY <2>3
<1>8. i <= lo \/ (lo < i /\ i <= taken) \/ taken < i
  BY <1>2, <1>3
<1> QED BY <1>5, <1>6, <1>7, <1>8

\* With a single producer every task that push() accepted is in the ring, in
\* the batch, was run, or was discarded behind an exception.
THEOREM NoTaskEverLost ==
  ASSUME OneProducer
  PROVE  Spec => []NoTaskLost
<1>1. SpscInv /\ TypeOK' /\ MailInv /\ [Next]_vars => MailInv'
  <2> SUFFICES ASSUME SpscInv, TypeOK', MailInv, [Next]_vars
               PROVE  MailInv'
    OBVIOUS
  <2>1. PICK lo : LeftFirst(lo) /\ BatchFollows(lo)
    BY DEF MailInv
  <2>2. PICK new : LeftFirst(new)' /\ BatchFollows(new)' /\ MailStep(lo, new)
    BY <2>1, BatchStep
  <2> QED BY <2>2 DEF MailInv
<1>2. SpscInv /\ TypeOK' /\ [Next]_vars => SpscInv'
  BY SpscStep
<1>3. SpscInv /\ MailInv => NoTaskLost
  BY TaskIsSomewhere
<1> QED BY <1>1, <1>2, <1>3, SpscInit, MailInvInit, TypeCorrect, PTL DEF Spec

-----------------------------------------------------------------------------
(* The wakeup pipe does not fill, for any number of producers.             *)

\* The producers that won the exchange and have not written yet.
Waking == {p \in Producers : pc[p] = "wakeup"}

\* How many more words may be written before the loop polls again: one if
\* wakeupSent_ is false, one if a reset of it is on its way.
Unsent == IF wakeupSent THEN 0 ELSE 1
OnItsWay == IF loopPc = "reset" \/ resetBuffered THEN 1 ELSE 0
StopWord == IF stopPc = "done" THEN 1 ELSE 0

WakeInv ==
  /\ resetBuffered => loopPc \in {"load", "pop", "drain"}
  /\ pipe + Cardinality(Waking) + Unsent + OnItsWay
       <= 2 + Cardinality(Producers) + StopWord

\* The counts are natural numbers, and at most every producer is waking.
LEMMA WakeCounts ==
  ASSUME TypeOK, IsFiniteSet(Producers)
  PROVE  /\ IsFiniteSet(Waking) /\ Cardinality(Waking) \in Nat /\ Cardinality(Producers) \in Nat
         /\ Cardinality(Waking) <= Cardinality(Producers)
         /\ pipe \in Nat /\ Unsent \in 0..1 /\ OnItsWay \in 0..1 /\ StopWord \in 0..1
<1>1. Waking \subseteq Producers
  BY DEF Waking
<1>2. /\ IsFiniteSet(Waking) /\ Cardinality(Waking) <= Cardinality(Producers)
  BY <1>1, FS_Subset
<1>3. Cardinality(Waking) \in Nat /\ Cardinality(Producers) \in Nat
  BY <1>2, FS_CardinalityType
<1>4. pipe \in Nat
  BY DEF TypeOK
<1>5. Unsent \in 0..1 /\ OnItsWay \in 0..1 /\ StopWord \in 0..1
  BY DEF Unsent, OnItsWay, StopWord
<1> QED BY <1>2, <1>3, <1>4, <1>5

\* Steps that write no word, win no exchange and reset nothing.
LEMMA WakeFrame ==
  ASSUME TypeOK, WakeInv, UNCHANGED <<pipe, wakeupSent, resetBuffered, stopPc>>,
         Waking' = Waking,
         loopPc' = loopPc \/ (loopPc # "reset" /\ loopPc' # "reset"),
         resetBuffered => loopPc' \in {"load", "pop", "drain"}
  PROVE  WakeInv'
<1>1. Unsent' = Unsent /\ StopWord' = StopWord
  BY DEF Unsent, StopWord
<1>2. OnItsWay' = OnItsWay
  BY DEF OnItsWay
<1> QED BY <1>1, <1>2 DEF WakeInv

\* Every step respects the budget of words.
LEMMA WakeStep ==
  ASSUME TypeOK, TypeOK', IsFiniteSet(Producers), WakeInv, [Next]_vars
  PROVE  WakeInv'
<1>c. /\ IsFiniteSet(Waking) /\ Cardinality(Waking) \in Nat /\ Cardinality(Producers) \in Nat
      /\ Cardinality(Waking) <= Cardinality(Producers)
      /\ pipe \in Nat /\ Unsent \in 0..1 /\ OnItsWay \in 0..1 /\ StopWord \in 0..1
  BY WakeCounts
<1>t. pc \in [Producers -> {"idle", "check", "write", "publish", "overflow", "exchange", "wakeup"}]
  BY DEF TypeOK
<1>b. pipe + Cardinality(Waking) + Unsent + OnItsWay <= 2 + Cardinality(Producers) + StopWord
  BY DEF WakeInv
<1>r. resetBuffered => loopPc \in {"load", "pop", "drain"}
  BY DEF WakeInv
<1>1. ASSUME NEW p \in Producers,
             PushLoadTail(p) \/ PushCheckFull(p) \/ PushWrite(p) \/ PushPublish(p) \/ QueueOverflow(p)
      PROVE  WakeInv'
  <2>1. UNCHANGED <<pipe, wakeupSent, resetBuffered, stopPc, loopPc>>
    BY <1>1 DEF PushLoadTail, PushCheckFull, PushWrite, PushPublish, QueueOverflow, wakeVars, loopVars
  <2>2. Waking' = Waking
    <3>1. PICK st \in {"check", "write", "overflow", "publish", "exchange"} :
            pc' = [pc EXCEPT ![p] = st] /\ pc[p] # "wakeup"
      BY <1>1 DEF PushLoadTail, PushCheckFull, PushWrite, PushPublish, QueueOverflow
    <3> QED BY <1>t, <3>1 DEF Waking
  <2> QED BY <1>r, <2>1, <2>2, WakeFrame
<1>2. ASSUME NEW p \in Producers, QueueExchange(p)
      PROVE  WakeInv'
  <2>1. UNCHANGED <<pipe, resetBuffered, stopPc, loopPc>> /\ pc[p] = "exchange"
    BY <1>2 DEF QueueExchange, loopVars
  <2>2. \/ pc' = [pc EXCEPT ![p] = "idle"] /\ wakeupSent' = wakeupSent
        \/ pc' = [pc EXCEPT ![p] = "wakeup"] /\ ~wakeupSent /\ wakeupSent'
    <3>1. CASE p # Owner \/ calling
      <4>1. /\ wakeupSent' = TRUE
            /\ pc' = [pc EXCEPT ![p] = IF wakeupSent THEN "idle" ELSE "wakeup"]
        BY <1>2, <3>1 DEF QueueExchange
      <4>2. CASE wakeupSent
        BY <4>1, <4>2, Zenon DEF TypeOK
      <4>3. CASE ~wakeupSent
        BY <4>1, <4>3
      <4> QED BY <4>2, <4>3
    <3>2. CASE ~(p # Owner \/ calling)
      BY <1>2, <3>2 DEF QueueExchange
    <3> QED BY <3>1, <3>2
  <2>3. CASE pc' = [pc EXCEPT ![p] = "idle"] /\ wakeupSent' = wakeupSent
    <3>1. Waking' = Waking
      BY <1>t, <2>1, <2>3 DEF Waking
    <3> QED BY <1>r, <2>1, <2>3, <3>1, WakeFrame
  <2>4. CASE pc' = [pc EXCEPT ![p] = "wakeup"] /\ ~wakeupSent /\ wakeupSent'
    <3>1. Waking' = Waking \cup {p} /\ p \notin Waking
      BY <1>t, <2>1, <2>4 DEF Waking
    <3>2. Cardinality(Waking') = Cardinality(Waking) + 1
      BY <1>c, <3>1, FS_AddElement
    <3>3. Unsent = 1 /\ Unsent' = 0
      BY <2>4 DEF Unsent
    <3>4. OnItsWay' = OnItsWay /\ StopWord' = StopWord
      BY <2>1 DEF OnItsWay, StopWord
    <3>5. pipe' + Cardinality(Waking') + Unsent' + OnItsWay'
            <= 2 + Cardinality(Producers) + StopWord'
      BY <1>c, <1>b, <2>1, <3>2, <3>3, <3>4
    <3> QED BY <1>r, <2>1, <3>5 DEF WakeInv
  <2> QED BY <2>2, <2>3, <2>4
<1>3. ASSUME NEW p \in Producers, Wakeup(p)
      PROVE  WakeInv'
  <2>1. /\ UNCHANGED <<wakeupSent, resetBuffered, stopPc, loopPc>> /\ pc[p] = "wakeup"
        /\ pipe' = pipe + 1 /\ pc' = [pc EXCEPT ![p] = "idle"]
    BY <1>3 DEF Wakeup, loopVars
  <2>2. Waking' = Waking \ {p} /\ p \in Waking
    BY <1>t, <2>1 DEF Waking
  <2>3. Cardinality(Waking') = Cardinality(Waking) - 1
    BY <1>c, <2>2, FS_RemoveElement
  <2>4. Unsent' = Unsent /\ OnItsWay' = OnItsWay /\ StopWord' = StopWord
    BY <2>1 DEF Unsent, OnItsWay, StopWord
  <2>5. pipe' + Cardinality(Waking') + Unsent' + OnItsWay'
          <= 2 + Cardinality(Producers) + StopWord'
    BY <1>c, <1>b, <2>1, <2>3, <2>4
  <2> QED BY <1>r, <2>1, <2>5 DEF WakeInv
<1>4. CASE StopWakeup
  <2>1. /\ UNCHANGED <<wakeupSent, resetBuffered, loopPc, pc>>
        /\ pipe' = pipe + 1 /\ stopPc = "wakeup" /\ stopPc' = "done"
    BY <1>4 DEF StopWakeup, threadVars, loopVars
  <2>2. StopWord = 0 /\ StopWord' = 1 /\ Unsent' = Unsent /\ OnItsWay' = OnItsWay /\ Waking' = Waking
    BY <2>1 DEF StopWord, Unsent, OnItsWay, Waking
  <2>3. pipe' + Cardinality(Waking') + Unsent' + OnItsWay'
          <= 2 + Cardinality(Producers) + StopWord'
    BY <1>c, <1>b, <2>1, <2>2
  <2> QED BY <1>r, <2>1, <2>3 DEF WakeInv
<1>5. CASE StopStore
  <2>1. /\ UNCHANGED <<wakeupSent, resetBuffered, pipe, loopPc, pc>>
        /\ stopPc = "idle" /\ stopPc' = "wakeup"
    BY <1>5 DEF StopStore, wakeVars, threadVars, loopVars
  <2>2. StopWord' = StopWord /\ Unsent' = Unsent /\ OnItsWay' = OnItsWay /\ Waking' = Waking
    BY <2>1 DEF StopWord, Unsent, OnItsWay, Waking
  <2> QED BY <1>r, <1>b, <2>1, <2>2 DEF WakeInv
<1>6. CASE LoopPoll
  <2>1. /\ UNCHANGED <<wakeupSent, resetBuffered, stopPc, pc>>
        /\ loopPc = "poll" /\ loopPc' = "reset"
        /\ pipe' = IF pipe > 0 THEN pipe - 1 ELSE pipe
    BY <1>6 DEF LoopPoll, PollReturns, threadVars
  <2>2. StopWord' = StopWord /\ Unsent' = Unsent /\ Waking' = Waking
    BY <2>1 DEF StopWord, Unsent, Waking
  <2>3. ~resetBuffered
    BY <1>r, <2>1
  <2>4. OnItsWay = 0 /\ OnItsWay' = 1
    BY <2>1, <2>3 DEF OnItsWay
  <2>5. pipe' + Cardinality(Waking') + Unsent' + OnItsWay'
          <= 2 + Cardinality(Producers) + StopWord'
    BY <1>c, <1>b, <2>1, <2>2, <2>4
  <2> QED BY <2>1, <2>3, <2>5 DEF WakeInv
<1>7. CASE LoopReset
  <2>1. /\ UNCHANGED <<wakeupSent, pipe, stopPc, pc>> /\ resetBuffered'
        /\ loopPc = "reset" /\ loopPc' = "load"
    BY <1>7 DEF LoopReset, threadVars
  <2>2. StopWord' = StopWord /\ Unsent' = Unsent /\ Waking' = Waking
    BY <2>1 DEF StopWord, Unsent, Waking
  <2>3. OnItsWay = 1 /\ OnItsWay' = 1
    BY <2>1 DEF OnItsWay
  <2> QED BY <1>b, <2>1, <2>2, <2>3 DEF WakeInv
<1>8. CASE FlushReset
  <2>1. /\ UNCHANGED <<pipe, stopPc, pc, loopPc>> /\ resetBuffered /\ ~resetBuffered' /\ ~wakeupSent'
    BY <1>8 DEF FlushReset, threadVars, loopVars
  <2>2. StopWord' = StopWord /\ Waking' = Waking /\ Unsent' = 1
    BY <2>1 DEF StopWord, Unsent, Waking
  <2>3. OnItsWay = 1 /\ OnItsWay' = 0
    BY <1>r, <2>1 DEF OnItsWay
  <2>4. pipe' + Cardinality(Waking') + Unsent' + OnItsWay'
          <= 2 + Cardinality(Producers) + StopWord'
    BY <1>c, <1>b, <2>1, <2>2, <2>3
  <2> QED BY <2>1, <2>4 DEF WakeInv
<1>9. CASE LoopCheckQuit \/ LoopLoad \/ LoopPop \/ LoopStoreHead \/ LoopRun \/ LoopThrow
           \/ LoopBatchDone \/ UNCHANGED vars
  <2>1. /\ UNCHANGED <<wakeupSent, resetBuffered, pipe, stopPc, pc>>
        /\ \/ loopPc' = loopPc
           \/ loopPc \in {"check", "run"} /\ loopPc' \in {"exited", "poll", "check"}
           \/ loopPc = "load" /\ loopPc' = "pop"
           \/ loopPc = "pop" /\ loopPc' = "drain"
    BY <1>9 DEF LoopCheckQuit, LoopLoad, LoopPop, LoopStoreHead, LoopRun, LoopThrow, LoopBatchDone,
       vars, wakeVars, threadVars, loopVars
  <2>2. Waking' = Waking
    BY <2>1 DEF Waking
  <2>3. /\ loopPc' = loopPc \/ (loopPc # "reset" /\ loopPc' # "reset")
        /\ resetBuffered => loopPc' \in {"load", "pop", "drain"}
    BY <1>r, <2>1
  <2> QED BY <2>1, <2>2, <2>3, WakeFrame
<1>10. CASE LoopDrain
  <2>1. /\ UNCHANGED <<wakeupSent, resetBuffered, pipe, stopPc, pc>> /\ ~resetBuffered
        /\ loopPc = "drain" /\ loopPc' = "run"
    BY <1>10 DEF LoopDrain, wakeVars, threadVars
  <2>2. Waking' = Waking
    BY <2>1 DEF Waking
  <2> QED BY <2>1, <2>2, WakeFrame
<1>11. CASE LoopPollThrows
  <2>1. /\ UNCHANGED <<wakeupSent, resetBuffered, stopPc, pc>>
        /\ loopPc = "poll" /\ loopPc' = "check"
    BY <1>11 DEF LoopPollThrows, PollReturns, threadVars
  <2>2. PICK handled \in BOOLEAN : PollReturns(handled)
    BY <1>11 DEF LoopPollThrows
  <2>3. pipe' = pipe \/ pipe' = pipe - 1
    BY <2>2 DEF PollReturns
  <2>4. StopWord' = StopWord /\ Unsent' = Unsent /\ Waking' = Waking
    BY <2>1 DEF StopWord, Unsent, Waking
  <2>5. ~resetBuffered
    BY <1>r, <2>1
  <2>6. OnItsWay = 0 /\ OnItsWay' = 0
    BY <2>1, <2>5 DEF OnItsWay
  <2>7. pipe' + Cardinality(Waking') + Unsent' + OnItsWay'
          <= 2 + Cardinality(Producers) + StopWord'
    BY <1>c, <1>b, <2>1, <2>3, <2>4, <2>6
  <2> QED BY <2>1, <2>5, <2>7 DEF WakeInv
<1> QED
  BY <1>1, <1>2, <1>3, <1>4, <1>5, <1>6, <1>7, <1>8, <1>9, <1>10, <1>11
     DEF Next, ProducerStep, LoopStep

\* However many threads post, the exchange on wakeupSent_ keeps the number of
\* words in the pipe below a bound that depends on the number of threads only.
THEOREM WakeupsAlwaysBounded ==
  ASSUME IsFiniteSet(Producers)
  PROVE  Spec => []WakeupsBounded
<1>1. Init => WakeInv
  <2> SUFFICES ASSUME Init PROVE WakeInv
    OBVIOUS
  <2>1. Waking = {} /\ pipe = 0 /\ Unsent = 1 /\ OnItsWay = 0 /\ StopWord = 0 /\ ~resetBuffered
    BY DEF Init, Waking, Unsent, OnItsWay, StopWord
  <2>2. Cardinality(Waking) = 0 /\ Cardinality(Producers) \in Nat
    BY <2>1, FS_EmptySet, FS_CardinalityType
  <2> QED BY <2>1, <2>2 DEF WakeInv
<1>2. TypeOK /\ TypeOK' /\ WakeInv /\ [Next]_vars => WakeInv'
  BY WakeStep
<1>3. TypeOK /\ WakeInv => WakeupsBounded
  <2> SUFFICES ASSUME TypeOK, WakeInv PROVE WakeupsBounded
    OBVIOUS
  <2>1. /\ Cardinality(Waking) \in Nat /\ Cardinality(Producers) \in Nat
        /\ pipe \in Nat /\ Unsent \in 0..1 /\ OnItsWay \in 0..1 /\ StopWord \in 0..1
    BY WakeCounts
  <2>2. pipe + Cardinality(Waking) <= 2 + Cardinality(Producers) + StopWord
    BY <2>1 DEF WakeInv
  <2> QED BY <2>2 DEF WakeupsBounded, Waking, StopWord
<1> QED BY <1>1, <1>2, <1>3, TypeCorrect, PTL DEF Spec
=============================================================================
