----------------------------- MODULE EventLoop -----------------------------
(***************************************************************************)
(* The task queue of xnetty's EventLoop: queueInLoop() pushes a functor on *)
(* a lock-free ring (SpscQueue), falls back to a mutex-protected vector    *)
(* when the ring is full, and wakes the loop through a pipe; loop() drains *)
(* both in doPendingFunctors().                                            *)
(*                                                                         *)
(* Every access to shared memory is a step of its own.  Memory is x86-TSO: *)
(* the relaxed store of wakeupSent_ in doPendingFunctors may stay in the   *)
(* loop thread's store buffer while popAll loads tail_; the atomic         *)
(* exchange of a producer and the mutex both act as full fences.           *)
(***************************************************************************)
EXTENDS Integers, Sequences, FiniteSets

CONSTANTS
  Producers,      \* the threads that call queueInLoop on this loop
  Owner,          \* threadId_: the thread that constructed the loop
  Capacity,       \* sizeMask_ + 1, the number of slots of the ring
  MaxPosts,       \* bound: how often each thread posts
  TasksMayThrow,  \* whether a task may let an exception escape
  Empty           \* a moved-from std::function; calling it throws

ASSUME CapacityAssumption == Capacity \in Nat /\ Capacity > 1
ASSUME MaxPostsAssumption == MaxPosts \in Nat
ASSUME TasksMayThrowAssumption == TasksMayThrow \in BOOLEAN

Task == Producers \X (1..MaxPosts)
Functor == Task \cup {Empty}

ASSUME EmptyAssumption == Empty \notin Task

VARIABLES
  head, tail,      \* head_, tail_
  buf,             \* buf_
  pending,         \* pendingFunctors_
  wakeupSent,      \* wakeupSent_, as the producers see it
  resetBuffered,   \* the store wakeupSent_ = false waits in the store buffer
  pipe,            \* words in the wakeup pipe
  quit,            \* quit_
  calling,         \* callingPendingFunctors_
  pc,              \* where each thread is in queueInLoop
  slot,            \* its local t: the tail it loaded
  posts,           \* how many tasks it has posted
  stopPc,          \* where the stopping thread is in stop()
  loopPc,          \* where the loop thread is in loop()
  cursor, limit,   \* popAll's h and t
  functors,        \* doPendingFunctors' local vector
  accepted,        \* history: tasks published by a store of tail_, in order
  taken,           \* history: how many functors popAll has moved out
  executed,        \* history: tasks run by the loop, in order
  dropped          \* history: tasks discarded by an escaping exception

ringVars == <<head, tail, buf>>
wakeVars == <<wakeupSent, resetBuffered, pipe>>
threadVars == <<pc, slot, posts>>
loopVars == <<calling, loopPc, cursor, limit, functors>>
histVars == <<accepted, taken, executed, dropped>>
vars == <<ringVars, pending, wakeVars, quit, threadVars, stopPc, loopVars, histVars>>

NextIndex(i) == (i + 1) % Capacity
TaskOf(p) == <<p, posts[p]>>

Init ==
  /\ head = 0 /\ tail = 0
  /\ buf = [i \in 0..Capacity - 1 |-> Empty]
  /\ pending = <<>>
  /\ wakeupSent = FALSE /\ resetBuffered = FALSE /\ pipe = 0
  /\ quit = FALSE /\ calling = FALSE
  /\ pc = [p \in Producers |-> "idle"]
  /\ slot = [p \in Producers |-> 0]
  /\ posts = [p \in Producers |-> 0]
  /\ stopPc = "idle"
  /\ loopPc = "check"
  /\ cursor = 0 /\ limit = 0 /\ functors = <<>>
  /\ accepted = <<>> /\ taken = 0 /\ executed = <<>> /\ dropped = {}

-----------------------------------------------------------------------------
(* runInLoop and queueInLoop, called by thread p.                          *)

\* runInLoop from the constructing thread finds isInLoopThread() true, calls
\* back at once on that thread and touches nothing here; from every other
\* thread it is queueInLoop, whose first step is push's load of tail_.
PushLoadTail(p) ==
  /\ pc[p] = "idle" /\ posts[p] < MaxPosts
  /\ posts' = [posts EXCEPT ![p] = @ + 1]
  /\ slot' = [slot EXCEPT ![p] = tail]
  /\ pc' = [pc EXCEPT ![p] = "check"]
  /\ UNCHANGED <<ringVars, pending, wakeVars, quit, stopPc, loopVars, histVars>>

\* Mutant: push does not test for a full ring.
PushNeverFull(p) ==
  /\ pc[p] = "check"
  /\ pc' = [pc EXCEPT ![p] = "write"]
  /\ UNCHANGED <<ringVars, pending, wakeVars, quit, slot, posts, stopPc, loopVars, histVars>>

\* push: load head_ and compare; the ring is full when the next tail is head.
PushCheckFull(p) ==
  /\ pc[p] = "check"
  /\ pc' = [pc EXCEPT ![p] = IF NextIndex(slot[p]) = head THEN "overflow" ELSE "write"]
  /\ UNCHANGED <<ringVars, pending, wakeVars, quit, slot, posts, stopPc, loopVars, histVars>>

\* push: buf_[t] = std::move(item).
PushWrite(p) ==
  /\ pc[p] = "write"
  /\ buf' = [buf EXCEPT ![slot[p]] = TaskOf(p)]
  /\ pc' = [pc EXCEPT ![p] = "publish"]
  /\ UNCHANGED <<head, tail, pending, wakeVars, quit, slot, posts, stopPc, loopVars, histVars>>

\* push: tail_.store(nt).
PushPublish(p) ==
  /\ pc[p] = "publish"
  /\ tail' = NextIndex(slot[p])
  /\ accepted' = Append(accepted, TaskOf(p))
  /\ pc' = [pc EXCEPT ![p] = "exchange"]
  /\ UNCHANGED <<head, buf, pending, wakeVars, quit, slot, posts, stopPc, loopVars,
                 taken, executed, dropped>>

\* queueInLoop after a failed push.  push took its argument by value, so cb
\* was already moved from: what goes on pendingFunctors_ is an empty functor.
QueueOverflow(p) ==
  /\ pc[p] = "overflow"
  /\ pending' = Append(pending, Empty)
  /\ pc' = [pc EXCEPT ![p] = "exchange"]
  /\ UNCHANGED <<ringVars, wakeVars, quit, slot, posts, stopPc, loopVars, histVars>>

\* Mutant: every post writes to the pipe.
QueueAlwaysWakes(p) ==
  /\ pc[p] = "exchange"
  /\ pc' = [pc EXCEPT ![p] = "wakeup"]
  /\ UNCHANGED <<ringVars, pending, wakeVars, quit, slot, posts, stopPc, loopVars, histVars>>

\* queueInLoop: wakeupSent_.exchange(true), skipped by the owner thread
\* unless the loop is running functors.
QueueExchange(p) ==
  /\ pc[p] = "exchange"
  /\ IF p # Owner \/ calling
       THEN /\ wakeupSent' = TRUE
            /\ pc' = [pc EXCEPT ![p] = IF wakeupSent THEN "idle" ELSE "wakeup"]
       ELSE /\ pc' = [pc EXCEPT ![p] = "idle"]
            /\ UNCHANGED wakeupSent
  /\ UNCHANGED <<ringVars, pending, resetBuffered, pipe, quit, slot, posts, stopPc,
                 loopVars, histVars>>

\* wakeup: write one word to the pipe.
Wakeup(p) ==
  /\ pc[p] = "wakeup"
  /\ pipe' = pipe + 1
  /\ pc' = [pc EXCEPT ![p] = "idle"]
  /\ UNCHANGED <<ringVars, pending, wakeupSent, resetBuffered, quit, slot, posts, stopPc,
                 loopVars, histVars>>

-----------------------------------------------------------------------------
(* stop(), called once by the thread that shuts the group down.            *)

StopStore ==
  /\ stopPc = "idle"
  /\ quit' = TRUE
  /\ stopPc' = "wakeup"
  /\ UNCHANGED <<ringVars, pending, wakeVars, threadVars, loopVars, histVars>>

StopWakeup ==
  /\ stopPc = "wakeup"
  /\ pipe' = pipe + 1
  /\ stopPc' = "done"
  /\ UNCHANGED <<ringVars, pending, wakeupSent, resetBuffered, quit, threadVars, loopVars,
                 histVars>>

-----------------------------------------------------------------------------
(* loop(), on the loop's own thread.                                       *)

\* Mutant: the loop does not look at quit_ again.
LoopNeverQuits ==
  /\ loopPc = "check"
  /\ loopPc' = "poll"
  /\ UNCHANGED <<ringVars, pending, wakeVars, quit, threadVars, stopPc, calling, cursor,
                 limit, functors, histVars>>

LoopCheckQuit ==
  /\ loopPc = "check"
  /\ loopPc' = IF quit THEN "exited" ELSE "poll"
  /\ UNCHANGED <<ringVars, pending, wakeVars, quit, threadVars, stopPc, calling, cursor,
                 limit, functors, histVars>>

\* Mutant: poll has no timeout, only the pipe ends it.
PollReturnsOnPipe(handled) ==
  /\ loopPc = "poll" /\ pipe > 0
  /\ pipe' = IF handled THEN pipe - 1 ELSE pipe
  /\ UNCHANGED <<wakeupSent, resetBuffered>>

\* poll returns when the pipe is readable, when a connection is ready, or after
\* timerWheel_->tickMs(): never later.  handleWakeup reads one word.
PollReturns(handled) ==
  /\ loopPc = "poll"
  /\ pipe' = IF handled /\ pipe > 0 THEN pipe - 1 ELSE pipe
  /\ UNCHANGED <<wakeupSent, resetBuffered>>

\* The events and advanceTimer() are done: on to doPendingFunctors().
LoopPoll ==
  /\ PollReturns(TRUE)
  /\ loopPc' = "reset"
  /\ UNCHANGED <<ringVars, pending, quit, threadVars, stopPc, calling, cursor, limit,
                 functors, histVars>>

\* An exception leaves handleEvent(), before or behind the wakeup channel's turn,
\* or a timer's callback.  loop() logs it, and doPendingFunctors() is not called
\* in this iteration.
LoopPollThrows ==
  /\ \E handled \in BOOLEAN : PollReturns(handled)
  /\ loopPc' = "check"
  /\ UNCHANGED <<ringVars, pending, quit, threadVars, stopPc, calling, cursor, limit,
                 functors, histVars>>

\* doPendingFunctors: wakeupSent_.store(false), into the store buffer.
LoopReset ==
  /\ loopPc = "reset"
  /\ resetBuffered' = TRUE
  /\ loopPc' = "load"
  /\ UNCHANGED <<ringVars, pending, wakeupSent, pipe, quit, threadVars, stopPc, calling,
                 cursor, limit, functors, histVars>>

\* The store buffer drains: the producers see wakeupSent_ = false.
FlushReset ==
  /\ resetBuffered
  /\ resetBuffered' = FALSE
  /\ wakeupSent' = FALSE
  /\ UNCHANGED <<ringVars, pending, pipe, quit, threadVars, stopPc, loopVars, histVars>>

\* popAll: load head_ (its own) and tail_.
LoopLoad ==
  /\ loopPc = "load"
  /\ cursor' = head /\ limit' = tail
  /\ loopPc' = "pop"
  /\ UNCHANGED <<ringVars, pending, wakeVars, quit, threadVars, stopPc, calling, functors,
                 histVars>>

\* Mutant: popAll puts the newest functor first.
LoopPopLifo ==
  /\ loopPc = "pop" /\ cursor # limit
  /\ functors' = <<buf[cursor]>> \o functors
  /\ buf' = [buf EXCEPT ![cursor] = Empty]
  /\ cursor' = NextIndex(cursor)
  /\ taken' = taken + 1
  /\ UNCHANGED <<head, tail, pending, wakeVars, quit, threadVars, stopPc, calling, loopPc,
                 limit, accepted, executed, dropped>>

\* popAll: out.push_back(std::move(buf_[h])), which leaves the slot empty.
LoopPop ==
  /\ loopPc = "pop" /\ cursor # limit
  /\ functors' = Append(functors, buf[cursor])
  /\ buf' = [buf EXCEPT ![cursor] = Empty]
  /\ cursor' = NextIndex(cursor)
  /\ taken' = taken + 1
  /\ UNCHANGED <<head, tail, pending, wakeVars, quit, threadVars, stopPc, calling, loopPc,
                 limit, accepted, executed, dropped>>

\* Mutant: popAll loads tail_ again instead of storing its own cursor.
LoopStoreTail ==
  /\ loopPc = "pop" /\ cursor = limit
  /\ head' = tail
  /\ loopPc' = "drain"
  /\ UNCHANGED <<tail, buf, pending, wakeVars, quit, threadVars, stopPc, calling, cursor,
                 limit, functors, histVars>>

\* popAll: head_.store(h).
LoopStoreHead ==
  /\ loopPc = "pop" /\ cursor = limit
  /\ head' = cursor
  /\ loopPc' = "drain"
  /\ UNCHANGED <<tail, buf, pending, wakeVars, quit, threadVars, stopPc, calling, cursor,
                 limit, functors, histVars>>

\* Under mutex_: move pendingFunctors_ behind the ring's functors.  The lock
\* is a fence, so the reset of wakeupSent_ is visible by now.
LoopDrain ==
  /\ loopPc = "drain" /\ ~resetBuffered
  /\ functors' = functors \o pending
  /\ pending' = <<>>
  /\ calling' = TRUE
  /\ loopPc' = "run"
  /\ UNCHANGED <<ringVars, wakeVars, quit, threadVars, stopPc, cursor, limit, histVars>>

\* f() returns.
LoopRun ==
  /\ loopPc = "run" /\ functors # <<>>
  /\ Head(functors) # Empty
  /\ executed' = Append(executed, Head(functors))
  /\ functors' = Tail(functors)
  /\ UNCHANGED <<ringVars, pending, wakeVars, quit, threadVars, stopPc, calling, loopPc,
                 cursor, limit, accepted, taken, dropped>>

TasksIn(s) == {s[i] : i \in {j \in DOMAIN s : s[j] # Empty}}

\* f() throws: bad_function_call from an empty functor, or what a task lets
\* escape.  loop() logs it; the rest of the batch is destroyed with the local
\* vector and callingPendingFunctors_ stays true.
LoopThrow ==
  /\ loopPc = "run" /\ functors # <<>>
  /\ \/ /\ Head(functors) = Empty
        /\ UNCHANGED executed
     \/ /\ TasksMayThrow /\ Head(functors) # Empty
        /\ executed' = Append(executed, Head(functors))
  /\ dropped' = dropped \cup TasksIn(Tail(functors))
  /\ functors' = <<>>
  /\ loopPc' = "check"
  /\ UNCHANGED <<ringVars, pending, wakeVars, quit, threadVars, stopPc, calling, cursor,
                 limit, accepted, taken>>

LoopBatchDone ==
  /\ loopPc = "run" /\ functors = <<>>
  /\ calling' = FALSE
  /\ loopPc' = "check"
  /\ UNCHANGED <<ringVars, pending, wakeVars, quit, threadVars, stopPc, cursor, limit,
                 functors, histVars>>

-----------------------------------------------------------------------------
ProducerStep(p) ==
  \/ PushCheckFull(p) \/ PushWrite(p) \/ PushPublish(p)
  \/ QueueOverflow(p) \/ QueueExchange(p) \/ Wakeup(p)

LoopStep ==
  \/ LoopCheckQuit \/ LoopPoll \/ LoopPollThrows \/ LoopReset \/ LoopLoad \/ LoopPop
  \/ LoopStoreHead \/ LoopDrain \/ LoopRun \/ LoopThrow \/ LoopBatchDone

Next ==
  \/ \E p \in Producers : PushLoadTail(p) \/ ProducerStep(p)
  \/ StopStore \/ StopWakeup
  \/ FlushReset
  \/ LoopStep

\* Threads that are inside a call keep running, the store buffer drains, and
\* the loop thread is never blocked for longer than poll's timeout.  Nobody
\* has to post or to stop the loop.
Fairness ==
  /\ \A p \in Producers : WF_vars(ProducerStep(p))
  /\ WF_vars(StopWakeup)
  /\ WF_vars(FlushReset)
  /\ WF_vars(LoopStep)

Spec == Init /\ [][Next]_vars
FairSpec == Spec /\ Fairness

-----------------------------------------------------------------------------
(* Properties.                                                             *)

TypeOK ==
  /\ head \in 0..Capacity - 1 /\ tail \in 0..Capacity - 1
  /\ buf \in [0..Capacity - 1 -> Functor]
  /\ pending \in Seq({Empty})
  /\ wakeupSent \in BOOLEAN /\ resetBuffered \in BOOLEAN /\ pipe \in Nat
  /\ quit \in BOOLEAN /\ calling \in BOOLEAN
  /\ pc \in [Producers -> {"idle", "check", "write", "publish", "overflow", "exchange", "wakeup"}]
  /\ slot \in [Producers -> 0..Capacity - 1]
  /\ posts \in [Producers -> 0..MaxPosts]
  /\ \A p \in Producers : pc[p] # "idle" => posts[p] > 0
  /\ stopPc \in {"idle", "wakeup", "done"}
  /\ loopPc \in {"check", "poll", "reset", "load", "pop", "drain", "run", "exited"}
  /\ cursor \in 0..Capacity - 1 /\ limit \in 0..Capacity - 1
  /\ functors \in Seq(Functor)
  /\ accepted \in Seq(Task) /\ taken \in Nat /\ executed \in Seq(Task)
  /\ dropped \in SUBSET Task

\* The number of slots from i up to, not including, j; and the k-th slot from i.
Distance(i, j) == IF i <= j THEN j - i ELSE j - i + Capacity
SlotAt(i, k) == IF i + k < Capacity THEN i + k ELSE i + k - Capacity

\* Where the unread part of the ring begins: popAll moves functors out before
\* it stores head_.
Front == IF loopPc = "pop" THEN cursor ELSE head

\* The ring as a sequence of functors, oldest first.
Ring == [k \in 1..Distance(Front, tail) |-> buf[SlotAt(Front, k - 1)]]

\* The ring is exactly the queue of accepted tasks that popAll has not moved
\* out: no push overwrites an unread slot, no pop reads a slot before its
\* functor is written, the wrap-around loses and duplicates nothing.
RingIsQueue ==
  /\ taken + Distance(Front, tail) = Len(accepted)
  /\ \A k \in 0..Distance(Front, tail) - 1 :
       buf[SlotAt(Front, k)] = accepted[taken + 1 + k]

\* Every task that push() accepted is in the ring, in the batch being run, was
\* run, or was thrown away behind an escaping exception.  With two producers it
\* does not hold: both may load the same tail (two posts of each).
NoTaskLost ==
  \A i \in DOMAIN accepted :
    \/ \E k \in DOMAIN Ring : Ring[k] = accepted[i]
    \/ accepted[i] \in TasksIn(functors)
    \/ \E k \in DOMAIN executed : executed[k] = accepted[i]
    \/ accepted[i] \in dropped

\* While the loop waits in poll with a task in the ring, a wakeup is in the
\* pipe or a producer is about to put one there.  The code does not keep to
\* that: FlushReset may come after LoopLoad (three posts of one producer).
NoLostWakeup ==
  loopPc = "poll" /\ head # tail =>
    pipe > 0 \/ \E p \in Producers : pc[p] \in {"exchange", "wakeup"}

\* The wakeup pipe never fills: the exchange on wakeupSent_ lets through at
\* most one word per iteration of the loop, beside the one of stop().
WakeupsBounded ==
  pipe + Cardinality({p \in Producers : pc[p] = "wakeup"})
    <= 2 + Cardinality(Producers) + (IF stopPc = "done" THEN 1 ELSE 0)

\* The tasks of the batch: doPendingFunctors() puts the functors of the ring
\* in front of those that overflowed, which are empty.
TaskCount ==
  CHOOSE n \in 0..Len(functors) :
    /\ \A i \in 1..n : functors[i] # Empty
    /\ n < Len(functors) => functors[n + 1] = Empty
Batch == SubSeq(functors, 1, TaskCount)

\* queueInLoop/doPendingFunctors implement a FIFO mailbox: tasks run in the
\* order push() accepted them, at most once.
MB == INSTANCE Mailbox WITH
        mail <- Batch \o Ring,
        ran <- executed
MailboxSpec == MB!MailSpec

\* If exceptions keep coming out of handlers and timers, there are iterations
\* between them that reach doPendingFunctors().  The code does not see to that:
\* a timer that is always due and always throws keeps its tick and comes first.
IterationsComplete == []<><<LoopPollThrows>>_vars => []<>(loopPc = "reset")

\* A task that was accepted is eventually run, or thrown away behind an
\* escaping exception, unless the loop is stopped or every iteration throws
\* before its tasks: a lost wakeup can delay it by one poll timeout, and an
\* exception by one iteration, but neither strands it.
AcceptedTaskRuns ==
  IterationsComplete =>
    \A t \in Task :
      (\E i \in DOMAIN accepted : accepted[i] = t)
        ~> (quit \/ t \in dropped \/ \E i \in DOMAIN executed : executed[i] = t)

\* stop() ends the loop, wherever the loop thread was.
StopEndsLoop == quit ~> loopPc = "exited"
=============================================================================
