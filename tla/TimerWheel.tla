----------------------------- MODULE TimerWheel -----------------------------
(***************************************************************************)
(* The hashed timer wheel of an EventLoop and the way the loop drives it:  *)
(* runAfter() and cancelTimer() from handlers, tasks and timer callbacks,  *)
(* and advanceTimer(), which replays one tick() per elapsed tickMs.        *)
(*                                                                         *)
(* Time is in milliseconds, counted from the loop's construction.  A slot  *)
(* is a set of entries: the vector it stands for is always in the order of *)
(* the ids, because entries are only appended and never reordered.         *)
(***************************************************************************)
EXTENDS Integers, FiniteSets

CONSTANTS
  NumSlots,           \* numSlots_
  TickMs,             \* tickMs_
  Delays,             \* the delays, in ms, that callers ask for
  MaxTimers,          \* bound: how many timers are created
  MaxMs,              \* bound: how far the clock runs
  CallbacksMayThrow   \* whether a callback may let an exception escape

ASSUME NumSlotsAssumption == NumSlots \in Nat \ {0}
ASSUME TickMsAssumption == TickMs \in Nat \ {0}
ASSUME DelaysAssumption == Delays \subseteq Nat
ASSUME BoundsAssumption == MaxTimers \in Nat /\ MaxMs \in Nat
ASSUME ThrowAssumption == CallbacksMayThrow \in BOOLEAN

VARIABLES
  currentTick,   \* currentTick_
  nextId,        \* nextId_
  slots,         \* slots_: the entries of each slot
  toFire,        \* tick()'s local vector: entries whose callback is still to run
  pc,            \* where the loop thread is in advanceTimer()
  inCallback,    \* a timer callback is running
  now,           \* the steady clock
  lastTimerTick, \* lastTimerTick_
  catchUp,       \* advanceTimer's local: the ticks it has to replay
  ticked,        \* advanceTimer's local i: the ticks it has replayed
  fired,         \* history: entries whose callback ran, with tick and time
  canceledIds,   \* history: ids cancelTimer() found in a slot
  lost,          \* history: entries discarded by an escaping exception
  threw          \* history: a callback let an exception escape

wheelVars == <<currentTick, nextId, slots>>
clockVars == <<lastTimerTick, catchUp, ticked>>
histVars == <<fired, canceledIds, lost, threw>>
vars == <<wheelVars, toFire, pc, inCallback, now, clockVars, histVars>>

\* Mutant: the rounding up is lost.
TicksRoundedDown(delayMs) == delayMs \div TickMs

\* addTimer rounds the delay up to whole ticks.
TicksOf(delayMs) == (delayMs + TickMs - 1) \div TickMs

\* nested: armed by a timer callback.  lag: how many ticks the wheel was
\* behind the clock when the timer was armed.  Both are history.
Entry == [id : Nat, expirationTick : Nat, canceled : BOOLEAN,
          delay : Delays, at : Nat, nested : BOOLEAN, lag : Int]

Init ==
  /\ currentTick = 0 /\ nextId = 0
  /\ slots = [s \in 0..NumSlots - 1 |-> {}]
  /\ toFire = {} /\ pc = "idle" /\ inCallback = FALSE
  /\ now = 0 /\ lastTimerTick = 0 /\ catchUp = 0 /\ ticked = 0
  /\ fired = {} /\ canceledIds = {} /\ lost = {} /\ threw = FALSE

-----------------------------------------------------------------------------
\* Code of the application runs on the loop thread outside advanceTimer(), in
\* a timer callback, or in onTimerTick() between two replayed ticks.
UserCodeRuns == pc = "idle" \/ inCallback \/ (pc = "tick" /\ ticked > 0)

AddTimer(delayMs) ==
  LET expireTick == currentTick + TicksOf(delayMs)
      entry == [id |-> nextId, expirationTick |-> expireTick, canceled |-> FALSE,
                delay |-> delayMs, at |-> now, nested |-> inCallback,
                lag |-> now \div TickMs - currentTick]
  IN  /\ UserCodeRuns /\ nextId < MaxTimers
      /\ slots' = [slots EXCEPT ![expireTick % NumSlots] = @ \cup {entry}]
      /\ nextId' = nextId + 1
      /\ UNCHANGED <<currentTick, toFire, pc, inCallback, now, clockVars, histVars>>

\* cancelTimer marks the entry if it is in a slot; an entry that tick() has
\* already moved to toFire is not found.
CancelTimer(timerId) ==
  /\ UserCodeRuns
  /\ \E s \in DOMAIN slots : \E e \in slots[s] : e.id = timerId /\ ~e.canceled
  /\ slots' = [s \in DOMAIN slots |->
                 {IF e.id = timerId THEN [e EXCEPT !.canceled = TRUE] ELSE e : e \in slots[s]}]
  /\ canceledIds' = canceledIds \cup {timerId}
  /\ UNCHANGED <<currentTick, nextId, toFire, pc, inCallback, now, clockVars, fired, lost, threw>>

-----------------------------------------------------------------------------
(* advanceTimer() and tick().                                              *)

\* Mutant: the number of missed ticks is rounded up.
AdvanceRoundsUp ==
  /\ pc = "idle" /\ now - lastTimerTick >= TickMs
  /\ catchUp' = TicksOf(now - lastTimerTick)
  /\ ticked' = 0
  /\ pc' = "tick"
  /\ UNCHANGED <<wheelVars, toFire, inCallback, now, lastTimerTick, histVars>>

\* The elapsed time is at least one tick: replay as many ticks as fit in it.
AdvanceTimer ==
  /\ pc = "idle" /\ now - lastTimerTick >= TickMs
  /\ catchUp' = (now - lastTimerTick) \div TickMs
  /\ ticked' = 0
  /\ pc' = "tick"
  /\ UNCHANGED <<wheelVars, toFire, inCallback, now, lastTimerTick, histVars>>

\* Mutants of the loop over a slot: what fires and what stays.
SplitSlot(fires(_), stays(_)) ==
  LET slot == currentTick % NumSlots
  IN  /\ pc = "tick"
      /\ toFire' = {e \in slots[slot] : fires(e)}
      /\ slots' = [slots EXCEPT ![slot] = {e \in slots[slot] : stays(e)}]
      /\ pc' = "fire"
      /\ UNCHANGED <<currentTick, nextId, inCallback, now, clockVars, histVars>>

\* The round of an entry is not looked at.
TickFiresWholeSlot == SplitSlot(LAMBDA e : ~e.canceled, LAMBDA e : FALSE)
\* The swap with keep is missing.
TickKeepsFired ==
  SplitSlot(LAMBDA e : ~e.canceled /\ e.expirationTick <= currentTick, LAMBDA e : ~e.canceled)
\* canceled is not looked at.
TickIgnoresCancel ==
  SplitSlot(LAMBDA e : e.expirationTick <= currentTick, LAMBDA e : e.expirationTick > currentTick)
\* Entries of a later round are not kept.
TickForgetsLaterRounds ==
  SplitSlot(LAMBDA e : ~e.canceled /\ e.expirationTick <= currentTick, LAMBDA e : FALSE)

\* tick(): split the slot of the current tick.  Canceled entries are dropped,
\* entries of a later round stay, the others are going to fire.
TickBegin ==
  LET slot == currentTick % NumSlots
      live == {e \in slots[slot] : ~e.canceled}
  IN  /\ pc = "tick"
      /\ toFire' = {e \in live : e.expirationTick <= currentTick}
      /\ slots' = [slots EXCEPT ![slot] = {e \in live : e.expirationTick > currentTick}]
      /\ pc' = "fire"
      /\ UNCHANGED <<currentTick, nextId, inCallback, now, clockVars, histVars>>

\* The next callback in the order of insertion starts; the one before it, if
\* any, has returned.
FireNext ==
  /\ pc = "fire"
  /\ \E e \in toFire :
       /\ \A f \in toFire : e.id <= f.id
       /\ toFire' = toFire \ {e}
       /\ fired' = fired \cup {[entry |-> e, tick |-> currentTick, time |-> now]}
  /\ inCallback' = TRUE
  /\ UNCHANGED <<wheelVars, pc, now, clockVars, canceledIds, lost, threw>>

\* The running callback lets an exception escape: it leaves tick() before
\* currentTick_++ and advanceTimer() before lastTimerTick_ moves.
CallbackThrows ==
  /\ CallbacksMayThrow /\ inCallback
  /\ lost' = lost \cup toFire
  /\ threw' = TRUE
  /\ toFire' = {} /\ inCallback' = FALSE /\ pc' = "idle"
  /\ UNCHANGED <<wheelVars, now, clockVars, fired, canceledIds>>

\* Mutant: currentTick_++ is missing.
TickEndStays ==
  /\ pc = "fire" /\ toFire = {}
  /\ ticked' = ticked + 1
  /\ inCallback' = FALSE
  /\ IF ticked + 1 < catchUp
       THEN pc' = "tick" /\ UNCHANGED lastTimerTick
       ELSE pc' = "idle" /\ lastTimerTick' = lastTimerTick + catchUp * TickMs
  /\ UNCHANGED <<wheelVars, toFire, now, catchUp, histVars>>

\* currentTick_++, onTimerTick(), and after the last replayed tick
\* lastTimerTick_ moves by what was replayed.
TickEnd ==
  /\ pc = "fire" /\ toFire = {}
  /\ currentTick' = currentTick + 1
  /\ ticked' = ticked + 1
  /\ inCallback' = FALSE
  /\ IF ticked + 1 < catchUp
       THEN pc' = "tick" /\ UNCHANGED lastTimerTick
       ELSE pc' = "idle" /\ lastTimerTick' = lastTimerTick + catchUp * TickMs
  /\ UNCHANGED <<nextId, slots, toFire, now, catchUp, histVars>>

ClockAdvances ==
  /\ now < MaxMs
  /\ now' = now + 1
  /\ UNCHANGED <<wheelVars, toFire, pc, inCallback, clockVars, histVars>>

-----------------------------------------------------------------------------
Next ==
  \/ \E d \in Delays : AddTimer(d)
  \/ \E i \in 0..MaxTimers - 1 : CancelTimer(i)
  \/ AdvanceTimer \/ TickBegin \/ FireNext \/ CallbackThrows \/ TickEnd
  \/ ClockAdvances

\* Time passes and the loop keeps calling advanceTimer(): poll never blocks
\* for longer than one tick.  Callbacks return.
Fairness ==
  /\ WF_vars(ClockAdvances)
  /\ WF_vars(AdvanceTimer) /\ WF_vars(TickBegin)
  /\ WF_vars(FireNext) /\ WF_vars(TickEnd)

Spec == Init /\ [][Next]_vars
FairSpec == Spec /\ Fairness

-----------------------------------------------------------------------------
(* Properties.                                                             *)

TypeOK ==
  /\ currentTick \in Nat /\ nextId \in Nat
  /\ slots \in [0..NumSlots - 1 -> SUBSET Entry]
  /\ toFire \in SUBSET Entry
  /\ pc \in {"idle", "tick", "fire"} /\ inCallback \in BOOLEAN
  /\ now \in Nat /\ lastTimerTick \in Nat /\ catchUp \in Nat /\ ticked \in Nat
  /\ fired \in SUBSET [entry : Entry, tick : Nat, time : Nat]
  /\ canceledIds \in SUBSET Nat /\ lost \in SUBSET Entry /\ threw \in BOOLEAN

\* A zero-delay timer armed by a callback lands in the slot tick() has just
\* emptied: it is the only kind of entry that may be overdue.
MissedItsTick(e) == e.nested /\ TicksOf(e.delay) = 0

\* Every callback runs at exactly the tick the timer was armed for.  Only a
\* zero-delay timer armed inside a callback may miss it, and then it runs
\* exactly one revolution of the wheel later.
FiresOnItsTick ==
  \A f \in fired :
    \/ f.tick = f.entry.expirationTick
    \/ MissedItsTick(f.entry) /\ f.tick = f.entry.expirationTick + NumSlots

\* A timer runs at most once, and never again after it left the wheel.
FiresOnce ==
  \A f \in fired :
    /\ \A g \in fired : f.entry.id = g.entry.id => f = g
    /\ \A e \in toFire : e.id # f.entry.id
    /\ \A s \in DOMAIN slots : \A e \in slots[s] : e.id # f.entry.id

\* A timer that cancelTimer() found in the wheel never runs, however many
\* rounds it still had to go.
CancelHolds == \A f \in fired : f.entry.id \notin canceledIds

\* A timer that was neither cancelled nor discarded by an exception is in the
\* wheel or has run.
NoTimerLost ==
  \A i \in 0..nextId - 1 :
    \/ i \in canceledIds
    \/ \E e \in lost \cup toFire \cup UNION {slots[s] : s \in DOMAIN slots} : e.id = i
    \/ \E f \in fired : f.entry.id = i

\* Replaying the missed ticks keeps the wheel in step with the clock: never
\* ahead of it, and caught up whenever advanceTimer() returns.  (An exception
\* breaks this: the ticks already replayed are replayed again.)
WheelTracksClock ==
  ~threw =>
    /\ currentTick * TickMs <= now
    /\ pc = "idle" => currentTick * TickMs = lastTimerTick

\* A timer may run before its delay has passed, because the delay is counted
\* from the wheel's tick and not from the clock; but by less than the ticks the
\* wheel was behind when the timer was armed, so never when it was in step.
EarlyByLagAtMost ==
  ~threw =>
    \A f \in fired : f.time + f.entry.lag * TickMs > f.entry.at + f.entry.delay

\* A timer that comes due before the clock's bound runs, or is cancelled, or
\* is discarded by an exception.
TimerRuns ==
  \A i \in 0..MaxTimers - 1 :
    (\E s \in DOMAIN slots : \E e \in slots[s] :
       e.id = i /\ (e.expirationTick + NumSlots + 1) * TickMs <= MaxMs)
      ~> (\/ i \in canceledIds
          \/ \E f \in fired : f.entry.id = i
          \/ \E e \in lost : e.id = i)
=============================================================================
