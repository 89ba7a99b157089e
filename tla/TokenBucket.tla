----------------------------- MODULE TokenBucket -----------------------------
(***************************************************************************)
(* TokenBucket: threads that share one bucket call tryConsume(1) and       *)
(* setRate().  tokens_ is atomic, but every update of it is a load and a   *)
(* later store; lastRefill_, rate_ and burst_ are plain variables.  One    *)
(* action per access.  Time counts ticks of which each refills Rate        *)
(* tokens; the clock does not run backwards (steady_clock).                *)
(***************************************************************************)
EXTENDS Integers, FiniteSets

CONSTANTS
  Threads,   \* callers
  Rate,      \* rate_, tokens per tick
  Burst,     \* burst_
  MaxTime,   \* bound: ticks
  MaxCalls   \* bound: calls

VARIABLES
  tokens,      \* tokens_
  lastRefill,  \* lastRefill_
  now,         \* the clock
  pc,          \* of each thread: where it is
  at,          \* of each thread: the time refill() or setRate() took
  elapsed,     \* of each thread: how long that was after lastRefill_
  current,     \* of each thread: what it loaded from tokens_
  calls,       \* calls begun
  spent,       \* history: calls that returned true
  granted      \* history: tokens there were to give, from the start and by setRate() or time

bucketVars == <<tokens, lastRefill, now, pc, at, elapsed, current, calls, spent, granted>>

Lesser(a, b) == IF a <= b THEN a ELSE b

BucketInit ==
  /\ tokens = Burst /\ lastRefill = 0 /\ now = 0
  /\ pc = [t \in Threads |-> "idle"]
  /\ at = [t \in Threads |-> 0]
  /\ elapsed = [t \in Threads |-> 0]
  /\ current = [t \in Threads |-> 0]
  /\ calls = 0 /\ spent = 0 /\ granted = Burst

Tick ==
  /\ now < MaxTime
  /\ now' = now + 1
  /\ granted' = granted + Rate
  /\ UNCHANGED <<tokens, lastRefill, pc, at, elapsed, current, calls, spent>>

Goes(t, from, to) == pc[t] = from /\ pc' = [pc EXCEPT ![t] = to]

\* refill(): now(), and the early return when no time has passed.
RefillClock(t) ==
  /\ calls < MaxCalls
  /\ Goes(t, "idle", IF now - lastRefill <= 0 THEN "consume" ELSE "load")
  /\ at' = [at EXCEPT ![t] = now]
  /\ elapsed' = [elapsed EXCEPT ![t] = now - lastRefill]
  /\ calls' = calls + 1
  /\ UNCHANGED <<tokens, lastRefill, now, current, spent, granted>>

RefillLoad(t) ==
  /\ Goes(t, "load", "store")
  /\ current' = [current EXCEPT ![t] = Lesser(tokens + Rate * elapsed[t], Burst)]
  /\ UNCHANGED <<tokens, lastRefill, now, at, elapsed, calls, spent, granted>>

RefillStore(t) ==
  /\ Goes(t, "store", "stamp")
  /\ tokens' = current[t]
  /\ UNCHANGED <<lastRefill, now, at, elapsed, current, calls, spent, granted>>

RefillStamp(t) ==
  /\ Goes(t, "stamp", "consume")
  /\ lastRefill' = at[t]
  /\ UNCHANGED <<tokens, now, at, elapsed, current, calls, spent, granted>>

\* tryConsume(1) after refill().
ConsumeLoad(t) ==
  /\ Goes(t, "consume", IF tokens >= 1 THEN "take" ELSE "idle")
  /\ current' = [current EXCEPT ![t] = tokens]
  /\ UNCHANGED <<tokens, lastRefill, now, at, elapsed, calls, spent, granted>>

ConsumeStore(t) ==
  /\ Goes(t, "take", "idle")
  /\ tokens' = current[t] - 1
  /\ spent' = spent + 1
  /\ UNCHANGED <<lastRefill, now, at, elapsed, current, calls, granted>>

\* setRate() with the same rate fills the bucket.
SetRateStore(t) ==
  /\ calls < MaxCalls
  /\ Goes(t, "idle", "clock")
  /\ tokens' = Burst
  /\ granted' = granted + Burst
  /\ calls' = calls + 1
  /\ UNCHANGED <<lastRefill, now, at, elapsed, current, spent>>

SetRateClock(t) ==
  /\ Goes(t, "clock", "set")
  /\ at' = [at EXCEPT ![t] = now]
  /\ UNCHANGED <<tokens, lastRefill, now, elapsed, current, calls, spent, granted>>

SetRateStamp(t) ==
  /\ Goes(t, "set", "idle")
  /\ lastRefill' = at[t]
  /\ UNCHANGED <<tokens, now, at, elapsed, current, calls, spent, granted>>

BucketNext ==
  \/ Tick
  \/ \E t \in Threads :
       \/ RefillClock(t) \/ RefillLoad(t) \/ RefillStore(t) \/ RefillStamp(t)
       \/ ConsumeLoad(t) \/ ConsumeStore(t)
       \/ SetRateStore(t) \/ SetRateClock(t) \/ SetRateStamp(t)

BucketSpec == BucketInit /\ [][BucketNext]_bucketVars

---------------------------------------------------------------------------
(* Properties *)

\* tryConsume() takes its token atomically, as README.md and PLAN.md say it
\* does: however the calls of several threads interleave, no more calls
\* succeed than there were tokens, those refilled since included.
NoTokenSpentTwice == spent <= granted
============================================================================
