SPECIFICATION BucketSpec
CONSTANTS
  Threads = {t1, t2}
  t1 = t1
  t2 = t2
  Rate = 1
  Burst = 1
  MaxTime = 1
  MaxCalls = 4
INVARIANT NoTokenSpentTwice
CHECK_DEADLOCK FALSE
