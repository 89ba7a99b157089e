SPECIFICATION FairSpec
CONSTANTS
  Workers = {w1, w2}
  Socks = {s1, s2}
  Nobody = Nobody
  RingMayFill = TRUE
  TasksMayThrow = TRUE
  StopperThread = FALSE
  EarlyStop = FALSE
  MaxStarts = 2
INVARIANTS NeverTerminates WorkersOutliveBoss ShutdownIsComplete
PROPERTIES ShutdownEnds AcceptedIsServed
CHECK_DEADLOCK FALSE
