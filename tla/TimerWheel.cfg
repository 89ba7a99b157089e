SPECIFICATION FairSpec
CONSTANTS
  NumSlots = 2
  TickMs = 2
  Delays = {0, 1, 4}
  MaxTimers = 2
  MaxMs = 8
  CallbacksMayThrow = TRUE
INVARIANTS FiresOnItsTick FiresOnce CancelHolds NoTimerLost WheelTracksClock EarlyByLagAtMost
PROPERTY TimerRuns
CHECK_DEADLOCK FALSE
