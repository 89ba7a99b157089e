SPECIFICATION FairSpec
CONSTANTS
  Producers = {boss}
  Owner = main
  Capacity = 4
  MaxPosts = 5
  TasksMayThrow = TRUE
  Empty = Empty
INVARIANTS RingIsQueue NoTaskLost WakeupsBounded
PROPERTIES MailboxSpec AcceptedTaskRuns StopEndsLoop
CHECK_DEADLOCK FALSE
