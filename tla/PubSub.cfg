SPECIFICATION Spec
CONSTANTS
  Sockets = {"a", "b"}
  Workers = {"a", "b"}
  WorkerOf <- Spread
  Topics = {"t"}
  Ops = {"text", "close"}
  PingEnabled = FALSE
  WriteErrors = TRUE
  MaxReads = 2
  MaxMsgs = 2
INVARIANTS TreeMatches InOrder
CHECK_DEADLOCK FALSE
