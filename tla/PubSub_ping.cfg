SPECIFICATION FairSpec
CONSTANTS
  Sockets = {"a"}
  Workers = {"w"}
  WorkerOf <- Together
  Topics = {"t"}
  Ops = {"text", "ping", "pong", "close", "other", "http"}
  PingEnabled = TRUE
  WriteErrors = TRUE
  MaxReads = 3
  MaxMsgs = 1
INVARIANTS LivePeerKept
PROPERTY SilentPeerClosed
CHECK_DEADLOCK FALSE
