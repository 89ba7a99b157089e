SPECIFICATION FairSpec
CONSTANTS
  Conns = {c1}
  Sizes = {1, 2}
  SockBuf = 1
  WaterMark = 2
  ReadTimeout = 1
  WriteTimeout = 1
  InactiveShares = FALSE
  MaxBytes = 4
INVARIANTS ClosedOnce TableOwnsSockets UnsentIsPolled HttpBytesKept BacklogBounded
PROPERTY UnsentDrains
