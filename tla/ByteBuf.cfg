SPECIFICATION Spec
CONSTANTS
  Bufs = {buf1, buf2}
  Bytes = {1, 2}
  FirstCap = 1
  WasteLimit = 1
  Slack = 1
  MaxCap = 3
  MaxLen = 2
INVARIANTS ReadableIsQueue
