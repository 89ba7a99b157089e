SPECIFICATION Spec
CONSTANTS
  Streams <- MCStreams
  MaxSegment = 5
INVARIANTS DeliveredIsComplete EachOnceInOrder LateAccessIsOwn
CHECK_DEADLOCK FALSE
