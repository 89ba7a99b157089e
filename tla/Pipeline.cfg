SPECIFICATION Spec
SYMMETRY NameSymmetry
CONSTANTS
  Handlers = {codec, inb, outb}
  Inbound = {codec, inb}
  Outbound = {codec, outb}
  Names = {a, b}
  MaxLen = 3
  Signals = {"close"}
  Notices = {"readComplete"}
  MaxMsgs = 1
  MaxDepth = 2
INVARIANTS IndexTracksPosition
PROPERTIES PropagationOrder
