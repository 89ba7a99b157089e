\* Every kind of handshake, records cut in two and joined at will.
SPECIFICATION FairSpec
CONSTANTS
  Versions = {"1.3", "1.2", "1.2 resumed"}
  MaxRecords = 6
  MaxPieces = 8
  MaxWrites = 2
INVARIANTS PlaintextComplete
PROPERTIES HandshakeCompletes
CHECK_DEADLOCK FALSE
