SPECIFICATION FairSpec
CONSTANTS
  Peer = {p, q}
  Sizes = {2}
  MaxMsgs = 2
  MaxMoves = 2
  MaxFaults = 1
CHECK_DEADLOCK FALSE
INVARIANTS
  
  InOrder
  
  OneStraggler
PROPERTIES
  Flushed
