SPECIFICATION FairSpec
CONSTANTS
  Peer = {p, q}
  Key = {1, 2}
  Overlap = TRUE
  MaxCrashes = 1
  MaxMsgs = 3
CHECK_DEADLOCK FALSE
INVARIANTS
  TypeOK
  Kept
  CountMatches
  InOrder
  
PROPERTIES
  Refines
  Forwarded
