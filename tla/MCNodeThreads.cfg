SPECIFICATION FairSpec
CONSTANTS
  Kinds = {"own", "short", "plain", "part", "data"}
  Burst = 3
  SeqWidth = 4
  MaxFrags = 2
CHECK_DEADLOCK FALSE
INVARIANTS
  TypeOK
  GuardedNeverRaced
  OneLateFrame
PROPERTIES
  QuitTerminates
  CommandsComplete
