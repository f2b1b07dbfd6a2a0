SPECIFICATION FairSpec
CONSTANTS
  RetryAge = 1
  MaxRetries = 1
  Burst = 1
  SeqWidth = 3
  Stray = TRUE
  MaxFrags = 2
  MaxSends = 2
  SendUntil = 1
  Slack = 1
INVARIANTS
  TypeOK
  Accounted
  GracePeriod
  IteratorValid
PROPERTIES
  Resolved
