SPECIFICATION Spec
CONSTANTS
  RetryAge = 1
  MaxRetries = 1
  Burst = 1
  SeqWidth = 3
  Stray = FALSE
  MaxFrags = 2
  MaxSends = 2
  SendUntil = 1
  Slack = 1
INVARIANTS
  ConfirmedWasAcked
