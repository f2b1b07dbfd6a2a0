SPECIFICATION Spec
CONSTANTS
  Node <- MCNode
  Lens = {1, 15, 16, 33, 1007, 1008}
  Strides = {7}
  Passphrase <- MCPassphrase
  Ivs <- MCIvs
  Rounds = 14
  MaxMsgs = 2
  MaxRestarts = 1
CHECK_DEADLOCK FALSE
INVARIANTS
  RoundTrip
  KeysAgree
  RefusedIfTooLong
