SPECIFICATION Spec
CONSTANTS
  Sender = {s}
  FragPayload = 2
  MaxOut = 5
  IdWidth = 2
  Lens = {2, 3}
  IvIndex = {0, 2}
  IvTotal = {1, 3}
  IvLen = {1, 9}
  Timeout = 1
  Period = 2
  MaxMsgs = 2
  MaxRestarts = 0
  MaxDups = 0
INVARIANTS
  SingleDirect
