SPECIFICATION FairSpec
CONSTANTS
  Sender = {s, t}
  FragPayload = 2
  MaxOut = 5
  IdWidth = 2
  Lens = {2, 3, 5}
  IvIndex = {0, 2}
  IvTotal = {1, 3}
  IvLen = {1, 9}
  Timeout = 1
  Period = 2
  MaxMsgs = 2
  MaxRestarts = 1
  MaxDups = 1
INVARIANTS
  TypeOK
  Genuine
  WithinBuffer
  NoneWithheld
PROPERTIES
  KeptWhileArriving
  Released
