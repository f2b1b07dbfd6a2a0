SPECIFICATION Spec
CONSTANTS
  Mac = {a, b, c}
  NoMac = none
  Me = a
  AdvHops = {1, 255}
  StaleSec = 1
  MaxEntries = 1
  MaxClock = 2
  MaxPackets = 3
INVARIANTS
  TypeOK
  BestOffer
  NeighbourWithinOneHop
  BlockedOnlyByShorter
