SPECIFICATION Spec
CONSTANTS
  Junk = Junk
  MaxPayload = 16
  Files <- MCFiles
  Iface <- MCIface
  Common <- MCCommon
  Mac <- MCMac
  Sent <- MCSent
  Foreign <- MCForeign
  Burst = 2
  MaxBoots = 2
  MaxFrames = 3
INVARIANTS
  TypeOK
  
  ReadyToRun
  NoLeak
  OwnPayload
