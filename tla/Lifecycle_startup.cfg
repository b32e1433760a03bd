SPECIFICATION FairSpec
CONSTANTS
  OctetBits = 2
  LongBits = 16
  Callers <- MCCallers
  Garbage <- MCGarbage
  Null = Null
  Unset = Unset
  Cases <- MCCases
  BufferSize = 4
  eth0 = eth0
  eth1 = eth1
  S1 = S1
  R1 = R1
  R2 = R2
  standard = standard
  other = other
INVARIANTS
  LifeTypeOK
  AloneIsRight
  FilesReadAsWritten
  NoDeviceLost
  IndicesOfNewest
  SafeWhileListening
  ShowsNewest
PROPERTIES
  StartupCompletes
CHECK_DEADLOCK FALSE
