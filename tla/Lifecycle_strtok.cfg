SPECIFICATION Spec
CONSTANTS
  OctetBits = 2
  LongBits = 16
  Callers <- MCCallers
  Garbage <- MCGarbage
  Null = Null
  Unset = Unset
  Cases <- ConcurrentCases
  BufferSize = 4
  eth0 = eth0
  eth1 = eth1
  S1 = S1
  R1 = R1
  R2 = R2
  standard = standard
  other = other
INVARIANT TwoSockets
CHECK_DEADLOCK FALSE
