\* Two listeners append the same network.
SPECIFICATION Spec
CONSTANTS
  Listeners <- TwoListeners
  Broadcasters <- NoBroadcasters
  Forwarders <- NoForwarders
  Networks <- NoNetworks
  Before <- R2Table
  Offers <- SameNetwork
  Freed = Freed
  Garbage = Garbage
CHECK_DEADLOCK FALSE
INVARIANTS
  UniqueEntries
