\* One listener, one broadcaster and one forwarder.
SPECIFICATION Spec
CONSTANTS
  Listeners <- OneListener
  Broadcasters <- OneBroadcaster
  Forwarders <- OneForwarder
  Networks <- FrameNetworks
  Before <- R2Table
  Offers <- OneAdvert
  Freed = Freed
  Garbage = Garbage
CHECK_DEADLOCK FALSE
INVARIANTS
  UniqueEntries
  KeepsShortest
  WholeRoutes
  SentOnce
  ListenersDefined
PROPERTIES
  MergesInOrder
