\* The exchange on the triangle R2, R3, R5.
SPECIFICATION Spec
CONSTANTS
  Routers <- TriangleRouters
  Devices <- TriangleDevices
  Nets <- TriangleNets
  NoGateway = ""
  RouterOf <- TriangleRouterOf
  NetOf <- TriangleNetOf
  Loopback <- NoLoopback
  ConfigTable <- TriangleConfig
  FitRoutes = 9
  InboxSize = 2
  MaxInFlight = 2
CONSTRAINT FewInFlight
INVARIANTS
  TypeOK
  NextHopCloser
  OffersSound
  NoForwardingLoop
  GatewayOnLink
  DistancesBounded
  NoShortcut
PROPERTIES
  ImplementsRouteLearning
