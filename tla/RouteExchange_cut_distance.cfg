\* The line R1, R2, R3 when only one route fits in a datagram.
SPECIFICATION Spec
CONSTANTS
  Routers <- LineRouters
  Devices <- LineDevices
  Nets <- LineNets
  NoGateway = ""
  RouterOf <- LineRouterOf
  NetOf <- LineNetOf
  Loopback <- LineLoopback
  ConfigTable <- LineConfig
  FitRoutes = 1
  InboxSize = 2
  MaxInFlight = 2
CONSTRAINT FewInFlight
INVARIANTS
  NextHopCloser
