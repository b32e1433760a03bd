\* Convergence on the line R1, R2, R3.
SPECIFICATION FairSpec
CONSTANTS
  Routers <- LineRouters
  Devices <- LineDevices
  Nets <- LineNets
  NoGateway = ""
  RouterOf <- LineRouterOf
  NetOf <- LineNetOf
  Loopback <- LineLoopback
  ConfigTable <- LineStubConfig
  FitRoutes = 9
  InboxSize = 1
  MaxInFlight = 9
PROPERTIES
  Converges
