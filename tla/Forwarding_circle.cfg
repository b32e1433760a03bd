\* More frames than the queues of R1 hold, in both directions.
SPECIFICATION ForwardSpec
CONSTANTS
  Routers <- LinkRouters
  Devices <- LinkDevices
  Nets <- LinkNets
  NoGateway = ""
  RouterOf <- LinkRouterOf
  NetOf <- LinkNetOf
  Loopback <- LineLoopback
  ConfigTable <- LinkConfig
  FitRoutes = 9
  InboxSize = 0
  MaxInFlight = 9
  Hosts <- LocalHosts
  Frames <- FourFrames
  DstOf <- ThroughR1
  Entry <- IntoR1
  InNets <- LocalInNets
  InterfaceOf <- ConfiguredInterface
  Backlog = 1
  Fragile <- NoDevices
  Client = "client"
INVARIANTS
  NoCircularWait
