\* Frames cross the link of R1 and R2 to R1's network; queues hold one.
SPECIFICATION FairForwardSpec
CONSTANTS
  Routers <- LinkRouters
  Devices <- LinkDevices
  Nets <- LinkNets
  NoGateway = ""
  RouterOf <- LinkRouterOf
  NetOf <- LinkNetOf
  Loopback <- LineLoopback
  ConfigTable <- LinkStubConfig
  FitRoutes = 9
  InboxSize = 1
  MaxInFlight = 9
  Hosts <- LocalHosts
  Frames <- TwoFrames
  DstOf <- ToR1sNetwork
  Entry <- OverTheLink
  InNets <- LocalInNets
  InterfaceOf <- ConfiguredInterface
  Backlog = 1
  Fragile <- OnTheLink
  Client = "client"
PROPERTIES
  FramesArrive
