\* A frame crosses the triangle while the routers learn their routes.
SPECIFICATION HopSpec
CONSTANTS
  Routers <- TriangleRouters
  Devices <- TriangleDevices
  Nets <- TriangleNets
  NoGateway = ""
  RouterOf <- TriangleRouterOf
  NetOf <- TriangleNetOf
  Loopback <- NoLoopback
  ConfigTable <- ServerConfig
  FitRoutes = 9
  InboxSize = 1
  MaxInFlight = 1
  Hosts <- ServerHosts
  Frames <- OneFrame
  DstOf <- ToServer
  Entry <- AtR3
  InNets <- ServerInNets
  InterfaceOf <- ConfiguredInterface
  Backlog = 1
  Fragile <- OnTheWay
  Client = "client"
CONSTRAINT FewInFlight
INVARIANTS
  FrameTypeOK
  FramesFindRoutes
  DeliveredOnce
  HopsBounded
