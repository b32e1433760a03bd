--------------------------- MODULE ForwardingProofs ---------------------------
(***************************************************************************)
(* Theorems about module Forwarding: frames are passed on along the routes *)
(* that the exchange keeps sound, while it changes them.  As before, the   *)
(* table of all networks is assumed to fit in a datagram.                  *)
(***************************************************************************)
EXTENDS FrameHops, RouteExchangeProofs

(* A route without gateway leads to a network the router is configured for.*)
GatewaylessAttached ==
  \A r \in Routers : \A i \in DOMAIN table[r] :
    table[r][i].passerelle = NoGateway
      => \E j \in DOMAIN ConfigTable[r] : ConfigTable[r][j].net = table[r][i].net

(* A device that connects somewhere has a frame in hand and has read it.   *)
HopHasFrame ==
  \A d \in Devices : hop[d] # NoHop => hand[d] # <<>> /\ at[d] > 0

ForwardInv ==
  /\ DistancesInv
  /\ GatewaylessAttached
  /\ FrameTypeOK
  /\ HopHasFrame
  /\ FramesFindRoutes

(* What forwarding does to the variables of the exchange.                  *)
Bystander ==
  UNCHANGED <<table, inbox, todo>> /\ (alive' = alive \/ alive' = FALSE)

-----------------------------------------------------------------------------
(* The exchange and forwarding, side by side.                              *)

(* A step of the exchange is one of RouteExchange, all others leave tables *)
(* and datagrams alone.                                                    *)
LEMMA StepKinds ==
  ASSUME [ForwardNext]_allVars
  PROVE  \/ Next /\ UNCHANGED frameVars
         \/ Bystander
<1>1. ASSUME Exchange PROVE Next /\ UNCHANGED frameVars
  BY <1>1 DEF Exchange, Next
<1>2. ASSUME NEW f \in Frames, ClientConnects(f) PROVE Bystander
  BY <1>2 DEF ClientConnects, Bystander, vars
<1>3. ASSUME NEW f \in Frames, NEW how, ClientEnds(f, how) PROVE Bystander
  BY <1>3 DEF ClientEnds, Bystander, vars
<1>4. ASSUME NEW d \in Devices,
             SelectFails(d) \/ AcceptFails(d)
               \/ Accept(d) \/ Deliver(d) \/ StartForwarding(d) \/ RecvFails(d)
               \/ PickRoute(d) \/ CloseFrame(d) \/ ForwardFrame(d) \/ ConnectFails(d)
      PROVE  Bystander
  BY <1>4 DEF SelectFails, AcceptFails, Accept, Deliver, StartForwarding, RecvFails, PickRoute, CloseFrame,
              ForwardFrame, ConnectFails, Bystander, vars
<1>5. ASSUME NEW h \in Hosts, ServerReads(h) PROVE Bystander
  BY <1>5 DEF ServerReads, Bystander, vars
<1>6. ASSUME UNCHANGED allVars PROVE Bystander
  BY <1>6 DEF allVars, vars, Bystander
<1> QED BY <1>1, <1>2, <1>3, <1>4, <1>5, <1>6 DEF ForwardNext

(* Forwarding does not disturb the exchange: the distances stay sound.     *)
LEMMA DistancesInvUndisturbed ==
  ASSUME TablesFit, DistancesInv, [ForwardNext]_allVars
  PROVE  DistancesInv'
<1>1. CASE Next
  BY <1>1, DistancesInvStays
<1>2. CASE Bystander
  <2>1. TypeOK'
    BY <1>2 DEF DistancesInv, TypeOK, Bystander
  <2>2. UniqueNets' /\ NextHopCloser'
    BY <1>2 DEF DistancesInv, UniqueNets, NextHopCloser, KnowsWithin, Bystander
  <2>3. GatewayOnLink'
    BY <1>2 DEF DistancesInv, GatewayOnLink, Bystander
  <2>4. \A routes, e : AllSound(routes, e) => AllSound(routes, e)'
    BY <1>2 DEF AllSound, Sound, KnowsWithin, Bystander
  <2>5. OffersSound'
    BY <1>2, <2>4 DEF DistancesInv, OffersSound, Bystander
  <2> QED BY <2>1, <2>2, <2>3, <2>5 DEF DistancesInv
<1> QED BY <1>1, <1>2, StepKinds

(* Only configured routes have no gateway: a merged one has its sender.    *)
LEMMA GatewaylessStays ==
  ASSUME DistancesInv, GatewaylessAttached, [ForwardNext]_allVars
  PROVE  GatewaylessAttached'
<1>1. CASE Bystander
  BY <1>1 DEF GatewaylessAttached, Bystander
<1>2. CASE Next
  <2> SUFFICES ASSUME NEW r \in Routers, NEW i \in DOMAIN table'[r],
                      table'[r][i].passerelle = NoGateway
               PROVE  \E j \in DOMAIN ConfigTable[r] : ConfigTable[r][j].net = table'[r][i].net
    BY DEF GatewaylessAttached
  <2>1. CASE i \in DOMAIN table[r] /\ table'[r][i] = table[r][i]
    BY <2>1 DEF GatewaylessAttached
  <2>2. ASSUME NEW d \in Devices, NEW route \in Route, Sound(route, d),
               table'[r][i] = Incremented(route)
        PROVE  FALSE
    <3>1. table'[r][i].passerelle \in Devices
      BY <2>2, IncrementedType DEF Sound
    <3> QED BY <3>1, ConfigAssumption DEF ConfigAssumption
  <2> QED BY <1>2, <2>1, <2>2, EntryOrigin
<1> QED BY <1>1, <1>2, StepKinds

(* A device that can serve a frame can do so from then on.                 *)
LEMMA CanServeStays ==
  ASSUME TypeOK, [ForwardNext]_allVars,
         NEW d \in Devices, NEW f, CanServe(d, f)
  PROVE  CanServe(d, f)'
<1>1. RouterOf[d] \in Routers
  BY ConfigAssumption DEF ConfigAssumption
<1>2. CASE Bystander
  BY <1>2 DEF CanServe, Bystander
<1>3. CASE Next
  BY <1>1, <1>3, StepImproves DEF CanServe
<1> QED BY <1>2, <1>3, StepKinds

-----------------------------------------------------------------------------
(* What the forwarding code keeps of its own variables.                    *)

(* The connections to make have the right form: a route without gateway is *)
(* one whose interface the configuration names.                            *)
LEMMA HopForType ==
  ASSUME TypeOK, GatewaylessAttached, FrameTypeOK,
         NEW d \in Devices, Searching(d), NEW i \in MatchingRoutes(d)
  PROVE  HopFor(d, table[RouterOf[d]][i]) \in Hop
<1> DEFINE r == RouterOf[d]
           route == table[r][i]
<1>1. r \in Routers /\ i \in DOMAIN table[r]
  BY ConfigAssumption DEF ConfigAssumption, MatchingRoutes
<1>2. route \in Route
  BY <1>1 DEF TypeOK
<1>3. route.passerelle = NoGateway => InterfaceOf[r][route.net] \in Devices
  BY <1>1, FrameAssumption DEF GatewaylessAttached, FrameAssumption
<1>4. route.passerelle # NoGateway => route.passerelle \in Devices
  BY <1>2 DEF Route
<1>5. FrameOf(d) \in Frames
  BY DEF Searching, FrameTypeOK, FrameOf, InHand, Connection
<1>6. DstOf[FrameOf(d)] \in Endpoints
  BY <1>5, FrameAssumption DEF FrameAssumption
<1> HIDE DEF r, route
<1>7. HopFor(d, route) \in Hop
  BY <1>3, <1>4, <1>6 DEF HopFor, Hop, Endpoints, r
<1> QED BY <1>7 DEF r, route

(* The connection in hand has the right form.                              *)
LEMMA InHandType ==
  ASSUME FrameTypeOK, NEW d \in Devices, hand[d] # <<>>
  PROVE  /\ InHand(d) \in Connection
         /\ FrameOf(d) \in Frames
BY DEF FrameTypeOK, InHand, FrameOf, Connection

(* Type correctness, action by action.                                     *)
LEMMA FrameTypeStays ==
  ASSUME TypeOK, GatewaylessAttached, FrameTypeOK, HopHasFrame, [ForwardNext]_allVars
  PROVE  FrameTypeOK'
<1>1. CASE UNCHANGED frameVars
  BY <1>1 DEF FrameTypeOK, frameVars
<1>2. ASSUME NEW f \in Frames, ClientConnects(f) PROVE FrameTypeOK'
  <2>1. [frame |-> f, from |-> Client] \in Connection
    BY DEF Connection
  <2>2. Entry[f] \in Endpoints
    BY FrameAssumption DEF FrameAssumption, Endpoints
  <2>3. queue[Entry[f]] \in Seq(Connection)
    BY <2>2 DEF FrameTypeOK
  <2>4. Append(queue[Entry[f]], [frame |-> f, from |-> Client]) \in Seq(Connection)
    BY <2>1, <2>3
  <2> QED BY <1>2, <2>2, <2>4 DEF ClientConnects, FrameTypeOK
<1>3. ASSUME NEW f \in Frames, NEW how \in {"sent", "failed"}, ClientEnds(f, how)
      PROVE  FrameTypeOK'
  BY <1>3 DEF ClientEnds, FrameTypeOK
<1>4. ASSUME NEW d \in Devices, Accept(d) PROVE FrameTypeOK'
  <2>1. d \in Endpoints /\ queue[d] \in Seq(Connection) /\ queue[d] # <<>>
    BY <1>4 DEF Accept, Endpoints, FrameTypeOK
  <2>2. Head(queue[d]) \in Connection /\ Tail(queue[d]) \in Seq(Connection)
    BY <2>1
  <2>3. queue' \in [Endpoints -> Seq(Connection)]
    BY <1>4, <2>2 DEF Accept, FrameTypeOK
  <2>4. hand' \in [Devices -> {<<>>} \cup {<<c>> : c \in Connection}]
    BY <1>4, <2>2 DEF Accept, FrameTypeOK
  <2> QED BY <1>4, <2>3, <2>4 DEF Accept, FrameTypeOK
<1>5. ASSUME NEW d \in Devices, Deliver(d) PROVE FrameTypeOK'
  <2>1. FrameOf(d) \in Frames
    BY <1>5, InHandType DEF Deliver, Receiving
  <2> QED BY <1>5, <2>1 DEF Deliver, FrameTypeOK
<1>6. ASSUME NEW d \in Devices, StartForwarding(d) PROVE FrameTypeOK'
  BY <1>6 DEF StartForwarding, FrameTypeOK
<1>7. ASSUME NEW d \in Devices, RecvFails(d) PROVE FrameTypeOK'
  BY <1>7 DEF RecvFails, FrameTypeOK
<1>8. ASSUME NEW d \in Devices, PickRoute(d) PROVE FrameTypeOK'
  <2>1. PICK i \in MatchingRoutes(d) :
          /\ hop' = [hop EXCEPT ![d] = HopFor(d, table[RouterOf[d]][i])]
          /\ at' = [at EXCEPT ![d] = i + 1]
    BY <1>8 DEF PickRoute
  <2>2. HopFor(d, table[RouterOf[d]][i]) \in Hop
    BY <1>8, HopForType DEF PickRoute
  <2>3. i \in Nat
    BY ConfigAssumption DEF MatchingRoutes, TypeOK, ConfigAssumption
  <2>4. hop' \in [Devices -> Hop \cup {NoHop}] /\ at' \in [Devices -> Nat]
    BY <2>1, <2>2, <2>3 DEF FrameTypeOK
  <2> QED BY <1>8, <2>4 DEF PickRoute, FrameTypeOK
<1>9. ASSUME NEW d \in Devices, CloseFrame(d) PROVE FrameTypeOK'
  BY <1>9 DEF CloseFrame, FrameTypeOK
<1>10. ASSUME NEW d \in Devices, ForwardFrame(d) PROVE FrameTypeOK'
  <2>1. FrameOf(d) \in Frames
    BY <1>10, InHandType DEF ForwardFrame, HopHasFrame
  <2>2. hop[d].to \in Endpoints
    BY <1>10 DEF ForwardFrame, FrameTypeOK, Hop
  <2>3. [frame |-> FrameOf(d), from |-> d] \in Connection
    BY <2>1 DEF Connection
  <2>4. Append(queue[hop[d].to], [frame |-> FrameOf(d), from |-> d]) \in Seq(Connection)
    BY <2>2, <2>3 DEF FrameTypeOK
  <2> QED BY <1>10, <2>2, <2>4 DEF ForwardFrame, FrameTypeOK
<1>11. ASSUME NEW d \in Devices, ConnectFails(d) PROVE FrameTypeOK'
  BY <1>11, <1>1 DEF ConnectFails
<1>12. ASSUME NEW h \in Hosts, ServerReads(h) PROVE FrameTypeOK'
  <2>1. h \in Endpoints /\ queue[h] \in Seq(Connection) /\ queue[h] # <<>>
    BY <1>12 DEF ServerReads, Endpoints, FrameTypeOK
  <2>2. Head(queue[h]).frame \in Frames /\ Tail(queue[h]) \in Seq(Connection)
    <3>1. Head(queue[h]) \in Connection
      BY <2>1
    <3> QED BY <2>1, <3>1 DEF Connection
  <2> QED BY <1>12, <2>1, <2>2 DEF ServerReads, FrameTypeOK
<1>13. ASSUME NEW d \in Devices, SelectFails(d) PROVE FrameTypeOK'
  <2>1. queue' \in [Endpoints -> Seq(Connection)]
    <3>1. <<>> \in Seq(Connection)
      OBVIOUS
    <3>2. queue' = [queue EXCEPT ![d] = <<>>] /\ queue \in [Endpoints -> Seq(Connection)]
      BY <1>13 DEF SelectFails, FrameTypeOK
    <3> QED BY <3>1, <3>2, Zenon
  <2>2. socket' \in [Devices -> {"served", "unserved", "closed"}]
    BY <1>13 DEF SelectFails, FrameTypeOK
  <2> QED BY <1>13, <2>1, <2>2 DEF SelectFails, FrameTypeOK
<1>14. ASSUME NEW d \in Devices, AcceptFails(d) PROVE FrameTypeOK'
  BY <1>14 DEF AcceptFails, FrameTypeOK
<1> QED BY <1>1, <1>2, <1>3, <1>4, <1>5, <1>6, <1>7, <1>8, <1>9, <1>10, <1>11, <1>12,
           <1>13, <1>14
        DEF ForwardNext, Exchange, allVars

(* Only a device that has read a frame connects on, and it keeps the frame *)
(* until it is connected.                                                  *)
LEMMA HopHasFrameStays ==
  ASSUME TypeOK, FrameTypeOK, HopHasFrame, [ForwardNext]_allVars
  PROVE  HopHasFrame'
<1>1. CASE UNCHANGED <<hand, at, hop>>
  BY <1>1 DEF HopHasFrame
<1>2. ASSUME NEW d \in Devices, Accept(d) PROVE HopHasFrame'
  BY <1>2 DEF Accept, Idle, HopHasFrame, FrameTypeOK
<1>3. ASSUME NEW d \in Devices, Deliver(d) PROVE HopHasFrame'
  BY <1>3 DEF Deliver, Receiving, HopHasFrame, FrameTypeOK
<1>4. ASSUME NEW d \in Devices, StartForwarding(d) PROVE HopHasFrame'
  BY <1>4 DEF StartForwarding, Receiving, HopHasFrame, FrameTypeOK
<1>5. ASSUME NEW d \in Devices, RecvFails(d) PROVE HopHasFrame'
  <2>1. hop[d] = NoHop /\ UNCHANGED <<at, hop>>
    BY <1>5 DEF RecvFails, Receiving, HopHasFrame
  <2>2. CASE UNCHANGED hand
    BY <1>1, <2>1, <2>2
  <2>3. CASE hand' = [hand EXCEPT ![d] = <<>>]
    BY <2>1, <2>3 DEF HopHasFrame, FrameTypeOK
  <2> QED BY <1>5, <2>2, <2>3 DEF RecvFails
<1>6. ASSUME NEW d \in Devices, PickRoute(d) PROVE HopHasFrame'
  <2>1. PICK i \in MatchingRoutes(d) : at' = [at EXCEPT ![d] = i + 1]
    BY <1>6 DEF PickRoute
  <2>2. i \in Nat /\ i + 1 > 0
    BY ConfigAssumption DEF MatchingRoutes, TypeOK, ConfigAssumption
  <2>3. at'[d] > 0 /\ hand'[d] # <<>>
    BY <1>6, <2>1, <2>2 DEF PickRoute, Searching, FrameTypeOK
  <2>4. \A e \in Devices \ {d} : hop'[e] = hop[e] /\ at'[e] = at[e] /\ hand'[e] = hand[e]
    BY <1>6, <2>1 DEF PickRoute, FrameTypeOK
  <2> QED BY <2>3, <2>4 DEF HopHasFrame
<1>7. ASSUME NEW d \in Devices, CloseFrame(d) PROVE HopHasFrame'
  BY <1>7 DEF CloseFrame, Searching, HopHasFrame, FrameTypeOK
<1>8. ASSUME NEW d \in Devices, ForwardFrame(d) PROVE HopHasFrame'
  BY <1>8 DEF ForwardFrame, HopHasFrame, FrameTypeOK
<1> QED BY <1>1, <1>2, <1>3, <1>4, <1>5, <1>6, <1>7, <1>8
        DEF ForwardNext, Exchange, allVars, frameVars,
            ClientConnects, ClientEnds, ConnectFails, ServerReads, SelectFails, AcceptFails

(* Wherever a device connects to for a matching route, a route for the     *)
(* frame is there too: the gateway's router is closer to the network, and  *)
(* in place of an empty gateway stands a device of the same router.        *)
LEMMA HopCanServe ==
  ASSUME TypeOK, NextHopCloser, GatewaylessAttached, FrameTypeOK,
         NEW d \in Devices, NEW i \in MatchingRoutes(d),
         HopFor(d, table[RouterOf[d]][i]).to \in Devices
  PROVE  CanServe(HopFor(d, table[RouterOf[d]][i]).to, FrameOf(d))
<1> DEFINE r == RouterOf[d]
           route == table[r][i]
           f == FrameOf(d)
<1>1. /\ r \in Routers /\ i \in DOMAIN table[r]
      /\ route.net \in InNets[DstOf[f]]
  BY ConfigAssumption DEF ConfigAssumption, MatchingRoutes
<1>2. CASE route.passerelle = NoGateway
  <2>1. RouterOf[InterfaceOf[r][route.net]] = r
    <3>1. PICK j \in DOMAIN ConfigTable[r] : ConfigTable[r][j].net = route.net
      BY <1>1, <1>2 DEF GatewaylessAttached
    <3>2. RouterOf[InterfaceOf[r][ConfigTable[r][j].net]] = r
      BY <1>1, FrameAssumption DEF FrameAssumption
    <3> HIDE DEF r, route
    <3> QED BY <3>1, <3>2
  <2>2. CanServe(InterfaceOf[r][route.net], f)
    BY <1>1, <2>1 DEF CanServe
  <2>3. CanServe(DstOf[f], f)
    BY DEF CanServe
  <2> HIDE DEF r, route, f
  <2>4. CanServe(HopFor(d, route).to, f)
    BY <1>2, <2>2, <2>3 DEF HopFor, r, f
  <2> QED BY <2>4 DEF r, route, f
<1>3. CASE route.passerelle # NoGateway
  <2>1. KnowsWithin(RouterOf[route.passerelle], route.net, route.distance - 1)
    BY <1>1, <1>3 DEF NextHopCloser
  <2>2. CanServe(route.passerelle, f)
    BY <1>1, <2>1 DEF CanServe, KnowsWithin
  <2>3. CanServe(DstOf[f], f)
    BY DEF CanServe
  <2> HIDE DEF r, route, f
  <2>4. CanServe(HopFor(d, route).to, f)
    BY <1>3, <2>2, <2>3 DEF HopFor, r, f
  <2> QED BY <2>4 DEF r, route, f
<1> QED BY <1>2, <1>3

(* Connection c, queued at or accepted by d, will find a route there.      *)
Served(d, c) == c.from # Client => CanServe(d, c.frame)

(* All connections in accept queues will.                                  *)
QueuesServed ==
  \A d \in Devices : \A k \in DOMAIN queue[d] : Served(d, queue[d][k])

(* No step sends a frame where it would be dropped, nor lets a route go    *)
(* that a frame on its way counts on.                                      *)
LEMMA FramesFindRoutesStays ==
  ASSUME TypeOK, NextHopCloser, GatewaylessAttached, FrameTypeOK, HopHasFrame,
         FramesFindRoutes, [ForwardNext]_allVars
  PROVE  FramesFindRoutes'
<1>1. \A d \in Devices : \A f : CanServe(d, f) => CanServe(d, f)'
  BY CanServeStays
<1>2. CASE UNCHANGED <<queue, hand, hop>>
  BY <1>1, <1>2 DEF FramesFindRoutes, InHand, FrameOf
<1>3. ASSUME NEW d \in Devices, hand' = [hand EXCEPT ![d] = <<>>],
             UNCHANGED <<queue, hop>>, hop[d] = NoHop
      PROVE  FramesFindRoutes'
  <2>1. \A e \in Devices \ {d} : InHand(e)' = InHand(e) /\ hand'[e] = hand[e]
    BY <1>3 DEF InHand, FrameTypeOK
  <2>2. hand'[d] = <<>> /\ hop'[d].to \notin Devices
    BY <1>3, ConfigAssumption DEF FrameTypeOK, NoHop, ConfigAssumption
  <2> QED BY <1>1, <1>3, <2>1, <2>2 DEF FramesFindRoutes, FrameOf
<1>4. ASSUME NEW a \in Endpoints, NEW c \in Connection,
             queue' = [queue EXCEPT ![a] = Append(@, c)],
             a \in Devices => c.from = Client \/ CanServe(a, c.frame)
      PROVE  QueuesServed'
  <2> SUFFICES ASSUME NEW e \in Devices, NEW k \in DOMAIN queue'[e]
               PROVE  Served(e, queue[e][k])'
    BY DEF QueuesServed
  <2>1. queue[a] \in Seq(Connection) /\ e \in Endpoints
    BY DEF FrameTypeOK, Endpoints
  <2>2. CASE k \in DOMAIN queue[e] /\ queue'[e][k] = queue[e][k]
    BY <1>1, <2>2 DEF FramesFindRoutes, Served
  <2>3. CASE e = a /\ queue'[e][k] = c
    BY <1>1, <1>4, <2>3 DEF Served
  <2> QED BY <1>4, <2>1, <2>2, <2>3 DEF FrameTypeOK
<1>5. ASSUME NEW f \in Frames, ClientConnects(f) PROVE FramesFindRoutes'
  <2>1. Entry[f] \in Endpoints /\ [frame |-> f, from |-> Client] \in Connection
    BY FrameAssumption DEF FrameAssumption, Endpoints, Connection
  <2>2. QueuesServed'
    BY <1>4, <1>5, <2>1 DEF ClientConnects
  <2> QED BY <1>1, <1>5, <2>2 DEF FramesFindRoutes, ClientConnects, InHand, FrameOf, QueuesServed, Served
<1>6. ASSUME NEW d \in Devices, Accept(d) PROVE FramesFindRoutes'
  <2>1. queue[d] \in Seq(Connection) /\ queue[d] # <<>> /\ d \in Endpoints
    BY <1>6 DEF Accept, FrameTypeOK, Endpoints
  <2>2. QueuesServed'
    <3>1. \A k \in DOMAIN Tail(queue[d]) :
            k + 1 \in DOMAIN queue[d] /\ Tail(queue[d])[k] = queue[d][k + 1]
      BY <2>1
    <3>2. queue'[d] = Tail(queue[d]) /\ \A e \in Devices \ {d} : queue'[e] = queue[e]
      BY <1>6, <2>1 DEF Accept, FrameTypeOK
    <3>3. ASSUME NEW k \in DOMAIN queue'[d]
          PROVE  Served(d, queue[d][k])'
      <4>1. k + 1 \in DOMAIN queue[d] /\ queue'[d][k] = queue[d][k + 1]
        BY <3>1, <3>2
      <4> QED BY <1>1, <4>1 DEF FramesFindRoutes, Served
    <3> QED BY <1>1, <3>2, <3>3 DEF FramesFindRoutes, QueuesServed, Served
  <2>3. hop[d].to \notin Devices
    BY <1>6, ConfigAssumption DEF HopHasFrame, Accept, Idle, NoHop, ConfigAssumption
  <2>4. \A e \in Devices \ {d} : InHand(e)' = InHand(e) /\ hand'[e] = hand[e]
    BY <1>6 DEF Accept, InHand, FrameTypeOK
  <2>5. InHand(d)' = queue[d][1] /\ 1 \in DOMAIN queue[d]
    BY <1>6, <2>1 DEF Accept, InHand, FrameTypeOK
  <2>6. Served(d, InHand(d))'
    BY <1>1, <2>5 DEF FramesFindRoutes, Served
  <2> QED BY <1>1, <1>6, <2>2, <2>3, <2>4, <2>6 DEF FramesFindRoutes, Accept, FrameOf, QueuesServed, Served
<1>7. ASSUME NEW d \in Devices, Deliver(d) \/ RecvFails(d) PROVE FramesFindRoutes'
  <2>1. hop[d] = NoHop
    BY <1>7 DEF Deliver, RecvFails, Receiving, HopHasFrame
  <2> QED BY <1>2, <1>3, <1>7, <2>1 DEF Deliver, RecvFails
<1>8. ASSUME NEW d \in Devices, CloseFrame(d) PROVE FramesFindRoutes'
  BY <1>3, <1>8 DEF CloseFrame, Searching
<1>9. ASSUME NEW d \in Devices, PickRoute(d) PROVE FramesFindRoutes'
  <2>1. PICK i \in MatchingRoutes(d) :
          hop' = [hop EXCEPT ![d] = HopFor(d, table[RouterOf[d]][i])]
    BY <1>9 DEF PickRoute
  <2>2. UNCHANGED <<queue, hand>> /\ \A e \in Devices : InHand(e)' = InHand(e)
    BY <1>9 DEF PickRoute, InHand
  <2>3. /\ hop'[d] = HopFor(d, table[RouterOf[d]][i])
        /\ \A e \in Devices \ {d} : hop'[e] = hop[e]
    BY <2>1 DEF FrameTypeOK
  <2>4. hop'[d].to \in Devices => CanServe(hop'[d].to, FrameOf(d))
    BY <2>3, HopCanServe
  <2> QED BY <1>1, <2>2, <2>3, <2>4 DEF FramesFindRoutes, FrameOf
<1>10. ASSUME NEW d \in Devices, ForwardFrame(d) PROVE FramesFindRoutes'
  <2>1. FrameOf(d) \in Frames
    BY <1>10, InHandType DEF ForwardFrame, HopHasFrame
  <2>2. hop[d].to \in Endpoints /\ [frame |-> FrameOf(d), from |-> d] \in Connection
    BY <1>10, <2>1 DEF ForwardFrame, FrameTypeOK, Hop, Connection
  <2>3. hop[d].to \in Devices => CanServe(hop[d].to, FrameOf(d))
    BY DEF FramesFindRoutes
  <2>4. QueuesServed'
    BY <1>4, <1>10, <2>2, <2>3 DEF ForwardFrame
  <2>5. hop'[d].to \notin Devices /\ \A e \in Devices \ {d} : hop'[e] = hop[e]
    BY <1>10, ConfigAssumption DEF ForwardFrame, FrameTypeOK, NoHop, ConfigAssumption
  <2>6. UNCHANGED hand /\ \A e \in Devices : InHand(e)' = InHand(e)
    BY <1>10 DEF ForwardFrame, InHand
  <2> QED BY <1>1, <2>4, <2>5, <2>6 DEF FramesFindRoutes, FrameOf, QueuesServed, Served
<1>11. ASSUME NEW h \in Hosts, ServerReads(h) PROVE FramesFindRoutes'
  <2>1. \A e \in Devices : queue'[e] = queue[e]
    BY <1>11, FrameAssumption DEF ServerReads, FrameTypeOK, FrameAssumption
  <2> QED BY <1>1, <1>11, <2>1 DEF FramesFindRoutes, ServerReads, InHand, FrameOf
<1>12. ASSUME NEW d \in Devices, SelectFails(d) PROVE FramesFindRoutes'
  <2>1. queue'[d] = <<>> /\ \A e \in Devices \ {d} : queue'[e] = queue[e]
    BY <1>12 DEF SelectFails, FrameTypeOK, Endpoints
  <2> QED BY <1>1, <1>12, <2>1 DEF FramesFindRoutes, SelectFails, InHand, FrameOf
<1> QED BY <1>2, <1>5, <1>6, <1>7, <1>8, <1>9, <1>10, <1>11, <1>12
        DEF ForwardNext, Exchange, allVars, frameVars, ClientEnds, StartForwarding, ConnectFails,
            AcceptFails

-----------------------------------------------------------------------------
(* The inductive invariant and the theorems.                               *)

LEMMA ForwardInvInit == ASSUME TablesFit PROVE ForwardInit => ForwardInv
<1> SUFFICES ASSUME ForwardInit PROVE ForwardInv
  OBVIOUS
<1>1. DistancesInv
  BY DistancesInvInit DEF ForwardInit
<1>2. GatewaylessAttached
  BY DEF ForwardInit, Init, GatewaylessAttached
<1>3. FrameTypeOK
  BY DEF ForwardInit, FrameTypeOK
<1>4. HopHasFrame
  BY DEF ForwardInit, HopHasFrame
<1>5. FramesFindRoutes
  <2>1. NoHop.to \notin Devices
    BY ConfigAssumption DEF ConfigAssumption, NoHop
  <2> QED BY <2>1 DEF ForwardInit, FramesFindRoutes, Endpoints
<1> QED BY <1>1, <1>2, <1>3, <1>4, <1>5 DEF ForwardInv

LEMMA ForwardInvStays ==
  ASSUME TablesFit, ForwardInv, [ForwardNext]_allVars
  PROVE  ForwardInv'
<1>1. TypeOK /\ NextHopCloser
  BY DEF ForwardInv, DistancesInv
<1>2. DistancesInv'
  BY DistancesInvUndisturbed DEF ForwardInv
<1>3. GatewaylessAttached'
  BY GatewaylessStays DEF ForwardInv
<1>4. FrameTypeOK'
  BY <1>1, FrameTypeStays DEF ForwardInv
<1>5. HopHasFrame'
  BY <1>1, HopHasFrameStays DEF ForwardInv
<1>6. FramesFindRoutes'
  BY <1>1, FramesFindRoutesStays DEF ForwardInv
<1> QED BY <1>2, <1>3, <1>4, <1>5, <1>6 DEF ForwardInv

LEMMA ForwardInvHolds == ASSUME TablesFit PROVE ForwardSpec => []ForwardInv
<1>1. ForwardInit => ForwardInv
  BY ForwardInvInit
<1>2. ForwardInv /\ [ForwardNext]_allVars => ForwardInv'
  BY ForwardInvStays
<1> QED BY <1>1, <1>2, PTL DEF ForwardSpec

(* The variables of the forwarding code keep their types.                  *)
THEOREM FrameTypeCorrect ==
  ASSUME TablesFit
  PROVE  ForwardSpec => []FrameTypeOK
<1>1. ForwardInv => FrameTypeOK
  BY DEF ForwardInv
<1> QED BY <1>1, ForwardInvHolds, PTL

(* A frame is never dropped half way: the device it is sent to has a route *)
(* for it when it gets there, whatever the exchange did to the tables.     *)
THEOREM FramesFindTheirRoutes ==
  ASSUME TablesFit
  PROVE  ForwardSpec => []FramesFindRoutes
<1>1. ForwardInv => FramesFindRoutes
  BY DEF ForwardInv
<1> QED BY <1>1, ForwardInvHolds, PTL

(* While frames are forwarded the next hop stays strictly closer, so that  *)
(* the devices a frame visits are those of ever closer routers.            *)
THEOREM CloserWhileForwarding ==
  ASSUME TablesFit
  PROVE  ForwardSpec => []NextHopCloser
<1>1. ForwardInv => NextHopCloser
  BY DEF ForwardInv, DistancesInv
<1> QED BY <1>1, ForwardInvHolds, PTL
-----------------------------------------------------------------------------
(* No frame is delivered twice.                                            *)

(* The destination of a frame lies in at most one network: the networks of *)
(* the configuration do not overlap.  With overlapping ones the frame goes *)
(* out once for each of them.                                              *)
OneNetwork == \A f \in Frames : \A m, n \in InNets[DstOf[f]] : m = n

(* Device d has found the route for the frame in its hand: the loop        *)
(* variable is behind it.                                                  *)
Passed(d) ==
  \E i \in DOMAIN table[RouterOf[d]] :
    /\ i < at[d]
    /\ table[RouterOf[d]][i].net \in InNets[DstOf[FrameOf(d)]]

(* The k-th connection in the accept queue of a is one for frame f.        *)
Waits(a, k, f) == k \in DOMAIN queue[a] /\ queue[a][k].frame = f

(* Device d has frame f in its hand and has not sent it on.  One that has  *)
(* keeps the frame while its loop runs on to the end of the table.         *)
Carries(d, f) ==
  /\ hand[d] # <<>> /\ FrameOf(d) = f
  /\ hop[d] # NoHop \/ ~Passed(d)

(* Frame f waits somewhere, or is carried.                                 *)
Underway(f) ==
  \/ \E a \in Endpoints : \E k \in DOMAIN queue[a] : Waits(a, k, f)
  \/ \E d \in Devices : Carries(d, f)

(* What a device sends on, it sends on for a route that it has passed.     *)
HopPassed == \A d \in Devices : hop[d] # NoHop => Passed(d)

WaitsOnce ==
  \A f \in Frames : \A a, b \in Endpoints :
    \A k \in DOMAIN queue[a] : \A l \in DOMAIN queue[b] :
      Waits(a, k, f) /\ Waits(b, l, f) => a = b /\ k = l

CarriedOnce ==
  \A f \in Frames : \A d, e \in Devices : Carries(d, f) /\ Carries(e, f) => d = e

WaitsOrCarried ==
  \A f \in Frames : \A d \in Devices : Carries(d, f) =>
    \A a \in Endpoints : \A k \in DOMAIN queue[a] : ~Waits(a, k, f)

(* Before its client connects and after its delivery a frame is nowhere.   *)
NotYetUnderway ==
  \A f \in Frames : client[f] = "idle" => ~Underway(f) /\ received[f] = 0
NoLongerUnderway ==
  \A f \in Frames : received[f] > 0 => ~Underway(f) /\ received[f] = 1

(* There is never more than one copy of a frame that can be delivered.     *)
OneCopy ==
  WaitsOnce /\ CarriedOnce /\ WaitsOrCarried /\ NotYetUnderway /\ NoLongerUnderway

(* What the proofs about single steps use of ForwardInv.                   *)
FrameFacts == TypeOK /\ UniqueNets /\ FrameTypeOK /\ HopHasFrame

(* A device that goes on to a further route has not passed any: the        *)
(* networks that match are one network, which a table lists once.          *)
LEMMA OnlyMatch ==
  ASSUME OneNetwork, FrameFacts,
         NEW d \in Devices, hand[d] # <<>>, NEW i \in MatchingRoutes(d)
  PROVE  ~Passed(d)
<1> SUFFICES ASSUME Passed(d) PROVE FALSE
  OBVIOUS
<1> DEFINE t == table[RouterOf[d]]
           nets == InNets[DstOf[FrameOf(d)]]
<1>1. PICK j \in DOMAIN t : j < at[d] /\ t[j].net \in nets
  BY DEF Passed
<1>2. i \in DOMAIN t /\ i >= at[d] /\ t[i].net \in nets
  BY DEF MatchingRoutes
<1>3. FrameOf(d) \in Frames
  BY InHandType DEF FrameFacts
<1>4. t[i].net = t[j].net
  BY <1>1, <1>2, <1>3 DEF OneNetwork
<1>5. RouterOf[d] \in Routers
  BY ConfigAssumption DEF ConfigAssumption
<1>6. i = j
  BY <1>1, <1>2, <1>4, <1>5 DEF FrameFacts, UniqueNets
<1>7. i \in Nat /\ at[d] \in Nat
  BY <1>2, <1>5 DEF FrameFacts, TypeOK, FrameTypeOK
<1> QED BY <1>1, <1>2, <1>6, <1>7

(* A device that is still in recv has not passed anything.                 *)
LEMMA ReceiverCarries ==
  ASSUME FrameFacts, NEW d \in Devices, Receiving(d)
  PROVE  Carries(d, FrameOf(d))
<1>1. table[RouterOf[d]] \in Seq(Route)
  BY ConfigAssumption DEF ConfigAssumption, FrameFacts, TypeOK
<1>2. \A i \in DOMAIN table[RouterOf[d]] : ~(i < 0)
  BY <1>1
<1> QED BY <1>2 DEF Receiving, Carries, Passed

(* Tables only grow and their networks stay: what is passed stays so.      *)
LEMMA PassedStays ==
  ASSUME FrameFacts, [ForwardNext]_allVars, NEW d \in Devices,
         hand'[d] = hand[d], at'[d] = at[d], Passed(d)
  PROVE  Passed(d)'
<1> DEFINE r == RouterOf[d]
           nets == InNets[DstOf[FrameOf(d)]]
<1>1. PICK i \in DOMAIN table[r] : i < at[d] /\ table[r][i].net \in nets
  BY DEF Passed
<1>2. r \in Routers
  BY ConfigAssumption DEF ConfigAssumption
<1>3. i \in DOMAIN table'[r] /\ table'[r][i].net = table[r][i].net
  <2>1. CASE Next
    BY <1>2, <2>1, StepImproves DEF FrameFacts
  <2>2. CASE Bystander
    BY <2>2 DEF Bystander
  <2> QED BY <2>1, <2>2, StepKinds
<1>4. FrameOf(d)' = FrameOf(d)
  BY DEF FrameOf, InHand
<1> QED BY <1>1, <1>3, <1>4 DEF Passed

(* A device that does nothing itself carries at most what it carried.      *)
LEMMA BystanderCarries ==
  ASSUME FrameFacts, [ForwardNext]_allVars, NEW d \in Devices,
         hand'[d] = hand[d], at'[d] = at[d], hop'[d] = hop[d]
  PROVE  /\ \A f : Carries(d, f)' => Carries(d, f)
         /\ (hop[d] # NoHop => Passed(d)) => (hop[d] # NoHop => Passed(d))'
<1>1. FrameOf(d)' = FrameOf(d)
  BY DEF FrameOf, InHand
<1>2. Passed(d) => Passed(d)'
  BY PassedStays
<1> QED BY <1>1, <1>2 DEF Carries

(* The actions of one device leave what the others are doing alone.        *)
Own(d) ==
  \/ Accept(d) \/ Deliver(d) \/ StartForwarding(d) \/ RecvFails(d)
  \/ PickRoute(d) \/ CloseFrame(d) \/ ForwardFrame(d)

OthersKeep(d) ==
  \A e \in Devices \ {d} : hand'[e] = hand[e] /\ at'[e] = at[e] /\ hop'[e] = hop[e]

LEMMA OwnStep ==
  ASSUME FrameFacts, NEW d \in Devices, Own(d)
  PROVE  OthersKeep(d)
<1>1. /\ hand \in [Devices -> {<<>>} \cup {<<c>> : c \in Connection}]
      /\ at \in [Devices -> Nat]
      /\ hop \in [Devices -> Hop \cup {NoHop}]
  BY DEF FrameFacts, FrameTypeOK
<1>2. CASE Accept(d) \/ Deliver(d)
  BY <1>1, <1>2 DEF Accept, Deliver, OthersKeep
<1>3. CASE StartForwarding(d)
  BY <1>1, <1>3 DEF StartForwarding, OthersKeep
<1>4. CASE RecvFails(d)
  BY <1>1, <1>4 DEF RecvFails, OthersKeep
<1>5. CASE PickRoute(d)
  <2>1. PICK i \in MatchingRoutes(d) :
          /\ hop' = [hop EXCEPT ![d] = HopFor(d, table[RouterOf[d]][i])]
          /\ at' = [at EXCEPT ![d] = i + 1]
    BY <1>5 DEF PickRoute
  <2> QED BY <1>1, <1>5, <2>1 DEF PickRoute, OthersKeep
<1>6. CASE CloseFrame(d)
  BY <1>1, <1>6 DEF CloseFrame, OthersKeep
<1>7. CASE ForwardFrame(d)
  BY <1>1, <1>7 DEF ForwardFrame, OthersKeep
<1> QED BY <1>2, <1>3, <1>4, <1>5, <1>6, <1>7 DEF Own

(* The device that picks a route has passed it, and carried the frame      *)
(* before.                                                                 *)
LEMMA PickCarries ==
  ASSUME OneNetwork, FrameFacts, NEW d \in Devices, PickRoute(d)
  PROVE  /\ Passed(d)'
         /\ \A f : Carries(d, f)' => Carries(d, f)
<1> DEFINE t == table[RouterOf[d]]
           nets == InNets[DstOf[FrameOf(d)]]
<1>1. PICK i \in MatchingRoutes(d) : at' = [at EXCEPT ![d] = i + 1]
  BY DEF PickRoute
<1>2. i \in DOMAIN t /\ t[i].net \in nets
  BY DEF MatchingRoutes
<1>3. i \in Nat
  BY <1>2, ConfigAssumption DEF ConfigAssumption, FrameFacts, TypeOK
<1>4. at'[d] = i + 1
  BY <1>1 DEF FrameFacts, FrameTypeOK
<1>5. UNCHANGED <<table, hand>> /\ FrameOf(d)' = FrameOf(d)
  BY DEF PickRoute, vars, FrameOf, InHand
<1>6. Passed(d)'
  <2>1. i < at'[d]
    BY <1>3, <1>4
  <2> QED BY <1>2, <1>5, <2>1 DEF Passed
<1>7. hand[d] # <<>>
  BY DEF PickRoute, Searching
<1>8. ~Passed(d)
  BY <1>7, OnlyMatch
<1> QED BY <1>5, <1>6, <1>7, <1>8 DEF Carries

(* Whatever a device does, it has passed the route it sends a frame on     *)
(* for.                                                                    *)
LEMMA HopPassedStays ==
  ASSUME OneNetwork, FrameFacts, HopPassed, [ForwardNext]_allVars
  PROVE  HopPassed'
<1>1. CASE UNCHANGED <<hand, at, hop>>
  BY <1>1, BystanderCarries DEF HopPassed
<1>2. ASSUME NEW d \in Devices, Own(d) PROVE HopPassed'
  <2>1. OthersKeep(d)
    BY <1>2, OwnStep
  <2>2. \A e \in Devices \ {d} : (hop[e] # NoHop => Passed(e))'
    BY <2>1, BystanderCarries DEF HopPassed, OthersKeep
  <2>3. CASE PickRoute(d)
    BY <2>2, <2>3, PickCarries DEF HopPassed
  <2>4. CASE ForwardFrame(d)
    <3>1. hop'[d] = NoHop
      BY <2>4 DEF ForwardFrame, FrameFacts, FrameTypeOK
    <3> QED BY <2>2, <3>1 DEF HopPassed
  <2>5. CASE ~PickRoute(d) /\ ~ForwardFrame(d)
    <3>1. hop[d] = NoHop /\ hop' = hop
      BY <1>2, <2>5 DEF Own, Accept, Idle, Deliver, StartForwarding, RecvFails, CloseFrame,
                        Searching, Receiving, FrameFacts, HopHasFrame
    <3> QED BY <2>2, <3>1 DEF HopPassed
  <2> QED BY <2>3, <2>4, <2>5
<1> QED BY <1>1, <1>2
        DEF ForwardNext, Exchange, allVars, frameVars, Own,
            ClientConnects, ClientEnds, ConnectFails, ServerReads, SelectFails, AcceptFails

(* The four ways in which frames change their place.  First: nothing gets  *)
(* anywhere, though something may be lost.                                 *)
LEMMA NothingMoves ==
  ASSUME OneCopy,
         \A d \in Devices : \A f \in Frames : Carries(d, f)' => Carries(d, f),
         \A a \in Endpoints : queue'[a] \in {queue[a], <<>>},
         received' = received,
         \A f \in Frames : client'[f] = "idle" => client[f] = "idle"
  PROVE  OneCopy'
<1>1. \A a \in Endpoints : \A k \in DOMAIN queue'[a] : \A f :
        k \in DOMAIN queue[a] /\ (Waits(a, k, f)' => Waits(a, k, f))
  <2>1. DOMAIN <<>> = {}
    OBVIOUS
  <2> QED BY <2>1 DEF Waits
<1>2. WaitsOnce'
  BY <1>1 DEF OneCopy, WaitsOnce
<1>3. CarriedOnce'
  BY DEF OneCopy, CarriedOnce
<1>4. WaitsOrCarried'
  BY <1>1 DEF OneCopy, WaitsOrCarried
<1>5. \A f \in Frames : Underway(f)' => Underway(f)
  BY <1>1 DEF Underway
<1>6. NotYetUnderway' /\ NoLongerUnderway'
  BY <1>5 DEF OneCopy, NotYetUnderway, NoLongerUnderway
<1> QED BY <1>2, <1>3, <1>4, <1>6 DEF OneCopy

(* Second: a frame that is nowhere, or that its carrier lets go of, is     *)
(* queued.                                                                 *)
LEMMA FrameQueued ==
  ASSUME OneCopy, FrameTypeOK, NEW b \in Endpoints, NEW c \in Connection,
         queue' = [queue EXCEPT ![b] = Append(@, c)],
         \A d \in Devices : \A f \in Frames :
           Carries(d, f)' => Carries(d, f) /\ f # c.frame,
         \A a \in Endpoints : \A k \in DOMAIN queue[a] : ~Waits(a, k, c.frame),
         received' = received, received[c.frame] = 0,
         \A f \in Frames : client'[f] = "idle" => client[f] = "idle" /\ f # c.frame
  PROVE  OneCopy'
<1> DEFINE n == Len(queue[b]) + 1
<1>1. queue[b] \in Seq(Connection)
  BY DEF FrameTypeOK
<1>2. ASSUME NEW a \in Endpoints, NEW k \in DOMAIN queue'[a], NEW f, Waits(a, k, f)'
      PROVE  \/ k \in DOMAIN queue[a] /\ Waits(a, k, f) /\ f # c.frame
             \/ a = b /\ k = n /\ f = c.frame
  <2>1. CASE a # b
    BY <1>2, <2>1 DEF FrameTypeOK, Waits
  <2>2. CASE a = b
    <3>1. queue'[b] = Append(queue[b], c)
      BY DEF FrameTypeOK
    <3>2. CASE k = n
      BY <1>1, <1>2, <2>2, <3>1, <3>2 DEF Waits
    <3>3. CASE k # n
      <4>1. k \in DOMAIN queue[b] /\ queue'[b][k] = queue[b][k]
        BY <1>1, <1>2, <2>2, <3>1, <3>3
      <4> QED BY <1>2, <2>2, <4>1 DEF Waits
    <3> QED BY <3>2, <3>3
  <2> QED BY <2>1, <2>2
<1> HIDE DEF n
<1>3. WaitsOnce'
  <2> SUFFICES ASSUME NEW f \in Frames, NEW a \in Endpoints, NEW e \in Endpoints,
                      NEW k \in DOMAIN queue'[a], NEW l \in DOMAIN queue'[e],
                      Waits(a, k, f)', Waits(e, l, f)'
               PROVE  a = e /\ k = l
    BY DEF WaitsOnce
  <2>1. CASE f = c.frame
    BY <1>2, <2>1
  <2>2. CASE f # c.frame
    BY <1>2, <2>2 DEF OneCopy, WaitsOnce
  <2> QED BY <2>1, <2>2
<1>4. CarriedOnce'
  BY DEF OneCopy, CarriedOnce
<1>5. WaitsOrCarried'
  BY <1>2 DEF OneCopy, WaitsOrCarried
<1>6. \A f \in Frames : Underway(f)' => Underway(f) \/ f = c.frame
  BY <1>2 DEF Underway
<1>7. NotYetUnderway' /\ NoLongerUnderway'
  BY <1>6 DEF OneCopy, NotYetUnderway, NoLongerUnderway
<1> QED BY <1>3, <1>4, <1>5, <1>7 DEF OneCopy

(* Where a queue loses its head, its other entries move up.                *)
LEMMA HeadLeaves ==
  ASSUME WaitsOnce, FrameTypeOK, NEW b \in Endpoints, queue[b] # <<>>,
         queue' = [queue EXCEPT ![b] = Tail(@)],
         NEW a \in Endpoints, NEW k \in DOMAIN queue'[a], NEW f \in Frames,
         Waits(a, k, f)'
  PROVE  /\ f # Head(queue[b]).frame
         /\ LET i == IF a = b THEN k + 1 ELSE k
            IN  i \in DOMAIN queue[a] /\ Waits(a, i, f)
<1>1. queue[b] \in Seq(Connection)
  BY DEF FrameTypeOK
<1>2. 1 \in DOMAIN queue[b] /\ Head(queue[b]) = queue[b][1]
  BY <1>1
<1>3. CASE a # b
  <2>1. queue'[a] = queue[a]
    BY <1>3 DEF FrameTypeOK
  <2>2. Waits(a, k, f) /\ k \in DOMAIN queue[a]
    BY <2>1 DEF Waits
  <2>3. ~Waits(b, 1, f)
    BY <1>2, <1>3, <2>2 DEF WaitsOnce
  <2> QED BY <1>2, <1>3, <2>2, <2>3 DEF Waits
<1>4. CASE a = b
  <2>1. queue'[b] = Tail(queue[b])
    BY DEF FrameTypeOK
  <2>2. /\ k + 1 \in DOMAIN queue[b] /\ k + 1 # 1
        /\ queue'[b][k] = queue[b][k + 1]
    <3>1. \A l \in DOMAIN Tail(queue[b]) :
            /\ l + 1 \in DOMAIN queue[b] /\ l + 1 # 1
            /\ Tail(queue[b])[l] = queue[b][l + 1]
      BY <1>1
    <3> QED BY <1>4, <2>1, <3>1
  <2>3. Waits(b, k + 1, f)
    BY <1>4, <2>2 DEF Waits
  <2>4. ~Waits(b, 1, f)
    BY <1>2, <2>2, <2>3 DEF WaitsOnce
  <2> QED BY <1>2, <1>4, <2>2, <2>3, <2>4 DEF Waits
<1> QED BY <1>3, <1>4

(* Third: the head of a queue leaves it, and may be carried or delivered   *)
(* from then on, but not both.                                             *)
LEMMA FrameUnqueued ==
  ASSUME OneCopy, FrameTypeOK, NEW b \in Endpoints, queue[b] # <<>>,
         queue' = [queue EXCEPT ![b] = Tail(@)],
         NEW g, g = Head(queue[b]).frame,
         \/ /\ UNCHANGED received
            /\ \E d \in Devices :
                 /\ ~\E f \in Frames \ {g} : Carries(d, f)'
                 /\ \A e \in Devices \ {d} : \A f \in Frames : Carries(e, f)' => Carries(e, f)
         \/ /\ received' = [received EXCEPT ![g] = @ + 1]
            /\ \A e \in Devices : \A f \in Frames : Carries(e, f)' => Carries(e, f),
         UNCHANGED client
  PROVE  OneCopy'
<1>1. queue[b] \in Seq(Connection)
  BY DEF FrameTypeOK
<1>2. g \in Frames /\ 1 \in DOMAIN queue[b] /\ Waits(b, 1, g)
  <2>1. 1 \in DOMAIN queue[b] /\ Head(queue[b]) = queue[b][1] /\ queue[b][1] \in Connection
    BY <1>1
  <2> QED BY <2>1 DEF Waits, Connection
<1>3. ASSUME NEW a \in Endpoints, NEW k \in DOMAIN queue'[a], NEW f \in Frames, Waits(a, k, f)'
      PROVE  /\ f # g
             /\ LET i == IF a = b THEN k + 1 ELSE k
                IN  i \in DOMAIN queue[a] /\ Waits(a, i, f)
  BY <1>3, HeadLeaves DEF OneCopy
<1>4. ASSUME NEW d \in Devices PROVE ~Carries(d, g)
  BY <1>2 DEF OneCopy, WaitsOrCarried
<1>5. client[g] # "idle" /\ received[g] = 0
  <2>1. Underway(g)
    BY <1>2 DEF Underway
  <2>2. received[g] \in Nat
    BY <1>2 DEF FrameTypeOK
  <2> QED BY <1>2, <2>1, <2>2 DEF OneCopy, NotYetUnderway, NoLongerUnderway
<1>6. WaitsOnce'
  <2> SUFFICES ASSUME NEW f \in Frames, NEW a \in Endpoints, NEW e \in Endpoints,
                      NEW k \in DOMAIN queue'[a], NEW l \in DOMAIN queue'[e],
                      Waits(a, k, f)', Waits(e, l, f)'
               PROVE  a = e /\ k = l
    BY DEF WaitsOnce
  <2> DEFINE i == IF a = b THEN k + 1 ELSE k
             j == IF e = b THEN l + 1 ELSE l
  <2>1. i \in DOMAIN queue[a] /\ Waits(a, i, f) /\ j \in DOMAIN queue[e] /\ Waits(e, j, f)
    BY <1>3
  <2>2. a = e /\ i = j
    <3> HIDE DEF i, j
    <3> QED BY <2>1 DEF OneCopy, WaitsOnce
  <2>3. k \in Int /\ l \in Int
    <3>1. queue'[a] \in Seq(Connection) /\ queue'[e] \in Seq(Connection)
      BY <1>1 DEF FrameTypeOK
    <3> QED BY <3>1
  <2> QED BY <2>2, <2>3
<1>7. ASSUME NEW d \in Devices, NEW f \in Frames \ {g}, Carries(d, f)' PROVE Carries(d, f)
  BY <1>7
<1>8. CarriedOnce'
  BY <1>4, <1>7 DEF OneCopy, CarriedOnce
<1>9. WaitsOrCarried'
  <2> SUFFICES ASSUME NEW f \in Frames, NEW d \in Devices, Carries(d, f)',
                      NEW a \in Endpoints, NEW k \in DOMAIN queue'[a], Waits(a, k, f)'
               PROVE  FALSE
    BY DEF WaitsOrCarried
  <2> QED BY <1>3, <1>7 DEF OneCopy, WaitsOrCarried
<1>10. \A f \in Frames \ {g} : Underway(f)' => Underway(f)
  BY <1>3, <1>7 DEF Underway
<1>11. \A f \in Frames \ {g} : received'[f] = received[f]
  BY DEF FrameTypeOK
<1>12. NotYetUnderway'
  BY <1>5, <1>10, <1>11 DEF OneCopy, NotYetUnderway
<1>13. received'[g] > 0 => received'[g] = 1 /\ ~Underway(g)'
  <2>1. CASE UNCHANGED received
    BY <1>5, <2>1
  <2>2. CASE /\ received' = [received EXCEPT ![g] = @ + 1]
             /\ \A e \in Devices : \A f \in Frames : Carries(e, f)' => Carries(e, f)
    <3>1. received'[g] = 1
      BY <1>2, <1>5, <2>2 DEF FrameTypeOK
    <3>2. ~Underway(g)'
      BY <1>2, <1>3, <1>4, <2>2 DEF Underway
    <3> QED BY <3>1, <3>2
  <2> QED BY <2>1, <2>2
<1>14. NoLongerUnderway'
  BY <1>10, <1>11, <1>13 DEF OneCopy, NoLongerUnderway
<1> QED BY <1>6, <1>8, <1>9, <1>12, <1>14 DEF OneCopy
(* Fourth: the device that carries a frame is its destination.             *)
LEMMA FrameDelivered ==
  ASSUME OneCopy, FrameTypeOK, NEW d \in Devices, NEW g \in Frames, Carries(d, g),
         UNCHANGED <<queue, client>>,
         received' = [received EXCEPT ![g] = @ + 1],
         \A f \in Frames : ~Carries(d, f)',
         \A e \in Devices \ {d} : \A f \in Frames : Carries(e, f)' => Carries(e, f)
  PROVE  OneCopy'
<1>1. \A a \in Endpoints : \A k, f : Waits(a, k, f)' <=> Waits(a, k, f)
  BY DEF Waits
<1>2. client[g] # "idle" /\ received[g] = 0
  <2>1. Underway(g)
    BY DEF Underway
  <2>2. received[g] \in Nat
    BY DEF FrameTypeOK
  <2> QED BY <2>1, <2>2 DEF OneCopy, NotYetUnderway, NoLongerUnderway
<1>3. received'[g] = 1 /\ \A f \in Frames \ {g} : received'[f] = received[f]
  BY <1>2 DEF FrameTypeOK
<1>4. ~Underway(g)'
  BY <1>1 DEF Underway, OneCopy, CarriedOnce, WaitsOrCarried
<1>5. \A f \in Frames \ {g} : Underway(f)' => Underway(f)
  BY <1>1 DEF Underway
<1>6. WaitsOnce'
  BY <1>1 DEF OneCopy, WaitsOnce
<1>7. CarriedOnce'
  BY DEF OneCopy, CarriedOnce
<1>8. WaitsOrCarried'
  BY <1>1 DEF OneCopy, WaitsOrCarried
<1>9. NotYetUnderway'
  BY <1>2, <1>3, <1>5 DEF OneCopy, NotYetUnderway
<1>10. NoLongerUnderway'
  BY <1>3, <1>4, <1>5 DEF OneCopy, NoLongerUnderway
<1> QED BY <1>6, <1>7, <1>8, <1>9, <1>10 DEF OneCopy

(* What the devices do to the frame they have in hand: none of them gets   *)
(* hold of one but by Accept, and ForwardFrame lets go of it.              *)
LEMMA OwnCarries ==
  ASSUME OneNetwork, FrameFacts, HopPassed, [ForwardNext]_allVars,
         NEW d \in Devices, Own(d)
  PROVE  /\ \A e \in Devices \ {d} : \A f : Carries(e, f)' => Carries(e, f)
         /\ ~Accept(d) => \A f : Carries(d, f)' => Carries(d, f)
         /\ Deliver(d) \/ ForwardFrame(d) => \A f : ~Carries(d, f)'
<1>1. \A e \in Devices \ {d} : \A f : Carries(e, f)' => Carries(e, f)
  BY OwnStep, BystanderCarries DEF OthersKeep
<1>2. \A f : hand'[d] = <<>> => ~Carries(d, f)'
  BY DEF Carries
<1>3. CASE Accept(d)
  <2>1. ~Deliver(d) /\ ~ForwardFrame(d)
    BY <1>3 DEF Accept, Idle, Deliver, Receiving, ForwardFrame, FrameFacts, HopHasFrame
  <2> QED BY <1>1, <1>3, <2>1
<1>4. CASE Deliver(d) \/ CloseFrame(d)
  <2>1. hand'[d] = <<>>
    BY <1>4 DEF Deliver, CloseFrame, FrameFacts, FrameTypeOK
  <2> QED BY <1>1, <1>2, <2>1
<1>5. CASE StartForwarding(d)
  <2>1. hand'[d] = hand[d] /\ FrameOf(d)' = FrameOf(d)
    BY <1>5 DEF StartForwarding, FrameOf, InHand
  <2>2. Carries(d, FrameOf(d))
    BY <1>5, ReceiverCarries DEF StartForwarding
  <2>3. ~Deliver(d) /\ ~ForwardFrame(d)
    BY <1>5 DEF StartForwarding, Receiving, Deliver, ForwardFrame, FrameFacts, HopHasFrame
  <2> QED BY <1>1, <2>1, <2>2, <2>3 DEF Carries
<1>6. CASE RecvFails(d)
  <2>1. ~ForwardFrame(d)
    BY <1>6 DEF RecvFails, Receiving, ForwardFrame, FrameFacts, HopHasFrame
  <2>2. CASE hand'[d] = <<>>
    BY <1>1, <1>2, <2>2
  <2>3. CASE hand'[d] # <<>>
    <3>1. UNCHANGED <<hand, at, hop>>
      BY <1>6, <2>3 DEF RecvFails, FrameFacts, FrameTypeOK
    <3>2. ~Deliver(d)
      BY <2>3 DEF Deliver, FrameFacts, FrameTypeOK
    <3> QED BY <1>1, <2>1, <3>1, <3>2, BystanderCarries
  <2> QED BY <2>2, <2>3
<1>7. CASE PickRoute(d)
  <2>1. ~Deliver(d) /\ ~ForwardFrame(d)
    BY <1>7 DEF PickRoute, Searching, Deliver, Receiving, ForwardFrame
  <2> QED BY <1>1, <1>7, <2>1, PickCarries
<1>8. CASE ForwardFrame(d)
  <2>1. hop'[d] = NoHop /\ UNCHANGED <<hand, at>> /\ UNCHANGED table
    BY <1>8 DEF ForwardFrame, FrameFacts, FrameTypeOK, vars
  <2>2. Passed(d)
    BY <1>8 DEF ForwardFrame, HopPassed
  <2>3. Passed(d)'
    BY <2>1, <2>2, PassedStays
  <2> QED BY <1>1, <2>1, <2>3 DEF Carries
<1> QED BY <1>3, <1>4, <1>5, <1>6, <1>7, <1>8 DEF Own

(* Every step keeps it at one copy.                                        *)
LEMMA OneCopyStays ==
  ASSUME OneNetwork, FrameFacts, HopPassed, OneCopy, [ForwardNext]_allVars
  PROVE  OneCopy'
<1>1. FrameTypeOK
  BY DEF FrameFacts
<1>2. CASE UNCHANGED <<hand, at, hop, received>> /\
           (\A a \in Endpoints : queue'[a] \in {queue[a], <<>>}) /\
           (\A f \in Frames : client'[f] = "idle" => client[f] = "idle")
  <2>1. \A d \in Devices : \A f \in Frames : Carries(d, f)' => Carries(d, f)
    BY <1>2, BystanderCarries
  <2> QED BY <1>2, <2>1, NothingMoves
<1>3. ASSUME NEW f \in Frames, ClientConnects(f) PROVE OneCopy'
  <2> DEFINE c == [frame |-> f, from |-> Client]
  <2>1. Entry[f] \in Endpoints /\ c \in Connection
    BY FrameAssumption DEF FrameAssumption, Endpoints, Connection
  <2>2. c.frame = f /\ queue' = [queue EXCEPT ![Entry[f]] = Append(@, c)]
    BY <1>3 DEF ClientConnects
  <2>3. ~Underway(f) /\ received[f] = 0 /\ received' = received
    BY <1>3 DEF ClientConnects, OneCopy, NotYetUnderway
  <2>4. \A d \in Devices : \A g \in Frames : Carries(d, g)' => Carries(d, g) /\ g # f
    BY <1>3, <2>3, BystanderCarries DEF ClientConnects, Underway
  <2>5. \A a \in Endpoints : \A k \in DOMAIN queue[a] : ~Waits(a, k, f)
    BY <2>3 DEF Underway
  <2>6. \A g \in Frames : client'[g] = "idle" => client[g] = "idle" /\ g # f
    BY <1>1, <1>3 DEF ClientConnects, FrameTypeOK
  <2> HIDE DEF c
  <2> QED BY <1>1, <2>1, <2>2, <2>3, <2>4, <2>5, <2>6, FrameQueued
<1>4. ASSUME NEW f \in Frames, NEW how \in {"sent", "failed"}, ClientEnds(f, how)
      PROVE  OneCopy'
  BY <1>1, <1>2, <1>4 DEF ClientEnds, FrameTypeOK
<1>5. ASSUME NEW d \in Devices, Accept(d) PROVE OneCopy'
  <2> DEFINE g == Head(queue[d]).frame
  <2>1. d \in Endpoints /\ queue[d] # <<>> /\ queue' = [queue EXCEPT ![d] = Tail(@)]
    BY <1>5 DEF Accept, Endpoints
  <2>2. FrameOf(d)' = g
    BY <1>1, <1>5 DEF Accept, FrameOf, InHand, FrameTypeOK
  <2>3. ~\E f \in Frames \ {g} : Carries(d, f)'
    BY <2>2 DEF Carries
  <2>4. \A e \in Devices \ {d} : \A f \in Frames : Carries(e, f)' => Carries(e, f)
    BY <1>5, OwnCarries DEF Own
  <2>5. UNCHANGED received /\ UNCHANGED client
    BY <1>5 DEF Accept
  <2> HIDE DEF g
  <2> QED BY <1>1, <2>1, <2>3, <2>4, <2>5, FrameUnqueued DEF g
<1>6. ASSUME NEW d \in Devices, Deliver(d) PROVE OneCopy'
  <2>1. Carries(d, FrameOf(d)) /\ FrameOf(d) \in Frames
    BY <1>1, <1>6, ReceiverCarries, InHandType DEF Deliver, Receiving
  <2>2. /\ \A e \in Devices \ {d} : \A f : Carries(e, f)' => Carries(e, f)
        /\ \A f : ~Carries(d, f)'
    BY <1>6, OwnCarries DEF Own
  <2>3. /\ UNCHANGED <<queue, client>>
        /\ received' = [received EXCEPT ![FrameOf(d)] = @ + 1]
    BY <1>6 DEF Deliver
  <2> QED BY <1>1, <2>1, <2>2, <2>3, FrameDelivered
<1>7. ASSUME NEW d \in Devices,
             StartForwarding(d) \/ RecvFails(d) \/ PickRoute(d) \/ CloseFrame(d)
      PROVE  OneCopy'
  <2>1. UNCHANGED <<queue, received, client>>
    BY <1>7 DEF StartForwarding, RecvFails, PickRoute, CloseFrame
  <2>2. Own(d) /\ ~Accept(d)
    BY <1>7 DEF Own, Accept, Idle, StartForwarding, RecvFails, Receiving, PickRoute, CloseFrame,
                Searching
  <2>3. \A e \in Devices : \A f : Carries(e, f)' => Carries(e, f)
    BY <2>2, OwnCarries
  <2> QED BY <2>1, <2>3, NothingMoves
<1>8. ASSUME NEW d \in Devices, ForwardFrame(d) PROVE OneCopy'
  <2> DEFINE g == FrameOf(d)
             c == [frame |-> g, from |-> d]
  <2>1. g \in Frames /\ hop[d] # NoHop /\ hand[d] # <<>>
    BY <1>1, <1>8, InHandType DEF ForwardFrame, FrameFacts, HopHasFrame
  <2>2. hop[d].to \in Endpoints /\ c \in Connection
    BY <1>1, <2>1 DEF FrameTypeOK, Hop, Connection
  <2>3. /\ c.frame = g /\ queue' = [queue EXCEPT ![hop[d].to] = Append(@, c)]
        /\ received' = received /\ client' = client
    BY <1>8 DEF ForwardFrame
  <2>4. Carries(d, g)
    BY <2>1 DEF Carries
  <2>5. client[g] # "idle" /\ received[g] = 0
    <3>1. Underway(g)
      BY <2>4 DEF Underway
    <3>2. received[g] \in Nat
      BY <1>1, <2>1 DEF FrameTypeOK
    <3> QED BY <2>1, <3>1, <3>2 DEF OneCopy, NotYetUnderway, NoLongerUnderway
  <2> HIDE DEF g, c
  <2>6. \A e \in Devices : \A f \in Frames : Carries(e, f)' => Carries(e, f) /\ f # g
    <3>1. /\ \A e \in Devices \ {d} : \A f : Carries(e, f)' => Carries(e, f)
          /\ \A f : ~Carries(d, f)'
      BY <1>8, OwnCarries DEF Own
    <3> QED BY <2>1, <2>4, <3>1 DEF OneCopy, CarriedOnce
  <2>7. \A a \in Endpoints : \A k \in DOMAIN queue[a] : ~Waits(a, k, g)
    BY <2>1, <2>4 DEF OneCopy, WaitsOrCarried
  <2>8. \A f \in Frames : client'[f] = "idle" => client[f] = "idle" /\ f # g
    BY <2>3, <2>5
  <2> QED BY <1>1, <2>2, <2>3, <2>5, <2>6, <2>7, <2>8, FrameQueued
<1>9. ASSUME NEW h \in Hosts, ServerReads(h) PROVE OneCopy'
  <2>1. h \in Endpoints /\ queue[h] # <<>> /\ queue' = [queue EXCEPT ![h] = Tail(@)]
    BY <1>9 DEF ServerReads, Endpoints
  <2>2. received' = [received EXCEPT ![Head(queue[h]).frame] = @ + 1] /\ UNCHANGED client
    BY <1>9 DEF ServerReads
  <2>3. \A e \in Devices : \A f \in Frames : Carries(e, f)' => Carries(e, f)
    BY <1>9, BystanderCarries DEF ServerReads
  <2> QED BY <1>1, <2>1, <2>2, <2>3, FrameUnqueued
<1>10. ASSUME NEW d \in Devices, SelectFails(d) PROVE OneCopy'
  <2>1. \A a \in Endpoints : queue'[a] \in {queue[a], <<>>}
    BY <1>1, <1>10 DEF SelectFails, FrameTypeOK
  <2> QED BY <1>2, <1>10, <2>1 DEF SelectFails
<1> QED BY <1>2, <1>3, <1>4, <1>5, <1>6, <1>7, <1>8, <1>9, <1>10
        DEF ForwardNext, Exchange, allVars, frameVars, ConnectFails, AcceptFails

(* The inductive invariant.                                                *)
DeliveryInv == ForwardInv /\ HopPassed /\ OneCopy

LEMMA DeliveryInvInit ==
  ASSUME TablesFit PROVE ForwardInit => DeliveryInv
<1> SUFFICES ASSUME ForwardInit PROVE DeliveryInv
  OBVIOUS
<1>1. \A f \in Frames : ~Underway(f) /\ received[f] = 0
  BY DEF ForwardInit, Underway, Carries
<1>2. \A a \in Endpoints : DOMAIN queue[a] = {}
  BY DEF ForwardInit
<1>3. OneCopy
  BY <1>1, <1>2 DEF OneCopy, WaitsOnce, CarriedOnce, WaitsOrCarried, NotYetUnderway,
                    NoLongerUnderway, Underway
<1>4. HopPassed
  BY DEF ForwardInit, HopPassed
<1> QED BY <1>3, <1>4, ForwardInvInit DEF DeliveryInv

LEMMA DeliveryInvHolds ==
  ASSUME TablesFit, OneNetwork
  PROVE  ForwardSpec => []DeliveryInv
<1>1. ForwardInit => DeliveryInv
  BY DeliveryInvInit
<1>2. DeliveryInv /\ [ForwardNext]_allVars => DeliveryInv'
  <2> SUFFICES ASSUME DeliveryInv, [ForwardNext]_allVars PROVE DeliveryInv'
    OBVIOUS
  <2>1. ForwardInv'
    BY ForwardInvStays DEF DeliveryInv
  <2>2. FrameFacts
    BY DEF DeliveryInv, ForwardInv, DistancesInv, FrameFacts
  <2>3. HopPassed' /\ OneCopy'
    BY <2>2, HopPassedStays, OneCopyStays DEF DeliveryInv
  <2> QED BY <2>1, <2>3 DEF DeliveryInv
<1> QED BY <1>1, <1>2, PTL DEF ForwardSpec

(* A frame is delivered at most once, although the loop over the routes    *)
(* goes on after a match, the table grows under it and a device that has   *)
(* sent a frame on still holds it.                                         *)
THEOREM FramesDeliveredOnce ==
  ASSUME TablesFit, OneNetwork
  PROVE  ForwardSpec => []DeliveredOnce
<1>1. DeliveryInv => DeliveredOnce
  <2> SUFFICES ASSUME DeliveryInv, NEW f \in Frames PROVE received[f] <= 1
    BY DEF DeliveredOnce
  <2>1. received[f] \in Nat
    BY DEF DeliveryInv, ForwardInv, FrameTypeOK
  <2> QED BY <2>1 DEF DeliveryInv, OneCopy, NoLongerUnderway
<1> QED BY <1>1, DeliveryInvHolds, PTL
-----------------------------------------------------------------------------
(* Forwarding implements the exchange.                                     *)

(* Some device broadcasts: without one there is nothing to exchange.       *)
Networked == \E d \in Devices : NetOf[d] \notin Loopback

(* What is no step of the exchange leaves its variables alone, but for the *)
(* end of the process.                                                     *)
LEMMA ForwardingEnds ==
  ASSUME [ForwardNext]_allVars
  PROVE  \/ Next
         \/ UNCHANGED vars
         \/ alive /\ alive' = FALSE /\ UNCHANGED <<table, inbox, todo>>
<1>1. ASSUME Exchange PROVE Next
  BY <1>1 DEF Exchange, Next
<1>2. ASSUME NEW d \in Devices, RecvFails(d) \/ ConnectFails(d)
      PROVE  \/ UNCHANGED vars
             \/ alive /\ alive' = FALSE /\ UNCHANGED <<table, inbox, todo>>
  BY <1>2 DEF RecvFails, ConnectFails, Receiving, vars
<1>3. ASSUME NEW d \in Devices,
             \/ SelectFails(d) \/ AcceptFails(d) \/ Accept(d) \/ Deliver(d)
             \/ StartForwarding(d) \/ PickRoute(d) \/ CloseFrame(d) \/ ForwardFrame(d)
      PROVE  UNCHANGED vars
  BY <1>3
  DEF SelectFails, AcceptFails, Accept, Deliver, StartForwarding, PickRoute, CloseFrame,
      ForwardFrame
<1>4. ASSUME NEW f \in Frames, NEW how, ClientConnects(f) \/ ClientEnds(f, how)
      PROVE  UNCHANGED vars
  BY <1>4 DEF ClientConnects, ClientEnds
<1>5. ASSUME NEW h \in Hosts, ServerReads(h) PROVE UNCHANGED vars
  BY <1>5 DEF ServerReads
<1>6. ASSUME UNCHANGED allVars PROVE UNCHANGED vars
  BY <1>6 DEF allVars
<1> QED
  BY <1>1, <1>2, <1>3, <1>4, <1>5, <1>6 DEF ForwardNext

(* A thread that also forwards takes part in the exchange as one that does *)
(* nothing else: the ends that forwarding may bring about are no others    *)
(* than those of a failing sendto.  What is proved of Spec holds of the    *)
(* whole deviceThread.                                                     *)
THEOREM ForwardingIsExchanging ==
  ASSUME Networked
  PROVE  ForwardSpec => Spec
<1>1. ForwardInit => Init
  BY DEF ForwardInit
<1>2. [ForwardNext]_allVars => [Next]_vars
  <2> SUFFICES ASSUME [ForwardNext]_allVars
               PROVE  [Next]_vars
    OBVIOUS
  <2>1. CASE alive /\ alive' = FALSE /\ UNCHANGED <<table, inbox, todo>>
    <3>1. PICK d \in Devices : NetOf[d] \notin Loopback
      BY DEF Networked
    <3>2. SendFails(d)
      BY <2>1, <3>1 DEF SendFails
    <3> QED
      BY <3>2 DEF Next
  <2> QED
    BY <2>1, ForwardingEnds
<1> QED
  BY <1>1, <1>2, PTL DEF ForwardSpec, Spec

(* The gateways a frame is sent along never form a loop, whatever is being *)
(* forwarded while the tables change.                                      *)
THEOREM NoLoopsWhileForwarding ==
  ASSUME TablesFit, Networked
  PROVE  ForwardSpec => []NoForwardingLoop
BY ForwardingIsExchanging, NoLoops, PTL

(* The whole deviceThread still computes shortest paths as RouteLearning   *)
(* does.                                                                   *)
THEOREM LearningWhileForwarding ==
  ASSUME TablesFit, Networked
  PROVE  ForwardSpec => ImplementsRouteLearning
BY ForwardingIsExchanging, Refinement, PTL

-----------------------------------------------------------------------------
(* No frame takes more than MaxHops hops.                                  *)

(* Device e brings a frame for dst home in at most k hops: it is dst, or   *)
(* the device its router keeps on dst's network, or its router lists that  *)
(* network at a distance below k.                                          *)
HomeIn(e, dst, k) ==
  \/ e = dst
  \/ /\ k >= 1
     /\ \E i \in DOMAIN ConfigTable[RouterOf[e]] :
          LET n == ConfigTable[RouterOf[e]][i].net
          IN  n \in InNets[dst] /\ InterfaceOf[RouterOf[e]][n] = e
  \/ \E n \in InNets[dst] : KnowsWithin(RouterOf[e], n, k - 1)

HopsLeft(f) == MaxHops - hops[f]

(* The frame of connection c, at device e: a client's has all hops left,   *)
(* one that was forwarded enough.                                          *)
InReach(e, c) ==
  IF c.from = Client THEN hops[c.frame] = 0
                     ELSE HomeIn(e, DstOf[c.frame], HopsLeft(c.frame))

(* So is the frame a device holds and has found no route for.              *)
Held(e) ==
  hand[e] # <<>> /\ hop[e] = NoHop /\ ~Passed(e) => InReach(e, InHand(e))

(* Where a frame is about to go it is in reach with one hop less.          *)
Going(d) ==
  hop[d] # NoHop =>
    /\ HopsLeft(FrameOf(d)) >= 1
    /\ hop[d].to \in Devices
         => HomeIn(hop[d].to, DstOf[FrameOf(d)], HopsLeft(FrameOf(d)) - 1)

QueuedInReach ==
  \A e \in Devices : \A k \in DOMAIN queue[e] : InReach(e, queue[e][k])

HeldInReach == \A e \in Devices : Held(e)

HopInReach == \A d \in Devices : Going(d)

(* The frame a device looks up routes for is not meant for the device.     *)
OnlyOthersFrames ==
  \A d \in Devices : at[d] > 0 => hand[d] # <<>> /\ DstOf[FrameOf(d)] # d

Uncounted == \A f \in Frames : client[f] = "idle" => hops[f] = 0

HopsInv ==
  /\ hops \in [Frames -> Nat]
  /\ HopsBounded /\ Uncounted /\ OnlyOthersFrames
  /\ QueuedInReach /\ HeldInReach /\ HopInReach

(* What every state of Forwarding satisfies.                               *)
HopFacts == DeliveryInv /\ DistancesBounded /\ ConfiguredRoutesKept

(* A frame does not get further away while tables improve.                 *)
LEMMA HomeStays ==
  ASSUME TypeOK, TypeOK', [ForwardNext]_allVars
  PROVE  \A e \in Devices : \A f \in Frames : \A k \in Int :
           HomeIn(e, DstOf[f], k) => HomeIn(e, DstOf[f], k)'
<1> SUFFICES ASSUME NEW e \in Devices, NEW f \in Frames, NEW k \in Int, HomeIn(e, DstOf[f], k)
             PROVE  HomeIn(e, DstOf[f], k)'
  OBVIOUS
<1>1. RouterOf[e] \in Routers /\ k - 1 \in Int
  BY ConfigAssumption DEF ConfigAssumption
<1>2. ASSUME NEW n, KnowsWithin(RouterOf[e], n, k - 1)
      PROVE  KnowsWithin(RouterOf[e], n, k - 1)'
  <2>1. CASE Next
    BY <1>1, <1>2, <2>1, KnowledgeStays
  <2>2. CASE Bystander
    BY <1>2, <2>2 DEF Bystander, KnowsWithin
  <2> QED BY <2>1, <2>2, StepKinds
<1> QED BY <1>2 DEF HomeIn

(* A device with a route for a frame is within reach of its destination.   *)
LEMMA MatchHome ==
  ASSUME TypeOK, DistancesBounded, NEW d \in Devices, hand[d] # <<>>,
         NEW i \in MatchingRoutes(d)
  PROVE  HomeIn(d, DstOf[FrameOf(d)], MaxHops)
<1> DEFINE r == RouterOf[d]
<1>1. r \in Routers /\ i \in DOMAIN table[r] /\ table[r][i].net \in InNets[DstOf[FrameOf(d)]]
  BY ConfigAssumption DEF ConfigAssumption, MatchingRoutes
<1>2. Cardinality(Routers) \in Nat
  BY ConfigAssumption, FS_CardinalityType DEF ConfigAssumption
<1>3. table[r][i].distance <= MaxHops - 1
  BY <1>1, <1>2 DEF DistancesBounded, MaxHops
<1>4. KnowsWithin(r, table[r][i].net, MaxHops - 1)
  BY <1>1, <1>3 DEF KnowsWithin
<1> QED BY <1>1, <1>4 DEF HomeIn

(* Where a device sends a frame on to, the frame is closer: at the gateway *)
(* by its distance, at the device on the network because that one sends it *)
(* to the destination.                                                     *)
LEMMA NextHopHome ==
  ASSUME OneNetwork, TypeOK, UniqueNets, NextHopCloser, GatewaylessAttached,
         ConfiguredRoutesKept, FrameTypeOK,
         NEW d \in Devices, hand[d] # <<>>, DstOf[FrameOf(d)] # d,
         NEW i \in MatchingRoutes(d), NEW k \in Int, HomeIn(d, DstOf[FrameOf(d)], k)
  PROVE  LET to == HopFor(d, table[RouterOf[d]][i]).to
         IN  k >= 1 /\ HomeIn(to, DstOf[FrameOf(d)], k - 1)
<1> DEFINE r == RouterOf[d]
           route == table[r][i]
           dst == DstOf[FrameOf(d)]
           to == HopFor(d, route).to
<1>1. r \in Routers /\ i \in DOMAIN table[r] /\ route.net \in InNets[dst]
  BY ConfigAssumption DEF ConfigAssumption, MatchingRoutes
<1>2. FrameOf(d) \in Frames
  BY InHandType
<1>3. \A n \in InNets[dst] : n = route.net
  BY <1>1, <1>2 DEF OneNetwork
<1>4. route \in Route
  BY <1>1 DEF TypeOK
<1>5. route.distance \in Nat
  BY <1>4 DEF Route
<1>6. HomeIn(dst, dst, k - 1)
  BY DEF HomeIn
<1>7. ASSUME NEW j \in DOMAIN ConfigTable[r], ConfigTable[r][j].net = route.net
      PROVE  route.passerelle = NoGateway /\ route.distance = 1
  <2>1. j \in DOMAIN table[r] /\ table[r][j] = ConfigTable[r][j]
    BY <1>1 DEF ConfiguredRoutesKept
  <2>2. i = j
    BY <1>1, <1>7, <2>1 DEF UniqueNets
  <2> QED BY <1>1, <2>1, <2>2, ConfigAssumption DEF ConfigAssumption
<1>8. CASE k >= 1 /\ \E j \in DOMAIN ConfigTable[r] :
             LET n == ConfigTable[r][j].net IN n \in InNets[dst] /\ InterfaceOf[r][n] = d
  <2>1. PICK j \in DOMAIN ConfigTable[r] :
          ConfigTable[r][j].net \in InNets[dst] /\ InterfaceOf[r][ConfigTable[r][j].net] = d
    BY <1>8
  <2>2. ConfigTable[r][j].net = route.net
    BY <1>3, <2>1
  <2>3. route.passerelle = NoGateway
    BY <1>7, <2>2
  <2>4. InterfaceOf[r][route.net] = d
    BY <2>1, <2>2
  <2> HIDE DEF r, route, dst
  <2>5. to = dst
    BY <2>3, <2>4 DEF HopFor, r, dst
  <2> QED BY <1>6, <1>8, <2>5 DEF r, route, dst
<1>9. CASE \E n \in InNets[dst] : KnowsWithin(r, n, k - 1)
  <2>1. KnowsWithin(r, route.net, k - 1)
    BY <1>3, <1>9
  <2>2. PICK j \in DOMAIN table[r] : table[r][j].net = route.net /\ table[r][j].distance <= k - 1
    BY <2>1 DEF KnowsWithin
  <2>3. i = j
    BY <1>1, <2>2 DEF UniqueNets
  <2>4. route.distance <= k - 1 /\ k >= 1
    BY <1>5, <2>2, <2>3
  <2>5. CASE route.passerelle = NoGateway
    <3> DEFINE e == InterfaceOf[r][route.net]
    <3>1. PICK l \in DOMAIN ConfigTable[r] : ConfigTable[r][l].net = route.net
      BY <1>1, <2>5 DEF GatewaylessAttached
    <3>2. RouterOf[e] = r
      <4>1. RouterOf[InterfaceOf[r][ConfigTable[r][l].net]] = r
        BY <1>1, <3>1, FrameAssumption DEF FrameAssumption
      <4> HIDE DEF r, route
      <4> QED BY <3>1, <4>1
    <3>3. k - 1 >= 1
      BY <1>7, <2>4, <3>1
    <3>4. HomeIn(e, dst, k - 1)
      <4> HIDE DEF r, route, dst, e
      <4>1. RouterOf[e] = r /\ InterfaceOf[r][ConfigTable[r][l].net] = e
            /\ ConfigTable[r][l].net \in InNets[dst]
        BY <1>1, <3>1, <3>2 DEF e
      <4> QED BY <3>1, <3>3, <4>1 DEF HomeIn
    <3> HIDE DEF r, route, dst
    <3>5. to = e \/ to = dst
      BY <2>5 DEF HopFor, r, dst
    <3> QED BY <1>6, <2>4, <3>4, <3>5 DEF r, route, dst
  <2>6. CASE route.passerelle # NoGateway
    <3>1. KnowsWithin(RouterOf[route.passerelle], route.net, route.distance - 1)
      BY <1>1, <2>6 DEF NextHopCloser
    <3>2. PICK l \in DOMAIN table[RouterOf[route.passerelle]] :
            LET far == table[RouterOf[route.passerelle]][l]
            IN  far.net = route.net /\ far.distance <= route.distance - 1
      BY <3>1 DEF KnowsWithin
    <3>3. route.passerelle \in Devices
      BY <1>4, <2>6 DEF Route
    <3>4. RouterOf[route.passerelle] \in Routers
      BY <3>3, ConfigAssumption DEF ConfigAssumption
    <3>5. table[RouterOf[route.passerelle]][l] \in Route
      BY <3>4 DEF TypeOK
    <3>6. table[RouterOf[route.passerelle]][l].distance \in Nat
      BY <3>5 DEF Route
    <3>7. table[RouterOf[route.passerelle]][l].distance <= (k - 1) - 1
      BY <1>5, <2>4, <3>2, <3>6
    <3>8. KnowsWithin(RouterOf[route.passerelle], route.net, (k - 1) - 1)
      BY <3>2, <3>7 DEF KnowsWithin
    <3>9. HomeIn(route.passerelle, dst, k - 1)
      BY <1>1, <3>8 DEF HomeIn
    <3> HIDE DEF r, route, dst
    <3>10. to = route.passerelle \/ to = dst
      BY <2>6 DEF HopFor, r, dst
    <3> QED BY <1>6, <2>4, <3>9, <3>10 DEF r, route, dst
  <2> QED BY <2>5, <2>6
<1>10. \/ k >= 1 /\ \E j \in DOMAIN ConfigTable[r] :
               LET n == ConfigTable[r][j].net IN n \in InNets[dst] /\ InterfaceOf[r][n] = d
       \/ \E n \in InNets[dst] : KnowsWithin(r, n, k - 1)
  BY DEF HomeIn
<1> QED BY <1>8, <1>9, <1>10

LEMMA HopsLeftType ==
  ASSUME hops \in [Frames -> Nat], NEW f \in Frames
  PROVE  MaxHops \in Nat /\ hops[f] \in Nat /\ HopsLeft(f) = MaxHops - hops[f]
<1>1. Cardinality(Routers) \in Nat
  BY ConfigAssumption, FS_CardinalityType DEF ConfigAssumption
<1> QED BY <1>1 DEF HopsLeft, MaxHops

(* ForwardFrame is the step that counts.                                   *)
LEMMA HopsAdvance ==
  ASSUME FrameFacts, hops \in [Frames -> Nat], [HopNext]_hopVars
  PROVE  /\ (\A d \in Devices : ~ForwardFrame(d)) => hops' = hops
         /\ \A d \in Devices : ForwardFrame(d) =>
              \A f \in Frames : hops'[f] = IF f = FrameOf(d) THEN hops[f] + 1 ELSE hops[f]
<1>1. CASE UNCHANGED hopVars
  <2>1. hops' = hops /\ hop' = hop
    BY <1>1 DEF hopVars, allVars, frameVars
  <2>2. \A d \in Devices : ~ForwardFrame(d)
    BY <2>1 DEF ForwardFrame, FrameFacts, FrameTypeOK
  <2> QED BY <2>1, <2>2
<1>2. CASE HopNext
  <2>1. ASSUME NEW d \in Devices, NEW e \in Devices, hop[d] # NoHop, hop'[d] = NoHop, Own(e)
        PROVE  d = e /\ ForwardFrame(d)
    <3>1. d = e
      BY <2>1, OwnStep DEF OthersKeep
    <3>2. ~ForwardFrame(d) => hop'[d] = hop[d]
      BY <2>1, <3>1 DEF Own, Accept, Deliver, StartForwarding, RecvFails, PickRoute, Searching,
                        CloseFrame
    <3> QED BY <2>1, <3>1, <3>2
  <2>2. ForwardNext
    BY <1>2 DEF HopNext
  <2>3. UNCHANGED hop \/ \E d \in Devices : Own(d)
    BY <2>2 DEF ForwardNext, Exchange, allVars, frameVars, Own,
                ClientConnects, ClientEnds, ConnectFails, ServerReads, SelectFails, AcceptFails
  <2>4. \A d \in Devices : hop[d] # NoHop /\ hop'[d] = NoHop => ForwardFrame(d)
    BY <2>1, <2>3
  <2>5. \A d \in Devices : ForwardFrame(d) => hop[d] # NoHop /\ hop'[d] = NoHop
    BY DEF ForwardFrame, FrameFacts, FrameTypeOK
  <2>6. \A d, e \in Devices : ForwardFrame(d) /\ ForwardFrame(e) => d = e
    BY <2>1, <2>5 DEF Own
  <2>7. hops' = [f \in Frames |-> IF \E d \in Devices : ForwardFrame(d) /\ FrameOf(d) = f
                                  THEN hops[f] + 1 ELSE hops[f]]
    BY <1>2, <2>4, <2>5 DEF HopNext, SentOn
  <2>8. (\A d \in Devices : ~ForwardFrame(d)) => hops' = hops
    BY <2>7
  <2> QED BY <2>6, <2>7, <2>8
<1> QED BY <1>1, <1>2

(* A frame that has not been sent on stays in reach.                       *)
LEMMA InReachStays ==
  ASSUME TypeOK, TypeOK', [ForwardNext]_allVars, hops \in [Frames -> Nat]
  PROVE  \A e \in Devices : \A c \in Connection :
           InReach(e, c) /\ hops'[c.frame] = hops[c.frame] => InReach(e, c)'
<1> SUFFICES ASSUME NEW e \in Devices, NEW c \in Connection,
                    InReach(e, c), hops'[c.frame] = hops[c.frame]
             PROVE  InReach(e, c)'
  OBVIOUS
<1>1. c.frame \in Frames
  BY DEF Connection
<1>2. HopsLeft(c.frame) \in Int /\ HopsLeft(c.frame)' = HopsLeft(c.frame)
  BY <1>1, HopsLeftType DEF HopsLeft, MaxHops
<1>3. HomeIn(e, DstOf[c.frame], HopsLeft(c.frame)) => HomeIn(e, DstOf[c.frame], HopsLeft(c.frame))'
  BY <1>1, <1>2, HomeStays
<1> QED BY <1>3 DEF InReach

(* So does what is held or about to be sent by a device that does nothing. *)
LEMMA IdleReach ==
  ASSUME FrameFacts, TypeOK', [ForwardNext]_allVars, hops \in [Frames -> Nat],
         NEW e \in Devices, hand'[e] = hand[e], at'[e] = at[e], hop'[e] = hop[e],
         Carries(e, FrameOf(e)) => hops'[FrameOf(e)] = hops[FrameOf(e)],
         Held(e), Going(e)
  PROVE  Held(e)' /\ Going(e)'
<1>1. TypeOK /\ FrameTypeOK /\ HopHasFrame
  BY DEF FrameFacts
<1>2. InHand(e)' = InHand(e) /\ FrameOf(e)' = FrameOf(e)
  BY DEF FrameOf, InHand
<1>3. Held(e)'
  <2> SUFFICES ASSUME hand[e] # <<>>, hop[e] = NoHop, ~Passed(e)' PROVE InReach(e, InHand(e))'
    BY DEF Held
  <2>1. ~Passed(e)
    BY PassedStays
  <2>2. InReach(e, InHand(e)) /\ Carries(e, FrameOf(e))
    BY <2>1 DEF Held, Carries
  <2>3. InHand(e) \in Connection
    BY <1>1, InHandType
  <2>4. hops'[InHand(e).frame] = hops[InHand(e).frame]
    BY <2>2 DEF FrameOf
  <2>5. InReach(e, InHand(e))'
    BY <1>1, <1>2, <2>2, <2>3, <2>4, InReachStays
  <2> QED BY <2>5
<1>4. Going(e)'
  <2> SUFFICES ASSUME hop[e] # NoHop
               PROVE  /\ HopsLeft(FrameOf(e))' >= 1
                      /\ hop[e].to \in Devices
                           => HomeIn(hop[e].to, DstOf[FrameOf(e)], HopsLeft(FrameOf(e)) - 1)'
    BY DEF Going
  <2>1. FrameOf(e) \in Frames /\ Carries(e, FrameOf(e))
    BY <1>1, InHandType DEF HopHasFrame, Carries
  <2>2. HopsLeft(FrameOf(e)) \in Int /\ HopsLeft(FrameOf(e))' = HopsLeft(FrameOf(e))
    BY <1>2, <2>1, HopsLeftType DEF HopsLeft, MaxHops
  <2>3. HopsLeft(FrameOf(e)) - 1 \in Int
    BY <2>2
  <2>4. ASSUME hop[e].to \in Devices
        PROVE  HomeIn(hop[e].to, DstOf[FrameOf(e)], HopsLeft(FrameOf(e)) - 1)'
    BY <1>1, <1>2, <2>1, <2>2, <2>3, <2>4, HomeStays DEF Going
  <2> QED BY <2>2, <2>4 DEF Going
<1> QED BY <1>3, <1>4

(* Who does something, and that what others do with their frames stays in  *)
(* reach: only one device has a copy that counts.                          *)
LEMMA HopsKinds ==
  ASSUME FrameFacts, hops \in [Frames -> Nat], [HopNext]_hopVars
  PROVE  \/ UNCHANGED <<hand, at, hop, hops>>
         \/ \E d \in Devices : Own(d) /\ (~ForwardFrame(d) => UNCHANGED hops)
<1>1. CASE UNCHANGED <<hand, at, hop>>
  <2>1. \A d \in Devices : ~ForwardFrame(d)
    BY <1>1 DEF ForwardFrame, FrameFacts, FrameTypeOK
  <2> QED BY <1>1, <2>1, HopsAdvance
<1>2. ASSUME NEW d \in Devices, Own(d), ~ForwardFrame(d) PROVE UNCHANGED hops
  <2>1. \A e \in Devices : ForwardFrame(e) => hop[e] # NoHop /\ hop'[e] = NoHop
    BY DEF ForwardFrame, FrameFacts, FrameTypeOK
  <2>2. \A e \in Devices \ {d} : hop'[e] = hop[e]
    BY <1>2, OwnStep DEF OthersKeep
  <2> QED BY <1>2, <2>1, <2>2, HopsAdvance
<1>3. UNCHANGED <<hand, at, hop>> \/ \E d \in Devices : Own(d)
  BY DEF HopNext, hopVars, ForwardNext, Exchange, allVars, frameVars, Own,
         ClientConnects, ClientEnds, ConnectFails, ServerReads, SelectFails, AcceptFails
<1> QED BY <1>1, <1>2, <1>3

LEMMA OthersReach ==
  ASSUME FrameFacts, TypeOK', OneCopy, HopsInv, [HopNext]_hopVars,
         NEW d \in Devices, Own(d), ~ForwardFrame(d) => UNCHANGED hops
  PROVE  \A e \in Devices \ {d} : Held(e)' /\ Going(e)'
<1> SUFFICES ASSUME NEW e \in Devices \ {d} PROVE Held(e)' /\ Going(e)'
  OBVIOUS
<1>1. hand'[e] = hand[e] /\ at'[e] = at[e] /\ hop'[e] = hop[e]
  BY OwnStep DEF OthersKeep
<1>2. hops \in [Frames -> Nat] /\ Held(e) /\ Going(e)
  BY DEF HopsInv, HeldInReach, HopInReach
<1>3. [ForwardNext]_allVars
  BY DEF HopNext, hopVars
<1>4. ASSUME Carries(e, FrameOf(e)) PROVE hops'[FrameOf(e)] = hops[FrameOf(e)]
  <2>1. CASE ForwardFrame(d)
    <3>1. Carries(d, FrameOf(d)) /\ FrameOf(d) \in Frames
      BY <2>1, InHandType DEF ForwardFrame, FrameFacts, HopHasFrame, Carries
    <3>2. FrameOf(e) # FrameOf(d)
      BY <1>4, <3>1 DEF OneCopy, CarriedOnce
    <3>3. FrameOf(e) \in Frames
      BY <1>4, InHandType DEF Carries, FrameFacts
    <3> QED BY <1>2, <2>1, <3>2, <3>3, HopsAdvance
  <2> QED BY <2>1
<1> QED BY <1>1, <1>2, <1>3, <1>4, IdleReach

(* The device that picks a route, or the one that sends.                   *)
LEMMA PickInReach ==
  ASSUME OneNetwork, HopFacts, HopsInv, TypeOK', [HopNext]_hopVars,
         NEW d \in Devices, PickRoute(d), UNCHANGED hops
  PROVE  Held(d)' /\ Going(d)'
<1>1. /\ FrameFacts /\ NextHopCloser /\ GatewaylessAttached /\ ConfiguredRoutesKept
      /\ DistancesBounded
  BY DEF HopFacts, DeliveryInv, ForwardInv, DistancesInv, FrameFacts
<1>2. TypeOK /\ UniqueNets /\ FrameTypeOK
  BY <1>1 DEF FrameFacts
<1>3. Searching(d) /\ hand[d] # <<>> /\ hop[d] = NoHop
  BY DEF PickRoute, Searching
<1>4. PICK i \in MatchingRoutes(d) :
        hop' = [hop EXCEPT ![d] = HopFor(d, table[RouterOf[d]][i])]
  BY DEF PickRoute
<1> DEFINE f == FrameOf(d)
           to == HopFor(d, table[RouterOf[d]][i]).to
<1>5. f \in Frames /\ InHand(d) \in Connection /\ InHand(d).frame = f
  BY <1>2, <1>3, InHandType DEF FrameOf
<1>6. DstOf[f] # d
  BY <1>3 DEF HopsInv, OnlyOthersFrames, Searching
<1>7. /\ FrameOf(d)' = f
      /\ HopsLeft(f) \in Int /\ HopsLeft(FrameOf(d))' = HopsLeft(f)
  <2>1. FrameOf(d)' = f
    BY DEF PickRoute, FrameOf, InHand
  <2> QED BY <1>5, <2>1, HopsLeftType DEF HopsInv, HopsLeft, MaxHops
<1>8. HomeIn(d, DstOf[f], HopsLeft(f))
  <2>1. ~Passed(d)
    BY <1>1, <1>3, OnlyMatch
  <2>2. InReach(d, InHand(d))
    BY <1>3, <2>1 DEF HopsInv, HeldInReach, Held
  <2>3. CASE InHand(d).from = Client
    <3>1. HopsLeft(f) = MaxHops
      BY <1>5, <2>2, <2>3, HopsLeftType DEF InReach, HopsInv
    <3> QED BY <1>1, <1>2, <1>3, <3>1, MatchHome
  <2> QED BY <1>5, <2>2, <2>3 DEF InReach
<1>9. HopsLeft(f) >= 1 /\ HomeIn(to, DstOf[f], HopsLeft(f) - 1)
  BY <1>1, <1>2, <1>3, <1>6, <1>7, <1>8, NextHopHome
<1>10. hop'[d] = HopFor(d, table[RouterOf[d]][i]) /\ hop'[d] # NoHop
  BY <1>1, <1>2, <1>3, <1>4, HopForType, ConfigAssumption, FrameAssumption
  DEF FrameTypeOK, Hop, NoHop, Endpoints, ConfigAssumption, FrameAssumption
<1>11. ASSUME hop'[d].to \in Devices
       PROVE  HomeIn(hop[d].to, DstOf[FrameOf(d)], HopsLeft(FrameOf(d)) - 1)'
  <2>1. [ForwardNext]_allVars
    BY DEF HopNext, hopVars
  <2>2. HopsLeft(f) - 1 \in Int
    BY <1>7
  <2>3. HomeIn(hop'[d].to, DstOf[f], HopsLeft(f) - 1)
    BY <1>9, <1>10
  <2> HIDE DEF f, to
  <2> QED BY <1>2, <1>5, <1>7, <1>11, <2>1, <2>2, <2>3, HomeStays
<1>12. Held(d)'
  BY <1>10 DEF Held
<1>13. Going(d)'
  <2> HIDE DEF f, to
  <2> QED BY <1>7, <1>9, <1>11 DEF Going
<1> QED BY <1>12, <1>13

(* Whatever a device does, the frame in its hand is in reach.              *)
LEMMA OwnReach ==
  ASSUME OneNetwork, HopFacts, HopsInv, TypeOK', [HopNext]_hopVars,
         NEW d \in Devices, Own(d), ~ForwardFrame(d) => UNCHANGED hops
  PROVE  Held(d)' /\ Going(d)'
<1>1. /\ FrameFacts /\ HopPassed /\ TypeOK /\ FrameTypeOK /\ HopHasFrame
      /\ hops \in [Frames -> Nat] /\ [ForwardNext]_allVars
  BY DEF HopFacts, DeliveryInv, ForwardInv, DistancesInv, FrameFacts, HopsInv, HopNext, hopVars
<1>2. Held(d) /\ Going(d)
  BY DEF HopsInv, HeldInReach, HopInReach
<1>3. CASE PickRoute(d)
  <2>1. ~ForwardFrame(d)
    BY <1>3 DEF PickRoute, Searching, ForwardFrame
  <2> QED BY <1>3, <2>1, PickInReach
<1>4. CASE hand'[d] = <<>>
  <2>1. hop'[d] = NoHop
    BY <1>1, <1>4 DEF Own, Accept, Idle, Deliver, StartForwarding, RecvFails, PickRoute, CloseFrame,
                      ForwardFrame, Searching, Receiving, HopHasFrame, FrameTypeOK
  <2> QED BY <1>4, <2>1 DEF Held, Going
<1>5. CASE ForwardFrame(d)
  <2>1. Passed(d) /\ hop'[d] = NoHop /\ hand'[d] = hand[d] /\ at'[d] = at[d]
    BY <1>1, <1>5 DEF ForwardFrame, HopPassed, FrameTypeOK
  <2>2. Passed(d)'
    BY <1>1, <2>1, PassedStays
  <2> QED BY <2>1, <2>2 DEF Held, Going
<1>6. CASE Accept(d)
  <2>1. queue[d] \in Seq(Connection) /\ queue[d] # <<>> /\ hand[d] = <<>>
    BY <1>1, <1>6 DEF Accept, Idle, FrameTypeOK, Endpoints
  <2>2. hop[d] = NoHop /\ hop' = hop
    BY <1>1, <1>6, <2>1 DEF Accept, HopHasFrame
  <2>3. 1 \in DOMAIN queue[d] /\ queue[d][1] \in Connection
    BY <2>1
  <2>4. InHand(d)' = queue[d][1]
    BY <1>1, <1>6, <2>1 DEF Accept, InHand, FrameTypeOK
  <2>5. InReach(d, queue[d][1])
    BY <2>3 DEF HopsInv, QueuedInReach
  <2>6. UNCHANGED hops
    BY <2>2, <1>6 DEF ForwardFrame
  <2>7. InReach(d, InHand(d))'
    BY <1>1, <2>3, <2>4, <2>5, <2>6, InReachStays
  <2> QED BY <2>2, <2>7 DEF Held, Going
<1>7. CASE StartForwarding(d)
  <2>1. Receiving(d) /\ hand' = hand /\ hop' = hop /\ hand[d] # <<>> /\ at[d] = 0
    BY <1>7 DEF StartForwarding, Receiving
  <2>2. hop[d] = NoHop
    BY <1>1, <2>1 DEF HopHasFrame
  <2>3. ~Passed(d)
    BY <1>1, <2>1, <2>2, ReceiverCarries DEF Carries
  <2>4. InReach(d, InHand(d)) /\ InHand(d) \in Connection /\ UNCHANGED hops
    BY <1>1, <1>2, <2>1, <2>2, <2>3, InHandType DEF Held, ForwardFrame
  <2>5. InHand(d)' = InHand(d)
    BY <2>1 DEF InHand
  <2>6. InReach(d, InHand(d))'
    BY <1>1, <2>4, <2>5, InReachStays
  <2> QED BY <2>1, <2>2, <2>6 DEF Held, Going
<1>8. CASE RecvFails(d) /\ hand'[d] # <<>>
  <2>1. UNCHANGED <<hand, at, hop>> /\ UNCHANGED hops
    BY <1>1, <1>8 DEF RecvFails, Receiving, HopHasFrame, ForwardFrame, FrameTypeOK
  <2> QED BY <1>1, <1>2, <2>1, IdleReach
<1>9. CASE Deliver(d) \/ CloseFrame(d)
  <2>1. hand'[d] = <<>>
    BY <1>1, <1>9 DEF Deliver, CloseFrame, FrameTypeOK
  <2> QED BY <1>4, <2>1
<1> QED BY <1>3, <1>4, <1>5, <1>6, <1>7, <1>8, <1>9 DEF Own

(* What waits in the accept queues is in reach: what comes to a queue was  *)
(* about to be sent there, or comes from a client.                         *)
LEMMA QueuedReach ==
  ASSUME HopFacts, HopsInv, TypeOK', [HopNext]_hopVars
  PROVE  QueuedInReach'
<1>1. /\ FrameFacts /\ TypeOK /\ FrameTypeOK /\ HopHasFrame /\ OneCopy
      /\ hops \in [Frames -> Nat] /\ [ForwardNext]_allVars
  BY DEF HopFacts, DeliveryInv, ForwardInv, DistancesInv, FrameFacts, HopsInv, HopNext, hopVars
<1>2. \A e \in Devices : e \in Endpoints /\ queue[e] \in Seq(Connection)
  BY <1>1 DEF Endpoints, FrameTypeOK
<1>3. ASSUME NEW e \in Devices, NEW k \in DOMAIN queue'[e], NEW l \in DOMAIN queue[e],
             queue'[e][k] = queue[e][l],
             hops'[queue[e][l].frame] = hops[queue[e][l].frame]
      PROVE  InReach(e, queue[e][k])'
  <2>1. queue[e][l] \in Connection /\ InReach(e, queue[e][l])
    BY <1>2 DEF HopsInv, QueuedInReach
  <2> QED BY <1>1, <1>3, <2>1, InReachStays
<1>4. ASSUME NEW b \in Endpoints, queue[b] # <<>>, UNCHANGED hops,
             queue' = [queue EXCEPT ![b] = Tail(@)]
      PROVE  QueuedInReach'
  <2> SUFFICES ASSUME NEW e \in Devices, NEW k \in DOMAIN queue'[e]
               PROVE  InReach(e, queue[e][k])'
    BY DEF QueuedInReach
  <2>1. queue'[e] = IF e = b THEN Tail(queue[e]) ELSE queue[e]
    BY <1>1, <1>2, <1>4 DEF FrameTypeOK
  <2>2. \A j \in DOMAIN Tail(queue[e]) : e = b =>
          j + 1 \in DOMAIN queue[e] /\ Tail(queue[e])[j] = queue[e][j + 1]
    BY <1>2, <1>4
  <2>3. \E l \in DOMAIN queue[e] : queue'[e][k] = queue[e][l]
    BY <2>1, <2>2
  <2> QED BY <1>3, <1>4, <2>3
<1>5. ASSUME NEW b \in Endpoints, NEW c, queue' = [queue EXCEPT ![b] = Append(@, c)],
             NEW e \in Devices, NEW k \in DOMAIN queue'[e]
      PROVE  \/ k \in DOMAIN queue[e] /\ queue'[e][k] = queue[e][k]
             \/ e = b /\ queue'[e][k] = c
  <2>1. queue'[e] = IF e = b THEN Append(queue[e], c) ELSE queue[e]
    BY <1>1, <1>2, <1>5 DEF FrameTypeOK
  <2> QED BY <1>2, <2>1
<1>6. CASE (\A a \in Endpoints : queue'[a] \in {queue[a], <<>>}) /\ UNCHANGED hops
  <2> SUFFICES ASSUME NEW e \in Devices, NEW k \in DOMAIN queue'[e]
               PROVE  InReach(e, queue[e][k])'
    BY DEF QueuedInReach
  <2>1. k \in DOMAIN queue[e] /\ queue'[e] = queue[e]
    BY <1>2, <1>6
  <2> QED BY <1>3, <1>6, <2>1
<1>7. ASSUME NEW f \in Frames, ClientConnects(f), UNCHANGED hops PROVE QueuedInReach'
  <2> SUFFICES ASSUME NEW e \in Devices, NEW k \in DOMAIN queue'[e]
               PROVE  InReach(e, queue[e][k])'
    BY DEF QueuedInReach
  <2>1. Entry[f] \in Endpoints /\ hops[f] = 0
    BY <1>7, FrameAssumption DEF ClientConnects, FrameAssumption, Endpoints, HopsInv, Uncounted
  <2>2. CASE k \in DOMAIN queue[e] /\ queue'[e][k] = queue[e][k]
    BY <1>3, <1>7, <2>2
  <2>3. CASE queue'[e][k] = [frame |-> f, from |-> Client]
    BY <1>7, <2>1, <2>3 DEF InReach
  <2> QED BY <1>5, <1>7, <2>1, <2>2, <2>3 DEF ClientConnects
<1>8. ASSUME NEW d \in Devices, ForwardFrame(d) PROVE QueuedInReach'
  <2> SUFFICES ASSUME NEW e \in Devices, NEW k \in DOMAIN queue'[e]
               PROVE  InReach(e, queue[e][k])'
    BY DEF QueuedInReach
  <2> DEFINE g == FrameOf(d)
  <2>1. hop[d] # NoHop /\ hop[d].to \in Endpoints /\ g \in Frames /\ Carries(d, g)
    BY <1>1, <1>8, InHandType DEF ForwardFrame, HopHasFrame, FrameTypeOK, Hop, Carries
  <2>2. \A f \in Frames : hops'[f] = IF f = g THEN hops[f] + 1 ELSE hops[f]
    BY <1>1, <1>8, HopsAdvance
  <2>3. CASE k \in DOMAIN queue[e] /\ queue'[e][k] = queue[e][k]
    <3>1. queue[e][k].frame # g /\ queue[e][k].frame \in Frames
      <4> HIDE DEF g
      <4>1. queue[e][k] \in Connection /\ e \in Endpoints
        BY <1>2, <2>3
      <4>2. ~Waits(e, k, g)
        BY <1>1, <2>1, <2>3, <4>1 DEF OneCopy, WaitsOrCarried
      <4> QED BY <2>3, <4>1, <4>2 DEF Waits, Connection
    <3> QED BY <1>3, <2>2, <2>3, <3>1
  <2>4. CASE e = hop[d].to /\ queue'[e][k] = [frame |-> g, from |-> d]
    <3>1. HopsLeft(g) - 1 \in Int /\ HopsLeft(g) - 1 = MaxHops - hops'[g]
      <4> HIDE DEF g
      <4>1. MaxHops \in Nat /\ hops[g] \in Nat /\ HopsLeft(g) = MaxHops - hops[g]
        BY <1>1, <2>1, HopsLeftType
      <4>2. hops'[g] = hops[g] + 1
        BY <2>1, <2>2
      <4> QED BY <4>1, <4>2
    <3>2. HomeIn(e, DstOf[g], HopsLeft(g) - 1)
      BY <2>1, <2>4 DEF HopsInv, HopInReach, Going
    <3>3. d # Client
      BY FrameAssumption DEF FrameAssumption
    <3> HIDE DEF g
    <3>4. \A f \in Frames : \A j \in Int :
            HomeIn(e, DstOf[f], j) /\ j = MaxHops - hops'[f]
              => HomeIn(e, DstOf[f], MaxHops - hops[f])'
      BY <1>1, HomeStays DEF MaxHops
    <3>5. HomeIn(e, DstOf[queue[e][k].frame], MaxHops - hops[queue[e][k].frame])'
      BY <2>1, <2>4, <3>1, <3>2, <3>4
    <3> QED BY <2>4, <3>3, <3>5 DEF InReach, HopsLeft
  <2> HIDE DEF g
  <2>5. queue' = [queue EXCEPT ![hop[d].to] = Append(@, [frame |-> g, from |-> d])]
    BY <1>8 DEF ForwardFrame, g
  <2> QED BY <1>5, <2>1, <2>3, <2>4, <2>5
<1>9. CASE \A d \in Devices : ~ForwardFrame(d)
  <2>1. UNCHANGED hops
    BY <1>1, <1>9, HopsAdvance
  <2>2. ASSUME NEW d \in Devices, Accept(d) PROVE QueuedInReach'
    BY <1>2, <1>4, <2>1, <2>2 DEF Accept
  <2>3. ASSUME NEW h \in Hosts, ServerReads(h) PROVE QueuedInReach'
    BY <1>4, <2>1, <2>3 DEF ServerReads, Endpoints
  <2>4. ASSUME NEW d \in Devices, SelectFails(d) PROVE QueuedInReach'
    <3>1. \A a \in Endpoints : queue'[a] \in {queue[a], <<>>}
      BY <1>1, <2>4 DEF SelectFails, FrameTypeOK
    <3> QED BY <1>6, <2>1, <3>1
  <2>5. CASE UNCHANGED queue
    BY <1>6, <2>1, <2>5
  <2> QED BY <1>1, <1>7, <1>9, <2>1, <2>2, <2>3, <2>4, <2>5
          DEF ForwardNext, Exchange, allVars, frameVars, ClientEnds, AcceptFails, Deliver,
              StartForwarding, RecvFails, PickRoute, CloseFrame, ConnectFails
<1> QED BY <1>8, <1>9

(* The frames whose routes a device looks up are for others.               *)
LEMMA OthersFramesStay ==
  ASSUME FrameFacts, OnlyOthersFrames, [ForwardNext]_allVars
  PROVE  OnlyOthersFrames'
<1> SUFFICES ASSUME NEW e \in Devices, at'[e] > 0
             PROVE  hand'[e] # <<>> /\ DstOf[FrameOf(e)'] # e
  BY DEF OnlyOthersFrames
<1>1. FrameTypeOK /\ HopHasFrame
  BY DEF FrameFacts
<1>2. CASE hand'[e] = hand[e] /\ at'[e] = at[e]
  BY <1>2 DEF OnlyOthersFrames, FrameOf, InHand
<1>3. ASSUME Own(e) PROVE hand'[e] # <<>> /\ DstOf[FrameOf(e)'] # e
  <2>1. CASE Accept(e)
    <3>1. at'[e] = at[e] /\ hand[e] = <<>>
      BY <2>1 DEF Accept, Idle
    <3> QED BY <3>1 DEF OnlyOthersFrames
  <2>2. CASE Deliver(e) \/ RecvFails(e)
    BY <1>1, <2>2 DEF Deliver, RecvFails, Receiving
  <2>3. CASE StartForwarding(e)
    BY <2>3 DEF StartForwarding, Receiving, FrameOf, InHand
  <2>4. CASE PickRoute(e)
    BY <2>4 DEF PickRoute, Searching, OnlyOthersFrames, FrameOf, InHand
  <2>5. CASE CloseFrame(e)
    BY <1>1, <2>5 DEF CloseFrame, FrameTypeOK
  <2>6. CASE ForwardFrame(e)
    BY <1>2, <2>6 DEF ForwardFrame
  <2> QED BY <1>3, <2>1, <2>2, <2>3, <2>4, <2>5, <2>6 DEF Own
<1>4. ASSUME NEW d \in Devices, Own(d), d # e PROVE hand'[e] = hand[e] /\ at'[e] = at[e]
  BY <1>4, OwnStep DEF OthersKeep
<1>5. UNCHANGED <<hand, at>> \/ \E d \in Devices : Own(d)
  BY DEF ForwardNext, Exchange, allVars, frameVars, Own,
         ClientConnects, ClientEnds, ConnectFails, ServerReads, SelectFails, AcceptFails
<1> QED BY <1>2, <1>3, <1>4, <1>5

(* The hops of a frame are counted from its client's on, and a frame that  *)
(* is about to be sent has one left.                                       *)
LEMMA CountStays ==
  ASSUME HopFacts, HopsInv, [HopNext]_hopVars
  PROVE  hops' \in [Frames -> Nat] /\ HopsBounded' /\ Uncounted'
<1>1. /\ FrameFacts /\ FrameTypeOK /\ HopHasFrame /\ OneCopy
      /\ hops \in [Frames -> Nat] /\ [ForwardNext]_allVars
  BY DEF HopFacts, DeliveryInv, ForwardInv, DistancesInv, FrameFacts, HopsInv, HopNext, hopVars
<1>2. \A f \in Frames : client'[f] = "idle" => client[f] = "idle"
  BY <1>1 DEF ForwardNext, Exchange, allVars, frameVars, ClientConnects, ClientEnds, ConnectFails,
              ServerReads, SelectFails, AcceptFails, Accept, Deliver, StartForwarding, RecvFails,
              PickRoute, CloseFrame, ForwardFrame, FrameTypeOK
<1>3. CASE hops' = hops
  BY <1>1, <1>2, <1>3 DEF HopsInv, HopsBounded, MaxHops, Uncounted
<1>4. ASSUME NEW d \in Devices, ForwardFrame(d)
      PROVE  hops' \in [Frames -> Nat] /\ HopsBounded' /\ Uncounted'
  <2> DEFINE g == FrameOf(d)
  <2>1. hop[d] # NoHop /\ g \in Frames /\ Carries(d, g)
    BY <1>1, <1>4, InHandType DEF ForwardFrame, HopHasFrame, Carries
  <2>2. \A f \in Frames : hops'[f] = IF f = g THEN hops[f] + 1 ELSE hops[f]
    BY <1>1, <1>4, HopsAdvance
  <2>3. HopsLeft(g) >= 1
    BY <2>1 DEF HopsInv, HopInReach, Going
  <2>4. client[g] # "idle"
    BY <2>1 DEF HopFacts, DeliveryInv, OneCopy, NotYetUnderway, Underway
  <2> HIDE DEF g
  <2>5. MaxHops \in Nat /\ hops[g] \in Nat /\ HopsLeft(g) = MaxHops - hops[g]
    BY <1>1, <2>1, HopsLeftType
  <2>6. hops'[g] <= MaxHops
    BY <2>1, <2>2, <2>3, <2>5
  <2>7. HopsBounded'
    BY <2>2, <2>6 DEF HopsInv, HopsBounded, MaxHops
  <2>8. Uncounted'
    BY <1>2, <2>2, <2>4 DEF HopsInv, Uncounted
  <2>9. hops' = [f \in Frames |-> hops'[f]]
    BY DEF HopNext, hopVars, HopsInv
  <2>10. \A f \in Frames : hops'[f] \in Nat
    BY <1>1, <2>2
  <2> QED BY <2>7, <2>8, <2>9, <2>10
<1> QED BY <1>1, <1>3, <1>4, HopsAdvance

LEMMA HopsInvStays ==
  ASSUME OneNetwork, HopFacts, HopsInv, TypeOK', [HopNext]_hopVars
  PROVE  HopsInv'
<1>1. /\ FrameFacts /\ TypeOK /\ OneCopy
      /\ hops \in [Frames -> Nat] /\ [ForwardNext]_allVars
  BY DEF HopFacts, DeliveryInv, ForwardInv, DistancesInv, FrameFacts, HopsInv, HopNext, hopVars
<1>2. OnlyOthersFrames'
  BY <1>1, OthersFramesStay DEF HopsInv
<1>3. HeldInReach' /\ HopInReach'
  <2>1. CASE UNCHANGED <<hand, at, hop, hops>>
    <3> SUFFICES ASSUME NEW e \in Devices PROVE Held(e)' /\ Going(e)'
      BY DEF HeldInReach, HopInReach
    <3>1. Held(e) /\ Going(e)
      BY DEF HopsInv, HeldInReach, HopInReach
    <3> QED BY <1>1, <2>1, <3>1, IdleReach
  <2>2. ASSUME NEW d \in Devices, Own(d), ~ForwardFrame(d) => UNCHANGED hops
        PROVE  HeldInReach' /\ HopInReach'
    <3>1. \A e \in Devices \ {d} : Held(e)' /\ Going(e)'
      BY <1>1, <2>2, OthersReach
    <3>2. Held(d)' /\ Going(d)'
      BY <2>2, OwnReach
    <3> QED BY <3>1, <3>2 DEF HeldInReach, HopInReach
  <2> QED BY <1>1, <2>1, <2>2, HopsKinds
<1> QED BY <1>2, <1>3, CountStays, QueuedReach DEF HopsInv

LEMMA HopsInvInit == HopInit => HopsInv
<1> SUFFICES ASSUME HopInit PROVE HopsInv
  OBVIOUS
<1>1. MaxHops >= 0
  <2>1. Cardinality(Routers) \in Nat
    BY ConfigAssumption, FS_CardinalityType DEF ConfigAssumption
  <2> QED BY <2>1 DEF MaxHops
<1>2. hops = [f \in Frames |-> 0] /\ HopsBounded /\ Uncounted
  BY <1>1 DEF HopInit, HopsBounded, Uncounted
<1>3. OnlyOthersFrames /\ HeldInReach /\ HopInReach
  BY DEF HopInit, ForwardInit, OnlyOthersFrames, HeldInReach, Held, HopInReach, Going
<1>4. QueuedInReach
  BY DEF HopInit, ForwardInit, QueuedInReach, Endpoints
<1> QED BY <1>2, <1>3, <1>4 DEF HopsInv

(* No frame is passed on more than MaxHops times, although nothing in it   *)
(* counts, every device decides by a table of its own, and tables change   *)
(* between the reading of a gateway and the connection to it.              *)
THEOREM FramesComeHome ==
  ASSUME TablesFit, OneNetwork, Networked
  PROVE  HopSpec => []HopsBounded
<1>1. HopSpec => ForwardSpec
  <2>1. HopInit => ForwardInit
    BY DEF HopInit
  <2>2. [HopNext]_hopVars => [ForwardNext]_allVars
    BY DEF HopNext, hopVars
  <2> QED BY <2>1, <2>2, PTL DEF HopSpec, ForwardSpec
<1>2. ForwardSpec => []HopFacts
  <2>1. ForwardSpec => []DistancesBounded /\ []ConfiguredRoutesKept
    BY ForwardingIsExchanging, NoCountingUp, ConfiguredRoutesStay, PTL
  <2>2. DeliveryInv /\ DistancesBounded /\ ConfiguredRoutesKept => HopFacts
    BY DEF HopFacts
  <2> QED BY <2>1, <2>2, DeliveryInvHolds, PTL
<1>3. HopFacts => TypeOK
  BY DEF HopFacts, DeliveryInv, ForwardInv, DistancesInv
<1>4. HopFacts /\ HopsInv /\ TypeOK' /\ [HopNext]_hopVars => HopsInv'
  BY HopsInvStays
<1>5. HopsInv => HopsBounded
  BY DEF HopsInv
<1> QED BY <1>1, <1>2, <1>3, <1>4, <1>5, HopsInvInit, PTL DEF HopSpec

=============================================================================
