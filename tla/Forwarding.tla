------------------------------ MODULE Forwarding ------------------------------
(***************************************************************************)
(* The whole of deviceThread: the exchange of routing tables and, in the   *)
(* same thread of every device, the forwarding of frames.                  *)
(*                                                                         *)
(* A client, or another device, connects to a device and sends one frame   *)
(* (a "tram": destination, origin, port, message).  The device delivers it *)
(* to itself or connects, for every route that matches the destination, to *)
(* the gateway of the route and sends it on.  While it waits in recv or in *)
(* connect it serves nobody else and merges no adverts.                    *)
(*                                                                         *)
(* Of a frame only its identity and its destination DstOf matter.  A       *)
(* connection waits in the accept queue of the address it was made to.  A  *)
(* route's interface field, left out of RouteExchange, is used for routes  *)
(* without gateway only, which are configured: InterfaceOf is what their   *)
(* configuration says.                                                     *)
(***************************************************************************)
EXTENDS RouteExchange

CONSTANTS
  Hosts,        (* addresses of servers                                    *)
  Frames,       (* the frames that clients send, one each                  *)
  DstOf,        (* the destination of a frame                              *)
  Entry,        (* the device the client of a frame connects to            *)
  InNets,       (* address -> networks that calculate_network_address      *)
                (* finds it in, with their masks                           *)
  InterfaceOf,  (* router -> (network -> the device configured for it)     *)
  Backlog,      (* connections an accept queue holds                       *)
  Fragile,      (* devices whose select or accept may fail                 *)
  Client        (* the peer of a connection that a client made             *)

Endpoints == Devices \cup Hosts

(* A connection in an accept queue, or accepted: its frame and who made it *)
Connection == [frame : Frames, from : Devices \cup {Client}]

(* The address and port a device connects to: the port all routers listen  *)
(* on or the one named in the frame, on which perhaps nobody listens.      *)
Hop == [to : Endpoints, port : {"router", "frame"}]
NoHop == [to |-> NoGateway, port |-> "none"]

ASSUME FrameAssumption ==
  /\ NoGateway \notin Hosts
  /\ Hosts \cap Devices = {}
  /\ Client \notin Devices
  /\ DstOf \in [Frames -> Endpoints]
  /\ Entry \in [Frames -> Devices]
  /\ InNets \in [Endpoints -> SUBSET Nets]
  /\ Backlog \in Nat
  /\ Fragile \subseteq Devices
  /\ \A r \in Routers : \A i \in DOMAIN ConfigTable[r] :
       /\ InterfaceOf[r][ConfigTable[r][i].net] \in Devices
       /\ RouterOf[InterfaceOf[r][ConfigTable[r][i].net]] = r

VARIABLES
  queue,     (* address -> connections nobody has accepted yet             *)
  socket,    (* device -> its TCP socket: served by its thread, unserved   *)
             (* because the thread has ended, or closed                    *)
  hand,      (* device -> <<>> or the connection it is serving             *)
  at,        (* device -> its place in the routing table; 0 while in recv  *)
  hop,       (* device -> where it connects to                             *)
  client,    (* frame -> what its client has done                          *)
  received   (* frame -> how often it has been delivered                   *)

frameVars == <<queue, socket, hand, at, hop, client, received>>
allVars == <<vars, frameVars>>

ForwardInit ==
  /\ Init
  /\ queue = [a \in Endpoints |-> <<>>]
  /\ socket = [d \in Devices |-> "served"]
  /\ hand = [d \in Devices |-> <<>>]
  /\ at = [d \in Devices |-> 0]
  /\ hop = [d \in Devices |-> NoHop]
  /\ client = [f \in Frames |-> "idle"]
  /\ received = [f \in Frames |-> 0]

-----------------------------------------------------------------------------
(* The client: connect, send, close.                                       *)

HasRoom(a) ==
  /\ Len(queue[a]) < Backlog
  /\ a \in Devices => socket[a] # "closed"

ClientConnects(f) ==
  /\ alive
  /\ client[f] = "idle"
  /\ HasRoom(Entry[f])
  /\ queue' = [queue EXCEPT ![Entry[f]] = Append(@, [frame |-> f, from |-> Client])]
  /\ client' = [client EXCEPT ![f] = "connected"]
  /\ UNCHANGED <<vars, socket, hand, at, hop, received>>

(* It sends the frame, or ends without having sent it.                     *)
ClientEnds(f, how) ==
  /\ client[f] = "connected"
  /\ client' = [client EXCEPT ![f] = how]
  /\ UNCHANGED <<vars, socket, queue, hand, at, hop, received>>

-----------------------------------------------------------------------------
(* The TCP half of the loop of deviceThread.                               *)

Idle(d) == todo[d] = <<>> /\ hand[d] = <<>>

Accept(d) ==
  /\ alive /\ socket[d] = "served"
  /\ Idle(d)
  /\ queue[d] # <<>>
  /\ hand' = [hand EXCEPT ![d] = <<Head(queue[d])>>]
  /\ queue' = [queue EXCEPT ![d] = Tail(@)]
  /\ UNCHANGED <<vars, socket, at, hop, client, received>>

(* select fails: the thread closes its sockets, which resets the waiting   *)
(* connections, and ends.  The device's broadcaster goes on.               *)
SelectFails(d) ==
  /\ alive /\ d \in Fragile /\ socket[d] = "served"
  /\ Idle(d)
  /\ socket' = [socket EXCEPT ![d] = "closed"]
  /\ queue' = [queue EXCEPT ![d] = <<>>]
  /\ UNCHANGED <<vars, hand, at, hop, client, received>>

(* accept fails: the thread ends, its sockets stay open.                   *)
AcceptFails(d) ==
  /\ alive /\ d \in Fragile /\ socket[d] = "served"
  /\ Idle(d) /\ queue[d] # <<>>
  /\ socket' = [socket EXCEPT ![d] = "unserved"]
  /\ UNCHANGED <<vars, queue, hand, at, hop, client, received>>

Receiving(d) == alive /\ hand[d] # <<>> /\ at[d] = 0
InHand(d) == hand[d][1]
FrameOf(d) == InHand(d).frame

(* A device that forwards sends as soon as it is connected.                *)
HasSent(c) == c.from = Client => client[c.frame] = "sent"

(* recv and buffer_to_tram; the frame may be for this device.              *)
Deliver(d) ==
  /\ Receiving(d)
  /\ HasSent(InHand(d))
  /\ DstOf[FrameOf(d)] = d
  /\ received' = [received EXCEPT ![FrameOf(d)] = @ + 1]
  /\ hand' = [hand EXCEPT ![d] = <<>>]
  /\ UNCHANGED <<vars, socket, queue, at, hop, client>>

StartForwarding(d) ==
  /\ Receiving(d)
  /\ HasSent(InHand(d))
  /\ DstOf[FrameOf(d)] # d
  /\ at' = [at EXCEPT ![d] = 1]
  /\ UNCHANGED <<vars, socket, queue, hand, hop, client, received>>

(* The client has ended without sending.  Either recv reports an error and *)
(* the device goes on, or it returns 0 characters: no destination is found *)
(* in them and strcmp of a null pointer ends the process.                  *)
RecvFails(d) ==
  /\ Receiving(d)
  /\ InHand(d).from = Client /\ client[FrameOf(d)] = "failed"
  /\ \/ hand' = [hand EXCEPT ![d] = <<>>] /\ UNCHANGED alive
     \/ alive' = FALSE /\ UNCHANGED hand
  /\ UNCHANGED <<table, inbox, todo, queue, socket, at, hop, client, received>>

(* Mutations of MatchingRoutes: the networks are not compared; the loop    *)
(* starts over.                                                            *)
AllRoutes(d) == {i \in DOMAIN table[RouterOf[d]] : i >= at[d]}
FromTheFirst(d) ==
  {i \in DOMAIN table[RouterOf[d]] :
     table[RouterOf[d]][i].net \in InNets[DstOf[FrameOf(d)]]}

(* The routes from the loop variable on that match the destination.  The   *)
(* loop looks at routes one by one, but their networks never change.       *)
MatchingRoutes(d) ==
  {i \in DOMAIN table[RouterOf[d]] :
     /\ i >= at[d]
     /\ table[RouterOf[d]][i].net \in InNets[DstOf[FrameOf(d)]]}

(* Mutations of HopFor: the empty gateway is not replaced; a device does   *)
(* not recognise its own address.                                          *)
EmptyGateway(d, route) ==
  IF route.passerelle = d THEN [to |-> DstOf[FrameOf(d)], port |-> "frame"]
                          ELSE [to |-> route.passerelle, port |-> "router"]
AlwaysGateway(d, route) ==
  [to   |-> IF route.passerelle = NoGateway
            THEN InterfaceOf[RouterOf[d]][route.net] ELSE route.passerelle,
   port |-> "router"]

(* Where a device connects to for a route: the gateway; without gateway,   *)
(* its router's own device on the network; and on that device, the         *)
(* destination itself.                                                     *)
HopFor(d, route) ==
  LET gateway == IF route.passerelle = NoGateway
                 THEN InterfaceOf[RouterOf[d]][route.net]
                 ELSE route.passerelle
  IN  IF gateway = d
      THEN [to |-> DstOf[FrameOf(d)], port |-> "frame"]
      ELSE [to |-> gateway, port |-> "router"]

Searching(d) == alive /\ hand[d] # <<>> /\ at[d] > 0 /\ hop[d] = NoHop

(* The next route that matches; its gateway is read once.                  *)
PickRoute(d) ==
  /\ Searching(d)
  /\ \E i \in MatchingRoutes(d) :
       /\ \A j \in MatchingRoutes(d) : i <= j
       /\ hop' = [hop EXCEPT ![d] = HopFor(d, table[RouterOf[d]][i])]
       /\ at' = [at EXCEPT ![d] = i + 1]
  /\ UNCHANGED <<vars, socket, queue, hand, client, received>>

(* No further route matches; without any the frame is dropped.             *)
CloseFrame(d) ==
  /\ Searching(d)
  /\ MatchingRoutes(d) = {}
  /\ hand' = [hand EXCEPT ![d] = <<>>]
  /\ at' = [at EXCEPT ![d] = 0]
  /\ UNCHANGED <<vars, socket, queue, hop, client, received>>

(* send_message_on_standard_socket: connect returns when there is room in  *)
(* the accept queue, then the frame is sent.                               *)
ForwardFrame(d) ==
  /\ alive
  /\ hop[d] # NoHop /\ HasRoom(hop[d].to)
  /\ queue' = [queue EXCEPT ![hop[d].to] = Append(@, [frame |-> FrameOf(d), from |-> d])]
  /\ hop' = [hop EXCEPT ![d] = NoHop]
  /\ UNCHANGED <<vars, socket, hand, at, client, received>>

(* connect is refused or gives up after a while, or send fails because the *)
(* peer has closed its sockets: exit(EXIT_FAILURE).                        *)
ConnectFails(d) ==
  /\ alive
  /\ hop[d] # NoHop
  /\ \/ hop[d].port = "frame"
     \/ ~HasRoom(hop[d].to)
  /\ alive' = FALSE
  /\ UNCHANGED <<table, inbox, todo, frameVars>>

(* start_server: accept, read, print.                                      *)
ServerReads(h) ==
  /\ alive
  /\ queue[h] # <<>>
  /\ received' = [received EXCEPT ![Head(queue[h]).frame] = @ + 1]
  /\ queue' = [queue EXCEPT ![h] = Tail(@)]
  /\ UNCHANGED <<vars, socket, hand, at, hop, client>>

-----------------------------------------------------------------------------

(* The UDP half runs when no frame is in hand.  What still comes to the    *)
(* socket of a thread that has ended is never read.                        *)
Exchange ==
  /\ \/ \E d \in Devices : \E got \in SUBSET Hearers(d) : Broadcast(d, got)
     \/ \E d \in Devices : SendFails(d)
     \/ \E d \in Devices : /\ Idle(d) /\ socket[d] = "served"
                           /\ Receive(d) \/ ReceiveFails(d)
     \/ \E d \in Devices : MergeRoute(d)
  /\ UNCHANGED frameVars

ForwardNext ==
  \/ Exchange
  \/ \E f \in Frames : ClientConnects(f)
  \/ \E f \in Frames : \E how \in {"sent", "failed"} : ClientEnds(f, how)
  \/ \E d \in Devices :
       \/ SelectFails(d) \/ AcceptFails(d)
       \/ Accept(d) \/ Deliver(d) \/ StartForwarding(d) \/ RecvFails(d)
       \/ PickRoute(d) \/ CloseFrame(d) \/ ForwardFrame(d) \/ ConnectFails(d)
  \/ \E h \in Hosts : ServerReads(h)
  \/ ~alive /\ UNCHANGED allVars

ForwardSpec == ForwardInit /\ [][ForwardNext]_allVars

(* Threads go on when they can.  Every turn of a device's loop serves a    *)
(* waiting connection, whatever adverts there are to merge; of the threads *)
(* that connect to a full queue one gets in whenever there is room again.  *)
(* A client's send follows its connect.                                    *)
ForwardFairness ==
  /\ \A d \in Devices :
       /\ WF_allVars(MergeRoute(d) /\ UNCHANGED frameVars)
       /\ SF_allVars(Accept(d))
       /\ WF_allVars(\/ Deliver(d) \/ StartForwarding(d) \/ RecvFails(d)
                     \/ PickRoute(d) \/ CloseFrame(d))
       /\ SF_allVars(ForwardFrame(d))
  /\ \A f \in Frames : WF_allVars(ClientEnds(f, "sent"))
  /\ \A h \in Hosts : WF_allVars(ServerReads(h))

FairForwardSpec == ForwardSpec /\ ForwardFairness

-----------------------------------------------------------------------------
(* Properties.                                                             *)

(* Type invariant.                                                         *)
FrameTypeOK ==
  /\ queue \in [Endpoints -> Seq(Connection)]
  /\ socket \in [Devices -> {"served", "unserved", "closed"}]
  /\ hand \in [Devices -> {<<>>} \cup {<<c>> : c \in Connection}]
  /\ at \in [Devices -> Nat]
  /\ hop \in [Devices -> Hop \cup {NoHop}]
  /\ client \in [Frames -> {"idle", "connected", "sent", "failed"}]
  /\ received \in [Frames -> Nat]

(* Device d is the destination of frame f or has a route for it.           *)
CanServe(d, f) ==
  \/ DstOf[f] = d
  \/ \E i \in DOMAIN table[RouterOf[d]] : table[RouterOf[d]][i].net \in InNets[DstOf[f]]

(* A frame is never dropped half way: every device that another one sends  *)
(* it to, or is about to, has a route for it, although the gateway was     *)
(* read from a table that changes meanwhile and the gateway's router may   *)
(* never have heard of the one that forwards.                              *)
FramesFindRoutes ==
  /\ \A d \in Devices : \A k \in DOMAIN queue[d] :
       queue[d][k].from # Client => CanServe(d, queue[d][k].frame)
  /\ \A d \in Devices :
       hand[d] # <<>> /\ InHand(d).from # Client => CanServe(d, FrameOf(d))
  /\ \A d \in Devices : hop[d].to \in Devices => CanServe(hop[d].to, FrameOf(d))

(* No frame is delivered twice, although the loop over the routes goes on  *)
(* after a match and the table grows under it.                             *)
DeliveredOnce == \A f \in Frames : received[f] <= 1

(* Device d waits for room in the accept queue of device e.                *)
WaitsFor(d, e) == hop[d].to = e /\ Len(queue[e]) >= Backlog

(* Devices never wait for each other in a circle.                          *)
NoCircularWait ==
  \A C \in (SUBSET Devices) \ {{}} : \E d \in C : \A e \in C : ~WaitsFor(d, e)

(* A client's frame that waits at a device whose router has a route for it *)
WaitsAtEntry(f) ==
  /\ client[f] = "sent"
  /\ CanServe(Entry[f], f)
  /\ \E k \in DOMAIN queue[Entry[f]] :
       queue[Entry[f]][k] = [frame |-> f, from |-> Client]

(* Such a frame is delivered as long as the process and its listeners      *)
(* live: no thread waits for ever to forward it.                           *)
FramesArrive ==
  \A f \in Frames :
    WaitsAtEntry(f) ~> \/ received[f] > 0 \/ ~alive
                       \/ \E d \in Devices : socket[d] # "served"

=============================================================================
