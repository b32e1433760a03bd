---------------------------- MODULE RouteExchange ----------------------------
(***************************************************************************)
(* The exchange of routing tables between the simulated routers.           *)
(*                                                                         *)
(* Every interface ("device") of a router runs two threads of the single   *)
(* process: send_on_broadcast, which periodically broadcasts a copy of the *)
(* router's routing table on the device's network, and the UDP half of     *)
(* deviceThread, which receives such datagrams and merges them, route by   *)
(* route, into the table that all the threads of the router share.         *)
(*                                                                         *)
(* A device is identified with its IP address, a network with the pair     *)
(* (destination, mask) that updateRoutingTable compares.  Of a Route the   *)
(* fields net, passerelle (the gateway) and distance are kept; the field   *)
(* interface is only copied along here.  One iteration of the loops of     *)
(* updateRoutingTable, and one copy of the table, are single steps: what   *)
(* happens when they are not is the subject of module SharedTable.         *)
(***************************************************************************)
EXTENDS RouteMerge, FiniteSets

CONSTANTS
  Routers,      (* the routers of routers_config.yaml                      *)
  Devices,      (* their interfaces, each named by its IP address          *)
  Nets,         (* the networks, i.e. (destination, mask) pairs            *)
  NoGateway,    (* the empty passerelle of a configured route              *)
  RouterOf,     (* the router a device belongs to                          *)
  NetOf,        (* the network a device is attached to                     *)
  Loopback,     (* networks whose broadcast address is 127.0.0.255         *)
  ConfigTable,  (* the table each router reads from its routing_table.yaml *)
  FitRoutes,    (* complete routes that fit in MAX_BUFFER_SIZE characters  *)
  InboxSize     (* datagrams the receive buffer of a UDP socket holds      *)

Route == [net : Nets, passerelle : Devices \cup {NoGateway}, distance : Nat]

(* A datagram as its receiver reads it: the routes the YAML text parses to *)
(* or, when it does not parse, just the fact that it is unreadable.        *)
Datagram == [routes : Seq(Route), readable : BOOLEAN]

(* What the configuration files guarantee: a configured route leads to a   *)
(* network the router is attached to, so it has no gateway and distance 1, *)
(* and a table lists a network once.                                       *)
ASSUME ConfigAssumption ==
  /\ NoGateway \notin Devices
  /\ IsFiniteSet(Routers) /\ IsFiniteSet(Nets)
  /\ RouterOf \in [Devices -> Routers]
  /\ NetOf \in [Devices -> Nets]
  /\ ConfigTable \in [Routers -> Seq(Route)]
  /\ \A r \in Routers : \A i \in DOMAIN ConfigTable[r] :
       /\ ConfigTable[r][i].passerelle = NoGateway
       /\ ConfigTable[r][i].distance = 1
       /\ \A j \in DOMAIN ConfigTable[r] :
            ConfigTable[r][i].net = ConfigTable[r][j].net => i = j
  /\ FitRoutes \in Nat
  /\ InboxSize \in Nat

VARIABLES
  table,   (* router -> its routing table, a sequence of routes            *)
  inbox,   (* device -> datagrams waiting in its UDP socket                *)
  todo,    (* device -> routes of the current datagram not yet merged      *)
  alive    (* FALSE once some thread called exit() or crashed the process  *)

vars == <<table, inbox, todo, alive>>

-----------------------------------------------------------------------------
(* Init: initRoutingTable has read every table, every socket is bound.     *)

Init ==
  /\ table = ConfigTable
  /\ inbox = [d \in Devices |-> <<>>]
  /\ todo  = [d \in Devices |-> <<>>]
  /\ alive = TRUE

-----------------------------------------------------------------------------
(* Sending: copy_routing_table, fill_empty_gateways, then the text buffer. *)

(* Mutation of FillEmptyGateways: it fills only the gateways that are empty*)
FillOnlyEmpty(routes, d) ==
  [i \in DOMAIN routes |-> IF routes[i].passerelle = NoGateway
                           THEN [routes[i] EXCEPT !.passerelle = d] ELSE routes[i]]

(* Every route of the copy gets the sender as its gateway, whether its     *)
(* passerelle was empty or not.                                            *)
FillEmptyGateways(routes, d) ==
  [i \in DOMAIN routes |-> [routes[i] EXCEPT !.passerelle = d]]

Advert(d) == FillEmptyGateways(table[RouterOf[d]], d)

(* routing_table_to_buffer cuts the text at MAX_BUFFER_SIZE - 1 characters,*)
(* somewhere in the route after the last one that fits.                    *)
Text(routes) ==
  IF Len(routes) <= FitRoutes
  THEN [whole |-> routes, cut |-> {}]
  ELSE [whole |-> SubSeq(routes, 1, FitRoutes), cut |-> {routes[FitRoutes + 1]}]

(* What parse_yaml_file_to_routing_table may read in a text.  Where the    *)
(* cut falls depends on the lengths of the addresses: nothing of the cut   *)
(* route may be left; only its distance may be missing, then it is 0, or   *)
(* have lost its last digit; or the text does not parse, or leaves fields  *)
(* null or uninitialised, which all end the process of the receiver.       *)
Parsed(text) ==
  {[routes |-> text.whole, readable |-> TRUE]}
  \cup {[routes |-> <<>>, readable |-> FALSE] : next \in text.cut}
  \cup {[routes   |-> Append(text.whole, [next EXCEPT !.distance = 0]),
         readable |-> TRUE] : next \in text.cut}
  \cup {[routes   |-> Append(text.whole, [next EXCEPT !.distance = @ \div 10]),
         readable |-> TRUE] : next \in text.cut}

Buffers(routes) == Parsed(Text(routes))

(* Every socket bound to the broadcast address gets a copy, those of the   *)
(* sender's own router included.                                           *)
Hearers(d) == {e \in Devices : NetOf[e] = NetOf[d]}

Room(e) == Len(inbox[e]) < InboxSize

(* One turn of send_on_broadcast on device d.  broadcast_send_message does *)
(* nothing for 127.0.0.255; "got" are the sockets the datagram reaches, if *)
(* they have room for it.                                                  *)
Broadcast(d, got) ==
  /\ alive
  /\ NetOf[d] \notin Loopback
  /\ \E buf \in Buffers(Advert(d)) :
       inbox' = [e \in Devices |-> IF e \in got /\ Room(e)
                                   THEN Append(inbox[e], buf)
                                   ELSE inbox[e]]
  /\ UNCHANGED <<table, todo, alive>>

(* sendto reports an error: exit(EXIT_FAILURE) ends all the routers.       *)
SendFails(d) ==
  /\ alive
  /\ NetOf[d] \notin Loopback
  /\ alive' = FALSE
  /\ UNCHANGED <<table, inbox, todo>>

-----------------------------------------------------------------------------
(* Receiving: the UDP half of the loop of deviceThread.                    *)

(* recvfrom and the parser: an unreadable datagram ends the process.       *)
Receive(d) ==
  /\ alive
  /\ todo[d] = <<>>
  /\ inbox[d] # <<>>
  /\ inbox' = [inbox EXCEPT ![d] = Tail(@)]
  /\ todo'  = [todo EXCEPT ![d] = Head(inbox[d]).routes]
  /\ alive' = Head(inbox[d]).readable
  /\ UNCHANGED table

(* recvfrom or fmemopen fails: exit(EXIT_FAILURE).                         *)
ReceiveFails(d) ==
  /\ alive
  /\ todo[d] = <<>>
  /\ inbox[d] # <<>>
  /\ alive' = FALSE
  /\ UNCHANGED <<table, inbox, todo>>

(* Mutations of Incremented: no increment, or the wrong direction.         *)
NotIncremented(route) == route
Decremented(route) == [route EXCEPT !.distance = @ - 1]

Incremented(route) == [route EXCEPT !.distance = @ + 1]

(* One iteration of the outer loop of updateRoutingTable.  The code        *)
(* searches, compares and writes without a lock, so that one iteration is  *)
(* a step only as long as the listeners of a router do not run it at the   *)
(* same time: SharedTable takes the accesses one by one, and shows what    *)
(* two listeners do to each other (run twice).                             *)
MergeRoute(d) ==
  /\ alive
  /\ todo[d] # <<>>
  /\ table' = [table EXCEPT ![RouterOf[d]] =
                 Merged(@, Incremented(Head(todo[d])))]
  /\ todo'  = [todo EXCEPT ![d] = Tail(@)]
  /\ UNCHANGED <<inbox, alive>>

-----------------------------------------------------------------------------

(* After exit() nothing moves any more.                                    *)
Ended == ~alive /\ UNCHANGED vars

Next ==
  \/ \E d \in Devices : \E got \in SUBSET Hearers(d) : Broadcast(d, got)
  \/ \E d \in Devices : SendFails(d)
  \/ \E d \in Devices : Receive(d)
  \/ \E d \in Devices : ReceiveFails(d)
  \/ \E d \in Devices : MergeRoute(d)
  \/ Ended

Spec == Init /\ [][Next]_vars

(* A broadcaster never stops (it sleeps INTERVAL seconds and starts over)  *)
(* and a socket that has room again and again is reached in the end; a     *)
(* listener that can go on goes on.                                        *)
Fairness ==
  /\ \A d \in Devices : \A e \in Hearers(d) :
       SF_vars(Room(e) /\ \E got \in SUBSET Hearers(d) :
                            e \in got /\ Broadcast(d, got))
  /\ \A d \in Devices : WF_vars(Receive(d)) /\ WF_vars(MergeRoute(d))

FairSpec == Spec /\ Fairness

-----------------------------------------------------------------------------
(* Properties.                                                             *)

(* Type invariant.                                                         *)
TypeOK ==
  /\ table \in [Routers -> Seq(Route)]
  /\ inbox \in [Devices -> Seq(Datagram)]
  /\ todo \in [Devices -> Seq(Route)]
  /\ alive \in BOOLEAN

(* The routes read from routing_table.yaml stay where they were, without   *)
(* gateway: no advertisement, not even a truncated one, replaces the route *)
(* to an attached network.                                                 *)
ConfiguredRoutesKept ==
  \A r \in Routers : \A i \in DOMAIN ConfigTable[r] :
    i \in DOMAIN table[r] /\ table[r][i] = ConfigTable[r][i]

(* The merge of one route, complete or cut, never withdraws a route, never *)
(* moves it in the table and never makes it longer.  It is said of merges  *)
(* one at a time, as MergeRoute takes them.                                *)
RoutesOnlyImprove ==
  [][\A r \in Routers : \A i \in DOMAIN table[r] :
       /\ i \in DOMAIN table'[r]
       /\ table'[r][i].net = table[r][i].net
       /\ table'[r][i].distance <= table[r][i].distance]_table

(* The networks router r lists.                                            *)
Listed(r) == {table[r][i].net : i \in DOMAIN table[r]}

(* However adverts are cut, late or lost, the gateway of a learnt route    *)
(* can be reached from its owner and its router lists the network too: the *)
(* next hop may be farther from the network than the distance promises, or *)
(* be the owner itself, but never one that would drop the frame            *)
(* (fill_empty_gateways, updateRoutingTable one route at a time).          *)
GatewayServes ==
  \A r \in Routers : \A i \in DOMAIN table[r] :
    LET g == table[r][i].passerelle
    IN  g # NoGateway =>
          /\ \E d \in Devices : RouterOf[d] = r /\ NetOf[d] = NetOf[g]
          /\ table[r][i].net \in Listed(RouterOf[g])

(* All routes of all the networks fit in one datagram.                     *)
TablesFit == Cardinality(Nets) <= FitRoutes

(* Router r lists network n at distance k or less.                         *)
KnowsWithin(r, n, k) ==
  \E i \in DOMAIN table[r] : table[r][i].net = n /\ table[r][i].distance <= k

(* The router behind the gateway of a route is strictly closer to the      *)
(* network than the route's owner, at every moment: datagrams in flight    *)
(* are out of date, but only in the safe direction.                        *)
NextHopCloser ==
  \A r \in Routers : \A i \in DOMAIN table[r] :
    LET route == table[r][i]
    IN  route.passerelle # NoGateway
          => KnowsWithin(RouterOf[route.passerelle], route.net, route.distance - 1)

(* Router r sends what is for network n to a gateway of router s.          *)
HopsTo(r, n, s) ==
  \E i \in DOMAIN table[r] :
    /\ table[r][i].net = n
    /\ table[r][i].passerelle # NoGateway
    /\ RouterOf[table[r][i].passerelle] = s

(* No set of routers forwards a network's frames round and round: in every *)
(* non-empty set one member does not hand them to a member.                *)
NoForwardingLoop ==
  \A n \in Nets : \A C \in (SUBSET Routers) \ {{}} :
    \E r \in C : \A s \in C : ~HopsTo(r, n, s)

(* The gateway of a route is the device of another router on a network the *)
(* owner is attached to and hears, so that connect() in the forwarding     *)
(* code can reach it.                                                      *)
GatewayOnLink ==
  \A r \in Routers : \A i \in DOMAIN table[r] :
    LET g == table[r][i].passerelle
    IN  g # NoGateway =>
          /\ RouterOf[g] # r
          /\ NetOf[g] \notin Loopback
          /\ \E d \in Devices : RouterOf[d] = r /\ NetOf[d] = NetOf[g]

(* What device e may hear of: a route through a device on e's network to a *)
(* network that the router of that device knows at that distance or less.  *)
Sound(route, e) ==
  /\ route.passerelle \in Devices
  /\ NetOf[route.passerelle] = NetOf[e]
  /\ NetOf[e] \notin Loopback
  /\ KnowsWithin(RouterOf[route.passerelle], route.net, route.distance)

AllSound(routes, e) == \A i \in DOMAIN routes : Sound(routes[i], e)

(* Whatever waits in a socket or is being merged is readable, comes from   *)
(* the network of the device and is, however old, not too good to be true. *)
OffersSound ==
  \A e \in Devices :
    /\ AllSound(todo[e], e)
    /\ \A k \in DOMAIN inbox[e] :
         inbox[e][k].readable /\ AllSound(inbox[e][k].routes, e)

(* Distances do not count up: with n routers none exceeds n.               *)
DistancesBounded ==
  \A r \in Routers : \A i \in DOMAIN table[r] :
    table[r][i].distance <= Cardinality(Routers)

(* Routers with a device each on a common network that carries broadcasts. *)
Linked(r, s) ==
  \E d, e \in Devices : /\ RouterOf[d] = r /\ RouterOf[e] = s
                        /\ NetOf[d] = NetOf[e] /\ NetOf[d] \notin Loopback

(* h underestimates the distances the topology allows.                     *)
IsLowerBound(h) ==
  /\ h \in [Routers -> [Nets -> Nat]]
  /\ \A r \in Routers : \A i \in DOMAIN ConfigTable[r] :
       h[r][ConfigTable[r][i].net] <= 1
  /\ \A r, s \in Routers : \A n \in Nets :
       Linked(r, s) => h[r][n] <= h[s][n] + 1

(* No route is shorter than a lower bound h.                               *)
NoShorterThan(h) ==
  \A r \in Routers : \A i \in DOMAIN table[r] :
    h[r][table[r][i].net] <= table[r][i].distance

-----------------------------------------------------------------------------
(* The distributed shortest-path computation the exchange amounts to.      *)

AsLearnt(r, route) ==
  [distance |-> route.distance,
   hop      |-> IF route.passerelle = NoGateway THEN r ELSE RouterOf[route.passerelle]]

Best ==
  [r \in Routers |->
     [n \in Listed(r) |-> AsLearnt(r, table[r][FirstMatch(table[r], n)])]]

ConfiguredNets ==
  [r \in Routers |-> {ConfigTable[r][i].net : i \in DOMAIN ConfigTable[r]}]

Neighbours == [r \in Routers |-> {s \in Routers \ {r} : Linked(r, s)}]

Learning == INSTANCE RouteLearning WITH Attached <- ConfiguredNets, best <- Best

(* Copying, cutting into datagrams, losing, delaying and merging them one  *)
(* route at a time refine RouteLearning: a merged route is one learnt from *)
(* a neighbour that knows a strictly shorter way, or nothing happens.      *)
ImplementsRouteLearning == Learning!Spec

=============================================================================
