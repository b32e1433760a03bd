--------------------------- MODULE MCRouteExchange ---------------------------
(***************************************************************************)
(* Instances of RouteExchange for TLC, cut out of the deployed topology of *)
(* config/routers_config.yaml.  Addresses are written as there.            *)
(***************************************************************************)
EXTENDS RouteExchange, TLC

CONSTANT MaxInFlight   (* bound on datagrams received or waiting at a time *)

Configured(nets) ==
  [i \in DOMAIN nets |-> [net |-> nets[i], passerelle |-> NoGateway, distance |-> 1]]

(* R2, R3 and R5 form a triangle; only R5's route to the network of R6,    *)
(* 10.1.7.0/30, is configured, so that the three routers learn one network *)
(* along two ways each.                                                    *)
TriangleRouters == {"R2", "R3", "R5"}
TriangleNetOf ==
  "10.1.2.1" :> "10.1.2.0/30" @@ "10.1.2.2" :> "10.1.2.0/30" @@
  "10.1.5.2" :> "10.1.5.0/30" @@ "10.1.5.1" :> "10.1.5.0/30" @@
  "10.1.4.1" :> "10.1.4.0/30" @@ "10.1.4.2" :> "10.1.4.0/30"
TriangleRouterOf ==
  "10.1.2.1" :> "R2" @@ "10.1.4.1" :> "R2" @@ "10.1.2.2" :> "R3" @@
  "10.1.5.2" :> "R3" @@ "10.1.5.1" :> "R5" @@ "10.1.4.2" :> "R5"
TriangleDevices == DOMAIN TriangleNetOf
TriangleNets == {"10.1.2.0/30", "10.1.5.0/30", "10.1.4.0/30", "10.1.7.0/30"}
TriangleConfig == [r \in TriangleRouters |->
  IF r = "R5" THEN Configured(<<"10.1.7.0/30">>) ELSE <<>>]

(* R1 - R2 - R3 in a line; R1 also owns the loopback network.              *)
LineRouters == {"R1", "R2", "R3"}
LineNetOf ==
  "127.0.0.1" :> "127.0.0.0/24" @@
  "10.1.1.2" :> "10.1.1.0/30" @@ "10.1.1.1" :> "10.1.1.0/30" @@
  "10.1.2.1" :> "10.1.2.0/30" @@ "10.1.2.2" :> "10.1.2.0/30"
LineRouterOf ==
  "127.0.0.1" :> "R1" @@ "10.1.1.2" :> "R1" @@
  "10.1.1.1" :> "R2" @@ "10.1.2.1" :> "R2" @@ "10.1.2.2" :> "R3"
LineDevices == DOMAIN LineNetOf
LineNets == {"127.0.0.0/24", "10.1.1.0/30", "10.1.2.0/30"}
LineLoopback == {"127.0.0.0/24"}
LineConfig == [r \in LineRouters |->
  CASE r = "R1" -> Configured(<<"127.0.0.0/24", "10.1.1.0/30">>)
    [] r = "R2" -> Configured(<<"10.1.2.0/30", "10.1.1.0/30">>)
    [] r = "R3" -> Configured(<<"10.1.2.0/30">>)]
(* The same line when only R1's table lists a network.                     *)
LineStubConfig == [r \in LineRouters |->
  IF r = "R1" THEN Configured(<<"127.0.0.0/24">>) ELSE <<>>]

NoLoopback == {}

-----------------------------------------------------------------------------
(* Bounds and reference definitions.                                       *)

InFlight(d) == Len(inbox[d]) + (IF todo[d] = <<>> THEN 0 ELSE 1)

(* At most MaxInFlight datagrams are unprocessed at a time.                *)
FewInFlight ==
  \E S \in SUBSET Devices :
    /\ Cardinality(S) <= MaxInFlight
    /\ \A d \in Devices \ S : InFlight(d) = 0
    /\ \A d \in S : InFlight(d) <= 1 + MaxInFlight - Cardinality(S)

(* Within[k]: the (router, network) pairs at distance k or less, for the   *)
(* three routers of these topologies.                                      *)
Farther(pairs) ==
  pairs \cup {p \in Routers \X Nets :
                \E s \in Routers : Linked(p[1], s) /\ <<s, p[2]>> \in pairs}
Within ==
  LET attached == {p \in Routers \X Nets :
                     \E i \in DOMAIN ConfigTable[p[1]] : ConfigTable[p[1]][i].net = p[2]}
  IN  <<attached, Farther(attached), Farther(Farther(attached))>>

(* The distance of a shortest path; 4 when there is no path.               *)
ShortestDistance ==
  [r \in Routers |-> [n \in Nets |->
     CHOOSE k \in 1..4 : /\ k = 4 \/ <<r, n>> \in Within[k]
                         /\ \A j \in 1..3 : <<r, n>> \in Within[j] => k <= j]]

ASSUME ShortestIsLowerBound == IsLowerBound(ShortestDistance)

(* No route is ever shorter than a shortest path through the topology:     *)
(* what the routers tell each other may be out of date, never too good.    *)
NoShortcut == NoShorterThan(ShortestDistance)

(* Every router lists every network it can reach, at the shortest distance *)
AllShortest ==
  \A p \in Routers \X Nets :
    p \in Within[3]
      => \E i \in DOMAIN table[p[1]] : /\ table[p[1]][i].net = p[2]
                                       /\ table[p[1]][i].distance = ShortestDistance[p[1]][p[2]]

(* As long as the process lives, datagrams may be lost and delayed but the *)
(* tables end up, for good, with the shortest route to every network.      *)
Converges == []alive => <>[]AllShortest

=============================================================================
