---------------------------- MODULE MCForwarding ----------------------------
(***************************************************************************)
(* Instances of Forwarding for TLC, on the topologies of MCRouteExchange.  *)
(***************************************************************************)
EXTENDS Forwarding, MCRouteExchange

(* The triangle, with a server on the network of R3 and R5; R5's table is  *)
(* configured with that network, R3's with its network with R2.            *)
ServerNet == "10.1.5.0/30"
Server == "10.1.5.3"
ServerHosts == {Server}
ServerConfig == [r \in Routers |->
  CASE r = "R5" -> Configured(<<ServerNet>>)
    [] r = "R3" -> Configured(<<"10.1.2.0/30">>)
    [] OTHER    -> <<>>]
ServerInNets == [a \in Devices \cup Hosts |->
                   IF a \in Devices THEN {NetOf[a]} ELSE {ServerNet}]
ConfiguredInterface == [r \in Routers |->
  [n \in {ConfigTable[r][i].net : i \in DOMAIN ConfigTable[r]} |->
     CHOOSE d \in Devices : RouterOf[d] = r /\ NetOf[d] = n]]

(* The device of R2 that frames of R3 may be forwarded to.                 *)
OnTheWay == {"10.1.2.1"}
NoDevices == {}

OneFrame == {"f1"}
TwoFrames == {"f1", "f2"}
ToServer == [f \in Frames |-> Server]
AtR3 == [f \in Frames |-> "10.1.5.2"]

(* R1 and R2 with the server on R1's loopback network, where nothing is    *)
(* broadcast.                                                              *)
LinkRouters == {"R1", "R2"}
LinkNetOf ==
  "127.0.0.1" :> "127.0.0.0/24" @@
  "10.1.1.2" :> "10.1.1.0/30" @@ "10.1.1.1" :> "10.1.1.0/30"
LinkRouterOf == "127.0.0.1" :> "R1" @@ "10.1.1.2" :> "R1" @@ "10.1.1.1" :> "R2"
LinkDevices == DOMAIN LinkNetOf
LinkNets == {"127.0.0.0/24", "10.1.1.0/30"}
LinkConfig == [r \in Routers |->
  IF r = "R1" THEN Configured(<<"127.0.0.0/24", "10.1.1.0/30">>) ELSE <<>>]
LinkStubConfig == [r \in Routers |->
  IF r = "R1" THEN Configured(<<"127.0.0.0/24">>) ELSE <<>>]
LocalServer == "127.0.0.2"
LocalHosts == {LocalServer}
LocalInNets == [a \in Devices \cup Hosts |->
  IF a \in Devices THEN {NetOf[a]} ELSE {"127.0.0.0/24"}]

(* One frame goes from R2 to the server, one from the link to R1's device  *)
(* on the server's network.                                                *)
ToR1sNetwork == [f \in Frames |-> IF f = "f1" THEN LocalServer ELSE "127.0.0.1"]
OverTheLink == [f \in Frames |-> IF f = "f1" THEN "10.1.1.1" ELSE "10.1.1.2"]

(* The device of R2, whose listener may end.                               *)
OnTheLink == {"10.1.1.1"}

(* Twice two frames that pass through R1 in opposite directions.           *)
FourFrames == {"to server 1", "to server 2", "to R2 1", "to R2 2"}
ToServerFrames == {"to server 1", "to server 2"}
ThroughR1 == [f \in Frames |-> IF f \in ToServerFrames THEN LocalServer ELSE "10.1.1.1"]
IntoR1 == [f \in Frames |-> IF f \in ToServerFrames THEN "10.1.1.2" ELSE "127.0.0.1"]

=============================================================================
