---------------------------- MODULE MCSharedTable ----------------------------
(***************************************************************************)
(* Instances of SharedTable for TLC: router R2 with one network attached   *)
(* and one learnt, and listeners that merge adverts of R3 and R5.          *)
(***************************************************************************)
EXTENDS SharedTable, TLC

RouteTo(n, g, k) == [net |-> n, passerelle |-> g, distance |-> k]

R2Table == <<RouteTo("10.1.2.0", "", 1), RouteTo("10.1.7.0", "10.1.2.2", 4)>>

(* One listener alone merges a new network, then a way to it that is       *)
(* shorter, one that is longer, its own network and more.                  *)
OneListener == {"eth1"}
OneAdvert == "eth1" :>
  <<RouteTo("10.1.5.0", "10.1.2.2", 3), RouteTo("10.1.7.0", "10.1.2.2", 3),
    RouteTo("10.1.5.0", "10.1.2.2", 2), RouteTo("10.1.2.0", "10.1.2.2", 2),
    RouteTo("10.1.6.0", "10.1.2.2", 3), RouteTo("10.1.7.0", "10.1.2.2", 3),
    RouteTo("172.16.180.0", "10.1.2.2", 4)>>

(* Two listeners hear of the same new network.                             *)
TwoListeners == {"eth1", "eth3"}
SameNetwork ==
  "eth1" :> <<RouteTo("10.1.5.0", "10.1.2.2", 2)>> @@
  "eth3" :> <<RouteTo("10.1.5.0", "10.1.4.2", 2)>>

OneBroadcaster == {"eth1 broadcast"}
NoBroadcasters == {}

(* A frame for a listed network whose route is shortened, or for one that  *)
(* is learnt meanwhile, or for an unknown one.                             *)
OneForwarder == {"eth2"}
FrameNetworks == {"10.1.7.0", "10.1.5.0", "10.1.9.0"}
NoForwarders == {}
NoNetworks == {}

=============================================================================
