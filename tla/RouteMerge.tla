------------------------------ MODULE RouteMerge ------------------------------
(***************************************************************************)
(* What updateRoutingTable makes of a table and one route.  A table is a   *)
(* sequence of routes, a route has a net, a passerelle and a distance.     *)
(***************************************************************************)
EXTENDS Integers, Sequences

(* The entry of a table the inner loop of updateRoutingTable stops at.     *)
Matches(routes, net) == {i \in DOMAIN routes : routes[i].net = net}
FirstMatch(routes, net) ==
  CHOOSE i \in Matches(routes, net) : \A j \in Matches(routes, net) : i <= j

(* Mutations of Merged: the latest advertisement wins; a network not       *)
(* listed is not added.                                                    *)
LatestWins(routes, new) ==
  IF Matches(routes, new.net) = {}
  THEN Append(routes, new)
  ELSE [routes EXCEPT ![FirstMatch(routes, new.net)] = new]
NeverAppends(routes, new) ==
  [i \in DOMAIN routes |-> IF routes[i].net = new.net /\ new.distance < routes[i].distance
                           THEN new ELSE routes[i]]

(* One iteration of updateRoutingTable: a network not listed is appended,  *)
(* a listed one is overwritten when the new route is strictly shorter.     *)
Merged(routes, new) ==
  IF Matches(routes, new.net) = {}
  THEN Append(routes, new)
  ELSE LET i == FirstMatch(routes, new.net)
       IN  IF new.distance < routes[i].distance
           THEN [routes EXCEPT ![i] = new]
           ELSE routes

=============================================================================
