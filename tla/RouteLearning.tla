---------------------------- MODULE RouteLearning ----------------------------
(***************************************************************************)
(* What the exchange of routing tables promises, without tables, datagrams *)
(* or threads: a distributed shortest-path computation in which a router   *)
(* knows, for some networks, a distance and the next router on the way.    *)
(* It learns from a neighbour, one network at a time, and only what is     *)
(* better than what it knows and worse than what the neighbour knows.      *)
(***************************************************************************)
EXTENDS Naturals

CONSTANTS
  Routers, Nets,
  Attached,      (* router -> the networks it knows from the beginning     *)
  Neighbours     (* router -> the other routers it can hear                *)

VARIABLE best    (* router -> (network known -> its distance and next hop) *)

Init == best = [r \in Routers |-> [n \in Attached[r] |-> [distance |-> 1, hop |-> r]]]

(* Router r would rather use a way of length k to n than the one it knows. *)
Improves(r, n, k) == n \in DOMAIN best[r] => k < best[r][n].distance

(* Router r learns a way to n whose first hop is h.  The distance recorded *)
(* exceeds the one h knows of now: h may have found a shorter way since it *)
(* advertised the one that r learns.                                       *)
Learn(r, n, h) ==
  /\ n \in DOMAIN best'[r]
  /\ LET new == best'[r][n]
     IN  /\ Improves(r, n, new.distance)
         /\ new.distance \in Nat
         /\ new.distance > best[h][n].distance
         /\ new.hop = h
         /\ best' = [best EXCEPT ![r] =
                       [m \in DOMAIN best[r] \cup {n} |-> IF m = n THEN new ELSE best[r][m]]]

Next == \E r \in Routers : \E h \in Neighbours[r] : \E n \in DOMAIN best[h] : Learn(r, n, h)

Spec == Init /\ [][Next]_best

=============================================================================
