----------------------------- MODULE MergeInOrder -----------------------------
(***************************************************************************)
(* What the shared table of a router promises: the routes its listeners    *)
(* have heard of are merged one after the other, each in a single step and *)
(* those of one listener in the order of its datagrams.  RouteExchange     *)
(* takes this for granted.                                                 *)
(***************************************************************************)
EXTENDS RouteMerge

CONSTANTS
  Listeners,
  Before,    (* the table at the beginning                                 *)
  Offers     (* listener -> the routes it merges                           *)

VARIABLES
  table,
  todo       (* listener -> the routes it has not merged yet               *)

Init == table = Before /\ todo = Offers

Merge(l) ==
  /\ todo[l] # <<>>
  /\ table' = Merged(table, Head(todo[l]))
  /\ todo' = [todo EXCEPT ![l] = Tail(@)]

Next == \E l \in Listeners : Merge(l)

Spec == Init /\ [][Next]_<<table, todo>>

=============================================================================
