------------------------- MODULE RouteExchangeProofs -------------------------
(***************************************************************************)
(* Theorems about module RouteExchange.                                    *)
(*                                                                         *)
(* The first part needs nothing but ConfigAssumption: it holds also when   *)
(* the tables outgrow a datagram.  The second part assumes TablesFit.      *)
(***************************************************************************)
EXTENDS RouteExchange, TLAPS, FiniteSetTheorems, SequenceTheorems, WellFoundedInduction

-----------------------------------------------------------------------------
(* Facts about the operators of updateRoutingTable.                        *)

(* The search of updateRoutingTable returns an entry for the network if    *)
(* there is one, the first.                                                *)
LEMMA FirstMatchIsMatch ==
  ASSUME NEW routes \in Seq(Route), NEW net, Matches(routes, net) # {}
  PROVE  FirstMatch(routes, net) \in Matches(routes, net)
<1>1. Matches(routes, net) \subseteq Nat
  BY DEF Matches
<1>2. IsWellFoundedOn(OpToRel(<, Nat), Nat)
  BY NatLessThanWellFounded
<1>3. PICK i \in Matches(routes, net) :
         \A j \in Matches(routes, net) : ~ (<<j, i>> \in OpToRel(<, Nat))
  BY <1>1, <1>2, WFMin
<1>4. \A j \in Matches(routes, net) : i <= j
  <2> SUFFICES ASSUME NEW j \in Matches(routes, net) PROVE i <= j
    OBVIOUS
  <2>1. ~ (<<j, i>> \in OpToRel(<, Nat))
    BY <1>3
  <2>2. ~ (j < i)
    BY <2>1, <1>1 DEF OpToRel
  <2> QED BY <2>2, <1>1
<1> QED
  BY <1>3, <1>4 DEF FirstMatch

(* updateRoutingTable keeps a table well-formed.                           *)
LEMMA MergedType ==
  ASSUME NEW routes \in Seq(Route), NEW new \in Route
  PROVE  Merged(routes, new) \in Seq(Route)
<1>1. CASE Matches(routes, new.net) = {}
  BY <1>1 DEF Merged
<1>2. CASE Matches(routes, new.net) # {}
  <2>1. FirstMatch(routes, new.net) \in DOMAIN routes
    BY <1>2, FirstMatchIsMatch DEF Matches
  <2> QED BY <2>1, <1>2 DEF Merged
<1> QED BY <1>1, <1>2

(* No entry is lost or moved, and none gets longer.                        *)
LEMMA MergedKeeps ==
  ASSUME NEW routes \in Seq(Route), NEW new \in Route, NEW i \in DOMAIN routes
  PROVE  /\ i \in DOMAIN Merged(routes, new)
         /\ Merged(routes, new)[i].net = routes[i].net
         /\ Merged(routes, new)[i].distance <= routes[i].distance
         /\ routes[i].distance <= new.distance => Merged(routes, new)[i] = routes[i]
<1>1. CASE Matches(routes, new.net) = {}
  <2>1. Merged(routes, new) = Append(routes, new)
    BY <1>1 DEF Merged
  <2>2. routes[i] \in Route
    OBVIOUS
  <2>3. routes[i].distance \in Nat
    BY <2>2 DEF Route
  <2> QED BY <2>1, <2>3
<1>2. CASE Matches(routes, new.net) # {}
  <2> DEFINE k == FirstMatch(routes, new.net)
  <2>1. k \in DOMAIN routes /\ routes[k].net = new.net
    BY <1>2, FirstMatchIsMatch DEF Matches
  <2>2. routes[i] \in Route /\ routes[k] \in Route
    BY <2>1
  <2>3. routes[i].distance \in Nat /\ new.distance \in Nat /\ routes[k].distance \in Nat
    BY <2>2 DEF Route
  <2>4. Merged(routes, new) = IF new.distance < routes[k].distance
                              THEN [routes EXCEPT ![k] = new] ELSE routes
    BY <1>2 DEF Merged
  <2> QED BY <2>1, <2>3, <2>4
<1> QED BY <1>1, <1>2

(* A table that lists no network twice still lists none twice.             *)
LEMMA MergedUnique ==
  ASSUME NEW routes \in Seq(Route), NEW new \in Route,
         \A i, j \in DOMAIN routes : routes[i].net = routes[j].net => i = j,
         NEW i \in DOMAIN Merged(routes, new), NEW j \in DOMAIN Merged(routes, new),
         Merged(routes, new)[i].net = Merged(routes, new)[j].net
  PROVE  i = j
<1>1. CASE Matches(routes, new.net) = {}
  <2>1. \A k \in DOMAIN routes : routes[k].net # new.net
    BY <1>1 DEF Matches
  <2>2. Merged(routes, new) = Append(routes, new)
    BY <1>1 DEF Merged
  <2> QED BY <2>1, <2>2
<1>2. CASE Matches(routes, new.net) # {}
  <2> DEFINE k == FirstMatch(routes, new.net)
  <2>1. k \in DOMAIN routes /\ routes[k].net = new.net
    BY <1>2, FirstMatchIsMatch DEF Matches
  <2>2. Merged(routes, new) = IF new.distance < routes[k].distance
                              THEN [routes EXCEPT ![k] = new] ELSE routes
    BY <1>2 DEF Merged
  <2> QED BY <2>1, <2>2
<1> QED BY <1>1, <1>2

-----------------------------------------------------------------------------
(* Type correctness.                                                       *)

(* What arrives is a sequence of routes whatever the cut leaves of it.     *)
LEMMA BuffersType ==
  ASSUME NEW routes \in Seq(Route), NEW buf \in Buffers(routes)
  PROVE  buf \in Datagram
<1>1. FitRoutes \in Nat
  BY ConfigAssumption DEF ConfigAssumption
<1>2. CASE Len(routes) <= FitRoutes
  <2>1. buf = [routes |-> routes, readable |-> TRUE]
    BY <1>2 DEF Buffers, Parsed, Text
  <2> QED BY <2>1 DEF Datagram
<1>3. CASE ~ (Len(routes) <= FitRoutes)
  <2> DEFINE whole == SubSeq(routes, 1, FitRoutes)
             next  == routes[FitRoutes + 1]
             zero  == [next EXCEPT !.distance = 0]
             short == [next EXCEPT !.distance = @ \div 10]
  <2>1. whole \in Seq(Route) /\ next \in Route
    BY <1>1, <1>3
  <2>2. zero \in Route /\ short \in Route
    <3>1. next.distance \div 10 \in Nat
      BY <2>1 DEF Route
    <3>2. \A k \in Nat : [next EXCEPT !.distance = k] \in Route
      BY <2>1 DEF Route
    <3> QED BY <3>1, <3>2
  <2>3. buf \in {[routes |-> whole, readable |-> TRUE],
                [routes |-> <<>>, readable |-> FALSE],
                [routes |-> Append(whole, zero), readable |-> TRUE],
                [routes |-> Append(whole, short), readable |-> TRUE]}
    BY <1>3 DEF Buffers, Parsed, Text
  <2> HIDE DEF whole, zero, short
  <2>4. Append(whole, zero) \in Seq(Route) /\ Append(whole, short) \in Seq(Route)
    BY <2>1, <2>2
  <2>5. \A rs \in Seq(Route) : \A b \in BOOLEAN : [routes |-> rs, readable |-> b] \in Datagram
    BY DEF Datagram
  <2>6. <<>> \in Seq(Route)
    OBVIOUS
  <2> QED BY <2>1, <2>3, <2>4, <2>5, <2>6
<1> QED BY <1>2, <1>3

(* Filling the gateways of a copy changes neither its length nor its       *)
(* networks and distances.                                                 *)
LEMMA FilledRoutes ==
  ASSUME NEW routes \in Seq(Route), NEW d \in Devices
  PROVE  /\ FillEmptyGateways(routes, d) \in Seq(Route)
         /\ Len(FillEmptyGateways(routes, d)) = Len(routes)
         /\ \A i \in DOMAIN routes :
              /\ FillEmptyGateways(routes, d)[i].net = routes[i].net
              /\ FillEmptyGateways(routes, d)[i].distance = routes[i].distance
              /\ FillEmptyGateways(routes, d)[i].passerelle = d
<1>1. \A i \in 1 .. Len(routes) : routes[i] \in Route
  OBVIOUS
<1>2. \A i \in 1 .. Len(routes) : [routes[i] EXCEPT !.passerelle = d] \in Route
  BY <1>1 DEF Route
<1>3. \A i \in 1 .. Len(routes) :
        /\ [routes[i] EXCEPT !.passerelle = d].net = routes[i].net
        /\ [routes[i] EXCEPT !.passerelle = d].distance = routes[i].distance
        /\ [routes[i] EXCEPT !.passerelle = d].passerelle = d
  BY <1>1 DEF Route
<1>4. DOMAIN routes = 1 .. Len(routes) /\ Len(routes) \in Nat
  OBVIOUS
<1> DEFINE filled == [i \in 1 .. Len(routes) |-> [routes[i] EXCEPT !.passerelle = d]]
<1>5. filled \in Seq(Route)
  BY <1>2, <1>4
<1>6. Len(filled) = Len(routes)
  BY <1>4
<1>7. FillEmptyGateways(routes, d) = filled
  BY <1>4 DEF FillEmptyGateways
<1>8. \A i \in 1 .. Len(routes) : filled[i] = [routes[i] EXCEPT !.passerelle = d]
  OBVIOUS
<1> HIDE DEF filled
<1> QED
  BY <1>3, <1>4, <1>5, <1>6, <1>7, <1>8

(* The route the listener merges: one hop further than advertised.         *)
LEMMA IncrementedType ==
  ASSUME NEW route \in Route
  PROVE  /\ Incremented(route) \in Route
         /\ Incremented(route).net = route.net
         /\ Incremented(route).passerelle = route.passerelle
         /\ Incremented(route).distance = route.distance + 1
         /\ route.distance \in Nat
BY DEF Incremented, Route

(* No step spoils the types.                                              *)
LEMMA TypeStays ==
  ASSUME TypeOK, [Next]_vars
  PROVE  TypeOK'
<1> USE DEF TypeOK
<1>1. ASSUME NEW d \in Devices, NEW got \in SUBSET Hearers(d), Broadcast(d, got)
      PROVE  TypeOK'
  <2>1. PICK buf \in Buffers(Advert(d)) :
          inbox' = [e \in Devices |-> IF e \in got /\ Room(e)
                                      THEN Append(inbox[e], buf) ELSE inbox[e]]
    BY <1>1 DEF Broadcast
  <2>2. table[RouterOf[d]] \in Seq(Route)
    BY ConfigAssumption DEF ConfigAssumption
  <2>3. buf \in Datagram
    BY <2>1, <2>2, FilledRoutes, BuffersType DEF Advert
  <2> QED BY <1>1, <2>1, <2>3 DEF Broadcast
<1>2. ASSUME NEW d \in Devices, SendFails(d) PROVE TypeOK'
  BY <1>2 DEF SendFails
<1>3. ASSUME NEW d \in Devices, Receive(d) PROVE TypeOK'
  <2>1. inbox[d] \in Seq(Datagram) /\ inbox[d] # <<>>
    BY <1>3 DEF Receive
  <2>2. Head(inbox[d]) \in Datagram /\ Tail(inbox[d]) \in Seq(Datagram)
    BY <2>1
  <2>3. Head(inbox[d]).routes \in Seq(Route) /\ Head(inbox[d]).readable \in BOOLEAN
    BY <2>2 DEF Datagram
  <2> QED BY <1>3, <2>2, <2>3 DEF Receive
<1>4. ASSUME NEW d \in Devices, ReceiveFails(d) PROVE TypeOK'
  BY <1>4 DEF ReceiveFails
<1>5. ASSUME NEW d \in Devices, MergeRoute(d) PROVE TypeOK'
  <2>1. todo[d] \in Seq(Route) /\ todo[d] # <<>>
    BY <1>5 DEF MergeRoute
  <2>2. Head(todo[d]) \in Route /\ Tail(todo[d]) \in Seq(Route)
    BY <2>1
  <2>3. RouterOf[d] \in Routers
    BY ConfigAssumption DEF ConfigAssumption
  <2>4. Merged(table[RouterOf[d]], Incremented(Head(todo[d]))) \in Seq(Route)
    BY <2>2, <2>3, IncrementedType, MergedType
  <2> QED BY <1>5, <2>2, <2>4 DEF MergeRoute
<1>6. CASE Ended
  BY <1>6 DEF Ended, vars
<1>7. CASE UNCHANGED vars
  BY <1>7 DEF vars
<1> QED BY <1>1, <1>2, <1>3, <1>4, <1>5, <1>6, <1>7 DEF Next

(* The exchange keeps tables, sockets and half-merged datagrams well-typed.*)
THEOREM TypeCorrect == Spec => []TypeOK
<1>1. Init => TypeOK
  BY ConfigAssumption DEF Init, TypeOK, ConfigAssumption
<1>2. TypeOK /\ [Next]_vars => TypeOK'
  BY TypeStays
<1> QED BY <1>1, <1>2, PTL DEF Spec

-----------------------------------------------------------------------------
(* Tables of any size.                                                     *)

(* Only updateRoutingTable writes a table.                                 *)
LEMMA OnlyMergesWrite ==
  ASSUME [Next]_vars
  PROVE  UNCHANGED table \/ \E d \in Devices : MergeRoute(d)
BY DEF Next, Broadcast, SendFails, Receive, ReceiveFails, Ended, vars

(* The table of the listener's router is merged with the first route to    *)
(* do; the other tables stay.                                              *)
LEMMA MergeStep ==
  ASSUME TypeOK, NEW d \in Devices, MergeRoute(d)
  PROVE  /\ RouterOf[d] \in Routers
         /\ todo[d] \in Seq(Route) /\ todo[d] # <<>>
         /\ Head(todo[d]) \in Route
         /\ Incremented(Head(todo[d])) \in Route
         /\ table'[RouterOf[d]] = Merged(table[RouterOf[d]], Incremented(Head(todo[d])))
         /\ \A r \in Routers : r # RouterOf[d] => table'[r] = table[r]
<1>1. RouterOf[d] \in Routers
  BY ConfigAssumption DEF ConfigAssumption
<1>2. todo[d] \in Seq(Route) /\ todo[d] # <<>>
  BY DEF MergeRoute, TypeOK
<1>3. Head(todo[d]) \in Route
  BY <1>2
<1>4. Incremented(Head(todo[d])) \in Route
  BY <1>3, IncrementedType
<1> QED BY <1>1, <1>2, <1>3, <1>4 DEF MergeRoute, TypeOK

(* A table lists a network at most once.  This is so of merges that are    *)
(* one step each, as MergeRoute is: it holds in this model of the exchange *)
(* and not of two listeners that append at the same time (SharedTable, run *)
(* twice).  It is no promise of the code but what the invariants below     *)
(* need to speak of the route to a network.                                *)
UniqueNets ==
  \A r \in Routers : \A i, j \in DOMAIN table[r] :
    table[r][i].net = table[r][j].net => i = j

(* No step lists a network twice.                                         *)
LEMMA UniqueStays ==
  ASSUME TypeOK, UniqueNets, [Next]_vars
  PROVE  UniqueNets'
<1>1. CASE UNCHANGED table
  BY <1>1 DEF UniqueNets
<1>2. ASSUME NEW d \in Devices, MergeRoute(d) PROVE UniqueNets'
  <2> SUFFICES ASSUME NEW r \in Routers,
                      NEW i \in DOMAIN table'[r], NEW j \in DOMAIN table'[r],
                      table'[r][i].net = table'[r][j].net
               PROVE  i = j
    BY DEF UniqueNets
  <2>1. CASE r # RouterOf[d]
    BY <1>2, <2>1, MergeStep DEF UniqueNets
  <2>2. CASE r = RouterOf[d]
    <3>1. table[r] \in Seq(Route)
      BY DEF TypeOK
    <3>2. \A k, l \in DOMAIN table[r] : table[r][k].net = table[r][l].net => k = l
      BY DEF UniqueNets
    <3> QED BY <1>2, <2>2, <3>1, <3>2, MergeStep, MergedUnique
  <2> QED BY <2>1, <2>2
<1> QED BY <1>1, <1>2, OnlyMergesWrite

(* A step never withdraws a route, moves it or makes it longer.            *)
LEMMA StepImproves ==
  ASSUME TypeOK, [Next]_vars, NEW r \in Routers, NEW i \in DOMAIN table[r]
  PROVE  /\ i \in DOMAIN table'[r]
         /\ table'[r][i].net = table[r][i].net
         /\ table'[r][i].distance <= table[r][i].distance
         /\ table[r][i].distance <= 1 => table'[r][i] = table[r][i]
<1>1. table[r] \in Seq(Route) /\ table[r][i] \in Route
  BY DEF TypeOK
<1>2. table[r][i].distance \in Nat
  BY <1>1 DEF Route
<1>3. CASE UNCHANGED table
  BY <1>2, <1>3
<1>4. ASSUME NEW d \in Devices, MergeRoute(d), r # RouterOf[d]
      PROVE  table'[r] = table[r]
  BY <1>4, MergeStep
<1>5. ASSUME NEW d \in Devices, MergeRoute(d), r = RouterOf[d]
      PROVE  /\ i \in DOMAIN table'[r]
             /\ table'[r][i].net = table[r][i].net
             /\ table'[r][i].distance <= table[r][i].distance
             /\ table[r][i].distance <= 1 => table'[r][i] = table[r][i]
  <2> DEFINE new == Incremented(Head(todo[d]))
  <2>1. new \in Route /\ table'[r] = Merged(table[r], new)
    BY <1>5, MergeStep
  <2>2. new.distance \in Nat /\ 1 <= new.distance
    BY <1>5, MergeStep, IncrementedType
  <2> HIDE DEF new
  <2>3. table[r][i].distance <= 1 => table[r][i].distance <= new.distance
    BY <1>2, <2>2
  <2> QED BY <1>1, <2>1, <2>3, MergedKeeps
<1> QED BY <1>2, <1>3, <1>4, <1>5, OnlyMergesWrite

(* The action property, for every behaviour.                               *)
THEOREM RoutesImprove == Spec => RoutesOnlyImprove
<1>1. TypeOK /\ [Next]_vars =>
        [\A r \in Routers : \A i \in DOMAIN table[r] :
           /\ i \in DOMAIN table'[r]
           /\ table'[r][i].net = table[r][i].net
           /\ table'[r][i].distance <= table[r][i].distance]_table
  BY StepImproves
<1> QED BY <1>1, TypeCorrect, PTL DEF Spec, RoutesOnlyImprove

(* No advertisement, however cut, replaces a route of routing_table.yaml:  *)
(* what is merged has distance 1 at least.                                 *)
THEOREM ConfiguredRoutesStay == Spec => []ConfiguredRoutesKept
<1>1. Init => ConfiguredRoutesKept
  BY DEF Init, ConfiguredRoutesKept
<1>2. TypeOK /\ ConfiguredRoutesKept /\ [Next]_vars => ConfiguredRoutesKept'
  <2> SUFFICES ASSUME TypeOK, ConfiguredRoutesKept, [Next]_vars,
                      NEW r \in Routers, NEW i \in DOMAIN ConfigTable[r]
               PROVE  i \in DOMAIN table'[r] /\ table'[r][i] = ConfigTable[r][i]
    BY DEF ConfiguredRoutesKept
  <2>1. i \in DOMAIN table[r] /\ table[r][i] = ConfigTable[r][i]
    BY DEF ConfiguredRoutesKept
  <2>2. ConfigTable[r][i].distance = 1
    BY ConfigAssumption DEF ConfigAssumption
  <2> QED BY <2>1, <2>2, StepImproves
<1> QED BY <1>1, <1>2, TypeCorrect, PTL DEF Spec

(* What device e may hear of, cut or not: a route through a device on its  *)
(* network whose router lists the network.                                 *)
Serves(route, e) ==
  /\ route.passerelle \in Devices
  /\ NetOf[route.passerelle] = NetOf[e]
  /\ route.net \in Listed(RouterOf[route.passerelle])

AllServe(routes, e) == \A i \in DOMAIN routes : Serves(routes[i], e)

OffersServe ==
  \A e \in Devices :
    /\ AllServe(todo[e], e)
    /\ \A k \in DOMAIN inbox[e] : AllServe(inbox[e][k].routes, e)

(* What a router lists it lists ever after, so offers go on serving.       *)
LEMMA ServesStays ==
  ASSUME TypeOK, [Next]_vars, NEW e \in Devices, NEW routes, AllServe(routes, e)
  PROVE  AllServe(routes, e)'
<1> SUFFICES ASSUME NEW i \in DOMAIN routes PROVE Serves(routes[i], e)'
  BY DEF AllServe
<1> DEFINE route == routes[i]
           r == RouterOf[route.passerelle]
<1>1. Serves(route, e) /\ r \in Routers
  BY ConfigAssumption DEF AllServe, Serves, ConfigAssumption
<1>2. PICK k \in DOMAIN table[r] : table[r][k].net = route.net
  BY <1>1 DEF Serves, Listed
<1>3. k \in DOMAIN table'[r] /\ table'[r][k].net = route.net
  BY <1>1, <1>2, StepImproves
<1>4. route.net \in {table'[r][j].net : j \in DOMAIN table'[r]}
  BY <1>3
<1> QED BY <1>1, <1>4 DEF Serves, Listed

(* A cut takes from a route its distance only.                             *)
LEMMA CutRoutes ==
  ASSUME NEW routes \in Seq(Route), NEW buf \in Buffers(routes), NEW i \in DOMAIN buf.routes
  PROVE  \E j \in DOMAIN routes : /\ buf.routes[i].net = routes[j].net
                                 /\ buf.routes[i].passerelle = routes[j].passerelle
<1>1. FitRoutes \in Nat
  BY ConfigAssumption DEF ConfigAssumption
<1>2. CASE Len(routes) <= FitRoutes
  BY <1>2 DEF Buffers, Parsed, Text
<1>3. CASE ~ (Len(routes) <= FitRoutes)
  <2> DEFINE whole == SubSeq(routes, 1, FitRoutes)
             next  == routes[FitRoutes + 1]
             zero  == [next EXCEPT !.distance = 0]
             short == [next EXCEPT !.distance = @ \div 10]
  <2>1. FitRoutes + 1 \in DOMAIN routes /\ next \in Route
    BY <1>1, <1>3
  <2>2. /\ zero.net = next.net /\ zero.passerelle = next.passerelle
        /\ short.net = next.net /\ short.passerelle = next.passerelle
    BY <2>1 DEF Route
  <2>3. /\ Len(whole) = FitRoutes /\ whole \in Seq(Route)
        /\ \A k \in 1 .. FitRoutes : k \in DOMAIN routes /\ whole[k] = routes[k]
    BY <1>1, <1>3
  <2>4. buf \in {[routes |-> whole, readable |-> TRUE],
                [routes |-> <<>>, readable |-> FALSE],
                [routes |-> Append(whole, zero), readable |-> TRUE],
                [routes |-> Append(whole, short), readable |-> TRUE]}
    BY <1>3 DEF Buffers, Parsed, Text
  <2> HIDE DEF whole, zero, short, next
  <2>5. ASSUME NEW last, last.net = next.net, last.passerelle = next.passerelle,
               buf.routes = Append(whole, last)
        PROVE  \E j \in DOMAIN routes : /\ buf.routes[i].net = routes[j].net
                                       /\ buf.routes[i].passerelle = routes[j].passerelle
    <3>1. /\ DOMAIN Append(whole, last) = 1 .. Len(whole) + 1
          /\ \A k \in 1 .. Len(whole) : Append(whole, last)[k] = whole[k]
          /\ Append(whole, last)[Len(whole) + 1] = last
      BY <2>3
    <3>2. \/ i \in 1 .. FitRoutes /\ buf.routes[i] = whole[i]
          \/ buf.routes[i] = last
      BY <1>1, <2>3, <2>5, <3>1
    <3> QED BY <2>1, <2>3, <2>5, <3>2 DEF next
  <2>6. CASE buf.routes \in {whole, <<>>}
    BY <1>1, <2>3, <2>6
  <2> QED BY <2>2, <2>4, <2>5, <2>6
<1> QED BY <1>2, <1>3

(* What a device broadcasts serves all that hear it.                       *)
LEMMA AdvertServes ==
  ASSUME TypeOK, NEW d \in Devices, NEW e \in Hearers(d), NEW buf \in Buffers(Advert(d))
  PROVE  AllServe(buf.routes, e)
<1> DEFINE routes == table[RouterOf[d]]
<1> SUFFICES ASSUME NEW i \in DOMAIN buf.routes PROVE Serves(buf.routes[i], e)
  BY DEF AllServe
<1>1. routes \in Seq(Route)
  BY ConfigAssumption DEF ConfigAssumption, TypeOK
<1>2. Advert(d) \in Seq(Route) /\ Len(Advert(d)) = Len(routes)
  BY <1>1, FilledRoutes DEF Advert
<1>3. PICK j \in DOMAIN Advert(d) : /\ buf.routes[i].net = Advert(d)[j].net
                                   /\ buf.routes[i].passerelle = Advert(d)[j].passerelle
  BY <1>2, CutRoutes
<1>4. j \in DOMAIN routes
  BY <1>1, <1>2
<1>5. Advert(d)[j].net = routes[j].net /\ Advert(d)[j].passerelle = d
  BY <1>1, <1>4, FilledRoutes DEF Advert
<1>6. routes[j].net \in Listed(RouterOf[d])
  BY <1>4 DEF Listed
<1> QED BY <1>3, <1>5, <1>6 DEF Serves, Hearers

(* Every step leaves only offers under way that serve: first in terms of   *)
(* the tables before the step, then of those after.                        *)
LEMMA OffersStillServe ==
  ASSUME TypeOK, OffersServe, [Next]_vars
  PROVE  OffersServe'
<1>1. SUFFICES ASSUME NEW e \in Devices
               PROVE  /\ AllServe(todo'[e], e)
                      /\ \A k \in DOMAIN inbox'[e] : AllServe(inbox'[e][k].routes, e)
  <2>1. ASSUME NEW e \in Devices, AllServe(todo'[e], e)
        PROVE  AllServe(todo[e], e)'
    BY <2>1, ServesStays
  <2>2. ASSUME NEW e \in Devices, NEW k \in DOMAIN inbox'[e], AllServe(inbox'[e][k].routes, e)
        PROVE  AllServe(inbox[e][k].routes, e)'
    BY <2>2, ServesStays
  <2> QED BY <2>1, <2>2 DEF OffersServe
<1>2. /\ AllServe(todo[e], e)
      /\ \A k \in DOMAIN inbox[e] : AllServe(inbox[e][k].routes, e)
  BY DEF OffersServe
<1>3. todo[e] \in Seq(Route) /\ inbox[e] \in Seq(Datagram)
  BY DEF TypeOK
<1>4. ASSUME NEW d \in Devices, NEW got \in SUBSET Hearers(d), Broadcast(d, got)
      PROVE  /\ todo' = todo
             /\ \A k \in DOMAIN inbox'[e] : AllServe(inbox'[e][k].routes, e)
  <2>1. PICK buf \in Buffers(Advert(d)) :
          inbox' = [f \in Devices |-> IF f \in got /\ Room(f)
                                      THEN Append(inbox[f], buf) ELSE inbox[f]]
    BY <1>4 DEF Broadcast
  <2>2. todo' = todo
    BY <1>4 DEF Broadcast
  <2>3. CASE inbox'[e] = inbox[e]
    BY <1>2, <2>2, <2>3
  <2>4. CASE e \in got /\ inbox'[e] = Append(inbox[e], buf)
    <3>1. AllServe(buf.routes, e)
      BY <2>4, AdvertServes
    <3>2. table[RouterOf[d]] \in Seq(Route)
      BY ConfigAssumption DEF TypeOK, ConfigAssumption
    <3>3. buf \in Datagram
      BY <3>2, FilledRoutes, BuffersType DEF Advert
    <3>4. \A k \in DOMAIN inbox'[e] :
            \/ k \in DOMAIN inbox[e] /\ inbox'[e][k] = inbox[e][k]
            \/ inbox'[e][k] = buf
      BY <1>3, <2>4, <3>3
    <3> QED BY <1>2, <2>2, <3>1, <3>4
  <2> QED BY <2>1, <2>3, <2>4
<1>5. ASSUME NEW d \in Devices, Receive(d)
      PROVE  /\ AllServe(todo'[e], e)
             /\ \A k \in DOMAIN inbox'[e] : AllServe(inbox'[e][k].routes, e)
  <2>1. CASE d # e
    <3>1. todo'[e] = todo[e] /\ inbox'[e] = inbox[e]
      BY <1>5, <2>1 DEF Receive, TypeOK
    <3> QED BY <1>2, <3>1
  <2>2. CASE d = e
    <3>1. /\ inbox[e] # <<>> /\ inbox'[e] = Tail(inbox[e])
          /\ todo'[e] = Head(inbox[e]).routes
      BY <1>5, <2>2 DEF Receive, TypeOK
    <3>2. 1 \in DOMAIN inbox[e] /\ Head(inbox[e]) = inbox[e][1]
      BY <1>3, <3>1
    <3>3. \A k \in DOMAIN inbox'[e] : k + 1 \in DOMAIN inbox[e]
                                     /\ inbox'[e][k] = inbox[e][k + 1]
      BY <1>3, <3>1
    <3> QED BY <1>2, <3>1, <3>2, <3>3
  <2> QED BY <2>1, <2>2
<1>6. ASSUME NEW d \in Devices, MergeRoute(d)
      PROVE  inbox' = inbox /\ AllServe(todo'[e], e)
  <2>1. todo'[e] = todo[e] \/ (todo[e] # <<>> /\ todo'[e] = Tail(todo[e]))
    BY <1>6 DEF MergeRoute, TypeOK
  <2>2. CASE todo[e] # <<>> /\ todo'[e] = Tail(todo[e])
    <3>1. \A i \in DOMAIN todo'[e] : i + 1 \in DOMAIN todo[e] /\ todo'[e][i] = todo[e][i + 1]
      BY <1>3, <2>2
    <3> QED BY <1>2, <1>6, <3>1 DEF AllServe, MergeRoute
  <2> QED BY <1>2, <1>6, <2>1, <2>2 DEF MergeRoute
<1>7. CASE todo' = todo /\ inbox' = inbox
  BY <1>2, <1>7
<1> QED
  BY <1>2, <1>4, <1>5, <1>6, <1>7 DEF Next, SendFails, ReceiveFails, Ended, vars

(* A merge writes what was offered or leaves what was there.               *)
LEMMA MergedEntries ==
  ASSUME NEW routes \in Seq(Route), NEW new \in Route, NEW i \in DOMAIN Merged(routes, new)
  PROVE  Merged(routes, new)[i] = new
         \/ (i \in DOMAIN routes /\ Merged(routes, new)[i] = routes[i])
<1>1. CASE Matches(routes, new.net) = {}
  BY <1>1 DEF Merged
<1>2. CASE Matches(routes, new.net) # {}
  <2> DEFINE k == FirstMatch(routes, new.net)
  <2>1. Merged(routes, new) = IF new.distance < routes[k].distance
                              THEN [routes EXCEPT ![k] = new] ELSE routes
    BY <1>2 DEF Merged
  <2> HIDE DEF k
  <2> QED BY <2>1
<1> QED BY <1>1, <1>2

(* However adverts are cut, late or lost, a gateway is within reach of the *)
(* route's owner and its router lists the network: what is merged served   *)
(* when it was sent, and no router forgets a network.                      *)
THEOREM GatewaysServe == Spec => []GatewayServes
<1>1. Init => GatewayServes /\ OffersServe
  <2> SUFFICES ASSUME Init PROVE GatewayServes /\ OffersServe
    OBVIOUS
  <2>1. \A r \in Routers : \A i \in DOMAIN table[r] : table[r][i].passerelle = NoGateway
    BY ConfigAssumption DEF Init, ConfigAssumption
  <2>2. OffersServe
    BY DEF Init, OffersServe, AllServe
  <2> QED BY <2>1, <2>2 DEF GatewayServes
<1>2. TypeOK /\ GatewayServes /\ OffersServe /\ [Next]_vars => GatewayServes'
  <2> SUFFICES ASSUME TypeOK, GatewayServes, OffersServe, [Next]_vars,
                      NEW r \in Routers, NEW i \in DOMAIN table'[r],
                      NEW route, route = table'[r][i], route.passerelle # NoGateway
               PROVE  LET s == RouterOf[route.passerelle]
                      IN  /\ \E d \in Devices : RouterOf[d] = r
                                              /\ NetOf[d] = NetOf[route.passerelle]
                          /\ route.net \in {table'[s][k].net : k \in DOMAIN table'[s]}
    BY DEF GatewayServes, Listed
  <2> DEFINE g == route.passerelle
  <2>1. ASSUME NEW e \in Devices, RouterOf[e] = r, Serves(route, e)
        PROVE  LET s == RouterOf[g]
               IN  /\ \E d \in Devices : RouterOf[d] = r /\ NetOf[d] = NetOf[g]
                   /\ route.net \in {table'[s][k].net : k \in DOMAIN table'[s]}
    <3>1. AllServe(<<route>>, e)
      BY <2>1 DEF AllServe
    <3>2. AllServe(<<route>>, e)'
      BY <3>1, ServesStays
    <3>3. Serves(route, e)'
      BY <3>2 DEF AllServe
    <3> QED BY <2>1, <3>3 DEF Serves, Listed
  <2>2. CASE i \in DOMAIN table[r] /\ route = table[r][i]
    <3>1. /\ \E e \in Devices : RouterOf[e] = r /\ NetOf[e] = NetOf[g]
          /\ route.net \in Listed(RouterOf[g])
      BY <2>2 DEF GatewayServes
    <3>2. route \in Route /\ g \in Devices
      <4>1. table[r] \in Seq(Route)
        BY DEF TypeOK
      <4>2. table[r][i] \in Route
        BY <2>2, <4>1
      <4> QED BY <2>2, <4>2 DEF Route
    <3>3. PICK e \in Devices : RouterOf[e] = r /\ NetOf[e] = NetOf[g]
      BY <3>1
    <3>4. Serves(route, e)
      BY <3>1, <3>2, <3>3 DEF Serves
    <3> QED BY <2>1, <3>3, <3>4
  <2>3. ASSUME NEW e \in Devices, MergeRoute(e), RouterOf[e] = r,
               route = Incremented(Head(todo[e]))
        PROVE  Serves(route, e)
    <3>1. /\ todo[e] \in Seq(Route) /\ todo[e] # <<>>
          /\ route.net = Head(todo[e]).net /\ route.passerelle = Head(todo[e]).passerelle
      BY <2>3, MergeStep, IncrementedType
    <3>2. 1 \in DOMAIN todo[e] /\ Head(todo[e]) = todo[e][1]
      BY <3>1
    <3>3. Serves(Head(todo[e]), e)
      BY <3>2 DEF OffersServe, AllServe
    <3> QED BY <3>1, <3>3 DEF Serves
  <2>4. ASSUME NEW e \in Devices, MergeRoute(e)
        PROVE  \/ i \in DOMAIN table[r] /\ route = table[r][i]
               \/ RouterOf[e] = r /\ route = Incremented(Head(todo[e]))
    BY <2>4, MergeStep, MergedEntries DEF TypeOK
  <2> QED BY <2>1, <2>2, <2>3, <2>4, OnlyMergesWrite
<1>3. TypeOK /\ OffersServe /\ [Next]_vars => OffersServe'
  BY OffersStillServe
<1> QED BY <1>1, <1>2, <1>3, TypeCorrect, PTL DEF Spec

-----------------------------------------------------------------------------
(* Tables that fit in a datagram.                                          *)

(* The inductive invariant: the routers' tables cannot mislead because     *)
(* nothing on its way to them can.                                         *)
DistancesInv == TypeOK /\ UniqueNets /\ NextHopCloser /\ GatewayOnLink /\ OffersSound

(* A table that lists no network twice is no longer than Nets is large.    *)
LEMMA TableLength ==
  ASSUME TypeOK, UniqueNets, NEW r \in Routers
  PROVE  Len(table[r]) <= Cardinality(Nets)
<1> DEFINE S == 1 .. Len(table[r])
           f == [i \in S |-> table[r][i].net]
<1>1. table[r] \in Seq(Route)
  BY DEF TypeOK
<1>2. \A i \in S : table[r][i].net \in Nets
  <2>1. \A i \in S : table[r][i] \in Route
    BY <1>1
  <2> QED BY <2>1 DEF Route
<1>3. \A i, j \in S : table[r][i].net = table[r][j].net => i = j
  BY <1>1 DEF UniqueNets
<1>4. f \in Injection(S, Nets)
  <2>1. f \in [S -> Nets]
    BY <1>2
  <2>2. \A i, j \in S : f[i] = f[j] => i = j
    BY <1>3
  <2> HIDE DEF S, f
  <2> QED BY <2>1, <2>2 DEF Injection, IsInjective
<1>5. IsFiniteSet(Nets)
  BY ConfigAssumption DEF ConfigAssumption
<1>6. Cardinality(S) <= Cardinality(Nets)
  BY <1>4, <1>5, FS_Injection
<1>7. Cardinality(S) = Len(table[r])
  <2>1. Len(table[r]) \in Nat
    BY <1>1
  <2>2. Cardinality(S) = IF 1 > Len(table[r]) THEN 0 ELSE Len(table[r]) - 1 + 1
    BY <2>1, FS_Interval
  <2> QED BY <2>1, <2>2
<1> QED BY <1>6, <1>7

(* What a router knows it knows ever after.                                *)
LEMMA KnowledgeStays ==
  ASSUME TypeOK, TypeOK', [Next]_vars,
         NEW r \in Routers, NEW n, NEW k \in Int, KnowsWithin(r, n, k)
  PROVE  KnowsWithin(r, n, k)'
<1>1. PICK i \in DOMAIN table[r] : table[r][i].net = n /\ table[r][i].distance <= k
  BY DEF KnowsWithin
<1>2. /\ i \in DOMAIN table'[r]
      /\ table'[r][i].net = n
      /\ table'[r][i].distance <= table[r][i].distance
  BY <1>1, StepImproves
<1>3. table[r][i] \in Route /\ table'[r][i] \in Route
  BY <1>2 DEF TypeOK
<1>4. table[r][i].distance \in Nat /\ table'[r][i].distance \in Nat
  BY <1>3 DEF Route
<1>5. table'[r][i].distance <= k
  BY <1>1, <1>2, <1>4
<1> QED BY <1>2, <1>5 DEF KnowsWithin

(* Sound offers remain sound while they are under way.                     *)
LEMMA SoundStays ==
  ASSUME TypeOK, TypeOK', [Next]_vars,
         NEW e \in Devices, NEW routes \in Seq(Route), AllSound(routes, e)
  PROVE  AllSound(routes, e)'
<1> SUFFICES ASSUME NEW i \in DOMAIN routes PROVE Sound(routes[i], e)'
  BY DEF AllSound
<1> DEFINE route == routes[i]
<1>1. route \in Route /\ Sound(route, e)
  BY DEF AllSound
<1> HIDE DEF route
<1>2. RouterOf[route.passerelle] \in Routers
  BY <1>1, ConfigAssumption DEF ConfigAssumption, Sound
<1>3. route.distance \in Int
  BY <1>1 DEF Route
<1>4. KnowsWithin(RouterOf[route.passerelle], route.net, route.distance)'
  BY <1>1, <1>2, <1>3, KnowledgeStays DEF Sound
<1> QED BY <1>1, <1>4 DEF Sound, route

(* A table that fits is broadcast whole.                                   *)
LEMMA AdvertWhole ==
  ASSUME TypeOK, UniqueNets, TablesFit, NEW d \in Devices,
         NEW buf \in Buffers(Advert(d))
  PROVE  buf = [routes |-> Advert(d), readable |-> TRUE]
<1> DEFINE routes == table[RouterOf[d]]
<1>1. RouterOf[d] \in Routers /\ routes \in Seq(Route)
  BY ConfigAssumption DEF ConfigAssumption, TypeOK
<1>2. Cardinality(Nets) \in Nat /\ FitRoutes \in Nat
  BY ConfigAssumption, FS_CardinalityType DEF ConfigAssumption
<1>3. Len(routes) <= FitRoutes
  BY <1>1, <1>2, TableLength DEF TablesFit
<1>4. Len(Advert(d)) = Len(routes) /\ Advert(d) \in Seq(Route)
  BY <1>1, FilledRoutes DEF Advert
<1> QED BY <1>3, <1>4 DEF Buffers, Parsed, Text

(* It says of every network how far the sender's router has it.            *)
LEMMA AdvertEntry ==
  ASSUME TypeOK, NEW d \in Devices, NEW i \in DOMAIN Advert(d)
  PROVE  /\ i \in DOMAIN table[RouterOf[d]]
         /\ Advert(d)[i].net = table[RouterOf[d]][i].net
         /\ Advert(d)[i].distance = table[RouterOf[d]][i].distance
         /\ Advert(d)[i].passerelle = d
<1> DEFINE routes == table[RouterOf[d]]
<1>1. routes \in Seq(Route)
  BY ConfigAssumption DEF ConfigAssumption, TypeOK
<1>2. Len(Advert(d)) = Len(routes) /\ Advert(d) \in Seq(Route)
  BY <1>1, FilledRoutes DEF Advert
<1>3. i \in DOMAIN routes
  BY <1>1, <1>2
<1> QED BY <1>1, <1>3, FilledRoutes DEF Advert

(* What a device broadcasts is a sound offer for all that hear it.         *)
LEMMA AdvertSound ==
  ASSUME TypeOK, UniqueNets, TablesFit,
         NEW d \in Devices, NetOf[d] \notin Loopback, NEW e \in Hearers(d),
         NEW buf \in Buffers(Advert(d))
  PROVE  buf.readable /\ AllSound(buf.routes, e)
<1> DEFINE routes == table[RouterOf[d]]
<1>1. buf = [routes |-> Advert(d), readable |-> TRUE]
  BY AdvertWhole
<1>2. ASSUME NEW i \in DOMAIN Advert(d) PROVE Sound(Advert(d)[i], e)
  <2>1. /\ i \in DOMAIN routes
        /\ Advert(d)[i].net = routes[i].net
        /\ Advert(d)[i].distance = routes[i].distance
        /\ Advert(d)[i].passerelle = d
    BY AdvertEntry
  <2>2. routes[i] \in Route
    BY <2>1, ConfigAssumption DEF ConfigAssumption, TypeOK
  <2>3. routes[i].distance <= routes[i].distance
    BY <2>2 DEF Route
  <2>4. KnowsWithin(RouterOf[d], Advert(d)[i].net, Advert(d)[i].distance)
    BY <2>1, <2>3 DEF KnowsWithin
  <2> QED BY <2>1, <2>4 DEF Sound, Hearers
<1> QED BY <1>1, <1>2 DEF AllSound

(* Every step leaves only sound offers under way: first in terms of the    *)
(* tables before the step, then, as tables only improve, of those after.   *)
LEMMA OffersStaySound ==
  ASSUME DistancesInv, TypeOK', [Next]_vars, TablesFit
  PROVE  OffersSound'
<1>1. TypeOK /\ UniqueNets /\ OffersSound
  BY DEF DistancesInv
<1>2. SUFFICES ASSUME NEW e \in Devices
               PROVE  /\ AllSound(todo'[e], e)
                      /\ \A k \in DOMAIN inbox'[e] :
                           inbox'[e][k].readable /\ AllSound(inbox'[e][k].routes, e)
  <2>1. ASSUME NEW e \in Devices, AllSound(todo'[e], e)
        PROVE  AllSound(todo[e], e)'
    <3>1. todo'[e] \in Seq(Route)
      BY DEF TypeOK
    <3> QED BY <1>1, <2>1, <3>1, SoundStays
  <2>2. ASSUME NEW e \in Devices, NEW k \in DOMAIN inbox'[e],
               AllSound(inbox'[e][k].routes, e)
        PROVE  AllSound(inbox[e][k].routes, e)'
    <3>1. inbox'[e][k] \in Datagram
      BY DEF TypeOK
    <3>2. inbox'[e][k].routes \in Seq(Route)
      BY <3>1 DEF Datagram
    <3> QED BY <1>1, <2>2, <3>2, SoundStays
  <2> QED BY <2>1, <2>2 DEF OffersSound
<1>3. /\ AllSound(todo[e], e)
      /\ \A k \in DOMAIN inbox[e] : inbox[e][k].readable /\ AllSound(inbox[e][k].routes, e)
  BY <1>1 DEF OffersSound
<1>4. todo[e] \in Seq(Route) /\ inbox[e] \in Seq(Datagram)
  BY <1>1 DEF TypeOK
<1>5. ASSUME NEW d \in Devices, NEW got \in SUBSET Hearers(d), Broadcast(d, got)
      PROVE  /\ AllSound(todo'[e], e)
             /\ \A k \in DOMAIN inbox'[e] :
                  inbox'[e][k].readable /\ AllSound(inbox'[e][k].routes, e)
  <2>1. PICK buf \in Buffers(Advert(d)) :
          inbox' = [f \in Devices |-> IF f \in got /\ Room(f)
                                      THEN Append(inbox[f], buf) ELSE inbox[f]]
    BY <1>5 DEF Broadcast
  <2>2. todo' = todo /\ NetOf[d] \notin Loopback
    BY <1>5 DEF Broadcast
  <2>3. CASE inbox'[e] = inbox[e]
    BY <1>3, <2>2, <2>3
  <2>4. CASE e \in got /\ inbox'[e] = Append(inbox[e], buf)
    <3>1. buf.readable /\ AllSound(buf.routes, e)
      BY <1>1, <2>2, <2>4, AdvertSound
    <3>2. \A k \in DOMAIN inbox'[e] :
            \/ k \in DOMAIN inbox[e] /\ inbox'[e][k] = inbox[e][k]
            \/ inbox'[e][k] = buf
      <4>1. table[RouterOf[d]] \in Seq(Route)
        BY <1>1, ConfigAssumption DEF TypeOK, ConfigAssumption
      <4>2. buf \in Datagram
        BY <4>1, FilledRoutes, BuffersType DEF Advert
      <4> QED BY <1>4, <2>4, <4>2
    <3> QED BY <1>3, <2>2, <3>1, <3>2
  <2> QED BY <2>1, <2>3, <2>4
<1>6. ASSUME NEW d \in Devices, Receive(d)
      PROVE  /\ AllSound(todo'[e], e)
             /\ \A k \in DOMAIN inbox'[e] :
                  inbox'[e][k].readable /\ AllSound(inbox'[e][k].routes, e)
  <2>1. CASE d # e
    <3>1. todo'[e] = todo[e] /\ inbox'[e] = inbox[e]
      BY <1>1, <1>6, <2>1 DEF Receive, TypeOK
    <3> QED BY <1>3, <3>1
  <2>2. CASE d = e
    <3>1. /\ inbox[e] # <<>>
          /\ inbox'[e] = Tail(inbox[e])
          /\ todo'[e] = Head(inbox[e]).routes
      BY <1>1, <1>6, <2>2 DEF Receive, TypeOK
    <3>2. 1 \in DOMAIN inbox[e] /\ Head(inbox[e]) = inbox[e][1]
      BY <1>4, <3>1
    <3>3. \A k \in DOMAIN inbox'[e] : k + 1 \in DOMAIN inbox[e]
                                     /\ inbox'[e][k] = inbox[e][k + 1]
      BY <1>4, <3>1
    <3> QED BY <1>3, <3>1, <3>2, <3>3
  <2> QED BY <2>1, <2>2
<1>7. ASSUME NEW d \in Devices, MergeRoute(d)
      PROVE  /\ AllSound(todo'[e], e)
             /\ \A k \in DOMAIN inbox'[e] :
                  inbox'[e][k].readable /\ AllSound(inbox'[e][k].routes, e)
  <2>1. inbox' = inbox
    BY <1>7 DEF MergeRoute
  <2>2. todo'[e] = todo[e] \/ (todo[e] # <<>> /\ todo'[e] = Tail(todo[e]))
    BY <1>1, <1>7 DEF MergeRoute, TypeOK
  <2>3. \A i \in DOMAIN todo'[e] : \E j \in DOMAIN todo[e] : todo'[e][i] = todo[e][j]
    <3>1. CASE todo'[e] = todo[e]
      BY <3>1
    <3>2. CASE todo[e] # <<>> /\ todo'[e] = Tail(todo[e])
      <4>1. \A i \in DOMAIN todo'[e] : i + 1 \in DOMAIN todo[e]
                                      /\ todo'[e][i] = todo[e][i + 1]
        BY <1>4, <3>2
      <4> QED BY <4>1
    <3> QED BY <2>2, <3>1, <3>2
  <2> QED BY <1>3, <2>1, <2>3 DEF AllSound
<1>8. CASE todo' = todo /\ inbox' = inbox
  BY <1>3, <1>8
<1> QED
  BY <1>5, <1>6, <1>7, <1>8 DEF Next, SendFails, ReceiveFails, Ended, vars

(* An entry written by a step is the increment of a sound offer, and it    *)
(* comes from another router: a router's own advertisement, heard on its   *)
(* own socket, is longer than the route it was made from.                  *)
LEMMA EntryOrigin ==
  ASSUME DistancesInv, [Next]_vars, NEW r \in Routers, NEW i \in DOMAIN table'[r]
  PROVE  \/ i \in DOMAIN table[r] /\ table'[r][i] = table[r][i]
         \/ \E d \in Devices : \E route \in Route :
              /\ RouterOf[d] = r
              /\ todo[d] # <<>> /\ route = Head(todo[d])
              /\ Sound(route, d)
              /\ RouterOf[route.passerelle] # r
              /\ table'[r][i] = Incremented(route)
              /\ \A k \in DOMAIN table[r] :
                   table[r][k].net = route.net => route.distance + 1 < table[r][k].distance
              /\ \A k \in DOMAIN table[r] \ {i} : k \in DOMAIN table'[r] /\ table'[r][k] = table[r][k]
              /\ DOMAIN table'[r] = DOMAIN table[r] \cup {i}
<1>1. TypeOK /\ UniqueNets /\ OffersSound
  BY DEF DistancesInv
<1>2. CASE table'[r] = table[r]
  BY <1>2
<1>3. ASSUME NEW d \in Devices, MergeRoute(d), RouterOf[d] = r,
             ~ (i \in DOMAIN table[r] /\ table'[r][i] = table[r][i])
      PROVE  \E route \in Route :
              /\ todo[d] # <<>> /\ route = Head(todo[d])
              /\ Sound(route, d)
              /\ RouterOf[route.passerelle] # r
              /\ table'[r][i] = Incremented(route)
              /\ \A k \in DOMAIN table[r] :
                   table[r][k].net = route.net => route.distance + 1 < table[r][k].distance
              /\ \A k \in DOMAIN table[r] \ {i} : k \in DOMAIN table'[r] /\ table'[r][k] = table[r][k]
              /\ DOMAIN table'[r] = DOMAIN table[r] \cup {i}
  <2> DEFINE route == Head(todo[d])
             new == Incremented(route)
             routes == table[r]
  <2>1. /\ route \in Route /\ new \in Route
        /\ todo[d] \in Seq(Route) /\ todo[d] # <<>>
        /\ table'[r] = Merged(routes, new)
    BY <1>1, <1>3, MergeStep
  <2>2. Sound(route, d)
    <3>1. 1 \in DOMAIN todo[d] /\ route = todo[d][1]
      BY <2>1
    <3> QED BY <1>1, <3>1 DEF OffersSound, AllSound
  <2>3. /\ new.net = route.net /\ new.distance = route.distance + 1
        /\ route.distance \in Nat
    BY <2>1, IncrementedType
  <2>4. routes \in Seq(Route)
    BY <1>1 DEF TypeOK
  <2>5. \A k \in DOMAIN routes : routes[k].distance \in Nat
    <3>1. \A k \in DOMAIN routes : routes[k] \in Route
      BY <2>4
    <3> QED BY <3>1 DEF Route
  <2>0. route = Head(todo[d])
    OBVIOUS
  <2> HIDE DEF route, new, routes
  <2>6. /\ table'[r][i] = new
        /\ \A k \in DOMAIN routes : routes[k].net = new.net => new.distance < routes[k].distance
        /\ \A k \in DOMAIN routes \ {i} : k \in DOMAIN table'[r] /\ table'[r][k] = routes[k]
        /\ DOMAIN table'[r] = DOMAIN routes \cup {i}
    <3>1. \A k, l \in DOMAIN routes : routes[k].net = routes[l].net => k = l
      BY <1>1 DEF UniqueNets, routes
    <3>2. i \in DOMAIN Merged(routes, new)
      BY <2>1
    <3>3. ~ (i \in DOMAIN routes /\ Merged(routes, new)[i] = routes[i])
      BY <1>3, <2>1 DEF routes
    <3>4. CASE Matches(routes, new.net) = {}
      <4>1. Merged(routes, new) = Append(routes, new)
        BY <3>4 DEF Merged
      <4>2. i = Len(routes) + 1
        BY <2>1, <2>4, <3>2, <3>3, <4>1
      <4>3. \A k \in DOMAIN routes : routes[k].net # new.net
        BY <3>4 DEF Matches
      <4> QED BY <2>1, <2>4, <4>1, <4>2, <4>3
    <3>5. CASE Matches(routes, new.net) # {}
      <4> DEFINE m == FirstMatch(routes, new.net)
      <4>1. m \in DOMAIN routes /\ routes[m].net = new.net
        BY <2>4, <3>5, FirstMatchIsMatch DEF Matches
      <4>2. Merged(routes, new) = IF new.distance < routes[m].distance
                                  THEN [routes EXCEPT ![m] = new] ELSE routes
        BY <3>5 DEF Merged
      <4> HIDE DEF m
      <4>3. new.distance < routes[m].distance /\ Merged(routes, new) = [routes EXCEPT ![m] = new]
        BY <3>2, <3>3, <4>2
      <4>4. i = m
        BY <2>4, <3>2, <3>3, <4>1, <4>3
      <4> QED BY <2>1, <2>4, <3>1, <4>1, <4>3, <4>4
    <3> QED BY <3>4, <3>5
  <2>7. RouterOf[route.passerelle] # r
    <3> SUFFICES ASSUME RouterOf[route.passerelle] = r PROVE FALSE
      OBVIOUS
    <3>1. PICK k \in DOMAIN routes :
            routes[k].net = route.net /\ routes[k].distance <= route.distance
      BY <2>2 DEF Sound, KnowsWithin, routes
    <3>2. routes[k].distance \in Nat /\ new.distance < routes[k].distance
      BY <2>3, <2>5, <2>6, <3>1
    <3> QED BY <2>3, <3>1, <3>2
  <2> QED BY <2>0, <2>1, <2>2, <2>3, <2>6, <2>7 DEF new, routes
<1>4. ASSUME NEW d \in Devices, MergeRoute(d), RouterOf[d] # r
      PROVE  table'[r] = table[r]
  BY <1>1, <1>4, MergeStep
<1> QED BY <1>2, <1>3, <1>4, OnlyMergesWrite

(* The invariant holds at the beginning                                    *)
LEMMA DistancesInvInit ==
  ASSUME Init
  PROVE  DistancesInv
<1>1. \A r \in Routers : \A i \in DOMAIN table[r] : table[r][i].passerelle = NoGateway
  BY ConfigAssumption DEF Init, ConfigAssumption
<1>2. OffersSound
  BY DEF Init, OffersSound, AllSound
<1>3. TypeOK
  BY ConfigAssumption DEF Init, TypeOK, ConfigAssumption
<1>4. UniqueNets
  BY ConfigAssumption DEF Init, UniqueNets, ConfigAssumption
<1>5. NextHopCloser /\ GatewayOnLink
  BY <1>1 DEF NextHopCloser, GatewayOnLink
<1> QED BY <1>2, <1>3, <1>4, <1>5 DEF DistancesInv

(* and every step preserves it.                                            *)
LEMMA DistancesInvStays ==
  ASSUME TablesFit, DistancesInv, [Next]_vars
  PROVE  DistancesInv'
<1> SUFFICES NextHopCloser' /\ GatewayOnLink'
  <2>1. TypeOK /\ UniqueNets
    BY DEF DistancesInv
  <2>2. TypeOK' /\ UniqueNets'
    BY <2>1, TypeStays, UniqueStays
  <2> QED BY <2>2, OffersStaySound DEF DistancesInv
<1>0. TypeOK /\ UniqueNets /\ TypeOK' /\ UniqueNets'
  <2>1. TypeOK /\ UniqueNets
    BY DEF DistancesInv
  <2> QED BY <2>1, TypeStays, UniqueStays
<1> SUFFICES ASSUME NEW r \in Routers, NEW i \in DOMAIN table'[r],
                    table'[r][i].passerelle # NoGateway
             PROVE  /\ KnowsWithin(RouterOf[table[r][i].passerelle],
                                   table[r][i].net, table[r][i].distance - 1)'
                    /\ RouterOf[table'[r][i].passerelle] # r
                    /\ NetOf[table'[r][i].passerelle] \notin Loopback
                    /\ \E d \in Devices : /\ RouterOf[d] = r
                                         /\ NetOf[d] = NetOf[table'[r][i].passerelle]
  BY DEF NextHopCloser, GatewayOnLink
<1> DEFINE route == table'[r][i]
<1>1. NextHopCloser /\ GatewayOnLink
  BY DEF DistancesInv
<1>2. /\ route \in Route
      /\ RouterOf[route.passerelle] \in Routers
      /\ route.distance \in Nat
  <2>1. route \in Route
    BY <1>0 DEF TypeOK
  <2>2. route.passerelle \in Devices /\ route.distance \in Nat
    BY <2>1 DEF Route
  <2> QED BY <2>1, <2>2, ConfigAssumption DEF ConfigAssumption
<1>3. KnowsWithin(RouterOf[route.passerelle], route.net, route.distance - 1)
        => KnowsWithin(RouterOf[table[r][i].passerelle],
                       table[r][i].net, table[r][i].distance - 1)'
  <2>1. route.distance - 1 \in Int
    BY <1>2
  <2> QED BY <1>0, <1>2, <2>1, KnowledgeStays
<1>4. CASE i \in DOMAIN table[r] /\ route = table[r][i]
  BY <1>1, <1>3, <1>4 DEF NextHopCloser, GatewayOnLink
<1>5. ASSUME NEW d \in Devices, NEW offer \in Route,
             RouterOf[d] = r, Sound(offer, d), RouterOf[offer.passerelle] # r,
             route = Incremented(offer)
      PROVE  /\ KnowsWithin(RouterOf[route.passerelle], route.net, route.distance - 1)
             /\ RouterOf[route.passerelle] # r
             /\ NetOf[route.passerelle] \notin Loopback
             /\ NetOf[d] = NetOf[route.passerelle]
  <2>1. /\ route.net = offer.net /\ route.passerelle = offer.passerelle
        /\ route.distance = offer.distance + 1 /\ offer.distance \in Nat
    BY <1>5, IncrementedType
  <2>2. route.distance - 1 = offer.distance
    BY <2>1
  <2> QED BY <1>5, <2>1, <2>2 DEF Sound
<1>6. \/ i \in DOMAIN table[r] /\ route = table[r][i]
      \/ \E d \in Devices : \E offer \in Route :
           /\ RouterOf[d] = r /\ Sound(offer, d) /\ RouterOf[offer.passerelle] # r
           /\ route = Incremented(offer)
  BY EntryOrigin
<1> HIDE DEF route
<1> QED BY <1>3, <1>4, <1>5, <1>6 DEF route

(* So it is an invariant.                                                  *)
LEMMA DistancesInvHolds ==
  ASSUME TablesFit
  PROVE  Spec => []DistancesInv
<1>1. Init => DistancesInv
  BY DistancesInvInit
<1>2. DistancesInv /\ [Next]_vars => DistancesInv'
  BY DistancesInvStays
<1> QED BY <1>1, <1>2, PTL DEF Spec

(* At every moment the gateway of a learnt route is strictly closer to the *)
(* network than the route's owner.                                         *)
THEOREM NextHopIsCloser ==
  ASSUME TablesFit
  PROVE  Spec => []NextHopCloser
<1>1. DistancesInv => NextHopCloser
  BY DEF DistancesInv
<1> QED BY <1>1, DistancesInvHolds, PTL

(* The gateway of a learnt route is another router on a shared network.    *)
THEOREM GatewaysOnLink ==
  ASSUME TablesFit
  PROVE  Spec => []GatewayOnLink
<1>1. DistancesInv => GatewayOnLink
  BY DEF DistancesInv
<1> QED BY <1>1, DistancesInvHolds, PTL

(* What waits in a socket or is half merged never promises a shorter way   *)
(* than its sender has.                                                    *)
THEOREM OffersAreSound ==
  ASSUME TablesFit
  PROVE  Spec => []OffersSound
<1>1. DistancesInv => OffersSound
  BY DEF DistancesInv
<1> QED BY <1>1, DistancesInvHolds, PTL

(* Following the gateways never leads round in a circle: along them the    *)
(* distance to the network decreases.                                      *)
THEOREM NoLoops ==
  ASSUME TablesFit
  PROVE  Spec => []NoForwardingLoop
<1>1. TypeOK /\ UniqueNets /\ NextHopCloser => NoForwardingLoop
  <2> SUFFICES ASSUME TypeOK, UniqueNets, NextHopCloser,
                      NEW n \in Nets, NEW C \in (SUBSET Routers) \ {{}},
                      \A r \in C : \E s \in C : HopsTo(r, n, s)
               PROVE  FALSE
    BY DEF NoForwardingLoop
  <2> DEFINE T == {k \in Nat : \E r \in C : KnowsWithin(r, n, k)}
  <2>1. \A r \in C : \A i \in DOMAIN table[r] : table[r][i].distance \in Nat
    <3>1. \A r \in C : \A i \in DOMAIN table[r] : table[r][i] \in Route
      BY DEF TypeOK
    <3> QED BY <3>1 DEF Route
  <2>2. T # {}
    <3>1. PICK r \in C : TRUE
      OBVIOUS
    <3>2. PICK i \in DOMAIN table[r] : table[r][i].net = n
      BY <3>1 DEF HopsTo
    <3>3. table[r][i].distance \in Nat /\ table[r][i].distance <= table[r][i].distance
      BY <2>1
    <3>4. KnowsWithin(r, n, table[r][i].distance)
      BY <3>2, <3>3 DEF KnowsWithin
    <3> QED BY <3>3, <3>4
  <2>3. T \subseteq Nat
    OBVIOUS
  <2> HIDE DEF T
  <2>4. PICK k \in T : \A l \in T : ~ (<<l, k>> \in OpToRel(<, Nat))
    BY <2>2, <2>3, NatLessThanWellFounded, WFMin
  <2>5. PICK r \in C : KnowsWithin(r, n, k)
    BY <2>4 DEF T
  <2>6. PICK i \in DOMAIN table[r] : table[r][i].net = n /\ table[r][i].distance <= k
    BY <2>5 DEF KnowsWithin
  <2>7. PICK s \in C : HopsTo(r, n, s)
    OBVIOUS
  <2>8. table[r][i].passerelle # NoGateway /\ RouterOf[table[r][i].passerelle] = s
    BY <2>6, <2>7 DEF HopsTo, UniqueNets
  <2>9. KnowsWithin(s, n, table[r][i].distance - 1)
    BY <2>6, <2>8 DEF NextHopCloser
  <2>10. PICK j \in DOMAIN table[s] :
           table[s][j].net = n /\ table[s][j].distance <= table[r][i].distance - 1
    BY <2>9 DEF KnowsWithin
  <2>11. table[s][j].distance \in Nat /\ table[s][j].distance < k
    <3>1. k \in Nat
      BY <2>3, <2>4
    <3>2. table[s][j].distance \in Nat /\ table[r][i].distance \in Nat
      BY <2>1
    <3>3. \A a, b, c \in Nat : a <= b - 1 /\ b <= c => a < c
      OBVIOUS
    <3> QED BY <2>6, <2>10, <3>1, <3>2, <3>3
  <2>12. table[s][j].distance \in T
    BY <2>10, <2>11 DEF T, KnowsWithin
  <2>13. <<table[s][j].distance, k>> \in OpToRel(<, Nat)
    BY <2>3, <2>4, <2>11 DEF OpToRel
  <2> QED BY <2>4, <2>12, <2>13
<1>2. DistancesInv => TypeOK /\ UniqueNets /\ NextHopCloser
  BY DEF DistancesInv
<1> QED BY <1>1, <1>2, DistancesInvHolds, PTL

(* The tables before a step bound what is in them after it.                *)
LEMMA LowerBoundStays ==
  ASSUME NEW CONSTANT h, IsLowerBound(h), DistancesInv, NoShorterThan(h), [Next]_vars
  PROVE  NoShorterThan(h)'
<1> SUFFICES ASSUME NEW r \in Routers, NEW i \in DOMAIN table'[r]
             PROVE  h[r][table'[r][i].net] <= table'[r][i].distance
  BY DEF NoShorterThan
<1>1. CASE i \in DOMAIN table[r] /\ table'[r][i] = table[r][i]
  BY <1>1 DEF NoShorterThan
<1>2. ASSUME NEW d \in Devices, NEW offer \in Route, RouterOf[d] = r,
             Sound(offer, d), table'[r][i] = Incremented(offer)
      PROVE  h[r][table'[r][i].net] <= table'[r][i].distance
  <2> DEFINE s == RouterOf[offer.passerelle]
  <2>1. /\ table'[r][i].net = offer.net
        /\ table'[r][i].distance = offer.distance + 1 /\ offer.distance \in Nat
    BY <1>2, IncrementedType
  <2>2. s \in Routers /\ offer.net \in Nets
    BY <1>2, ConfigAssumption DEF ConfigAssumption, Sound, Route
  <2>3. Linked(r, s)
    BY <1>2 DEF Linked, Sound
  <2>4. PICK k \in DOMAIN table[s] :
          table[s][k].net = offer.net /\ table[s][k].distance <= offer.distance
    BY <1>2 DEF Sound, KnowsWithin
  <2>5. table[s][k] \in Route
    BY <2>2 DEF DistancesInv, TypeOK
  <2>6. table[s][k].distance \in Nat
    BY <2>5 DEF Route
  <2>7. h[s][offer.net] <= table[s][k].distance
    BY <2>2, <2>4 DEF NoShorterThan
  <2>8. /\ h[r][offer.net] \in Nat /\ h[s][offer.net] \in Nat
        /\ h[r][offer.net] <= h[s][offer.net] + 1
    BY <2>2, <2>3 DEF IsLowerBound
  <2> HIDE DEF s
  <2>9. h[r][offer.net] <= offer.distance + 1
    BY <2>1, <2>4, <2>6, <2>7, <2>8
  <2> QED BY <2>1, <2>9
<1> QED BY <1>1, <1>2, EntryOrigin

(* No route is shorter than any underestimate h of the distances in the    *)
(* topology allows; the lengths of the shortest paths are such an h.       *)
THEOREM NeverTooShort ==
  ASSUME TablesFit, NEW CONSTANT h, IsLowerBound(h)
  PROVE  Spec => []NoShorterThan(h)
<1>1. Init => NoShorterThan(h)
  BY ConfigAssumption DEF Init, NoShorterThan, IsLowerBound, ConfigAssumption
<1>2. DistancesInv /\ NoShorterThan(h) /\ [Next]_vars => NoShorterThan(h)'
  BY LowerBoundStays
<1> QED BY <1>1, <1>2, DistancesInvHolds, PTL DEF Spec

-----------------------------------------------------------------------------
(* Distances do not count up.                                              *)

(* The routers that know a way to network n of length k or less.           *)
Knowing(n, k) == {s \in Routers : KnowsWithin(s, n, k)}

(* A distance k to a network is only known where k routers know one of k   *)
(* or less: each router on the way added one, and its own stays.           *)
Backed(route) == Cardinality(Knowing(route.net, route.distance)) >= route.distance

(* The route is on its way to device e or being merged there.              *)
Offered(route, e) ==
  \/ \E i \in DOMAIN todo[e] : route = todo[e][i]
  \/ \E k \in DOMAIN inbox[e] : \E i \in DOMAIN inbox[e][k].routes :
       route = inbox[e][k].routes[i]

TablesBacked == \A r \in Routers : \A i \in DOMAIN table[r] : Backed(table[r][i])
OffersBacked == \A e \in Devices : \A route \in Route : Offered(route, e) => Backed(route)

BackedInv == DistancesInv /\ TablesBacked /\ OffersBacked

(* A backing is not lost: routers do not forget.                           *)
LEMMA BackedStays ==
  ASSUME TypeOK, TypeOK', [Next]_vars, NEW route \in Route, Backed(route)
  PROVE  Backed(route)'
<1> DEFINE K == Knowing(route.net, route.distance)
<1>1. route.distance \in Nat
  BY DEF Route
<1>2. K \subseteq K'
  BY <1>1, KnowledgeStays DEF Knowing
<1>3. IsFiniteSet(K')
  <2>1. K' \subseteq Routers
    BY DEF Knowing
  <2> QED BY <2>1, ConfigAssumption, FS_Subset DEF ConfigAssumption
<1>4. Cardinality(K) <= Cardinality(K') /\ Cardinality(K) \in Nat /\ Cardinality(K') \in Nat
  BY <1>2, <1>3, FS_Subset, FS_CardinalityType
<1>5. Cardinality(K) >= route.distance
  BY DEF Backed
<1>6. Cardinality(K') >= route.distance
  <2> HIDE DEF K
  <2> QED BY <1>1, <1>4, <1>5
<1> QED BY <1>6 DEF Backed

(* What is on its way after a step was so before, or is a copy of an entry *)
(* of the table of a router that broadcasts.                               *)
LEMMA OfferOrigin ==
  ASSUME DistancesInv, [Next]_vars, TablesFit,
         NEW e \in Devices, NEW route \in Route, Offered(route, e)'
  PROVE  \/ Offered(route, e)
         \/ \E r \in Routers : \E i \in DOMAIN table[r] :
              route.net = table[r][i].net /\ route.distance = table[r][i].distance
<1>1. TypeOK /\ UniqueNets
  BY DEF DistancesInv
<1>2. todo[e] \in Seq(Route) /\ inbox[e] \in Seq(Datagram)
  BY <1>1 DEF TypeOK
<1>3. ASSUME NEW d \in Devices, NEW got \in SUBSET Hearers(d), Broadcast(d, got),
             ~Offered(route, e)
      PROVE  \E r \in Routers : \E i \in DOMAIN table[r] :
               route.net = table[r][i].net /\ route.distance = table[r][i].distance
  <2>1. PICK buf \in Buffers(Advert(d)) :
          inbox' = [f \in Devices |-> IF f \in got /\ Room(f)
                                      THEN Append(inbox[f], buf) ELSE inbox[f]]
    BY <1>3 DEF Broadcast
  <2>2. todo' = todo
    BY <1>3 DEF Broadcast
  <2>3. buf = [routes |-> Advert(d), readable |-> TRUE]
    BY <1>1, AdvertWhole
  <2>4. inbox'[e] = inbox[e] \/ inbox'[e] = Append(inbox[e], buf)
    BY <2>1
  <2>5. PICK k \in DOMAIN inbox'[e] : \E i \in DOMAIN inbox'[e][k].routes :
          route = inbox'[e][k].routes[i]
    BY <1>3, <2>2 DEF Offered
  <2>6. ~(k \in DOMAIN inbox[e] /\ inbox'[e][k] = inbox[e][k])
    BY <1>3, <2>5 DEF Offered
  <2>7. inbox'[e][k] = buf
    <3>1. CASE inbox'[e] = inbox[e]
      BY <2>5, <2>6, <3>1
    <3>2. CASE inbox'[e] = Append(inbox[e], buf)
      <4>1. \A l \in DOMAIN Append(inbox[e], buf) :
              \/ l \in DOMAIN inbox[e] /\ Append(inbox[e], buf)[l] = inbox[e][l]
              \/ Append(inbox[e], buf)[l] = buf
        <5>1. buf \in Datagram
          BY <2>3, <1>1, ConfigAssumption, FilledRoutes
             DEF TypeOK, ConfigAssumption, Advert, Datagram
        <5> QED BY <1>2, <5>1, AppendProperties
      <4> QED BY <2>5, <2>6, <3>2, <4>1
    <3> QED BY <2>4, <3>1, <3>2
  <2>8. PICK i \in DOMAIN Advert(d) : route = Advert(d)[i]
    BY <2>3, <2>5, <2>7
  <2>9. RouterOf[d] \in Routers
    BY ConfigAssumption DEF ConfigAssumption
  <2> QED BY <1>1, <2>8, <2>9, AdvertEntry
<1>4. ASSUME NEW d \in Devices, Receive(d) PROVE Offered(route, e)
  <2>1. CASE d # e
    <3>1. todo'[e] = todo[e] /\ inbox'[e] = inbox[e]
      BY <1>1, <1>4, <2>1 DEF Receive, TypeOK
    <3> QED BY <3>1 DEF Offered
  <2>2. CASE d = e
    <3>1. /\ inbox[e] # <<>>
          /\ inbox'[e] = Tail(inbox[e])
          /\ todo'[e] = Head(inbox[e]).routes
      BY <1>1, <1>4, <2>2 DEF Receive, TypeOK
    <3>2. 1 \in DOMAIN inbox[e] /\ Head(inbox[e]) = inbox[e][1]
      BY <1>2, <3>1
    <3>3. \A k \in DOMAIN inbox'[e] : k + 1 \in DOMAIN inbox[e]
                                     /\ inbox'[e][k] = inbox[e][k + 1]
      BY <1>2, <3>1
    <3> QED BY <3>1, <3>2, <3>3 DEF Offered
  <2> QED BY <2>1, <2>2
<1>5. ASSUME NEW d \in Devices, MergeRoute(d) PROVE Offered(route, e)
  <2>1. inbox' = inbox
    BY <1>5 DEF MergeRoute
  <2>2. todo'[e] = todo[e] \/ (todo[e] # <<>> /\ todo'[e] = Tail(todo[e]))
    BY <1>1, <1>5 DEF MergeRoute, TypeOK
  <2>3. \A i \in DOMAIN todo'[e] : \E j \in DOMAIN todo[e] : todo'[e][i] = todo[e][j]
    <3>1. CASE todo'[e] = todo[e]
      BY <3>1
    <3>2. CASE todo[e] # <<>> /\ todo'[e] = Tail(todo[e])
      <4>1. \A i \in DOMAIN todo'[e] : i + 1 \in DOMAIN todo[e]
                                      /\ todo'[e][i] = todo[e][i + 1]
        BY <1>2, <3>2
      <4> QED BY <4>1
    <3> QED BY <2>2, <3>1, <3>2
  <2> QED BY <2>1, <2>3 DEF Offered
<1>6. CASE todo' = todo /\ inbox' = inbox
  BY <1>6 DEF Offered
<1> QED
  BY <1>3, <1>4, <1>5, <1>6 DEF Next, SendFails, ReceiveFails, Ended, vars

(* A merged route is backed by those that back the offer, and by the       *)
(* router itself, which knew no way that good.                             *)
LEMMA MergedBacked ==
  ASSUME DistancesInv, DistancesInv', [Next]_vars, NEW r \in Routers, NEW offer \in Route,
         Backed(offer), NEW i \in DOMAIN table'[r], table'[r][i] = Incremented(offer),
         \A k \in DOMAIN table[r] :
           table[r][k].net = offer.net => offer.distance + 1 < table[r][k].distance
  PROVE  Backed(table[r][i])'
<1> DEFINE n == offer.net
           k == offer.distance
           K == Knowing(n, k)
           L == {s \in Routers : KnowsWithin(s, n, k + 1)'}
<1>1. /\ table'[r][i].net = n /\ table'[r][i].distance = k + 1 /\ k \in Nat
  BY IncrementedType
<1>2. IsFiniteSet(L) /\ IsFiniteSet(K)
  <2>1. L \subseteq Routers /\ K \subseteq Routers
    BY DEF Knowing
  <2> QED BY <2>1, ConfigAssumption, FS_Subset DEF ConfigAssumption
<1>3. r \notin K
  <2> SUFFICES ASSUME r \in K PROVE FALSE
    OBVIOUS
  <2>1. PICK j \in DOMAIN table[r] : table[r][j].net = n /\ table[r][j].distance <= k
    BY DEF Knowing, KnowsWithin
  <2>2. table[r][j] \in Route
    BY DEF DistancesInv, TypeOK
  <2>3. table[r][j].distance \in Nat /\ k + 1 < table[r][j].distance
    BY <2>1, <2>2 DEF Route
  <2> HIDE DEF k
  <2> QED BY <1>1, <2>1, <2>3
<1>4. r \in L
  BY <1>1 DEF KnowsWithin
<1>5. K \subseteq L
  <2> SUFFICES ASSUME NEW s \in Routers, KnowsWithin(s, n, k) PROVE KnowsWithin(s, n, k + 1)'
    BY DEF Knowing
  <2>1. PICK j \in DOMAIN table[s] : table[s][j].net = n /\ table[s][j].distance <= k
    BY DEF KnowsWithin
  <2>2. table[s][j] \in Route
    BY DEF DistancesInv, TypeOK
  <2>3. table[s][j].distance <= k + 1
    BY <1>1, <2>1, <2>2 DEF Route
  <2>4. KnowsWithin(s, n, k + 1)
    BY <2>1, <2>3 DEF KnowsWithin
  <2> QED BY <1>1, <2>4, KnowledgeStays DEF DistancesInv
<1> HIDE DEF L, K
<1>6. Cardinality(K \cup {r}) = Cardinality(K) + 1
  BY <1>2, <1>3, FS_AddElement
<1>7. Cardinality(K \cup {r}) <= Cardinality(L)
  BY <1>2, <1>4, <1>5, FS_Subset
<1>8. Cardinality(K) \in Nat /\ Cardinality(L) \in Nat
  BY <1>2, FS_CardinalityType
<1>9. Cardinality(K) >= k
  BY DEF Backed, K
<1>10. Cardinality(L) >= k + 1
  BY <1>1, <1>6, <1>7, <1>8, <1>9
<1>11. L = Knowing(table[r][i].net, table[r][i].distance)'
  BY <1>1 DEF Knowing, L
<1> QED BY <1>1, <1>10, <1>11 DEF Backed

LEMMA BackedInvStays ==
  ASSUME TablesFit, BackedInv, [Next]_vars
  PROVE  BackedInv'
<1>1. DistancesInv /\ DistancesInv'
  BY DistancesInvStays DEF BackedInv
<1>2. TypeOK /\ TypeOK'
  BY <1>1 DEF DistancesInv
<1>3. ASSUME NEW route \in Route, Backed(route) PROVE Backed(route)'
  BY <1>2, <1>3, BackedStays
<1>4. ASSUME NEW e \in Devices, NEW route \in Route, Offered(route, e)'
      PROVE  Backed(route)
  <2>1. CASE Offered(route, e)
    BY <2>1 DEF BackedInv, OffersBacked
  <2>2. ASSUME NEW r \in Routers, NEW i \in DOMAIN table[r],
               route.net = table[r][i].net, route.distance = table[r][i].distance
        PROVE  Backed(route)
    <3>1. Backed(table[r][i])
      BY DEF BackedInv, TablesBacked
    <3> QED BY <2>2, <3>1 DEF Backed
  <2> QED BY <1>1, <1>4, <2>1, <2>2, OfferOrigin
<1>5. OffersBacked'
  BY <1>3, <1>4 DEF OffersBacked
<1>6. ASSUME NEW r \in Routers, NEW i \in DOMAIN table'[r]
      PROVE  Backed(table[r][i])'
  <2>1. table'[r][i] \in Route
    BY <1>2 DEF TypeOK
  <2>2. CASE i \in DOMAIN table[r] /\ table'[r][i] = table[r][i]
    <3>1. PICK route \in Route : route = table'[r][i]
      BY <2>1
    <3>2. Backed(route)
      BY <2>2, <3>1 DEF BackedInv, TablesBacked
    <3>3. Backed(route)'
      BY <1>3, <3>2
    <3> QED BY <3>1, <3>3 DEF Backed, Knowing, KnowsWithin
  <2>3. ASSUME NEW d \in Devices, NEW offer \in Route, todo[d] # <<>>, offer = Head(todo[d]),
               table'[r][i] = Incremented(offer),
               \A k \in DOMAIN table[r] :
                 table[r][k].net = offer.net => offer.distance + 1 < table[r][k].distance
        PROVE  Backed(table[r][i])'
    <3>1. 1 \in DOMAIN todo[d] /\ offer = todo[d][1]
      <4>1. todo[d] \in Seq(Route)
        BY <1>2 DEF TypeOK
      <4> QED BY <2>3, <4>1
    <3>2. Backed(offer)
      BY <3>1 DEF BackedInv, OffersBacked, Offered
    <3> QED BY <1>1, <2>3, <3>2, MergedBacked
  <2> QED BY <1>1, <2>2, <2>3, EntryOrigin
<1>7. TablesBacked'
  BY <1>6 DEF TablesBacked
<1> QED BY <1>1, <1>5, <1>7 DEF BackedInv

(* With n routers no distance exceeds n, whatever is lost, late or out of  *)
(* order: updateRoutingTable never counts up.                              *)
THEOREM NoCountingUp ==
  ASSUME TablesFit
  PROVE  Spec => []DistancesBounded
<1>1. Init => BackedInv
  <2> SUFFICES ASSUME Init PROVE BackedInv
    OBVIOUS
  <2>1. OffersBacked
    BY DEF Init, OffersBacked, Offered
  <2>2. ASSUME NEW r \in Routers, NEW i \in DOMAIN table[r]
        PROVE  Backed(table[r][i])
    <3> DEFINE K == Knowing(table[r][i].net, table[r][i].distance)
    <3>1. table[r][i].distance = 1
      BY ConfigAssumption DEF Init, ConfigAssumption
    <3>2. r \in K
      BY <3>1 DEF Knowing, KnowsWithin
    <3>3. IsFiniteSet(K)
      <4>1. K \subseteq Routers
        BY DEF Knowing
      <4> QED BY <4>1, ConfigAssumption, FS_Subset DEF ConfigAssumption
    <3> HIDE DEF K
    <3>4. Cardinality(K) \in Nat /\ Cardinality(K) # 0
      BY <3>2, <3>3, FS_CardinalityType, FS_EmptySet
    <3>5. Cardinality(K) >= 1
      BY <3>4
    <3> QED BY <3>1, <3>5 DEF Backed, K
  <2>3. TablesBacked
    BY <2>2 DEF TablesBacked
  <2> QED BY <2>1, <2>3, DistancesInvInit DEF BackedInv
<1>2. BackedInv /\ [Next]_vars => BackedInv'
  BY BackedInvStays
<1>3. BackedInv => DistancesBounded
  <2> SUFFICES ASSUME BackedInv, NEW r \in Routers, NEW i \in DOMAIN table[r]
               PROVE  table[r][i].distance <= Cardinality(Routers)
    BY DEF DistancesBounded
  <2> DEFINE K == Knowing(table[r][i].net, table[r][i].distance)
  <2>1. Cardinality(K) >= table[r][i].distance
    BY DEF BackedInv, TablesBacked, Backed
  <2>2. K \subseteq Routers /\ IsFiniteSet(Routers)
    BY ConfigAssumption DEF Knowing, ConfigAssumption
  <2>3. table[r][i] \in Route
    BY DEF BackedInv, DistancesInv, TypeOK
  <2>4. table[r][i].distance \in Nat
    BY <2>3 DEF Route
  <2> HIDE DEF K
  <2>5. /\ Cardinality(K) <= Cardinality(Routers)
        /\ Cardinality(K) \in Nat /\ Cardinality(Routers) \in Nat
    BY <2>2, FS_Subset, FS_CardinalityType
  <2> QED BY <2>1, <2>4, <2>5
<1> QED BY <1>1, <1>2, <1>3, PTL DEF Spec

-----------------------------------------------------------------------------
(* The exchange implements RouteLearning.                                  *)

(* In a table without duplicates the search finds the entry of a network.  *)
LEMMA TheMatch ==
  ASSUME NEW routes \in Seq(Route),
         \A i, j \in DOMAIN routes : routes[i].net = routes[j].net => i = j,
         NEW i \in DOMAIN routes
  PROVE  FirstMatch(routes, routes[i].net) = i
<1>1. i \in Matches(routes, routes[i].net)
  BY DEF Matches
<1>2. FirstMatch(routes, routes[i].net) \in Matches(routes, routes[i].net)
  BY <1>1, FirstMatchIsMatch
<1> QED BY <1>2 DEF Matches

(* The configured tables are the initial knowledge.                        *)
LEMMA InitLearnt == Init => Learning!Init
<1> SUFFICES ASSUME Init
             PROVE  Best = [r \in Routers |-> [n \in ConfiguredNets[r] |->
                                                 [distance |-> 1, hop |-> r]]]
  BY DEF Learning!Init
<1>1. \A r \in Routers : Listed(r) = ConfiguredNets[r]
  BY DEF Init, Listed, ConfiguredNets
<1>2. ASSUME NEW r \in Routers, NEW n \in Listed(r)
      PROVE  AsLearnt(r, table[r][FirstMatch(table[r], n)]) = [distance |-> 1, hop |-> r]
  <2>1. table[r] \in Seq(Route) /\ table[r] = ConfigTable[r]
    BY ConfigAssumption DEF Init, ConfigAssumption
  <2>2. FirstMatch(table[r], n) \in DOMAIN table[r]
    BY <1>2, <2>1, FirstMatchIsMatch DEF Listed, Matches
  <2>3. /\ table[r][FirstMatch(table[r], n)].passerelle = NoGateway
        /\ table[r][FirstMatch(table[r], n)].distance = 1
    BY <2>1, <2>2, ConfigAssumption DEF ConfigAssumption
  <2> QED BY <2>3 DEF AsLearnt
<1> QED BY <1>1, <1>2 DEF Best

(* A step that merges a route learns one network from one neighbour, or    *)
(* changes no table; every other step changes no table.                    *)
LEMMA StepLearnt ==
  ASSUME DistancesInv, DistancesInv', [Next]_vars
  PROVE  [Learning!Next]_Best
<1>1. CASE table' = table
  <2>1. Best' = Best
    BY <1>1 DEF Best, Listed, AsLearnt
  <2> QED BY <2>1
<1>2. CASE table' # table
  <2>1. /\ TypeOK /\ UniqueNets /\ TypeOK' /\ UniqueNets'
    BY DEF DistancesInv
  <2>2. PICK d0 \in Devices : MergeRoute(d0)
    BY <1>2, OnlyMergesWrite
  <2> DEFINE r == RouterOf[d0]
  <2>3. r \in Routers /\ \A s \in Routers : s # r => table'[s] = table[s]
    BY <2>1, <2>2, MergeStep
  <2>4. table[r] \in Seq(Route) /\ table'[r] \in Seq(Route)
    BY <2>1, <2>3 DEF TypeOK
  <2> HIDE DEF r
  <2>5. \A s \in Routers : s # r => Listed(s)' = Listed(s) /\ Best'[s] = Best[s]
    BY <2>3 DEF Best, Listed, AsLearnt
  <2>6. PICK i \in DOMAIN table'[r] : ~ (i \in DOMAIN table[r] /\ table'[r][i] = table[r][i])
    <3> SUFFICES ASSUME \A i \in DOMAIN table'[r] :
                          i \in DOMAIN table[r] /\ table'[r][i] = table[r][i]
                 PROVE  FALSE
      OBVIOUS
    <3>1. \A i \in DOMAIN table[r] : i \in DOMAIN table'[r]
      BY <2>1, <2>3, StepImproves
    <3>2. table'[r] = table[r]
      BY <2>4, <3>1
    <3>3. table' = table
      BY <2>1, <2>3, <3>2 DEF TypeOK
    <3> QED BY <1>2, <3>3
  <2>7. PICK d \in Devices, route \in Route :
          /\ RouterOf[d] = r
          /\ Sound(route, d)
          /\ RouterOf[route.passerelle] # r
          /\ table'[r][i] = Incremented(route)
          /\ \A k \in DOMAIN table[r] :
               table[r][k].net = route.net => route.distance + 1 < table[r][k].distance
          /\ \A k \in DOMAIN table[r] \ {i} : k \in DOMAIN table'[r] /\ table'[r][k] = table[r][k]
          /\ DOMAIN table'[r] = DOMAIN table[r] \cup {i}
    BY <2>3, <2>6, EntryOrigin
  <2> DEFINE h == RouterOf[route.passerelle]
             n == route.net
             new == [distance |-> route.distance + 1, hop |-> h]
  <2>8. /\ table'[r][i].net = n /\ table'[r][i].passerelle = route.passerelle
        /\ table'[r][i].distance = route.distance + 1 /\ route.distance \in Nat
        /\ route.passerelle \in Devices /\ route.passerelle # NoGateway
    BY <2>7, IncrementedType, ConfigAssumption DEF Sound, ConfigAssumption
  <2>9. h \in Neighbours[r]
    <3>1. h \in Routers
      BY <2>8, ConfigAssumption DEF ConfigAssumption
    <3>2. Linked(r, h)
      BY <2>7 DEF Linked, Sound
    <3> QED BY <2>3, <2>7, <3>1, <3>2 DEF Neighbours
  <2>10. \A s \in Routers : \A k \in DOMAIN table[s] :
           /\ table[s][k].net \in DOMAIN Best[s]
           /\ Best[s][table[s][k].net] = AsLearnt(s, table[s][k])
    <3> SUFFICES ASSUME NEW s \in Routers, NEW k \in DOMAIN table[s]
                 PROVE  /\ table[s][k].net \in DOMAIN Best[s]
                        /\ Best[s][table[s][k].net] = AsLearnt(s, table[s][k])
      OBVIOUS
    <3>1. FirstMatch(table[s], table[s][k].net) = k
      BY <2>1, TheMatch DEF TypeOK, UniqueNets
    <3> QED BY <3>1 DEF Best, Listed
  <2>11. \A k \in DOMAIN table'[r] :
           /\ table'[r][k].net \in DOMAIN Best'[r]
           /\ Best'[r][table'[r][k].net] = AsLearnt(r, table'[r][k])
    <3> SUFFICES ASSUME NEW k \in DOMAIN table'[r]
                 PROVE  /\ table'[r][k].net \in DOMAIN Best'[r]
                        /\ Best'[r][table'[r][k].net] = AsLearnt(r, table'[r][k])
      OBVIOUS
    <3>1. \A j, l \in DOMAIN table'[r] : table'[r][j].net = table'[r][l].net => j = l
      BY <2>1, <2>3 DEF UniqueNets
    <3>2. FirstMatch(table'[r], table'[r][k].net) = k
      BY <2>4, <3>1, TheMatch
    <3> QED BY <2>3, <3>2 DEF Best, Listed, AsLearnt
  <2>12. n \in DOMAIN Best'[r] /\ Best'[r][n] = new
    <3>1. i \in DOMAIN table'[r] /\ AsLearnt(r, table'[r][i]) = new
      BY <2>6, <2>8 DEF AsLearnt
    <3> QED BY <2>8, <2>11, <3>1
  <2>13. n \in DOMAIN Best[h] /\ new.distance > Best[h][n].distance
    <3>1. PICK k \in DOMAIN table[h] :
            table[h][k].net = n /\ table[h][k].distance <= route.distance
      BY <2>7 DEF Sound, KnowsWithin
    <3>2. h \in Routers
      BY <2>3, <2>9 DEF Neighbours
    <3>3. table[h][k] \in Route
      BY <2>1, <3>2 DEF TypeOK
    <3>4. table[h][k].distance \in Nat
      BY <3>3 DEF Route
    <3> HIDE DEF h, n, new
    <3>5. n \in DOMAIN Best[h] /\ Best[h][n] = AsLearnt(h, table[h][k])
      BY <2>10, <3>1, <3>2
    <3>6. Best[h][n].distance = table[h][k].distance
      BY <3>5 DEF AsLearnt
    <3>7. route.distance + 1 > table[h][k].distance
      BY <2>8, <3>1, <3>4
    <3> QED BY <3>5, <3>6, <3>7 DEF new
  <2>14. n \in DOMAIN Best[r] => new.distance < Best[r][n].distance
    <3> SUFFICES ASSUME n \in DOMAIN Best[r] PROVE new.distance < Best[r][n].distance
      OBVIOUS
    <3>1. PICK k \in DOMAIN table[r] : table[r][k].net = n
      BY <2>3 DEF Best, Listed
    <3>2. route.distance + 1 < table[r][k].distance
      BY <2>7, <3>1
    <3> HIDE DEF n
    <3>3. Best[r][n] = AsLearnt(r, table[r][k])
      BY <2>3, <2>10, <3>1
    <3>4. Best[r][n].distance = table[r][k].distance
      BY <3>3 DEF AsLearnt
    <3> QED BY <3>2, <3>4
  <2> DEFINE after == [m \in DOMAIN Best[r] \cup {n} |-> IF m = n THEN new ELSE Best[r][m]]
  <2>15. Best'[r] = after
    <3>1. \A k \in DOMAIN table[r] : table'[r][k].net = table[r][k].net
      BY <2>1, <2>3, StepImproves
    <3>2. DOMAIN Best[r] = Listed(r) /\ DOMAIN Best'[r] = Listed(r)'
      BY <2>3 DEF Best
    <3>3. Listed(r)' = Listed(r) \cup {n}
      <4>1. DOMAIN table'[r] = DOMAIN table[r] \cup {i} /\ table'[r][i].net = n
        BY <2>7, <2>8
      <4> HIDE DEF n
      <4>2. Listed(r)' = {table'[r][k].net : k \in DOMAIN table'[r]}
        BY <2>3 DEF Listed
      <4>3. Listed(r) = {table[r][k].net : k \in DOMAIN table[r]}
        BY DEF Listed
      <4>4. ASSUME NEW k \in DOMAIN table'[r]
            PROVE  table'[r][k].net \in Listed(r) \cup {n}
        BY <3>1, <4>1, <4>3
      <4>5. ASSUME NEW k \in DOMAIN table[r]
            PROVE  table[r][k].net \in Listed(r)'
        BY <3>1, <4>1, <4>2
      <4>6. n \in Listed(r)'
        BY <4>1, <4>2
      <4> QED BY <4>2, <4>3, <4>4, <4>5, <4>6
    <3>4. ASSUME NEW m \in Listed(r), m # n
          PROVE  Best'[r][m] = Best[r][m]
      <4>1. PICK k \in DOMAIN table[r] : table[r][k].net = m
        BY <3>4 DEF Listed
      <4>2. k # i
        <5>1. table'[r][k].net = m
          BY <3>1, <4>1
        <5>2. table'[r][i].net = n
          BY <2>8
        <5> QED BY <3>4, <5>1, <5>2
      <4>3. k \in DOMAIN table'[r] /\ table'[r][k] = table[r][k]
        BY <2>7, <4>2
      <4> QED BY <2>3, <2>10, <2>11, <4>1, <4>3
    <3>5. Best'[r] = [m \in Listed(r)' |-> Best'[r][m]]
      BY <2>3 DEF Best
    <3> HIDE DEF n, new
    <3> QED BY <2>12, <3>2, <3>3, <3>4, <3>5
  <2>16. Best' = [Best EXCEPT ![r] = after]
    <3>1. Best = [s \in Routers |-> Best[s]] /\ Best' = [s \in Routers |-> Best'[s]]
      BY DEF Best
    <3> HIDE DEF after
    <3> QED BY <2>5, <2>15, <3>1
  <2>17. Learning!Learn(r, n, h)
    <3>1. new.distance \in Nat /\ new.hop = h
      BY <2>8
    <3>2. Best' = [Best EXCEPT ![r] = [m \in DOMAIN Best[r] \cup {n} |->
                                         IF m = n THEN Best'[r][n] ELSE Best[r][m]]]
      BY <2>12, <2>16
    <3> HIDE DEF n, new, h, after
    <3> QED BY <2>12, <2>13, <2>14, <3>1, <3>2 DEF Learning!Learn, Learning!Improves
  <2> QED BY <2>3, <2>9, <2>13, <2>17 DEF Learning!Next
<1> QED BY <1>1, <1>2

(* The exchange of the tables, with its copies, sockets, losses and delays,*)
(* is a distributed shortest-path computation.                             *)
THEOREM Refinement ==
  ASSUME TablesFit
  PROVE  Spec => ImplementsRouteLearning
<1>1. DistancesInv /\ DistancesInv' /\ [Next]_vars => [Learning!Next]_Best
  BY StepLearnt
<1> QED
  BY <1>1, InitLearnt, DistancesInvHolds, PTL DEF Spec, ImplementsRouteLearning, Learning!Spec

=============================================================================
