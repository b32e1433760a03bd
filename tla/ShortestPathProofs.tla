-------------------------- MODULE ShortestPathProofs --------------------------
(***************************************************************************)
(* NoShortcut of MCRouteExchange for every topology: the distances that    *)
(* its instances are compared with, the lengths of the shortest paths as   *)
(* far as three networks, underestimate what the topology allows.          *)
(***************************************************************************)
EXTENDS MCRouteExchange, RouteExchangeProofs

(* The pairs at distance k or less, for k one of 1, 2 and 3.               *)
LEMMA WithinSteps ==
  /\ \A r \in Routers : \A i \in DOMAIN ConfigTable[r] : <<r, ConfigTable[r][i].net>> \in Within[1]
  /\ \A k \in {1, 2} : Within[k] \subseteq Within[k + 1]
  /\ \A k \in {1, 2} : \A r, s \in Routers : \A n \in Nets :
       Linked(r, s) /\ <<s, n>> \in Within[k] => <<r, n>> \in Within[k + 1]
<1>1. Within[2] = Farther(Within[1]) /\ Within[3] = Farther(Within[2])
  BY DEF Within
<1>2. \A P : P \subseteq Farther(P)
  BY DEF Farther
<1>3. \A P : \A r, s \in Routers : \A n \in Nets :
        Linked(r, s) /\ <<s, n>> \in P => <<r, n>> \in Farther(P)
  BY DEF Farther
<1>4. ASSUME NEW r \in Routers, NEW i \in DOMAIN ConfigTable[r]
      PROVE  <<r, ConfigTable[r][i].net>> \in Within[1]
  <2>1. ConfigTable[r][i] \in Route
    BY ConfigAssumption DEF ConfigAssumption
  <2>2. ConfigTable[r][i].net \in Nets
    BY <2>1 DEF Route
  <2> QED BY <2>2 DEF Within
<1> QED BY <1>1, <1>2, <1>3, <1>4

(* What ShortestDistance is, case by case.                                 *)
LEMMA DistanceCases ==
  /\ ShortestDistance \in [Routers -> [Nets -> 1..4]]
  /\ \A r \in Routers : \A n \in Nets :
       ShortestDistance[r][n] =
         IF <<r, n>> \in Within[1] THEN 1
         ELSE IF <<r, n>> \in Within[2] THEN 2
         ELSE IF <<r, n>> \in Within[3] THEN 3 ELSE 4
<1>1. ASSUME NEW r \in Routers, NEW n \in Nets
      PROVE  ShortestDistance[r][n] =
               IF <<r, n>> \in Within[1] THEN 1
               ELSE IF <<r, n>> \in Within[2] THEN 2
               ELSE IF <<r, n>> \in Within[3] THEN 3 ELSE 4
  <2> DEFINE in(j) == <<r, n>> \in Within[j]
             Is(k) == (k = 4 \/ in(k)) /\ \A j \in 1..3 : in(j) => k <= j
             shortest == IF in(1) THEN 1 ELSE IF in(2) THEN 2 ELSE IF in(3) THEN 3 ELSE 4
  <2> HIDE DEF in
  <2>1. shortest \in 1..4 /\ Is(shortest)
    OBVIOUS
  <2>2. \A k \in 1..4 : Is(k) => k = shortest
    OBVIOUS
  <2> HIDE DEF Is, shortest
  <2>3. (CHOOSE k \in 1..4 : Is(k)) = shortest
    BY <2>1, <2>2
  <2>4. ShortestDistance[r][n] = CHOOSE k \in 1..4 : Is(k)
    BY Zenon DEF ShortestDistance, Is, in
  <2> QED BY <2>3, <2>4 DEF shortest, in
<1>2. \A r \in Routers : \A n \in Nets : ShortestDistance[r][n] \in 1..4
  <2>1. {1, 2, 3, 4} = 1..4
    OBVIOUS
  <2>2. \A r \in Routers : \A n \in Nets : ShortestDistance[r][n] \in {1, 2, 3, 4}
    BY <1>1, Zenon
  <2> QED BY <2>1, <2>2
<1>3. ShortestDistance \in [Routers -> [Nets -> 1..4]]
  <2> DEFINE d(r, n) == ShortestDistance[r][n]
  <2>1. ShortestDistance = [r \in Routers |-> [n \in Nets |-> d(r, n)]]
    BY DEF ShortestDistance
  <2>2. \A r \in Routers : \A n \in Nets : d(r, n) \in 1..4
    BY <1>2
  <2> HIDE DEF d
  <2> QED BY <2>1, <2>2
<1> QED BY <1>1, <1>3

(* A shortest distance is at most one more than a neighbour's.             *)
LEMMA ShortestUnderestimates == IsLowerBound(ShortestDistance)
<1> DEFINE h == ShortestDistance
<1>1. h \in [Routers -> [Nets -> Nat]]
  <2>1. 1..4 \subseteq Nat
    OBVIOUS
  <2> QED BY <2>1, DistanceCases
<1>2. ASSUME NEW r \in Routers, NEW i \in DOMAIN ConfigTable[r]
      PROVE  h[r][ConfigTable[r][i].net] <= 1
  <2>1. ConfigTable[r][i] \in Route
    BY ConfigAssumption DEF ConfigAssumption
  <2>2. ConfigTable[r][i].net \in Nets
    BY <2>1 DEF Route
  <2>3. h[r][ConfigTable[r][i].net] = 1
    BY <2>2, WithinSteps, DistanceCases
  <2> QED BY <2>3
<1>3. ASSUME NEW r \in Routers, NEW s \in Routers, NEW n \in Nets, Linked(r, s)
      PROVE  h[r][n] <= h[s][n] + 1
  <2> DEFINE P == Within[1]
             Q == Within[2]
             R == Within[3]
  <2>1. /\ <<s, n>> \in P => <<r, n>> \in Q
        /\ <<s, n>> \in Q => <<r, n>> \in R
        /\ P \subseteq Q /\ Q \subseteq R
    BY <1>3, WithinSteps
  <2>2. /\ h[r][n] = IF <<r, n>> \in P THEN 1 ELSE IF <<r, n>> \in Q THEN 2
                     ELSE IF <<r, n>> \in R THEN 3 ELSE 4
        /\ h[s][n] = IF <<s, n>> \in P THEN 1 ELSE IF <<s, n>> \in Q THEN 2
                     ELSE IF <<s, n>> \in R THEN 3 ELSE 4
    BY DistanceCases
  <2> HIDE DEF P, Q, R, h
  <2> QED BY <2>1, <2>2
<1> QED BY <1>1, <1>2, <1>3 DEF IsLowerBound

(* No route is ever shorter than a shortest path through the topology: what*)
(* the routers tell each other may be out of date, never too good.         *)
THEOREM NeverShorterThanAPath ==
  ASSUME TablesFit
  PROVE  Spec => []NoShortcut
<1> DEFINE h == ShortestDistance
<1>1. IsLowerBound(h)
  BY ShortestUnderestimates
<1>2. Init => NoShorterThan(h)
  BY <1>1, ConfigAssumption DEF Init, NoShorterThan, IsLowerBound, ConfigAssumption
<1>3. DistancesInv /\ NoShorterThan(h) /\ [Next]_vars => NoShorterThan(h)'
  <2> HIDE DEF h
  <2> QED BY <1>1, LowerBoundStays
<1>4. NoShorterThan(h) => NoShortcut
  BY DEF NoShortcut
<1> QED BY <1>2, <1>3, <1>4, DistancesInvHolds, PTL DEF Spec

=============================================================================
