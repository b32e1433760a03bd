-------------------------- MODULE MergeInOrderProofs --------------------------
(***************************************************************************)
(* Proof that the table one listener merges into implements MergeInOrder:  *)
(* the accesses of updateRoutingTable, interleaved with those of any       *)
(* number of readers, amount to one step per route.                        *)
(*                                                                         *)
(* The step is taken when the search finds the network listed, or when     *)
(* num_route counts the appended entry; everything else stutters.          *)
(***************************************************************************)
EXTENDS SharedTableProofs

(* The refinement mapping in terms of the one listener: entry i of the     *)
(* table, and what is left to merge.                                       *)
Seen(i) == IF pc[Listener] \in Replaces /\ i = Found THEN Merging ELSE Array[i]
View == [i \in 1 .. num |-> Seen(i)]
Left == IF pc[Listener] \in Replaces THEN Tail(todo[Listener]) ELSE todo[Listener]

LEMMA MappingOfOne ==
  ASSUME SingleListener
  PROVE  /\ Listed = View /\ Listed' = View'
         /\ Unmerged = [l \in Listeners |-> Left] /\ Unmerged' = [l \in Listeners |-> Left']
<1>1. Listeners = {Listener}
  BY DEF SingleListener
<1>2. /\ (Assigning = {}) <=> (pc[Listener] # "assign")
      /\ Assigning # {} => Assigning = {Listener}
      /\ (Assigning' = {}) <=> (pc'[Listener] # "assign")
      /\ Assigning' # {} => Assigning' = {Listener}
  BY <1>1 DEF Assigning
<1>3. \A i : /\ (Replacers(i) # {}) <=> (pc[Listener] \in Replaces /\ Found = i)
             /\ Replacers(i) # {} => Replacers(i) = {Listener}
  BY <1>1 DEF Replacers, Replacing, Replaces, Found
<1>4. \A i : /\ (Replacers(i)' # {}) <=> (pc'[Listener] \in Replaces /\ Found' = i)
             /\ Replacers(i)' # {} => Replacers(i)' = {Listener}
  BY <1>1 DEF Replacers, Replacing, Replaces, Found
<1>5. (CHOOSE l \in {Listener} : TRUE) = Listener
  OBVIOUS
<1>6. Listed = View
  <2> DEFINE block == IF Assigning = {} THEN base ELSE fresh[CHOOSE l \in Assigning : TRUE]
             new(i) == New(CHOOSE l \in Replacers(i) : TRUE)
  <2>1. block = Current
    BY <1>2, <1>5 DEF Current
  <2>2. \A i : Replacers(i) # {} => new(i) = Merging
    BY <1>3, <1>5 DEF Merging
  <2>3. Listed = [i \in 1 .. num |-> IF Replacers(i) = {} THEN blocks[block][i] ELSE new(i)]
    BY DEF Listed
  <2> HIDE DEF block, new
  <2> QED
    BY <1>3, <2>1, <2>2, <2>3 DEF View, Seen, Array
<1>7. Listed' = View'
  <2> DEFINE block == IF Assigning' = {} THEN base' ELSE fresh'[CHOOSE l \in Assigning' : TRUE]
             new(i) == New(CHOOSE l \in Replacers(i) : TRUE)'
  <2>1. block = Current'
    BY <1>2, <1>5 DEF Current
  <2>2. \A i : Replacers(i)' # {} => new(i) = Merging'
    BY <1>4, <1>5 DEF Merging, New
  <2>3. Listed' = [i \in 1 .. num' |->
                     IF Replacers(i)' = {} THEN blocks'[block][i] ELSE new(i)]
    BY DEF Listed
  <2> HIDE DEF block, new
  <2> QED
    BY <1>4, <2>1, <2>2, <2>3 DEF View, Seen, Array
<1>8. /\ Unmerged = [l \in Listeners |-> Left] /\ Unmerged' = [l \in Listeners |-> Left']
  BY <1>1 DEF Unmerged, Replacing, Replaces, Left
<1> QED
  BY <1>6, <1>7, <1>8

(* An access that changes no entry as the mapping sees it.                 *)
LEMMA SeenUnchanged ==
  ASSUME SingleListener, UNCHANGED <<num, Left>>,
         \A i \in 1 .. num : Seen(i)' = Seen(i)
  PROVE  UNCHANGED <<Listed, Unmerged>>
<1>1. View' = View
  BY DEF View
<1> QED
  BY <1>1, MappingOfOne

-----------------------------------------------------------------------------
(* What the merge makes of a table.                                        *)

(* The entry the search stops at is the first for its network.             *)
LEMMA SearchedFirst ==
  ASSUME NEW n \in Nat, NEW routes, DOMAIN routes = 1 .. n, NEW net,
         NEW i \in 1 .. n, routes[i].net = net,
         \A j \in 1 .. i - 1 : routes[j].net # net
  PROVE  /\ InOrder!Matches(routes, net) # {}
         /\ InOrder!FirstMatch(routes, net) = i
<1>1. i \in InOrder!Matches(routes, net)
  BY DEF InOrder!Matches
<1>2. \A j \in InOrder!Matches(routes, net) : i <= j
  BY DEF InOrder!Matches
<1>3. \A j \in InOrder!Matches(routes, net) :
        (\A k \in InOrder!Matches(routes, net) : j <= k) => j = i
  <2> SUFFICES ASSUME NEW j \in InOrder!Matches(routes, net), j <= i
               PROVE  j = i
    BY <1>1
  <2> QED
    BY <1>2 DEF InOrder!Matches
<1> QED
  BY <1>1, <1>2, <1>3 DEF InOrder!FirstMatch
(* A listed network: the entry is replaced when the new route is shorter.  *)
LEMMA MergedListed ==
  ASSUME NEW n \in Nat, NEW routes, DOMAIN routes = 1 .. n, NEW new,
         NEW i \in 1 .. n, routes[i].net = new.net,
         \A j \in 1 .. i - 1 : routes[j].net # new.net
  PROVE  InOrder!Merged(routes, new) = IF new.distance < routes[i].distance
                                       THEN [routes EXCEPT ![i] = new]
                                       ELSE routes
<1>1. InOrder!Matches(routes, new.net) # {} /\ InOrder!FirstMatch(routes, new.net) = i
  BY SearchedFirst
<1> QED
  BY <1>1, Zenon DEF InOrder!Merged

(* A network not listed: the route is appended.                            *)
LEMMA MergedAppended ==
  ASSUME NEW n \in Nat, NEW routes, DOMAIN routes = 1 .. n, NEW new,
         \A i \in 1 .. n : routes[i].net # new.net
  PROVE  InOrder!Merged(routes, new) = Append(routes, new)
BY DEF InOrder!Merged, InOrder!Matches

-----------------------------------------------------------------------------
(* The steps of the listener.                                              *)

(* While a route is merged, the listener has one at hand.                  *)
LEMMA LeftToMerge ==
  ASSUME SingleListener, TableTypeOK, MergeInv, pc[Listener] \notin Replaces,
         pc[Listener] # "done"
  PROVE  Left # <<>> /\ Head(Left) = Merging
BY MergingKnown DEF Left, MergeInv, Merging, New

(* The listed route stays: a merge that leaves the table as it is.         *)
LEMMA KeepMerges ==
  ASSUME SingleListener, TableTypeOK, MergeInv, Keep(Listener)
  PROVE  InOrder!Merge(Listener)
<1>1. /\ pc[Listener] = "search" /\ index[Listener] <= num
      /\ NextRoute(Listener)
      /\ UNCHANGED <<blocks, base, num, entry, fresh>>
  BY DEF Keep, Step, shared
<1>2. /\ Array[index[Listener]].net = Merging.net
      /\ ~(Merging.distance < Array[index[Listener]].distance)
  BY <1>1 DEF Keep, At, Place, Array, Current, Merging
<1>3. num \in Nat /\ index[Listener] \in 1 .. num
  BY <1>1, ListenerKinds DEF TableTypeOK
<1>4. \A j \in 1 .. index[Listener] - 1 : Array[j].net # Merging.net
  BY <1>1 DEF MergeInv, Progress
<1>5. pc'[Listener] \in {"search", "done"} /\ todo'[Listener] = Tail(todo[Listener])
  BY <1>1, NextRouteMoves, ListenerKinds DEF MergeInv, NextRoute, TableTypeOK
<1>6. View = [i \in 1 .. num |-> Array[i]] /\ View' = View
  <2>1. UNCHANGED Array
    BY <1>1, <1>5 DEF Array, Current
  <2> QED
    BY <1>1, <1>5, <2>1 DEF View, Seen, Replaces
<1>7. InOrder!Merged(View, Merging) = View
  <2> HIDE DEF View
  <2>1. DOMAIN View = 1 .. num /\ \A i \in 1 .. num : View[i] = Array[i]
    BY <1>6
  <2>2. /\ View[index[Listener]].net = Merging.net
        /\ \A j \in 1 .. index[Listener] - 1 : View[j].net # Merging.net
        /\ ~(Merging.distance < View[index[Listener]].distance)
    BY <1>2, <1>3, <1>4, <2>1
  <2> QED
    BY <1>3, <2>1, <2>2, MergedListed
<1>8. Left' = Tail(Left) /\ Left # <<>> /\ Head(Left) = Merging
  BY <1>1, <1>5, LeftToMerge DEF Left, Replaces
<1> QED
  BY <1>6, <1>7, <1>8, MappingOfOne, ListenerKinds DEF InOrder!Merge

(* The listed route is longer: from now on it counts as replaced.          *)
LEMMA ReplaceMerges ==
  ASSUME SingleListener, TableTypeOK, MergeInv, Replace(Listener)
  PROVE  InOrder!Merge(Listener)
<1>1. /\ pc[Listener] = "search" /\ index[Listener] <= num
      /\ pc' = [pc EXCEPT ![Listener] = "shorten"]
      /\ entry' = [entry EXCEPT ![Listener] = <<base, index[Listener]>>]
      /\ UNCHANGED <<blocks, base, num, todo, fresh>>
  BY DEF Replace, Step, Goto, Place, shared
<1>2. /\ Array[index[Listener]].net = Merging.net
      /\ Merging.distance < Array[index[Listener]].distance
  BY <1>1 DEF Replace, At, Place, Array, Current, Merging
<1>3. num \in Nat /\ index[Listener] \in 1 .. num
  BY <1>1, ListenerKinds DEF TableTypeOK
<1>4. \A j \in 1 .. index[Listener] - 1 : Array[j].net # Merging.net
  BY <1>1 DEF MergeInv, Progress
<1>5. pc'[Listener] = "shorten" /\ Found' = index[Listener]
  BY <1>1, ListenerKinds DEF TableTypeOK, Found
<1>6. UNCHANGED <<Array, Merging>>
  BY <1>1, <1>5 DEF Array, Current, Merging, New
<1>7. /\ DOMAIN View = 1 .. num /\ \A i \in 1 .. num : View[i] = Array[i]
      /\ View' = [i \in 1 .. num |-> IF i = index[Listener] THEN Merging ELSE Array[i]]
  BY <1>1, <1>5, <1>6 DEF View, Seen, Replaces
<1>8. InOrder!Merged(View, Merging) = View'
  <2> DEFINE i == index[Listener]
  <2>1. /\ View[i].net = Merging.net /\ Merging.distance < View[i].distance
        /\ \A j \in 1 .. i - 1 : View[j].net # Merging.net
    BY <1>2, <1>3, <1>4, <1>7
  <2>2. InOrder!Merged(View, Merging) = [View EXCEPT ![i] = Merging]
    BY <1>3, <1>7, <2>1, MergedListed
  <2>3. [View EXCEPT ![i] = Merging] = [j \in 1 .. num |-> IF j = i THEN Merging ELSE Array[j]]
    BY <1>7
  <2> QED
    BY <1>7, <2>2, <2>3
<1>9. Left' = Tail(Left) /\ Left # <<>> /\ Head(Left) = Merging
  BY <1>1, <1>5, LeftToMerge DEF Left, Replaces
<1> QED
  BY <1>8, <1>9, MappingOfOne, ListenerKinds DEF InOrder!Merge

(* num_route counts the new entry: the route is appended.                  *)
LEMMA StoreCountMerges ==
  ASSUME SingleListener, TableTypeOK, MergeInv, StoreCount(Listener)
  PROVE  InOrder!Merge(Listener)
<1>1. /\ pc[Listener] = "store" /\ NextRoute(Listener)
      /\ UNCHANGED <<blocks, base, entry, fresh>>
  BY DEF StoreCount, Step
<1>2. num \in Nat /\ num' = num + 1
  BY StoreCountStays DEF TableTypeOK
<1>3. \A i \in 1 .. num : Array[i].net # Merging.net
  BY <1>1 DEF MergeInv, Progress, Appends, Fills
<1>4. Array[num + 1] = Merging
  BY <1>1, NewEntryFilled
<1>5. pc'[Listener] \in {"search", "done"} /\ todo'[Listener] = Tail(todo[Listener])
  BY <1>1, NextRouteMoves, ListenerKinds DEF MergeInv, NextRoute, TableTypeOK
<1>6. UNCHANGED Array
  BY <1>1, <1>5 DEF Array, Current
<1>7. /\ View = [i \in 1 .. num |-> Array[i]]
      /\ View' = [i \in 1 .. num + 1 |-> Array[i]]
  BY <1>1, <1>2, <1>5, <1>6 DEF View, Seen, Replaces
<1>8. InOrder!Merged(View, Merging) = View'
  <2>1. DOMAIN View = 1 .. num /\ \A i \in 1 .. num : View[i] = Array[i]
    BY <1>7
  <2>2. InOrder!Merged(View, Merging) = Append(View, Merging)
    BY <1>2, <1>3, <2>1, MergedAppended
  <2>3. Append(View, Merging) = [i \in 1 .. num + 1 |-> Array[i]]
    <3> DEFINE Any == {View[i] : i \in 1 .. num} \cup {Merging}
    <3>1. View \in Seq(Any) /\ Len(View) = num
      BY <1>2, <1>7
    <3> DEFINE longer == Append(View, Merging)
    <3> HIDE DEF Any, View
    <3>2. Merging \in Any
      BY DEF Any
    <3>3. /\ longer \in Seq(Any) /\ Len(longer) = num + 1 /\ longer[num + 1] = Merging
          /\ \A i \in 1 .. num : longer[i] = View[i]
      BY <3>1, <3>2, AppendProperties
    <3> HIDE DEF longer
    <3>4. longer = [i \in 1 .. num + 1 |-> longer[i]]
      BY <3>3
    <3>5. \A i \in 1 .. num + 1 : longer[i] = Array[i]
      BY <1>2, <1>4, <2>1, <3>3
    <3>6. longer = [i \in 1 .. num + 1 |-> Array[i]]
      BY <3>4, <3>5
    <3> QED
      BY <3>6 DEF longer
  <2> QED
    BY <1>7, <2>2, <2>3
<1>9. Left' = Tail(Left) /\ Left # <<>> /\ Head(Left) = Merging
  BY <1>1, <1>5, LeftToMerge DEF Left, Replaces
<1> QED
  BY <1>8, <1>9, MappingOfOne, ListenerKinds DEF InOrder!Merge
(* What a listener writes is a route again, if not a whole one.            *)
LEMMA WritesFields ==
  ASSUME NEW old \in Fields, NEW new \in Fields
  PROVE  /\ [old EXCEPT !.net = new.net] \in Fields
         /\ [old EXCEPT !.passerelle = new.passerelle] \in Fields
         /\ [old EXCEPT !.passerelle = Freed] \in Fields
         /\ [old EXCEPT !.distance = new.distance] \in Fields
<1> DEFINE Nets == {r.net : r \in Known} \cup {Garbage}
           Gates == {r.passerelle : r \in Known} \cup {Garbage, Freed}
           Lengths == Nat \cup {Garbage}
<1>1. /\ Fields = [net : Nets, passerelle : Gates, distance : Lengths] /\ Freed \in Gates
  BY DEF Fields
<1> HIDE DEF Nets, Gates, Lengths
<1> QED
  BY <1>1

(* The entry behind the last one is written, none that counts.             *)
LEMMA FillEntryKeeps ==
  ASSUME SingleListener, TableTypeOK, MergeInv, FillEntry(Listener)
  PROVE  \A i \in 1 .. num : Array'[i] = Array[i]
<1>1. pc[Listener] \in {"net", "passerelle", "distance"}
  BY DEF FillEntry, Fill, Step
<1>2. At(Place(Listener)) \in Fields /\ Merging \in Fields
  BY <1>1, ListenerPlace, MergingKnown, KnownRoutes DEF Fills, MergeInv
<1>3. PICK field \in {"net", "passerelle", "distance"}, then \in Fills, route \in Fields :
        Fill(Listener, field, route, then)
  BY <1>2, WritesFields DEF FillEntry, Merging, Fills
<1> QED
  BY <1>3, FillKeeps

LEMMA ReplacementPuts ==
  ASSUME SingleListener, TableTypeOK, MergeInv, Shorten(Listener) \/ FreeGateway(Listener)
  PROVE  \E route \in Fields : Put(<<base, Found>>, route)
<1>1. pc[Listener] \in Replaces /\ pc[Listener] # "done"
  BY DEF Shorten, FreeGateway, Step, Replaces
<1>2. Place(Listener) = <<base, Found>> /\ At(Place(Listener)) \in Fields
  BY <1>1, ListenerPlace
<1>3. New(Listener) \in Fields
  BY <1>1, MergingKnown, KnownRoutes DEF MergeInv, Merging
<1>4. \E route \in Fields : Put(Place(Listener), route)
  BY <1>2, <1>3, WritesFields DEF Shorten, FreeGateway
<1> QED
  BY <1>2, <1>4
(* A write to the entry that counts as replaced is not seen.               *)
LEMMA ReplacedUnseen ==
  ASSUME SingleListener, TableTypeOK, MergeInv,
         pc[Listener] \in Replaces, pc'[Listener] \in Replaces,
         UNCHANGED <<base, num, todo, entry>>,
         NEW route \in Fields, Put(<<base, Found>>, route)
  PROVE  UNCHANGED <<Listed, Unmerged>>
<1>1. Found \in DOMAIN Array /\ pc[Listener] # "assign" /\ pc'[Listener] # "assign"
  BY ListenerPlace DEF Replaces
<1>2. Array' = [Array EXCEPT ![Found] = route] /\ DOMAIN Array = 1 .. Len(Array)
  BY <1>1, PutInArray, ArrayType DEF MergeInv
<1>3. UNCHANGED <<Merging, Found, Left>>
  BY DEF Merging, New, Found, Left
<1>4. ASSUME NEW i \in 1 .. num
      PROVE  Seen(i)' = Seen(i)
  <2>1. CASE i = Found
    BY <1>3, <2>1 DEF Seen
  <2>2. CASE i # Found
    <3>1. Array'[i] = Array[i]
      BY <1>2, <1>4, <2>2, ArrayType DEF MergeInv
    <3> QED
      BY <1>3, <2>2, <3>1 DEF Seen
  <2> QED
    BY <2>1, <2>2
<1> QED
  BY <1>3, <1>4, SeenUnchanged

(* The last access of a replacement: the entry is the route it counted as. *)
LEMMA RenewGatewayUnseen ==
  ASSUME SingleListener, TableTypeOK, MergeInv, RenewGateway(Listener)
  PROVE  UNCHANGED <<Listed, Unmerged>>
<1> DEFINE new == [Array[Found] EXCEPT !.passerelle = Merging.passerelle]
<1>1. /\ pc[Listener] = "renew" /\ NextRoute(Listener)
      /\ Put(Place(Listener), [At(Place(Listener)) EXCEPT !.passerelle = New(Listener).passerelle])
      /\ UNCHANGED <<base, num, entry, fresh>>
  BY DEF RenewGateway, Step
<1>2. /\ Place(Listener) = <<base, Found>> /\ At(Place(Listener)) = Array[Found]
      /\ Found \in DOMAIN Array
  BY <1>1, ListenerPlace DEF Replaces
<1>3. new = Merging /\ Merging \in Fields
  BY <1>1, RenewedWhole
<1>4. Put(<<base, Found>>, Merging)
  BY <1>1, <1>2, <1>3 DEF Merging
<1>5. pc'[Listener] \in {"search", "done"} /\ todo'[Listener] = Tail(todo[Listener])
  BY <1>1, NextRouteMoves, ListenerKinds DEF MergeInv, NextRoute, TableTypeOK
<1>6. Array' = [Array EXCEPT ![Found] = Merging]
  BY <1>1, <1>2, <1>3, <1>4, <1>5, PutInArray DEF MergeInv
<1>7. ASSUME NEW i \in 1 .. num
      PROVE  Seen(i)' = Seen(i)
  BY <1>1, <1>2, <1>5, <1>6, <1>7, ArrayType DEF Seen, Replaces, MergeInv
<1>8. Left' = Left
  BY <1>1, <1>5 DEF Left, Replaces
<1> QED
  BY <1>1, <1>7, <1>8, SeenUnchanged

(* The entry being appended is not counted yet, nor is it seen where its   *)
(* array is.                                                               *)
LEMMA AppendingUnseen ==
  ASSUME SingleListener, TableTypeOK, MergeInv,
         pc[Listener] \notin Replaces, pc'[Listener] \notin Replaces,
         UNCHANGED <<num, todo>>, \A i \in 1 .. num : Array'[i] = Array[i]
  PROVE  UNCHANGED <<Listed, Unmerged>>
<1>1. Left' = Left /\ \A i \in 1 .. num : Seen(i)' = Seen(i)
  BY DEF Left, Seen
<1> QED
  BY <1>1, SeenUnchanged

LEMMA ListenMerges ==
  ASSUME SingleListener, TableTypeOK, MergeInv, NEW l \in Listeners, Listen(l)
  PROVE  InOrder!Next \/ UNCHANGED <<Listed, Unmerged>>
<1>1. l = Listener /\ l \in Threads /\ pc \in [Threads -> ListenerSteps \cup ReaderSteps]
  BY ListenerKinds DEF TableTypeOK
<1>2. \A s : Goto(l, s) => pc'[l] = s
  BY <1>1 DEF Goto
<1>3. CASE Keep(l) \/ Replace(l) \/ StoreCount(l)
  BY <1>1, <1>3, KeepMerges, ReplaceMerges, StoreCountMerges DEF InOrder!Next
<1>4. CASE Differs(l) \/ NotFound(l) \/ LoadCount(l) \/ Assign(l)
  <2>1. /\ pc[l] \notin Replaces /\ pc'[l] \notin Replaces /\ UNCHANGED <<blocks, num, todo>>
        /\ UNCHANGED Current
    BY <1>1, <1>2, <1>4
    DEF Differs, NotFound, LoadCount, Assign, Step, Replaces, shared, Current
  <2> QED
    BY <1>1, <2>1, AppendingUnseen DEF Array
<1>5. CASE \E moves \in BOOLEAN : Grow(l, moves)
  <2>1. /\ pc[l] \notin Replaces /\ pc'[l] \notin Replaces /\ UNCHANGED <<num, todo>>
    BY <1>2, <1>5 DEF Grow, Step, Replaces
  <2>2. \A i \in 1 .. num : Array'[i] = Array[i]
    BY <1>1, <1>5, GrowArray DEF MergeInv
  <2> QED
    BY <1>1, <2>1, <2>2, AppendingUnseen
<1>6. CASE FillEntry(l)
  <2>1. /\ pc[l] \notin Replaces /\ pc'[l] \notin Replaces /\ UNCHANGED <<num, todo>>
    BY <1>2, <1>6 DEF FillEntry, Fill, Step, Replaces
  <2>2. \A i \in 1 .. num : Array'[i] = Array[i]
    BY <1>1, <1>6, FillEntryKeeps
  <2> QED
    BY <1>1, <2>1, <2>2, AppendingUnseen
<1>7. CASE Shorten(l)
  <2>1. /\ pc[l] = "shorten" /\ pc'[l] = "free" /\ UNCHANGED <<base, num, todo, entry>>
    BY <1>2, <1>7 DEF Shorten, Step
  <2>2. \E route \in Fields : Put(<<base, Found>>, route)
    BY <1>1, <1>7, ReplacementPuts
  <2> QED
    BY <1>1, <2>1, <2>2, ReplacedUnseen DEF Replaces
<1>8. CASE FreeGateway(l)
  <2>1. /\ pc[l] = "free" /\ pc'[l] = "renew" /\ UNCHANGED <<base, num, todo, entry>>
    BY <1>2, <1>8 DEF FreeGateway, Step
  <2>2. \E route \in Fields : Put(<<base, Found>>, route)
    BY <1>1, <1>8, ReplacementPuts
  <2> QED
    BY <1>1, <2>1, <2>2, ReplacedUnseen DEF Replaces
<1>9. CASE RenewGateway(l)
  BY <1>1, <1>9, RenewGatewayUnseen
<1> QED
  BY <1>3, <1>4, <1>5, <1>6, <1>7, <1>8, <1>9 DEF Listen

-----------------------------------------------------------------------------
(* The readers are not seen at all.                                        *)

LEMMA ReadersUnseen ==
  ASSUME SingleListener,
         UNCHANGED <<blocks, base, num, todo, fresh, pc[Listener], entry[Listener]>>
  PROVE  UNCHANGED <<Listed, Unmerged>>
<1>1. UNCHANGED <<Array, Merging, Found, Left>>
  BY DEF Array, Current, Merging, New, Found, Left
<1>2. \A i \in 1 .. num : Seen(i)' = Seen(i)
  BY <1>1 DEF Seen
<1> QED
  BY <1>1, <1>2, SeenUnchanged

LEMMA OthersUnseen ==
  ASSUME SingleListener, TableTypeOK, NEW t \in Threads,
         \/ t \in Broadcasters /\ Copy(t)
         \/ t \in Forwarders /\ Forward(t)
         \/ Misbehave(t)
  PROVE  UNCHANGED <<Listed, Unmerged>>
<1>1. UNCHANGED <<blocks, base, num, todo, fresh>>
  BY DEF Copy, BeginCopy, PointTo, CopyRoute, EndCopy, Forward, LookAt, PassOver,
         TakeGateway, UseGateway, EndSearch, Misbehave, shared, locals
<1>2. UNCHANGED <<pc[Listener], entry[Listener]>>
  <2>1. CASE Misbehave(t)
    BY <2>1 DEF Misbehave, locals
  <2>2. CASE ~Misbehave(t)
    <3>1. t # Listener
      BY <2>2, ListenerKinds
    <3>2. /\ \A s : Goto(t, s) => pc'[Listener] = pc[Listener]
          /\ \A p : entry' = [entry EXCEPT ![t] = p] => entry'[Listener] = entry[Listener]
      BY <3>1, ListenerKinds DEF TableTypeOK, Goto
    <3> QED
      BY <2>2, <3>2
      DEF Copy, BeginCopy, PointTo, CopyRoute, EndCopy, Forward, LookAt, PassOver,
          TakeGateway, UseGateway, EndSearch
  <2> QED
    BY <2>1, <2>2
<1> QED
  BY <1>1, <1>2, ReadersUnseen

-----------------------------------------------------------------------------

LEMMA MappedInit ==
  ASSUME SingleListener, Init
  PROVE  InOrder!Init
<1>1. /\ blocks = <<Before>> /\ base = 1 /\ num = Len(Before) /\ todo = Offers
      /\ pc[Listener] = "search"
  BY ListenerKinds DEF Init
<1>2. Before \in Seq(Known) /\ Offers \in [Listeners -> Seq(Known) \ {<<>>}]
  BY RouteAssumption
<1>3. View = [i \in 1 .. Len(Before) |-> Before[i]]
  BY <1>1 DEF View, Seen, Array, Current, Replaces
<1>4. View = Before
  BY <1>2, <1>3
<1>5. [l \in Listeners |-> Left] = Offers
  <2>1. Left = Offers[Listener] /\ \A l \in Listeners : l = Listener
    BY <1>1, ListenerKinds DEF Left, Replaces
  <2>2. \A l \in Listeners : Left = Offers[l]
    BY <2>1
  <2> QED
    BY <1>2, <2>2
<1> QED
  BY <1>4, <1>5, MappingOfOne DEF InOrder!Init

(* The accesses of one listener to the table amount to merging its routes  *)
(* one after the other, each in a single step, whatever the readers do     *)
(* meanwhile: what RouteExchange takes updateRoutingTable for.             *)
THEOREM OneListenerMergesInOrder ==
  ASSUME SingleListener
  PROVE  Spec => MergesInOrder
<1>1. Init => InOrder!Init
  BY MappedInit
<1>2. ASSUME TableInv, [Next]_vars
      PROVE  [InOrder!Next]_<<Listed, Unmerged>>
  <2>1. CASE UNCHANGED vars
    <3>1. UNCHANGED <<blocks, base, num, todo, fresh, pc[Listener], entry[Listener]>>
      BY <2>1 DEF vars, shared, locals
    <3> QED
      BY <3>1, ReadersUnseen
  <2>2. CASE Next
    <3>1. ~corrupt /\ TableTypeOK /\ MergeInv
      BY <1>2, <2>2
      DEF Next, Listen, Differs, Keep, Replace, Shorten, FreeGateway, RenewGateway, NotFound,
          Grow, Assign, FillEntry, Fill, LoadCount, StoreCount, Copy, BeginCopy, PointTo,
          CopyRoute, EndCopy, Forward, LookAt, PassOver, TakeGateway, UseGateway, EndSearch,
          Misbehave, Step, TableInv
    <3>2. ASSUME NEW l \in Listeners, Listen(l)
          PROVE  InOrder!Next \/ UNCHANGED <<Listed, Unmerged>>
      BY <3>1, <3>2, ListenMerges
    <3>3. ASSUME NEW b \in Broadcasters, Copy(b)
          PROVE  UNCHANGED <<Listed, Unmerged>>
      BY <3>1, <3>3, OthersUnseen DEF Threads
    <3>4. ASSUME NEW f \in Forwarders, Forward(f)
          PROVE  UNCHANGED <<Listed, Unmerged>>
      BY <3>1, <3>4, OthersUnseen DEF Threads
    <3>5. ASSUME NEW t \in Threads, Misbehave(t)
          PROVE  UNCHANGED <<Listed, Unmerged>>
      BY <3>1, <3>5, OthersUnseen
    <3> QED
      BY <2>2, <3>2, <3>3, <3>4, <3>5 DEF Next
  <2> QED
    BY <1>2, <2>1, <2>2
<1> QED
  BY <1>1, <1>2, TableInvHolds, PTL DEF Spec, MergesInOrder, InOrder!Spec

=============================================================================
