-------------------------- MODULE SharedTableProofs ---------------------------
(***************************************************************************)
(* Proofs about SharedTable: what holds of the table when one listener     *)
(* merges, whatever the threads that only read it do meanwhile.            *)
(*                                                                         *)
(* With two listeners none of this holds (run twice).  With one, all that  *)
(* can go wrong is a reader's access to memory that is freed (run copy):   *)
(* as long as that has not happened, the table is the one that merging     *)
(* the routes one after the other yields, and a search through it finds    *)
(* every route once.                                                       *)
(***************************************************************************)
EXTENDS SharedTable, SequenceTheorems, TLAPS

(* The hypothesis: one thread merges adverts.                              *)
Listener == CHOOSE l \in Listeners : TRUE
SingleListener == Listeners = {Listener}

-----------------------------------------------------------------------------
(* The inductive invariant.                                                *)

Fields == [net        : {r.net : r \in Known} \cup {Garbage},
           passerelle : {r.passerelle : r \in Known} \cup {Garbage, Freed},
           distance   : Nat \cup {Garbage}]

Searches == {"search"}
Replaces == {"shorten", "free", "renew"}
Fills    == {"net", "passerelle", "distance", "load", "store"}
Appends  == {"assign"} \cup Fills

ListenerSteps == Searches \cup Replaces \cup {"grow"} \cup Appends \cup {"done"}
ReaderSteps   == {"begin", "copy", "read", "look", "match", "use", "done"}

TableTypeOK ==
  /\ blocks \in Seq(Seq(Fields))
  /\ base \in DOMAIN blocks
  /\ num \in Nat
  /\ pc \in [Threads -> ListenerSteps \cup ReaderSteps]
  /\ pc[Listener] \in ListenerSteps
  /\ todo \in [Listeners -> Seq(Known)]
  /\ index \in [Threads -> Nat \ {0}]
  /\ entry \in [Threads -> (Nat \ {0}) \X (Nat \ {0})]
  /\ \A t \in Threads : entry[t][1] \in DOMAIN blocks
  /\ count \in [Threads -> Nat]
  /\ fresh \in [Listeners -> Nat \ {0}]
  /\ fresh[Listener] \in DOMAIN blocks
  /\ wanted \in [Forwarders -> Networks]
  /\ gateway \in [Forwarders -> {r.passerelle : r \in Known} \cup {Garbage, Freed}]
  /\ sent \in [Forwarders -> Seq({r.passerelle : r \in Known} \cup {Garbage, Freed})]
  /\ corrupt \in BOOLEAN

(* The array of routes: between realloc and the assignment of what it      *)
(* returned, the router still points to the block that moved.              *)
Current == IF pc[Listener] = "assign" THEN fresh[Listener] ELSE base
Array == blocks[Current]

(* The route being merged, the entry found for it and how many routes have *)
(* been merged before it.                                                  *)
Merging == New(Listener)
Found == entry[Listener][2]
Merged == Len(Offers[Listener]) - Len(todo[Listener])

(* Every other block has moved, and the array has a place for the entry    *)
(* that is being appended.                                                 *)
OneArray ==
  /\ \A b \in DOMAIN blocks : b # Current => blocks[b] = <<>>
  /\ Len(Array) = IF pc[Listener] \in Appends THEN num + 1 ELSE num

(* What is left to merge is a suffix of what was offered.                  *)
Suffix ==
  /\ Merged \in Nat
  /\ \A j \in 1 .. Len(todo[Listener]) : todo[Listener][j] = Offers[Listener][Merged + j]
  /\ pc[Listener] = "done" <=> todo[Listener] = <<>>

(* Every entry is a whole route, but the one that is being replaced.       *)
Replaced(i) == pc[Listener] \in {"free", "renew"} /\ i = Found

EntriesWhole ==
  \A i \in 1 .. num :
    /\ ~Replaced(i) => Array[i] \in Known
    /\ Replaced(i) =>
         /\ Array[i].net = Merging.net
         /\ Array[i].distance = Merging.distance
         /\ \/ Array[i].passerelle \in Gateways(Merging.net)
            \/ pc[Listener] = "renew" /\ Array[i].passerelle = Freed

(* The first entries are for the networks the table began with.            *)
EntriesStay ==
  /\ Len(Before) <= num
  /\ \A i \in 1 .. Len(Before) : Array[i].net = Before[i].net

(* What the listener knows while it merges a route.                        *)
Progress ==
  /\ pc[Listener] = "search" =>
       /\ index[Listener] <= num + 1
       /\ \A i \in 1 .. index[Listener] - 1 : Array[i].net # Merging.net
  /\ pc[Listener] \in Replaces =>
       /\ entry[Listener][1] = base
       /\ Found \in 1 .. num
       /\ Array[Found].net = Merging.net
  /\ pc[Listener] = "shorten" => Merging.distance < Array[Found].distance
  /\ pc[Listener] \in {"grow"} \cup Appends =>
       \A i \in 1 .. num : Array[i].net # Merging.net
  /\ pc[Listener] \in {"passerelle", "distance", "load", "store"} =>
       Array[num + 1].net = Merging.net
  /\ pc[Listener] \in {"distance", "load", "store"} =>
       Array[num + 1].passerelle = Merging.passerelle
  /\ pc[Listener] \in {"load", "store"} =>
       Array[num + 1].distance = Merging.distance
  /\ pc[Listener] = "store" => count[Listener] = num

(* The routes merged so far are covered, each by an entry for its network  *)
(* that is not longer.                                                     *)
Covers(k, r) == Array[k].net = r.net /\ Array[k].distance <= r.distance
Covered ==
  \A i \in 1 .. Merged : \E k \in 1 .. num : Covers(k, Offers[Listener][i])

(* One entry per network.                                                  *)
Distinct == \A i, k \in 1 .. num : Array[i].net = Array[k].net => i = k

(* What a forwarder has seen and done so far.                              *)
Looks(f) ==
  /\ index[f] <= num + 1
  /\ Len(sent[f]) <= 1
  /\ sent[f] = <<>> => \A i \in 1 .. index[f] - 1 : Array[i].net # wanted[f]
  /\ sent[f] # <<>> =>
       /\ sent[f][1] \in Gateways(wanted[f])
       /\ \E i \in 1 .. index[f] - 1 : Array[i].net = wanted[f]
  /\ pc[f] \in {"match", "use"} => index[f] <= num /\ entry[f][2] = index[f]
  /\ pc[f] = "use" =>
       /\ Array[index[f]].net = wanted[f]
       /\ gateway[f] \in Gateways(wanted[f]) \cup {Freed}
  /\ pc[f] = "done" => index[f] > Len(Before)

MergeInv ==
  /\ OneArray
  /\ Suffix
  /\ EntriesWhole
  /\ EntriesStay
  /\ Progress
  /\ Covered

SearchInv ==
  /\ Distinct
  /\ \A f \in Forwarders : Looks(f)

-----------------------------------------------------------------------------
(* Facts about the constants.                                              *)

Strings == {r.passerelle : r \in Known}

LEMMA ListenerKinds ==
  ASSUME SingleListener
  PROVE  /\ Listener \in Listeners /\ Listener \in Threads
         /\ Listener \notin Broadcasters /\ Listener \notin Forwarders
         /\ \A l \in Listeners : l = Listener
BY ThreadAssumption DEF SingleListener, Threads

LEMMA KnownRoutes ==
  ASSUME NEW r \in Known
  PROVE  /\ r \in Fields
         /\ r.net # Garbage
         /\ r.passerelle # Garbage /\ r.passerelle # Freed
         /\ r.distance # Garbage /\ r.distance \in Nat
         /\ r = [net |-> r.net, passerelle |-> r.passerelle, distance |-> r.distance]
         /\ r.passerelle \in Gateways(r.net)
<1>1. IsRoute(r)
  BY RouteAssumption
<1>2. r \in [net : {r.net}, passerelle : {r.passerelle}, distance : Nat]
  BY <1>1 DEF IsRoute
<1>3. r.distance \in Nat
  BY <1>2
<1>4. r = [net |-> r.net, passerelle |-> r.passerelle, distance |-> r.distance]
  BY <1>2
<1>5. r \in Fields
  BY <1>3, <1>4 DEF Fields
<1>6. r.passerelle \in Gateways(r.net)
  BY DEF Gateways
<1> QED
  BY <1>1, <1>3, <1>4, <1>5, <1>6 DEF IsRoute

LEMMA OffersKnown ==
  ASSUME SingleListener
  PROVE  /\ Offers[Listener] \in Seq(Known)
         /\ Offers[Listener] # <<>>
         /\ Len(Offers[Listener]) \in Nat \ {0}
         /\ Before \in Seq(Known) /\ Len(Before) \in Nat \ {0}
<1>1. Offers[Listener] \in Seq(Known) /\ Offers[Listener] # <<>>
  BY RouteAssumption, ListenerKinds
<1>2. Before \in Seq(Known) /\ Before # <<>>
  BY RouteAssumption, ThreadAssumption
<1> QED
  BY <1>1, <1>2, EmptySeq

-----------------------------------------------------------------------------
(* The array of routes is one sequence, however its block moves.           *)

LEMMA ArrayType ==
  ASSUME TableTypeOK, OneArray
  PROVE  /\ Current \in DOMAIN blocks
         /\ Array \in Seq(Fields)
         /\ DOMAIN Array = 1 .. Len(Array)
         /\ num \in Nat /\ 1 .. num \subseteq DOMAIN Array
         /\ pc[Listener] \in Appends => num + 1 \in DOMAIN Array
<1>1. Current \in DOMAIN blocks
  BY DEF TableTypeOK, Current
<1>2. Array \in Seq(Fields)
  BY <1>1 DEF TableTypeOK, Array
<1>3. DOMAIN Array = 1 .. Len(Array)
  BY <1>2
<1>4. num \in Nat
  BY DEF TableTypeOK
<1>5. Len(Array) = IF pc[Listener] \in Appends THEN num + 1 ELSE num
  BY DEF OneArray
<1> QED
  BY <1>1, <1>2, <1>3, <1>4, <1>5

(* A route is written to its place and nothing else changes.               *)
LEMMA PutInArray ==
  ASSUME TableTypeOK, OneArray,
         pc[Listener] # "assign", pc'[Listener] # "assign", UNCHANGED base,
         NEW k \in DOMAIN Array, NEW route \in Fields, Put(<<base, k>>, route)
  PROVE  /\ Array' = [Array EXCEPT ![k] = route]
         /\ Array' \in Seq(Fields) /\ Len(Array') = Len(Array)
         /\ blocks' \in Seq(Seq(Fields)) /\ DOMAIN blocks' = DOMAIN blocks
         /\ \A b \in DOMAIN blocks' : b # Current' => blocks'[b] = <<>>
<1>1. Current = base /\ Current' = base /\ base \in DOMAIN blocks
  BY DEF Current, TableTypeOK
<1>2. Array = blocks[base] /\ Array' = blocks'[base]
  BY <1>1 DEF Array
<1>3. blocks' = [blocks EXCEPT ![base] = [blocks[base] EXCEPT ![k] = route]]
  BY DEF Put
<1>4. blocks \in Seq(Seq(Fields))
  BY DEF TableTypeOK
<1>5. DOMAIN blocks' = DOMAIN blocks
  BY <1>3, Zenon
<1>6. Array' = [Array EXCEPT ![k] = route]
  BY <1>1, <1>2, <1>3, Zenon
<1>7. Array \in Seq(Fields) /\ DOMAIN Array = 1 .. Len(Array)
  BY ArrayType
<1>8. Array' \in Seq(Fields) /\ Len(Array') = Len(Array)
  BY <1>6, <1>7, ExceptSeq
<1>9. blocks' \in Seq(Seq(Fields))
  <2>1. base \in 1 .. Len(blocks)
    BY <1>1, <1>4
  <2>2. [Array EXCEPT ![k] = route] \in Seq(Fields)
    BY <1>6, <1>8
  <2>3. blocks' = [blocks EXCEPT ![base] = [Array EXCEPT ![k] = route]]
    BY <1>2, <1>3
  <2> QED
    BY <1>4, <2>1, <2>2, <2>3, ExceptSeq
<1>10. ASSUME NEW b \in DOMAIN blocks', b # Current'
       PROVE  blocks'[b] = <<>>
  <2>1. blocks'[b] = blocks[b]
    BY <1>1, <1>3, <1>5, <1>10, Zenon
  <2> QED
    BY <2>1, <1>1, <1>5, <1>10 DEF OneArray
<1> QED
  BY <1>5, <1>6, <1>8, <1>9, <1>10

(* realloc makes room for one more entry and keeps the others, in place or *)
(* not.                                                                    *)
LEMMA GrowArray ==
  ASSUME SingleListener, TableTypeOK, OneArray, NEW moves \in BOOLEAN,
         Grow(Listener, moves)
  PROVE  /\ Array' \in Seq(Fields) /\ Len(Array') = num + 1
         /\ \A i \in 1 .. num : Array'[i] = Array[i]
         /\ blocks' \in Seq(Seq(Fields)) /\ DOMAIN blocks \subseteq DOMAIN blocks'
         /\ Current' \in DOMAIN blocks' /\ Current' = fresh'[Listener]
         /\ fresh' \in [Listeners -> Nat \ {0}]
         /\ \A b \in DOMAIN blocks' : b # Current' => blocks'[b] = <<>>
<1> DEFINE grown == Resized(blocks[base], num + 1)
<1>1. pc[Listener] = "grow" /\ pc'[Listener] = "assign"
  BY ListenerKinds, Zenon DEF Grow, Step, Goto, TableTypeOK
<1>2. /\ Current = base /\ Array = blocks[base] /\ Current' = fresh'[Listener]
      /\ Array' = blocks'[fresh'[Listener]]
  BY <1>1 DEF Current, Array
<1>3. base \in DOMAIN blocks /\ num \in Nat /\ blocks \in Seq(Seq(Fields))
  BY DEF TableTypeOK
<1>4. /\ Array \in Seq(Fields) /\ DOMAIN Array = 1 .. num
  BY <1>1, ArrayType DEF OneArray, Appends, Fills
<1>5. grown \in Seq(Fields) /\ Len(grown) = num + 1 /\ \A i \in 1 .. num : grown[i] = Array[i]
  <2>1. Unset \in Fields
    BY DEF Unset, Fields
  <2>2. grown = [i \in 1 .. num + 1 |-> IF i \in 1 .. num THEN Array[i] ELSE Unset]
    BY <1>2, <1>4 DEF Resized
  <2>3. grown \in [1 .. num + 1 -> Fields]
    BY <1>3, <1>4, <2>1, <2>2
  <2> HIDE DEF grown
  <2>4. grown \in Seq(Fields) /\ Len(grown) = num + 1
    BY <1>3, <2>3
  <2>5. \A i \in 1 .. num : grown[i] = Array[i]
    BY <1>3, <2>2
  <2> QED
    BY <2>4, <2>5
<1>6. <<>> \in Seq(Fields)
  OBVIOUS
<1>7. fresh \in [Listeners -> Nat \ {0}] /\ Listener \in Listeners
  BY ListenerKinds DEF TableTypeOK
<1>8. ASSUME NEW b \in DOMAIN blocks, b # base
      PROVE  blocks[b] = <<>>
  BY <1>2, <1>8 DEF OneArray
<1> HIDE DEF grown
<1>9. CASE moves
  <2>1. /\ blocks' = Append([blocks EXCEPT ![base] = <<>>], grown)
        /\ fresh' = [fresh EXCEPT ![Listener] = Len(blocks) + 1]
    BY <1>9 DEF Grow, grown
  <2>2. fresh'[Listener] = Len(blocks) + 1 /\ fresh' \in [Listeners -> Nat \ {0}]
    <3>1. Len(blocks) + 1 \in Nat \ {0}
      BY <1>3
    <3> QED
      BY <1>7, <2>1, <3>1
  <2> DEFINE emptied == [blocks EXCEPT ![base] = <<>>]
  <2>3. emptied \in Seq(Seq(Fields)) /\ Len(emptied) = Len(blocks)
    BY <1>3, <1>6, ExceptSeq
  <2>4. \A b \in 1 .. Len(blocks) : emptied[b] = <<>>
    BY <1>3, <1>8
  <2>5. blocks' = Append(emptied, grown)
    BY <2>1
  <2> HIDE DEF emptied
  <2>6. /\ blocks' \in Seq(Seq(Fields)) /\ Len(blocks') = Len(blocks) + 1
        /\ blocks'[Len(blocks) + 1] = grown
        /\ \A b \in 1 .. Len(blocks) : blocks'[b] = <<>>
    <3>1. Len(blocks) \in Nat
      BY <1>3
    <3> QED
      BY <1>5, <2>3, <2>4, <2>5, <3>1, AppendProperties
  <2>7. DOMAIN blocks = 1 .. Len(blocks) /\ DOMAIN blocks' = 1 .. Len(blocks) + 1
    BY <1>3, <2>6
  <2>8. Len(blocks) \in Nat
    BY <1>3
  <2>9. Current' = Len(blocks) + 1 /\ Array' = grown
    BY <1>2, <2>2, <2>6
  <2>10. \A b \in DOMAIN blocks' : b # Current' => blocks'[b] = <<>>
    BY <2>6, <2>7, <2>8, <2>9
  <2>11. DOMAIN blocks \subseteq DOMAIN blocks' /\ Current' \in DOMAIN blocks'
    BY <2>7, <2>8, <2>9
  <2> QED
    BY <1>2, <1>5, <2>2, <2>6, <2>9, <2>10, <2>11
<1>10. CASE ~moves
  <2>1. /\ blocks' = [blocks EXCEPT ![base] = grown]
        /\ fresh' = [fresh EXCEPT ![Listener] = base]
    BY <1>10 DEF Grow, grown
  <2>2. base \in 1 .. Len(blocks) /\ base \in Nat \ {0}
    BY <1>3
  <2>3. fresh'[Listener] = base /\ fresh' \in [Listeners -> Nat \ {0}]
    BY <1>7, <2>1, <2>2, Zenon
  <2>4. blocks' \in Seq(Seq(Fields)) /\ DOMAIN blocks' = DOMAIN blocks
    BY <1>3, <1>5, <2>1, <2>2, ExceptSeq
  <2>5. blocks'[base] = grown
    BY <1>3, <2>1, Zenon
  <2>6. ASSUME NEW b \in DOMAIN blocks', b # base
        PROVE  blocks'[b] = <<>>
    <3>1. blocks'[b] = blocks[b]
      BY <2>1, <2>4, <2>6, Zenon
    <3> QED
      BY <3>1, <1>8, <2>4, <2>6
  <2> QED
    BY <1>2, <1>3, <1>5, <2>3, <2>4, <2>5, <2>6
<1> QED
  BY <1>9, <1>10

-----------------------------------------------------------------------------
(* Steps of the listener.  Each keeps the types and MergeInv, and the      *)
(* networks of the entries there are.                                      *)

NetsKept == num <= num' /\ \A i \in 1 .. num : Array'[i].net = Array[i].net

LEMMA MergingKnown ==
  ASSUME SingleListener, TableTypeOK, Suffix, pc[Listener] # "done"
  PROVE  /\ todo[Listener] \in Seq(Known) /\ todo[Listener] # <<>>
         /\ Merging \in Known
         /\ Merged + 1 \in 1 .. Len(Offers[Listener])
         /\ Merging = Offers[Listener][Merged + 1]
<1>1. todo[Listener] \in Seq(Known) /\ todo[Listener] # <<>>
  BY ListenerKinds DEF TableTypeOK, Suffix
<1>2. Len(todo[Listener]) \in Nat \ {0} /\ Len(Offers[Listener]) \in Nat
  BY <1>1, EmptySeq, OffersKnown
<1>3. Merging = todo[Listener][1] /\ Merging \in Known
  BY <1>1, <1>2 DEF Merging, New
<1>4. Merging = Offers[Listener][Merged + 1]
  BY <1>2, <1>3 DEF Suffix
<1>5. Merged + 1 \in 1 .. Len(Offers[Listener])
  <2>1. Merged \in Nat
    BY DEF Suffix
  <2>2. Merged = Len(Offers[Listener]) - Len(todo[Listener])
    BY DEF Merged
  <2>3. \A m, a \in Nat : \A b \in Nat \ {0} : m = a - b => m + 1 \in 1 .. a
    OBVIOUS
  <2> QED
    BY <1>2, <2>1, <2>2, <2>3, Zenon
<1> QED
  BY <1>1, <1>3, <1>4, <1>5

(* One turn of the inner loop.                                             *)
LEMMA DiffersStays ==
  ASSUME SingleListener, TableTypeOK, MergeInv, Differs(Listener)
  PROVE  TableTypeOK' /\ MergeInv' /\ NetsKept
<1>1. /\ pc[Listener] = "search" /\ index[Listener] <= num
      /\ index' = [index EXCEPT ![Listener] = @ + 1]
      /\ UNCHANGED <<blocks, base, num, pc, todo, entry, count, fresh, wanted, gateway,
                     sent, corrupt>>
  BY DEF Differs, Step, shared, forwarding
<1>2. Array[index[Listener]].net # Merging.net
  BY <1>1 DEF Differs, At, Place, Array, Current, Merging
<1>3. index \in [Threads -> Nat \ {0}] /\ Listener \in Threads /\ num \in Nat
  BY ListenerKinds DEF TableTypeOK
<1>4. index' \in [Threads -> Nat \ {0}] /\ index'[Listener] = index[Listener] + 1
  BY <1>1, <1>3
<1>5. UNCHANGED <<Current, Array, Merging, Found, Merged>>
  BY <1>1 DEF Current, Array, Merging, New, Found, Merged
<1>6. TableTypeOK'
  BY <1>1, <1>4 DEF TableTypeOK
<1>7. OneArray' /\ Suffix' /\ EntriesStay' /\ Covered' /\ EntriesWhole'
  BY <1>1, <1>5 DEF MergeInv, OneArray, Suffix, EntriesStay, Covered, Covers, EntriesWhole, Replaced
<1>8. Progress'
  <2>1. \A i \in 1 .. index[Listener] - 1 : Array[i].net # Merging.net
    BY <1>1 DEF MergeInv, Progress
  <2>2. \A i \in 1 .. index'[Listener] - 1 : Array'[i].net # Merging'.net
    BY <2>1, <1>2, <1>3, <1>4, <1>5
  <2>3. index'[Listener] <= num' + 1
    BY <1>1, <1>3, <1>4
  <2> QED
    BY <1>1, <2>2, <2>3 DEF Progress, Replaces, Appends, Fills
<1> QED
  BY <1>1, <1>3, <1>5, <1>6, <1>7, <1>8 DEF MergeInv, NetsKept

(* The network is not listed.                                              *)
LEMMA NotFoundStays ==
  ASSUME SingleListener, TableTypeOK, MergeInv, NotFound(Listener)
  PROVE  TableTypeOK' /\ MergeInv' /\ NetsKept
<1>1. /\ pc[Listener] = "search" /\ index[Listener] > num
      /\ pc' = [pc EXCEPT ![Listener] = "grow"]
      /\ UNCHANGED <<blocks, base, num, todo, index, entry, count, fresh, wanted, gateway,
                     sent, corrupt>>
  BY DEF NotFound, Step, Goto, shared, forwarding
<1>2. pc \in [Threads -> ListenerSteps \cup ReaderSteps] /\ Listener \in Threads
  BY ListenerKinds DEF TableTypeOK
<1>3. pc' \in [Threads -> ListenerSteps \cup ReaderSteps] /\ pc'[Listener] = "grow"
  BY <1>1, <1>2 DEF ListenerSteps
<1>4. UNCHANGED <<Current, Array, Merging, Found, Merged>>
  BY <1>1, <1>3 DEF Current, Array, Merging, New, Found, Merged
<1>5. TableTypeOK'
  BY <1>1, <1>3 DEF TableTypeOK, ListenerSteps
<1>6. OneArray' /\ Suffix' /\ EntriesStay' /\ Covered' /\ EntriesWhole'
  BY <1>1, <1>3, <1>4
  DEF MergeInv, OneArray, Suffix, EntriesStay, Covered, Covers, EntriesWhole, Replaced,
      Appends, Fills
<1>7. Progress'
  <2>1. index[Listener] \in Nat /\ num \in Nat
    BY <1>2 DEF TableTypeOK
  <2>2. \A i \in 1 .. num : Array[i].net # Merging.net
    BY <1>1, <2>1 DEF MergeInv, Progress
  <2> QED
    BY <1>1, <1>3, <1>4, <2>2 DEF Progress, Replaces, Appends, Fills
<1>8. num \in Nat
  BY DEF TableTypeOK
<1> QED
  BY <1>1, <1>4, <1>5, <1>6, <1>7, <1>8 DEF MergeInv, NetsKept

(* The network is listed and the new route is shorter.                     *)
LEMMA ReplaceStays ==
  ASSUME SingleListener, TableTypeOK, MergeInv, Replace(Listener)
  PROVE  TableTypeOK' /\ MergeInv' /\ NetsKept
<1>1. /\ pc[Listener] = "search" /\ index[Listener] <= num
      /\ pc' = [pc EXCEPT ![Listener] = "shorten"]
      /\ entry' = [entry EXCEPT ![Listener] = <<base, index[Listener]>>]
      /\ UNCHANGED <<blocks, base, num, todo, index, count, fresh, wanted, gateway, sent, corrupt>>
  BY DEF Replace, Step, Goto, Place, shared, forwarding
<1>2. /\ Array[index[Listener]].net = Merging.net
      /\ Merging.distance < Array[index[Listener]].distance
  BY <1>1 DEF Replace, At, Place, Array, Current, Merging
<1>3. /\ pc \in [Threads -> ListenerSteps \cup ReaderSteps] /\ Listener \in Threads
      /\ index \in [Threads -> Nat \ {0}] /\ num \in Nat
      /\ entry \in [Threads -> (Nat \ {0}) \X (Nat \ {0})]
      /\ base \in Nat \ {0}
  <2>1. base \in DOMAIN blocks /\ blocks \in Seq(Seq(Fields))
    BY DEF TableTypeOK
  <2>2. base \in Nat \ {0}
    BY <2>1
  <2> QED
    BY <2>2, ListenerKinds DEF TableTypeOK
<1>4. pc' \in [Threads -> ListenerSteps \cup ReaderSteps] /\ pc'[Listener] = "shorten"
  BY <1>1, <1>3 DEF ListenerSteps, Replaces
<1>5. /\ entry' \in [Threads -> (Nat \ {0}) \X (Nat \ {0})]
      /\ entry'[Listener] = <<base, index[Listener]>>
  BY <1>1, <1>3
<1>6. UNCHANGED <<Current, Array, Merging, Merged>> /\ Found' = index[Listener]
  BY <1>1, <1>4, <1>5 DEF Current, Array, Merging, New, Found, Merged
<1>7. TableTypeOK'
  BY <1>1, <1>4, <1>5 DEF TableTypeOK, ListenerSteps, Replaces
<1>8. OneArray' /\ Suffix' /\ EntriesStay' /\ Covered' /\ EntriesWhole'
  BY <1>1, <1>4, <1>6
  DEF MergeInv, OneArray, Suffix, EntriesStay, Covered, Covers, EntriesWhole, Replaced,
      Appends, Fills
<1>9. Progress'
  <2>1. index[Listener] \in 1 .. num
    BY <1>1, <1>3
  <2> QED
    BY <1>1, <1>2, <1>4, <1>5, <1>6, <2>1 DEF Progress, Replaces, Appends, Fills
<1> QED
  BY <1>1, <1>3, <1>6, <1>7, <1>8, <1>9 DEF MergeInv, NetsKept

(* The outer loop goes on: one more route is merged.                       *)
LEMMA NextRouteMoves ==
  ASSUME SingleListener, TableTypeOK, Suffix, pc[Listener] # "done", NextRoute(Listener)
  PROVE  /\ todo' \in [Listeners -> Seq(Known)]
         /\ index' \in [Threads -> Nat \ {0}] /\ index'[Listener] = 1
         /\ pc' \in [Threads -> ListenerSteps \cup ReaderSteps]
         /\ pc'[Listener] \in {"search", "done"} /\ pc'[Listener] \in ListenerSteps
         /\ Suffix' /\ Merged' = Merged + 1
<1>1. /\ todo' = [todo EXCEPT ![Listener] = Tail(@)]
      /\ index' = [index EXCEPT ![Listener] = 1]
      /\ pc' = [pc EXCEPT ![Listener] = IF Len(todo[Listener]) = 1 THEN "done" ELSE "search"]
  BY DEF NextRoute, Goto
<1>2. /\ pc \in [Threads -> ListenerSteps \cup ReaderSteps] /\ Listener \in Threads
      /\ index \in [Threads -> Nat \ {0}]
      /\ todo \in [Listeners -> Seq(Known)] /\ Listener \in Listeners
  BY ListenerKinds DEF TableTypeOK
<1>3. todo[Listener] \in Seq(Known) /\ todo[Listener] # <<>>
  BY MergingKnown
<1>4. /\ Tail(todo[Listener]) \in Seq(Known)
      /\ Len(Tail(todo[Listener])) = Len(todo[Listener]) - 1
      /\ \A i \in 1 .. Len(Tail(todo[Listener])) : Tail(todo[Listener])[i] = todo[Listener][i + 1]
  BY <1>3, HeadTailProperties
<1>5. todo' \in [Listeners -> Seq(Known)] /\ todo'[Listener] = Tail(todo[Listener])
  BY <1>1, <1>2, <1>4
<1>6. index' \in [Threads -> Nat \ {0}] /\ index'[Listener] = 1
  BY <1>1, <1>2
<1>7. /\ pc' \in [Threads -> ListenerSteps \cup ReaderSteps]
      /\ pc'[Listener] = IF Len(todo[Listener]) = 1 THEN "done" ELSE "search"
  BY <1>1, <1>2 DEF ListenerSteps, Searches
<1>8. Len(todo[Listener]) \in Nat \ {0} /\ Len(Offers[Listener]) \in Nat
  BY <1>3, EmptySeq, OffersKnown
<1>9. Merged \in Nat /\ Merged' = Merged + 1
  <2>1. Merged \in Nat
    BY DEF Suffix
  <2>2. /\ Merged = Len(Offers[Listener]) - Len(todo[Listener])
        /\ Merged' = Len(Offers[Listener]) - Len(todo'[Listener])
    BY DEF Merged
  <2>3. \A a \in Nat : \A b \in Nat \ {0} : a - (b - 1) = (a - b) + 1
    OBVIOUS
  <2>4. Merged' = Len(Offers[Listener]) - (Len(todo[Listener]) - 1)
    BY <1>4, <1>5, <2>2, Zenon
  <2>5. Merged' = Merged + 1
    BY <1>8, <2>2, <2>3, <2>4, Zenon
  <2> QED
    BY <2>1, <2>5
<1>10. Suffix'
  <2>1. ASSUME NEW j \in 1 .. Len(todo'[Listener])
        PROVE  todo'[Listener][j] = Offers[Listener][Merged' + j]
    <3>1. j \in 1 .. Len(Tail(todo[Listener])) /\ j + 1 \in 1 .. Len(todo[Listener])
      BY <1>4, <1>5, <1>8
    <3>2. todo'[Listener][j] = todo[Listener][j + 1]
      BY <1>4, <1>5, <3>1
    <3>3. todo[Listener][j + 1] = Offers[Listener][Merged + (j + 1)]
      BY <3>1 DEF Suffix
    <3>4. Merged' + j = Merged + (j + 1)
      BY <1>9, <3>1
    <3> QED
      BY <3>2, <3>3, <3>4
  <2>2. pc'[Listener] = "done" <=> todo'[Listener] = <<>>
    <3>1. todo'[Listener] = <<>> <=> Len(todo'[Listener]) = 0
      BY <1>4, <1>5, EmptySeq
    <3> QED
      BY <1>4, <1>5, <1>7, <1>8, <3>1
  <2>3. Merged' \in Nat
    BY <1>9
  <2> QED
    BY <2>1, <2>2, <2>3 DEF Suffix
<1> QED
  BY <1>5, <1>6, <1>7, <1>9, <1>10 DEF ListenerSteps, Searches

(* The entries that covered the routes merged before still do, another one *)
(* covers the route that was being merged.                                 *)
LEMMA NextRouteCovered ==
  ASSUME SingleListener, TableTypeOK, Suffix, Covered, pc[Listener] # "done",
         num' \in Nat, num <= num', Merged' = Merged + 1,
         \A i \in 1 .. num : /\ Array'[i].net = Array[i].net
                             /\ \A n \in Nat : Array[i].distance <= n => Array'[i].distance <= n,
         NEW k \in 1 .. num',
         Array'[k].net = Merging.net, Array'[k].distance <= Merging.distance
  PROVE  Covered'
<1>1. Merged \in Nat /\ num \in Nat /\ Merging = Offers[Listener][Merged + 1]
  BY MergingKnown DEF Suffix, TableTypeOK
<1> SUFFICES ASSUME NEW i \in 1 .. Merged'
             PROVE  \E j \in 1 .. num' : Covers(j, Offers[Listener][i])'
  BY DEF Covered
<1>2. CASE i = Merged + 1
  BY <1>1, <1>2 DEF Covers
<1>3. CASE i # Merged + 1
  <2>1. i \in 1 .. Merged
    BY <1>1, <1>3
  <2>2. PICK j \in 1 .. num : Covers(j, Offers[Listener][i])
    BY <2>1 DEF Covered
  <2>3. Offers[Listener][i].distance \in Nat
    <3>1. Merged + 1 \in 1 .. Len(Offers[Listener])
      BY MergingKnown
    <3>2. i \in 1 .. Len(Offers[Listener]) /\ Offers[Listener] \in Seq(Known)
      BY <1>1, <2>1, <3>1, OffersKnown
    <3>3. Offers[Listener][i] \in Known
      BY <3>2, ElementOfSeq
    <3> QED
      BY <3>3, KnownRoutes
  <2>4. j \in 1 .. num'
    BY <1>1
  <2> QED
    BY <2>2, <2>3, <2>4 DEF Covers
<1> QED
  BY <1>2, <1>3

(* The network is listed and the new route is not shorter.                 *)
LEMMA KeepStays ==
  ASSUME SingleListener, TableTypeOK, MergeInv, Keep(Listener)
  PROVE  TableTypeOK' /\ MergeInv' /\ NetsKept
<1>1. /\ pc[Listener] = "search" /\ index[Listener] <= num
      /\ NextRoute(Listener)
      /\ UNCHANGED <<blocks, base, num, entry, count, fresh, wanted, gateway, sent, corrupt>>
  BY DEF Keep, Step, shared, forwarding
<1>2. /\ Array[index[Listener]].net = Merging.net
      /\ ~(Merging.distance < Array[index[Listener]].distance)
  BY <1>1 DEF Keep, At, Place, Array, Current, Merging
<1>3. /\ todo' \in [Listeners -> Seq(Known)]
      /\ index' \in [Threads -> Nat \ {0}] /\ index'[Listener] = 1
      /\ pc' \in [Threads -> ListenerSteps \cup ReaderSteps]
      /\ pc'[Listener] \in {"search", "done"} /\ pc'[Listener] \in ListenerSteps
      /\ Suffix' /\ Merged' = Merged + 1
  BY <1>1, NextRouteMoves DEF MergeInv
<1>4. UNCHANGED <<Current, Array, Found>>
  BY <1>1, <1>3 DEF Current, Array, Found
<1>5. TableTypeOK'
  BY <1>1, <1>3 DEF TableTypeOK
<1>6. num \in Nat /\ index[Listener] \in 1 .. num
  BY <1>1, ListenerKinds DEF TableTypeOK
<1>7. OneArray' /\ EntriesStay' /\ EntriesWhole'
  BY <1>1, <1>3, <1>4
  DEF MergeInv, OneArray, EntriesStay, EntriesWhole, Replaced, Appends, Fills
<1>8. Covered'
  <2>1. Array[index[Listener]] \in Known
    BY <1>1, <1>6 DEF MergeInv, EntriesWhole, Replaced
  <2>2. Array[index[Listener]].distance \in Nat /\ Merging.distance \in Nat
    BY <1>1, <2>1, KnownRoutes, MergingKnown DEF MergeInv
  <2>3. Array[index[Listener]].distance <= Merging.distance
    BY <1>2, <2>2
  <2>4. \A i \in 1 .. num : /\ Array'[i].net = Array[i].net
                            /\ \A n \in Nat : Array[i].distance <= n => Array'[i].distance <= n
    BY <1>4
  <2>5. /\ Array'[index[Listener]].net = Merging.net
        /\ Array'[index[Listener]].distance <= Merging.distance
    BY <1>2, <1>4, <2>3
  <2>6. num' \in Nat /\ num <= num' /\ index[Listener] \in 1 .. num'
    BY <1>1, <1>6
  <2> QED
    BY <1>1, <1>3, <2>4, <2>5, <2>6, NextRouteCovered DEF MergeInv
<1>9. Progress'
  BY <1>3, <1>6, <1>1 DEF Progress, Replaces, Appends, Fills
<1> QED
  BY <1>1, <1>3, <1>4, <1>5, <1>6, <1>7, <1>8, <1>9 DEF MergeInv, NetsKept

(* Where the listener writes.                                              *)
LEMMA ListenerPlace ==
  ASSUME SingleListener, TableTypeOK, MergeInv
  PROVE  /\ pc[Listener] \in Replaces =>
              /\ Place(Listener) = <<base, Found>> /\ At(Place(Listener)) = Array[Found]
              /\ Found \in DOMAIN Array /\ Array[Found] \in Fields
         /\ pc[Listener] \in Fills =>
              /\ num + 1 \in DOMAIN Array /\ Array[num + 1] \in Fields
              /\ pc[Listener] \in {"net", "passerelle", "distance"} =>
                   /\ Place(Listener) = <<base, num + 1>>
                   /\ At(Place(Listener)) = Array[num + 1]
<1>1. /\ Array \in Seq(Fields) /\ DOMAIN Array = 1 .. Len(Array) /\ num \in Nat
      /\ 1 .. num \subseteq DOMAIN Array
      /\ pc[Listener] \in Appends => num + 1 \in DOMAIN Array
  BY ArrayType DEF MergeInv
<1>2. CASE pc[Listener] \in Replaces
  <2>1. entry[Listener] = <<base, Found>> /\ Found \in 1 .. num
    <3>1. entry[Listener] \in (Nat \ {0}) \X (Nat \ {0})
      BY ListenerKinds DEF TableTypeOK
    <3>2. entry[Listener][1] = base /\ Found \in 1 .. num
      BY <1>2 DEF MergeInv, Progress
    <3> QED
      BY <3>1, <3>2 DEF Found
  <2>2. Place(Listener) = entry[Listener]
    BY <1>2 DEF Place, Replaces
  <2>3. Current = base
    BY <1>2 DEF Current, Replaces
  <2>4. At(Place(Listener)) = Array[Found]
    BY <2>1, <2>2, <2>3 DEF At, Array
  <2>5. Array[Found] \in Fields /\ Found \in DOMAIN Array
    BY <1>1, <2>1
  <2> QED
    BY <1>2, <2>1, <2>2, <2>4, <2>5 DEF Replaces, Fills
<1>3. CASE pc[Listener] \in Fills
  <2>1. num + 1 \in DOMAIN Array /\ Array[num + 1] \in Fields
    BY <1>1, <1>3 DEF Appends
  <2>2. Current = base
    BY <1>3 DEF Current, Fills
  <2>3. pc[Listener] \in {"net", "passerelle", "distance"} => Place(Listener) = <<base, num + 1>>
    BY DEF Place
  <2>4. Place(Listener) = <<base, num + 1>> => At(Place(Listener)) = Array[num + 1]
    BY <2>2 DEF At, Array
  <2> QED
    BY <1>3, <2>1, <2>3, <2>4 DEF Replaces, Fills
<1> QED
  BY <1>2, <1>3

(* existing_route->distance = new_route->distance                          *)
LEMMA ShortenStays ==
  ASSUME SingleListener, TableTypeOK, MergeInv, Shorten(Listener)
  PROVE  TableTypeOK' /\ MergeInv' /\ NetsKept
<1> DEFINE new == [Array[Found] EXCEPT !.distance = Merging.distance]
<1>1. /\ pc[Listener] = "shorten"
      /\ Put(Place(Listener), [At(Place(Listener)) EXCEPT !.distance = New(Listener).distance])
      /\ pc' = [pc EXCEPT ![Listener] = "free"]
      /\ UNCHANGED <<base, num, todo, index, entry, count, fresh, wanted, gateway, sent, corrupt>>
  BY DEF Shorten, Step, Goto, forwarding
<1>2. /\ Found \in 1 .. num /\ entry[Listener][1] = base
      /\ Array[Found].net = Merging.net /\ Merging.distance < Array[Found].distance
      /\ Array[Found] \in Known
  BY <1>1 DEF MergeInv, Progress, Replaces, EntriesWhole, Replaced
<1>3. /\ Place(Listener) = <<base, Found>> /\ At(Place(Listener)) = Array[Found]
      /\ Found \in DOMAIN Array
  BY <1>1, ListenerPlace DEF Replaces
<1>4. Put(<<base, Found>>, new)
  BY <1>1, <1>3 DEF Merging
<1>5. Merging \in Known /\ Merging.distance \in Nat /\ Array[Found].distance \in Nat
  BY <1>1, <1>2, MergingKnown, KnownRoutes DEF MergeInv
<1>6. /\ new \in Fields /\ new.net = Merging.net /\ new.distance = Merging.distance
      /\ new.passerelle \in Gateways(Merging.net)
  <2>1. Array[Found] \in Fields /\ Array[Found].passerelle \in Gateways(Merging.net)
    BY <1>2, KnownRoutes
  <2>2. Array[Found] \in [net : {r.net : r \in Known} \cup {Garbage},
                          passerelle : Strings \cup {Garbage, Freed},
                          distance : Nat \cup {Garbage}]
    BY <2>1 DEF Fields, Strings
  <2>3. new \in [net : {r.net : r \in Known} \cup {Garbage},
                 passerelle : Strings \cup {Garbage, Freed},
                 distance : Nat \cup {Garbage}]
    BY <1>5, <2>2
  <2>4. /\ new.net = Array[Found].net /\ new.passerelle = Array[Found].passerelle
        /\ new.distance = Merging.distance
    BY <2>2
  <2> QED
    BY <1>2, <2>1, <2>3, <2>4 DEF Fields, Strings
<1> HIDE DEF new
<1>7. pc \in [Threads -> ListenerSteps \cup ReaderSteps] /\ Listener \in Threads /\ num \in Nat
  BY ListenerKinds DEF TableTypeOK
<1>8. pc' \in [Threads -> ListenerSteps \cup ReaderSteps] /\ pc'[Listener] = "free"
  BY <1>1, <1>7 DEF ListenerSteps, Replaces
<1>9. /\ Array' = [Array EXCEPT ![Found] = new]
      /\ Array' \in Seq(Fields) /\ Len(Array') = Len(Array)
      /\ blocks' \in Seq(Seq(Fields)) /\ DOMAIN blocks' = DOMAIN blocks
      /\ \A b \in DOMAIN blocks' : b # Current' => blocks'[b] = <<>>
  BY <1>1, <1>3, <1>4, <1>6, <1>8, PutInArray DEF MergeInv
<1>10. /\ Array'[Found] = new
       /\ \A i \in 1 .. num : i # Found => Array'[i] = Array[i]
  BY <1>3, <1>9, ArrayType DEF MergeInv
<1>11. UNCHANGED <<Merging, Found, Merged, num>>
  BY <1>1 DEF Merging, New, Found, Merged
<1>12. TableTypeOK'
  BY <1>1, <1>8, <1>9 DEF TableTypeOK, ListenerSteps, Replaces
<1>13. OneArray' /\ Suffix'
  BY <1>1, <1>8, <1>9, <1>11 DEF MergeInv, OneArray, Suffix, Appends, Fills
<1>14. EntriesWhole'
  BY <1>1, <1>6, <1>8, <1>10, <1>11 DEF MergeInv, EntriesWhole, Replaced
<1>15. NetsKept
  BY <1>2, <1>6, <1>7, <1>10, <1>11 DEF NetsKept
<1>16. EntriesStay'
  BY <1>7, <1>11, <1>15, OffersKnown DEF MergeInv, EntriesStay, NetsKept
<1>17. Covered'
  <2>1. ASSUME NEW i \in 1 .. Merged PROVE \E k \in 1 .. num : Covers(k, Offers[Listener][i])'
    <3>1. PICK k \in 1 .. num : Covers(k, Offers[Listener][i])
      BY DEF MergeInv, Covered
    <3>2. Offers[Listener][i].distance \in Nat
      <4>1. Merged + 1 \in 1 .. Len(Offers[Listener]) /\ Merged \in Nat
        BY <1>1, MergingKnown DEF MergeInv, Suffix
      <4>2. i \in 1 .. Len(Offers[Listener]) /\ Offers[Listener] \in Seq(Known)
        BY <4>1, OffersKnown
      <4>3. Offers[Listener][i] \in Known
        BY <4>2, ElementOfSeq
      <4> QED
        BY <4>3, KnownRoutes
    <3>3. CASE k = Found
      BY <1>2, <1>5, <1>6, <1>10, <3>1, <3>2, <3>3 DEF Covers
    <3>4. CASE k # Found
      BY <1>10, <3>1, <3>4 DEF Covers
    <3> QED
      BY <3>3, <3>4
  <2> QED
    BY <1>11, <2>1 DEF Covered
<1>18. Progress'
  BY <1>1, <1>2, <1>6, <1>8, <1>10, <1>11 DEF Progress, Replaces, Appends, Fills
<1> QED
  BY <1>12, <1>13, <1>14, <1>15, <1>16, <1>17, <1>18 DEF MergeInv

(* free(existing_route->passerelle)                                        *)
LEMMA FreeGatewayStays ==
  ASSUME SingleListener, TableTypeOK, MergeInv, FreeGateway(Listener)
  PROVE  /\ TableTypeOK' /\ MergeInv' /\ NetsKept
         /\ \A f \in Forwarders : gateway'[f] \in {gateway[f], Freed}
<1> DEFINE new == [Array[Found] EXCEPT !.passerelle = Freed]
<1>1. /\ pc[Listener] = "free"
      /\ Put(Place(Listener), [At(Place(Listener)) EXCEPT !.passerelle = Freed])
      /\ pc' = [pc EXCEPT ![Listener] = "renew"]
      /\ UNCHANGED <<base, num, todo, index, entry, count, fresh, wanted, sent, corrupt>>
  BY DEF FreeGateway, Step, Goto
<1>2. /\ Found \in 1 .. num /\ entry[Listener][1] = base
      /\ Array[Found].net = Merging.net /\ Array[Found].distance = Merging.distance
  BY <1>1 DEF MergeInv, Progress, Replaces, EntriesWhole, Replaced
<1>3. /\ Place(Listener) = <<base, Found>> /\ At(Place(Listener)) = Array[Found]
      /\ Found \in DOMAIN Array /\ Array[Found] \in Fields
  BY <1>1, ListenerPlace DEF Replaces
<1>4. Put(<<base, Found>>, new)
  BY <1>1, <1>3
<1>5. /\ new \in Fields /\ new.net = Merging.net /\ new.distance = Merging.distance
      /\ new.passerelle = Freed
  <2>1. Array[Found] \in [net : {r.net : r \in Known} \cup {Garbage},
                          passerelle : Strings \cup {Garbage, Freed},
                          distance : Nat \cup {Garbage}]
    BY <1>3 DEF Fields, Strings
  <2>2. new \in [net : {r.net : r \in Known} \cup {Garbage},
                 passerelle : Strings \cup {Garbage, Freed},
                 distance : Nat \cup {Garbage}]
    BY <2>1
  <2>3. /\ new.net = Array[Found].net /\ new.distance = Array[Found].distance
        /\ new.passerelle = Freed
    BY <2>1
  <2> QED
    BY <1>2, <2>2, <2>3 DEF Fields, Strings
<1> HIDE DEF new
<1>6. pc \in [Threads -> ListenerSteps \cup ReaderSteps] /\ Listener \in Threads /\ num \in Nat
  BY ListenerKinds DEF TableTypeOK
<1>7. pc' \in [Threads -> ListenerSteps \cup ReaderSteps] /\ pc'[Listener] = "renew"
  BY <1>1, <1>6 DEF ListenerSteps, Replaces
<1>8. /\ Array' = [Array EXCEPT ![Found] = new]
      /\ Array' \in Seq(Fields) /\ Len(Array') = Len(Array)
      /\ blocks' \in Seq(Seq(Fields)) /\ DOMAIN blocks' = DOMAIN blocks
      /\ \A b \in DOMAIN blocks' : b # Current' => blocks'[b] = <<>>
  BY <1>1, <1>3, <1>4, <1>5, <1>7, PutInArray DEF MergeInv
<1>9. /\ Array'[Found] = new
      /\ \A i \in 1 .. num : i # Found => Array'[i] = Array[i]
  BY <1>3, <1>8, ArrayType DEF MergeInv
<1>10. UNCHANGED <<Merging, Found, Merged, num>>
  BY <1>1 DEF Merging, New, Found, Merged
<1>11. \A f \in Forwarders : gateway'[f] \in {gateway[f], Freed}
  BY DEF FreeGateway
<1>12. gateway' \in [Forwarders -> {r.passerelle : r \in Known} \cup {Garbage, Freed}]
  <2>1. DOMAIN gateway' = Forwarders /\ gateway' = [f \in Forwarders |-> gateway'[f]]
    BY DEF FreeGateway
  <2>2. \A f \in Forwarders : gateway[f] \in {r.passerelle : r \in Known} \cup {Garbage, Freed}
    BY DEF TableTypeOK
  <2> QED
    BY <1>11, <2>1, <2>2
<1>13. TableTypeOK'
  BY <1>1, <1>7, <1>8, <1>12 DEF TableTypeOK, ListenerSteps, Replaces
<1>14. OneArray' /\ Suffix'
  BY <1>1, <1>7, <1>8, <1>10 DEF MergeInv, OneArray, Suffix, Appends, Fills
<1>15. EntriesWhole'
  BY <1>1, <1>5, <1>7, <1>9, <1>10 DEF MergeInv, EntriesWhole, Replaced
<1>16. NetsKept
  BY <1>2, <1>5, <1>6, <1>9, <1>10 DEF NetsKept
<1>17. EntriesStay'
  BY <1>6, <1>10, <1>16, OffersKnown DEF MergeInv, EntriesStay, NetsKept
<1>18. Covered'
  <2>1. \A k \in 1 .. num : Array'[k].net = Array[k].net /\ Array'[k].distance = Array[k].distance
    BY <1>2, <1>5, <1>9
  <2> QED
    BY <1>10, <2>1 DEF MergeInv, Covered, Covers
<1>19. Progress'
  BY <1>1, <1>2, <1>5, <1>7, <1>9, <1>10 DEF Progress, Replaces, Appends, Fills
<1> QED
  BY <1>11, <1>13, <1>14, <1>15, <1>16, <1>17, <1>18, <1>19 DEF MergeInv

(* An entry whose distance is new gets the gateway too and is the new      *)
(* route.                                                                  *)
LEMMA RenewedWhole ==
  ASSUME SingleListener, TableTypeOK, MergeInv, pc[Listener] = "renew"
  PROVE  /\ [Array[Found] EXCEPT !.passerelle = Merging.passerelle] = Merging
         /\ Merging \in Fields
<1>1. Merging \in Known /\ Merging \in Fields
  BY MergingKnown, KnownRoutes DEF MergeInv
<1>2. Array[Found].net = Merging.net /\ Array[Found].distance = Merging.distance
  BY DEF MergeInv, Progress, Replaces, EntriesWhole, Replaced
<1>3. Array[Found] \in [net : {r.net : r \in Known} \cup {Garbage},
                        passerelle : Strings \cup {Garbage, Freed},
                        distance : Nat \cup {Garbage}]
  BY ListenerPlace DEF Replaces, Fields, Strings
<1>4. [Array[Found] EXCEPT !.passerelle = Merging.passerelle]
        = [net |-> Array[Found].net, passerelle |-> Merging.passerelle,
           distance |-> Array[Found].distance]
  BY <1>3
<1>5. Merging = [net |-> Merging.net, passerelle |-> Merging.passerelle,
                 distance |-> Merging.distance]
  BY <1>1, KnownRoutes
<1> QED
  BY <1>1, <1>2, <1>4, <1>5

(* existing_route->passerelle = strdup(new_route->passerelle)              *)
LEMMA RenewGatewayStays ==
  ASSUME SingleListener, TableTypeOK, MergeInv, RenewGateway(Listener)
  PROVE  TableTypeOK' /\ MergeInv' /\ NetsKept
<1> DEFINE new == [Array[Found] EXCEPT !.passerelle = Merging.passerelle]
<1>1. /\ pc[Listener] = "renew"
      /\ Put(Place(Listener), [At(Place(Listener)) EXCEPT !.passerelle = New(Listener).passerelle])
      /\ NextRoute(Listener)
      /\ UNCHANGED <<base, num, entry, count, fresh, wanted, gateway, sent, corrupt>>
  BY DEF RenewGateway, Step, forwarding
<1>2. /\ Found \in 1 .. num
      /\ Array[Found].net = Merging.net /\ Array[Found].distance = Merging.distance
  BY <1>1 DEF MergeInv, Progress, Replaces, EntriesWhole, Replaced
<1>3. /\ Place(Listener) = <<base, Found>> /\ At(Place(Listener)) = Array[Found]
      /\ Found \in DOMAIN Array /\ Array[Found] \in Fields
  BY <1>1, ListenerPlace DEF Replaces
<1>4. Put(<<base, Found>>, new)
  BY <1>1, <1>3 DEF Merging
<1>5. Merging \in Known /\ Merging \in Fields /\ Merging.distance \in Nat
  BY <1>1, MergingKnown, KnownRoutes DEF MergeInv
<1>6. new = Merging
  BY <1>1, RenewedWhole
<1> HIDE DEF new
<1>7. /\ todo' \in [Listeners -> Seq(Known)]
      /\ index' \in [Threads -> Nat \ {0}] /\ index'[Listener] = 1
      /\ pc' \in [Threads -> ListenerSteps \cup ReaderSteps]
      /\ pc'[Listener] \in {"search", "done"} /\ pc'[Listener] \in ListenerSteps
      /\ Suffix' /\ Merged' = Merged + 1
  BY <1>1, NextRouteMoves DEF MergeInv
<1>8. /\ Array' = [Array EXCEPT ![Found] = Merging]
      /\ Array' \in Seq(Fields) /\ Len(Array') = Len(Array)
      /\ blocks' \in Seq(Seq(Fields)) /\ DOMAIN blocks' = DOMAIN blocks
      /\ \A b \in DOMAIN blocks' : b # Current' => blocks'[b] = <<>>
  BY <1>1, <1>3, <1>4, <1>5, <1>6, <1>7, PutInArray DEF MergeInv
<1>9. /\ Array'[Found] = Merging
      /\ \A i \in 1 .. num : i # Found => Array'[i] = Array[i]
  BY <1>3, <1>8, ArrayType DEF MergeInv
<1>10. UNCHANGED <<Found, num>> /\ num \in Nat
  BY <1>1 DEF Found, TableTypeOK
<1>11. TableTypeOK'
  BY <1>1, <1>7, <1>8 DEF TableTypeOK
<1>12. OneArray'
  BY <1>1, <1>7, <1>8, <1>10 DEF MergeInv, OneArray, Appends, Fills
<1>13. EntriesWhole'
  BY <1>1, <1>5, <1>7, <1>9, <1>10 DEF MergeInv, EntriesWhole, Replaced
<1>14. NetsKept
  BY <1>2, <1>9, <1>10 DEF NetsKept
<1>15. EntriesStay'
  BY <1>10, <1>14, OffersKnown DEF MergeInv, EntriesStay, NetsKept
<1>16. Covered'
  <2>1. \A i \in 1 .. num : /\ Array'[i].net = Array[i].net
                            /\ \A n \in Nat : Array[i].distance <= n => Array'[i].distance <= n
    BY <1>2, <1>9
  <2>2. /\ num' \in Nat /\ num <= num' /\ Found \in 1 .. num'
        /\ Array'[Found].net = Merging.net /\ Array'[Found].distance <= Merging.distance
    BY <1>2, <1>5, <1>9, <1>10
  <2> QED
    BY <1>1, <1>7, <2>1, <2>2, NextRouteCovered DEF MergeInv
<1>17. Progress'
  BY <1>7, <1>10 DEF Progress, Replaces, Appends, Fills
<1> QED
  BY <1>7, <1>11, <1>12, <1>13, <1>14, <1>15, <1>16, <1>17 DEF MergeInv

(* realloc                                                                 *)
LEMMA GrowStays ==
  ASSUME SingleListener, TableTypeOK, MergeInv, NEW moves \in BOOLEAN, Grow(Listener, moves)
  PROVE  TableTypeOK' /\ MergeInv' /\ NetsKept
<1>1. /\ pc[Listener] = "grow"
      /\ pc' = [pc EXCEPT ![Listener] = "assign"]
      /\ UNCHANGED <<base, num, todo, index, entry, count, wanted, gateway, sent, corrupt>>
  BY DEF Grow, Step, Goto, forwarding
<1>2. /\ Array' \in Seq(Fields) /\ Len(Array') = num + 1
      /\ \A i \in 1 .. num : Array'[i] = Array[i]
      /\ blocks' \in Seq(Seq(Fields)) /\ DOMAIN blocks \subseteq DOMAIN blocks'
      /\ Current' \in DOMAIN blocks' /\ Current' = fresh'[Listener]
      /\ fresh' \in [Listeners -> Nat \ {0}]
      /\ \A b \in DOMAIN blocks' : b # Current' => blocks'[b] = <<>>
  BY GrowArray DEF MergeInv
<1>3. pc \in [Threads -> ListenerSteps \cup ReaderSteps] /\ Listener \in Threads /\ num \in Nat
  BY ListenerKinds DEF TableTypeOK
<1>4. pc' \in [Threads -> ListenerSteps \cup ReaderSteps] /\ pc'[Listener] = "assign"
  BY <1>1, <1>3 DEF ListenerSteps, Appends
<1>5. UNCHANGED <<Merging, Found, Merged, num>>
  BY <1>1 DEF Merging, New, Found, Merged
<1>6. TableTypeOK'
  BY <1>1, <1>2, <1>4 DEF TableTypeOK, ListenerSteps, Appends
<1>7. OneArray' /\ Suffix'
  BY <1>1, <1>2, <1>4, <1>5 DEF MergeInv, OneArray, Suffix, Appends
<1>8. EntriesWhole'
  BY <1>1, <1>2, <1>4, <1>5 DEF MergeInv, EntriesWhole, Replaced
<1>9. NetsKept
  BY <1>2, <1>3, <1>5 DEF NetsKept
<1>10. EntriesStay'
  BY <1>3, <1>5, <1>9, OffersKnown DEF MergeInv, EntriesStay, NetsKept
<1>11. Covered'
  BY <1>2, <1>5 DEF MergeInv, Covered, Covers
<1>12. Progress'
  BY <1>1, <1>2, <1>4, <1>5 DEF MergeInv, Progress, Replaces, Appends, Fills
<1> QED
  BY <1>6, <1>7, <1>8, <1>9, <1>10, <1>11, <1>12 DEF MergeInv

(* routing_table->table = the block realloc returned                       *)
LEMMA AssignStays ==
  ASSUME SingleListener, TableTypeOK, MergeInv, Assign(Listener)
  PROVE  TableTypeOK' /\ MergeInv' /\ NetsKept
<1>1. /\ pc[Listener] = "assign" /\ base' = fresh[Listener]
      /\ pc' = [pc EXCEPT ![Listener] = "net"]
      /\ UNCHANGED <<blocks, num, todo, index, entry, count, fresh, wanted, gateway, sent, corrupt>>
  BY DEF Assign, Step, Goto, forwarding
<1>2. pc \in [Threads -> ListenerSteps \cup ReaderSteps] /\ Listener \in Threads /\ num \in Nat
  BY ListenerKinds DEF TableTypeOK
<1>3. pc' \in [Threads -> ListenerSteps \cup ReaderSteps] /\ pc'[Listener] = "net"
  BY <1>1, <1>2 DEF ListenerSteps, Appends, Fills
<1>4. UNCHANGED <<Current, Array, Merging, Found, Merged, num>>
  BY <1>1, <1>3 DEF Current, Array, Merging, New, Found, Merged
<1>5. TableTypeOK'
  BY <1>1, <1>3 DEF TableTypeOK, ListenerSteps, Appends, Fills
<1>6. OneArray' /\ Suffix' /\ EntriesStay' /\ Covered' /\ EntriesWhole'
  BY <1>1, <1>3, <1>4
  DEF MergeInv, OneArray, Suffix, EntriesStay, Covered, Covers, EntriesWhole, Replaced,
      Appends, Fills
<1>7. Progress'
  BY <1>1, <1>3, <1>4 DEF MergeInv, Progress, Replaces, Appends, Fills
<1> QED
  BY <1>2, <1>4, <1>5, <1>6, <1>7 DEF MergeInv, NetsKept

(* A field of the entry behind the last one is written: the table that     *)
(* num_route counts does not change.                                       *)
LEMMA FillKeeps ==
  ASSUME SingleListener, TableTypeOK, MergeInv, NEW step, NEW then, NEW route \in Fields,
         step \in {"net", "passerelle", "distance"}, then \in Fills,
         Fill(Listener, step, route, then)
  PROVE  /\ TableTypeOK' /\ OneArray' /\ Suffix' /\ EntriesWhole' /\ EntriesStay' /\ Covered'
         /\ NetsKept /\ UNCHANGED <<Merging, num>>
         /\ \A i \in 1 .. num : Array'[i] = Array[i]
         /\ Array'[num + 1] = route /\ pc'[Listener] = then
<1>1. /\ pc[Listener] \in {"net", "passerelle", "distance"}
      /\ Put(Place(Listener), route)
      /\ pc' = [pc EXCEPT ![Listener] = then]
      /\ UNCHANGED <<base, num, todo, index, entry, count, fresh, wanted, gateway, sent, corrupt>>
  BY DEF Fill, Step, Goto, forwarding
<1>2. /\ Place(Listener) = <<base, num + 1>>
      /\ num + 1 \in DOMAIN Array
  BY <1>1, ListenerPlace DEF Fills
<1>3. pc \in [Threads -> ListenerSteps \cup ReaderSteps] /\ Listener \in Threads /\ num \in Nat
  BY ListenerKinds DEF TableTypeOK
<1>4. /\ pc' \in [Threads -> ListenerSteps \cup ReaderSteps] /\ pc'[Listener] = then
      /\ pc'[Listener] \in Fills /\ pc'[Listener] \in ListenerSteps
  BY <1>1, <1>3 DEF ListenerSteps, Appends
<1>5. /\ Array' = [Array EXCEPT ![num + 1] = route]
      /\ Array' \in Seq(Fields) /\ Len(Array') = Len(Array)
      /\ blocks' \in Seq(Seq(Fields)) /\ DOMAIN blocks' = DOMAIN blocks
      /\ \A b \in DOMAIN blocks' : b # Current' => blocks'[b] = <<>>
  <2>1. pc[Listener] # "assign" /\ pc'[Listener] # "assign"
    BY <1>1, <1>4 DEF Fills
  <2> QED
    BY <1>1, <1>2, <2>1, PutInArray DEF MergeInv
<1>6. /\ Array'[num + 1] = route
      /\ \A i \in 1 .. num : Array'[i] = Array[i]
  BY <1>2, <1>3, <1>5, ArrayType DEF MergeInv
<1>7. UNCHANGED <<Merging, Found, Merged, num>>
  BY <1>1 DEF Merging, New, Found, Merged
<1>8. TableTypeOK'
  BY <1>1, <1>4, <1>5 DEF TableTypeOK
<1>9. OneArray' /\ Suffix'
  BY <1>1, <1>4, <1>5, <1>7 DEF MergeInv, OneArray, Suffix, Appends, Fills
<1>10. EntriesWhole'
  BY <1>1, <1>4, <1>6, <1>7 DEF MergeInv, EntriesWhole, Replaced, Fills
<1>11. NetsKept
  BY <1>3, <1>6, <1>7 DEF NetsKept
<1>12. EntriesStay'
  BY <1>3, <1>7, <1>11, OffersKnown DEF MergeInv, EntriesStay, NetsKept
<1>13. Covered'
  BY <1>6, <1>7 DEF MergeInv, Covered, Covers
<1> QED
  BY <1>4, <1>6, <1>7, <1>8, <1>9, <1>10, <1>11, <1>12, <1>13

(* The fields of the new entry.                                            *)
LEMMA FillEntryStays ==
  ASSUME SingleListener, TableTypeOK, MergeInv, FillEntry(Listener)
  PROVE  TableTypeOK' /\ MergeInv' /\ NetsKept
<1> DEFINE old == Array[num + 1]
           named == [old EXCEPT !.net = Merging.net]
           routed == [old EXCEPT !.passerelle = Merging.passerelle]
           measured == [old EXCEPT !.distance = Merging.distance]
<1>1. /\ pc[Listener] \in {"net", "passerelle", "distance"}
      /\ \/ pc[Listener] = "net" /\ Fill(Listener, "net", named, "passerelle")
         \/ pc[Listener] = "passerelle" /\ Fill(Listener, "passerelle", routed, "distance")
         \/ pc[Listener] = "distance" /\ Fill(Listener, "distance", measured, "load")
  <2>1. pc[Listener] \in {"net", "passerelle", "distance"}
    BY DEF FillEntry, Fill, Step
  <2>2. At(Place(Listener)) = old
    BY <2>1, ListenerPlace DEF Fills
  <2> QED
    BY <2>1, <2>2 DEF FillEntry, Fill, Step, Merging
<1>2. old \in Fields /\ num \in Nat
  BY <1>1, ListenerPlace DEF Fills, TableTypeOK
<1>3. Merging \in Known /\ Merging \in Fields
  BY <1>1, MergingKnown, KnownRoutes DEF MergeInv
<1>4. /\ named \in Fields /\ named.net = Merging.net
      /\ routed \in Fields /\ routed.passerelle = Merging.passerelle /\ routed.net = old.net
      /\ measured \in Fields /\ measured.distance = Merging.distance
      /\ measured.passerelle = old.passerelle /\ measured.net = old.net
  <2>1. /\ old \in [net : {r.net : r \in Known} \cup {Garbage},
                    passerelle : Strings \cup {Garbage, Freed},
                    distance : Nat \cup {Garbage}]
        /\ Merging \in [net : {r.net : r \in Known} \cup {Garbage},
                        passerelle : Strings \cup {Garbage, Freed},
                        distance : Nat \cup {Garbage}]
    BY <1>2, <1>3 DEF Fields, Strings
  <2>2. {named, routed, measured} \subseteq [net : {r.net : r \in Known} \cup {Garbage},
                                             passerelle : Strings \cup {Garbage, Freed},
                                             distance : Nat \cup {Garbage}]
    BY <2>1
  <2> QED
    BY <2>1, <2>2 DEF Fields, Strings
<1> HIDE DEF named, routed, measured
<1>5. CASE pc[Listener] = "net"
  <2>1. Fill(Listener, "net", named, "passerelle")
    BY <1>1, <1>5
  <2>2. /\ TableTypeOK' /\ OneArray' /\ Suffix' /\ EntriesWhole' /\ EntriesStay' /\ Covered'
        /\ NetsKept /\ UNCHANGED <<Merging, num>>
        /\ \A i \in 1 .. num : Array'[i] = Array[i]
        /\ Array'[num + 1] = named /\ pc'[Listener] = "passerelle"
    BY <1>4, <2>1, FillKeeps DEF Fills
  <2>3. Progress'
    BY <1>2, <1>4, <1>5, <2>2 DEF MergeInv, Progress, Replaces, Appends, Fills
  <2> QED
    BY <2>2, <2>3 DEF MergeInv
<1>6. CASE pc[Listener] = "passerelle"
  <2>1. Fill(Listener, "passerelle", routed, "distance")
    BY <1>1, <1>6
  <2>2. /\ TableTypeOK' /\ OneArray' /\ Suffix' /\ EntriesWhole' /\ EntriesStay' /\ Covered'
        /\ NetsKept /\ UNCHANGED <<Merging, num>>
        /\ \A i \in 1 .. num : Array'[i] = Array[i]
        /\ Array'[num + 1] = routed /\ pc'[Listener] = "distance"
    BY <1>4, <2>1, FillKeeps DEF Fills
  <2>3. Progress'
    BY <1>2, <1>4, <1>6, <2>2 DEF MergeInv, Progress, Replaces, Appends, Fills
  <2> QED
    BY <2>2, <2>3 DEF MergeInv
<1>7. CASE pc[Listener] = "distance"
  <2>1. Fill(Listener, "distance", measured, "load")
    BY <1>1, <1>7
  <2>2. /\ TableTypeOK' /\ OneArray' /\ Suffix' /\ EntriesWhole' /\ EntriesStay' /\ Covered'
        /\ NetsKept /\ UNCHANGED <<Merging, num>>
        /\ \A i \in 1 .. num : Array'[i] = Array[i]
        /\ Array'[num + 1] = measured /\ pc'[Listener] = "load"
    BY <1>4, <2>1, FillKeeps DEF Fills
  <2>3. Progress'
    BY <1>2, <1>4, <1>7, <2>2 DEF MergeInv, Progress, Replaces, Appends, Fills
  <2> QED
    BY <2>2, <2>3 DEF MergeInv
<1> QED
  BY <1>1, <1>5, <1>6, <1>7

(* num_route++ reads num_route                                             *)
LEMMA LoadCountStays ==
  ASSUME SingleListener, TableTypeOK, MergeInv, LoadCount(Listener)
  PROVE  TableTypeOK' /\ MergeInv' /\ NetsKept
<1>1. /\ pc[Listener] = "load"
      /\ count' = [count EXCEPT ![Listener] = num]
      /\ pc' = [pc EXCEPT ![Listener] = "store"]
      /\ UNCHANGED <<blocks, base, num, todo, index, entry, fresh, wanted, gateway, sent, corrupt>>
  BY DEF LoadCount, Step, Goto, shared, forwarding
<1>2. /\ pc \in [Threads -> ListenerSteps \cup ReaderSteps] /\ Listener \in Threads
      /\ num \in Nat /\ count \in [Threads -> Nat]
  BY ListenerKinds DEF TableTypeOK
<1>3. /\ pc' \in [Threads -> ListenerSteps \cup ReaderSteps] /\ pc'[Listener] = "store"
      /\ count' \in [Threads -> Nat] /\ count'[Listener] = num
  BY <1>1, <1>2 DEF ListenerSteps, Appends, Fills
<1>4. UNCHANGED <<Current, Array, Merging, Found, Merged, num>>
  BY <1>1, <1>3 DEF Current, Array, Merging, New, Found, Merged
<1>5. TableTypeOK'
  BY <1>1, <1>3 DEF TableTypeOK, ListenerSteps, Appends, Fills
<1>6. OneArray' /\ Suffix' /\ EntriesStay' /\ Covered' /\ EntriesWhole'
  BY <1>1, <1>3, <1>4
  DEF MergeInv, OneArray, Suffix, EntriesStay, Covered, Covers, EntriesWhole, Replaced,
      Appends, Fills
<1>7. Progress'
  BY <1>1, <1>3, <1>4 DEF MergeInv, Progress, Replaces, Appends, Fills
<1> QED
  BY <1>2, <1>4, <1>5, <1>6, <1>7 DEF MergeInv, NetsKept

(* The fields of the entry behind the last one are all written.            *)
LEMMA NewEntryFilled ==
  ASSUME SingleListener, TableTypeOK, MergeInv, pc[Listener] = "store"
  PROVE  Array[num + 1] = Merging
<1>1. Merging \in Known
  BY MergingKnown DEF MergeInv
<1>2. Array[num + 1] \in Fields
  BY ListenerPlace DEF Fills
<1>3. /\ Array[num + 1].net = Merging.net
      /\ Array[num + 1].passerelle = Merging.passerelle
      /\ Array[num + 1].distance = Merging.distance
  BY DEF MergeInv, Progress
<1>4. Array[num + 1] \in [net : {r.net : r \in Known} \cup {Garbage},
                          passerelle : Strings \cup {Garbage, Freed},
                          distance : Nat \cup {Garbage}]
  BY <1>2 DEF Fields, Strings
<1>5. Array[num + 1] = [net |-> Array[num + 1].net, passerelle |-> Array[num + 1].passerelle,
                        distance |-> Array[num + 1].distance]
  BY <1>4
<1>6. Merging = [net |-> Merging.net, passerelle |-> Merging.passerelle,
                 distance |-> Merging.distance]
  BY <1>1, KnownRoutes
<1> QED
  BY <1>3, <1>5, <1>6

(* ... and writes it: the new entry belongs to the table.                  *)
LEMMA StoreCountStays ==
  ASSUME SingleListener, TableTypeOK, MergeInv, StoreCount(Listener)
  PROVE  /\ TableTypeOK' /\ MergeInv' /\ NetsKept
         /\ num' = num + 1 /\ Array'[num + 1].net = Merging.net
         /\ \A i \in 1 .. num : Array'[i].net # Merging.net
<1>1. /\ pc[Listener] = "store" /\ num' = count[Listener] + 1
      /\ NextRoute(Listener)
      /\ UNCHANGED <<blocks, base, entry, count, fresh, wanted, gateway, sent, corrupt>>
  BY DEF StoreCount, Step, forwarding
<1>2. /\ todo' \in [Listeners -> Seq(Known)]
      /\ index' \in [Threads -> Nat \ {0}] /\ index'[Listener] = 1
      /\ pc' \in [Threads -> ListenerSteps \cup ReaderSteps]
      /\ pc'[Listener] \in {"search", "done"} /\ pc'[Listener] \in ListenerSteps
      /\ Suffix' /\ Merged' = Merged + 1
  BY <1>1, NextRouteMoves DEF MergeInv
<1>3. num \in Nat /\ num' = num + 1 /\ num' \in Nat
  <2>1. count[Listener] = num
    BY <1>1 DEF MergeInv, Progress
  <2>2. num \in Nat
    BY DEF TableTypeOK
  <2> QED
    BY <1>1, <2>1, <2>2
<1>4. UNCHANGED <<Current, Array, Found>>
  BY <1>1, <1>2 DEF Current, Array, Found
<1>5. Merging \in Known /\ Merging \in Fields /\ Merging.distance \in Nat
  BY <1>1, MergingKnown, KnownRoutes DEF MergeInv
<1>6. Array[num + 1] = Merging
  BY <1>1, NewEntryFilled
<1>7. TableTypeOK'
  BY <1>1, <1>2, <1>3 DEF TableTypeOK
<1>8. OneArray'
  BY <1>1, <1>2, <1>3, <1>4 DEF MergeInv, OneArray, Appends, Fills
<1>9. NetsKept
  BY <1>3, <1>4 DEF NetsKept
<1>10. EntriesWhole'
  <2>1. ASSUME NEW i \in 1 .. num' PROVE Array'[i] \in Known
    <3>1. CASE i = num + 1
      BY <1>4, <1>5, <1>6, <3>1
    <3>2. CASE i # num + 1
      <4>1. i \in 1 .. num
        BY <1>3, <3>2
      <4> QED
        BY <1>1, <1>4, <4>1 DEF MergeInv, EntriesWhole, Replaced
    <3> QED
      BY <3>1, <3>2
  <2>2. \A i : ~Replaced(i)'
    BY <1>2 DEF Replaced
  <2> QED
    BY <2>1, <2>2 DEF EntriesWhole
<1>11. EntriesStay'
  BY <1>3, <1>4, OffersKnown DEF MergeInv, EntriesStay
<1>12. Covered'
  <2>1. \A i \in 1 .. num : /\ Array'[i].net = Array[i].net
                            /\ \A n \in Nat : Array[i].distance <= n => Array'[i].distance <= n
    BY <1>4
  <2>2. /\ num' \in Nat /\ num <= num' /\ num + 1 \in 1 .. num'
        /\ Array'[num + 1].net = Merging.net /\ Array'[num + 1].distance <= Merging.distance
    BY <1>3, <1>4, <1>5, <1>6
  <2> QED
    BY <1>1, <1>2, <2>1, <2>2, NextRouteCovered DEF MergeInv
<1>13. Progress'
  BY <1>2, <1>3 DEF Progress, Replaces, Appends, Fills
<1>14. \A i \in 1 .. num : Array'[i].net # Merging.net
  BY <1>1, <1>4 DEF MergeInv, Progress, Appends, Fills
<1> QED
  BY <1>2, <1>3, <1>4, <1>6, <1>7, <1>8, <1>9, <1>10, <1>11, <1>12, <1>13, <1>14 DEF MergeInv

LEMMA ListenStays ==
  ASSUME SingleListener, TableTypeOK, MergeInv, NEW l \in Listeners, Listen(l)
  PROVE  TableTypeOK' /\ MergeInv' /\ NetsKept
<1>1. l = Listener
  BY ListenerKinds
<1>2. CASE Differs(l)
  BY <1>1, <1>2, DiffersStays
<1>3. CASE Keep(l)
  BY <1>1, <1>3, KeepStays
<1>4. CASE Replace(l)
  BY <1>1, <1>4, ReplaceStays
<1>5. CASE Shorten(l)
  BY <1>1, <1>5, ShortenStays
<1>6. CASE FreeGateway(l)
  BY <1>1, <1>6, FreeGatewayStays
<1>7. CASE RenewGateway(l)
  BY <1>1, <1>7, RenewGatewayStays
<1>8. CASE NotFound(l)
  BY <1>1, <1>8, NotFoundStays
<1>9. CASE \E moves \in BOOLEAN : Grow(l, moves)
  BY <1>1, <1>9, GrowStays
<1>10. CASE Assign(l)
  BY <1>1, <1>10, AssignStays
<1>11. CASE FillEntry(l)
  BY <1>1, <1>11, FillEntryStays
<1>12. CASE LoadCount(l)
  BY <1>1, <1>12, LoadCountStays
<1>13. CASE StoreCount(l)
  BY <1>1, <1>13, StoreCountStays
<1> QED
  BY <1>2, <1>3, <1>4, <1>5, <1>6, <1>7, <1>8, <1>9, <1>10, <1>11, <1>12, <1>13 DEF Listen

-----------------------------------------------------------------------------
(* Steps of the threads that read: they leave the table and the listener   *)
(* alone.                                                                  *)

LEMMA ReadersKeep ==
  ASSUME SingleListener, TableTypeOK, MergeInv,
         UNCHANGED <<blocks, base, num, todo, fresh, pc[Listener], index[Listener],
                     entry[Listener], count[Listener]>>
  PROVE  MergeInv' /\ NetsKept /\ UNCHANGED Array
<1>1. UNCHANGED <<Current, Array, Merging, Found, Merged>>
  BY DEF Current, Array, Merging, New, Found, Merged
<1>2. OneArray' /\ Suffix' /\ EntriesStay' /\ Covered' /\ EntriesWhole'
  BY <1>1 DEF MergeInv, OneArray, Suffix, EntriesStay, Covered, Covers, EntriesWhole, Replaced
<1>3. Progress'
  BY <1>1 DEF MergeInv, Progress
<1>4. NetsKept
  BY <1>1 DEF NetsKept, TableTypeOK
<1> QED
  BY <1>1, <1>2, <1>3, <1>4 DEF MergeInv

LEMMA CopyStays ==
  ASSUME SingleListener, TableTypeOK, MergeInv, NEW b \in Broadcasters, Copy(b)
  PROVE  /\ TableTypeOK' /\ MergeInv' /\ NetsKept /\ UNCHANGED Array
         /\ UNCHANGED <<num, wanted, gateway, sent>>
         /\ \A f \in Forwarders : UNCHANGED <<pc[f], index[f], entry[f]>>
<1>1. b \in Threads /\ b # Listener /\ b \notin Forwarders /\ Forwarders \subseteq Threads
  BY ListenerKinds, ThreadAssumption DEF Threads
<1>2. /\ pc \in [Threads -> ListenerSteps \cup ReaderSteps]
      /\ index \in [Threads -> Nat \ {0}]
      /\ entry \in [Threads -> (Nat \ {0}) \X (Nat \ {0})]
      /\ count \in [Threads -> Nat]
      /\ num \in Nat /\ base \in Nat \ {0}
  <2>1. base \in DOMAIN blocks /\ blocks \in Seq(Seq(Fields))
    BY DEF TableTypeOK
  <2>2. base \in Nat \ {0}
    BY <2>1
  <2> QED
    BY <2>2 DEF TableTypeOK
<1>3. /\ UNCHANGED <<blocks, base, num, todo, fresh, wanted, gateway, sent, corrupt>>
      /\ \E s \in ReaderSteps : pc' = [pc EXCEPT ![b] = s]
      /\ index' = index \/ \E n \in Nat \ {0} : index' = [index EXCEPT ![b] = n]
      /\ entry' = entry \/ entry' = [entry EXCEPT ![b] = <<base, index[b]>>]
      /\ count' = count \/ count' = [count EXCEPT ![b] = num]
  BY <1>1, <1>2
  DEF Copy, BeginCopy, PointTo, CopyRoute, EndCopy, Step, Goto, shared, forwarding, ReaderSteps
<1>4. /\ pc' \in [Threads -> ListenerSteps \cup ReaderSteps]
      /\ \A t \in Threads : t # b => pc'[t] = pc[t]
  <2>1. PICK s \in ReaderSteps : pc' = [pc EXCEPT ![b] = s]
    BY <1>3
  <2> QED
    BY <1>1, <1>2, <2>1
<1>5. /\ index' \in [Threads -> Nat \ {0}]
      /\ \A t \in Threads : t # b => index'[t] = index[t]
  BY <1>2, <1>3
<1>6. /\ entry' \in [Threads -> (Nat \ {0}) \X (Nat \ {0})]
      /\ \A t \in Threads : t # b => entry'[t] = entry[t]
      /\ \A t \in Threads : entry'[t][1] \in DOMAIN blocks
  <2> DEFINE Places == (Nat \ {0}) \X (Nat \ {0})
  <2>1. <<base, index[b]>> \in Places /\ entry \in [Threads -> Places]
    BY <1>1, <1>2
  <2> HIDE DEF Places
  <2>2. entry' \in [Threads -> Places] /\ \A t \in Threads : t # b => entry'[t] = entry[t]
    BY <1>1, <1>3, <2>1
  <2>3. entry'[b] = entry[b] \/ entry'[b] = <<base, index[b]>>
    BY <1>1, <1>3, <2>1
  <2>4. \A t \in Threads : entry[t][1] \in DOMAIN blocks /\ base \in DOMAIN blocks
    BY DEF TableTypeOK
  <2>5. \A t \in Threads : entry'[t][1] \in DOMAIN blocks
    BY <2>2, <2>3, <2>4
  <2> QED
    BY <2>2, <2>5 DEF Places
<1>7. /\ count' \in [Threads -> Nat]
      /\ \A t \in Threads : t # b => count'[t] = count[t]
  BY <1>2, <1>3
<1>8. MergeInv' /\ NetsKept /\ UNCHANGED Array
  BY <1>1, <1>3, <1>4, <1>5, <1>6, <1>7, ListenerKinds, ReadersKeep
<1>9. TableTypeOK'
  BY <1>1, <1>3, <1>4, <1>5, <1>6, <1>7, ListenerKinds DEF TableTypeOK
<1> QED
  BY <1>1, <1>3, <1>4, <1>5, <1>6, <1>8, <1>9

LEMMA ForwardStays ==
  ASSUME SingleListener, TableTypeOK, MergeInv, NEW f \in Forwarders, Forward(f)
  PROVE  /\ TableTypeOK' /\ MergeInv' /\ NetsKept /\ UNCHANGED Array
         /\ UNCHANGED <<num, wanted>>
         /\ \A g \in Forwarders \ {f} :
              UNCHANGED <<pc[g], index[g], entry[g], gateway[g], sent[g]>>
<1> DEFINE Held == {r.passerelle : r \in Known} \cup {Garbage, Freed}
<1>1. f \in Threads /\ f # Listener /\ Forwarders \subseteq Threads
  BY ListenerKinds DEF Threads
<1>2. /\ pc \in [Threads -> ListenerSteps \cup ReaderSteps]
      /\ index \in [Threads -> Nat \ {0}]
      /\ entry \in [Threads -> (Nat \ {0}) \X (Nat \ {0})]
      /\ gateway \in [Forwarders -> Held] /\ sent \in [Forwarders -> Seq(Held)]
      /\ num \in Nat /\ base \in Nat \ {0}
  <2>1. base \in DOMAIN blocks /\ blocks \in Seq(Seq(Fields))
    BY DEF TableTypeOK
  <2>2. base \in Nat \ {0}
    BY <2>1
  <2> QED
    BY <2>2 DEF TableTypeOK
<1>3. /\ UNCHANGED <<blocks, base, num, todo, fresh, count, wanted, corrupt>>
      /\ \E s \in ReaderSteps : pc' = [pc EXCEPT ![f] = s]
      /\ index' = index \/ index' = [index EXCEPT ![f] = index[f] + 1]
      /\ entry' = entry \/ entry' = [entry EXCEPT ![f] = <<base, index[f]>>]
      /\ sent' = sent \/ sent' = [sent EXCEPT ![f] = Append(sent[f], gateway[f])]
      /\ gateway' = gateway \/ TakeGateway(f)
  BY <1>1, <1>2
  DEF Forward, LookAt, PassOver, TakeGateway, UseGateway, EndSearch, Step, Goto, shared,
      forwarding, ReaderSteps
<1>4. /\ pc' \in [Threads -> ListenerSteps \cup ReaderSteps]
      /\ \A t \in Threads : t # f => pc'[t] = pc[t]
  <2>1. PICK s \in ReaderSteps : pc' = [pc EXCEPT ![f] = s]
    BY <1>3
  <2> QED
    BY <1>1, <1>2, <2>1
<1>5. /\ index' \in [Threads -> Nat \ {0}]
      /\ \A t \in Threads : t # f => index'[t] = index[t]
  BY <1>1, <1>2, <1>3
<1>6. /\ entry' \in [Threads -> (Nat \ {0}) \X (Nat \ {0})]
      /\ \A t \in Threads : t # f => entry'[t] = entry[t]
      /\ \A t \in Threads : entry'[t][1] \in DOMAIN blocks
  <2> DEFINE Places == (Nat \ {0}) \X (Nat \ {0})
  <2>1. <<base, index[f]>> \in Places /\ entry \in [Threads -> Places]
    BY <1>1, <1>2
  <2> HIDE DEF Places
  <2>2. entry' \in [Threads -> Places] /\ \A t \in Threads : t # f => entry'[t] = entry[t]
    BY <1>1, <1>3, <2>1
  <2>3. entry'[f] = entry[f] \/ entry'[f] = <<base, index[f]>>
    BY <1>1, <1>3, <2>1
  <2>4. \A t \in Threads : entry[t][1] \in DOMAIN blocks /\ base \in DOMAIN blocks
    BY DEF TableTypeOK
  <2>5. \A t \in Threads : entry'[t][1] \in DOMAIN blocks
    BY <2>2, <2>3, <2>4
  <2> QED
    BY <2>2, <2>5 DEF Places
<1>7. /\ sent' \in [Forwarders -> Seq(Held)]
      /\ \A g \in Forwarders : g # f => sent'[g] = sent[g]
  <2>1. Append(sent[f], gateway[f]) \in Seq(Held)
    BY <1>2, AppendProperties
  <2> HIDE DEF Held
  <2>2. CASE sent' = sent
    BY <1>2, <2>2
  <2>3. CASE sent' = [sent EXCEPT ![f] = Append(sent[f], gateway[f])]
    BY <1>2, <2>1, <2>3, Zenon
  <2> QED
    BY <1>3, <2>2, <2>3
<1>8. /\ gateway' \in [Forwarders -> Held]
      /\ \A g \in Forwarders : g # f => gateway'[g] = gateway[g]
  <2>1. CASE TakeGateway(f)
    <3>1. /\ Place(f) = entry[f] /\ Valid(Place(f)) /\ Written(At(Place(f)))
          /\ gateway' = [gateway EXCEPT ![f] = At(Place(f)).passerelle]
      BY <2>1 DEF TakeGateway, Step, Defined, Place
    <3>2. At(Place(f)) \in Fields
      <4>1. entry[f][1] \in DOMAIN blocks /\ blocks \in Seq(Seq(Fields))
        BY <1>1 DEF TableTypeOK
      <4>2. blocks[entry[f][1]] \in Seq(Fields)
        BY <4>1
      <4>3. entry[f][2] \in DOMAIN blocks[entry[f][1]]
        BY <3>1 DEF Valid
      <4> QED
        BY <3>1, <4>2, <4>3 DEF At
    <3>3. At(Place(f)).passerelle \in Held
      BY <3>2 DEF Fields
    <3> HIDE DEF Held
    <3> QED
      BY <1>2, <3>1, <3>3
  <2>2. CASE gateway' = gateway
    BY <1>2, <2>2
  <2> QED
    BY <1>3, <2>1, <2>2
<1>9. MergeInv' /\ NetsKept /\ UNCHANGED Array
  BY <1>1, <1>3, <1>4, <1>5, <1>6, ListenerKinds, ReadersKeep
<1>10. TableTypeOK'
  BY <1>1, <1>3, <1>4, <1>5, <1>6, <1>7, <1>8, ListenerKinds DEF TableTypeOK
<1> QED
  BY <1>1, <1>3, <1>4, <1>5, <1>6, <1>7, <1>8, <1>9, <1>10

-----------------------------------------------------------------------------
(* The search: one entry per network, looked at once by every forwarder.   *)

DistinctBefore ==
  \A i, k \in 1 .. Len(Before) : Before[i].net = Before[k].net => i = k

LEMMA ListenKeepsDistinct ==
  ASSUME SingleListener, TableTypeOK, MergeInv, Distinct, NEW l \in Listeners, Listen(l)
  PROVE  Distinct'
<1>1. l = Listener
  BY ListenerKinds
<1>2. NetsKept /\ num \in Nat
  BY ListenStays DEF TableTypeOK
<1>3. CASE StoreCount(l)
  <2>1. /\ num' = num + 1 /\ Array'[num + 1].net = Merging.net
        /\ \A i \in 1 .. num : Array'[i].net # Merging.net
    BY <1>1, <1>3, StoreCountStays
  <2>2. \A i, k \in 1 .. num : Array'[i].net = Array'[k].net => i = k
    BY <1>2 DEF Distinct, NetsKept
  <2>3. \A i \in 1 .. num' : i = num + 1 \/ i \in 1 .. num
    BY <1>2, <2>1
  <2> QED
    BY <2>1, <2>2, <2>3 DEF Distinct
<1>4. CASE ~StoreCount(l)
  <2>1. num' = num
    BY <1>4
    DEF Listen, Differs, Keep, Replace, Shorten, FreeGateway, RenewGateway, NotFound, Grow,
        Assign, FillEntry, Fill, LoadCount, shared
  <2> QED
    BY <1>2, <2>1 DEF Distinct, NetsKept
<1> QED
  BY <1>3, <1>4

(* What a forwarder has seen stays true while the listener merges.         *)
LEMMA ListenKeepsLooks ==
  ASSUME SingleListener, TableTypeOK, MergeInv, NEW l \in Listeners, Listen(l),
         NEW f \in Forwarders, Looks(f)
  PROVE  Looks(f)'
<1>1. l = Listener /\ f # Listener /\ f \in Threads
  BY ListenerKinds DEF Threads
<1>2. NetsKept /\ num \in Nat /\ num' \in Nat
  BY ListenStays DEF TableTypeOK
<1>3. UNCHANGED <<wanted, sent>>
  BY DEF Listen, Differs, Keep, Replace, Shorten, FreeGateway, RenewGateway, NotFound, Grow,
         Assign, FillEntry, Fill, LoadCount, StoreCount, forwarding
<1>4. UNCHANGED <<pc[f], index[f], entry[f]>>
  <2>1. /\ \A s : Goto(l, s) => pc'[f] = pc[f]
        /\ NextRoute(l) => pc'[f] = pc[f] /\ index'[f] = index[f]
        /\ \A n : index' = [index EXCEPT ![l] = n] => index'[f] = index[f]
        /\ \A p : entry' = [entry EXCEPT ![l] = p] => entry'[f] = entry[f]
    BY <1>1 DEF TableTypeOK, Goto, NextRoute
  <2> QED
    BY <2>1
    DEF Listen, Differs, Keep, Replace, Shorten, FreeGateway, RenewGateway, NotFound, Grow,
        Assign, FillEntry, Fill, LoadCount, StoreCount
<1>5. gateway'[f] \in {gateway[f], Freed}
  <2>1. CASE FreeGateway(l)
    BY <1>1, <2>1, FreeGatewayStays
  <2>2. CASE ~FreeGateway(l)
    BY <2>2
    DEF Listen, Differs, Keep, Replace, Shorten, RenewGateway, NotFound, Grow,
        Assign, FillEntry, Fill, LoadCount, StoreCount, forwarding
  <2> QED
    BY <2>1, <2>2
<1>6. index[f] \in Nat \ {0}
  BY <1>1 DEF TableTypeOK
<1>7. index[f] <= num' + 1
  BY <1>2, <1>6 DEF Looks, NetsKept
<1>8. \A i \in 1 .. index[f] - 1 : Array'[i].net = Array[i].net
  BY <1>2, <1>6 DEF Looks, NetsKept
<1>9. /\ pc[f] \in {"match", "use"} => index[f] <= num'
      /\ pc[f] = "use" => Array'[index[f]].net = Array[index[f]].net
  BY <1>2, <1>6 DEF Looks, NetsKept
<1> QED
  BY <1>3, <1>4, <1>5, <1>6, <1>7, <1>8, <1>9 DEF Looks

(* A forwarder that may read its entry reads the table, not what a moved   *)
(* block held.                                                             *)
LEMMA ForwarderReads ==
  ASSUME SingleListener, TableTypeOK, MergeInv, NEW f \in Forwarders, Looks(f),
         Step(f, "match")
  PROVE  /\ index[f] \in 1 .. num
         /\ At(Place(f)) = Array[index[f]]
         /\ At(Place(f)).passerelle \in Gateways(Array[index[f]].net) \cup {Freed}
<1>1. /\ pc[f] = "match" /\ Place(f) = entry[f] /\ Valid(entry[f])
  BY DEF Step, Defined, Place
<1>2. f \in Threads
  BY DEF Threads
<1>3. index[f] \in 1 .. num /\ entry[f][2] = index[f]
  BY <1>1, <1>2 DEF Looks, TableTypeOK
<1>4. entry[f][1] \in DOMAIN blocks /\ blocks[entry[f][1]] # <<>>
  BY <1>1, <1>2 DEF TableTypeOK, Valid
<1>5. At(Place(f)) = Array[index[f]]
  BY <1>1, <1>3, <1>4 DEF MergeInv, OneArray, At, Array
<1>6. Array[index[f]].passerelle \in Gateways(Array[index[f]].net) \cup {Freed}
  <2>1. CASE Replaced(index[f])
    BY <1>3, <2>1 DEF MergeInv, EntriesWhole
  <2>2. CASE ~Replaced(index[f])
    BY <1>3, <2>2, KnownRoutes DEF MergeInv, EntriesWhole
  <2> QED
    BY <2>1, <2>2
<1> QED
  BY <1>3, <1>5, <1>6

LEMMA ForwardKeepsLooks ==
  ASSUME SingleListener, TableTypeOK, MergeInv, Distinct, NEW f \in Forwarders, Looks(f),
         Forward(f)
  PROVE  Looks(f)'
<1> DEFINE Held == {r.passerelle : r \in Known} \cup {Garbage, Freed}
<1>1. UNCHANGED Array /\ UNCHANGED <<num, wanted>> /\ num \in Nat
  BY ForwardStays DEF TableTypeOK
<1>2. /\ f \in Threads /\ index \in [Threads -> Nat \ {0}]
      /\ pc \in [Threads -> ListenerSteps \cup ReaderSteps]
      /\ gateway \in [Forwarders -> Held] /\ sent \in [Forwarders -> Seq(Held)]
      /\ entry \in [Threads -> (Nat \ {0}) \X (Nat \ {0})]
  BY DEF TableTypeOK, Threads
<1>3. index[f] \in Nat \ {0} /\ sent[f] \in Seq(Held)
  BY <1>2
<1> HIDE DEF Held
<1>4. CASE LookAt(f)
  <2>1. /\ pc[f] = "look" /\ index[f] <= num
        /\ entry'[f] = <<base, index[f]>> /\ pc'[f] = "match"
        /\ UNCHANGED <<index, sent, gateway>>
    BY <1>2, <1>4 DEF LookAt, Step, Goto, forwarding
  <2> QED
    BY <1>1, <2>1 DEF Looks
<1>5. CASE PassOver(f)
  <2>1. /\ Step(f, "match") /\ At(Place(f)).net # wanted[f]
        /\ index'[f] = index[f] + 1 /\ pc'[f] = "look"
        /\ UNCHANGED <<sent, gateway>>
    BY <1>2, <1>5 DEF PassOver, Goto, forwarding
  <2>2. index[f] \in 1 .. num /\ Array[index[f]].net # wanted[f]
    BY <2>1, ForwarderReads
  <2>3. index'[f] <= num' + 1
    BY <1>1, <2>1, <2>2
  <2>4. sent[f] = <<>> => \A i \in 1 .. index'[f] - 1 : Array'[i].net # wanted[f]
    BY <1>1, <1>3, <2>1, <2>2 DEF Looks
  <2>5. sent[f] # <<>> =>
          /\ sent[f][1] \in Gateways(wanted[f])
          /\ \E i \in 1 .. index'[f] - 1 : Array'[i].net = wanted[f]
    BY <1>1, <1>3, <2>1 DEF Looks
  <2> QED
    BY <1>1, <2>1, <2>3, <2>4, <2>5 DEF Looks
<1>6. CASE TakeGateway(f)
  <2>1. /\ Step(f, "match") /\ At(Place(f)).net = wanted[f]
        /\ gateway'[f] = At(Place(f)).passerelle /\ pc'[f] = "use" /\ pc[f] = "match"
        /\ UNCHANGED <<index, entry, sent>>
    BY <1>2, <1>6 DEF TakeGateway, Goto, Step
  <2>2. Array[index[f]].net = wanted[f] /\ gateway'[f] \in Gateways(wanted[f]) \cup {Freed}
    BY <2>1, ForwarderReads
  <2> QED
    BY <1>1, <2>1, <2>2 DEF Looks
<1>7. CASE UseGateway(f)
  <2>1. /\ pc[f] = "use" /\ gateway[f] # Freed
        /\ sent'[f] = Append(sent[f], gateway[f])
        /\ index'[f] = index[f] + 1 /\ pc'[f] = "look"
    BY <1>2, <1>7 DEF UseGateway, Step, Goto, Defined
  <2>2. /\ index[f] \in 1 .. num /\ Array[index[f]].net = wanted[f]
        /\ gateway[f] \in Gateways(wanted[f])
    BY <1>3, <2>1 DEF Looks
  <2>3. sent[f] = <<>>
    <3>1. ASSUME NEW i \in 1 .. index[f] - 1, Array[i].net = wanted[f]
          PROVE  FALSE
      <4>1. i \in 1 .. num /\ i # index[f]
        BY <1>1, <1>3, <2>2
      <4> QED
        BY <2>2, <3>1, <4>1 DEF Distinct
    <3> QED
      BY <3>1 DEF Looks
  <2>4. Len(sent'[f]) = 1 /\ sent'[f] # <<>> /\ sent'[f][1] = gateway[f]
    BY <1>2, <2>1, <2>3
  <2>5. index[f] \in 1 .. index'[f] - 1 /\ index'[f] <= num' + 1
    BY <1>1, <1>3, <2>1, <2>2
  <2>6. \E i \in 1 .. index'[f] - 1 : Array'[i].net = wanted'[f]
    BY <1>1, <2>2, <2>5
  <2> QED
    BY <1>1, <2>1, <2>2, <2>4, <2>5, <2>6 DEF Looks
<1>8. CASE EndSearch(f)
  <2>1. /\ pc[f] = "look" /\ index[f] > num /\ pc'[f] = "done"
        /\ UNCHANGED <<index, entry, sent, gateway>>
    BY <1>2, <1>8 DEF EndSearch, Step, Goto, forwarding
  <2>2. index[f] > Len(Before)
    BY <1>1, <1>3, <2>1, OffersKnown DEF MergeInv, EntriesStay
  <2> QED
    BY <1>1, <2>1, <2>2 DEF Looks
<1> QED
  BY <1>4, <1>5, <1>6, <1>7, <1>8 DEF Forward

-----------------------------------------------------------------------------
(* The invariants hold in every state.                                     *)

TableInv == TableTypeOK /\ (~corrupt => MergeInv)
RoutesInv == ~corrupt => SearchInv

LEMMA TableInvInit ==
  ASSUME SingleListener, Init
  PROVE  TableInv
<1>1. /\ Listener \in Listeners /\ Listener \in Threads
      /\ Listener \notin Broadcasters /\ Listener \notin Forwarders
  BY ListenerKinds
<1>2. /\ Offers[Listener] \in Seq(Known) /\ Offers[Listener] # <<>>
      /\ Before \in Seq(Known) /\ Len(Before) \in Nat \ {0}
      /\ Len(Offers[Listener]) \in Nat \ {0}
  BY OffersKnown
<1>3. Before \in Seq(Fields)
  <2>1. Known \subseteq Fields
    BY KnownRoutes
  <2> QED
    BY <1>2, <2>1, SeqMonotonic
<1>4. blocks = <<Before>> /\ base = 1 /\ num = Len(Before) /\ corrupt = FALSE
  BY DEF Init
<1>5. blocks \in Seq(Seq(Fields)) /\ DOMAIN blocks = {1} /\ blocks[1] = Before
  <2>1. blocks \in Seq(Seq(Fields))
    BY <1>3, <1>4
  <2>2. DOMAIN blocks = 1 .. 1 /\ blocks[1] = Before
    BY <1>4
  <2> QED
    BY <2>1, <2>2
<1>6. /\ pc \in [Threads -> ListenerSteps \cup ReaderSteps] /\ pc[Listener] = "search"
  <2> DEFINE First(t) == CASE t \in Listeners -> "search"
                           [] t \in Broadcasters -> "begin"
                           [] t \in Forwarders -> "look"
  <2>1. \A t \in Threads : First(t) \in {"search", "begin", "look"}
    BY DEF Threads
  <2>2. pc = [t \in Threads |-> First(t)]
    BY DEF Init
  <2> HIDE DEF First
  <2>3. {"search", "begin", "look"} \subseteq ListenerSteps \cup ReaderSteps
    BY DEF ListenerSteps, Searches, ReaderSteps
  <2>4. pc \in [Threads -> ListenerSteps \cup ReaderSteps]
    BY <2>1, <2>2, <2>3
  <2>5. pc[Listener] = "search"
    BY <1>1 DEF Init
  <2> QED
    BY <2>4, <2>5
<1>7. todo = Offers /\ todo \in [Listeners -> Seq(Known)]
  BY RouteAssumption DEF Init
<1>8. /\ index \in [Threads -> Nat \ {0}] /\ index[Listener] = 1
      /\ entry \in [Threads -> (Nat \ {0}) \X (Nat \ {0})]
      /\ \A t \in Threads : entry[t][1] \in DOMAIN blocks
      /\ count \in [Threads -> Nat]
      /\ fresh \in [Listeners -> Nat \ {0}] /\ fresh[Listener] \in DOMAIN blocks
  BY <1>1, <1>5 DEF Init
<1>9. /\ wanted \in [Forwarders -> Networks]
      /\ gateway \in [Forwarders -> {r.passerelle : r \in Known} \cup {Garbage, Freed}]
      /\ sent \in [Forwarders -> Seq({r.passerelle : r \in Known} \cup {Garbage, Freed})]
  <2> DEFINE Held == {r.passerelle : r \in Known} \cup {Garbage, Freed}
  <2>1. Garbage \in Held /\ <<>> \in Seq(Held)
    OBVIOUS
  <2> HIDE DEF Held
  <2>2. gateway \in [Forwarders -> Held] /\ sent \in [Forwarders -> Seq(Held)]
    BY <2>1 DEF Init
  <2> QED
    BY <2>2 DEF Init, Held
<1>10. TableTypeOK
  BY <1>2, <1>4, <1>5, <1>6, <1>7, <1>8, <1>9 DEF TableTypeOK, ListenerSteps, Searches
<1>11. Current = 1 /\ Array = Before /\ Merged = 0
  BY <1>2, <1>4, <1>5, <1>6, <1>7 DEF Current, Array, Merged
<1>12. OneArray
  BY <1>4, <1>5, <1>6, <1>11 DEF OneArray, Appends, Fills
<1>13. Suffix
  BY <1>2, <1>6, <1>7, <1>11 DEF Suffix
<1>14. EntriesWhole
  BY <1>2, <1>4, <1>6, <1>11, ElementOfSeq DEF EntriesWhole, Replaced
<1>15. EntriesStay
  BY <1>2, <1>4, <1>11 DEF EntriesStay
<1>16. Progress
  BY <1>2, <1>4, <1>6, <1>8 DEF Progress, Replaces, Appends, Fills
<1>17. Covered
  BY <1>11 DEF Covered
<1> QED
  BY <1>10, <1>12, <1>13, <1>14, <1>15, <1>16, <1>17 DEF TableInv, MergeInv

LEMMA TableInvStays ==
  ASSUME SingleListener, TableInv, [Next]_vars
  PROVE  TableInv'
<1>1. CASE corrupt \/ ~Next
  <2>1. ~Next \/ UNCHANGED vars
    BY <1>1
    DEF Next, Listen, Differs, Keep, Replace, Shorten, FreeGateway, RenewGateway, NotFound,
        Grow, Assign, FillEntry, Fill, LoadCount, StoreCount, Copy, BeginCopy, PointTo,
        CopyRoute, EndCopy, Forward, LookAt, PassOver, TakeGateway, UseGateway, EndSearch,
        Misbehave, Step
  <2>2. UNCHANGED vars
    BY <2>1
  <2>3. UNCHANGED <<blocks, base, num, pc, todo, index, entry, count, fresh, wanted, gateway,
                    sent, corrupt>>
    BY <2>2 DEF vars, shared, locals, forwarding
  <2>4. TableTypeOK'
    BY <2>3 DEF TableInv, TableTypeOK
  <2>5. ~corrupt' => MergeInv'
    BY <2>3, ReadersKeep DEF TableInv
  <2> QED
    BY <2>4, <2>5 DEF TableInv
<1>2. CASE ~corrupt /\ Next
  <2> USE <1>2
  <2>1. TableTypeOK /\ MergeInv
    BY DEF TableInv
  <2>2. ASSUME NEW l \in Listeners, Listen(l)
        PROVE  TableInv'
    BY <2>1, <2>2, ListenStays DEF TableInv
  <2>3. ASSUME NEW b \in Broadcasters, Copy(b)
        PROVE  TableInv'
    BY <2>1, <2>3, CopyStays DEF TableInv
  <2>4. ASSUME NEW f \in Forwarders, Forward(f)
        PROVE  TableInv'
    BY <2>1, <2>4, ForwardStays DEF TableInv
  <2>5. ASSUME NEW t \in Threads, Misbehave(t)
        PROVE  TableInv'
    <3>1. /\ corrupt' = TRUE
          /\ UNCHANGED <<blocks, base, num, pc, todo, index, entry, count, fresh, wanted,
                         gateway, sent>>
      BY <2>5 DEF Misbehave, shared, locals, forwarding
    <3> QED
      BY <2>1, <3>1 DEF TableInv, TableTypeOK
  <2> QED
    BY <2>2, <2>3, <2>4, <2>5 DEF Next
<1> QED
  BY <1>1, <1>2

LEMMA TableInvHolds ==
  ASSUME SingleListener
  PROVE  Spec => []TableInv
<1>1. Init => TableInv
  BY TableInvInit
<1>2. TableInv /\ [Next]_vars => TableInv'
  BY TableInvStays
<1> QED
  BY <1>1, <1>2, PTL DEF Spec

LEMMA RoutesInvInit ==
  ASSUME SingleListener, DistinctBefore, Init
  PROVE  RoutesInv
<1>1. TableTypeOK /\ MergeInv
  BY TableInvInit DEF TableInv, Init
<1>2. num = Len(Before) /\ num \in Nat
  BY <1>1 DEF Init, TableTypeOK
<1>3. Distinct
  BY <1>1, <1>2 DEF DistinctBefore, Distinct, MergeInv, EntriesStay
<1>4. ASSUME NEW f \in Forwarders
      PROVE  Looks(f)
  <2>1. /\ f \in Threads /\ f \notin Listeners /\ f \notin Broadcasters
    BY ThreadAssumption DEF Threads
  <2>2. pc[f] = "look" /\ index[f] = 1 /\ sent[f] = <<>>
    BY <2>1 DEF Init
  <2> QED
    BY <1>2, <2>2 DEF Looks
<1> QED
  BY <1>3, <1>4 DEF RoutesInv, SearchInv

LEMMA RoutesInvStays ==
  ASSUME SingleListener, TableInv, RoutesInv, [Next]_vars
  PROVE  RoutesInv'
<1>1. CASE corrupt'
  BY <1>1 DEF RoutesInv
<1>2. CASE ~corrupt' /\ UNCHANGED vars
  <2>1. UNCHANGED <<blocks, base, num, pc, todo, index, entry, count, fresh, wanted, gateway,
                    sent, corrupt>>
    BY <1>2 DEF vars, shared, locals, forwarding
  <2>2. UNCHANGED Array
    BY <2>1 DEF Array, Current
  <2> QED
    BY <1>2, <2>1, <2>2 DEF RoutesInv, SearchInv, Distinct, Looks
<1>3. CASE ~corrupt' /\ Next
  <2> USE <1>3
  <2>1. ~corrupt
    BY DEF Next, Listen, Differs, Keep, Replace, Shorten, FreeGateway, RenewGateway, NotFound,
        Grow, Assign, FillEntry, Fill, LoadCount, StoreCount, Copy, BeginCopy, PointTo,
        CopyRoute, EndCopy, Forward, LookAt, PassOver, TakeGateway, UseGateway, EndSearch,
        Misbehave, Step
  <2>2. TableTypeOK /\ MergeInv /\ Distinct /\ \A f \in Forwarders : Looks(f)
    BY <2>1 DEF TableInv, RoutesInv, SearchInv
  <2>3. ASSUME NEW l \in Listeners, Listen(l)
        PROVE  SearchInv'
    <3>1. Distinct'
      BY <2>2, <2>3, ListenKeepsDistinct
    <3>2. \A f \in Forwarders : Looks(f)'
      BY <2>2, <2>3, ListenKeepsLooks
    <3> QED
      BY <3>1, <3>2 DEF SearchInv
  <2>4. ASSUME NEW b \in Broadcasters, Copy(b)
        PROVE  SearchInv'
    <3>1. /\ UNCHANGED Array /\ UNCHANGED <<num, wanted, gateway, sent>>
          /\ \A f \in Forwarders : UNCHANGED <<pc[f], index[f], entry[f]>>
      BY <2>2, <2>4, CopyStays
    <3> QED
      BY <2>2, <3>1 DEF SearchInv, Distinct, Looks
  <2>5. ASSUME NEW f \in Forwarders, Forward(f)
        PROVE  SearchInv'
    <3>1. /\ UNCHANGED Array /\ UNCHANGED <<num, wanted>>
          /\ \A g \in Forwarders \ {f} :
               UNCHANGED <<pc[g], index[g], entry[g], gateway[g], sent[g]>>
      BY <2>2, <2>5, ForwardStays
    <3>2. Distinct'
      BY <2>2, <3>1 DEF Distinct
    <3>3. ASSUME NEW g \in Forwarders, g # f
          PROVE  Looks(g)'
      BY <2>2, <3>1, <3>3 DEF Looks
    <3>4. Looks(f)'
      BY <2>2, <2>5, ForwardKeepsLooks
    <3> QED
      BY <3>2, <3>3, <3>4 DEF SearchInv
  <2>6. ~ \E t \in Threads : Misbehave(t)
    BY DEF Misbehave
  <2> QED
    BY <2>3, <2>4, <2>5, <2>6 DEF Next, RoutesInv
<1> QED
  BY <1>1, <1>2, <1>3

LEMMA RoutesInvHolds ==
  ASSUME SingleListener, DistinctBefore
  PROVE  Spec => []RoutesInv
<1>1. Init => RoutesInv
  BY RoutesInvInit
<1>2. TableInv /\ RoutesInv /\ [Next]_vars => RoutesInv'
  BY RoutesInvStays
<1> QED
  BY <1>1, <1>2, TableInvHolds, PTL DEF Spec

-----------------------------------------------------------------------------
(* The theorems.                                                           *)

(* The entries of the array the router points to: none while the array is  *)
(* being moved.                                                            *)
LEMMA EntriesListed ==
  ASSUME TableTypeOK, OneArray, NEW k \in Entries
  PROVE  k \in 1 .. num /\ blocks[base] = Array
<1>1. base \in DOMAIN blocks /\ blocks \in Seq(Seq(Fields)) /\ num \in Nat
  BY DEF TableTypeOK
<1>2. k \in DOMAIN blocks[base] /\ k <= num
  BY DEF Entries
<1>3. blocks[base] \in Seq(Fields)
  BY <1>1
<1>4. k \in 1 .. num /\ blocks[base] # <<>>
  BY <1>1, <1>2, <1>3
<1>5. base = Current
  BY <1>1, <1>4 DEF OneArray
<1> QED
  BY <1>4, <1>5 DEF Array

(* One listener alone keeps the table free of double entries: whatever the *)
(* readers do, every network is listed once in every state, also while an  *)
(* entry is replaced and while the array is moved.                         *)
THEOREM OneListenerUnique ==
  ASSUME SingleListener, DistinctBefore
  PROVE  Spec => []UniqueEntries
<1>1. TableInv /\ RoutesInv => UniqueEntries
  <2> SUFFICES ASSUME TableInv, RoutesInv, ~corrupt, NEW i \in Entries, NEW k \in Entries,
                      blocks[base][i].net = blocks[base][k].net
               PROVE  i = k
    BY DEF UniqueEntries
  <2>1. TableTypeOK /\ OneArray /\ Distinct
    BY DEF TableInv, MergeInv, RoutesInv, SearchInv
  <2>2. i \in 1 .. num /\ k \in 1 .. num /\ blocks[base] = Array
    BY <2>1, EntriesListed
  <2> QED
    BY <2>1, <2>2 DEF Distinct
<1> QED
  BY <1>1, TableInvHolds, RoutesInvHolds, PTL

(* When the listener has merged all its routes the array is in place and   *)
(* its entries are those the invariant is about.                           *)
LEMMA MergedTable ==
  ASSUME SingleListener, TableInv, ~corrupt, \A l \in Listeners : pc[l] = "done"
  PROVE  /\ blocks[base] = Array /\ Entries = 1 .. num
         /\ Merged = Len(Offers[Listener])
         /\ \A k \in Entries : Array[k] \in Known
<1>1. TableTypeOK /\ MergeInv /\ pc[Listener] = "done"
  BY ListenerKinds DEF TableInv
<1>2. base = Current /\ blocks[base] = Array
  BY <1>1 DEF Current, Array
<1>3. Array \in Seq(Fields) /\ Len(Array) = num /\ num \in Nat
  BY <1>1, ArrayType DEF MergeInv, OneArray, Appends, Fills
<1>4. Entries = 1 .. num
  BY <1>2, <1>3 DEF Entries
<1>5. Merged = Len(Offers[Listener])
  <2>1. todo[Listener] = <<>>
    BY <1>1 DEF MergeInv, Suffix
  <2> QED
    BY <2>1, OffersKnown DEF Merged
<1>6. \A k \in 1 .. num : Array[k] \in Known
  BY <1>1 DEF MergeInv, EntriesWhole, Replaced
<1> QED
  BY <1>2, <1>4, <1>5, <1>6

(* What one listener merges is kept: in the end every network it was       *)
(* offered is listed, at the smallest distance offered.                    *)
THEOREM OneListenerKeepsShortest ==
  ASSUME SingleListener
  PROVE  Spec => []KeepsShortest
<1>1. TableInv => KeepsShortest
  <2> SUFFICES ASSUME TableInv, ~corrupt, \A l \in Listeners : pc[l] = "done",
                      NEW l \in Listeners, NEW i \in DOMAIN Offers[l]
               PROVE  \E k \in Entries : /\ blocks[base][k].net = Offers[l][i].net
                                         /\ blocks[base][k].distance # Garbage
                                         /\ blocks[base][k].distance <= Offers[l][i].distance
    BY DEF KeepsShortest
  <2>1. l = Listener
    BY ListenerKinds
  <2>2. /\ blocks[base] = Array /\ Entries = 1 .. num
        /\ Merged = Len(Offers[Listener])
        /\ \A k \in Entries : Array[k] \in Known
    BY MergedTable
  <2>3. i \in 1 .. Merged
    BY <2>1, <2>2, OffersKnown
  <2>4. PICK k \in 1 .. num : Covers(k, Offers[Listener][i])
    BY <2>3 DEF TableInv, MergeInv, Covered
  <2>5. Array[k].distance # Garbage
    BY <2>2, KnownRoutes
  <2> QED
    BY <2>1, <2>2, <2>4, <2>5 DEF Covers
<1> QED
  BY <1>1, TableInvHolds, PTL

(* What one listener merges is whole: in the end no entry has the distance *)
(* of one route and the gateway of another.                                *)
THEOREM OneListenerWholeRoutes ==
  ASSUME SingleListener
  PROVE  Spec => []WholeRoutes
<1>1. TableInv => WholeRoutes
  <2> SUFFICES ASSUME TableInv, ~corrupt, \A l \in Listeners : pc[l] = "done",
                      NEW k \in Entries
               PROVE  \/ \E i \in DOMAIN Before : blocks[base][k] = Before[i]
                      \/ \E l \in Listeners : \E i \in DOMAIN Offers[l] :
                           blocks[base][k] = Offers[l][i]
    BY DEF WholeRoutes
  <2>1. blocks[base] = Array /\ Array[k] \in Known
    BY MergedTable
  <2> QED
    BY <2>1 DEF Known
<1> QED
  BY <1>1, TableInvHolds, PTL

(* A frame is sent once, to a gateway that a route to its network has had, *)
(* although the table is merged into while it is searched.                 *)
THEOREM OneListenerSentOnce ==
  ASSUME SingleListener, DistinctBefore
  PROVE  Spec => []SentOnce
<1>1. TableInv /\ RoutesInv => SentOnce
  <2> SUFFICES ASSUME TableInv, RoutesInv, ~corrupt, NEW f \in Forwarders
               PROVE  /\ Len(sent[f]) <= 1
                      /\ \A i \in DOMAIN sent[f] : sent[f][i] \in Gateways(wanted[f])
                      /\ pc[f] = "done" /\ (\E i \in DOMAIN Before : Before[i].net = wanted[f]) =>
                           Len(sent[f]) = 1
    BY DEF SentOnce
  <2> DEFINE Held == {r.passerelle : r \in Known} \cup {Garbage, Freed}
  <2>1. TableTypeOK /\ MergeInv /\ Looks(f)
    BY DEF TableInv, RoutesInv, SearchInv
  <2>2. f \in Threads /\ sent[f] \in Seq(Held) /\ index[f] \in Nat \ {0}
    BY <2>1 DEF TableTypeOK, Threads
  <2> HIDE DEF Held
  <2>3. Len(sent[f]) <= 1
    BY <2>1 DEF Looks
  <2>4. ASSUME NEW i \in DOMAIN sent[f]
        PROVE  sent[f][i] \in Gateways(wanted[f])
    <3>1. i = 1 /\ sent[f] # <<>>
      BY <2>2, <2>3, <2>4
    <3> QED
      BY <2>1, <3>1 DEF Looks
  <2>5. ASSUME pc[f] = "done", NEW i \in DOMAIN Before, Before[i].net = wanted[f]
        PROVE  Len(sent[f]) = 1
    <3>1. i \in 1 .. Len(Before) /\ Len(Before) \in Nat
      BY OffersKnown
    <3>2. Array[i].net = wanted[f]
      BY <2>1, <2>5, <3>1 DEF MergeInv, EntriesStay
    <3>3. i \in 1 .. index[f] - 1
      BY <2>1, <2>2, <2>5, <3>1 DEF Looks
    <3>4. sent[f] # <<>>
      BY <2>1, <3>2, <3>3 DEF Looks
    <3>5. Len(sent[f]) \in Nat \ {0}
      BY <2>2, <3>4, EmptySeq
    <3>6. \A n \in Nat \ {0} : n <= 1 => n = 1
      OBVIOUS
    <3> QED
      BY <2>3, <3>5, <3>6, Zenon
  <2> QED
    BY <2>3, <2>4, <2>5
<1> QED
  BY <1>1, TableInvHolds, RoutesInvHolds, PTL

(* One listener never touches memory that is freed or was never written:   *)
(* in every state that is defined its next access is.                      *)
LEMMA ListenerDefined ==
  ASSUME SingleListener, TableInv, ~corrupt
  PROVE  Defined(Listener)
<1>1. TableTypeOK /\ MergeInv /\ pc[Listener] \in ListenerSteps
  BY DEF TableInv, TableTypeOK
<1>2. /\ Array \in Seq(Fields) /\ DOMAIN Array = 1 .. Len(Array)
      /\ num \in Nat /\ 1 .. num \subseteq DOMAIN Array
  BY <1>1, ArrayType DEF MergeInv
<1>3. pc[Listener] # "assign" => Current = base /\ Array = blocks[base]
  BY DEF Current, Array
<1>4. CASE pc[Listener] = "search"
  <2>1. ASSUME index[Listener] <= num
        PROVE  Valid(Place(Listener)) /\ Written(At(Place(Listener)))
    <3>1. index[Listener] \in 1 .. num
      BY <1>1, <2>1, ListenerKinds DEF TableTypeOK
    <3>2. Place(Listener) = <<base, index[Listener]>>
      BY <1>4 DEF Place
    <3>3. Array[index[Listener]] \in Known
      BY <1>1, <1>4, <3>1 DEF MergeInv, EntriesWhole, Replaced
    <3> QED
      BY <1>2, <1>3, <1>4, <3>1, <3>2, <3>3, KnownRoutes DEF Valid, Written, At
  <2> QED
    BY <1>4, <2>1 DEF Defined
<1>5. CASE pc[Listener] \in {"shorten", "free", "renew"}
  <2>1. /\ Place(Listener) = <<base, Found>> /\ At(Place(Listener)) = Array[Found]
        /\ Found \in DOMAIN Array
    BY <1>1, <1>5, ListenerPlace DEF Replaces
  <2>2. Valid(Place(Listener))
    BY <1>3, <1>5, <2>1 DEF Valid
  <2>3. ASSUME pc[Listener] = "free"
        PROVE  Written(Array[Found]) /\ Array[Found].passerelle # Freed
    <3>1. Merging \in Known
      BY <1>1, <2>3, MergingKnown DEF MergeInv
    <3>2. /\ Array[Found].net = Merging.net /\ Array[Found].distance = Merging.distance
          /\ Array[Found].passerelle \in Gateways(Merging.net)
      BY <1>1, <2>3 DEF MergeInv, Progress, Replaces, EntriesWhole, Replaced
    <3>3. \A g \in Gateways(Merging.net) : g # Garbage /\ g # Freed
      BY KnownRoutes DEF Gateways
    <3> QED
      BY <3>1, <3>2, <3>3, KnownRoutes DEF Written
  <2> QED
    BY <1>5, <2>1, <2>2, <2>3 DEF Defined
<1>6. CASE pc[Listener] \in {"net", "passerelle", "distance"}
  <2>1. Place(Listener) = <<base, num + 1>> /\ num + 1 \in DOMAIN Array
    BY <1>1, <1>6, ListenerPlace DEF Fills
  <2> QED
    BY <1>3, <1>6, <2>1 DEF Defined, Valid
<1>7. CASE pc[Listener] = "grow"
  <2>1. num # 0
    BY <1>1, <1>2, OffersKnown DEF MergeInv, EntriesStay
  <2>2. blocks[base] # <<>>
    BY <1>2, <1>3, <1>7, <2>1
  <2> QED
    BY <1>7, <2>2 DEF Defined
<1>8. CASE pc[Listener] \in {"assign", "load", "store", "done"}
  BY <1>8 DEF Defined
<1> QED
  BY <1>1, <1>4, <1>5, <1>6, <1>7, <1>8
  DEF ListenerSteps, Searches, Replaces, Appends, Fills

(* One listener's accesses are in order whatever the broadcasters and      *)
(* forwarders do: only a reader can come upon memory that is freed or was  *)
(* never written.                                                          *)
THEOREM OneListenerDefined ==
  ASSUME SingleListener
  PROVE  Spec => []ListenersDefined
<1>1. TableInv => ListenersDefined
  BY ListenerDefined, ListenerKinds DEF ListenersDefined
<1> QED
  BY <1>1, TableInvHolds, PTL

=============================================================================
