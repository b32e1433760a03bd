----------------------------- MODULE SharedTable -----------------------------
(***************************************************************************)
(* The routing table of one router, read and written by the threads of all *)
(* its devices without a lock.                                             *)
(*                                                                         *)
(* A listener merges advertised routes with updateRoutingTable, a          *)
(* broadcaster copies the table with copy_routing_table, a forwarder - a   *)
(* deviceThread with a frame in hand - searches it for a gateway.  Their   *)
(* steps are the accesses to the shared structure.  The array of routes is *)
(* a heap block that realloc may extend in place or move; a moved block is *)
(* left empty, so that a pointer into it points outside of it.  The        *)
(* strings of a route are represented by passerelle alone: interface is    *)
(* freed and duplicated together with it, and mask is part of net.         *)
(*                                                                         *)
(* Where the code's behaviour is undefined the model stops: a thread that  *)
(* reads, writes, frees or reallocates memory that is not allocated, or    *)
(* reads memory that was never written, sets the flag corrupt.             *)
(***************************************************************************)
EXTENDS Integers, Sequences, FiniteSets

CONSTANTS
  Listeners,     (* threads in the UDP half of deviceThread                *)
  Broadcasters,  (* threads in send_on_broadcast                           *)
  Forwarders,    (* threads in the TCP half of deviceThread                *)
  Before,        (* the table before the merges modelled here              *)
  Offers,        (* listener -> the routes of the datagrams it merges, the *)
                 (* distance already incremented (line 129 is local)       *)
  Networks,      (* the networks destinations of frames are found in, each *)
                 (* in one of them                                         *)
  Freed,         (* the passerelle of a route after free                   *)
  Garbage        (* a field of a route that was never assigned             *)

Threads == Listeners \cup Broadcasters \cup Forwarders

ASSUME ThreadAssumption ==
  /\ Listeners \cap Broadcasters = {}
  /\ Forwarders \cap (Listeners \cup Broadcasters) = {}
  /\ Before # <<>>

(* The routes the table begins with or a listener merges are whole: the    *)
(* text they are parsed from named every field (RouteExchange models the   *)
(* texts that are cut).  A listener that merges has at least one.          *)
Known == {Before[i] : i \in DOMAIN Before}
           \cup UNION {{Offers[l][i] : i \in DOMAIN Offers[l]} : l \in Listeners}

IsRoute(r) ==
  /\ r \in [net : {r.net}, passerelle : {r.passerelle}, distance : Nat]
  /\ r.net # Garbage
  /\ r.passerelle \notin {Freed, Garbage}
  /\ r.distance # Garbage

ASSUME RouteAssumption ==
  /\ Before \in Seq(Known)
  /\ Offers \in [Listeners -> Seq(Known) \ {<<>>}]
  /\ \A r \in Known : IsRoute(r)

VARIABLES
  blocks,   (* every array of routes ever allocated; <<>> once it moved    *)
  base,     (* router->routing_table->table, a block                       *)
  num,      (* router->routing_table->num_route                            *)
  pc,       (* thread -> the access it makes next                          *)
  todo,     (* listener -> the routes still to merge                       *)
  index,    (* thread -> its loop variable                                 *)
  entry,    (* thread -> existing_route or src, a place in a block         *)
  count,    (* thread -> the num_route it has read                         *)
  fresh,    (* listener -> the block realloc returned                      *)
  wanted,   (* forwarder -> the network of its frame                       *)
  gateway,  (* forwarder -> the string its pointer gateway points to       *)
  sent,     (* forwarder -> the gateways it has sent its frame to          *)
  corrupt   (* some thread accessed memory it must not                     *)

shared == <<blocks, base, num>>
forwarding == <<wanted, gateway, sent>>
locals == <<pc, todo, index, entry, count, fresh, forwarding>>
vars   == <<shared, locals, corrupt>>

Init ==
  /\ blocks = <<Before>> /\ base = 1 /\ num = Len(Before)
  /\ pc = [t \in Threads |-> CASE t \in Listeners -> "search"
                               [] t \in Broadcasters -> "begin"
                               [] t \in Forwarders -> "look"]
  /\ todo = Offers
  /\ index = [t \in Threads |-> 1]
  /\ entry = [t \in Threads |-> <<1, 1>>]
  /\ count = [t \in Threads |-> 0]
  /\ fresh = [l \in Listeners |-> 1]
  /\ wanted \in [Forwarders -> Networks]
  /\ gateway = [f \in Forwarders |-> Garbage]
  /\ sent = [f \in Forwarders |-> <<>>]
  /\ corrupt = FALSE

-----------------------------------------------------------------------------
(* Accesses to a route in a block.                                         *)

Valid(place) == place[2] \in DOMAIN blocks[place[1]]
At(place) == blocks[place[1]][place[2]]
Put(place, route) == blocks' = [blocks EXCEPT ![place[1]][place[2]] = route]

New(l) == Head(todo[l])
Unset == [net |-> Garbage, passerelle |-> Garbage, distance |-> Garbage]

(* The place the next access of a thread goes to: listeners index the      *)
(* current array anew in every statement but those on existing_route.      *)
Place(t) ==
  CASE pc[t] = "search" -> <<base, index[t]>>
    [] pc[t] \in {"net", "passerelle", "distance"} -> <<base, num + 1>>
    [] pc[t] \in {"shorten", "free", "renew", "read", "match"} -> entry[t]

Written(route) ==
  route.net # Garbage /\ route.passerelle # Garbage /\ route.distance # Garbage

(* The next access of a thread is to memory it may use.                    *)
Defined(t) ==
  CASE pc[t] = "search" -> index[t] <= num => Valid(Place(t)) /\ Written(At(Place(t)))
    [] pc[t] \in {"net", "passerelle", "distance", "shorten", "renew"} -> Valid(Place(t))
    [] pc[t] \in {"free", "read"} ->
         Valid(Place(t)) /\ Written(At(Place(t))) /\ At(Place(t)).passerelle # Freed
    [] pc[t] = "match" -> Valid(Place(t)) /\ Written(At(Place(t)))
    [] pc[t] = "use"  -> gateway[t] # Freed
    [] pc[t] = "grow" -> blocks[base] # <<>>
    [] OTHER -> TRUE

Misbehave(t) ==
  /\ ~corrupt /\ ~Defined(t)
  /\ corrupt' = TRUE
  /\ UNCHANGED <<shared, locals>>

Step(t, from) == ~corrupt /\ pc[t] = from /\ Defined(t) /\ corrupt' = corrupt
Goto(t, to) == pc' = [pc EXCEPT ![t] = to]

-----------------------------------------------------------------------------
(* updateRoutingTable.                                                     *)

(* The outer loop goes on with the next route, if any.                     *)
NextRoute(l) ==
  /\ todo' = [todo EXCEPT ![l] = Tail(@)]
  /\ index' = [index EXCEPT ![l] = 1]
  /\ Goto(l, IF Len(todo[l]) = 1 THEN "done" ELSE "search")

(* One turn of the inner loop: another network.                            *)
Differs(l) ==
  /\ Step(l, "search")
  /\ index[l] <= num /\ At(Place(l)).net # New(l).net
  /\ index' = [index EXCEPT ![l] = @ + 1]
  /\ UNCHANGED <<shared, pc, todo, entry, count, fresh, forwarding>>

(* The network is listed and the new route is not shorter: break.          *)
Keep(l) ==
  /\ Step(l, "search")
  /\ index[l] <= num /\ At(Place(l)).net = New(l).net
  /\ ~(New(l).distance < At(Place(l)).distance)
  /\ NextRoute(l)
  /\ UNCHANGED <<shared, entry, count, fresh, forwarding>>

(* The network is listed and the new route is shorter.                     *)
Replace(l) ==
  /\ Step(l, "search")
  /\ index[l] <= num /\ At(Place(l)).net = New(l).net
  /\ New(l).distance < At(Place(l)).distance
  /\ entry' = [entry EXCEPT ![l] = Place(l)]
  /\ Goto(l, "shorten")
  /\ UNCHANGED <<shared, todo, index, count, fresh, forwarding>>

Shorten(l) ==
  /\ Step(l, "shorten")
  /\ Put(Place(l), [At(Place(l)) EXCEPT !.distance = New(l).distance])
  /\ Goto(l, "free")
  /\ UNCHANGED <<base, num, todo, index, entry, count, fresh, forwarding>>

(* free(existing_route->passerelle): forwarders that have found the entry  *)
(* are left with a pointer to the string that is freed.                    *)
FreeGateway(l) ==
  /\ Step(l, "free")
  /\ Put(Place(l), [At(Place(l)) EXCEPT !.passerelle = Freed])
  /\ gateway' = [f \in Forwarders |->
       IF /\ pc[f] = "use" /\ entry[f][2] = entry[l][2]
          /\ gateway[f] = At(Place(l)).passerelle
       THEN Freed ELSE gateway[f]]
  /\ Goto(l, "renew")
  /\ UNCHANGED <<base, num, todo, index, entry, count, fresh, wanted, sent>>

(* Mutation: the new gateway is not stored.                                *)
ForgetGateway(l) ==
  /\ Step(l, "renew")
  /\ NextRoute(l)
  /\ UNCHANGED <<shared, entry, count, fresh, forwarding>>

RenewGateway(l) ==
  /\ Step(l, "renew")
  /\ Put(Place(l), [At(Place(l)) EXCEPT !.passerelle = New(l).passerelle])
  /\ NextRoute(l)
  /\ UNCHANGED <<base, num, entry, count, fresh, forwarding>>

(* Mutation: the last entry is not looked at.                              *)
StopEarly(l) ==
  /\ Step(l, "search")
  /\ index[l] >= num
  /\ Goto(l, "grow")
  /\ UNCHANGED <<shared, todo, index, entry, count, fresh, forwarding>>

(* The end of the array is reached: not found.                             *)
NotFound(l) ==
  /\ Step(l, "search")
  /\ index[l] > num
  /\ Goto(l, "grow")
  /\ UNCHANGED <<shared, todo, index, entry, count, fresh, forwarding>>

(* Mutation: the new entry is not counted in.                              *)
ResizedToOld(routes, n) == SubSeq(routes, 1, n - 1)

(* realloc to num_route + 1 routes, in place or not.                       *)
Resized(routes, n) == [i \in 1 .. n |-> IF i \in DOMAIN routes THEN routes[i] ELSE Unset]

Grow(l, moves) ==
  /\ Step(l, "grow")
  /\ IF moves
     THEN /\ blocks' = Append([blocks EXCEPT ![base] = <<>>], Resized(blocks[base], num + 1))
          /\ fresh' = [fresh EXCEPT ![l] = Len(blocks) + 1]
     ELSE /\ blocks' = [blocks EXCEPT ![base] = Resized(@, num + 1)]
          /\ fresh' = [fresh EXCEPT ![l] = base]
  /\ Goto(l, "assign")
  /\ UNCHANGED <<base, num, todo, index, entry, count, forwarding>>

Assign(l) ==
  /\ Step(l, "assign")
  /\ base' = fresh[l]
  /\ Goto(l, "net")
  /\ UNCHANGED <<blocks, num, todo, index, entry, count, fresh, forwarding>>

(* The fields of the new entry, one after the other.                       *)
Fill(l, field, route, then) ==
  /\ Step(l, field)
  /\ Put(Place(l), route)
  /\ Goto(l, then)
  /\ UNCHANGED <<base, num, todo, index, entry, count, fresh, forwarding>>

FillEntry(l) ==
  LET old == At(Place(l)) IN
  \/ Fill(l, "net", [old EXCEPT !.net = New(l).net], "passerelle")
  \/ Fill(l, "passerelle", [old EXCEPT !.passerelle = New(l).passerelle], "distance")
  \/ Fill(l, "distance", [old EXCEPT !.distance = New(l).distance], "load")

(* num_route++ is a read and a write.                                      *)
LoadCount(l) ==
  /\ Step(l, "load")
  /\ count' = [count EXCEPT ![l] = num]
  /\ Goto(l, "store")
  /\ UNCHANGED <<shared, todo, index, entry, fresh, forwarding>>

(* Mutation: the count is not increased.                                   *)
StoreOldCount(l) ==
  /\ Step(l, "store")
  /\ num' = count[l]
  /\ NextRoute(l)
  /\ UNCHANGED <<blocks, base, entry, count, fresh, forwarding>>

StoreCount(l) ==
  /\ Step(l, "store")
  /\ num' = count[l] + 1
  /\ NextRoute(l)
  /\ UNCHANGED <<blocks, base, entry, count, fresh, forwarding>>

-----------------------------------------------------------------------------
(* copy_routing_table, again and again.                                    *)

BeginCopy(b) ==
  /\ Step(b, "begin")
  /\ count' = [count EXCEPT ![b] = num]
  /\ index' = [index EXCEPT ![b] = 1]
  /\ Goto(b, "copy")
  /\ UNCHANGED <<shared, todo, entry, fresh, forwarding>>

(* &src->table[i], the argument of copy_route.                             *)
PointTo(b) ==
  /\ Step(b, "copy")
  /\ index[b] <= count[b]
  /\ entry' = [entry EXCEPT ![b] = <<base, index[b]>>]
  /\ Goto(b, "read")
  /\ UNCHANGED <<shared, todo, index, count, fresh, forwarding>>

(* copy_route duplicates the strings.                                      *)
CopyRoute(b) ==
  /\ Step(b, "read")
  /\ index' = [index EXCEPT ![b] = @ + 1]
  /\ Goto(b, "copy")
  /\ UNCHANGED <<shared, todo, entry, count, fresh, forwarding>>

EndCopy(b) ==
  /\ Step(b, "copy")
  /\ index[b] > count[b]
  /\ Goto(b, "begin")
  /\ UNCHANGED <<shared, todo, index, entry, count, fresh, forwarding>>

-----------------------------------------------------------------------------
(* The loop of deviceThread over the routes, with the comparison against   *)
(* num_route and the array read anew in every turn.                        *)

(* route = &router->routing_table->table[i]                                *)
LookAt(f) ==
  /\ Step(f, "look")
  /\ index[f] <= num
  /\ entry' = [entry EXCEPT ![f] = <<base, index[f]>>]
  /\ Goto(f, "match")
  /\ UNCHANGED <<shared, todo, index, count, fresh, forwarding>>

PassOver(f) ==
  /\ Step(f, "match")
  /\ At(Place(f)).net # wanted[f]
  /\ index' = [index EXCEPT ![f] = @ + 1]
  /\ Goto(f, "look")
  /\ UNCHANGED <<shared, todo, entry, count, fresh, forwarding>>

(* gateway = route->passerelle: the pointer, not the string.               *)
TakeGateway(f) ==
  /\ Step(f, "match")
  /\ At(Place(f)).net = wanted[f]
  /\ gateway' = [gateway EXCEPT ![f] = At(Place(f)).passerelle]
  /\ Goto(f, "use")
  /\ UNCHANGED <<shared, todo, index, entry, count, fresh, wanted, sent>>

(* The string is read when the connection is made, and the loop goes on.   *)
UseGateway(f) ==
  /\ Step(f, "use")
  /\ sent' = [sent EXCEPT ![f] = Append(@, gateway[f])]
  /\ index' = [index EXCEPT ![f] = @ + 1]
  /\ Goto(f, "look")
  /\ UNCHANGED <<shared, todo, entry, count, fresh, wanted, gateway>>

EndSearch(f) ==
  /\ Step(f, "look")
  /\ index[f] > num
  /\ Goto(f, "done")
  /\ UNCHANGED <<shared, todo, index, entry, count, fresh, forwarding>>

-----------------------------------------------------------------------------

Listen(l) ==
  \/ Differs(l) \/ Keep(l) \/ Replace(l)
  \/ Shorten(l) \/ FreeGateway(l) \/ RenewGateway(l)
  \/ NotFound(l) \/ (\E moves \in BOOLEAN : Grow(l, moves)) \/ Assign(l)
  \/ FillEntry(l) \/ LoadCount(l) \/ StoreCount(l)

Copy(b) == BeginCopy(b) \/ PointTo(b) \/ CopyRoute(b) \/ EndCopy(b)

Forward(f) == LookAt(f) \/ PassOver(f) \/ TakeGateway(f) \/ UseGateway(f) \/ EndSearch(f)

Next ==
  \/ \E l \in Listeners : Listen(l)
  \/ \E b \in Broadcasters : Copy(b)
  \/ \E f \in Forwarders : Forward(f)
  \/ \E t \in Threads : Misbehave(t)

Spec == Init /\ [][Next]_vars

-----------------------------------------------------------------------------
(* Properties.                                                             *)

Entries == {i \in DOMAIN blocks[base] : i <= num}

(* A network is listed once: adverts for the same network, merged by the   *)
(* threads of different devices, end up in one entry, as they do when one  *)
(* thread merges them.                                                     *)
UniqueEntries ==
  ~corrupt =>
    \A i, k \in Entries :
      /\ blocks[base][i].net = blocks[base][k].net
      /\ blocks[base][i].net # Garbage
      => i = k

(* When all is merged, the table lists every network that was offered, at  *)
(* the smallest distance offered.                                          *)
KeepsShortest ==
  (~corrupt /\ \A l \in Listeners : pc[l] = "done") =>
    \A l \in Listeners : \A i \in DOMAIN Offers[l] :
      \E k \in Entries : /\ blocks[base][k].net = Offers[l][i].net
                         /\ blocks[base][k].distance # Garbage
                         /\ blocks[base][k].distance <= Offers[l][i].distance

(* When all is merged, a listed route is one that was there or             *)
(* offered as a whole: its distance belongs to its gateway.                *)
WholeRoutes ==
  (~corrupt /\ \A l \in Listeners : pc[l] = "done") =>
    \A k \in Entries :
      \/ \E i \in DOMAIN Before : blocks[base][k] = Before[i]
      \/ \E l \in Listeners : \E i \in DOMAIN Offers[l] : blocks[base][k] = Offers[l][i]

(* A frame whose network is listed when its search begins is sent once,    *)
(* any other at most once, and to a gateway that some route to its network *)
(* has had: the entries that are appended, moved and shortened meanwhile   *)
(* neither hide a route from the search nor show it twice.                 *)
Gateways(net) == {r.passerelle : r \in {s \in Known : s.net = net}}

SentOnce ==
  ~corrupt =>
    \A f \in Forwarders :
      /\ Len(sent[f]) <= 1
      /\ \A i \in DOMAIN sent[f] : sent[f][i] \in Gateways(wanted[f])
      /\ pc[f] = "done" /\ (\E i \in DOMAIN Before : Before[i].net = wanted[f]) =>
           Len(sent[f]) = 1

(* What a listener does with the table by itself is in order: the entries  *)
(* it searches are written, the array has room for the one it appends, the *)
(* strings it frees were not freed before (updateRoutingTable).            *)
ListenersDefined == ~corrupt => \A l \in Listeners : Defined(l)

(* The table as it is between two merges: a route counts as replaced as    *)
(* soon as the search has found it, as appended once num_route counts it.  *)
Replacing(l) == pc[l] \in {"shorten", "free", "renew"}
Replacers(i) == {l \in Listeners : Replacing(l) /\ entry[l][2] = i}
Assigning == {l \in Listeners : pc[l] = "assign"}

Listed ==
  LET block == IF Assigning = {} THEN base ELSE fresh[CHOOSE l \in Assigning : TRUE]
  IN [i \in 1 .. num |-> IF Replacers(i) = {} THEN blocks[block][i]
                         ELSE New(CHOOSE l \in Replacers(i) : TRUE)]

Unmerged == [l \in Listeners |-> IF Replacing(l) THEN Tail(todo[l]) ELSE todo[l]]

InOrder == INSTANCE MergeInOrder WITH table <- Listed, todo <- Unmerged

(* One listener merges its routes as if every one were a single step.      *)
MergesInOrder == InOrder!Spec


=============================================================================
