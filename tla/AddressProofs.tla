---------------------------- MODULE AddressProofs ----------------------------
(***************************************************************************)
(* Theorems about Addresses and BroadcastAddress: the shifts and masks     *)
(* compute the addresses they are meant to, for every width of octets, and *)
(* strtok serves callers that do not overlap.                              *)
(***************************************************************************)
EXTENDS BroadcastAddress, TLAPS

(* A bit of an octet keeps its place when the octets are joined: shifted   *)
(* octets do not run into each other.                                      *)
LEMMA JoinedBit ==
  ASSUME NEW octets \in Dotted, NEW i \in 1..4, NEW b \in 0..(OctetBits - 1)
  PROVE  (b + (4 - i) * OctetBits \in Joined(octets)) <=> (b \in octets[i])
<1> USE WidthAssumption
<1>1. DOMAIN octets = 1..4
  BY DEF Dotted
<1>2. ASSUME NEW j \in 1..4, NEW a \in octets[j], a + (4 - j) * OctetBits = b + (4 - i) * OctetBits
      PROVE  j = i /\ a = b
  <2>1. a \in 0..(OctetBits - 1)
    BY DEF Dotted, Octets
  <2>2. CASE j = 1
    BY <1>2, <2>1, <2>2
  <2>3. CASE j = 2
    BY <1>2, <2>1, <2>3
  <2>4. CASE j = 3
    BY <1>2, <2>1, <2>4
  <2>5. CASE j = 4
    BY <1>2, <2>1, <2>5
  <2> QED BY <2>2, <2>3, <2>4, <2>5
<1>3. (4 - i) * OctetBits \in 0..(3 * OctetBits)
  <2>1. i \in {1, 2, 3, 4}
    OBVIOUS
  <2> QED BY <2>1
<1>4. b + (4 - i) * OctetBits \in 0..(LongBits - 1)
  BY <1>3
<1>5. ASSUME b \in octets[i]
      PROVE  b + (4 - i) * OctetBits \in Joined(octets)
  <2>1. b + (4 - i) * OctetBits \in Shift(octets[i], (4 - i) * OctetBits, LongBits)
    BY <1>4, <1>5 DEF Shift
  <2> QED BY <1>1, <2>1 DEF Joined
<1>6. ASSUME b + (4 - i) * OctetBits \in Joined(octets)
      PROVE  b \in octets[i]
  <2>1. PICK j \in 1..4 : b + (4 - i) * OctetBits \in Shift(octets[j], (4 - j) * OctetBits, LongBits)
    BY <1>1, <1>6 DEF Joined
  <2>2. PICK a \in octets[j] : a + (4 - j) * OctetBits = b + (4 - i) * OctetBits
    BY <2>1 DEF Shift
  <2> QED BY <1>2, <2>2
<1> QED BY <1>5, <1>6

(* A position of the mask is one of the first cidr bits of the address, be *)
(* the shift made in an unsigned long or in an unsigned int.               *)
LEMMA MaskBit ==
  ASSUME NEW cidr \in Masks, NEW i \in 1..4, NEW b \in 0..(OctetBits - 1)
  PROVE  /\ (b + (4 - i) * OctetBits \in SubnetMask(cidr)) <=> ~HostBit(i, b, cidr)
         /\ (b + (4 - i) * OctetBits \in NetMask(cidr)) <=> ~HostBit(i, b, cidr)
<1> USE WidthAssumption
<1> DEFINE p == b + (4 - i) * OctetBits
<1>1. i \in {1, 2, 3, 4} /\ cidr \in Int /\ cidr >= 0 /\ cidr <= 4 * OctetBits
  BY DEF Masks, Width
<1>2. p \in 0..(4 * OctetBits - 1)
  BY <1>1
<1>3. HostBit(i, b, cidr) <=> p < 4 * OctetBits - cidr
  BY <1>1 DEF HostBit
<1>4. p \in SubnetMask(cidr) <=> p >= 4 * OctetBits - cidr
  <2>1. ASSUME p \in SubnetMask(cidr)
        PROVE  p >= 4 * OctetBits - cidr
    BY <1>1, <2>1 DEF SubnetMask, Shift, Width
  <2>2. ASSUME p >= 4 * OctetBits - cidr
        PROVE  p \in SubnetMask(cidr)
    <3>1. /\ p - (4 * OctetBits - cidr) \in 0..(4 * OctetBits - 1)
          /\ p = (p - (4 * OctetBits - cidr)) + (4 * OctetBits - cidr)
          /\ p \in 0..(LongBits - 1)
      BY <1>1, <1>2, <2>2
    <3> HIDE DEF p
    <3> QED BY <3>1 DEF SubnetMask, Shift, Width
  <2> QED BY <2>1, <2>2, <1>1, <1>2
<1>5. p \in NetMask(cidr) <=> p >= 4 * OctetBits - cidr
  <2>1. ASSUME p \in NetMask(cidr)
        PROVE  p >= 4 * OctetBits - cidr
    BY <1>1, <2>1 DEF NetMask, Shift, Width
  <2>2. ASSUME p >= 4 * OctetBits - cidr
        PROVE  p \in NetMask(cidr)
    <3>1. /\ p - (4 * OctetBits - cidr) \in 0..(4 * OctetBits - 1)
          /\ p = (p - (4 * OctetBits - cidr)) + (4 * OctetBits - cidr)
          /\ p \in 0..(4 * OctetBits - 1)
          /\ cidr # 0
      BY <1>1, <1>2, <2>2
    <3> HIDE DEF p
    <3> QED BY <3>1 DEF NetMask, Shift, Width
  <2> QED BY <2>1, <2>2, <1>1, <1>2
<1> QED BY <1>1, <1>2, <1>3, <1>4, <1>5

(* calculate_broadcast_address returns the address with all host bits one, *)
(* although its mask is computed in a longer type than an address.         *)
THEOREM BroadcastIsRight ==
  ASSUME NEW octets \in Dotted, NEW cidr \in Masks
  PROVE  BroadcastOf(octets, cidr) = DirectedBroadcast(octets, cidr)
<1> USE WidthAssumption
<1> DEFINE bits == BroadcastBits(Joined(octets), SubnetMask(cidr))
<1>1. ASSUME NEW i \in 1..4, NEW b \in 0..(OctetBits - 1)
      PROVE  (b + (4 - i) * OctetBits \in bits) <=> (b \in octets[i] \/ HostBit(i, b, cidr))
  <2>1. i \in {1, 2, 3, 4}
    OBVIOUS
  <2>2. b + (4 - i) * OctetBits \in 0..(LongBits - 1)
    BY <2>1
  <2>3. (b + (4 - i) * OctetBits \in Joined(octets)) <=> (b \in octets[i])
    BY JoinedBit
  <2>4. (b + (4 - i) * OctetBits \in SubnetMask(cidr)) <=> ~HostBit(i, b, cidr)
    BY MaskBit
  <2> QED BY <2>2, <2>3, <2>4 DEF BroadcastBits
<1> HIDE DEF bits
<1>2. Printed(bits) = DirectedBroadcast(octets, cidr)
  BY <1>1 DEF Printed, DirectedBroadcast
<1> QED BY <1>2 DEF BroadcastOf, bits

(* calculate_network_address returns the address with all host bits zero.  *)
THEOREM NetworkIsRight ==
  ASSUME NEW octets \in Dotted, NEW cidr \in Masks
  PROVE  NetworkOf(octets, cidr) = NetworkPrefix(octets, cidr)
<1>1. ASSUME NEW i \in 1..4, NEW b \in 0..(OctetBits - 1)
      PROVE  (b + (4 - i) * OctetBits \in Joined(octets) \cap NetMask(cidr))
                <=> (b \in octets[i] /\ ~HostBit(i, b, cidr))
  BY JoinedBit, MaskBit
<1>2. \A i \in 1..4 : octets[i] \subseteq 0..(OctetBits - 1)
  BY DEF Dotted, Octets
<1>3. ASSUME NEW i \in 1..4
      PROVE  {b \in 0..(OctetBits - 1) :
                b + (4 - i) * OctetBits \in Joined(octets) \cap NetMask(cidr)}
               = {b \in octets[i] : ~HostBit(i, b, cidr)}
  BY <1>1, <1>2
<1> QED BY <1>3 DEF NetworkOf, Printed, NetworkPrefix

(* Two devices with the same mask bind their UDP sockets to the same       *)
(* broadcast address exactly if they are on the same network: what a       *)
(* broadcaster sends reaches the listeners of its network and no others.   *)
THEOREM SameBroadcastSameNetwork ==
  ASSUME NEW x \in Dotted, NEW y \in Dotted, NEW cidr \in Masks
  PROVE  (BroadcastOf(x, cidr) = BroadcastOf(y, cidr)) <=> SameNetwork(x, y, cidr)
<1>1. \A i \in 1..4 : x[i] \subseteq 0..(OctetBits - 1) /\ y[i] \subseteq 0..(OctetBits - 1)
  BY DEF Dotted, Octets
<1> DEFINE Agree(i) == \A b \in 0..(OctetBits - 1) : HostBit(i, b, cidr) \/ (b \in x[i] <=> b \in y[i])
<1>2. (DirectedBroadcast(x, cidr) = DirectedBroadcast(y, cidr)) <=> \A i \in 1..4 : Agree(i)
  <2> DEFINE B(z, i) == {b \in 0..(OctetBits - 1) : b \in z[i] \/ HostBit(i, b, cidr)}
  <2>1. \A i \in 1..4 : (B(x, i) = B(y, i)) <=> Agree(i)
    OBVIOUS
  <2>2. (DirectedBroadcast(x, cidr) = DirectedBroadcast(y, cidr)) <=> \A i \in 1..4 : B(x, i) = B(y, i)
    <3>1. /\ DirectedBroadcast(x, cidr) = [i \in 1..4 |-> B(x, i)]
          /\ DirectedBroadcast(y, cidr) = [i \in 1..4 |-> B(y, i)]
      BY DEF DirectedBroadcast
    <3> HIDE DEF B
    <3> QED BY <3>1, Zenon
  <2> QED BY <2>1, <2>2
<1>3. (NetworkPrefix(x, cidr) = NetworkPrefix(y, cidr)) <=> \A i \in 1..4 : Agree(i)
  <2> DEFINE N(z, i) == {b \in z[i] : ~HostBit(i, b, cidr)}
  <2>1. \A i \in 1..4 : (N(x, i) = N(y, i)) <=> Agree(i)
    BY <1>1
  <2>2. (NetworkPrefix(x, cidr) = NetworkPrefix(y, cidr)) <=> \A i \in 1..4 : N(x, i) = N(y, i)
    <3>1. /\ NetworkPrefix(x, cidr) = [i \in 1..4 |-> N(x, i)]
          /\ NetworkPrefix(y, cidr) = [i \in 1..4 |-> N(y, i)]
      BY DEF NetworkPrefix
    <3> HIDE DEF N
    <3> QED BY <3>1, Zenon
  <2> QED BY <2>1, <2>2
<1> QED BY <1>2, <1>3, BroadcastIsRight DEF SameNetwork
-----------------------------------------------------------------------------
(* strtok.  The type invariant says which pointers are valid when they are *)
(* used; the last octet of a copy always ends at a NUL, so that no place   *)
(* lies behind it.                                                         *)

CallState ==
  [at     : {"idle", "refused", "add", "load", "scan", "cut", "store", "returned"},
   octets : Dotted \cup {Null}, cidr : Int, cut : SUBSET (1..4),
   token  : Place \cup {Null}, seen : Place \cup {Null}, next : Place \cup {Null},
   read   : Seq(Octets)]

ValidCall(c) ==
  /\ Running(c) => call[c].octets \in Dotted /\ 4 \in call[c].cut /\ olds \in Place
  /\ call[c].at = "add" => call[c].token \in Place
  /\ call[c].at \in {"scan", "cut"} => call[c].seen \in Place
  /\ call[c].at = "cut" => call[c].seen.token # 4
  /\ call[c].at = "store" => call[c].next \in Place

CallTypeOK ==
  /\ olds \in Place \cup {Null}
  /\ call \in [Callers -> CallState]
  /\ overlapped \subseteq Callers
  /\ \A c \in Callers : ValidCall(c)

(* The position behind the first k octets of the copy of c.                *)
Behind(c, k) == IF k <= 3 THEN Start(c, k + 1) ELSE EndOf(Start(c, 4))

(* What a caller has and sees between the steps of strtok when nobody      *)
(* interferes.                                                             *)
InOrder(c, s, k, position) ==
  /\ s.cidr \in Masks
  /\ k <= 4 /\ \A i \in 1..k : s.read[i] = s.octets[i]
  /\ s.at = "add" => k <= 3 /\ s.token = Start(c, k + 1) /\ position = Behind(c, k + 1)
                     /\ s.cut = 1..(k + 1) \cup {4}
  /\ s.at = "load" => k >= 1 /\ position = Behind(c, k) /\ s.cut = 1..k \cup {4}
  /\ s.at = "scan" => k >= 1 /\ s.seen = Behind(c, k) /\ s.cut = 1..k \cup {4}
  /\ s.at = "cut" => k \in 1..2 /\ s.seen = Start(c, k + 1) /\ s.token = Start(c, k + 1)
                     /\ s.cut = 1..k \cup {4}
  /\ s.at = "store" => k >= 1
                     /\ (k = 4 => s.token = Null)
                     /\ (k <= 3 => /\ s.token = Start(c, k + 1) /\ s.next = Behind(c, k + 1)
                                   /\ s.cut = 1..(k + 1) \cup {4})

InSequence(c) == Others(c) = {} /\ InOrder(c, call[c], Len(call[c].read), olds)

AllRead(c) ==
  /\ call[c].octets \in Dotted /\ call[c].cidr \in Masks
  /\ Len(call[c].read) = 4 /\ \A i \in 1..4 : call[c].read[i] = call[c].octets[i]

SequenceInv ==
  \A c \in Callers : c \notin overlapped =>
    /\ Running(c) => InSequence(c)
    /\ call[c].at = "returned" => AllRead(c)

CallInv == CallTypeOK /\ SequenceInv

LEMMA StartIsPlace ==
  ASSUME NEW c \in Callers, NEW n \in 1..4
  PROVE  /\ Start(c, n) \in Place /\ Start(c, n) # Null
         /\ Start(c, n).copy = c /\ Start(c, n).token = n /\ ~Start(c, n).nul
<1>1. Start(c, n) \in Place
  BY Zenon DEF Start, Place
<1>2. /\ Start(c, n).copy = c /\ Start(c, n).token = n
  BY DEF Start
<1>3. ~Start(c, n).nul
  BY Zenon DEF Start
<1> QED BY <1>1, <1>2, <1>3, NullAssumption, Zenon

LEMMA EndIsPlace ==
  ASSUME NEW p \in Place
  PROVE  /\ EndOf(p) \in Place /\ EndOf(p) # Null
         /\ EndOf(p).copy = p.copy /\ EndOf(p).token = p.token /\ EndOf(p).nul
<1>1. EndOf(p) \in Place
  BY Zenon DEF EndOf, Place
<1>2. /\ EndOf(p).copy = p.copy /\ EndOf(p).token = p.token
  BY DEF EndOf, Place
<1>3. EndOf(p).nul
  BY Zenon DEF EndOf, Place
<1> QED BY <1>1, <1>2, <1>3, NullAssumption, Zenon

(* What every step of c leaves alone: the calls of the others, but for the *)
(* dots that are cut in their copies.                                      *)
Keeps(c, d) ==
  /\ call'[d].at = call[d].at
  /\ call'[d].octets = call[d].octets /\ call'[d].cidr = call[d].cidr
  /\ call[d].cut \subseteq call'[d].cut
  /\ call'[d].token = call[d].token /\ call'[d].seen = call[d].seen
  /\ call'[d].next = call[d].next /\ call'[d].read = call[d].read

Acts(c) ==
  \/ \E octets \in Dotted \cup {Null}, cidr \in Int :
       FirstToken(c, octets, cidr) \/ Refuse(c, octets, cidr)
  \/ Proceed(c)

LEMMA OthersKept ==
  ASSUME CallTypeOK, NEW c \in Callers, NEW d \in Callers \ {c}, Acts(c)
  PROVE  Keeps(c, d)
<1> USE DEF CallTypeOK
<1>1. ASSUME NEW octets, NEW cidr, FirstToken(c, octets, cidr) \/ Refuse(c, octets, cidr)
      PROVE  Keeps(c, d)
  BY <1>1 DEF FirstToken, Refuse, Goto, Keeps
<1>2. CASE AddOctet(c)
  BY <1>2 DEF AddOctet, Keeps
<1>3. CASE LoadPosition(c)
  BY <1>3 DEF LoadPosition, Keeps
<1>4. CASE ScanNothing(c)
  BY <1>4 DEF ScanNothing, Keeps
<1>5. CASE ScanLast(c)
  BY <1>5 DEF ScanLast, Keeps
<1>6. CASE ScanDot(c)
  BY <1>6 DEF ScanDot, Keeps
<1>7. CASE CutDot(c)
  <2>1. PICK p, next : call' = [call EXCEPT ![p].cut = @ \cup {call[c].seen.token},
                                            ![c].next = next, ![c].at = "store"]
    BY <1>7 DEF CutDot
  <2>2. call[d] \in CallState
    OBVIOUS
  <2>3. CASE p = d
    BY <2>1, <2>2, <2>3 DEF CallState, Keeps
  <2>4. CASE p # d
    BY <2>1, <2>4 DEF Keeps
  <2> QED BY <2>3, <2>4
<1>8. CASE StorePosition(c)
  BY <1>8 DEF StorePosition, Goto, Keeps
<1> QED BY <1>1, <1>2, <1>3, <1>4, <1>5, <1>6, <1>7, <1>8 DEF Acts, Proceed

LEMMA TypeStep ==
  ASSUME CallTypeOK, NEW c \in Callers, Acts(c)
  PROVE  CallTypeOK'
<1> DEFINE Typed == /\ call' \in [Callers -> CallState]
                    /\ overlapped' \subseteq Callers
                    /\ olds' \in Place \/ olds' = olds
                    /\ ValidCall(c)'
<1>0. /\ call \in [Callers -> CallState] /\ call[c] \in CallState /\ ValidCall(c)
      /\ overlapped \subseteq Callers
  BY DEF CallTypeOK
<1>1. Typed
  <2>1. ASSUME NEW octets \in Dotted \cup {Null}, NEW cidr \in Int, FirstToken(c, octets, cidr)
        PROVE  Typed
    <3>1. Start(c, 1) \in Place /\ Start(c, 2) \in Place
      BY StartIsPlace
    <3>2. /\ call'[c].at = "add" /\ call'[c].octets \in Dotted /\ call'[c].cut = {1, 4}
          /\ call'[c].token = Start(c, 1) /\ olds' = Start(c, 2)
      BY <1>0, <2>1 DEF FirstToken
    <3>3. call' \in [Callers -> CallState]
      <4> DEFINE s == [at |-> "add", octets |-> octets, cidr |-> cidr, cut |-> {1, 4},
                       token |-> Start(c, 1), seen |-> Null, next |-> Null, read |-> <<>>]
      <4>1. call' = [call EXCEPT ![c] = s]
        BY <2>1 DEF FirstToken
      <4>2. <<>> \in Seq(Octets)
        OBVIOUS
      <4>3. s \in CallState
        BY <3>1, <4>2 DEF CallState
      <4> HIDE DEF s
      <4> QED BY <1>0, <4>1, <4>3
    <3>4. overlapped' \subseteq Callers
      BY <1>0, <2>1 DEF FirstToken, Others
    <3>5. ValidCall(c)'
      BY <3>1, <3>2 DEF ValidCall, Running
    <3> QED BY <3>1, <3>2, <3>3, <3>4, <3>5
  <2>2. ASSUME NEW octets \in Dotted \cup {Null}, NEW cidr \in Int, Refuse(c, octets, cidr)
        PROVE  Typed
    BY <1>0, <2>2 DEF Refuse, Goto, CallState, ValidCall, Running
  <2>3. CASE AddOctet(c)
    <3>1. PICK octet \in Octets : call' = [call EXCEPT ![c].read = Append(@, octet), ![c].at = "load"]
      <4> DEFINE place == call[c].token
      <4>1. place \in Place /\ place.copy \in Callers /\ place.token \in 1..4
        BY <1>0, <2>3 DEF AddOctet, ValidCall, Place
      <4>2. Running(place.copy) => call[place.copy].octets[place.token] \in Octets
        BY <4>1 DEF CallTypeOK, ValidCall, Dotted
      <4> QED BY <2>3, <4>2, GarbageAssumption DEF AddOctet
    <3> QED BY <1>0, <2>3, <3>1 DEF AddOctet, CallState, ValidCall, Running
  <2>4. CASE LoadPosition(c)
    <3>1. olds \in Place
      BY <1>0, <2>4 DEF LoadPosition, ValidCall, Running
    <3> QED BY <1>0, <2>4, <3>1 DEF LoadPosition, CallState, ValidCall, Running
  <2>5. CASE ScanNothing(c)
    BY <1>0, <2>5 DEF ScanNothing, CallState, ValidCall, Running
  <2>6. CASE ScanLast(c)
    <3>1. call[c].seen \in Place
      BY <1>0, <2>6 DEF ScanLast, ValidCall
    <3>2. EndOf(call[c].seen) \in Place
      BY <3>1, EndIsPlace
    <3> QED BY <1>0, <2>6, <3>1, <3>2 DEF ScanLast, CallState, ValidCall, Running
  <2>7. CASE ScanDot(c)
    <3>1. call[c].seen \in Place
      BY <1>0, <2>7 DEF ScanDot, ValidCall
    <3>2. call[c].seen.token # 4
      BY <2>7, <3>1 DEF ScanDot, CallTypeOK, ValidCall, Place
    <3> QED BY <1>0, <2>7, <3>1, <3>2 DEF ScanDot, CallState, ValidCall, Running
  <2>8. CASE CutDot(c)
    <3> DEFINE place == call[c].seen
               next == Start(place.copy, place.token + 1)
    <3>1. /\ place \in Place /\ place.copy \in Callers /\ place.token \in 1..3
      BY <1>0, <2>8 DEF CutDot, ValidCall, Place
    <3>2. next \in Place
      BY <3>1, StartIsPlace
    <3> HIDE DEF next
    <3>3. /\ call' = [call EXCEPT ![place.copy].cut = @ \cup {place.token},
                                  ![c].next = next, ![c].at = "store"]
          /\ olds' = olds /\ overlapped' = overlapped /\ call[c].at = "cut"
      BY <2>8 DEF CutDot, next
    <3>4. call' \in [Callers -> CallState]
      <4> DEFINE shorter == [call[place.copy] EXCEPT !.cut = @ \cup {place.token}]
                 cutOf   == [call EXCEPT ![place.copy] = shorter]
                 done(s) == [s EXCEPT !.next = next, !.at = "store"]
      <4>1. shorter \in CallState
        <5>1. call[place.copy] \in CallState /\ call[place.copy].cut \cup {place.token} \in SUBSET (1..4)
          BY <1>0, <3>1 DEF CallState
        <5> HIDE DEF place
        <5> QED BY <5>1 DEF CallState
      <4>2. \A s \in CallState : done(s) \in CallState
        BY <3>2 DEF CallState
      <4>3. call' = [cutOf EXCEPT ![c] = done(cutOf[c])]
        BY <3>3, <1>0, <3>1
      <4> HIDE DEF shorter, done
      <4>4. cutOf \in [Callers -> CallState]
        BY <1>0, <4>1
      <4> HIDE DEF cutOf
      <4> QED BY <4>2, <4>3, <4>4
    <3>5. /\ call'[c].at = "store" /\ call'[c].next = next
          /\ call'[c].octets = call[c].octets /\ call[c].cut \subseteq call'[c].cut
      BY <1>0, <3>1, <3>3 DEF CallState
    <3>6. ValidCall(c)'
      BY <1>0, <3>2, <3>3, <3>5 DEF ValidCall, Running
    <3> QED BY <1>0, <3>3, <3>4, <3>6
  <2>9. CASE StorePosition(c)
    <3>1. call[c].next \in Place
      BY <1>0, <2>9 DEF StorePosition, ValidCall
    <3> QED BY <1>0, <2>9, <3>1 DEF StorePosition, Goto, CallState, ValidCall, Running
  <2> QED BY <2>1, <2>2, <2>3, <2>4, <2>5, <2>6, <2>7, <2>8, <2>9 DEF Acts, Proceed
<1>2. ASSUME NEW d \in Callers \ {c}
      PROVE  ValidCall(d)'
  <2>1. Keeps(c, d)
    BY OthersKept
  <2>2. ValidCall(d) /\ (olds' \in Place \/ olds' = olds)
    BY <1>1 DEF CallTypeOK
  <2> QED BY <2>1, <2>2 DEF ValidCall, Running, Keeps
<1>3. olds' \in Place \cup {Null}
  BY <1>1 DEF CallTypeOK
<1> QED BY <1>1, <1>2, <1>3 DEF CallTypeOK

LEMMA OthersStillIdle ==
  ASSUME CallTypeOK, NEW c \in Callers, Acts(c), Others(c) = {}
  PROVE  Others(c)' = {}
<1>1. \A d \in Callers \ {c} : call'[d].at = call[d].at
  BY OthersKept DEF Keeps
<1> QED BY <1>1 DEF Others, Running

(* Reading one octet after the other: the position of strtok is where the  *)
(* caller left it.                                                         *)
LEMMA OwnSequence ==
  ASSUME CallInv, NEW c \in Callers, Acts(c), c \notin overlapped'
  PROVE  /\ Running(c)' => InSequence(c)'
         /\ call'[c].at = "returned" => AllRead(c)'
<1> DEFINE Good == /\ Running(c)' => InSequence(c)'
                   /\ call'[c].at = "returned" => AllRead(c)'
           s == call[c]
           k == Len(s.read)
<1>0. /\ call \in [Callers -> CallState] /\ s \in CallState /\ ValidCall(c)
      /\ s.read \in Seq(Octets) /\ k \in Nat
  BY DEF CallInv, CallTypeOK, CallState, s, k
<1> HIDE DEF s, k
<1>1. ASSUME NEW octets \in Dotted \cup {Null}, NEW cidr \in Int, FirstToken(c, octets, cidr)
      PROVE  Good
  <2>1. Others(c) = {}
    BY <1>1 DEF FirstToken
  <2>2. Others(c)' = {}
    BY <1>1, <2>1, OthersStillIdle DEF CallInv, Acts
  <2>3. /\ call'[c].at = "add" /\ call'[c].cidr \in Masks /\ call'[c].read = <<>>
        /\ call'[c].token = Start(c, 1) /\ olds' = Start(c, 2) /\ call'[c].cut = {1, 4}
    BY <1>0, <1>1 DEF FirstToken
  <2>4. Behind(c, 1) = Start(c, 2) /\ {1, 4} = 1..1 \cup {4}
    BY DEF Behind
  <2> QED BY <2>2, <2>3, <2>4 DEF InSequence, InOrder
<1>2. ASSUME NEW octets \in Dotted \cup {Null}, NEW cidr \in Int, Refuse(c, octets, cidr)
      PROVE  Good
  BY <1>0, <1>2 DEF Refuse, Goto, Running, s, k
<1>3. ASSUME Proceed(c)
      PROVE  Good
  <2>1. Running(c) /\ InSequence(c)
    <3>1. Running(c)
      BY <1>3 DEF Proceed, Running, AddOctet, LoadPosition, ScanNothing, ScanLast,
                  ScanDot, CutDot, StorePosition, s, k
    <3>2. c \notin overlapped
      BY <1>3 DEF Proceed, AddOctet, LoadPosition, ScanNothing, ScanLast,
                  ScanDot, CutDot, StorePosition, s, k
    <3> QED BY <3>1, <3>2 DEF CallInv, SequenceInv
  <2>2. Others(c)' = {}
    BY <2>1, OthersStillIdle DEF CallInv, InSequence, InOrder
  <2>3. /\ s.octets \in Dotted /\ s.cidr \in Masks
        /\ k <= 4 /\ \A i \in 1..k : s.read[i] = s.octets[i]
    BY <1>0, <2>1 DEF ValidCall, InSequence, InOrder, s, k
  <2>4. CASE AddOctet(c)
    <3>1. /\ s.at = "add" /\ k <= 3 /\ s.token = Start(c, k + 1)
          /\ olds = Behind(c, k + 1) /\ s.cut = 1..(k + 1) \cup {4}
      BY <2>1, <2>4 DEF AddOctet, InSequence, InOrder, s, k
    <3>2. s.token.copy = c /\ s.token.token = k + 1
      BY <1>0, <3>1, StartIsPlace
    <3>3. /\ call' = [call EXCEPT ![c].read = Append(@, s.octets[k + 1]), ![c].at = "load"]
          /\ olds' = olds
      BY <2>1, <2>4, <3>2 DEF AddOctet, s, k
    <3>4. /\ call'[c].at = "load" /\ call'[c].read = Append(s.read, s.octets[k + 1])
          /\ call'[c].octets = s.octets /\ call'[c].cidr = s.cidr /\ call'[c].cut = s.cut
      BY <1>0, <3>3 DEF CallState, s, k
    <3>5. /\ Len(call'[c].read) = k + 1
          /\ \A i \in 1..(k + 1) : call'[c].read[i] = s.octets[i]
      <4>1. s.octets[k + 1] \in Octets /\ s.read \in Seq(Octets) /\ k = Len(s.read)
        BY <1>0, <2>3, <3>1 DEF Dotted, k
      <4>2. /\ Len(Append(s.read, s.octets[k + 1])) = k + 1
            /\ \A i \in 1..(k + 1) : Append(s.read, s.octets[k + 1])[i]
                                       = IF i <= k THEN s.read[i] ELSE s.octets[k + 1]
        BY <4>1
      <4> QED BY <1>0, <2>3, <3>4, <4>2
    <3>6. k + 1 >= 1 /\ k + 1 <= 4 /\ olds' = Behind(c, k + 1)
      BY <1>0, <3>1, <3>3
    <3> QED BY <2>2, <2>3, <3>1, <3>4, <3>5, <3>6 DEF InSequence, InOrder
  <2>5. CASE LoadPosition(c)
    <3>1. /\ s.at = "load" /\ k >= 1 /\ olds = Behind(c, k) /\ s.cut = 1..k \cup {4}
      BY <2>1, <2>5 DEF LoadPosition, InSequence, InOrder, s, k
    <3>2. /\ call'[c].at = "scan" /\ call'[c].seen = olds /\ call'[c].read = s.read /\ Len(call'[c].read) = k
          /\ call'[c].octets = s.octets /\ call'[c].cidr = s.cidr /\ call'[c].cut = s.cut
      BY <1>0, <2>5 DEF LoadPosition, CallState, s, k
    <3> QED BY <2>2, <2>3, <3>1, <3>2 DEF InSequence, InOrder
  <2>6. ASSUME s.at = "scan"
        PROVE  /\ k >= 1 /\ s.seen = Behind(c, k) /\ s.cut = 1..k \cup {4}
               /\ s.seen.copy = c
               /\ k <= 3 => s.seen = Start(c, k + 1) /\ s.seen.token = k + 1
    <3>1. /\ k >= 1 /\ s.seen = Behind(c, k) /\ s.cut = 1..k \cup {4}
      BY <2>1, <2>6 DEF InSequence, InOrder, s, k
    <3>2. CASE k <= 3
      <4>1. k + 1 \in 1..4 /\ s.seen = Start(c, k + 1)
        BY <1>0, <3>1, <3>2 DEF Behind
      <4>2. Start(c, k + 1).copy = c /\ Start(c, k + 1).token = k + 1
        BY <4>1, StartIsPlace
      <4> QED BY <3>1, <4>1, <4>2
    <3>3. CASE k = 4
      <4>1. s.seen = EndOf(Start(c, 4))
        BY <3>1, <3>3 DEF Behind
      <4>2. Start(c, 4) \in Place /\ Start(c, 4).copy = c
        BY StartIsPlace
      <4>3. s.seen.copy = c
        BY <4>1, <4>2, EndIsPlace
      <4> QED BY <3>1, <3>3, <4>3
    <3> QED BY <1>0, <2>3, <3>2, <3>3
  <2>12. ASSUME s.at = "scan"
         PROVE  s.seen.nul <=> k = 4
    <3>1. CASE k = 4
      <4>1. s.seen = EndOf(Start(c, 4)) /\ Start(c, 4) \in Place
        BY <2>6, <2>12, <3>1, StartIsPlace DEF Behind
      <4> QED BY <3>1, <4>1, EndIsPlace, Zenon
    <3>2. CASE k # 4
      <4>1. k + 1 \in 1..4 /\ s.seen = Start(c, k + 1)
        BY <1>0, <2>3, <2>6, <2>12, <3>2
      <4>2. ~Start(c, k + 1).nul
        BY <4>1, StartIsPlace, Zenon
      <4> QED BY <3>2, <4>1, <4>2, Zenon
    <3> QED BY <3>1, <3>2, Zenon
  <2>7. CASE ScanNothing(c)
    <3>1. s.at = "scan" /\ (s.seen.nul \/ ~Running(s.seen.copy))
      BY <2>7, Zenon DEF ScanNothing, s, k
    <3>2. k = 4
      BY <2>1, <2>6, <2>12, <3>1, Zenon
    <3>3. /\ call'[c].at = "store" /\ call'[c].token = Null /\ call'[c].read = s.read /\ Len(call'[c].read) = k
          /\ call'[c].octets = s.octets /\ call'[c].cidr = s.cidr
      BY <1>0, <2>7 DEF ScanNothing, CallState, s, k
    <3> QED BY <2>2, <2>3, <3>2, <3>3 DEF InSequence, InOrder
  <2>8. CASE ScanLast(c)
    <3>1. s.at = "scan" /\ ((~s.seen.nul /\ s.seen.token \in call[s.seen.copy].cut)
                             \/ ~Running(s.seen.copy))
      BY <2>8, Zenon DEF ScanLast, s, k
    <3>2. k # 4 /\ s.seen.token \in s.cut /\ s.at = "scan"
      BY <2>1, <2>6, <2>12, <3>1, Zenon DEF s
    <3>3. k = 3
      BY <1>0, <2>3, <2>6, <3>2
    <3>4. /\ s.seen = Start(c, 4) /\ s.cut = 1..3 \cup {4} /\ EndOf(s.seen) = Behind(c, 4)
      BY <2>6, <3>2, <3>3 DEF Behind
    <3>5. /\ call'[c].at = "store" /\ call'[c].token = s.seen /\ call'[c].next = EndOf(s.seen)
          /\ call'[c].read = s.read
          /\ Len(call'[c].read) = k /\ call'[c].cut = s.cut
          /\ call'[c].octets = s.octets /\ call'[c].cidr = s.cidr
      BY <1>0, <2>8 DEF ScanLast, CallState, s, k
    <3>6. 1..3 \cup {4} = 1..4 \cup {4}
      OBVIOUS
    <3> QED BY <2>2, <2>3, <3>3, <3>4, <3>5, <3>6 DEF InSequence, InOrder
  <2>9. CASE ScanDot(c)
    <3>1. s.at = "scan" /\ ~s.seen.nul /\ s.seen.token \notin call[s.seen.copy].cut
      BY <2>9, Zenon DEF ScanDot, s, k
    <3>2. k # 4 /\ s.seen.token \notin s.cut /\ s.at = "scan"
      BY <2>6, <2>12, <3>1, Zenon DEF s
    <3>3. k \in 1..2 /\ s.seen = Start(c, k + 1) /\ s.cut = 1..k \cup {4}
      BY <1>0, <2>3, <2>6, <3>2
    <3>4. /\ call'[c].at = "cut" /\ call'[c].token = s.seen /\ call'[c].seen = s.seen
          /\ call'[c].read = s.read
          /\ Len(call'[c].read) = k /\ call'[c].cut = s.cut
          /\ call'[c].octets = s.octets /\ call'[c].cidr = s.cidr
      BY <1>0, <2>9 DEF ScanDot, CallState, s, k
    <3> QED BY <2>2, <2>3, <3>3, <3>4 DEF InSequence, InOrder
  <2>10. CASE CutDot(c)
    <3>1. /\ s.at = "cut" /\ k \in 1..2 /\ s.seen = Start(c, k + 1)
          /\ s.token = Start(c, k + 1) /\ s.cut = 1..k \cup {4}
      BY <2>1, <2>10 DEF CutDot, InSequence, InOrder, s, k
    <3>2. s.seen.copy = c /\ s.seen.token = k + 1
      BY <1>0, <3>1, StartIsPlace
    <3>3. call' = [call EXCEPT ![c].cut = @ \cup {k + 1}, ![c].next = Start(c, k + 2),
                               ![c].at = "store"]
      BY <2>10, <3>2, <1>0 DEF CutDot, s, k
    <3>4. /\ call'[c].at = "store" /\ call'[c].token = s.token /\ call'[c].next = Start(c, k + 2)
          /\ call'[c].read = s.read /\ Len(call'[c].read) = k /\ call'[c].cut = s.cut \cup {k + 1}
          /\ call'[c].octets = s.octets /\ call'[c].cidr = s.cidr
      BY <1>0, <3>3 DEF CallState, s, k
    <3>5. Start(c, k + 2) = Behind(c, k + 1) /\ s.cut \cup {k + 1} = 1..(k + 1) \cup {4}
      BY <3>1 DEF Behind
    <3> QED BY <2>2, <2>3, <3>1, <3>4, <3>5 DEF InSequence, InOrder
  <2>11. CASE StorePosition(c)
    <3>1. /\ s.at = "store" /\ k >= 1 /\ (k = 4 => s.token = Null)
          /\ k <= 3 => /\ s.token = Start(c, k + 1) /\ s.next = Behind(c, k + 1)
                       /\ s.cut = 1..(k + 1) \cup {4}
      BY <2>1, <2>11 DEF StorePosition, InSequence, InOrder, s, k
    <3>2. k <= 3 => s.token # Null
      BY <1>0, <3>1, StartIsPlace
    <3>3. /\ call'[c].at = (IF k < 4 /\ s.token # Null THEN "add" ELSE "returned")
          /\ call'[c].token = s.token /\ call'[c].read = s.read
          /\ Len(call'[c].read) = k /\ call'[c].cut = s.cut
          /\ call'[c].octets = s.octets /\ call'[c].cidr = s.cidr /\ olds' = s.next
      BY <1>0, <2>11 DEF StorePosition, Goto, CallState, s, k
    <3>4. CASE k <= 3
      BY <2>2, <2>3, <3>1, <3>2, <3>3, <3>4 DEF InSequence, InOrder, s, k
    <3>5. CASE k = 4
      BY <2>3, <3>3, <3>5 DEF AllRead, Running, s, k
    <3> QED BY <1>0, <2>3, <3>4, <3>5
  <2> QED BY <1>3, <2>4, <2>5, <2>7, <2>8, <2>9, <2>10, <2>11 DEF Proceed
<1> QED BY <1>1, <1>2, <1>3 DEF Acts

LEMMA SequenceStep ==
  ASSUME CallInv, NEW c \in Callers, Acts(c)
  PROVE  SequenceInv'
<1> SUFFICES ASSUME NEW d \in Callers, d \notin overlapped'
             PROVE  /\ Running(d)' => InSequence(d)'
                    /\ call'[d].at = "returned" => AllRead(d)'
  BY DEF SequenceInv
<1>1. CASE d = c
  BY <1>1, OwnSequence
<1>2. CASE d # c
  <2>1. Keeps(c, d)
    BY <1>2, OthersKept DEF CallInv
  <2>2. d \notin overlapped
    BY DEF Acts, Proceed, FirstToken, Refuse, AddOctet, LoadPosition, ScanNothing, ScanLast,
           ScanDot, CutDot, StorePosition
  <2>3. ASSUME call'[d].at = "returned"
        PROVE  AllRead(d)'
    BY <2>1, <2>2, <2>3 DEF CallInv, SequenceInv, AllRead, Keeps
  <2>4. ASSUME Running(d)'
        PROVE  InSequence(d)'
    <3>1. Running(d) /\ InSequence(d)
      BY <2>1, <2>2, <2>4 DEF CallInv, SequenceInv, Keeps, Running
    <3>2. ~Running(c)
      BY <1>2, <3>1 DEF InSequence, Others
    <3>3. PICK octets, cidr : Refuse(c, octets, cidr)
      <4>1. d \in Others(c)
        BY <1>2, <3>1 DEF Others
      <4>2. ASSUME NEW octets, NEW cidr
            PROVE  ~FirstToken(c, octets, cidr)
        BY <4>1 DEF FirstToken
      <4>3. ~Proceed(c)
        BY <3>2 DEF Proceed, Running, AddOctet, LoadPosition, ScanNothing, ScanLast,
                    ScanDot, CutDot, StorePosition
      <4> QED BY <4>2, <4>3 DEF Acts
    <3>4. /\ call'[d] = call[d] /\ olds' = olds
          /\ \A e \in Callers \ {d} : Running(e)' => Running(e)
      BY <1>2, <3>3 DEF Refuse, Goto, Running, CallInv, CallTypeOK
    <3>5. Others(d)' = {}
      BY <3>1, <3>4 DEF InSequence, Others
    <3> QED BY <3>1, <3>4, <3>5 DEF InSequence
  <2> QED BY <2>3, <2>4
<1> QED BY <1>1, <1>2

(* Calls never use an invalid pointer of their own making, and those that  *)
(* do not overlap read the four octets of their address.                   *)
LEMMA CallInvariant ==
  AddressSpec => []CallInv
<1>1. AddressInit => CallInv
  <2> SUFFICES ASSUME AddressInit
               PROVE  CallInv
    OBVIOUS
  <2>1. <<>> \in Seq(Octets)
    OBVIOUS
  <2>2. NoCall \in CallState
    BY <2>1 DEF NoCall, CallState
  <2>3. /\ call \in [Callers -> CallState]
        /\ \A c \in Callers : call[c].at = "idle"
    BY <2>2 DEF AddressInit, NoCall
  <2> QED BY <2>3 DEF AddressInit, CallInv, CallTypeOK, SequenceInv, ValidCall, Running
<1>2. CallInv /\ [AddressNext]_addressVars => CallInv'
  <2> SUFFICES ASSUME CallInv, [AddressNext]_addressVars
               PROVE  CallInv'
    OBVIOUS
  <2>1. ASSUME NEW c \in Callers, Acts(c)
        PROVE  CallInv'
    BY <2>1, TypeStep, SequenceStep DEF CallInv
  <2>2. CASE AddressNext
    BY <2>1, <2>2 DEF AddressNext, Acts
  <2>3. CASE UNCHANGED addressVars
    BY <2>3 DEF addressVars, CallInv, CallTypeOK, SequenceInv, ValidCall, Running, InSequence,
                InOrder, AllRead, Others
  <2> QED BY <2>2, <2>3
<1> QED BY <1>1, <1>2, PTL DEF AddressSpec

(* A call of calculate_broadcast_address that overlaps no other one        *)
(* returns the right address, for every address and mask, any number of    *)
(* threads and in spite of the position earlier calls left behind.         *)
THEOREM UndisturbedCallsAreRight ==
  AddressSpec => []AloneIsRight
<1>1. CallInv => AloneIsRight
  <2> SUFFICES ASSUME CallInv, NEW c \in Callers, call[c].at = "returned", c \notin overlapped
               PROVE  Answer(c) = DirectedBroadcast(call[c].octets, call[c].cidr)
    BY DEF AloneIsRight
  <2>1. /\ AllRead(c) /\ call[c].read \in Seq(Octets)
    BY DEF CallInv, SequenceInv, CallTypeOK, CallState
  <2>2. call[c].read = call[c].octets
    <3>1. /\ call[c].read \in [1..4 -> Octets] /\ call[c].octets \in [1..4 -> Octets]
      BY <2>1 DEF AllRead, Dotted
    <3> QED BY <2>1, <3>1 DEF AllRead
  <2> QED BY <2>1, <2>2, BroadcastIsRight DEF AllRead, Answer
<1> QED BY <1>1, CallInvariant, PTL
==============================================================================
