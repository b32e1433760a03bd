------------------------------ MODULE Addresses ------------------------------
(***************************************************************************)
(* The address arithmetic of router.c.                                     *)
(*                                                                         *)
(* An unsigned number is the set of the positions of its one bits: | is    *)
(* union, & intersection, ~ the complement within the width of its type,   *)
(* and a shift moves the positions and drops those beyond that width.  A   *)
(* dotted address is the sequence of its four octets.                      *)
(***************************************************************************)
EXTENDS Integers

CONSTANTS
  OctetBits,   (* 8                                                        *)
  LongBits,    (* bits of an unsigned long: 64                             *)
  Null         (* the null pointer                                         *)

ASSUME WidthAssumption ==
  /\ OctetBits \in Nat \ {0}
  /\ LongBits \in Nat
  /\ LongBits >= 4 * OctetBits

Width == 4 * OctetBits                  (* bits of an address: 32          *)
Masks == 0..Width                       (* the cidr of a device or route   *)
Octets == SUBSET (0..(OctetBits - 1))
Dotted == [1..4 -> Octets]

Shift(bits, n, size) == {b + n : b \in bits} \cap 0..(size - 1)

(* strtok and atol read the octets from the left; the first one is shifted *)
(* highest.  Fewer than four are read when strtok stops early.             *)
Joined(octets) ==
  UNION {Shift(octets[i], (4 - i) * OctetBits, LongBits) : i \in DOMAIN octets}

(* "%lu.%lu.%lu.%lu" of the four lowest octets of a number.                *)
Printed(bits) ==
  [i \in 1..4 |-> {b \in 0..(OctetBits - 1) : b + (4 - i) * OctetBits \in bits}]

-----------------------------------------------------------------------------
(* calculate_broadcast_address: the mask is shifted in an unsigned long    *)
(* and keeps bits above those of an address.                               *)
SubnetMask(cidr) == Shift(0..(Width - 1), Width - cidr, LongBits)

BroadcastBits(ip, mask) == (ip \cap mask) \cup ((0..(LongBits - 1)) \ mask)

BroadcastOf(octets, cidr) == Printed(BroadcastBits(Joined(octets), SubnetMask(cidr)))

(* calculate_network_address: the mask is shifted in an unsigned int, by   *)
(* less than its width.                                                    *)
NetMask(cidr) == IF cidr = 0 THEN {} ELSE Shift(0..(Width - 1), Width - cidr, Width)

NetworkOf(octets, cidr) == Printed(Joined(octets) \cap NetMask(cidr))

-----------------------------------------------------------------------------
(* What the two functions are for.  Bit b of the i-th octet is a host bit  *)
(* if it is not one of the first cidr bits of the address.                 *)

HostBit(i, b, cidr) == (i - 1) * OctetBits + (OctetBits - 1 - b) >= cidr

DirectedBroadcast(octets, cidr) ==
  [i \in 1..4 |->
     {b \in 0..(OctetBits - 1) : b \in octets[i] \/ HostBit(i, b, cidr)}]

NetworkPrefix(octets, cidr) ==
  [i \in 1..4 |-> {b \in octets[i] : ~HostBit(i, b, cidr)}]

SameNetwork(x, y, cidr) == NetworkPrefix(x, cidr) = NetworkPrefix(y, cidr)
==============================================================================
