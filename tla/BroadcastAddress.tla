--------------------------- MODULE BroadcastAddress ---------------------------
(***************************************************************************)
(* Concurrent calls of calculate_broadcast_address.  Every device thread   *)
(* begins with one, and each reads its octets with strtok, whose position  *)
(* olds is one static variable of the process.  A step is one access to    *)
(* memory that other calls use: olds, or the copy of an address.           *)
(*                                                                         *)
(* The copy of an address, "a.b.c.d", is on the stack of its call.  A      *)
(* place in it is the start of a token or the NUL behind a token, be it    *)
(* the end of the text or a dot that some strtok overwrote.  Once the call *)
(* has returned the place holds whatever its thread put there since, and   *)
(* an access to it strays; what a write to it damages is not followed.     *)
(***************************************************************************)
EXTENDS Addresses, Sequences

CONSTANTS
  Callers,   (* the device threads                                         *)
  Garbage    (* octets that may be found in the stack of another thread    *)

ASSUME GarbageAssumption == Garbage \subseteq Octets

(* A place in the copy of an address: token n of the copy of caller c, or  *)
(* the NUL behind it.                                                      *)
Place == [copy : Callers, token : 1..4, nul : BOOLEAN]

ASSUME NullAssumption == Null \notin Place /\ Null \notin Dotted

VARIABLES
  olds,       (* strtok's position, Null before the first call             *)
  call,       (* caller -> the state of its call                           *)
  overlapped  (* history: the callers whose calls overlapped another one   *)

addressVars == <<olds, call, overlapped>>

NoCall == [at |-> "idle", octets |-> Null, cidr |-> 0, cut |-> {},
           token |-> Null, seen |-> Null, next |-> Null, read |-> <<>>]

AddressInit ==
  /\ olds = Null
  /\ call = [c \in Callers |-> NoCall]
  /\ overlapped = {}

Start(c, n) == [copy |-> c, token |-> n, nul |-> FALSE]
EndOf(place) == [place EXCEPT !.nul = TRUE]

Running(c) == call[c].at \notin {"idle", "returned", "refused"}
Others(c) == {d \in Callers \ {c} : Running(d)}

(* The next access of c is to the copy of a call that has returned.        *)
Strays(c) ==
  \/ call[c].at = "add" /\ ~Running(call[c].token.copy)
  \/ call[c].at \in {"scan", "cut"} /\ ~Running(call[c].seen.copy)

Goto(c, at) == call' = [call EXCEPT ![c].at = at]

-----------------------------------------------------------------------------
(* The first call, strtok(ip_copy, "."), works on the caller's own copy    *)
(* and leaves olds behind the dot it overwrote.                            *)
FirstToken(c, octets, cidr) ==
  /\ call[c].at = "idle"
  /\ octets # Null /\ cidr \in Masks
  /\ call' = [call EXCEPT ![c] =
                [at |-> "add", octets |-> octets, cidr |-> cidr, cut |-> {1, 4},
                 token |-> Start(c, 1), seen |-> Null, next |-> Null, read |-> <<>>]]
  /\ olds' = Start(c, 2)
  /\ overlapped' = IF Others(c) = {} THEN overlapped
                   ELSE overlapped \cup {c} \cup Others(c)

Refuse(c, octets, cidr) ==
  /\ call[c].at = "idle"
  /\ octets = Null \/ cidr \notin Masks
  /\ Goto(c, "refused")
  /\ UNCHANGED <<olds, overlapped>>

(* ip |= atol(token) << ...; the token may be in the copy of another call. *)
AddOctet(c) ==
  LET place == call[c].token
  IN /\ call[c].at = "add"
     /\ \E octet \in IF Running(place.copy) THEN {call[place.copy].octets[place.token]}
                                             ELSE Garbage :
          call' = [call EXCEPT ![c].read = Append(@, octet), ![c].at = "load"]
     /\ UNCHANGED <<olds, overlapped>>

(* strtok(NULL, "."), first the position.                                  *)
LoadPosition(c) ==
  /\ call[c].at = "load"
  /\ call' = [call EXCEPT ![c].seen = olds, ![c].at = "scan"]
  /\ UNCHANGED <<olds, overlapped>>

(* Nothing left at this position: NULL.                                    *)
ScanNothing(c) ==
  LET place == call[c].seen
  IN /\ call[c].at = "scan"
     /\ place.nul \/ ~Running(place.copy)
     /\ call' = [call EXCEPT ![c].token = Null, ![c].next = place, ![c].at = "store"]
     /\ UNCHANGED <<olds, overlapped>>

(* A token up to a NUL.                                                    *)
ScanLast(c) ==
  LET place == call[c].seen
  IN /\ call[c].at = "scan"
     /\ \/ ~place.nul /\ place.token \in call[place.copy].cut
        \/ ~Running(place.copy)
     /\ call' = [call EXCEPT ![c].token = place, ![c].next = EndOf(place), ![c].at = "store"]
     /\ UNCHANGED <<olds, overlapped>>

(* A token up to a dot, which is overwritten next.                         *)
ScanDot(c) ==
  LET place == call[c].seen
  IN /\ call[c].at = "scan"
     /\ ~place.nul /\ place.token \notin call[place.copy].cut
     /\ Running(place.copy)
     /\ call' = [call EXCEPT ![c].token = place, ![c].at = "cut"]
     /\ UNCHANGED <<olds, overlapped>>

CutDot(c) ==
  LET place == call[c].seen
  IN /\ call[c].at = "cut"
     /\ call' = [call EXCEPT ![place.copy].cut = @ \cup {place.token},
                             ![c].next = Start(place.copy, place.token + 1),
                             ![c].at = "store"]
     /\ UNCHANGED <<olds, overlapped>>

(* Mutation: the position does not move on.                                *)
KeepsPosition(c) ==
  /\ call[c].at = "store"
  /\ Goto(c, IF Len(call[c].read) < 4 /\ call[c].token # Null THEN "add" ELSE "returned")
  /\ UNCHANGED <<olds, overlapped>>

(* olds moves on; the loop ends after four octets or without a token.      *)
StorePosition(c) ==
  /\ call[c].at = "store"
  /\ olds' = call[c].next
  /\ Goto(c, IF Len(call[c].read) < 4 /\ call[c].token # Null THEN "add" ELSE "returned")
  /\ UNCHANGED overlapped

Proceed(c) ==
  \/ AddOctet(c) \/ LoadPosition(c)
  \/ ScanNothing(c) \/ ScanLast(c) \/ ScanDot(c)
  \/ CutDot(c) \/ StorePosition(c)

Answer(c) == BroadcastOf(call[c].read, call[c].cidr)

AddressNext ==
  \E c \in Callers :
    \/ \E octets \in Dotted \cup {Null}, cidr \in Int :
         FirstToken(c, octets, cidr) \/ Refuse(c, octets, cidr)
    \/ Proceed(c)

AddressSpec == AddressInit /\ [][AddressNext]_addressVars

-----------------------------------------------------------------------------
(* A call that overlapped no other one returns the address whose host bits *)
(* are all one, though olds still points into the copy of an earlier call, *)
(* and though later calls take the position away again.                    *)
AloneIsRight ==
  \A c \in Callers :
    call[c].at = "returned" /\ c \notin overlapped =>
      Answer(c) = DirectedBroadcast(call[c].octets, call[c].cidr)
==============================================================================
