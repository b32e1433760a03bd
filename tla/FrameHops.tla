------------------------------ MODULE FrameHops ------------------------------
(***************************************************************************)
(* Forwarding with a history variable that counts how often each frame is  *)
(* passed on.  A frame carries no such counter and nothing else that would *)
(* stop it: devices forward whatever their tables match.                   *)
(***************************************************************************)
EXTENDS Forwarding

VARIABLE hops   (* frame -> how often some device has sent it on            *)

hopVars == <<allVars, hops>>

(* Device d has sent frame f on, and goes back to its table.               *)
SentOn(d, f) ==
  hop[d] # NoHop /\ FrameOf(d) = f /\ hop'[d] = NoHop

HopInit == ForwardInit /\ hops = [f \in Frames |-> 0]

HopNext ==
  /\ ForwardNext
  /\ hops' = [f \in Frames |-> IF \E d \in Devices : SentOn(d, f)
                               THEN hops[f] + 1 ELSE hops[f]]

HopSpec == HopInit /\ [][HopNext]_hopVars

-----------------------------------------------------------------------------

(* At most once from router to router while distances go down to 1, once   *)
(* to the device on the network and once to the destination.               *)
MaxHops == Cardinality(Routers) + 1

(* No frame travels in circles, or longer than the longest shortest path:  *)
(* although every device decides by its own table, tables change while the *)
(* frame travels, and a gateway is connected to long after it was read.    *)
HopsBounded == \A f \in Frames : hops[f] <= MaxHops

=============================================================================
