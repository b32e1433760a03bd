---------------------------- MODULE MCFrameHops -----------------------------
(***************************************************************************)
(* Instances of FrameHops for TLC: those of MCForwarding.                  *)
(***************************************************************************)
EXTENDS FrameHops, MCForwarding

=============================================================================
