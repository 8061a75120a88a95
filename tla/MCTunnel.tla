------------------------------ MODULE MCTunnel -------------------------------
(***************************************************************************)
(* Instances of Tunnel for TLC: a channel of one or two messages, so that  *)
(* it fills up, and enough packets and message objects for a message to be *)
(* used again while others are under way.                                  *)
(***************************************************************************)
EXTENDS Tunnel

CONSTANTS m1, m2, m3, m4

MCObjects == {m1, m2, m3, m4}
==============================================================================
