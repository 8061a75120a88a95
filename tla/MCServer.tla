------------------------------ MODULE MCServer -------------------------------
(* An instance of Server for TLC: two accept loops, and two connections that *)
(* are each in a bucket of their own, so that the walk meets one bucket      *)
(* before and one after a connection comes or goes.                          *)
EXTENDS Server
==============================================================================
