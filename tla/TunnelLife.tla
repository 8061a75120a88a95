----------------------------- MODULE TunnelLife ------------------------------
(***************************************************************************)
(* What a worker relies on of a tunnel: its life goes one way, and a       *)
(* packet given to Forward is taken unless the tunnel has begun to stop.   *)
(* Worker models its tunnels by this life cycle; Tunnel implements it.     *)
(*                                                                         *)
(* life is "live" while the tunnel's group runs, "ended" from OnGroupStop, *)
(* "stopping" from the beginning of DoStop, when IsStopping answers true,  *)
(* and "closed" once csChan is closed.                                     *)
(***************************************************************************)
VARIABLES life, forward

vars == <<life, forward>>

Lives    == {"live", "ended", "stopping", "closed"}
Forwards == {"idle", "busy", "failed"}

Init == life = "live" /\ forward = "idle"

Ends   == life = "live" /\ life' = "ended" /\ UNCHANGED forward
Stops  == life = "ended" /\ life' = "stopping" /\ UNCHANGED forward
Closes == life = "stopping" /\ life' = "closed" /\ UNCHANGED forward

\* Forward is called on a tunnel the worker found, perhaps a while ago.
Begins == forward = "idle" /\ forward' = "busy" /\ UNCHANGED life

\* Also a tunnel that has begun to stop may still take a packet, if Forward
\* had checked it before.
Takes == forward = "busy" /\ life # "closed" /\ forward' = "idle" /\ UNCHANGED life

\* An error, or a panic that is turned into one, ends the worker's read loop.
Refuses ==
  /\ forward = "busy" /\ life \in {"stopping", "closed"}
  /\ forward' = "failed" /\ UNCHANGED life

Next == Ends \/ Stops \/ Closes \/ Begins \/ Takes \/ Refuses

Spec == Init /\ [][Next]_vars
==============================================================================
