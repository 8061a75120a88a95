----------------------------- MODULE WorkerLife ------------------------------
(***************************************************************************)
(* What the server relies on of a connection: Server.work goes one way     *)
(* through its stages, the worker is listed in its bucket from Put to Del, *)
(* and a worker that has been listed may be asked to stop at any time, but *)
(* is not bound to stop soon.  Server models its connections by this life; *)
(* Worker implements it.                                                   *)
(*                                                                         *)
(* at is "start" until Put, "work" from Put to Del, "stop" until the DoStop*)
(* of Worker.Stop is done, and "stopped" then.  listed says that the       *)
(* worker is in its bucket, seen that it has been, and asked that          *)
(* TriggerStop has been called.                                            *)
(***************************************************************************)
LifePoints == {"start", "work", "stop", "stopped"}

Life(at, listed, seen, asked) ==
  [at |-> at, listed |-> listed, seen |-> seen, asked |-> asked]

NewLife == Life("start", FALSE, FALSE, FALSE)

Asked(w) == Life(w.at, w.listed, w.seen, TRUE)

\* Where Server.work may take worker w next: the handshake fails, Put, Del,
\* Stop.
Advances(w) ==
  CASE w.at = "start" -> {Life("stop", w.listed, w.seen, w.asked),
                          Life("work", TRUE, TRUE, w.asked)}
    [] w.at = "work"  -> {Life("stop", FALSE, w.seen, w.asked)}
    [] w.at = "stop"  -> {Life("stopped", w.listed, w.seen, w.asked)}
    [] OTHER          -> {}

\* The steps of a life.
LifeSteps(w) == Advances(w) \union {v \in {Asked(w)} : w.seen}

Stopped(w) == w.at = "stopped"
==============================================================================
