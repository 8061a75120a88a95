------------------------------- MODULE Stopper -------------------------------
(***************************************************************************)
(* The Stoppable of vulcan-pkg-tool/sync, embedded by the worker, the      *)
(* tunnel and the server.  The package is not part of the repository: its  *)
(* behaviour is taken from how the repository uses it.                     *)
(*   TriggerStop    only asks for a stop; StopTriggered is then readable.  *)
(*   DoStop(f)      runs f once; Stopping is readable from its start.      *)
(*   WaitStopped    returns when f is done, or after the stop timeout.     *)
(* The uses do not say whether IsStopping and Stopping already hold once a *)
(* stop has been asked for: StoppingOnTrigger leaves both readings open.   *)
(***************************************************************************)
CONSTANT StoppingOnTrigger

ASSUME StoppingOnTriggerAssumption == StoppingOnTrigger \in BOOLEAN

StopPhases == {"live", "stopping", "stopped"}

StopperType == [triggered : BOOLEAN, phase : StopPhases]

NewStopper == [triggered |-> FALSE, phase |-> "live"]

TriggerStop(s) == [s EXCEPT !.triggered = TRUE]

\* DoStop entered: f starts to run.
EnterDoStop(s) == [s EXCEPT !.phase = "stopping"]

\* DoStop left: f is done.
LeaveDoStop(s) == [s EXCEPT !.phase = "stopped"]

IsStopping(s) == s.phase # "live" \/ (StoppingOnTrigger /\ s.triggered)
==============================================================================
