------------------------------- MODULE Tunnel --------------------------------
(***************************************************************************)
(* One tunnel of a worker: Forward, called by the worker's read loop; the  *)
(* three goroutines of Tunnel.run between csChan and the backend's stream; *)
(* the pooled messages they pass on; and Tunnel.stop.                      *)
(*                                                                         *)
(* The stream is opened with the context of the worker's group, so it      *)
(* breaks when that context is done (parentDone); the context of the       *)
(* tunnel's own group (cancelled) does not touch the stream.  A message is *)
(* an object of the pool; content gives the packet written in it, 0 after  *)
(* Reset.  The route table call of a player tunnel's OnStop can only fail  *)
(* with a log line and is left out, as are the other log lines.            *)
(***************************************************************************)
EXTENDS Integers, Sequences, FiniteSets, Stopper

CONSTANTS
  Objects,    \* message objects
  ChanSize,   \* capacity of csChan
  MaxPackets  \* bound: packets given to Forward

ASSUME ObjectsAssumption == IsFiniteSet(Objects)
ASSUME BoundsAssumption == ChanSize \in Nat \ {0} /\ MaxPackets \in Nat

VARIABLES
  forward,    \* control point of the read loop in Forward
  packets,    \* packets given to Forward
  held,       \* the message Forward has made, if any
  pool,       \* the messages free for use
  content,    \* the packet written in each message
  csChan,     \* the channel's contents
  closed,     \* csChan is closed
  watch, cs, sc, \* control points of the goroutines of the group
  inHand,     \* the message csLoop has received, if any
  stream,     \* the backend's stream
  sent,       \* the packets sent to the backend
  accepted,   \* history: the packets that entered csChan, in order
  cancelled,  \* the group's context is done
  parentDone, \* the context of the worker's group is done
  run,        \* control point of Tunnel.run
  stopper,    \* the tunnel's Stoppable
  gate        \* the gate process

forwardVars == <<forward, packets, held, accepted>>
msgVars     == <<pool, content>>
chanVars    == <<csChan, closed>>
groupVars   == <<watch, cs, sc, inHand, cancelled>>
streamVars  == <<stream, sent>>
stopVars    == <<run, stopper>>
vars == <<forwardVars, msgVars, chanVars, groupVars, streamVars, parentDone, stopVars, gate>>

Init ==
  /\ forward = "idle" /\ packets = 0 /\ held = <<>> /\ accepted = <<>>
  /\ pool = Objects /\ content = [o \in Objects |-> 0]
  /\ csChan = <<>> /\ closed = FALSE
  /\ watch = "running" /\ cs = "select" /\ sc = "recv" /\ inHand = <<>> /\ cancelled = FALSE
  /\ stream = "open" /\ sent = <<>> /\ parentDone = FALSE
  /\ run = "wait" /\ stopper = NewStopper /\ gate = "up"

\* The packets written in a sequence of messages.
Contents(ms) == [i \in DOMAIN ms |-> content[ms[i]]]

------------------------------------------------------------------------------
(* Tunnel.Forward, in the worker's read loop. *)

\* The read loop has found the tunnel; it is gone when the holder stops it.
ForwardCalled ==
  /\ forward = "idle" /\ packets < MaxPackets /\ ~stopper.triggered
  /\ forward' = "called" /\ packets' = packets + 1
  /\ UNCHANGED <<held, accepted, msgVars, chanVars, groupVars, streamVars,
                 parentDone, stopVars, gate>>

ForwardRefuses ==
  /\ forward = "called" /\ IsStopping(stopper)
  /\ forward' = "refused"
  /\ UNCHANGED <<packets, held, accepted, msgVars, chanVars, groupVars, streamVars,
                 parentDone, stopVars, gate>>

\* Mutant: the message stays in the pool while it is in use.
TransformShared ==
  /\ forward = "called" /\ ~IsStopping(stopper)
  /\ \E o \in pool : held' = <<o>> /\ content' = [content EXCEPT ![o] = packets]
  /\ forward' = "made"
  /\ UNCHANGED <<packets, accepted, pool, chanVars, groupVars, streamVars, parentDone,
                 stopVars, gate>>

\* TransformMessage copies the packet into a message of the pool.
Transform ==
  /\ forward = "called" /\ ~IsStopping(stopper)
  /\ \E o \in pool :
       /\ pool' = pool \ {o} /\ held' = <<o>>
       /\ content' = [content EXCEPT ![o] = packets]
  /\ forward' = "made"
  /\ UNCHANGED <<packets, accepted, chanVars, groupVars, streamVars, parentDone,
                 stopVars, gate>>

\* Mutant: the channel does not have the intended capacity.
ForwardSendsUnbounded ==
  /\ forward = "made" /\ ~closed
  /\ forward' = "idle" /\ held' = <<>>
  /\ csChan' = csChan \o held /\ accepted' = Append(accepted, packets)
  /\ UNCHANGED <<packets, msgVars, closed, groupVars, streamVars, parentDone,
                 stopVars, gate>>

\* Mutant: the message is put back as soon as it is in the channel.
ForwardSendsAndPuts ==
  /\ forward = "made" /\ ~closed /\ Len(csChan) < ChanSize
  /\ forward' = "idle" /\ held' = <<>> /\ pool' = pool \union {held[1]}
  /\ csChan' = csChan \o held /\ accepted' = Append(accepted, packets)
  /\ UNCHANGED <<packets, content, closed, groupVars, streamVars, parentDone,
                 stopVars, gate>>

\* The send blocks while the channel is full.
ForwardSends ==
  /\ forward = "made" /\ ~closed /\ Len(csChan) < ChanSize
  /\ forward' = "idle" /\ held' = <<>>
  /\ csChan' = csChan \o held /\ accepted' = Append(accepted, packets)
  /\ UNCHANGED <<packets, msgVars, closed, groupVars, streamVars, parentDone,
                 stopVars, gate>>

ForwardPanics ==
  /\ forward = "made" /\ closed
  /\ forward' = "panicked" /\ held' = <<>>
  /\ UNCHANGED <<packets, accepted, msgVars, chanVars, groupVars, streamVars,
                 parentDone, stopVars, gate>>

------------------------------------------------------------------------------
(* The goroutines of Tunnel.run. *)

Watch ==
  /\ watch = "running" /\ (cancelled \/ stopper.triggered)
  /\ watch' = "exited" /\ cancelled' = TRUE
  /\ UNCHANGED <<forwardVars, msgVars, chanVars, cs, sc, inHand, streamVars,
                 parentDone, stopVars, gate>>

\* The select of csLoop takes any case that is ready.
CsQuits ==
  /\ cs = "select" /\ (cancelled \/ stopper.triggered)
  /\ cs' = "exited" /\ cancelled' = TRUE
  /\ UNCHANGED <<forwardVars, msgVars, chanVars, watch, sc, inHand, streamVars,
                 parentDone, stopVars, gate>>

CsTakes ==
  /\ cs = "select" /\ csChan # <<>>
  /\ cs' = "sending" /\ inHand' = <<Head(csChan)>> /\ csChan' = Tail(csChan)
  /\ UNCHANGED <<forwardVars, msgVars, closed, watch, sc, cancelled, streamVars,
                 parentDone, stopVars, gate>>

\* CSHandle puts the message back when Send has returned, either way.
PutMessage ==
  /\ pool' = pool \union {inHand[1]} /\ content' = [content EXCEPT ![inHand[1]] = 0]
  /\ inHand' = <<>>

CsSends ==
  /\ cs = "sending" /\ stream = "open"
  /\ cs' = "select" /\ sent' = sent \o Contents(inHand) /\ PutMessage
  /\ UNCHANGED <<forwardVars, chanVars, watch, sc, cancelled, stream, parentDone,
                 stopVars, gate>>

CsSendFails ==
  /\ cs = "sending" /\ stream = "broken"
  /\ cs' = "exited" /\ cancelled' = TRUE /\ PutMessage
  /\ UNCHANGED <<forwardVars, chanVars, watch, sc, streamVars, parentDone, stopVars, gate>>

ScReceives ==
  /\ sc = "recv" /\ stream = "open"
  /\ sc' = "pushing"
  /\ UNCHANGED <<forwardVars, msgVars, chanVars, watch, cs, inHand, cancelled,
                 streamVars, parentDone, stopVars, gate>>

\* push calls Session() of the player or room tunnel, which calls itself: the
\* stack overflows, which ends the process.
ScPush ==
  /\ sc = "pushing"
  /\ gate' = "down"
  /\ UNCHANGED <<forwardVars, msgVars, chanVars, groupVars, streamVars, parentDone, stopVars>>

\* The data cannot be compressed: push returns before it comes to Session(),
\* and scLoop logs the error and goes on.
ScPushFails ==
  /\ sc = "pushing"
  /\ sc' = "recv"
  /\ UNCHANGED <<forwardVars, msgVars, chanVars, watch, cs, inHand, cancelled,
                 streamVars, parentDone, stopVars, gate>>

\* Mutant: scLoop tries again after an error.
ScFailsRetries ==
  /\ sc = "recv" /\ stream = "broken"
  /\ cancelled' = TRUE
  /\ UNCHANGED <<forwardVars, msgVars, chanVars, watch, cs, sc, inHand, streamVars,
                 parentDone, stopVars, gate>>

\* scLoop ends with the stream, and on nothing else.
ScFails ==
  /\ sc = "recv" /\ stream = "broken"
  /\ sc' = "exited" /\ cancelled' = TRUE
  /\ UNCHANGED <<forwardVars, msgVars, chanVars, watch, cs, inHand, streamVars,
                 parentDone, stopVars, gate>>

------------------------------------------------------------------------------
(* The end of Tunnel.run and Tunnel.stop. *)

\* Mutant: run does not wait for the whole group.
GroupStopsEarly ==
  /\ run = "wait" /\ cancelled
  /\ run' = "stop"
  /\ UNCHANGED <<forwardVars, msgVars, chanVars, groupVars, streamVars, parentDone,
                 stopper, gate>>

\* Mutant: csChan is closed before the tunnel is marked as stopping.
GroupStopsCloses ==
  /\ run = "wait" /\ watch = "exited" /\ cs = "exited" /\ sc = "exited"
  /\ run' = "stop" /\ closed' = TRUE
  /\ UNCHANGED <<forwardVars, msgVars, csChan, groupVars, streamVars, parentDone,
                 stopper, gate>>

\* eg.Wait returns an error in every case, so OnGroupStop is called.
GroupStops ==
  /\ run = "wait" /\ watch = "exited" /\ cs = "exited" /\ sc = "exited"
  /\ run' = "stop"
  /\ UNCHANGED <<forwardVars, msgVars, chanVars, groupVars, streamVars, parentDone,
                 stopper, gate>>

BeginStop ==
  /\ run = "stop"
  /\ run' = "close" /\ stopper' = EnterDoStop(stopper)
  /\ UNCHANGED <<forwardVars, msgVars, chanVars, groupVars, streamVars, parentDone, gate>>

\* Mutant: csChan is never closed.
CloseChanForgotten ==
  /\ run = "close"
  /\ run' = "onstop"
  /\ UNCHANGED <<forwardVars, msgVars, chanVars, groupVars, streamVars, parentDone,
                 stopper, gate>>

CloseChan ==
  /\ run = "close"
  /\ run' = "onstop" /\ closed' = TRUE
  /\ UNCHANGED <<forwardVars, msgVars, csChan, groupVars, streamVars, parentDone,
                 stopper, gate>>

\* OnStop: the stream is closed for sending.
OnStop ==
  /\ run = "onstop"
  /\ run' = "done" /\ stream' = "broken" /\ stopper' = LeaveDoStop(stopper)
  /\ UNCHANGED <<forwardVars, msgVars, chanVars, groupVars, sent, parentDone, gate>>

------------------------------------------------------------------------------
(* The worker and the backend. *)

\* The worker's group is over: the stream's context is done, and with it the
\* context of the tunnel's group.
ParentEnds ==
  /\ ~parentDone
  /\ parentDone' = TRUE /\ cancelled' = TRUE /\ stream' = "broken"
  /\ UNCHANGED <<forwardVars, msgVars, chanVars, watch, cs, sc, inHand, sent, stopVars, gate>>

\* tunnelHolder.stop, in Worker.Stop: the read loop has returned.
HolderStops ==
  /\ parentDone /\ ~stopper.triggered /\ forward \notin {"called", "made"}
  /\ stopper' = TriggerStop(stopper)
  /\ UNCHANGED <<forwardVars, msgVars, chanVars, groupVars, streamVars, parentDone, run, gate>>

\* The backend ends the stream, or is gone.
BackendEnds ==
  /\ stream = "open"
  /\ stream' = "broken"
  /\ UNCHANGED <<forwardVars, msgVars, chanVars, groupVars, sent, parentDone, stopVars, gate>>

------------------------------------------------------------------------------
ForwardStep == ForwardCalled \/ ForwardRefuses \/ Transform \/ ForwardSends \/ ForwardPanics
CsStep      == CsQuits \/ CsTakes \/ CsSends \/ CsSendFails
ScStep      == ScReceives \/ ScPush \/ ScPushFails \/ ScFails
StopStep    == GroupStops \/ BeginStop \/ CloseChan \/ OnStop

\* Nothing happens in a process that has ended.
Next ==
  /\ gate = "up"
  /\ ForwardStep \/ Watch \/ CsStep \/ ScStep \/ StopStep
     \/ ParentEnds \/ HolderStops \/ BackendEnds

Spec == Init /\ [][Next]_vars

\* The steps for which a goroutine waits for nobody but the tunnel itself.
ForwardRuns == gate = "up" /\ (ForwardRefuses \/ Transform \/ ForwardSends \/ ForwardPanics)
WatchRuns   == gate = "up" /\ Watch
CsRuns      == gate = "up" /\ (CsQuits \/ CsTakes \/ CsSendFails)
ScRuns      == gate = "up" /\ (ScPush \/ ScPushFails \/ ScFails)
StopRuns    == gate = "up" /\ StopStep

\* Goroutines that can run do.  Nothing is assumed of the backend: it may send
\* nothing (ScReceives), take nothing (CsSends) and end nothing.
Fairness ==
  /\ WF_vars(ForwardRuns) /\ WF_vars(WatchRuns) /\ WF_vars(CsRuns)
  /\ WF_vars(ScRuns) /\ WF_vars(StopRuns)

FairSpec == Spec /\ Fairness

\* When these steps can be taken, as the guards say: Forward may refuse or
\* panic, the watch goroutine and csLoop see the end of the context, csLoop and
\* scLoop that of the stream, and run goes on after its group.  It holds in
\* every state; the proofs take it as a hypothesis, for the provers cannot
\* compute ENABLED.
StepsEnabled ==
  gate = "up" =>
    /\ (forward = "called" /\ IsStopping(stopper)) \/ (forward = "made" /\ closed)
         => ENABLED <<ForwardRuns>>_vars
    /\ watch = "running" /\ cancelled => ENABLED <<WatchRuns>>_vars
    /\ (cs = "select" /\ cancelled) \/ (cs = "sending" /\ stream = "broken")
         => ENABLED <<CsRuns>>_vars
    /\ sc = "pushing" \/ (sc = "recv" /\ stream = "broken") => ENABLED <<ScRuns>>_vars
    /\ (run = "wait" /\ watch = "exited" /\ cs = "exited" /\ sc = "exited")
         \/ run \in {"stop", "close", "onstop"} => ENABLED <<StopRuns>>_vars

------------------------------------------------------------------------------
(* Properties. *)

\* The control points.
ControlType ==
  /\ forward \in {"idle", "called", "made", "refused", "panicked"}
  /\ watch \in {"running", "exited"} /\ cs \in {"select", "sending", "exited"}
  /\ sc \in {"recv", "pushing", "exited"} /\ stream \in {"open", "broken"}
  /\ run \in {"wait", "stop", "close", "onstop", "done"} /\ gate \in {"up", "down"}

\* The packets, the messages and where they are; csChan never holds more than
\* its capacity.
MessageType ==
  /\ packets \in 0..MaxPackets /\ pool \in SUBSET Objects
  /\ content \in [Objects -> 0..MaxPackets]
  /\ held \in Seq(Objects) /\ csChan \in Seq(Objects) /\ inHand \in Seq(Objects)
  /\ Len(csChan) <= ChanSize
  /\ sent \in Seq(0..MaxPackets) /\ accepted \in Seq(0..MaxPackets)

FlagType ==
  closed \in BOOLEAN /\ cancelled \in BOOLEAN /\ parentDone \in BOOLEAN

TypeOK == ControlType /\ MessageType /\ FlagType /\ stopper \in StopperType

\* The packets that entered the channel reach the backend in their order, each
\* once and with its own content, although their messages come from a pool and
\* go back to it: while csLoop lives they are those sent, the one in hand and
\* those queued.
PacketsInOrder ==
  /\ cs # "exited" => accepted = sent \o Contents(inHand) \o Contents(csChan)
  /\ sent = SubSeq(accepted, 1, Len(sent))

\* A message is in one place at a time: the pool, the read loop, csChan or
\* csLoop, and at most once in csChan.
OneOwner ==
  LET used == held \o csChan \o inHand
  IN  /\ \A i, j \in DOMAIN used : i # j => used[i] # used[j]
      /\ \A i \in DOMAIN used : used[i] \notin pool

\* csChan is closed, and the stream closed for sending, only when csLoop has
\* returned: it never receives the nil of a closed channel, and never sends
\* after CloseSend.
LoopsEndBeforeClose ==
  closed => watch = "exited" /\ cs = "exited" /\ sc = "exited"

\* A tunnel whose stream has ended winds down completely, whatever its read
\* loop and its backend do.
TunnelWindsDown == stream = "broken" ~> run = "done" \/ gate = "down"

\* The worker's read loop is not held for good in a Forward to a tunnel whose
\* stream has ended, even if it was blocked on a full csChan.
ForwardReturns ==
  (stream = "broken" /\ forward \in {"called", "made"})
    ~> (forward \notin {"called", "made"} \/ gate = "down")

Life == INSTANCE TunnelLife WITH
  life <- CASE run = "wait" -> "live" [] run = "stop" -> "ended"
            [] run = "close" -> "stopping" [] OTHER -> "closed",
  forward <- CASE forward = "idle" -> "idle" [] forward \in {"called", "made"} -> "busy"
               [] OTHER -> "failed"

\* The tunnel behaves as Worker takes it to.
ImplementsLife == Life!Spec

\* tunnel.go:151: when a message of the backend cannot be pushed, "push failed"
\* is logged and the loop goes on; the gate stays up.
BackendMessageKeepsGateUp == gate = "up"
==============================================================================
