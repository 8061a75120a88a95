------------------------------- MODULE Worker --------------------------------
(***************************************************************************)
(* One client connection of the TCP server: the serve goroutine            *)
(* (Server.work), the four goroutines of Worker.Run, the reply channel     *)
(* with the goroutines that push into it, the tunnels the worker holds and *)
(* the countdown that ends the worker after its main tunnel.               *)
(*                                                                         *)
(* serve is the control point of Server.work; its two defers run           *)
(* buckets.Del first ("del"), then Worker.Stop ("stop" .. "release").      *)
(* group gives the control point of each goroutine of Worker.Run.          *)
(* A pushed pack is named by the goroutine that pushes it.  A tunnel is    *)
(* seen from the worker only, by the life cycle of TunnelLife: "live"      *)
(* while its group runs, "ended" once OnGroupStop has returned, "stopping" *)
(* once its DoStop has begun, "closed" once it takes no packet any more.   *)
(* OnConnected and OnDisconnect only log in this service and are left out; *)
(* SetDeadline cannot fail on a connection that nobody has closed.         *)
(***************************************************************************)
EXTENDS Integers, Sequences, Stopper, WorkerLife

CONSTANTS
  Pushers,        \* goroutines that each push one pack to the user
  Keys,           \* tunnel keys: (tunnel type, object id)
  PlayerKeys,     \* the keys of type PlayerTunnelType
  ReplyChanSize,  \* capacity of replyChan
  MaxInbox        \* bound: packets of the client not yet read

ASSUME KeysAssumption == PlayerKeys \subseteq Keys
ASSUME SizesAssumption == ReplyChanSize \in Nat \ {0} /\ MaxInbox \in Nat \ {0}

VARIABLES
  serve,          \* control point of Server.work
  group,          \* control points of the goroutines of Worker.Run
  cancelled,      \* the context of the group is done
  stopper,        \* the worker's Stoppable
  expired,        \* the countdown's ExpiryTime is set, and has passed
  reopened,       \* history: a player tunnel was opened after the tick had looked
  tunnels,        \* tunnelHolder.tunnelGroups
  target,         \* the tunnel the read loop is forwarding to, if any
  inbox,          \* packets on their way from the client
  peerGone,       \* the client has closed its side
  late,           \* the connection's deadline has passed
  replyChan,      \* the reply channel's contents
  replyClosed,    \* replyChan is closed
  writeStarted,   \* replyChanStarted
  writeCompleted, \* replyChanCompleted is closed
  inHand,         \* the pack the write loop is writing, if any
  wire,           \* the packs written to the connection
  accepted,       \* history: the packs that entered replyChan, in order
  push,           \* control points of the pushing goroutines
  registered,     \* the worker is in its bucket
  seen,           \* the worker has been in its bucket, where others could find it
  released        \* reader buffer freed and connection closed

runVars    == <<serve, group, cancelled, stopper>>
tunnelVars == <<expired, reopened, tunnels, target>>
connVars   == <<inbox, peerGone, late>>
writeVars  == <<writeStarted, writeCompleted, inHand, wire>>
chanVars   == <<replyChan, replyClosed, accepted>>
pushVars   == <<push, registered, seen>>
vars == <<runVars, tunnelVars, connVars, writeVars, chanVars, pushVars, released>>

Loops       == {"watch", "write", "read", "tick"}
LoopStates  == {"none", "running", "ranging", "writing", "reading", "forwarding",
                "firing", "exited"}
ServePoints == {"start", "put", "connect", "run", "wait", "del", "stop",
                "close", "await", "release", "leave", "done"}
PushPoints  == {"idle", "found", "checked", "accepted", "refused", "panicked"}

Init ==
  /\ serve = "start" /\ group = [l \in Loops |-> "none"]
  /\ cancelled = FALSE /\ stopper = NewStopper
  /\ expired = FALSE /\ reopened = FALSE /\ tunnels = [k \in Keys |-> "none"] /\ target = {}
  /\ inbox = 0 /\ peerGone = FALSE /\ late = FALSE
  /\ replyChan = <<>> /\ replyClosed = FALSE /\ accepted = <<>>
  /\ writeStarted = FALSE /\ writeCompleted = FALSE /\ inHand = <<>> /\ wire = <<>>
  /\ push = [p \in Pushers |-> "idle"] /\ registered = FALSE /\ seen = FALSE
  /\ released = FALSE

At(l, s)   == group[l] = s
Goto(l, s) == group' = [group EXCEPT ![l] = s]
Quiet      == \A l \in Loops : group[l] \in {"none", "exited"}

------------------------------------------------------------------------------
(* The serve goroutine: Server.work. *)

\* The handshake packet is read, accepted by Auth and answered.
StartSucceeds ==
  /\ serve = "start" /\ inbox > 0 /\ ~late
  /\ serve' = "put" /\ inbox' = inbox - 1
  /\ UNCHANGED <<group, cancelled, stopper, tunnelVars, peerGone, late,
                 writeVars, chanVars, pushVars, released>>

\* Mutant: no deadline is set for the handshake.
StartFailsNoDeadline ==
  /\ serve = "start" /\ (inbox > 0 \/ peerGone)
  /\ serve' = "stop"
  /\ UNCHANGED <<group, cancelled, stopper, tunnelVars, connVars, writeVars,
                 chanVars, pushVars, released>>

\* Mutant: Start fails before Stop is deferred.
StartFailsUnstopped ==
  /\ serve = "start" /\ (inbox > 0 \/ late \/ peerGone)
  /\ serve' = "leave"
  /\ UNCHANGED <<group, cancelled, stopper, tunnelVars, connVars, writeVars,
                 chanVars, pushVars, released>>

\* No handshake packet within HandshakeTimeout, a closed connection, or a
\* packet that Auth refuses.
StartFails ==
  /\ serve = "start" /\ (inbox > 0 \/ late \/ peerGone)
  /\ serve' = "stop"
  /\ UNCHANGED <<group, cancelled, stopper, tunnelVars, connVars, writeVars,
                 chanVars, pushVars, released>>

PutBucket ==
  /\ serve = "put"
  /\ serve' = "connect" /\ registered' = TRUE /\ seen' = TRUE
  /\ UNCHANGED <<group, cancelled, stopper, tunnelVars, connVars, writeVars,
                 chanVars, push, released>>

\* afterConnectFunc succeeds, or fails and leaves by the two defers.
AfterConnect ==
  /\ serve = "connect"
  /\ serve' \in {"run", "del"}
  /\ UNCHANGED <<group, cancelled, stopper, tunnelVars, connVars, writeVars,
                 chanVars, pushVars, released>>

Run ==
  /\ serve = "run"
  /\ serve' = "wait" /\ group' = [l \in Loops |-> "running"]
  /\ UNCHANGED <<cancelled, stopper, tunnelVars, connVars, writeVars, chanVars,
                 pushVars, released>>

\* Mutant: Run returns on the first error and does not wait for the group.
RunReturnsEarly ==
  /\ serve = "wait" /\ cancelled
  /\ serve' = "del"
  /\ UNCHANGED <<group, cancelled, stopper, tunnelVars, connVars, writeVars,
                 chanVars, pushVars, released>>

\* eg.Wait returns when the four goroutines have; it cancels the context.
RunReturns ==
  /\ serve = "wait" /\ \A l \in Loops : At(l, "exited")
  /\ serve' = "del" /\ cancelled' = TRUE
  /\ UNCHANGED <<group, stopper, tunnelVars, connVars, writeVars, chanVars,
                 pushVars, released>>

\* Mutant: the worker is not taken out of its bucket.
DelForgotten ==
  /\ serve = "del"
  /\ serve' = "stop"
  /\ UNCHANGED <<group, cancelled, stopper, tunnelVars, connVars, writeVars,
                 chanVars, pushVars, released>>

Del ==
  /\ serve = "del"
  /\ serve' = "stop" /\ registered' = FALSE
  /\ UNCHANGED <<group, cancelled, stopper, tunnelVars, connVars, writeVars,
                 chanVars, push, seen, released>>

BeginStop ==
  /\ serve = "stop"
  /\ serve' = "close" /\ stopper' = EnterDoStop(stopper)
  /\ UNCHANGED <<group, cancelled, tunnelVars, connVars, writeVars, chanVars,
                 pushVars, released>>

\* Mutant: the reply channel is never closed.
CloseReplyChanForgotten ==
  /\ serve = "close"
  /\ serve' = "await"
  /\ UNCHANGED <<group, cancelled, stopper, tunnelVars, connVars, writeVars,
                 chanVars, pushVars, released>>

CloseReplyChan ==
  /\ serve = "close"
  /\ serve' = "await" /\ replyClosed' = TRUE
  /\ UNCHANGED <<group, cancelled, stopper, tunnelVars, connVars, writeVars,
                 replyChan, accepted, pushVars, released>>

AwaitWriter ==
  /\ serve = "await" /\ (writeStarted => writeCompleted)
  /\ serve' = "release"
  /\ UNCHANGED <<group, cancelled, stopper, tunnelVars, connVars, writeVars,
                 chanVars, pushVars, released>>

\* reader.Close, tunnelHolder.stop and conn.Close.  The tunnels are asked to
\* stop; their contexts are done already.
Release ==
  /\ serve = "release"
  /\ serve' = "leave" /\ released' = TRUE /\ stopper' = LeaveDoStop(stopper)
  /\ UNCHANGED <<group, cancelled, tunnelVars, connVars, writeVars, chanVars, pushVars>>

\* afterDisconnectFunc, then the deferred cancel of Server.accept.
AfterDisconnect ==
  /\ serve = "leave"
  /\ serve' = "done" /\ cancelled' = TRUE
  /\ UNCHANGED <<group, stopper, tunnelVars, connVars, writeVars, chanVars,
                 pushVars, released>>

------------------------------------------------------------------------------
(* The goroutines of Worker.Run. *)

\* Mutant: a stop request is not watched for.
WatchExitsCancelled ==
  /\ At("watch", "running") /\ cancelled
  /\ Goto("watch", "exited")
  /\ UNCHANGED <<serve, cancelled, stopper, tunnelVars, connVars, writeVars, chanVars,
                 pushVars, released>>

\* The goroutine that turns a stop request into the end of the group.
WatchExits ==
  /\ At("watch", "running") /\ (stopper.triggered \/ cancelled)
  /\ Goto("watch", "exited") /\ cancelled' = TRUE
  /\ UNCHANGED <<serve, stopper, tunnelVars, connVars, writeVars, chanVars,
                 pushVars, released>>

\* tickStopSign finds the countdown expired ...
TickExpires ==
  /\ At("tick", "running") /\ expired
  /\ Goto("tick", "firing")
  /\ UNCHANGED <<serve, cancelled, stopper, tunnelVars, connVars, writeVars,
                 chanVars, pushVars, released>>

\* ... and stops the worker on what it has found: it does not look again.
TickFires ==
  /\ At("tick", "firing")
  /\ Goto("tick", "exited") /\ cancelled' = TRUE /\ stopper' = TriggerStop(stopper)
  /\ UNCHANGED <<serve, tunnelVars, connVars, writeVars, chanVars, pushVars, released>>

TickCancelled ==
  /\ At("tick", "running") /\ cancelled
  /\ Goto("tick", "exited")
  /\ UNCHANGED <<serve, cancelled, stopper, tunnelVars, connVars, writeVars,
                 chanVars, pushVars, released>>

WriteStart ==
  /\ At("write", "running")
  /\ Goto("write", "ranging") /\ writeStarted' = TRUE
  /\ UNCHANGED <<serve, cancelled, stopper, tunnelVars, connVars, writeCompleted,
                 inHand, wire, chanVars, pushVars, released>>

\* range replyChan: receives also what was left when the channel was closed.
WriteTake ==
  /\ At("write", "ranging") /\ replyChan # <<>>
  /\ Goto("write", "writing")
  /\ inHand' = <<Head(replyChan)>> /\ replyChan' = Tail(replyChan)
  /\ UNCHANGED <<serve, cancelled, stopper, tunnelVars, connVars, writeStarted,
                 writeCompleted, wire, replyClosed, accepted, pushVars, released>>

\* Mutant: a pack whose write fails is queued again and the loop goes on.
WritePackRequeues ==
  /\ At("write", "writing") /\ (late => Len(replyChan) < ReplyChanSize)
  /\ Goto("write", "ranging") /\ inHand' = <<>>
  /\ wire' = (IF late THEN wire ELSE wire \o inHand)
  /\ replyChan' = (IF late THEN replyChan \o inHand ELSE replyChan)
  /\ UNCHANGED <<serve, cancelled, stopper, tunnelVars, connVars, writeStarted,
                 writeCompleted, replyClosed, accepted, pushVars, released>>

\* conn.Write succeeds until the deadline, for a while even after the client
\* has gone.  It waits for a client that does not read.
WritePack ==
  /\ At("write", "writing") /\ ~late
  /\ Goto("write", "ranging")
  /\ wire' = wire \o inHand /\ inHand' = <<>>
  /\ UNCHANGED <<serve, cancelled, stopper, tunnelVars, connVars, writeStarted,
                 writeCompleted, chanVars, pushVars, released>>

\* The write filter or the encryption returns an error, or the connection
\* fails, as it does once the deadline has passed.
WriteFails == At("write", "writing")
Drained    == At("write", "ranging") /\ replyChan = <<>> /\ replyClosed

\* Mutant: the deferred close(replyChanCompleted) is missing.
WriteExitsSilently ==
  /\ WriteFails \/ Drained
  /\ Goto("write", "exited") /\ cancelled' = (cancelled \/ WriteFails) /\ inHand' = <<>>
  /\ UNCHANGED <<serve, stopper, tunnelVars, connVars, writeStarted, writeCompleted,
                 wire, chanVars, pushVars, released>>

\* The write loop ends on a failed write or on the closed channel, and on
\* nothing else: it does not look at the context.
WriteExits ==
  /\ WriteFails \/ Drained
  /\ Goto("write", "exited") /\ cancelled' = (cancelled \/ WriteFails)
  /\ writeCompleted' = TRUE /\ inHand' = <<>>
  /\ UNCHANGED <<serve, stopper, tunnelVars, connVars, writeStarted, wire,
                 chanVars, pushVars, released>>

ReadQuits ==
  /\ At("read", "running") /\ (cancelled \/ IsStopping(stopper))
  /\ Goto("read", "exited")
  /\ UNCHANGED <<serve, cancelled, stopper, tunnelVars, connVars, writeVars,
                 chanVars, pushVars, released>>

ReadBlocks ==
  /\ At("read", "running") /\ ~cancelled /\ ~IsStopping(stopper)
  /\ Goto("read", "reading")
  /\ UNCHANGED <<serve, cancelled, stopper, tunnelVars, connVars, writeVars,
                 chanVars, pushVars, released>>

\* The connection fails or runs into its deadline, or the packet is refused:
\* its length, its encryption, its index, its data, or no tunnel for it.
ReadFails ==
  /\ At("read", "reading") /\ (inbox > 0 \/ late \/ peerGone)
  /\ Goto("read", "exited") /\ cancelled' = TRUE
  /\ UNCHANGED <<serve, stopper, tunnelVars, connVars, writeVars, chanVars,
                 pushVars, released>>

\* tunnelHolder.tunnel refuses a tunnel that is stopping.
Usable(k) == tunnels[k] \in {"live", "ended"}

\* tunnelHolder.createTunnel takes the place of a tunnel that is not usable.
Opened(k) == IF Usable(k) THEN tunnels ELSE [tunnels EXCEPT ![k] = "live"]

\* Creating a player tunnel resets the worker's countdown.
Resets(k) == k \in PlayerKeys /\ ~Usable(k)

\* Mutant: a new player tunnel does not reset the countdown.
ReadPackNoReset(k) ==
  /\ At("read", "reading") /\ inbox > 0 /\ ~late
  /\ Goto("read", "forwarding") /\ inbox' = inbox - 1 /\ target' = {k}
  /\ tunnels' = Opened(k) /\ reopened' = (reopened \/ (Resets(k) /\ At("tick", "firing")))
  /\ UNCHANGED <<serve, cancelled, stopper, expired, peerGone, late, writeVars,
                 chanVars, pushVars, released>>

\* Mutant: every packet for a player tunnel resets the countdown.
ReadPackResetsAlways(k) ==
  /\ At("read", "reading") /\ inbox > 0 /\ ~late
  /\ Goto("read", "forwarding") /\ inbox' = inbox - 1 /\ target' = {k}
  /\ tunnels' = Opened(k) /\ reopened' = (reopened \/ (Resets(k) /\ At("tick", "firing")))
  /\ expired' = (expired /\ k \notin PlayerKeys)
  /\ UNCHANGED <<serve, cancelled, stopper, peerGone, late, writeVars, chanVars,
                 pushVars, released>>

\* A packet for tunnel k is read and its tunnel found or created.
ReadPack(k) ==
  /\ At("read", "reading") /\ inbox > 0 /\ ~late
  /\ Goto("read", "forwarding") /\ inbox' = inbox - 1 /\ target' = {k}
  /\ tunnels' = Opened(k) /\ reopened' = (reopened \/ (Resets(k) /\ At("tick", "firing")))
  /\ expired' = (expired /\ ~Resets(k))
  /\ UNCHANGED <<serve, cancelled, stopper, peerGone, late, writeVars, chanVars,
                 pushVars, released>>

\* The tunnel takes the packet; the deadline is extended.
ForwardSucceeds ==
  /\ At("read", "forwarding") /\ \A k \in target : tunnels[k] # "closed"
  /\ Goto("read", "running") /\ target' = {} /\ late' = FALSE
  /\ UNCHANGED <<serve, cancelled, stopper, expired, reopened, tunnels, inbox,
                 peerGone, writeVars, chanVars, pushVars, released>>

\* The tunnel stopped in the meantime: Forward returns ErrTunnelStopped, or
\* panics on the closed channel and the recovery middleware returns an error.
ForwardFails ==
  /\ At("read", "forwarding") /\ \E k \in target : ~Usable(k)
  /\ Goto("read", "exited") /\ target' = {} /\ cancelled' = TRUE
  /\ UNCHANGED <<serve, stopper, expired, reopened, tunnels, connVars, writeVars,
                 chanVars, pushVars, released>>

------------------------------------------------------------------------------
(* The tunnels, as the worker sees them. *)

\* The tunnel's group has ended, and OnGroupStop of a player tunnel has set
\* the worker's ExpiryTime to now.
TunnelEnds(k) ==
  /\ tunnels[k] = "live"
  /\ tunnels' = [tunnels EXCEPT ![k] = "ended"]
  /\ expired' = (expired \/ k \in PlayerKeys)
  /\ UNCHANGED <<runVars, reopened, target, connVars, writeVars, chanVars, pushVars,
                 released>>

\* The deferred Tunnel.stop, after OnGroupStop.
TunnelStops(k) ==
  /\ tunnels[k] = "ended"
  /\ tunnels' = [tunnels EXCEPT ![k] = "stopping"]
  /\ UNCHANGED <<runVars, expired, reopened, target, connVars, writeVars, chanVars,
                 pushVars, released>>

\* The tunnel's csChan is closed.
TunnelCloses(k) ==
  /\ tunnels[k] = "stopping"
  /\ tunnels' = [tunnels EXCEPT ![k] = "closed"]
  /\ UNCHANGED <<runVars, expired, reopened, target, connVars, writeVars, chanVars,
                 pushVars, released>>

------------------------------------------------------------------------------
(* Goroutines that push to the user: Server.Push and its like. *)

PushFinds(p) ==
  /\ push[p] = "idle" /\ registered
  /\ push' = [push EXCEPT ![p] = "found"]
  /\ UNCHANGED <<runVars, tunnelVars, connVars, writeVars, chanVars, registered, seen, released>>

PushChecks(p) ==
  /\ push[p] = "found"
  /\ push' = [push EXCEPT ![p] = IF IsStopping(stopper) THEN "refused" ELSE "checked"]
  /\ UNCHANGED <<runVars, tunnelVars, connVars, writeVars, chanVars, registered, seen, released>>

\* The send blocks while the channel is full.
PushSends(p) ==
  /\ push[p] = "checked" /\ ~replyClosed /\ Len(replyChan) < ReplyChanSize
  /\ push' = [push EXCEPT ![p] = "accepted"]
  /\ replyChan' = Append(replyChan, p) /\ accepted' = Append(accepted, p)
  /\ UNCHANGED <<runVars, tunnelVars, connVars, writeVars, replyClosed, registered, seen, released>>

\* Sending on a closed channel panics, also for a sender that was blocked.
PushPanics(p) ==
  /\ push[p] = "checked" /\ replyClosed
  /\ push' = [push EXCEPT ![p] = "panicked"]
  /\ UNCHANGED <<runVars, tunnelVars, connVars, writeVars, chanVars, registered, seen, released>>

------------------------------------------------------------------------------
(* The client, the clock and the rest of the server. *)

ClientSends ==
  /\ ~peerGone /\ inbox < MaxInbox /\ ~released
  /\ inbox' = inbox + 1
  /\ UNCHANGED <<runVars, tunnelVars, peerGone, late, writeVars, chanVars, pushVars, released>>

ClientLeaves ==
  /\ ~peerGone /\ peerGone' = TRUE
  /\ UNCHANGED <<runVars, tunnelVars, inbox, late, writeVars, chanVars, pushVars, released>>

DeadlinePasses ==
  /\ ~late /\ ~released
  /\ late' = TRUE
  /\ UNCHANGED <<runVars, tunnelVars, inbox, peerGone, writeVars, chanVars, pushVars, released>>

\* Server.Disconnect and Server.stop ask a worker to stop that they have found
\* in its bucket, perhaps a while ago.
StopRequested ==
  /\ seen /\ ~stopper.triggered
  /\ stopper' = TriggerStop(stopper)
  /\ UNCHANGED <<serve, group, cancelled, tunnelVars, connVars, writeVars,
                 chanVars, pushVars, released>>

\* The context given to Server.Start is done.
ServerCancels ==
  /\ ~cancelled /\ cancelled' = TRUE
  /\ UNCHANGED <<serve, group, stopper, tunnelVars, connVars, writeVars,
                 chanVars, pushVars, released>>

------------------------------------------------------------------------------
ServeStep ==
  \/ StartSucceeds \/ StartFails \/ PutBucket \/ AfterConnect \/ Run \/ RunReturns
  \/ Del \/ BeginStop \/ CloseReplyChan \/ AwaitWriter \/ Release \/ AfterDisconnect
TickStep  == TickExpires \/ TickFires \/ TickCancelled
WriteStep == WriteStart \/ WriteTake \/ WritePack \/ WriteExits
ReadStep  == ReadQuits \/ ReadBlocks \/ ReadFails \/ ForwardFails \/ \E k \in Keys : ReadPack(k)
TunnelStep(k) == TunnelEnds(k) \/ TunnelStops(k) \/ TunnelCloses(k)
PushStep(p) == PushChecks(p) \/ PushSends(p) \/ PushPanics(p)

Next ==
  \/ ServeStep \/ WatchExits \/ TickStep \/ WriteStep \/ ReadStep \/ ForwardSucceeds
  \/ \E k \in Keys : TunnelStep(k)
  \/ \E p \in Pushers : PushFinds(p) \/ PushStep(p)
  \/ ClientSends \/ ClientLeaves \/ DeadlinePasses \/ StopRequested \/ ServerCancels

Spec == Init /\ [][Next]_vars

\* The tunnel that the read loop is forwarding to ends once the context its
\* stream was opened with is done.
TunnelRuns ==
  \E k \in target : (cancelled /\ TunnelEnds(k)) \/ TunnelStops(k) \/ TunnelCloses(k)

\* A deadline that nothing extends passes.
DeadlineRuns == (inbox = 0 \/ At("read", "exited")) /\ DeadlinePasses

\* What the write loop does without the client's help: conn.Write returns for
\* certain only when the deadline has passed.
WriterRuns == ((late \/ ~At("write", "writing")) /\ WriteExits) \/ WriteStart \/ WriteTake

\* Goroutines that can run do.  Nothing is assumed of the client, which need not
\* read what is written to it (WritePack), of a backend that does not take
\* packets (ForwardSucceeds), or of anyone's wish to push or to stop the worker.
Fairness ==
  /\ WF_vars(ServeStep) /\ WF_vars(WatchExits) /\ WF_vars(TickStep)
  /\ WF_vars(WriterRuns) /\ WF_vars(ReadStep)
  /\ WF_vars(TunnelRuns) /\ WF_vars(DeadlineRuns)
  /\ \A p \in Pushers : WF_vars(PushStep(p))

FairSpec == Spec /\ Fairness

\* When a goroutine that pushes can go on: the guards of PushStep.
PushEnabled(p) ==
  \/ push[p] = "found"
  \/ push[p] = "checked" /\ (replyClosed \/ Len(replyChan) < ReplyChanSize)
  => ENABLED <<PushStep(p)>>_vars

\* When these steps can be taken, as the guards say.  It holds in every state;
\* the proofs take it as a hypothesis, for the provers cannot compute ENABLED.
StepsEnabled ==
  /\ \/ serve = "start" /\ (inbox > 0 \/ late \/ peerGone)
     \/ serve = "wait" /\ \A l \in Loops : At(l, "exited")
     \/ serve \in {"put", "connect", "run", "del", "stop", "close", "release", "leave"}
     \/ serve = "await" /\ (writeStarted => writeCompleted)
     => ENABLED <<ServeStep>>_vars
  /\ At("watch", "running") /\ (stopper.triggered \/ cancelled) => ENABLED <<WatchExits>>_vars
  /\ At("tick", "firing") \/ (At("tick", "running") /\ cancelled) => ENABLED <<TickStep>>_vars
  /\ \/ At("write", "running")
     \/ At("write", "ranging") /\ replyChan # <<>>
     \/ At("write", "writing") /\ late
     => ENABLED <<WriterRuns>>_vars
  /\ \/ At("read", "running")
     \/ At("read", "reading") /\ (inbox > 0 \/ late \/ peerGone)
     \/ At("read", "forwarding") /\ \E k \in target : ~Usable(k)
     => ENABLED <<ReadStep>>_vars
  /\ cancelled /\ (\E k \in target : tunnels[k] \in {"live", "ended", "stopping"})
     => ENABLED <<TunnelRuns>>_vars
  /\ (inbox = 0 \/ At("read", "exited")) /\ ~late /\ ~released => ENABLED <<DeadlineRuns>>_vars

------------------------------------------------------------------------------
(* Properties. *)

\* The control points and what the worker holds.
ControlType ==
  /\ serve \in ServePoints /\ group \in [Loops -> LoopStates]
  /\ tunnels \in [Keys -> {"none", "live", "ended", "stopping", "closed"}]
  /\ target \in SUBSET Keys /\ inbox \in 0..MaxInbox
  /\ push \in [Pushers -> PushPoints]

\* The packs in the channel, never more than its capacity, and on their way.
PackType ==
  /\ replyChan \in Seq(Pushers) /\ Len(replyChan) <= ReplyChanSize
  /\ inHand \in Seq(Pushers) /\ wire \in Seq(Pushers) /\ accepted \in Seq(Pushers)

FlagType ==
  /\ cancelled \in BOOLEAN /\ expired \in BOOLEAN /\ reopened \in BOOLEAN /\ peerGone \in BOOLEAN
  /\ late \in BOOLEAN /\ replyClosed \in BOOLEAN /\ writeStarted \in BOOLEAN
  /\ writeCompleted \in BOOLEAN /\ registered \in BOOLEAN /\ seen \in BOOLEAN
  /\ released \in BOOLEAN

TypeOK == ControlType /\ PackType /\ FlagType /\ stopper \in StopperType

\* Worker.Stop closes the reply channel, frees the reader's buffer and closes
\* the connection only when no goroutine of Worker.Run is left that could use
\* them.
StopsQuietly == (replyClosed \/ released) => Quiet

\* While the write loop lives, the packs that entered the reply channel are
\* those written, the one being written and those queued, in this order: none
\* is lost, repeated or overtaken.
RepliesInOrder ==
  /\ ~At("write", "exited") => accepted = wire \o inHand \o replyChan
  /\ wire = SubSeq(accepted, 1, Len(wire))

Over(k) == tunnels[k] \in {"ended", "stopping", "closed"}

\* The tick stops a worker for a player tunnel that is over and was not opened
\* again.  The one exception is a tunnel opened after this tick has read the
\* expiry time: the reset comes too late for it, and for no other.
TickStopsForEndedTunnel == At("tick", "firing") => reopened \/ \E k \in PlayerKeys : Over(k)

\* The end of a player tunnel is not forgotten: when one is over and none is
\* live, the countdown is set, whatever packets came in between.
EndedTunnelCountsDown ==
  (\E k \in PlayerKeys : Over(k)) /\ (\A k \in PlayerKeys : tunnels[k] # "live") => expired

\* A worker that can be found in its bucket has not begun to stop: Del runs
\* before Stop.
FoundWorkerIsLive ==
  registered => stopper.phase = "live" /\ ~replyClosed /\ ~released

\* Server.work, as the server sees it.
stage ==
  CASE serve \in {"start", "put"} -> "start"
    [] serve \in {"connect", "run", "wait", "del"} -> "work"
    [] serve \in {"stop", "close", "await", "release"} -> "stop"
    [] OTHER -> "stopped"
life == [at |-> stage, listed |-> registered, seen |-> seen, asked |-> stopper.triggered]

\* The connection implements WorkerLife, by which Server models it: it is
\* listed once, leaves its bucket before it stops, and a stop request reaches
\* it at any stage without moving it.
ImplementsLife == life = NewLife /\ [][life' \in LifeSteps(life)]_life

\* A backend that takes no packets does not hold the read loop of a worker
\* that has been asked to stop: the end of the group's context ends the
\* tunnels, and a closed tunnel lets the read loop go.
StalledForwardEnds ==
  (stopper.triggered /\ At("read", "forwarding")) ~> ~At("read", "forwarding")

\* Once the write loop has ended, the whole connection is torn down.
WriterEndsWorker == At("write", "exited") ~> serve = "done"

\* A goroutine that waits on the full reply channel of a worker that is being
\* ended gets away, even when the client does not read and a write is waiting
\* for it: the read loop is gone, nothing extends the deadline any more, the
\* write fails, and Stop closes the channel.  Nothing of the kind holds while
\* the worker goes on: a client that sends and does not read holds them both.
PushReturns ==
  \A p \in Pushers : (cancelled /\ push[p] \in {"found", "checked"})
                       ~> push[p] \in {"accepted", "refused", "panicked"}

\* A client that stays silent does not hold its serve goroutine in the
\* handshake.
HandshakeEnds == serve = "start" ~> serve # "start"

\* player/tunnel.go:21: "if the player tunnel is closed, the worker will be
\* closed, and the client will be disconnected", unless it is opened again.
PlayerTunnelClosesWorker ==
  (\E k \in PlayerKeys : tunnels[k] = "ended")
    ~> (released \/ \E k \in PlayerKeys : tunnels[k] = "live")
==============================================================================
