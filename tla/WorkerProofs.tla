---------------------------- MODULE WorkerProofs -----------------------------
(***************************************************************************)
(* Proofs about Worker, for every number of pushing goroutines and tunnel  *)
(* keys, every channel capacity and both readings of IsStopping: what      *)
(* holds at every moment, that the worker lives as the server relies on,   *)
(* and that handshake, stalled Forward and worker come to an end.          *)
(***************************************************************************)
EXTENDS Worker, TLAPS

\* Where the serve goroutine is after Worker.Run, and within Worker.Stop.
AfterRun   == {"del", "stop", "close", "await", "release", "leave", "done"}
AfterBegin == {"close", "await", "release", "leave", "done"}
AfterClose == {"await", "release", "leave", "done"}

\* No goroutine of the group lives before Run has started it or after Run has
\* returned.
GroupInv ==
  /\ serve \in {"start", "put", "connect", "run"} => \A l \in Loops : group[l] = "none"
  /\ serve \in AfterRun => Quiet

\* Each effect of Put, Del and Stop has its place on the way of the serve
\* goroutine.
EffectInv ==
  /\ registered => serve \in {"connect", "run", "wait", "del"}
  /\ replyClosed <=> serve \in AfterClose
  /\ released => serve \in {"leave", "done"}

\* From Put to Del the worker is in its bucket.
ListedInv == serve \in {"connect", "run", "wait", "del"} => registered /\ seen

\* Only Stop leaves the live phase, after Del.
PhaseInv == stopper.phase # "live" => serve \in AfterBegin

\* RepliesInOrder, made inductive: the write loop holds a pack only while it
\* writes it, and has not written more than was accepted.
RepliesInv ==
  /\ group["write"] # "writing" => inHand = <<>>
  /\ group["write"] # "exited" => accepted = wire \o inHand \o replyChan
  /\ Len(wire) <= Len(accepted) /\ wire = SubSeq(accepted, 1, Len(wire))

USE DEF StopperType, StopPhases, Loops, LoopStates, ServePoints, PushPoints,
        runVars, tunnelVars, connVars, writeVars, chanVars, pushVars, Opened, Resets

------------------------------------------------------------------------------
(* Types.  The flags are kept apart: their steps are propositional. *)

\* Every step keeps the types of the control points.
LEMMA ControlTypeStep == ControlType /\ [Next]_vars => ControlType'
<1> SUFFICES ASSUME ControlType, [Next]_vars PROVE ControlType'
  OBVIOUS
<1> USE DEF ControlType, Goto
<1>1. CASE ServeStep
  BY <1>1, SizesAssumption DEF ServeStep, StartSucceeds, StartFails, PutBucket, AfterConnect, Run,
     RunReturns, Del, BeginStop, CloseReplyChan, AwaitWriter, Release, AfterDisconnect
<1>2. CASE WatchExits \/ TickStep
  <2>1. CASE WatchExits BY <2>1 DEF WatchExits
  <2>2. CASE TickExpires BY <2>2 DEF TickExpires
  <2>3. CASE TickFires BY <2>3 DEF TickFires
  <2>4. CASE TickCancelled BY <2>4 DEF TickCancelled
  <2> QED BY <1>2, <2>1, <2>2, <2>3, <2>4 DEF TickStep
<1>3. CASE WriteStep
  BY <1>3 DEF WriteStep, WriteStart, WriteTake, WritePack, WriteExits
<1>4. ASSUME NEW k \in Keys, ReadPack(k) PROVE ControlType'
  BY <1>4, SizesAssumption DEF ReadPack, Usable
<1>5. CASE ReadQuits \/ ReadBlocks \/ ReadFails \/ ForwardFails \/ ForwardSucceeds
  <2>1. CASE ReadQuits BY <2>1 DEF ReadQuits
  <2>2. CASE ReadBlocks BY <2>2 DEF ReadBlocks
  <2>3. CASE ReadFails BY <2>3 DEF ReadFails
  <2>4. CASE ForwardFails BY <2>4 DEF ForwardFails
  <2>5. CASE ForwardSucceeds BY <2>5 DEF ForwardSucceeds
  <2> QED BY <1>5, <2>1, <2>2, <2>3, <2>4, <2>5
<1>6. ASSUME NEW k \in Keys, TunnelStep(k) PROVE ControlType'
  BY <1>6 DEF TunnelStep, TunnelEnds, TunnelStops, TunnelCloses
<1>7. ASSUME NEW p \in Pushers, PushFinds(p) \/ PushStep(p) PROVE ControlType'
  BY <1>7 DEF PushFinds, PushStep, PushChecks, PushSends, PushPanics
<1>8. CASE ClientSends \/ ClientLeaves \/ DeadlinePasses \/ StopRequested \/ ServerCancels
  BY <1>8, SizesAssumption
     DEF ClientSends, ClientLeaves, DeadlinePasses, StopRequested, ServerCancels
<1>9. CASE UNCHANGED vars
  BY <1>9 DEF vars
<1> QED
  BY <1>1, <1>2, <1>3, <1>4, <1>5, <1>6, <1>7, <1>8, <1>9 DEF Next, ReadStep

\* Every step keeps the types of the packs and the channel's capacity.
LEMMA PackTypeStep == PackType /\ [Next]_vars => PackType'
<1> SUFFICES ASSUME PackType, [Next]_vars PROVE PackType'
  OBVIOUS
<1> USE DEF PackType
<1>1. CASE WriteTake
  BY <1>1, SizesAssumption DEF WriteTake
<1>2. CASE WriteStart \/ WritePack \/ WriteExits
  <2>1. CASE WriteStart BY <2>1 DEF WriteStart
  <2>2. CASE WritePack BY <2>2 DEF WritePack
  <2>3. CASE WriteExits BY <2>3 DEF WriteExits
  <2> QED BY <1>2, <2>1, <2>2, <2>3
<1>3. ASSUME NEW p \in Pushers, PushSends(p) PROVE PackType'
  BY <1>3, SizesAssumption DEF PushSends
<1>4. ASSUME NEW p \in Pushers, PushFinds(p) \/ PushChecks(p) \/ PushPanics(p)
      PROVE PackType'
  BY <1>4 DEF PushFinds, PushChecks, PushPanics
<1>5. CASE ServeStep
  BY <1>5 DEF ServeStep, StartSucceeds, StartFails, PutBucket, AfterConnect, Run,
     RunReturns, Del, BeginStop, CloseReplyChan, AwaitWriter, Release, AfterDisconnect
<1>6. CASE WatchExits \/ TickStep \/ ReadStep \/ ForwardSucceeds
  BY <1>6 DEF WatchExits, TickStep, TickExpires, TickFires, TickCancelled, ReadStep, ReadQuits,
     ReadBlocks, ReadFails, ReadPack, ForwardFails, ForwardSucceeds
<1>7. ASSUME NEW k \in Keys, TunnelStep(k) PROVE PackType'
  BY <1>7 DEF TunnelStep, TunnelEnds, TunnelStops, TunnelCloses
<1>8. CASE ClientSends \/ ClientLeaves \/ DeadlinePasses \/ StopRequested \/ ServerCancels
  BY <1>8 DEF ClientSends, ClientLeaves, DeadlinePasses, StopRequested, ServerCancels
<1>9. CASE UNCHANGED vars
  BY <1>9 DEF vars
<1> QED
  BY <1>1, <1>2, <1>3, <1>4, <1>5, <1>6, <1>7, <1>8, <1>9 DEF Next, WriteStep, PushStep

\* Every step keeps the flags Boolean.
LEMMA FlagTypeStep == FlagType /\ [Next]_vars => FlagType'
<1> SUFFICES ASSUME FlagType, [Next]_vars PROVE FlagType'
  OBVIOUS
<1> USE DEF FlagType
<1>1. CASE StartSucceeds \/ StartFails \/ AfterConnect \/ Run
  <2>1. CASE StartSucceeds BY <2>1 DEF StartSucceeds
  <2>2. CASE StartFails BY <2>2 DEF StartFails
  <2>3. CASE AfterConnect BY <2>3 DEF AfterConnect
  <2>4. CASE Run BY <2>4 DEF Run
  <2> QED BY <1>1, <2>1, <2>2, <2>3, <2>4
<1>2. CASE PutBucket \/ Del
  <2>1. CASE PutBucket BY <2>1 DEF PutBucket
  <2>2. CASE Del BY <2>2 DEF Del
  <2> QED BY <1>2, <2>1, <2>2
<1>3. CASE RunReturns \/ AfterDisconnect BY <1>3 DEF RunReturns, AfterDisconnect
<1>4. CASE BeginStop \/ AwaitWriter BY <1>4 DEF BeginStop, AwaitWriter
<1>5. CASE CloseReplyChan BY <1>5 DEF CloseReplyChan
<1>6. CASE Release BY <1>6 DEF Release
<1>7. CASE WatchExits BY <1>7 DEF WatchExits
<1>8. CASE TickStep
  <2>1. CASE TickExpires BY <2>1 DEF TickExpires
  <2>2. CASE TickFires BY <2>2 DEF TickFires
  <2>3. CASE TickCancelled BY <2>3 DEF TickCancelled
  <2> QED BY <1>8, <2>1, <2>2, <2>3 DEF TickStep
<1>9. CASE WriteStart BY <1>9 DEF WriteStart
<1>10. CASE WriteTake \/ WritePack BY <1>10 DEF WriteTake, WritePack
<1>11. CASE WriteExits BY <1>11 DEF WriteExits
<1>12. CASE ReadQuits \/ ReadBlocks
  <2>1. CASE ReadQuits BY <2>1 DEF ReadQuits
  <2>2. CASE ReadBlocks BY <2>2 DEF ReadBlocks
  <2> QED BY <1>12, <2>1, <2>2
<1>13. CASE ReadFails \/ ForwardFails
  <2>1. CASE ReadFails BY <2>1 DEF ReadFails
  <2>2. CASE ForwardFails BY <2>2 DEF ForwardFails
  <2> QED BY <1>13, <2>1, <2>2
<1>14. ASSUME NEW k \in Keys, ReadPack(k) PROVE FlagType'
  BY <1>14 DEF ReadPack
<1>15. CASE ForwardSucceeds BY <1>15 DEF ForwardSucceeds
<1>16. ASSUME NEW k \in Keys, TunnelStep(k) PROVE FlagType'
  <2>1. CASE TunnelEnds(k) BY <2>1 DEF TunnelEnds
  <2>2. CASE TunnelStops(k) \/ TunnelCloses(k) BY <2>2 DEF TunnelStops, TunnelCloses
  <2> QED BY <1>16, <2>1, <2>2 DEF TunnelStep
<1>17. ASSUME NEW p \in Pushers, PushFinds(p) \/ PushStep(p) PROVE FlagType'
  BY <1>17 DEF PushFinds, PushStep, PushChecks, PushSends, PushPanics
<1>18. CASE ClientSends \/ StopRequested BY <1>18 DEF ClientSends, StopRequested
<1>19. CASE ClientLeaves BY <1>19 DEF ClientLeaves
<1>20. CASE DeadlinePasses BY <1>20 DEF DeadlinePasses
<1>21. CASE ServerCancels BY <1>21 DEF ServerCancels
<1>22. CASE UNCHANGED vars BY <1>22 DEF vars
<1> QED
  BY <1>1, <1>2, <1>3, <1>4, <1>5, <1>6, <1>7, <1>8, <1>9, <1>10, <1>11, <1>12, <1>13,
     <1>14, <1>15, <1>16, <1>17, <1>18, <1>19, <1>20, <1>21, <1>22
     DEF Next, ServeStep, WriteStep, ReadStep

\* Every step keeps the stopper a stopper.
LEMMA StopperTypeStep ==
  stopper \in StopperType /\ [Next]_vars => stopper' \in StopperType
<1> SUFFICES ASSUME stopper \in StopperType, [Next]_vars PROVE stopper' \in StopperType
  OBVIOUS
<1>1. CASE ServeStep
  BY <1>1 DEF ServeStep, StartSucceeds, StartFails, PutBucket, AfterConnect, Run,
     RunReturns, Del, BeginStop, CloseReplyChan, AwaitWriter, Release, AfterDisconnect,
     EnterDoStop, LeaveDoStop
<1>2. CASE TickFires \/ StopRequested
  BY <1>2 DEF TickFires, StopRequested, TriggerStop
<1>3. CASE WatchExits \/ TickExpires \/ TickCancelled \/ WriteStep \/ ReadStep
           \/ ForwardSucceeds
  BY <1>3 DEF WatchExits, TickExpires, TickCancelled, WriteStep, WriteStart, WriteTake, WritePack,
     WriteExits, ReadStep, ReadQuits, ReadBlocks, ReadFails, ReadPack, ForwardFails,
     ForwardSucceeds
<1>4. CASE UNCHANGED stopper BY <1>4
<1>5. ASSUME NEW k \in Keys, TunnelStep(k) PROVE UNCHANGED stopper
  BY <1>5 DEF TunnelStep, TunnelEnds, TunnelStops, TunnelCloses
<1>6. ASSUME NEW p \in Pushers, PushFinds(p) \/ PushStep(p) PROVE UNCHANGED stopper
  BY <1>6 DEF PushFinds, PushStep, PushChecks, PushSends, PushPanics
<1>7. ClientSends \/ ClientLeaves \/ DeadlinePasses \/ ServerCancels \/ UNCHANGED vars
        => UNCHANGED stopper
  BY DEF ClientSends, ClientLeaves, DeadlinePasses, ServerCancels, vars
<1> QED
  BY <1>1, <1>2, <1>3, <1>4, <1>5, <1>6, <1>7 DEF Next, TickStep

\* Every variable keeps its type, and the reply channel its capacity, in every
\* step of the connection.
THEOREM TypeCorrect == Spec => []TypeOK
<1>1. Init => ControlType BY SizesAssumption DEF Init, ControlType
<1>2. Init => PackType BY SizesAssumption DEF Init, PackType
<1>3. Init => FlagType BY DEF Init, FlagType
<1>4. Init => stopper \in StopperType BY DEF Init, NewStopper
<1>5. Init => TypeOK BY <1>1, <1>2, <1>3, <1>4 DEF TypeOK
<1>6. TypeOK /\ [Next]_vars => TypeOK'
  BY ControlTypeStep, PackTypeStep, FlagTypeStep, StopperTypeStep DEF TypeOK
<1> QED
  BY <1>5, <1>6, PTL DEF Spec

------------------------------------------------------------------------------
(* Worker.Stop and the goroutines of Worker.Run. *)

\* Every step keeps GroupInv: the goroutines live only inside Worker.Run.
LEMMA GroupStep == ControlType /\ GroupInv /\ [Next]_vars => GroupInv'
<1> SUFFICES ASSUME ControlType, GroupInv, [Next]_vars PROVE GroupInv'
  OBVIOUS
<1> USE DEF ControlType, GroupInv, AfterRun, Quiet
<1>1. CASE StartSucceeds \/ StartFails \/ PutBucket \/ AfterConnect
  BY <1>1 DEF StartSucceeds, StartFails, PutBucket, AfterConnect
<1>2. CASE Run \/ RunReturns
  BY <1>2 DEF Run, RunReturns, At
<1>3. CASE Del \/ BeginStop \/ CloseReplyChan \/ AwaitWriter \/ Release \/ AfterDisconnect
  BY <1>3 DEF Del, BeginStop, CloseReplyChan, AwaitWriter, Release, AfterDisconnect
<1>4. ASSUME NEW l \in Loops, NEW s \in LoopStates,
             group[l] \notin {"none", "exited"}, serve' = serve, Goto(l, s)
      PROVE  GroupInv'
  BY <1>4 DEF Goto
<1>5. CASE WatchExits BY <1>4, <1>5 DEF WatchExits, At
<1>6. CASE TickExpires \/ TickFires BY <1>4, <1>6 DEF TickExpires, TickFires, At
<1>7. CASE TickCancelled BY <1>4, <1>7 DEF TickCancelled, At
<1>8. CASE WriteStart BY <1>4, <1>8 DEF WriteStart, At
<1>9. CASE WriteTake BY <1>4, <1>9 DEF WriteTake, At
<1>10. CASE WritePack BY <1>4, <1>10 DEF WritePack, At
<1>11. CASE WriteExits BY <1>4, <1>11 DEF WriteExits, WriteFails, Drained, At
<1>12. CASE ReadQuits BY <1>4, <1>12 DEF ReadQuits, At
<1>13. CASE ReadBlocks BY <1>4, <1>13 DEF ReadBlocks, At
<1>14. CASE ReadFails BY <1>4, <1>14 DEF ReadFails, At
<1>15. CASE ForwardFails BY <1>4, <1>15 DEF ForwardFails, At
<1>16. CASE ForwardSucceeds BY <1>4, <1>16 DEF ForwardSucceeds, At
<1>17. ASSUME NEW k \in Keys, ReadPack(k) PROVE GroupInv'
  BY <1>4, <1>17 DEF ReadPack, At
<1>18. CASE UNCHANGED <<serve, group>>
  BY <1>18
<1>19. ASSUME NEW k \in Keys, TunnelStep(k)
       PROVE  UNCHANGED <<serve, group>>
  BY <1>19 DEF TunnelStep, TunnelEnds, TunnelStops, TunnelCloses
<1>20. ASSUME NEW p \in Pushers, PushFinds(p) \/ PushStep(p)
       PROVE  UNCHANGED <<serve, group>>
  BY <1>20 DEF PushFinds, PushStep, PushChecks, PushSends, PushPanics
<1>21. ClientSends \/ ClientLeaves \/ DeadlinePasses \/ StopRequested \/ ServerCancels
         \/ UNCHANGED vars => UNCHANGED <<serve, group>>
  BY DEF ClientSends, ClientLeaves, DeadlinePasses, StopRequested, ServerCancels, vars
<1> QED
  BY <1>1, <1>2, <1>3, <1>5, <1>6, <1>7, <1>8, <1>9, <1>10, <1>11, <1>12, <1>13, <1>14,
     <1>15, <1>16, <1>17, <1>18, <1>19, <1>20, <1>21
     DEF Next, ServeStep, TickStep, WriteStep, ReadStep

\* Steps of the other goroutines leave the serve goroutine and its effects
\* alone.
LEMMA OnlyServeMoves ==
  [Next]_vars => ServeStep \/ UNCHANGED <<serve, registered, seen, replyClosed, released>>
<1> SUFFICES ASSUME [Next]_vars, ~ServeStep
             PROVE  UNCHANGED <<serve, registered, seen, replyClosed, released>>
  OBVIOUS
<1>1. CASE WatchExits \/ TickStep \/ WriteStep
  BY <1>1 DEF WatchExits, TickStep, TickExpires, TickFires, TickCancelled, WriteStep, WriteStart,
     WriteTake, WritePack, WriteExits
<1>2. CASE ReadStep \/ ForwardSucceeds
  BY <1>2 DEF ReadStep, ReadQuits, ReadBlocks, ReadFails, ReadPack, ForwardFails,
     ForwardSucceeds
<1>3. ASSUME NEW k \in Keys, TunnelStep(k)
      PROVE  UNCHANGED <<serve, registered, seen, replyClosed, released>>
  BY <1>3 DEF TunnelStep, TunnelEnds, TunnelStops, TunnelCloses
<1>4. ASSUME NEW p \in Pushers, PushFinds(p) \/ PushStep(p)
      PROVE  UNCHANGED <<serve, registered, seen, replyClosed, released>>
  BY <1>4 DEF PushFinds, PushStep, PushChecks, PushSends, PushPanics
<1>5. CASE ClientSends \/ ClientLeaves \/ DeadlinePasses \/ StopRequested \/ ServerCancels
  BY <1>5 DEF ClientSends, ClientLeaves, DeadlinePasses, StopRequested, ServerCancels
<1>6. CASE UNCHANGED vars
  BY <1>6 DEF vars
<1> QED
  BY <1>1, <1>2, <1>3, <1>4, <1>5, <1>6 DEF Next

\* Every step keeps EffectInv: Stop's effects come at its control points.
LEMMA EffectStep == EffectInv /\ [Next]_vars => EffectInv'
<1> SUFFICES ASSUME EffectInv, [Next]_vars PROVE EffectInv'
  OBVIOUS
<1> USE DEF EffectInv, AfterClose
<1>1. CASE StartSucceeds \/ StartFails BY <1>1 DEF StartSucceeds, StartFails
<1>2. CASE PutBucket BY <1>2 DEF PutBucket
<1>3. CASE AfterConnect \/ Run BY <1>3 DEF AfterConnect, Run
<1>4. CASE RunReturns BY <1>4 DEF RunReturns
<1>5. CASE Del BY <1>5 DEF Del
<1>6. CASE BeginStop BY <1>6 DEF BeginStop
<1>7. CASE CloseReplyChan BY <1>7 DEF CloseReplyChan
<1>8. CASE AwaitWriter BY <1>8 DEF AwaitWriter
<1>9. CASE Release BY <1>9 DEF Release
<1>10. CASE AfterDisconnect BY <1>10 DEF AfterDisconnect
<1>11. CASE UNCHANGED <<serve, registered, seen, replyClosed, released>> BY <1>11
<1> QED
  BY OnlyServeMoves, <1>1, <1>2, <1>3, <1>4, <1>5, <1>6, <1>7, <1>8, <1>9, <1>10, <1>11
     DEF ServeStep

\* In every reachable state in which Worker.Stop has closed the reply channel
\* or released the reader and the connection, no goroutine of Worker.Run is
\* left: Stop follows eg.Wait.
THEOREM StopIsQuiet == Spec => []StopsQuietly
<1>1. Init => GroupInv /\ EffectInv
  BY DEF Init, GroupInv, EffectInv, AfterRun, AfterClose, Quiet
<1>2. TypeOK /\ GroupInv /\ EffectInv /\ [Next]_vars => GroupInv' /\ EffectInv'
  BY GroupStep, EffectStep DEF TypeOK
<1>3. GroupInv /\ EffectInv => StopsQuietly
  BY DEF GroupInv, EffectInv, StopsQuietly, AfterRun, AfterClose
<1> QED
  BY TypeCorrect, <1>1, <1>2, <1>3, PTL DEF Spec

------------------------------------------------------------------------------
(* Lookup and stop. *)

\* Every step keeps PhaseInv: a registered worker has not begun to stop.
LEMMA PhaseStep ==
  stopper \in StopperType /\ PhaseInv /\ [Next]_vars => PhaseInv'
<1> SUFFICES ASSUME stopper \in StopperType, PhaseInv, [Next]_vars PROVE PhaseInv'
  OBVIOUS
<1> USE DEF PhaseInv, AfterBegin
<1>1. CASE ServeStep
  BY <1>1 DEF ServeStep, StartSucceeds, StartFails, PutBucket, AfterConnect, Run,
     RunReturns, Del, BeginStop, CloseReplyChan, AwaitWriter, Release, AfterDisconnect,
     EnterDoStop, LeaveDoStop
<1>2. ASSUME serve' = serve, stopper' \in {stopper, TriggerStop(stopper)} PROVE PhaseInv'
  BY <1>2 DEF TriggerStop
<1>3. WatchExits \/ TickStep \/ WriteStep => stopper' \in {stopper, TriggerStop(stopper)}
  BY DEF WatchExits, TickStep, TickExpires, TickFires, TickCancelled, WriteStep, WriteStart,
     WriteTake, WritePack, WriteExits
<1>4. ReadStep \/ ForwardSucceeds => stopper' = stopper
  BY DEF ReadStep, ReadQuits, ReadBlocks, ReadFails, ReadPack, ForwardFails,
     ForwardSucceeds
<1>5. ASSUME NEW k \in Keys, TunnelStep(k) PROVE stopper' = stopper
  BY <1>5 DEF TunnelStep, TunnelEnds, TunnelStops, TunnelCloses
<1>6. ASSUME NEW p \in Pushers, PushFinds(p) \/ PushStep(p) PROVE stopper' = stopper
  BY <1>6 DEF PushFinds, PushStep, PushChecks, PushSends, PushPanics
<1>7. ClientSends \/ ClientLeaves \/ DeadlinePasses \/ StopRequested \/ ServerCancels
        \/ UNCHANGED vars => stopper' \in {stopper, TriggerStop(stopper)}
  BY DEF ClientSends, ClientLeaves, DeadlinePasses, StopRequested, ServerCancels, vars
<1>8. ServeStep \/ serve' = serve
  BY OnlyServeMoves
<1> QED
  BY <1>1, <1>2, <1>3, <1>4, <1>5, <1>6, <1>7, <1>8 DEF Next

\* A worker found in its bucket is never one that has begun to stop, for the
\* defers of Server.work run Del before Stop.
THEOREM FoundIsLive == Spec => []FoundWorkerIsLive
<1>1. Init => EffectInv /\ PhaseInv
  BY DEF Init, EffectInv, PhaseInv, NewStopper, AfterClose
<1>2. TypeOK /\ EffectInv /\ PhaseInv /\ [Next]_vars => EffectInv' /\ PhaseInv'
  BY EffectStep, PhaseStep DEF TypeOK
<1>3. EffectInv /\ PhaseInv => FoundWorkerIsLive
  BY DEF EffectInv, PhaseInv, FoundWorkerIsLive, AfterClose, AfterBegin
<1> QED
  BY TypeCorrect, <1>1, <1>2, <1>3, PTL DEF Spec

------------------------------------------------------------------------------
(* The countdown of the main tunnel. *)

\* What the steps other than those of the tick do to the countdown and to the
\* player tunnels: opening one resets, its end sets.
LEMMA CountdownMoves ==
  ASSUME ControlType, [Next]_vars
  PROVE  \/ UNCHANGED <<expired, tunnels>> /\ (At("tick", "firing")' => At("tick", "firing"))
            /\ UNCHANGED reopened
         \/ UNCHANGED <<expired, tunnels, reopened>> /\ expired
         \/ \E k \in Keys : ReadPack(k) \/ TunnelStep(k)
<1> USE DEF ControlType, Goto, At
<1>1. CASE ServeStep
  BY <1>1 DEF ServeStep, StartSucceeds, StartFails, PutBucket, AfterConnect, Run,
     RunReturns, Del, BeginStop, CloseReplyChan, AwaitWriter, Release, AfterDisconnect
<1>2. CASE WatchExits BY <1>2 DEF WatchExits
<1>3. CASE TickExpires BY <1>3 DEF TickExpires
<1>4. CASE TickFires \/ TickCancelled BY <1>4 DEF TickFires, TickCancelled
<1>5. CASE WriteStep
  BY <1>5 DEF WriteStep, WriteStart, WriteTake, WritePack, WriteExits
<1>6. CASE ReadQuits \/ ReadBlocks \/ ReadFails \/ ForwardFails \/ ForwardSucceeds
  BY <1>6 DEF ReadQuits, ReadBlocks, ReadFails, ForwardFails, ForwardSucceeds
<1>7. ASSUME NEW p \in Pushers, PushFinds(p) \/ PushStep(p)
      PROVE  UNCHANGED <<expired, tunnels, reopened, group>>
  BY <1>7 DEF PushFinds, PushStep, PushChecks, PushSends, PushPanics
<1>8. ClientSends \/ ClientLeaves \/ DeadlinePasses \/ StopRequested \/ ServerCancels
        \/ UNCHANGED vars => UNCHANGED <<expired, tunnels, reopened, group>>
  BY DEF ClientSends, ClientLeaves, DeadlinePasses, StopRequested, ServerCancels, vars
<1> QED
  BY <1>1, <1>2, <1>3, <1>4, <1>5, <1>6, <1>7, <1>8 DEF Next, TickStep, ReadStep

\* The countdown is set only for a tunnel that is over.
SetInv == expired => \E k \in PlayerKeys : Over(k)

\* A tick that stops the worker does so for a player tunnel that is over, or
\* against one that was opened after this tick had read the expiry time.
\* OnGroupStop sets the time before the tunnel reports that it stops, and only
\* then can a successor be created, which resets it.
THEOREM TickIsJustified == Spec => []TickStopsForEndedTunnel
<1>1. Init => SetInv /\ TickStopsForEndedTunnel
  BY DEF Init, SetInv, TickStopsForEndedTunnel, At
<1>2. TypeOK /\ SetInv /\ TickStopsForEndedTunnel /\ [Next]_vars
        => SetInv' /\ TickStopsForEndedTunnel'
  <2> SUFFICES ASSUME ControlType, SetInv, TickStopsForEndedTunnel, [Next]_vars
               PROVE  SetInv' /\ TickStopsForEndedTunnel'
    BY DEF TypeOK
  <2> USE KeysAssumption DEF ControlType, SetInv, TickStopsForEndedTunnel, Over
  <2>1. ASSUME NEW k \in Keys, ReadPack(k) PROVE SetInv' /\ TickStopsForEndedTunnel'
    <3>1. group'["tick"] = group["tick"]
      BY <2>1 DEF ReadPack, Goto
    <3>2. CASE Resets(k)
      BY <2>1, <3>1, <3>2 DEF ReadPack, Usable, At
    <3>3. CASE ~Resets(k)
      <4>1. \A j \in PlayerKeys : tunnels'[j] = tunnels[j]
        BY <2>1, <3>3 DEF ReadPack, Usable
      <4> QED
        BY <2>1, <3>1, <3>3, <4>1 DEF ReadPack, At
    <3> QED
      BY <3>2, <3>3
  <2>2. ASSUME NEW k \in Keys, TunnelStep(k) PROVE SetInv' /\ TickStopsForEndedTunnel'
    <3>1. UNCHANGED <<group, reopened>> /\ \A j \in PlayerKeys : Over(j) => Over(j)'
      BY <2>2 DEF TunnelStep, TunnelEnds, TunnelStops, TunnelCloses
    <3>2. expired' => expired \/ \E j \in PlayerKeys : Over(j)'
      BY <2>2 DEF TunnelStep, TunnelEnds, TunnelStops, TunnelCloses
    <3> HIDE DEF Over
    <3> QED
      BY <3>1, <3>2 DEF At
  <2> QED
    BY <2>1, <2>2, CountdownMoves DEF At
<1> QED
  BY TypeCorrect, <1>1, <1>2, PTL DEF Spec

\* The end of a player tunnel is not forgotten: the countdown stays set until a
\* player tunnel is opened, and it is live then.
THEOREM EndIsRemembered == Spec => []EndedTunnelCountsDown
<1>1. Init => EndedTunnelCountsDown
  BY KeysAssumption DEF Init, EndedTunnelCountsDown, Over
<1>2. TypeOK /\ EndedTunnelCountsDown /\ [Next]_vars => EndedTunnelCountsDown'
  <2> SUFFICES ASSUME ControlType, EndedTunnelCountsDown, [Next]_vars
               PROVE  EndedTunnelCountsDown'
    BY DEF TypeOK
  <2> USE KeysAssumption DEF ControlType, EndedTunnelCountsDown, Over
  <2>1. ASSUME NEW k \in Keys, ReadPack(k) PROVE EndedTunnelCountsDown'
    BY <2>1 DEF ReadPack, Usable
  <2>2. ASSUME NEW k \in Keys, TunnelEnds(k) PROVE EndedTunnelCountsDown'
    BY <2>2 DEF TunnelEnds
  <2>3. ASSUME NEW k \in Keys, TunnelStops(k) \/ TunnelCloses(k)
        PROVE  EndedTunnelCountsDown'
    BY <2>3 DEF TunnelStops, TunnelCloses
  <2> QED
    BY <2>1, <2>2, <2>3, CountdownMoves DEF TunnelStep
<1> QED
  BY TypeCorrect, <1>1, <1>2, PTL DEF Spec

------------------------------------------------------------------------------
(* The order of the replies. *)

\* Appending to the queue appends to the whole.
LEMMA ConcatAppend ==
  ASSUME NEW S, NEW a \in Seq(S), NEW c \in Seq(S), NEW e \in S
  PROVE  a \o Append(c, e) = Append(a \o c, e)
  OBVIOUS

\* Taking the head of the queue in hand leaves the whole as it is.
LEMMA ConcatHeadTail ==
  ASSUME NEW S, NEW a \in Seq(S), NEW c \in Seq(S), c # <<>>
  PROVE  a \o <<>> \o c = (a \o <<Head(c)>>) \o Tail(c)
  OBVIOUS

\* A prefix stays one when the whole grows.
LEMMA AppendPrefix ==
  ASSUME NEW S, NEW a \in Seq(S), NEW e \in S, NEW n \in Nat, n <= Len(a)
  PROVE  n <= Len(Append(a, e)) /\ SubSeq(Append(a, e), 1, n) = SubSeq(a, 1, n)
  OBVIOUS

\* The first part of a concatenation is a prefix of it.
LEMMA ConcatPrefix ==
  ASSUME NEW S, NEW a \in Seq(S), NEW c \in Seq(S)
  PROVE  Len(a) <= Len(a \o c) /\ a = SubSeq(a \o c, 1, Len(a))
  OBVIOUS

\* Every step keeps RepliesInv.
LEMMA RepliesStep ==
  TypeOK /\ GroupInv /\ RepliesInv /\ [Next]_vars => RepliesInv'
<1> SUFFICES ASSUME ControlType, PackType, GroupInv, RepliesInv, [Next]_vars
             PROVE  RepliesInv'
  BY DEF TypeOK
<1> DEFINE packs == <<replyChan, inHand, wire, accepted>>
<1> USE DEF ControlType, PackType, RepliesInv
<1>1. ASSUME UNCHANGED packs, UNCHANGED group["write"] PROVE RepliesInv'
  BY <1>1
<1>2. CASE WriteTake
  <2>1. accepted = wire \o <<>> \o replyChan /\ replyChan # <<>>
    BY <1>2 DEF WriteTake, At
  <2>2. accepted = (wire \o <<Head(replyChan)>>) \o Tail(replyChan)
    BY <2>1, ConcatHeadTail
  <2> QED BY <1>2, <2>2 DEF WriteTake, At, Goto
<1>3. CASE WritePack
  <2>1. accepted = (wire \o inHand) \o replyChan
    BY <1>3 DEF WritePack, At
  <2>2. wire' = wire \o inHand /\ inHand' = <<>> /\ UNCHANGED <<accepted, replyChan>>
        /\ group'["write"] = "ranging"
    BY <1>3 DEF WritePack, Goto
  <2>3. Len(wire') <= Len(accepted) /\ wire' = SubSeq(accepted, 1, Len(wire'))
    <3>1. wire' \in Seq(Pushers) /\ accepted = wire' \o replyChan
      BY <2>1, <2>2
    <3> HIDE DEF PackType, RepliesInv
    <3>2. replyChan \in Seq(Pushers) BY DEF PackType
    <3> QED BY <3>1, <3>2, ConcatPrefix
  <2>4. accepted = wire' \o <<>> \o replyChan
    BY <2>1, <2>2
  <2> QED BY <2>2, <2>3, <2>4
<1>4. CASE WriteExits
  BY <1>4 DEF WriteExits, Goto
<1>5. CASE WriteStart
  BY <1>5 DEF WriteStart, Goto, At
<1>6. ASSUME NEW p \in Pushers, PushSends(p) PROVE RepliesInv'
  <2>1. group["write"] # "exited" => accepted' = wire \o inHand \o replyChan'
    <3> SUFFICES ASSUME group["write"] # "exited"
                 PROVE  accepted' = wire \o inHand \o replyChan'
      OBVIOUS
    <3>1. wire \o inHand \in Seq(Pushers) /\ replyChan \in Seq(Pushers)
      OBVIOUS
    <3>2. (wire \o inHand) \o Append(replyChan, p) = Append((wire \o inHand) \o replyChan, p)
      BY <3>1, ConcatAppend
    <3> QED BY <1>6, <3>2 DEF PushSends
  <2>2. Len(wire) <= Len(accepted') /\ wire = SubSeq(accepted', 1, Len(wire))
    BY <1>6, AppendPrefix DEF PushSends
  <2> QED BY <1>6, <2>1, <2>2 DEF PushSends
<1>7. CASE Run
  BY <1>7 DEF Run, GroupInv
<1>8. CASE StartSucceeds \/ StartFails \/ PutBucket \/ AfterConnect \/ RunReturns \/ Del
      \/ BeginStop \/ CloseReplyChan \/ AwaitWriter \/ Release \/ AfterDisconnect
  BY <1>1, <1>8 DEF StartSucceeds, StartFails, PutBucket, AfterConnect, RunReturns, Del,
     BeginStop, CloseReplyChan, AwaitWriter, Release, AfterDisconnect
<1>9. CASE WatchExits \/ TickStep
  BY <1>1, <1>9 DEF WatchExits, TickStep, TickExpires, TickFires, TickCancelled, Goto
<1>10. CASE ReadStep \/ ForwardSucceeds
  BY <1>1, <1>10 DEF ReadStep, ReadQuits, ReadBlocks, ReadFails, ReadPack, ForwardFails,
     ForwardSucceeds, Goto
<1>11. ASSUME NEW k \in Keys, TunnelStep(k) PROVE RepliesInv'
  BY <1>1, <1>11 DEF TunnelStep, TunnelEnds, TunnelStops, TunnelCloses
<1>12. ASSUME NEW p \in Pushers, PushFinds(p) \/ PushChecks(p) \/ PushPanics(p)
       PROVE  RepliesInv'
  BY <1>1, <1>12 DEF PushFinds, PushChecks, PushPanics
<1>13. CASE ClientSends \/ ClientLeaves \/ DeadlinePasses \/ StopRequested
            \/ ServerCancels \/ UNCHANGED vars
  BY <1>1, <1>13 DEF ClientSends, ClientLeaves, DeadlinePasses, StopRequested,
     ServerCancels, vars
<1> QED
  BY <1>2, <1>3, <1>4, <1>5, <1>6, <1>7, <1>8, <1>9, <1>10, <1>11, <1>12, <1>13
     DEF Next, ServeStep, WriteStep, PushStep

\* What reaches the wire is, for every interleaving of pushers, a prefix of
\* what the reply channel accepted, in that order; nothing is lost while the
\* write loop lives.
THEOREM RepliesKeepOrder == Spec => []RepliesInOrder
<1>1. Init => GroupInv /\ RepliesInv
  BY DEF Init, GroupInv, RepliesInv, AfterRun, Quiet
<1>2. TypeOK /\ GroupInv /\ RepliesInv /\ [Next]_vars => GroupInv' /\ RepliesInv'
  BY GroupStep, RepliesStep DEF TypeOK
<1>3. RepliesInv => RepliesInOrder
  BY DEF RepliesInv, RepliesInOrder, At
<1> QED
  BY TypeCorrect, <1>1, <1>2, <1>3, PTL DEF Spec

------------------------------------------------------------------------------
(* Worker implements WorkerLife. *)

\* Every step keeps ListedInv: Del is the step that ends it.
LEMMA ListedStep == ListedInv /\ [Next]_vars => ListedInv'
<1> SUFFICES ASSUME ListedInv, [Next]_vars PROVE ListedInv'
  OBVIOUS
<1> USE DEF ListedInv
<1>1. CASE StartSucceeds \/ StartFails BY <1>1 DEF StartSucceeds, StartFails
<1>2. CASE PutBucket BY <1>2 DEF PutBucket
<1>3. CASE AfterConnect \/ Run BY <1>3 DEF AfterConnect, Run
<1>4. CASE RunReturns BY <1>4 DEF RunReturns
<1>5. CASE Del \/ BeginStop BY <1>5 DEF Del, BeginStop
<1>6. CASE CloseReplyChan \/ AwaitWriter BY <1>6 DEF CloseReplyChan, AwaitWriter
<1>7. CASE Release \/ AfterDisconnect BY <1>7 DEF Release, AfterDisconnect
<1>8. CASE UNCHANGED <<serve, registered, seen>> BY <1>8
<1> QED
  BY OnlyServeMoves, <1>1, <1>2, <1>3, <1>4, <1>5, <1>6, <1>7, <1>8 DEF ServeStep

\* The steps of the serve goroutine are steps of WorkerLife or none.
LEMMA ServeLifeStep ==
  ASSUME TypeOK, EffectInv, ListedInv, ServeStep
  PROVE  UNCHANGED life \/ life' \in LifeSteps(life)
<1>1. serve \in ServePoints /\ stopper \in StopperType
  BY DEF TypeOK, ControlType
<1>2. stopper'.triggered = stopper.triggered
  BY <1>1 DEF ServeStep, StartSucceeds, StartFails, PutBucket, AfterConnect, Run,
     RunReturns, Del, BeginStop, CloseReplyChan, AwaitWriter, Release, AfterDisconnect,
     EnterDoStop, LeaveDoStop
<1>3. CASE StartSucceeds \/ AfterConnect \/ Run \/ RunReturns \/ BeginStop \/ CloseReplyChan
           \/ AwaitWriter \/ AfterDisconnect
  <2>1. UNCHANGED <<registered, seen>> /\ stage' = stage
    BY <1>3 DEF StartSucceeds, AfterConnect, Run, RunReturns, BeginStop, CloseReplyChan,
       AwaitWriter, AfterDisconnect, stage
  <2> QED
    BY <1>2, <2>1 DEF life
<1>4. CASE StartFails
  <2>1. stage = "start" /\ stage' = "stop" /\ UNCHANGED <<registered, seen>>
    BY <1>4 DEF StartFails, stage
  <2>2. life.at = "start" /\ life' = Life("stop", life.listed, life.seen, life.asked)
    BY <1>2, <2>1, Zenon DEF life, Life
  <2> QED
    BY <2>2 DEF LifeSteps, Advances
<1>5. CASE PutBucket
  <2>1. stage = "start" /\ stage' = "work" /\ registered' = TRUE /\ seen' = TRUE
    BY <1>5 DEF PutBucket, stage
  <2>2. life.at = "start" /\ life' = Life("work", TRUE, TRUE, life.asked)
    BY <1>2, <2>1, Zenon DEF life, Life
  <2> QED
    BY <2>2 DEF LifeSteps, Advances
<1>6. CASE Del
  <2>1. stage = "work" /\ stage' = "stop" /\ registered' = FALSE /\ seen' = seen
    BY <1>6 DEF Del, stage
  <2>2. life.at = "work" /\ life' = Life("stop", FALSE, life.seen, life.asked)
    BY <1>2, <2>1, Zenon DEF life, Life
  <2> QED
    BY <2>2 DEF LifeSteps, Advances
<1>7. CASE Release
  <2>1. stage = "stop" /\ stage' = "stopped" /\ UNCHANGED <<registered, seen>>
    BY <1>7 DEF Release, stage
  <2>2. life.at = "stop" /\ life' = Life("stopped", life.listed, life.seen, life.asked)
    BY <1>2, <2>1, Zenon DEF life, Life
  <2> QED
    BY <2>2 DEF LifeSteps, Advances
<1> QED
  BY <1>3, <1>4, <1>5, <1>6, <1>7 DEF ServeStep

\* A stop request is a step of WorkerLife: the worker has been in its bucket.
LEMMA AskedLifeStep ==
  ASSUME TypeOK, GroupInv, ListedInv, TickFires \/ StopRequested
  PROVE  life' \in LifeSteps(life)
<1>1. seen
  <2>1. CASE StopRequested BY <2>1 DEF StopRequested
  <2>2. CASE TickFires
    <3>1. group["tick"] = "firing" /\ serve \in ServePoints
      BY <2>2 DEF TickFires, At, TypeOK, ControlType
    <3>2. serve = "wait"
      BY <3>1 DEF GroupInv, AfterRun, Quiet
    <3> QED
      BY <3>2 DEF ListedInv
  <2> QED
    BY <2>1, <2>2
<1>2. UNCHANGED <<serve, registered, seen>> /\ stopper'.triggered = TRUE
  BY DEF TickFires, StopRequested, TriggerStop, TypeOK
<1>3. life' = Asked(life)
  <2>1. stage' = stage
    BY <1>2 DEF stage
  <2> QED
    BY <1>2, <2>1, Zenon DEF life, Life, Asked
<1>4. life.seen
  BY <1>1 DEF life
<1> QED
  BY <1>3, <1>4 DEF LifeSteps

\* Every other step leaves the worker's life as it is.
LEMMA OtherLifeStep ==
  ASSUME [Next]_vars, ~ServeStep, ~TickFires, ~StopRequested
  PROVE  UNCHANGED life
<1>1. UNCHANGED <<serve, registered, seen>>
  BY OnlyServeMoves
<1>2. UNCHANGED stopper
  <2>1. CASE WatchExits \/ TickExpires \/ TickCancelled \/ WriteStep \/ ReadStep
             \/ ForwardSucceeds
    BY <2>1 DEF WatchExits, TickExpires, TickCancelled, WriteStep, WriteStart, WriteTake, WritePack,
       WriteExits, ReadStep, ReadQuits, ReadBlocks, ReadFails, ReadPack, ForwardFails,
       ForwardSucceeds
  <2>2. ASSUME NEW k \in Keys, TunnelStep(k) PROVE UNCHANGED stopper
    BY <2>2 DEF TunnelStep, TunnelEnds, TunnelStops, TunnelCloses
  <2>3. ASSUME NEW p \in Pushers, PushFinds(p) \/ PushStep(p) PROVE UNCHANGED stopper
    BY <2>3 DEF PushFinds, PushStep, PushChecks, PushSends, PushPanics
  <2>4. ClientSends \/ ClientLeaves \/ DeadlinePasses \/ ServerCancels \/ UNCHANGED vars
          => UNCHANGED stopper
    BY DEF ClientSends, ClientLeaves, DeadlinePasses, ServerCancels, vars
  <2> QED
    BY <2>1, <2>2, <2>3, <2>4 DEF Next, TickStep
<1> QED
  BY <1>1, <1>2 DEF life, stage

\* The connection implements WorkerLife, the life by which Server models its
\* connections, with any number of tunnels and pushing goroutines.
THEOREM WorkerImplementsLife == Spec => ImplementsLife
<1>1. Init => GroupInv /\ EffectInv /\ ListedInv
  BY DEF Init, GroupInv, EffectInv, ListedInv, AfterRun, AfterClose, Quiet
<1>2. TypeOK /\ GroupInv /\ EffectInv /\ ListedInv /\ [Next]_vars
        => GroupInv' /\ EffectInv' /\ ListedInv'
  BY GroupStep, EffectStep, ListedStep DEF TypeOK
<1>3. Init => life = NewLife
  <2> SUFFICES ASSUME Init PROVE life = NewLife
    OBVIOUS
  <2>1. stage = "start" /\ registered = FALSE /\ seen = FALSE /\ stopper.triggered = FALSE
    BY DEF Init, stage, NewStopper
  <2> QED
    BY <2>1, Zenon DEF life, NewLife, Life
<1>4. TypeOK /\ GroupInv /\ EffectInv /\ ListedInv /\ [Next]_vars
        => [life' \in LifeSteps(life)]_life
  BY ServeLifeStep, AskedLifeStep, OtherLifeStep
<1> QED
  BY TypeCorrect, <1>1, <1>2, <1>3, <1>4, PTL DEF Spec, ImplementsLife

------------------------------------------------------------------------------
(* What must happen. *)

\* Where the goroutines can be; they start together.
PointInv ==
  /\ group["watch"] \in {"none", "running", "exited"}
  /\ group["tick"] \in {"none", "running", "firing", "exited"}
  /\ group["write"] \in {"none", "running", "ranging", "writing", "exited"}
  /\ group["read"] \in {"none", "running", "reading", "forwarding", "exited"}
  /\ serve = "wait" => \A l \in Loops : group[l] # "none"
  /\ \A l, m \in Loops : group[l] = "none" => group[m] = "none"

\* The watch goroutine and the write loop return with the context done; a write
\* loop that has not been started has not begun.
EndInv ==
  /\ writeStarted => group["write"] # "none"
  /\ group["watch"] = "exited" => cancelled
  /\ group["write"] = "exited" => cancelled /\ writeCompleted

\* The read loop forwards to one tunnel, which it has found or created.
TargetInv ==
  group["read"] = "forwarding" => \E k \in Keys : target = {k} /\ tunnels[k] # "none"

\* Every step keeps PointInv.
LEMMA PointStep == TypeOK /\ GroupInv /\ PointInv /\ [Next]_vars => PointInv'
<1> SUFFICES ASSUME ControlType, GroupInv, PointInv, [Next]_vars PROVE PointInv'
  BY DEF TypeOK
<1> USE DEF ControlType, PointInv, Goto, At
<1>1. CASE ServeStep
  <2>1. CASE Run BY <2>1 DEF Run
  <2>2. CASE StartSucceeds \/ StartFails \/ PutBucket \/ AfterConnect
    <3>1. UNCHANGED group /\ serve' # "wait"
      BY <2>2 DEF StartSucceeds, StartFails, PutBucket, AfterConnect
    <3> QED BY <3>1
  <2>3. CASE RunReturns \/ Del \/ BeginStop \/ CloseReplyChan \/ AwaitWriter \/ Release
               \/ AfterDisconnect
    <3>1. UNCHANGED group /\ serve' # "wait"
      BY <2>3 DEF RunReturns, Del, BeginStop, CloseReplyChan, AwaitWriter, Release,
         AfterDisconnect
    <3> QED BY <3>1
  <2> QED BY <1>1, <2>1, <2>2, <2>3 DEF ServeStep
<1>2. CASE WatchExits BY <1>2 DEF WatchExits
<1>3. CASE TickExpires \/ TickFires BY <1>3 DEF TickExpires, TickFires
<1>4. CASE TickCancelled BY <1>4 DEF TickCancelled
<1>5. CASE WriteStep
  <2>1. PICK s \in {"ranging", "writing", "exited"} : Goto("write", s)
    BY <1>5 DEF WriteStep, WriteStart, WriteTake, WritePack, WriteExits
  <2>2. group["write"] # "none" /\ serve' = serve
    BY <1>5 DEF WriteStep, WriteStart, WriteTake, WritePack, WriteExits, WriteFails, Drained
  <2> QED
    BY <2>1, <2>2
<1>6. CASE ReadQuits BY <1>6 DEF ReadQuits
<1>7. CASE ReadBlocks BY <1>7 DEF ReadBlocks
<1>8. CASE ReadFails BY <1>8 DEF ReadFails
<1>9. CASE ForwardFails BY <1>9 DEF ForwardFails
<1>10. CASE ForwardSucceeds BY <1>10 DEF ForwardSucceeds
<1>11. ASSUME NEW k \in Keys, ReadPack(k) PROVE PointInv'
  BY <1>11 DEF ReadPack
<1>12. CASE UNCHANGED <<serve, group>>
  BY <1>12
<1>13. ASSUME NEW k \in Keys, TunnelStep(k) PROVE UNCHANGED <<serve, group>>
  BY <1>13 DEF TunnelStep, TunnelEnds, TunnelStops, TunnelCloses
<1>14. ASSUME NEW p \in Pushers, PushFinds(p) \/ PushStep(p) PROVE UNCHANGED <<serve, group>>
  BY <1>14 DEF PushFinds, PushStep, PushChecks, PushSends, PushPanics
<1>15. ClientSends \/ ClientLeaves \/ DeadlinePasses \/ StopRequested \/ ServerCancels
         \/ UNCHANGED vars => UNCHANGED <<serve, group>>
  BY DEF ClientSends, ClientLeaves, DeadlinePasses, StopRequested, ServerCancels, vars
<1> QED
  BY <1>1, <1>2, <1>3, <1>4, <1>5, <1>6, <1>7, <1>8, <1>9, <1>10, <1>11, <1>12, <1>13,
     <1>14, <1>15 DEF Next, TickStep, ReadStep

\* Every step keeps the context done, and EndInv.
LEMMA EndStep ==
  TypeOK /\ GroupInv /\ EffectInv /\ EndInv /\ [Next]_vars => EndInv' /\ (cancelled => cancelled')
<1> SUFFICES ASSUME ControlType, GroupInv, EffectInv, EndInv, [Next]_vars
             PROVE  EndInv' /\ (cancelled => cancelled')
  BY DEF TypeOK
<1> USE DEF ControlType, EndInv, Goto, At
<1>1. CASE Run
  BY <1>1 DEF Run
<1>2. CASE RunReturns \/ AfterDisconnect
  BY <1>2 DEF RunReturns, AfterDisconnect
<1>3. CASE WatchExits BY <1>3 DEF WatchExits
<1>4. CASE TickExpires \/ TickFires BY <1>4 DEF TickExpires, TickFires
<1>5. CASE TickCancelled BY <1>5 DEF TickCancelled
<1>6. CASE WriteExits
  <2>1. ~Drained
    BY DEF Drained, GroupInv, EffectInv, AfterRun, AfterClose, Quiet
  <2> QED
    BY <1>6, <2>1 DEF WriteExits
<1>7. CASE WriteStart BY <1>7 DEF WriteStart
<1>8. CASE WriteTake BY <1>8 DEF WriteTake
<1>9. CASE WritePack BY <1>9 DEF WritePack
<1>10. CASE ReadQuits \/ ReadBlocks BY <1>10 DEF ReadQuits, ReadBlocks
<1>11. CASE ReadFails \/ ForwardFails BY <1>11 DEF ReadFails, ForwardFails
<1>12. CASE ForwardSucceeds BY <1>12 DEF ForwardSucceeds
<1>13. ASSUME NEW k \in Keys, ReadPack(k) PROVE EndInv' /\ (cancelled => cancelled')
  BY <1>13 DEF ReadPack
<1>14. CASE ServerCancels BY <1>14 DEF ServerCancels
<1>15. CASE UNCHANGED <<group, cancelled, writeStarted, writeCompleted>>
  BY <1>15
<1>16. StartSucceeds \/ StartFails \/ PutBucket \/ AfterConnect \/ Del \/ BeginStop \/ CloseReplyChan
         \/ AwaitWriter \/ Release => UNCHANGED <<group, cancelled, writeStarted, writeCompleted>>
  BY DEF StartSucceeds, StartFails, PutBucket, AfterConnect, Del, BeginStop, CloseReplyChan,
     AwaitWriter, Release
<1>17. ASSUME NEW k \in Keys, TunnelStep(k) PROVE UNCHANGED <<group, cancelled, writeStarted, writeCompleted>>
  BY <1>17 DEF TunnelStep, TunnelEnds, TunnelStops, TunnelCloses
<1>18. ASSUME NEW p \in Pushers, PushFinds(p) \/ PushStep(p)
       PROVE  UNCHANGED <<group, cancelled, writeStarted, writeCompleted>>
  BY <1>18 DEF PushFinds, PushStep, PushChecks, PushSends, PushPanics
<1>19. ClientSends \/ ClientLeaves \/ DeadlinePasses \/ StopRequested \/ UNCHANGED vars
         => UNCHANGED <<group, cancelled, writeStarted, writeCompleted>>
  BY DEF ClientSends, ClientLeaves, DeadlinePasses, StopRequested, vars
<1> QED
  BY <1>1, <1>2, <1>3, <1>4, <1>5, <1>6, <1>7, <1>8, <1>9, <1>10, <1>11, <1>12, <1>13,
     <1>14, <1>15, <1>16, <1>17, <1>18, <1>19 DEF Next, ServeStep, TickStep, WriteStep, ReadStep

\* What a step does to the read loop and to the tunnel that it forwards to.
ReadMoves ==
  LET r == group["read"]  s == group'["read"]
  IN  /\ r = "none" => s \in {"none", "running"}
      /\ r = "running" => s \in {"running", "reading", "exited"} /\ (cancelled => s # "reading")
      /\ r = "reading" => s \in {"reading", "forwarding", "exited"}
      /\ r = "forwarding" => s \in {"forwarding", "running", "exited"}
      /\ r = "exited" => s = "exited"
      /\ r # "forwarding" /\ s = "forwarding" =>
           \E k \in Keys : target' = {k} /\ tunnels'[k] \in {"live", "ended"}
      /\ r = "forwarding" /\ s = "forwarding" =>
           /\ target' = target
           /\ \A k \in target :
                \/ tunnels'[k] = tunnels[k]
                \/ tunnels[k] = "live" /\ tunnels'[k] = "ended"
                \/ tunnels[k] = "ended" /\ tunnels'[k] = "stopping"
                \/ tunnels[k] = "stopping" /\ tunnels'[k] = "closed"
      /\ r \in {"none", "reading"} /\ s = r =>
           /\ peerGone => peerGone'
           /\ late => late'
           /\ inbox > 0 => inbox' > 0 \/ serve # serve'

\* The read loop moves as its control points say.
LEMMA ReadStepMoves == TypeOK /\ GroupInv /\ PointInv /\ [Next]_vars => ReadMoves
<1> SUFFICES ASSUME ControlType, GroupInv, PointInv, [Next]_vars PROVE ReadMoves
  BY DEF TypeOK
<1> USE DEF ControlType, PointInv, Goto, At, ReadMoves
<1>1. CASE Run
  BY <1>1 DEF Run, GroupInv
<1>2. CASE StartSucceeds
  BY <1>2 DEF StartSucceeds
<1>3. CASE ReadQuits BY <1>3 DEF ReadQuits
<1>4. CASE ReadBlocks BY <1>4 DEF ReadBlocks
<1>5. CASE ReadFails BY <1>5 DEF ReadFails
<1>6. CASE ForwardFails BY <1>6 DEF ForwardFails
<1>7. CASE ForwardSucceeds BY <1>7 DEF ForwardSucceeds
<1>8. ASSUME NEW k \in Keys, ReadPack(k) PROVE ReadMoves
  BY <1>8 DEF ReadPack, Usable
<1>9. ASSUME NEW k \in Keys, TunnelStep(k) PROVE ReadMoves
  <2>1. CASE TunnelEnds(k) BY <2>1 DEF TunnelEnds
  <2>2. CASE TunnelStops(k) BY <2>2 DEF TunnelStops
  <2>3. CASE TunnelCloses(k) BY <2>3 DEF TunnelCloses
  <2> QED BY <1>9, <2>1, <2>2, <2>3 DEF TunnelStep
<1>10. CASE ClientSends BY <1>10 DEF ClientSends
<1>11. CASE ClientLeaves BY <1>11 DEF ClientLeaves
<1>12. CASE DeadlinePasses BY <1>12 DEF DeadlinePasses
<1>13. ASSUME UNCHANGED <<connVars, target, tunnels>>, group'["read"] = group["read"]
       PROVE  ReadMoves
  BY <1>13
<1>14. CASE StartFails \/ PutBucket \/ AfterConnect \/ RunReturns \/ Del \/ BeginStop
            \/ CloseReplyChan \/ AwaitWriter \/ Release \/ AfterDisconnect
  BY <1>13, <1>14 DEF StartFails, PutBucket, AfterConnect, RunReturns, Del, BeginStop,
     CloseReplyChan, AwaitWriter, Release, AfterDisconnect
<1>15. CASE WatchExits \/ TickStep \/ WriteStep
  BY <1>13, <1>15 DEF WatchExits, TickStep, TickExpires, TickFires, TickCancelled, WriteStep, WriteStart,
     WriteTake, WritePack, WriteExits
<1>16. ASSUME NEW p \in Pushers, PushFinds(p) \/ PushStep(p) PROVE ReadMoves
  BY <1>13, <1>16 DEF PushFinds, PushStep, PushChecks, PushSends, PushPanics
<1>17. CASE StopRequested \/ ServerCancels \/ UNCHANGED vars
  BY <1>13, <1>17 DEF StopRequested, ServerCancels, vars
<1> QED
  BY <1>1, <1>2, <1>3, <1>4, <1>5, <1>6, <1>7, <1>8, <1>9, <1>10, <1>11, <1>12, <1>14,
     <1>15, <1>16, <1>17 DEF Next, ServeStep, ReadStep

\* What the arguments on what must happen rest on.
LiveInv ==
  TypeOK /\ GroupInv /\ EffectInv /\ PointInv /\ EndInv /\ TargetInv

\* Every step keeps LiveInv.
LEMMA LiveInvariant == Spec => []LiveInv
<1>1. Init => GroupInv /\ EffectInv /\ PointInv /\ EndInv /\ TargetInv
  BY DEF Init, GroupInv, EffectInv, PointInv, EndInv, TargetInv, AfterRun, AfterClose, Quiet
<1>2. TypeOK /\ GroupInv /\ EffectInv /\ PointInv /\ EndInv /\ TargetInv /\ [Next]_vars
        => (GroupInv /\ EffectInv /\ PointInv /\ EndInv)'
  BY GroupStep, EffectStep, PointStep, EndStep DEF TypeOK
<1>3. TypeOK /\ GroupInv /\ PointInv /\ TargetInv /\ [Next]_vars => TargetInv'
  <2> SUFFICES ASSUME TypeOK, GroupInv, PointInv, TargetInv, [Next]_vars PROVE TargetInv'
    OBVIOUS
  <2>1. ReadMoves
    BY ReadStepMoves
  <2> QED
    BY <2>1 DEF ReadMoves, TargetInv
<1> QED
  BY TypeCorrect, <1>1, <1>2, <1>3, PTL DEF Spec, LiveInv

\* A client that stays silent does not hold its serve goroutine in the
\* handshake: the deadline passes, and Start fails.
THEOREM HandshakeIsBounded == []StepsEnabled /\ FairSpec => HandshakeEnds
<1> DEFINE P == serve = "start" /\ inbox = 0 /\ ~late /\ ~peerGone
           R == serve = "start" /\ (inbox > 0 \/ late \/ peerGone)
           Q == serve # "start"
<1>1. LiveInv /\ P /\ [Next]_vars => P' \/ R' \/ Q'
  <2> SUFFICES ASSUME LiveInv, [Next]_vars PROVE P' \/ R' \/ Q'
    OBVIOUS
  <2>1. ControlType'
    BY ControlTypeStep DEF LiveInv, TypeOK
  <2> QED
    BY <2>1 DEF ControlType
<1>2. LiveInv /\ P /\ <<DeadlineRuns>>_vars => R' \/ Q'
  BY DEF DeadlineRuns, DeadlinePasses
<1>3. LiveInv /\ StepsEnabled /\ P => ENABLED <<DeadlineRuns>>_vars
  BY DEF LiveInv, EffectInv, StepsEnabled
<1>4. LiveInv /\ R /\ [Next]_vars => R' \/ Q'
  <2> SUFFICES ASSUME LiveInv, R, [Next]_vars, ~Q' PROVE R'
    OBVIOUS
  <2>1. ReadMoves
    BY ReadStepMoves DEF LiveInv
  <2>2. group["read"] = "none" /\ GroupInv'
    BY GroupStep DEF LiveInv, GroupInv, TypeOK
  <2>3. group'["read"] = "none"
    BY <2>2 DEF GroupInv
  <2> QED
    BY <2>1, <2>2, <2>3 DEF ReadMoves
<1>5. LiveInv /\ R /\ <<ServeStep>>_vars => Q'
  BY DEF ServeStep, StartSucceeds, StartFails, PutBucket, AfterConnect, Run,
     RunReturns, Del, BeginStop, CloseReplyChan, AwaitWriter, Release, AfterDisconnect
<1>6. LiveInv /\ StepsEnabled /\ R => ENABLED <<ServeStep>>_vars
  BY DEF StepsEnabled
<1>7. LiveInv /\ serve = "start" => P \/ R
  BY DEF LiveInv, TypeOK, ControlType
<1> QED
  BY <1>1, <1>2, <1>3, <1>4, <1>5, <1>6, <1>7, LiveInvariant, PTL
  DEF FairSpec, Spec, Fairness, HandshakeEnds

\* The read loop is in a Forward, to a tunnel at a stage of its life.
Forwarding(stages) ==
  group["read"] = "forwarding" /\ \E k \in Keys : target = {k} /\ tunnels[k] \in stages

\* The read loop leaves Forward once the context is done.
LEMMA ForwardLeft ==
  []StepsEnabled /\ FairSpec
    => (cancelled /\ At("read", "forwarding") ~> ~At("read", "forwarding"))
<1> DEFINE P == cancelled /\ Forwarding({"live"})
           R == cancelled /\ Forwarding({"ended"})
           T == cancelled /\ Forwarding({"stopping", "closed"})
           Q == ~At("read", "forwarding")
<1>1. ASSUME LiveInv, [Next]_vars, cancelled PROVE cancelled'
  BY <1>1, EndStep DEF LiveInv
<1>2. LiveInv /\ P /\ [Next]_vars => P' \/ R' \/ Q'
  <2> SUFFICES ASSUME LiveInv, P, [Next]_vars PROVE P' \/ R' \/ Q'
    OBVIOUS
  <2>1. ReadMoves
    BY ReadStepMoves DEF LiveInv
  <2> QED
    BY <1>1, <2>1 DEF ReadMoves, Forwarding, At
<1>3. LiveInv /\ R /\ [Next]_vars => R' \/ T' \/ Q'
  <2> SUFFICES ASSUME LiveInv, R, [Next]_vars PROVE R' \/ T' \/ Q'
    OBVIOUS
  <2>1. ReadMoves
    BY ReadStepMoves DEF LiveInv
  <2> QED
    BY <1>1, <2>1 DEF ReadMoves, Forwarding, At
<1>4. LiveInv /\ T /\ [Next]_vars => T' \/ Q'
  <2> SUFFICES ASSUME LiveInv, T, [Next]_vars PROVE T' \/ Q'
    OBVIOUS
  <2>1. ReadMoves
    BY ReadStepMoves DEF LiveInv
  <2> QED
    BY <1>1, <2>1 DEF ReadMoves, Forwarding, At
<1>5. LiveInv /\ P /\ <<TunnelRuns>>_vars => R'
  BY SMTT(30) DEF TunnelRuns, TunnelEnds, TunnelStops, TunnelCloses, Forwarding, LiveInv,
     TypeOK, ControlType
<1>6. LiveInv /\ R /\ <<TunnelRuns>>_vars => T'
  BY SMTT(30) DEF TunnelRuns, TunnelEnds, TunnelStops, TunnelCloses, Forwarding, LiveInv,
     TypeOK, ControlType
<1>7. LiveInv /\ T /\ <<ReadStep>>_vars => Q'
  BY DEF ReadStep, ReadQuits, ReadBlocks, ReadFails, ReadPack, ForwardFails, Forwarding, At, Goto,
     LiveInv, TypeOK, ControlType
<1>8. LiveInv /\ StepsEnabled /\ (P \/ R) => ENABLED <<TunnelRuns>>_vars
  BY DEF StepsEnabled, Forwarding
<1>9. LiveInv /\ StepsEnabled /\ T => ENABLED <<ReadStep>>_vars
  BY DEF StepsEnabled, Forwarding, At, Usable
<1>10. LiveInv /\ cancelled /\ At("read", "forwarding") => P \/ R \/ T
  BY DEF LiveInv, TargetInv, TypeOK, ControlType, Forwarding, At
<1> QED
  BY <1>2, <1>3, <1>4, <1>5, <1>6, <1>7, <1>8, <1>9, <1>10, LiveInvariant, PTL
  DEF FairSpec, Spec, Fairness

\* A backend that takes no packets does not hold the read loop of a worker that
\* has been asked to stop: the watch goroutine ends the group's context, which
\* ends the tunnel.
THEOREM StalledForwardIsLeft == []StepsEnabled /\ FairSpec => StalledForwardEnds
<1> DEFINE F == At("read", "forwarding")
           P == stopper.triggered /\ F /\ ~cancelled
<1>1. LiveInv /\ P /\ [Next]_vars => P' \/ cancelled' \/ ~F'
  <2> SUFFICES ASSUME LiveInv, P, [Next]_vars PROVE stopper'.triggered
    OBVIOUS
  <2>1. stopper \in StopperType
    BY DEF LiveInv, TypeOK
  <2>2. CASE ServeStep
    BY <2>1, <2>2 DEF ServeStep, StartSucceeds, StartFails, PutBucket, AfterConnect, Run,
       RunReturns, Del, BeginStop, CloseReplyChan, AwaitWriter, Release, AfterDisconnect,
       EnterDoStop, LeaveDoStop
  <2>3. CASE TickFires \/ StopRequested
    BY <2>1, <2>3 DEF TickFires, StopRequested, TriggerStop
  <2>4. CASE UNCHANGED life
    BY <2>1, <2>4 DEF life
  <2> QED
    BY <2>2, <2>3, <2>4, OtherLifeStep
<1>2. LiveInv /\ P /\ <<WatchExits>>_vars => cancelled'
  BY DEF WatchExits
<1>3. LiveInv /\ StepsEnabled /\ P => ENABLED <<WatchExits>>_vars
  <2> SUFFICES ASSUME LiveInv, P PROVE At("watch", "running")
    BY DEF StepsEnabled
  <2>1. serve = "wait"
    BY DEF LiveInv, TypeOK, ControlType, GroupInv, AfterRun, Quiet, At
  <2> QED
    BY <2>1 DEF LiveInv, PointInv, EndInv, At
<1>4. stopper.triggered /\ F => P \/ (cancelled /\ F)
  OBVIOUS
<1>5. LiveInv /\ [Next]_vars => (cancelled => cancelled')
  BY EndStep DEF LiveInv
<1> QED
  BY <1>1, <1>2, <1>3, <1>4, <1>5, ForwardLeft, LiveInvariant, PTL
  DEF FairSpec, Spec, Fairness, StalledForwardEnds

\* A goroutine of the group that has returned does not start again.
LEMMA ExitedStays ==
  ASSUME LiveInv, [Next]_vars, NEW l \in Loops, group[l] = "exited"
  PROVE  group'[l] = "exited"
<1> USE DEF Goto, At, LiveInv, TypeOK, ControlType
<1>1. CASE ServeStep
  BY <1>1 DEF ServeStep, StartSucceeds, StartFails, PutBucket, AfterConnect, Run, GroupInv,
     RunReturns, Del, BeginStop, CloseReplyChan, AwaitWriter, Release, AfterDisconnect
<1>2. CASE WatchExits \/ TickStep
  BY <1>2 DEF WatchExits, TickStep, TickExpires, TickFires, TickCancelled
<1>3. CASE WriteStep
  BY <1>3 DEF WriteStep, WriteStart, WriteTake, WritePack, WriteExits, WriteFails, Drained
<1>4. CASE ReadStep \/ ForwardSucceeds
  BY <1>4 DEF ReadStep, ReadQuits, ReadBlocks, ReadFails, ReadPack, ForwardFails, ForwardSucceeds
<1>5. ASSUME NEW k \in Keys, TunnelStep(k) PROVE UNCHANGED group
  BY <1>5 DEF TunnelStep, TunnelEnds, TunnelStops, TunnelCloses
<1>6. ASSUME NEW p \in Pushers, PushFinds(p) \/ PushStep(p) PROVE UNCHANGED group
  BY <1>6 DEF PushFinds, PushStep, PushChecks, PushSends, PushPanics
<1>7. ClientSends \/ ClientLeaves \/ DeadlinePasses \/ StopRequested \/ ServerCancels
        \/ UNCHANGED vars => UNCHANGED group
  BY DEF ClientSends, ClientLeaves, DeadlinePasses, StopRequested, ServerCancels, vars
<1> QED
  BY <1>1, <1>2, <1>3, <1>4, <1>5, <1>6, <1>7 DEF Next

\* A goroutine of the group that has been started stays so.
LEMMA NoneStays ==
  ASSUME LiveInv, [Next]_vars, NEW l \in Loops, group[l] # "none"
  PROVE  group'[l] # "none"
<1> USE DEF Goto, At, LiveInv, TypeOK, ControlType
<1>1. CASE ServeStep
  BY <1>1 DEF ServeStep, StartSucceeds, StartFails, PutBucket, AfterConnect, Run,
     RunReturns, Del, BeginStop, CloseReplyChan, AwaitWriter, Release, AfterDisconnect
<1>2. CASE WatchExits \/ TickStep
  BY <1>2 DEF WatchExits, TickStep, TickExpires, TickFires, TickCancelled
<1>3. CASE WriteStep
  BY <1>3 DEF WriteStep, WriteStart, WriteTake, WritePack, WriteExits
<1>4. CASE ReadStep \/ ForwardSucceeds
  BY <1>4 DEF ReadStep, ReadQuits, ReadBlocks, ReadFails, ReadPack, ForwardFails, ForwardSucceeds
<1>5. UNCHANGED group => group'[l] # "none"
  OBVIOUS
<1>6. ASSUME NEW k \in Keys, TunnelStep(k) PROVE UNCHANGED group
  BY <1>6 DEF TunnelStep, TunnelEnds, TunnelStops, TunnelCloses
<1>7. ASSUME NEW p \in Pushers, PushFinds(p) \/ PushStep(p) PROVE UNCHANGED group
  BY <1>7 DEF PushFinds, PushStep, PushChecks, PushSends, PushPanics
<1>8. ClientSends \/ ClientLeaves \/ DeadlinePasses \/ StopRequested \/ ServerCancels
        \/ UNCHANGED vars => UNCHANGED group
  BY DEF ClientSends, ClientLeaves, DeadlinePasses, StopRequested, ServerCancels, vars
<1> QED
  BY <1>1, <1>2, <1>3, <1>4, <1>5, <1>6, <1>7, <1>8 DEF Next

\* Only its own steps move the tick and the write loop, once they are started.
LEMMA OwnMoves ==
  ASSUME LiveInv, [Next]_vars
  PROVE  /\ group["tick"] # "none" => TickStep \/ group'["tick"] = group["tick"]
         /\ group["write"] # "none" => WriteStep \/ group'["write"] = group["write"]
<1> USE DEF Goto, At, LiveInv, TypeOK, ControlType
<1>1. CASE ServeStep
  BY <1>1 DEF ServeStep, StartSucceeds, StartFails, PutBucket, AfterConnect, Run, GroupInv,
     RunReturns, Del, BeginStop, CloseReplyChan, AwaitWriter, Release, AfterDisconnect
<1>2. CASE WatchExits BY <1>2 DEF WatchExits
<1>3. CASE TickStep BY <1>3 DEF TickStep, TickExpires, TickFires, TickCancelled
<1>4. CASE WriteStep BY <1>4 DEF WriteStep, WriteStart, WriteTake, WritePack, WriteExits
<1>5. CASE ReadStep \/ ForwardSucceeds
  BY <1>5 DEF ReadStep, ReadQuits, ReadBlocks, ReadFails, ReadPack, ForwardFails, ForwardSucceeds
<1>6. ASSUME NEW k \in Keys, TunnelStep(k) PROVE UNCHANGED group
  BY <1>6 DEF TunnelStep, TunnelEnds, TunnelStops, TunnelCloses
<1>7. ASSUME NEW p \in Pushers, PushFinds(p) \/ PushStep(p) PROVE UNCHANGED group
  BY <1>7 DEF PushFinds, PushStep, PushChecks, PushSends, PushPanics
<1>8. ClientSends \/ ClientLeaves \/ DeadlinePasses \/ StopRequested \/ ServerCancels
        \/ UNCHANGED vars => UNCHANGED group
  BY DEF ClientSends, ClientLeaves, DeadlinePasses, StopRequested, ServerCancels, vars
<1> QED
  BY <1>1, <1>2, <1>3, <1>4, <1>5, <1>6, <1>7, <1>8 DEF Next

\* The write loop has returned: the context is done, and the goroutines have
\* all been started.
LEMMA WriterGone ==
  ASSUME LiveInv, At("write", "exited")
  PROVE  /\ cancelled /\ writeCompleted
         /\ group["watch"] \in {"running", "exited"} /\ group["tick"] \in {"running", "firing", "exited"}
         /\ group["read"] \in {"running", "reading", "forwarding", "exited"}
         /\ serve = "wait" \/ (serve \in AfterRun /\ \A l \in Loops : At(l, "exited"))
<1> USE DEF LiveInv, At, TypeOK, ControlType
<1>1. \A l \in Loops : group[l] # "none"
  BY DEF PointInv
<1>2. serve = "wait" \/ serve \in AfterRun
  BY DEF GroupInv, AfterRun
<1> QED
  BY <1>1, <1>2 DEF PointInv, EndInv, GroupInv, Quiet

\* The watch goroutine and the tick loop return after the write loop.
LEMMA WatchAndTickEnd ==
  []StepsEnabled /\ FairSpec
    => /\ At("write", "exited") ~> At("watch", "exited")
       /\ At("write", "exited") ~> At("tick", "exited")
<1> DEFINE E == At("write", "exited")
           P == At("watch", "exited")
           R == E /\ At("tick", "running")
           F == E /\ At("tick", "firing")
           T == At("tick", "exited")
<1>1. LiveInv /\ E /\ [Next]_vars => E'
  BY ExitedStays DEF At
<1>2. LiveInv /\ StepsEnabled /\ E /\ ~P => ENABLED <<WatchExits>>_vars
  BY WriterGone DEF At, StepsEnabled
<1>3. LiveInv /\ StepsEnabled /\ (R \/ F) => ENABLED <<TickStep>>_vars
  BY WriterGone DEF At, StepsEnabled
<1>4. LiveInv /\ <<WatchExits>>_vars => P'
  BY DEF WatchExits, Goto, At, LiveInv, TypeOK, ControlType
<1>5. LiveInv /\ R /\ [Next]_vars => R' \/ F' \/ T'
  <2> SUFFICES ASSUME LiveInv, R, [Next]_vars PROVE E' /\ group'["tick"] \in {"running", "firing", "exited"}
    BY DEF At
  <2> QED
    BY <1>1, OwnMoves DEF TickStep, TickExpires, TickFires, TickCancelled, Goto, At,
       LiveInv, TypeOK, ControlType
<1>6. LiveInv /\ F /\ [Next]_vars => F' \/ T'
  <2> SUFFICES ASSUME LiveInv, F, [Next]_vars PROVE F' \/ T'
    OBVIOUS
  <2>1. group'["tick"] \in {"firing", "exited"}
    BY OwnMoves DEF TickStep, TickExpires, TickFires, TickCancelled, Goto, At,
       LiveInv, TypeOK, ControlType
  <2> QED
    BY <1>1, <2>1 DEF At
<1>7. LiveInv /\ R /\ <<TickStep>>_vars => ~R'
  BY DEF TickStep, TickExpires, TickFires, TickCancelled, Goto, At, LiveInv, TypeOK, ControlType
<1>8. LiveInv /\ F /\ <<TickStep>>_vars => ~F'
  BY DEF TickStep, TickExpires, TickFires, TickCancelled, Goto, At, LiveInv, TypeOK, ControlType
<1>9. LiveInv /\ E => R \/ F \/ T
  BY WriterGone DEF At
<1> HIDE DEF E, P, R, F, T
<1>10. []StepsEnabled /\ FairSpec => (E ~> P)
  BY <1>1, <1>2, <1>4, LiveInvariant, PTL DEF FairSpec, Spec, Fairness
<1>11. []StepsEnabled /\ FairSpec => (E ~> T)
  BY <1>3, <1>5, <1>6, <1>7, <1>8, <1>9, LiveInvariant, PTL DEF FairSpec, Spec, Fairness
<1> QED
  BY <1>10, <1>11, PTL DEF E, P, T

\* A goroutine of the group is on its way only inside Worker.Run.
LEMMA InsideRun ==
  ASSUME LiveInv, NEW l \in Loops, group[l] \notin {"none", "exited"}
  PROVE  serve = "wait"
  BY DEF LiveInv, TypeOK, ControlType, GroupInv, AfterRun, Quiet

\* The read loop returns once the context is done, from wherever it is: from a
\* read at the latest with the deadline, from a Forward with the end of the
\* tunnel, and it does not begin to read again.
LEMMA ReadEnds ==
  []StepsEnabled /\ FairSpec => (cancelled /\ ~At("read", "none") ~> At("read", "exited"))
<1> DEFINE E == cancelled /\ ~At("read", "none")
           Ready == inbox > 0 \/ late \/ peerGone
           W == E /\ At("read", "reading") /\ ~Ready
           P == E /\ At("read", "reading") /\ Ready
           F == E /\ At("read", "forwarding")
           R == E /\ At("read", "running")
           Q == At("read", "exited")
<1>1. LiveInv /\ E /\ [Next]_vars => E'
  BY NoneStays, EndStep DEF At, LiveInv
<1>2. LiveInv /\ E => W \/ P \/ F \/ R \/ Q
  BY DEF At, LiveInv, PointInv
<1>3. LiveInv /\ R /\ [Next]_vars => R' \/ Q'
  <2> SUFFICES ASSUME LiveInv, R, [Next]_vars PROVE R' \/ Q'
    OBVIOUS
  <2>1. ReadMoves /\ cancelled
    BY ReadStepMoves DEF LiveInv
  <2> QED
    BY <1>1, <2>1 DEF ReadMoves, At
<1>4. LiveInv /\ F /\ [Next]_vars => F' \/ R' \/ Q'
  <2> SUFFICES ASSUME LiveInv, F, [Next]_vars PROVE F' \/ R' \/ Q'
    OBVIOUS
  <2>1. ReadMoves
    BY ReadStepMoves DEF LiveInv
  <2> QED
    BY <1>1, <2>1 DEF ReadMoves, At
<1>5. LiveInv /\ P /\ [Next]_vars => P' \/ F' \/ Q'
  <2> SUFFICES ASSUME LiveInv, P, [Next]_vars PROVE P' \/ F' \/ Q'
    OBVIOUS
  <2>1. ReadMoves
    BY ReadStepMoves DEF LiveInv
  <2>2. serve' = serve \/ ~At("read", "reading")'
    <3>1. serve = "wait"
      BY InsideRun DEF At
    <3>2. CASE ServeStep
      BY <3>1, <3>2 DEF ServeStep, StartSucceeds, StartFails, PutBucket, AfterConnect, Run,
         RunReturns, Del, BeginStop, CloseReplyChan, AwaitWriter, Release, AfterDisconnect, At
    <3> QED
      BY <3>2, OnlyServeMoves
  <2> QED
    BY <1>1, <2>1, <2>2, SMTT(30) DEF ReadMoves, At
<1>6. LiveInv /\ W /\ [Next]_vars => W' \/ P' \/ F' \/ Q'
  <2> SUFFICES ASSUME LiveInv, W, [Next]_vars PROVE W' \/ P' \/ F' \/ Q'
    OBVIOUS
  <2>1. ReadMoves
    BY ReadStepMoves DEF LiveInv
  <2> QED
    BY <1>1, <2>1 DEF ReadMoves, At
<1>7. LiveInv /\ W /\ <<DeadlineRuns>>_vars => P'
  BY DEF DeadlineRuns, DeadlinePasses, At
<1>8. LiveInv /\ P /\ <<ReadStep>>_vars => ~P'
  BY DEF ReadStep, ReadQuits, ReadBlocks, ReadFails, ReadPack, ForwardFails, At, Goto,
     LiveInv, TypeOK, ControlType
<1>9. LiveInv /\ R /\ <<ReadStep>>_vars => ~R'
  BY DEF ReadStep, ReadQuits, ReadBlocks, ReadFails, ReadPack, ForwardFails, At, Goto,
     LiveInv, TypeOK, ControlType
<1>10. LiveInv /\ StepsEnabled /\ W => ENABLED <<DeadlineRuns>>_vars
  <2> SUFFICES ASSUME LiveInv, W PROVE inbox = 0 /\ ~released
    BY DEF StepsEnabled
  <2>1. inbox = 0
    BY DEF LiveInv, TypeOK, ControlType
  <2>2. ~released
    BY InsideRun DEF LiveInv, EffectInv, At
  <2> QED
    BY <2>1, <2>2
<1>11. LiveInv /\ StepsEnabled /\ (P \/ R) => ENABLED <<ReadStep>>_vars
  BY DEF StepsEnabled
<1>12. E => cancelled
  OBVIOUS
<1>13. (F => At("read", "forwarding")) /\ (~At("read", "forwarding") => ~F)
  OBVIOUS
<1> HIDE DEF E, W, P, F, R, Q
<1>14. []StepsEnabled /\ FairSpec => (E ~> Q)
  BY <1>1, <1>2, <1>3, <1>4, <1>5, <1>6, <1>7, <1>8, <1>9, <1>10, <1>11, <1>12, <1>13,
     ForwardLeft, LiveInvariant, PTL DEF FairSpec, Spec, Fairness
<1> QED
  BY <1>14 DEF E, Q

\* What the serve goroutine does once its group is over.
ServePath == <<"wait", "del", "stop", "close", "await", "release", "leave", "done">>

\* The group is over, or there was none.
Unwinding == serve \in AfterRun \/ (serve = "wait" /\ \A l \in Loops : At(l, "exited"))

\* Server.work goes on to its end when its group is over.
LEMMA ServeEnds == []StepsEnabled /\ FairSpec => (Unwinding ~> serve = "done")
<1> DEFINE X == Unwinding
           P(i) == X /\ serve = ServePath[i]
           Leads(i, j) == []StepsEnabled /\ FairSpec => (P(i) ~> P(j))
<1>1. ASSUME LiveInv, X, [Next]_vars
      PROVE  serve' = serve \/ \E i \in 1..7 : serve = ServePath[i] /\ serve' = ServePath[i + 1]
  <2>1. serve \notin {"start", "put", "connect", "run"}
    BY <1>1 DEF Unwinding, AfterRun
  <2>2. CASE RunReturns \/ Del \/ BeginStop \/ CloseReplyChan
    <3>1. CASE RunReturns \/ Del BY <3>1 DEF RunReturns, Del, ServePath
    <3>2. CASE BeginStop \/ CloseReplyChan BY <3>2 DEF BeginStop, CloseReplyChan, ServePath
    <3> QED BY <2>2, <3>1, <3>2
  <2>3. CASE AwaitWriter \/ Release \/ AfterDisconnect
    BY <2>3 DEF AwaitWriter, Release, AfterDisconnect, ServePath
  <2>4. ServeStep => \/ RunReturns \/ Del \/ BeginStop \/ CloseReplyChan \/ AwaitWriter
                     \/ Release \/ AfterDisconnect
    BY <2>1 DEF ServeStep, StartSucceeds, StartFails, PutBucket, AfterConnect, Run
  <2> QED
    BY <1>1, <2>2, <2>3, <2>4, OnlyServeMoves
<1>2. LiveInv /\ X /\ [Next]_vars => X'
  <2> SUFFICES ASSUME LiveInv, X, [Next]_vars PROVE X'
    OBVIOUS
  <2>1. CASE serve' = serve
    BY <2>1, ExitedStays DEF Unwinding, At
  <2>2. ASSUME NEW i \in 1..7, serve' = ServePath[i + 1] PROVE serve' \in AfterRun
    BY <2>2 DEF ServePath, AfterRun
  <2> QED
    BY <1>1, <2>1, <2>2 DEF Unwinding
<1>3. ASSUME LiveInv, X, <<ServeStep>>_vars PROVE serve' # serve
  <2>1. serve \notin {"start", "put", "connect", "run"}
    BY <1>3 DEF Unwinding, AfterRun
  <2> QED
    BY <1>3, <2>1 DEF ServeStep, StartSucceeds, StartFails, PutBucket, AfterConnect, Run,
       RunReturns, Del, BeginStop, CloseReplyChan, AwaitWriter, Release, AfterDisconnect
<1>4. LiveInv /\ StepsEnabled /\ X /\ serve # "done" => ENABLED <<ServeStep>>_vars
  <2> SUFFICES ASSUME LiveInv, StepsEnabled, X, serve # "done" PROVE ENABLED <<ServeStep>>_vars
    OBVIOUS
  <2>1. CASE serve = "wait"
    BY <2>1 DEF StepsEnabled, Unwinding, AfterRun
  <2>2. CASE serve \in AfterRun
    <3>1. writeStarted => writeCompleted
      BY <2>2 DEF LiveInv, GroupInv, EndInv, Quiet
    <3> QED
      BY <2>2, <3>1 DEF StepsEnabled, AfterRun
  <2> QED
    BY <2>1, <2>2 DEF Unwinding
<1>5. ASSUME NEW i \in 1..7
      PROVE  /\ LiveInv /\ P(i) /\ [Next]_vars => P(i)' \/ P(i + 1)'
             /\ LiveInv /\ P(i) /\ <<ServeStep>>_vars => ~P(i)'
  BY <1>1, <1>2, <1>3 DEF ServePath
<1>6. ASSUME NEW i \in 1..7
      PROVE  LiveInv /\ StepsEnabled /\ P(i) => ENABLED <<ServeStep>>_vars
  BY <1>4 DEF ServePath
<1>7. ASSUME NEW i \in 1..7
      PROVE  Leads(i, i + 1)
  <2>1. LiveInv /\ P(i) /\ [Next]_vars => P(i)' \/ P(i + 1)'
    BY <1>5
  <2>2. LiveInv /\ P(i) /\ <<ServeStep>>_vars => ~P(i)'
    BY <1>5
  <2>3. LiveInv /\ StepsEnabled /\ P(i) => ENABLED <<ServeStep>>_vars
    BY <1>6
  <2> HIDE DEF P
  <2> QED
    BY <2>1, <2>2, <2>3, LiveInvariant, PTL DEF FairSpec, Spec, Fairness
<1>8. LiveInv /\ X => P(1) \/ P(2) \/ P(3) \/ P(4) \/ P(5) \/ P(6) \/ P(7) \/ P(8)
  BY DEF Unwinding, ServePath, AfterRun
<1>9. P(8) => serve = "done"
  BY DEF ServePath
<1> HIDE DEF P, X, Leads
<1>10. Leads(1, 2) /\ Leads(2, 3) /\ Leads(3, 4) /\ Leads(4, 5) /\ Leads(5, 6) /\ Leads(6, 7)
       /\ Leads(7, 8)
  BY <1>7
<1>11. []StepsEnabled /\ FairSpec => (X ~> serve = "done")
  BY <1>8, <1>9, <1>10, LiveInvariant, PTL DEF FairSpec, Leads
<1> QED
  BY <1>11 DEF X

\* Once the write loop has ended, the whole connection is torn down.
THEOREM WriterEndsAll == []StepsEnabled /\ FairSpec => WriterEndsWorker
<1> DEFINE H == At("watch", "exited")
           T == At("tick", "exited")
           R == At("read", "exited")
           E == At("write", "exited")
           X == Unwinding
<1>1. LiveInv /\ [Next]_vars => (H => H') /\ (T => T') /\ (R => R') /\ (E => E')
  BY ExitedStays DEF At
<1>2. LiveInv /\ H /\ T /\ R /\ E => X
  BY WriterGone DEF Unwinding
<1>3. []StepsEnabled /\ FairSpec => (E ~> H) /\ (E ~> T) /\ (X ~> serve = "done")
  BY WatchAndTickEnd, ServeEnds, PTL
<1>4. LiveInv /\ E => cancelled /\ ~At("read", "none")
  BY WriterGone DEF At
<1>5. []StepsEnabled /\ FairSpec => (E ~> R)
  BY <1>4, ReadEnds, LiveInvariant, PTL DEF FairSpec
<1>6. WriterEndsWorker <=> (E ~> serve = "done")
  BY PTL DEF WriterEndsWorker
<1> HIDE DEF H, T, R, E, X
<1> QED
  BY <1>1, <1>2, <1>3, <1>5, <1>6, LiveInvariant, PTL DEF FairSpec, Spec

\* What a step does to a goroutine that pushes.
LEMMA PushMoves ==
  ASSUME LiveInv, [Next]_vars, NEW p \in Pushers
  PROVE  /\ push[p] = "found" => push'[p] \in {"found", "checked", "refused"}
         /\ push[p] = "checked" => push'[p] \in {"checked", "accepted", "panicked"}
<1> USE DEF LiveInv, TypeOK, ControlType
<1>1. CASE UNCHANGED push BY <1>1
<1>2. ASSUME NEW q \in Pushers, PushFinds(q) \/ PushChecks(q)
      PROVE  /\ push[p] = "found" => push'[p] \in {"found", "checked", "refused"}
             /\ push[p] = "checked" => push'[p] \in {"checked", "accepted", "panicked"}
  BY <1>2 DEF PushFinds, PushChecks
<1>3. ASSUME NEW q \in Pushers, PushSends(q) \/ PushPanics(q)
      PROVE  /\ push[p] = "found" => push'[p] \in {"found", "checked", "refused"}
             /\ push[p] = "checked" => push'[p] \in {"checked", "accepted", "panicked"}
  BY <1>3 DEF PushSends, PushPanics
<1>4. ServeStep => UNCHANGED push
  BY DEF ServeStep, StartSucceeds, StartFails, PutBucket, AfterConnect, Run,
     RunReturns, Del, BeginStop, CloseReplyChan, AwaitWriter, Release, AfterDisconnect
<1>5. WatchExits \/ TickStep \/ WriteStep \/ ReadStep \/ ForwardSucceeds => UNCHANGED push
  BY DEF WatchExits, TickStep, TickExpires, TickFires, TickCancelled, WriteStep, WriteStart,
     WriteTake, WritePack, WriteExits, ReadStep, ReadQuits, ReadBlocks, ReadFails, ReadPack,
     ForwardFails, ForwardSucceeds
<1>6. ASSUME NEW k \in Keys, TunnelStep(k) PROVE UNCHANGED push
  BY <1>6 DEF TunnelStep, TunnelEnds, TunnelStops, TunnelCloses
<1>7. ClientSends \/ ClientLeaves \/ DeadlinePasses \/ StopRequested \/ ServerCancels
        \/ UNCHANGED vars => UNCHANGED push
  BY DEF ClientSends, ClientLeaves, DeadlinePasses, StopRequested, ServerCancels, vars
<1> QED
  BY <1>1, <1>2, <1>3, <1>4, <1>5, <1>6, <1>7 DEF Next, PushStep

\* Nothing but a successful Forward extends the deadline, and only the write
\* loop takes packs out of the reply channel.
LEMMA DeadlineAndChannel ==
  ASSUME LiveInv, [Next]_vars
  PROVE  /\ late /\ At("read", "exited") => late'
         /\ replyChan # <<>> => WriteTake \/ replyChan' # <<>>
<1> USE DEF LiveInv, TypeOK, PackType
<1>1. CASE UNCHANGED <<late, replyChan>> BY <1>1
<1>2. CASE ForwardSucceeds BY <1>2 DEF ForwardSucceeds, At
<1>3. ASSUME NEW p \in Pushers, PushSends(p) PROVE UNCHANGED late /\ replyChan' # <<>>
  <2>1. UNCHANGED late /\ replyChan' = Append(replyChan, p)
    BY <1>3 DEF PushSends
  <2>2. Len(Append(replyChan, p)) # Len(<<>>)
    OBVIOUS
  <2> QED BY <2>1, <2>2
<1>4. ASSUME NEW p \in Pushers, PushFinds(p) \/ PushChecks(p) \/ PushPanics(p)
      PROVE  UNCHANGED <<late, replyChan>>
  BY <1>4 DEF PushFinds, PushChecks, PushPanics
<1>5. ServeStep => UNCHANGED <<late, replyChan>>
  BY DEF ServeStep, StartSucceeds, StartFails, PutBucket, AfterConnect, Run,
     RunReturns, Del, BeginStop, CloseReplyChan, AwaitWriter, Release, AfterDisconnect
<1>6. WatchExits \/ TickStep \/ WriteStart \/ WritePack \/ WriteExits
        => UNCHANGED <<late, replyChan>>
  BY DEF WatchExits, TickStep, TickExpires, TickFires, TickCancelled, WriteStart, WritePack,
     WriteExits
<1>7. CASE WriteTake BY <1>7 DEF WriteTake
<1>8. ReadStep => UNCHANGED <<late, replyChan>>
  BY DEF ReadStep, ReadQuits, ReadBlocks, ReadFails, ReadPack, ForwardFails
<1>9. ASSUME NEW k \in Keys, TunnelStep(k) PROVE UNCHANGED <<late, replyChan>>
  BY <1>9 DEF TunnelStep, TunnelEnds, TunnelStops, TunnelCloses
<1>10. CASE DeadlinePasses BY <1>10 DEF DeadlinePasses
<1>11. ClientSends \/ ClientLeaves \/ StopRequested \/ ServerCancels \/ UNCHANGED vars
        => UNCHANGED <<late, replyChan>>
  BY DEF ClientSends, ClientLeaves, StopRequested, ServerCancels, vars
<1> QED
  BY <1>1, <1>2, <1>3, <1>4, <1>5, <1>6, <1>7, <1>8, <1>9, <1>10, <1>11
     DEF Next, WriteStep, PushStep

\* A goroutine that waits on the full reply channel of a worker whose group is
\* cancelled gets away, whatever the client does and with any number of packs
\* before it.  Once the read loop is gone nothing extends the deadline, so the
\* write loop fails on its next pack and the worker closes the channel, or it
\* finds the channel empty, and there is room.
THEOREM PusherGetsAway ==
  ASSUME NEW CONSTANT p \in Pushers
  PROVE  []StepsEnabled /\ []PushEnabled(p) /\ FairSpec /\ WF_vars(PushStep(p))
           => (cancelled /\ push[p] \in {"found", "checked"}
                 ~> push[p] \in {"accepted", "refused", "panicked"})
<1> DEFINE Fair == []StepsEnabled /\ []PushEnabled(p) /\ FairSpec /\ WF_vars(PushStep(p))
           N == cancelled /\ push[p] = "found"
           K == cancelled /\ push[p] = "checked"
           A == push[p] \in {"accepted", "refused", "panicked"}
           U == Unwinding
           E == At("write", "exited")
           D == serve = "done"
           R == At("read", "exited")
           S(x) == K /\ serve = x
           L == K /\ serve = "wait" /\ R /\ late
           B1 == L /\ At("write", "running")
           B2 == L /\ At("write", "ranging") /\ replyChan = <<>>
           B3 == L /\ At("write", "ranging") /\ replyChan # <<>>
           B4 == L /\ At("write", "writing")
           V == K /\ serve = "wait" /\ R /\ ~late
<1>1. LiveInv /\ K /\ [Next]_vars => K' \/ A'
  BY PushMoves, EndStep DEF LiveInv
<1>2. LiveInv /\ N /\ [Next]_vars => N' \/ K' \/ A'
  BY PushMoves, EndStep DEF LiveInv
<1>3. LiveInv /\ <<PushStep(p)>>_vars => ~N'
  BY DEF PushStep, PushChecks, PushSends, PushPanics, LiveInv, TypeOK, ControlType
<1>4. LiveInv /\ K /\ <<PushStep(p)>>_vars => A'
  BY DEF PushStep, PushChecks, PushSends, PushPanics, LiveInv, TypeOK, ControlType
<1>5. PushEnabled(p) /\ N => ENABLED <<PushStep(p)>>_vars
  BY DEF PushEnabled
<1>6. LiveInv /\ D /\ [Next]_vars => D'
  <2> SUFFICES ASSUME D, [Next]_vars PROVE D'
    OBVIOUS
  <2>1. ~ServeStep
    BY DEF ServeStep, StartSucceeds, StartFails, PutBucket, AfterConnect, Run,
       RunReturns, Del, BeginStop, CloseReplyChan, AwaitWriter, Release, AfterDisconnect
  <2> QED
    BY <2>1, OnlyServeMoves
<1>7. LiveInv /\ PushEnabled(p) /\ K /\ D => ENABLED <<PushStep(p)>>_vars
  BY DEF PushEnabled, LiveInv, EffectInv, AfterClose
<1>8. LiveInv /\ ~E /\ L /\ [Next]_vars => L' \/ A'
  <2> SUFFICES ASSUME LiveInv, ~E, L, [Next]_vars, ~A' PROVE L'
    OBVIOUS
  <2>1. serve' = "wait"
    <3>1. ~ServeStep
      BY DEF ServeStep, StartSucceeds, StartFails, PutBucket, AfterConnect, Run,
         RunReturns, Del, BeginStop, CloseReplyChan, AwaitWriter, Release, AfterDisconnect
    <3> QED
      BY <3>1, OnlyServeMoves
  <2>2. R' /\ late'
    BY ExitedStays, DeadlineAndChannel DEF At
  <2> QED
    BY <1>1, <2>1, <2>2
<1>9. LiveInv /\ B1 /\ [Next]_vars => B1' \/ B2' \/ B3' \/ A'
  <2> SUFFICES ASSUME LiveInv, B1, [Next]_vars, ~A' PROVE group'["write"] \in {"running", "ranging"}
    BY <1>8 DEF At
  <2> QED
    BY OwnMoves DEF WriteStep, WriteStart, WriteTake, WritePack, WriteExits, WriteFails,
       Drained, At, Goto, LiveInv, TypeOK, ControlType
<1>10. LiveInv /\ B2 /\ [Next]_vars => B2' \/ B3' \/ A'
  <2> SUFFICES ASSUME LiveInv, B2, [Next]_vars, ~A' PROVE group'["write"] = "ranging"
    BY <1>8 DEF At
  <2>1. ~replyClosed
    BY DEF LiveInv, EffectInv, AfterClose
  <2> QED
    BY <2>1, OwnMoves DEF WriteStep, WriteStart, WriteTake, WritePack, WriteExits, WriteFails,
       Drained, At, Goto, LiveInv, TypeOK, ControlType
<1>11. LiveInv /\ B3 /\ [Next]_vars => B3' \/ B4' \/ A'
  <2> SUFFICES ASSUME LiveInv, B3, [Next]_vars, ~A'
               PROVE  group'["write"] = "writing"
                      \/ (group'["write"] = "ranging" /\ replyChan' # <<>>)
    BY <1>8 DEF At
  <2>1. CASE WriteTake
    BY <2>1 DEF WriteTake, Goto, LiveInv, TypeOK, ControlType
  <2>2. CASE ~WriteTake
    <3>1. ~WriteStep
      BY <2>2 DEF WriteStep, WriteStart, WritePack, WriteExits, WriteFails, Drained, At
    <3> QED
      BY <2>2, <3>1, OwnMoves, DeadlineAndChannel DEF At
  <2> QED
    BY <2>1, <2>2
<1>12. LiveInv /\ B4 /\ [Next]_vars => B4' \/ (K /\ E)' \/ A'
  <2> SUFFICES ASSUME LiveInv, B4, [Next]_vars, ~A' PROVE group'["write"] \in {"writing", "exited"}
    BY <1>1, <1>8 DEF At
  <2> QED
    BY OwnMoves DEF WriteStep, WriteStart, WriteTake, WritePack, WriteExits, WriteFails,
       Drained, At, Goto, LiveInv, TypeOK, ControlType
<1>13. LiveInv /\ <<WriterRuns>>_vars => ~B1' /\ (B3 => ~B3') /\ (B4 => ~B4')
  BY DEF WriterRuns, WriteStart, WriteTake, WriteExits, WriteFails, Drained, At, Goto,
     LiveInv, TypeOK, ControlType
<1>14. StepsEnabled /\ (B1 \/ B3 \/ B4) => ENABLED <<WriterRuns>>_vars
  BY DEF StepsEnabled
<1>15. LiveInv /\ PushEnabled(p) /\ B2 => ENABLED <<PushStep(p)>>_vars
  BY SizesAssumption DEF PushEnabled
<1>16. LiveInv /\ V /\ [Next]_vars => V' \/ L' \/ (K /\ U)' \/ A'
  <2> SUFFICES ASSUME LiveInv, V, [Next]_vars, ~A' PROVE serve' \in {"wait"} \cup AfterRun
    BY <1>1, ExitedStays DEF Unwinding, At
  <2>1. CASE ServeStep
    BY <2>1 DEF ServeStep, StartSucceeds, StartFails, PutBucket, AfterConnect, Run,
       RunReturns, Del, BeginStop, CloseReplyChan, AwaitWriter, Release, AfterDisconnect, AfterRun
  <2> QED
    BY <2>1, OnlyServeMoves
<1>17. LiveInv /\ V /\ <<DeadlineRuns>>_vars => ~V'
  BY DEF DeadlineRuns, DeadlinePasses
<1>18. LiveInv /\ StepsEnabled /\ V => ENABLED <<DeadlineRuns>>_vars
  BY DEF StepsEnabled, LiveInv, EffectInv
<1>19. LiveInv /\ L => B1 \/ B2 \/ B3 \/ B4 \/ (K /\ E)
  BY DEF LiveInv, PointInv, At
<1>20. LiveInv /\ K /\ R => V \/ L \/ (K /\ U)
  BY DEF LiveInv, GroupInv, TypeOK, ControlType, At, Unwinding, AfterRun
<1>21. LiveInv /\ S("wait") => cancelled /\ ~At("read", "none")
  BY DEF LiveInv, PointInv, At
<1>22. ASSUME LiveInv, K, [Next]_vars, ~A'
       PROVE  /\ serve = "put" => S("put")' \/ S("connect")'
              /\ serve = "connect" => S("connect")' \/ S("run")' \/ (K /\ U)'
              /\ serve = "run" => S("run")' \/ S("wait")'
  <2>1. CASE ServeStep
    BY <1>1, <1>22, <2>1 DEF ServeStep, StartSucceeds, StartFails, PutBucket, AfterConnect, Run,
       RunReturns, Del, BeginStop, CloseReplyChan, AwaitWriter, Release, AfterDisconnect,
       Unwinding, AfterRun
  <2> QED
    BY <1>1, <1>22, <2>1, OnlyServeMoves
<1>23. LiveInv /\ <<ServeStep>>_vars
         => (S("put") => ~S("put")') /\ (S("connect") => ~S("connect")') /\ (S("run") => ~S("run")')
  BY DEF ServeStep, StartSucceeds, StartFails, PutBucket, AfterConnect, Run,
     RunReturns, Del, BeginStop, CloseReplyChan, AwaitWriter, Release, AfterDisconnect
<1>24. StepsEnabled /\ (S("put") \/ S("connect") \/ S("run")) => ENABLED <<ServeStep>>_vars
  BY DEF StepsEnabled
<1>25. LiveInv /\ K => S("start") \/ S("put") \/ S("connect") \/ S("run") \/ S("wait") \/ (K /\ U)
  BY DEF LiveInv, TypeOK, ControlType, Unwinding, AfterRun
<1>26. cancelled /\ push[p] \in {"found", "checked"} => N \/ K
  OBVIOUS
<1>27. (S("start") <=> K /\ serve = "start") /\ (V => K) /\ (L => K) /\ (S("wait") => K)
       /\ (B2 => K) /\ (serve # "start" => ~(serve = "start"))
  OBVIOUS
<1>28. /\ LiveInv /\ S("put") /\ [Next]_vars => S("put")' \/ S("connect")' \/ A'
       /\ LiveInv /\ S("connect") /\ [Next]_vars
            => S("connect")' \/ S("run")' \/ (K /\ U)' \/ A'
       /\ LiveInv /\ S("run") /\ [Next]_vars => S("run")' \/ S("wait")' \/ A'
  BY <1>22
<1>29. Fair => (E ~> D) /\ (U ~> D) /\ (cancelled /\ ~At("read", "none") ~> R)
       /\ (serve = "start" ~> serve # "start")
  BY WriterEndsAll, ServeEnds, ReadEnds, HandshakeIsBounded, PTL DEF WriterEndsWorker, HandshakeEnds
<1>30. Fair => []LiveInv /\ [][Next]_vars /\ WF_vars(ServeStep) /\ WF_vars(WriterRuns)
               /\ WF_vars(DeadlineRuns)
  BY LiveInvariant, PTL DEF FairSpec, Spec, Fairness
<1> HIDE DEF N, K, A, U, E, D, R, S, L, B1, B2, B3, B4, V
<1>31. Fair => (N ~> K \/ A)
  BY <1>2, <1>3, <1>5, <1>30, PTL
<1>32. Fair => (K /\ D ~> A)
  BY <1>1, <1>4, <1>6, <1>7, <1>30, PTL
<1>33. Fair => (K /\ U ~> A) /\ (K /\ E ~> A)
  BY <1>1, <1>29, <1>30, <1>32, PTL
<1>34. Fair => (B4 ~> A)
  BY <1>12, <1>13, <1>14, <1>30, <1>33, PTL
<1>35. Fair => (B3 ~> A)
  BY <1>11, <1>13, <1>14, <1>30, <1>34, PTL
<1>36. Fair => (B2 ~> A)
  BY <1>4, <1>10, <1>15, <1>27, <1>30, <1>35, PTL
<1>37. Fair => (B1 ~> A)
  BY <1>9, <1>13, <1>14, <1>30, <1>35, <1>36, PTL
<1>38. Fair => (L ~> A)
  BY <1>19, <1>30, <1>33, <1>34, <1>35, <1>36, <1>37, PTL
<1>39. Fair => (V ~> A)
  BY <1>16, <1>17, <1>18, <1>30, <1>33, <1>38, PTL
<1>40. Fair => (S("wait") ~> A)
  BY <1>1, <1>20, <1>21, <1>27, <1>29, <1>30, <1>33, <1>38, <1>39, PTL
<1>41. Fair => (S("run") ~> A)
  BY <1>23, <1>24, <1>28, <1>30, <1>40, PTL
<1>42. Fair => (S("connect") ~> A)
  BY <1>23, <1>24, <1>28, <1>30, <1>33, <1>41, PTL
<1>43. Fair => (S("put") ~> A)
  BY <1>23, <1>24, <1>28, <1>30, <1>42, PTL
<1>44. Fair => (K ~> A)
  BY <1>1, <1>25, <1>27, <1>29, <1>30, <1>33, <1>40, <1>41, <1>42, <1>43, PTL
<1>45. Fair => (N \/ K ~> A)
  BY <1>31, <1>44, PTL
<1> QED
  BY <1>26, <1>45, PTL DEF A
==============================================================================
