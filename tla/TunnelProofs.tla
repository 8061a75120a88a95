---------------------------- MODULE TunnelProofs -----------------------------
(***************************************************************************)
(* Proofs about Tunnel, for every number of messages and packets, every    *)
(* channel capacity and both readings of IsStopping: the loops end before  *)
(* csChan is closed, the tunnel implements the life cycle the worker       *)
(* relies on, a pooled message has one owner, packets keep their order and *)
(* content, and a tunnel whose stream has ended winds down.                *)
(***************************************************************************)
EXTENDS Tunnel, SequenceTheorems, TLAPS

\* The group is over once run has gone on to stop.
GroupInv == run # "wait" => watch = "exited" /\ cs = "exited" /\ sc = "exited"

\* csChan is closed by stop, and by nothing else.
ClosedInv == closed <=> run \in {"onstop", "done"}

\* The tunnel is marked as stopping before csChan is closed.
PhaseInv == stopper.phase # "live" => run \in {"close", "onstop", "done"}

\* The holder stops a tunnel when no packet is being forwarded to it.
TriggerInv == stopper.triggered => forward \notin {"called", "made"}

USE DEF forwardVars, msgVars, chanVars, groupVars, streamVars, stopVars, vars,
        StopperType, StopPhases

------------------------------------------------------------------------------
\* Every step keeps the control points.
LEMMA ControlStep == ControlType /\ [Next]_vars => ControlType'
<1> SUFFICES ASSUME ControlType, [Next]_vars PROVE ControlType'
  OBVIOUS
<1> USE DEF ControlType
<1>1. CASE ForwardStep
  BY <1>1 DEF ForwardStep, ForwardCalled, ForwardRefuses, Transform, ForwardSends, ForwardPanics
<1>2. CASE Watch \/ CsStep
  BY <1>2 DEF Watch, CsStep, CsQuits, CsTakes, CsSends, CsSendFails
<1>3. CASE ScStep
  BY <1>3 DEF ScStep, ScReceives, ScPush, ScPushFails, ScFails
<1>4. CASE StopStep
  BY <1>4 DEF StopStep, GroupStops, BeginStop, CloseChan, OnStop
<1>5. CASE ParentEnds \/ HolderStops \/ BackendEnds \/ UNCHANGED vars
  BY <1>5 DEF ParentEnds, HolderStops, BackendEnds
<1> QED
  BY <1>1, <1>2, <1>3, <1>4, <1>5 DEF Next

\* Only Tunnel.run itself and the holder touch run, closed and the stopper.
LEMMA OnlyStopMoves ==
  ForwardStep \/ Watch \/ CsStep \/ ScStep \/ ParentEnds \/ BackendEnds \/ UNCHANGED vars
    => UNCHANGED <<run, closed, stopper>>
BY DEF ForwardStep, ForwardCalled, ForwardRefuses, Transform, ForwardSends, ForwardPanics,
   Watch, CsStep, CsQuits, CsTakes, CsSends, CsSendFails, ScStep, ScReceives, ScPush, ScPushFails, ScFails,
   ParentEnds, BackendEnds

\* Every step keeps GroupInv: a goroutine that has returned does not start again.
LEMMA GroupStep == GroupInv /\ [Next]_vars => GroupInv'
<1> SUFFICES ASSUME GroupInv, [Next]_vars PROVE GroupInv'
  OBVIOUS
<1> USE DEF GroupInv
<1>1. CASE ForwardStep
  BY <1>1 DEF ForwardStep, ForwardCalled, ForwardRefuses, Transform, ForwardSends, ForwardPanics
<1>2. CASE Watch \/ CsStep
  BY <1>2 DEF Watch, CsStep, CsQuits, CsTakes, CsSends, CsSendFails
<1>3. CASE ScStep
  BY <1>3 DEF ScStep, ScReceives, ScPush, ScPushFails, ScFails
<1>4. CASE StopStep
  BY <1>4 DEF StopStep, GroupStops, BeginStop, CloseChan, OnStop
<1>5. CASE ParentEnds \/ HolderStops \/ BackendEnds \/ UNCHANGED vars
  BY <1>5 DEF ParentEnds, HolderStops, BackendEnds
<1> QED
  BY <1>1, <1>2, <1>3, <1>4, <1>5 DEF Next

\* Every step keeps ClosedInv.
LEMMA ClosedStep == ClosedInv /\ [Next]_vars => ClosedInv'
<1> SUFFICES ASSUME ClosedInv, [Next]_vars PROVE ClosedInv'
  OBVIOUS
<1> USE DEF ClosedInv
<1>1. CASE UNCHANGED <<run, closed>>
  BY <1>1
<1>2. CASE HolderStops
  BY <1>1, <1>2 DEF HolderStops
<1>3. CASE GroupStops
  BY <1>3 DEF GroupStops
<1>4. CASE BeginStop
  BY <1>4 DEF BeginStop
<1>5. CASE CloseChan
  BY <1>5 DEF CloseChan
<1>6. CASE OnStop
  BY <1>6 DEF OnStop
<1> QED
  BY <1>1, <1>2, <1>3, <1>4, <1>5, <1>6, OnlyStopMoves DEF Next, StopStep

\* Every step keeps the stopper a stopper, and PhaseInv.
LEMMA PhaseStep ==
  stopper \in StopperType /\ PhaseInv /\ [Next]_vars => (stopper \in StopperType /\ PhaseInv)'
<1> SUFFICES ASSUME stopper \in StopperType, PhaseInv, [Next]_vars
             PROVE  (stopper \in StopperType /\ PhaseInv)'
  OBVIOUS
<1> USE DEF PhaseInv
<1>1. CASE UNCHANGED <<run, closed, stopper>>
  BY <1>1
<1>2. CASE HolderStops
  BY <1>2 DEF HolderStops, TriggerStop
<1>3. CASE GroupStops
  BY <1>3 DEF GroupStops
<1>4. CASE BeginStop
  BY <1>4 DEF BeginStop, EnterDoStop
<1>5. CASE CloseChan
  BY <1>5 DEF CloseChan
<1>6. CASE OnStop
  BY <1>6 DEF OnStop, LeaveDoStop
<1> QED
  BY <1>1, <1>2, <1>3, <1>4, <1>5, <1>6, OnlyStopMoves DEF Next, StopStep

\* Every step keeps TriggerInv.
LEMMA TriggerStep ==
  stopper \in StopperType /\ TriggerInv /\ [Next]_vars => TriggerInv'
<1> SUFFICES ASSUME stopper \in StopperType, TriggerInv, [Next]_vars PROVE TriggerInv'
  OBVIOUS
<1> USE DEF TriggerInv
<1>1. CASE UNCHANGED <<forward, stopper>>
  BY <1>1
<1>2. CASE ForwardCalled
  BY <1>2 DEF ForwardCalled
<1>3. CASE ForwardRefuses \/ ForwardSends \/ ForwardPanics
  BY <1>3 DEF ForwardRefuses, ForwardSends, ForwardPanics
<1>4. CASE Transform
  BY <1>4 DEF Transform
<1>5. CASE HolderStops
  BY <1>5 DEF HolderStops
<1>6. CASE BeginStop \/ OnStop
  <2>1. stopper'.triggered = stopper.triggered /\ forward' = forward
    BY <1>6 DEF BeginStop, OnStop, EnterDoStop, LeaveDoStop
  <2> QED
    BY <2>1
<1>7. CASE Watch \/ CsStep \/ ScStep \/ GroupStops \/ CloseChan \/ ParentEnds \/ BackendEnds
           \/ UNCHANGED vars
  <2>1. UNCHANGED <<forward, stopper>>
    BY <1>7 DEF Watch, CsStep, CsQuits, CsTakes, CsSends, CsSendFails, ScStep, ScReceives,
       ScPush, ScPushFails, ScFails, GroupStops, CloseChan, ParentEnds, BackendEnds
  <2> QED
    BY <1>1, <2>1
<1> QED
  BY <1>2, <1>3, <1>4, <1>5, <1>6, <1>7 DEF Next, ForwardStep, StopStep

------------------------------------------------------------------------------
\* csLoop has returned before csChan is closed: it never handles the nil of a
\* closed channel, and never sends after CloseSend.
THEOREM LoopsEnd == Spec => []LoopsEndBeforeClose
<1>1. Init => GroupInv /\ ClosedInv
  BY DEF Init, GroupInv, ClosedInv
<1>2. GroupInv /\ ClosedInv => LoopsEndBeforeClose
  BY DEF GroupInv, ClosedInv, LoopsEndBeforeClose
<1> QED
  BY <1>1, <1>2, GroupStep, ClosedStep, PTL DEF Spec

------------------------------------------------------------------------------
\* Every step of the tunnel is, through the refinement mapping, a step of
\* TunnelLife or none.
LEMMA LifeStep ==
  ASSUME ControlType, stopper \in StopperType, ClosedInv, PhaseInv, TriggerInv, [Next]_vars
  PROVE  [Life!Next]_(Life!vars)
<1> USE DEF ControlType, Life!vars
<1>1. ASSUME UNCHANGED <<run, forward>> PROVE UNCHANGED Life!vars
  BY <1>1
<1>2. CASE ForwardCalled
  BY <1>2 DEF ForwardCalled, Life!Next, Life!Begins
<1>3. CASE ForwardRefuses
  <2>1. stopper.phase # "live"
    BY <1>3 DEF ForwardRefuses, IsStopping, TriggerInv
  <2>2. run \in {"close", "onstop", "done"} /\ run' = run
    BY <1>3, <2>1 DEF ForwardRefuses, PhaseInv
  <2> QED
    BY <1>3, <2>2 DEF ForwardRefuses, Life!Next, Life!Refuses
<1>4. CASE Transform
  BY <1>4 DEF Transform
<1>5. CASE ForwardSends
  <2>1. run \notin {"onstop", "done"}
    BY <1>5 DEF ForwardSends, ClosedInv
  <2> QED
    BY <1>5, <2>1 DEF ForwardSends, Life!Next, Life!Takes
<1>6. CASE ForwardPanics
  <2>1. run \in {"onstop", "done"}
    BY <1>6 DEF ForwardPanics, ClosedInv
  <2> QED
    BY <1>6, <2>1 DEF ForwardPanics, Life!Next, Life!Refuses
<1>7. CASE GroupStops
  BY <1>7 DEF GroupStops, Life!Next, Life!Ends
<1>8. CASE BeginStop
  BY <1>8 DEF BeginStop, Life!Next, Life!Stops
<1>9. CASE CloseChan
  BY <1>9 DEF CloseChan, Life!Next, Life!Closes
<1>10. CASE OnStop
  BY <1>10 DEF OnStop
<1>11. CASE Watch \/ CsStep \/ ScStep \/ ParentEnds \/ HolderStops \/ BackendEnds
            \/ UNCHANGED vars
  <2>1. UNCHANGED <<run, forward>>
    BY <1>11 DEF Watch, CsStep, CsQuits, CsTakes, CsSends, CsSendFails, ScStep, ScReceives,
       ScPush, ScPushFails, ScFails, ParentEnds, HolderStops, BackendEnds
  <2> QED
    BY <1>1, <2>1
<1> QED
  BY <1>2, <1>3, <1>4, <1>5, <1>6, <1>7, <1>8, <1>9, <1>10, <1>11
     DEF Next, ForwardStep, StopStep

\* The tunnel implements TunnelLife, the life cycle by which Worker models its
\* tunnels: a Forward fails only once the tunnel has begun to stop, and a
\* packet is taken only while csChan is open.
THEOREM TunnelImplementsLife == Spec => ImplementsLife
<1> DEFINE Inv == /\ ControlType /\ stopper \in StopperType /\ ClosedInv
                  /\ PhaseInv /\ TriggerInv
<1>1. Init => Inv
  BY DEF Init, ControlType, NewStopper, ClosedInv, PhaseInv, TriggerInv
<1>2. Inv /\ [Next]_vars => Inv'
  BY ControlStep, ClosedStep, PhaseStep, TriggerStep
<1>3. Init => Life!Init
  BY DEF Init, Life!Init
<1>4. Inv /\ [Next]_vars => [Life!Next]_(Life!vars)
  BY LifeStep
<1> QED
  BY <1>1, <1>2, <1>3, <1>4, PTL DEF Spec, ImplementsLife, Life!Spec
------------------------------------------------------------------------------
(* The messages: where they are, and what is written in them. *)

\* Forward holds a message between making and sending it, with its packet in it;
\* csLoop holds one while it sends.
HandInv ==
  /\ forward = "made" => Len(held) = 1 /\ content[held[1]] = packets
  /\ forward # "made" => held = <<>>
  /\ cs = "sending" => Len(inHand) = 1
  /\ cs # "sending" => inHand = <<>>

\* OneOwner, place by place.
PlaceInv ==
  /\ \A i, j \in DOMAIN csChan : i # j => csChan[i] # csChan[j]
  /\ \A i \in DOMAIN csChan : csChan[i] \notin pool
  /\ \A h \in DOMAIN held : /\ held[h] \notin pool
                            /\ \A i \in DOMAIN csChan : csChan[i] # held[h]
                            /\ \A k \in DOMAIN inHand : inHand[k] # held[h]
  /\ \A k \in DOMAIN inHand : /\ inHand[k] \notin pool
                              /\ \A i \in DOMAIN csChan : csChan[i] # inHand[k]

\* PacketsInOrder, packet by packet.
OrderInv ==
  /\ Len(sent) <= Len(accepted) /\ \A i \in DOMAIN sent : sent[i] = accepted[i]
  /\ cs # "exited" =>
       /\ Len(accepted) = Len(sent) + Len(inHand) + Len(csChan)
       /\ \A k \in DOMAIN inHand : content[inHand[k]] = accepted[Len(sent) + k]
       /\ \A i \in DOMAIN csChan :
            content[csChan[i]] = accepted[Len(sent) + Len(inHand) + i]

MsgInv == MessageType /\ HandInv /\ PlaceInv /\ OrderInv

\* What the head and the tail of a nonempty sequence are.
LEMMA TailFacts ==
  ASSUME NEW S, NEW s \in Seq(S), s # <<>>
  PROVE  /\ Head(s) \in S /\ Head(s) = s[1] /\ 1 \in DOMAIN s
         /\ Tail(s) \in Seq(S) /\ Len(s) \in Nat /\ Len(Tail(s)) = Len(s) - 1
         /\ \A i \in DOMAIN Tail(s) : i \in Nat /\ i + 1 \in DOMAIN s /\ Tail(s)[i] = s[i + 1]
OBVIOUS

\* What a sequence with one more element is.
LEMMA AppendFacts ==
  ASSUME NEW S, NEW s \in Seq(S), NEW e \in S
  PROVE  /\ Append(s, e) \in Seq(S) /\ Len(s) \in Nat /\ Len(Append(s, e)) = Len(s) + 1
         /\ Append(s, e)[Len(s) + 1] = e
         /\ \A i \in DOMAIN s : Append(s, e)[i] = s[i]
         /\ \A i \in DOMAIN Append(s, e) : i \in DOMAIN s \/ i = Len(s) + 1
OBVIOUS

\* What the concatenation of two sequences is.
LEMMA ConcatFacts ==
  ASSUME NEW S, NEW s \in Seq(S), NEW t \in Seq(S)
  PROVE  /\ s \o t \in Seq(S) /\ Len(s) \in Nat /\ Len(t) \in Nat /\ Len(s \o t) = Len(s) + Len(t)
         /\ DOMAIN s = 1..Len(s) /\ DOMAIN t = 1..Len(t) /\ DOMAIN (s \o t) = 1..Len(s \o t)
         /\ \A i \in DOMAIN s : (s \o t)[i] = s[i]
         /\ \A i \in DOMAIN t : (s \o t)[Len(s) + i] = t[i]
         /\ \A i \in DOMAIN (s \o t) : i \in DOMAIN s \/ (i - Len(s) \in DOMAIN t /\ (s \o t)[i] = t[i - Len(s)])
OBVIOUS

\* The elements of a sequence.
LEMMA ElementFacts ==
  ASSUME NEW S, NEW s \in Seq(S)
  PROVE  \A i \in 1..Len(s) : s[i] \in S
OBVIOUS

\* The one element of a sequence of length one.
LEMMA OneFacts ==
  ASSUME NEW S, NEW e \in S
  PROVE  <<e>> \in Seq(S) /\ Len(<<e>>) = 1 /\ DOMAIN <<e>> = {1} /\ <<e>>[1] = e
OBVIOUS

\* The steps that leave the messages where they are.
LEMMA QuietSteps ==
  ForwardCalled \/ ForwardRefuses \/ Watch \/ CsQuits \/ ScStep \/ StopStep \/ ParentEnds
  \/ HolderStops \/ BackendEnds \/ UNCHANGED vars
    => /\ UNCHANGED <<held, pool, content, csChan, inHand, sent, accepted>>
       /\ forward' = "made" <=> forward = "made"
       /\ cs' = "sending" <=> cs = "sending"
       /\ cs = "exited" => cs' = "exited"
       /\ packets' = packets \/ (forward # "made" /\ packets < MaxPackets /\ packets' = packets + 1)
BY DEF ForwardCalled, ForwardRefuses, Watch, CsQuits, ScStep, ScReceives, ScPush, ScPushFails, ScFails,
   StopStep, GroupStops, BeginStop, CloseChan, OnStop, ParentEnds, HolderStops, BackendEnds
\* The quiet steps keep MsgInv.
LEMMA QuietKeep ==
  ASSUME MsgInv, UNCHANGED <<held, pool, content, csChan, inHand, sent, accepted>>,
         forward' = "made" <=> forward = "made", cs' = "sending" <=> cs = "sending",
         cs = "exited" => cs' = "exited",
         packets' = packets \/ (forward # "made" /\ packets < MaxPackets /\ packets' = packets + 1)
  PROVE  MsgInv'
<1>1. MessageType'
  BY BoundsAssumption DEF MsgInv, MessageType
<1>2. HandInv'
  BY DEF MsgInv, HandInv
<1>3. PlaceInv'
  BY DEF MsgInv, PlaceInv
<1>4. OrderInv'
  BY DEF MsgInv, OrderInv
<1> QED
  BY <1>1, <1>2, <1>3, <1>4 DEF MsgInv

\* A free message becomes the held one; no other place has it.
LEMMA TransformKeeps == MsgInv /\ Transform => MsgInv'
<1> SUFFICES ASSUME MsgInv, Transform PROVE MsgInv'
  OBVIOUS
<1>1. PICK o \in pool : /\ pool' = pool \ {o} /\ held' = <<o>>
                        /\ content' = [content EXCEPT ![o] = packets]
  BY DEF Transform
<1>2. /\ forward = "called" /\ forward' = "made"
      /\ UNCHANGED <<packets, accepted, csChan, cs, inHand, sent>>
  BY DEF Transform
<1>3. o \in Objects /\ held' \in Seq(Objects) /\ Len(held') = 1 /\ DOMAIN held' = {1}
      /\ held'[1] = o
  BY <1>1, OneFacts DEF MsgInv, MessageType
<1>4. content' \in [Objects -> 0..MaxPackets] /\ content'[o] = packets
      /\ \A m \in Objects : m # o => content'[m] = content[m]
  BY <1>1, <1>3 DEF MsgInv, MessageType
<1>5. /\ \A i \in DOMAIN csChan : csChan[i] \in Objects /\ csChan[i] # o
      /\ \A k \in DOMAIN inHand : inHand[k] \in Objects /\ inHand[k] # o
  BY <1>1 DEF MsgInv, MessageType, PlaceInv
<1>6. MessageType'
  BY <1>1, <1>2, <1>3, <1>4 DEF MsgInv, MessageType
<1>7. HandInv'
  BY <1>2, <1>3, <1>4 DEF MsgInv, HandInv
<1>8. PlaceInv'
  BY <1>1, <1>2, <1>3, <1>5 DEF MsgInv, PlaceInv
<1>9. OrderInv'
  BY <1>2, <1>4, <1>5 DEF MsgInv, OrderInv
<1> QED
  BY <1>6, <1>7, <1>8, <1>9 DEF MsgInv

\* The held message becomes the last of csChan.
LEMMA SendsKeep == MsgInv /\ ForwardSends => MsgInv'
<1> SUFFICES ASSUME MsgInv, ForwardSends PROVE MsgInv'
  OBVIOUS
<1>1. /\ forward = "made" /\ forward' = "idle" /\ held' = <<>> /\ Len(csChan) < ChanSize
      /\ csChan' = csChan \o held /\ accepted' = Append(accepted, packets)
      /\ UNCHANGED <<packets, pool, content, cs, inHand, sent>>
  BY DEF ForwardSends
<1>2. Len(held) = 1 /\ content[held[1]] = packets
  BY <1>1 DEF MsgInv, HandInv
<1>3. csChan \in Seq(Objects) /\ held \in Seq(Objects) /\ inHand \in Seq(Objects)
  BY DEF MsgInv, MessageType
<1>4. /\ csChan' \in Seq(Objects) /\ Len(csChan) \in Nat /\ Len(csChan') = Len(csChan) + 1
      /\ DOMAIN csChan = 1..Len(csChan) /\ DOMAIN held = {1} /\ DOMAIN csChan' = 1..Len(csChan')
      /\ \A i \in DOMAIN csChan : csChan'[i] = csChan[i]
      /\ csChan'[Len(csChan) + 1] = held[1]
  <2> DEFINE longer == csChan \o held
  <2>1. /\ longer \in Seq(Objects) /\ Len(csChan) \in Nat /\ Len(longer) = Len(csChan) + Len(held)
        /\ DOMAIN csChan = 1..Len(csChan) /\ DOMAIN held = 1..Len(held)
        /\ DOMAIN longer = 1..Len(longer)
        /\ \A i \in DOMAIN csChan : longer[i] = csChan[i]
        /\ \A i \in DOMAIN held : longer[Len(csChan) + i] = held[i]
    BY <1>3, ConcatFacts
  <2>2. csChan' = longer
    BY <1>1
  <2> HIDE DEF longer
  <2>3. DOMAIN held = {1}
    BY <1>2, <2>1
  <2> QED
    BY <1>2, <2>1, <2>2, <2>3
<1>5. /\ accepted' \in Seq(0..MaxPackets) /\ Len(accepted) \in Nat
      /\ Len(accepted') = Len(accepted) + 1 /\ accepted'[Len(accepted) + 1] = packets
      /\ \A i \in DOMAIN accepted : accepted'[i] = accepted[i]
      /\ DOMAIN accepted = 1..Len(accepted)
  BY <1>1, AppendFacts DEF MsgInv, MessageType
<1>6. MessageType'
  BY <1>1, <1>4, <1>5, BoundsAssumption DEF MsgInv, MessageType
<1>7. HandInv'
  BY <1>1 DEF MsgInv, HandInv
<1>8. PlaceInv'
  <2>1. ASSUME NEW i \in DOMAIN csChan'
        PROVE  \/ i \in DOMAIN csChan /\ csChan'[i] = csChan[i]
               \/ i = Len(csChan) + 1 /\ csChan'[i] = held[1]
    <3>1. i \in DOMAIN csChan \/ i = Len(csChan) + 1
      BY <1>4
    <3> QED
      BY <1>4, <3>1
  <2>2. DOMAIN held' = {}
    BY <1>1
  <2> QED
    BY <1>1, <1>4, <2>1, <2>2 DEF MsgInv, PlaceInv
<1>9. OrderInv'
  <2>1. sent \in Seq(0..MaxPackets) /\ Len(sent) \in Nat /\ Len(inHand) \in Nat
        /\ DOMAIN sent = 1..Len(sent) /\ DOMAIN inHand = 1..Len(inHand)
    BY <1>3 DEF MsgInv, MessageType
  <2>2. Len(sent') <= Len(accepted') /\ \A i \in DOMAIN sent' : sent'[i] = accepted'[i]
    <3>1. Len(sent) <= Len(accepted) /\ \A i \in DOMAIN sent : sent[i] = accepted[i]
      BY DEF MsgInv, OrderInv
    <3>2. \A i \in DOMAIN sent : i \in DOMAIN accepted
      BY <1>5, <2>1, <3>1
    <3>3. Len(sent) <= Len(accepted')
      BY <1>5, <2>1, <3>1
    <3> QED
      BY <1>1, <1>5, <3>1, <3>2, <3>3
  <2> SUFFICES ASSUME cs' # "exited"
               PROVE  /\ Len(accepted') = Len(sent') + Len(inHand') + Len(csChan')
                      /\ \A k \in DOMAIN inHand' : content'[inHand'[k]] = accepted'[Len(sent') + k]
                      /\ \A i \in DOMAIN csChan' :
                           content'[csChan'[i]] = accepted'[Len(sent') + Len(inHand') + i]
    BY <2>2 DEF OrderInv
  <2>3. /\ Len(accepted) = Len(sent) + Len(inHand) + Len(csChan)
        /\ \A k \in DOMAIN inHand : content[inHand[k]] = accepted[Len(sent) + k]
        /\ \A i \in DOMAIN csChan : content[csChan[i]] = accepted[Len(sent) + Len(inHand) + i]
    BY <1>1 DEF MsgInv, OrderInv
  <2>4. \A k \in DOMAIN inHand' : content'[inHand'[k]] = accepted'[Len(sent') + k]
    BY <1>1, <1>4, <1>5, <2>1, <2>3
  <2>5. \A i \in DOMAIN csChan' : content'[csChan'[i]] = accepted'[Len(sent') + Len(inHand') + i]
    <3> SUFFICES ASSUME NEW i \in DOMAIN csChan'
                 PROVE  content[csChan'[i]] = accepted'[Len(sent) + Len(inHand) + i]
      BY <1>1
    <3>1. CASE i \in DOMAIN csChan
      BY <1>4, <1>5, <2>1, <2>3, <3>1
    <3>2. CASE i = Len(csChan) + 1
      BY <1>2, <1>4, <1>5, <2>1, <2>3, <3>2
    <3> QED
      BY <1>4, <3>1, <3>2
  <2>6. Len(accepted) + 1 = Len(sent) + Len(inHand) + (Len(csChan) + 1)
    BY <1>4, <2>1, <2>3
  <2>7. Len(accepted') = Len(sent') + Len(inHand') + Len(csChan')
    BY <1>1, <1>4, <1>5, <2>6, Zenon
  <2> QED
    BY <2>4, <2>5, <2>7
<1> QED
  BY <1>6, <1>7, <1>8, <1>9 DEF MsgInv

\* A panic in the send drops the held message.
LEMMA PanicKeeps == MsgInv /\ ForwardPanics => MsgInv'
<1> SUFFICES ASSUME MsgInv, ForwardPanics PROVE MsgInv'
  OBVIOUS
<1>1. /\ forward' = "panicked" /\ held' = <<>> /\ <<>> \in Seq(Objects) /\ DOMAIN held' = {}
      /\ UNCHANGED <<packets, pool, content, csChan, cs, inHand, sent, accepted>>
  BY DEF ForwardPanics
<1>2. MessageType'
  BY <1>1 DEF MsgInv, MessageType
<1>3. HandInv'
  BY <1>1 DEF MsgInv, HandInv
<1>4. PlaceInv'
  BY <1>1 DEF MsgInv, PlaceInv
<1>5. OrderInv'
  BY <1>1 DEF MsgInv, OrderInv
<1> QED
  BY <1>2, <1>3, <1>4, <1>5 DEF MsgInv
\* The first message of csChan goes to csLoop's hand.
LEMMA TakesKeep == MsgInv /\ CsTakes => MsgInv'
<1> SUFFICES ASSUME MsgInv, CsTakes PROVE MsgInv'
  OBVIOUS
<1>1. /\ cs = "select" /\ cs' = "sending" /\ csChan # <<>>
      /\ inHand' = <<Head(csChan)>> /\ csChan' = Tail(csChan)
      /\ UNCHANGED <<forward, held, packets, pool, content, sent, accepted>>
  BY DEF CsTakes
<1>2. inHand = <<>> /\ Len(inHand) = 0 /\ Len(sent) \in Nat
  BY <1>1 DEF MsgInv, HandInv, MessageType
<1>3. /\ Head(csChan) \in Objects /\ Head(csChan) = csChan[1] /\ 1 \in DOMAIN csChan
      /\ csChan' \in Seq(Objects) /\ Len(csChan) \in Nat /\ Len(csChan') = Len(csChan) - 1
      /\ \A i \in DOMAIN csChan' : i \in Nat /\ i + 1 \in DOMAIN csChan /\ csChan'[i] = csChan[i + 1]
  BY <1>1, TailFacts DEF MsgInv, MessageType
<1>4. inHand' \in Seq(Objects) /\ Len(inHand') = 1 /\ DOMAIN inHand' = {1}
      /\ inHand'[1] = csChan[1]
  BY <1>1, <1>3, OneFacts
<1>5. MessageType'
  BY <1>1, <1>3, <1>4, BoundsAssumption DEF MsgInv, MessageType
<1>6. HandInv'
  BY <1>1, <1>4 DEF MsgInv, HandInv
<1>7. PlaceInv'
  <2>1. \A i \in DOMAIN csChan' : csChan'[i] # csChan[1] /\ csChan'[i] \notin pool
    BY <1>3 DEF MsgInv, PlaceInv
  <2>2. \A i, j \in DOMAIN csChan' : i # j => csChan'[i] # csChan'[j]
    BY <1>3 DEF MsgInv, PlaceInv
  <2>3. \A h \in DOMAIN held : /\ held[h] \notin pool /\ csChan[1] # held[h]
                               /\ \A i \in DOMAIN csChan' : csChan'[i] # held[h]
    BY <1>3 DEF MsgInv, PlaceInv
  <2>4. csChan[1] \notin pool
    BY <1>3 DEF MsgInv, PlaceInv
  <2> QED
    BY <1>1, <1>4, <2>1, <2>2, <2>3, <2>4 DEF PlaceInv
<1>8. OrderInv'
  <2>1. /\ Len(sent) <= Len(accepted) /\ \A i \in DOMAIN sent : sent[i] = accepted[i]
        /\ Len(accepted) = Len(sent) + Len(inHand) + Len(csChan)
        /\ \A i \in DOMAIN csChan : content[csChan[i]] = accepted[Len(sent) + Len(inHand) + i]
    BY <1>1 DEF MsgInv, OrderInv
  <2>2. Len(accepted) = Len(sent) + Len(inHand') + Len(csChan')
    BY <1>2, <1>3, <1>4, <2>1
  <2>3. content[inHand'[1]] = accepted[Len(sent) + 1]
    BY <1>2, <1>3, <1>4, <2>1
  <2>4. \A i \in DOMAIN csChan' : content[csChan'[i]] = accepted[Len(sent) + Len(inHand') + i]
    <3> SUFFICES ASSUME NEW i \in DOMAIN csChan'
                 PROVE  content[csChan'[i]] = accepted[Len(sent) + Len(inHand') + i]
      OBVIOUS
    <3>1. content[csChan[i + 1]] = accepted[Len(sent) + Len(inHand) + (i + 1)]
      BY <1>3, <2>1
    <3>2. Len(sent) + Len(inHand) + (i + 1) = Len(sent) + Len(inHand') + i
      BY <1>2, <1>3, <1>4
    <3> QED
      BY <1>3, <3>1, <3>2
  <2> QED
    BY <1>1, <1>4, <2>1, <2>2, <2>3, <2>4 DEF OrderInv
<1> QED
  BY <1>5, <1>6, <1>7, <1>8 DEF MsgInv

\* A message that is put back was in csLoop's hand and nowhere else; the
\* contents of the others stay.
LEMMA PutFacts ==
  ASSUME MsgInv, cs = "sending", PutMessage, cs' # "sending",
         UNCHANGED <<forward, held, packets, csChan, accepted>>
  PROVE  /\ inHand \in Seq(Objects) /\ Len(inHand) = 1 /\ DOMAIN inHand = {1} /\ inHand[1] \in Objects
         /\ inHand' = <<>> /\ Len(inHand') = 0 /\ DOMAIN inHand' = {} /\ inHand' \in Seq(Objects)
         /\ pool' \in SUBSET Objects /\ content' \in [Objects -> 0..MaxPackets]
         /\ \A i \in DOMAIN csChan : content'[csChan[i]] = content[csChan[i]]
         /\ HandInv' /\ PlaceInv'
<1>1. /\ inHand \in Seq(Objects) /\ Len(inHand) = 1 /\ DOMAIN inHand = {1} /\ inHand[1] \in Objects
  <2>1. inHand \in Seq(Objects) /\ Len(inHand) = 1
    BY DEF MsgInv, HandInv, MessageType
  <2> QED
    BY <2>1
<1>2. /\ inHand' = <<>> /\ Len(inHand') = 0 /\ DOMAIN inHand' = {} /\ inHand' \in Seq(Objects)
      /\ pool' = pool \union {inHand[1]} /\ content' = [content EXCEPT ![inHand[1]] = 0]
  BY DEF PutMessage
<1>3. content' \in [Objects -> 0..MaxPackets]
      /\ \A m \in Objects : m # inHand[1] => content'[m] = content[m]
  BY <1>1, <1>2, BoundsAssumption DEF MsgInv, MessageType
<1>4. \A i \in DOMAIN csChan : csChan[i] \in Objects /\ csChan[i] # inHand[1]
  BY <1>1 DEF MsgInv, MessageType, PlaceInv
<1>5. \A h \in DOMAIN held : held[h] \in Objects /\ held[h] # inHand[1]
  BY <1>1 DEF MsgInv, MessageType, PlaceInv
<1>6. HandInv'
  <2>1. forward = "made" => 1 \in DOMAIN held
    BY DEF MsgInv, HandInv, MessageType
  <2> QED
    BY <1>2, <1>3, <1>5, <2>1 DEF MsgInv, HandInv
<1>7. PlaceInv'
  BY <1>2, <1>4, <1>5 DEF MsgInv, PlaceInv
<1> QED
  BY <1>1, <1>2, <1>3, <1>4, <1>6, <1>7 DEF MsgInv, MessageType

\* A failed send puts the message back; csLoop is over.
LEMMA SendFailsKeeps == MsgInv /\ CsSendFails => MsgInv'
<1> SUFFICES ASSUME MsgInv, CsSendFails PROVE MsgInv'
  OBVIOUS
<1>1. /\ cs = "sending" /\ cs' = "exited" /\ PutMessage
      /\ UNCHANGED <<forward, held, packets, csChan, accepted, sent>>
  BY DEF CsSendFails
<1>2. /\ HandInv' /\ PlaceInv' /\ inHand' \in Seq(Objects) /\ pool' \in SUBSET Objects
      /\ content' \in [Objects -> 0..MaxPackets]
  BY <1>1, PutFacts
<1>3. MessageType'
  BY <1>1, <1>2 DEF MsgInv, MessageType
<1>4. OrderInv'
  BY <1>1 DEF MsgInv, OrderInv
<1> QED
  BY <1>2, <1>3, <1>4 DEF MsgInv
\* What is written in a sequence of messages is a sequence of packets.
LEMMA ContentsFacts ==
  ASSUME NEW ms \in Seq(Objects), content \in [Objects -> 0..MaxPackets]
  PROVE  /\ Contents(ms) \in Seq(0..MaxPackets) /\ Len(Contents(ms)) = Len(ms)
         /\ DOMAIN Contents(ms) = DOMAIN ms
         /\ \A i \in DOMAIN ms : Contents(ms)[i] = content[ms[i]]
<1>1. DOMAIN ms = 1..Len(ms) /\ Len(ms) \in Nat /\ \A i \in 1..Len(ms) : ms[i] \in Objects
  OBVIOUS
<1>2. Contents(ms) = [i \in 1..Len(ms) |-> content[ms[i]]]
  BY <1>1 DEF Contents
<1>3. \A i \in 1..Len(ms) : content[ms[i]] \in 0..MaxPackets
  BY <1>1
<1>4. Contents(ms) \in [1..Len(ms) -> 0..MaxPackets]
  BY <1>2, <1>3
<1> QED
  BY <1>1, <1>2, <1>4

\* The packet in csLoop's hand joins those sent, and its message is put back.
LEMMA CsSendsKeep == MsgInv /\ CsSends => MsgInv'
<1> SUFFICES ASSUME MsgInv, CsSends PROVE MsgInv'
  OBVIOUS
<1>1. /\ cs = "sending" /\ cs' = "select" /\ PutMessage /\ sent' = sent \o Contents(inHand)
      /\ UNCHANGED <<forward, held, packets, csChan, accepted>>
  BY DEF CsSends
<1>2. /\ inHand \in Seq(Objects) /\ Len(inHand) = 1 /\ DOMAIN inHand = {1}
      /\ Len(inHand') = 0 /\ DOMAIN inHand' = {} /\ inHand' \in Seq(Objects)
      /\ pool' \in SUBSET Objects /\ content' \in [Objects -> 0..MaxPackets]
      /\ \A i \in DOMAIN csChan : content'[csChan[i]] = content[csChan[i]]
      /\ HandInv' /\ PlaceInv'
  BY <1>1, PutFacts
<1>3. /\ Contents(inHand) \in Seq(0..MaxPackets) /\ Len(Contents(inHand)) = 1
      /\ DOMAIN Contents(inHand) = {1} /\ Contents(inHand)[1] = content[inHand[1]]
  BY <1>2, ContentsFacts DEF MsgInv, MessageType
<1>4. /\ sent' \in Seq(0..MaxPackets) /\ Len(sent) \in Nat /\ Len(sent') = Len(sent) + 1
      /\ DOMAIN sent = 1..Len(sent) /\ DOMAIN sent' = 1..Len(sent')
      /\ \A i \in DOMAIN sent : sent'[i] = sent[i]
      /\ sent'[Len(sent) + 1] = content[inHand[1]]
  <2> DEFINE longer == sent \o Contents(inHand)
  <2>1. sent \in Seq(0..MaxPackets)
    BY DEF MsgInv, MessageType
  <2>2. /\ longer \in Seq(0..MaxPackets) /\ Len(sent) \in Nat
        /\ Len(longer) = Len(sent) + Len(Contents(inHand))
        /\ DOMAIN sent = 1..Len(sent) /\ DOMAIN longer = 1..Len(longer)
        /\ \A i \in DOMAIN sent : longer[i] = sent[i]
        /\ \A i \in DOMAIN Contents(inHand) : longer[Len(sent) + i] = Contents(inHand)[i]
    BY <1>3, <2>1, ConcatFacts
  <2>3. sent' = longer
    BY <1>1
  <2> HIDE DEF longer
  <2> QED
    BY <1>3, <2>2, <2>3
<1>5. MessageType'
  BY <1>1, <1>2, <1>4 DEF MsgInv, MessageType
<1>6. OrderInv'
  <2>1. /\ Len(sent) <= Len(accepted) /\ \A i \in DOMAIN sent : sent[i] = accepted[i]
        /\ Len(accepted) = Len(sent) + Len(inHand) + Len(csChan)
        /\ \A k \in DOMAIN inHand : content[inHand[k]] = accepted[Len(sent) + k]
        /\ \A i \in DOMAIN csChan : content[csChan[i]] = accepted[Len(sent) + Len(inHand) + i]
    BY <1>1 DEF MsgInv, OrderInv
  <2>2. Len(csChan) \in Nat /\ DOMAIN csChan = 1..Len(csChan)
    BY DEF MsgInv, MessageType
  <2>3. Len(accepted) = Len(sent') + Len(inHand') + Len(csChan) /\ Len(sent') <= Len(accepted)
    BY <1>2, <1>4, <2>1, <2>2
  <2>4. \A i \in DOMAIN sent' : sent'[i] = accepted[i]
    <3> SUFFICES ASSUME NEW i \in DOMAIN sent' PROVE sent'[i] = accepted[i]
      OBVIOUS
    <3>1. i \in DOMAIN sent \/ i = Len(sent) + 1
      BY <1>4
    <3>2. content[inHand[1]] = accepted[Len(sent) + 1]
      BY <1>2, <2>1
    <3> QED
      BY <1>4, <2>1, <3>1, <3>2
  <2>5. \A i \in DOMAIN csChan : content'[csChan[i]] = accepted[Len(sent') + Len(inHand') + i]
    <3> SUFFICES ASSUME NEW i \in DOMAIN csChan
                 PROVE  content'[csChan[i]] = accepted[Len(sent') + Len(inHand') + i]
      OBVIOUS
    <3>1. Len(sent') + Len(inHand') + i = Len(sent) + Len(inHand) + i
      BY <1>2, <1>4, <2>2
    <3>2. content'[csChan[i]] = accepted[Len(sent) + Len(inHand) + i]
      BY <1>2, <2>1
    <3> QED
      BY <3>1, <3>2
  <2> QED
    BY <1>1, <1>2, <2>3, <2>4, <2>5 DEF OrderInv
<1> QED
  BY <1>2, <1>5, <1>6 DEF MsgInv

\* Every step keeps MsgInv.
LEMMA MsgStep == MsgInv /\ [Next]_vars => MsgInv'
<1> SUFFICES ASSUME MsgInv, [Next]_vars PROVE MsgInv'
  OBVIOUS
<1>1. CASE ForwardCalled \/ ForwardRefuses \/ Watch \/ CsQuits \/ ScStep \/ StopStep
           \/ ParentEnds \/ HolderStops \/ BackendEnds \/ UNCHANGED vars
  BY <1>1, QuietSteps, QuietKeep
<1>2. CASE Transform \/ ForwardSends \/ ForwardPanics
  BY <1>2, TransformKeeps, SendsKeep, PanicKeeps
<1>3. CASE CsTakes \/ CsSends \/ CsSendFails
  BY <1>3, TakesKeep, CsSendsKeep, SendFailsKeeps
<1> QED
  BY <1>1, <1>2, <1>3 DEF Next, ForwardStep, CsStep

\* At the start all messages are free.
LEMMA MsgInit == Init => MsgInv
<1> SUFFICES ASSUME Init PROVE MsgInv
  OBVIOUS
<1>1. MessageType
  BY BoundsAssumption DEF Init, MessageType
<1>2. HandInv /\ PlaceInv /\ OrderInv
  BY DEF Init, HandInv, PlaceInv, OrderInv
<1> QED
  BY <1>1, <1>2 DEF MsgInv
\* All variables of the tunnel keep their types; csChan never holds more than
\* its capacity.
THEOREM TypeCorrect == Spec => []TypeOK
<1> DEFINE Inv == /\ ControlType /\ FlagType /\ MsgInv
                  /\ stopper \in StopperType /\ PhaseInv
<1>1. Init => Inv
  <2> SUFFICES ASSUME Init PROVE Inv
    OBVIOUS
  <2>1. ControlType /\ FlagType
    BY DEF Init, ControlType, FlagType
  <2>2. stopper \in StopperType /\ PhaseInv
    BY DEF Init, NewStopper, PhaseInv
  <2> QED
    BY <2>1, <2>2, MsgInit
<1>2. FlagType /\ [Next]_vars => FlagType'
  <2> SUFFICES ASSUME FlagType, [Next]_vars PROVE FlagType'
    OBVIOUS
  <2> USE DEF FlagType
  <2>1. CASE ForwardStep
    BY <2>1 DEF ForwardStep, ForwardCalled, ForwardRefuses, Transform, ForwardSends, ForwardPanics
  <2>2. CASE Watch \/ CsStep
    BY <2>2 DEF Watch, CsStep, CsQuits, CsTakes, CsSends, CsSendFails
  <2>3. CASE ScStep \/ StopStep
    BY <2>3 DEF ScStep, ScReceives, ScPush, ScPushFails, ScFails, StopStep, GroupStops, BeginStop,
       CloseChan, OnStop
  <2>4. CASE ParentEnds \/ HolderStops \/ BackendEnds \/ UNCHANGED vars
    BY <2>4 DEF ParentEnds, HolderStops, BackendEnds
  <2> QED
    BY <2>1, <2>2, <2>3, <2>4 DEF Next
<1>3. Inv /\ [Next]_vars => Inv'
  BY <1>2, ControlStep, MsgStep, PhaseStep
<1>4. Inv => TypeOK
  BY DEF TypeOK, MsgInv
<1> QED
  BY <1>1, <1>3, <1>4, PTL DEF Spec

\* A message is in one place at a time: getMessage never returns one that
\* Forward, csChan or csLoop still has, although CSHandle puts each back.
THEOREM MessagesHaveOneOwner == Spec => []OneOwner
<1>1. ASSUME MsgInv PROVE OneOwner
  <2> DEFINE front == held \o csChan
             used  == held \o csChan \o inHand
  <2>1. held \in Seq(Objects) /\ csChan \in Seq(Objects) /\ inHand \in Seq(Objects)
    BY <1>1 DEF MsgInv, MessageType
  <2>2. /\ front \in Seq(Objects) /\ Len(held) \in Nat /\ Len(front) \in Nat
        /\ DOMAIN held = 1..Len(held) /\ DOMAIN front = 1..Len(front)
        /\ \A i \in DOMAIN held : front[i] = held[i]
        /\ \A i \in DOMAIN front : \/ i \in DOMAIN held
                                   \/ i - Len(held) \in DOMAIN csChan /\ front[i] = csChan[i - Len(held)]
    <3>1. /\ front \in Seq(Objects) /\ Len(held) \in Nat /\ DOMAIN held = 1..Len(held)
          /\ DOMAIN front = 1..Len(front)
      BY <2>1, ConcatFacts
    <3>2. \A i \in DOMAIN held : front[i] = held[i]
      BY <2>1, ConcatFacts
    <3>3. \A i \in DOMAIN front :
            \/ i \in DOMAIN held
            \/ i - Len(held) \in DOMAIN csChan /\ front[i] = csChan[i - Len(held)]
      BY <2>1, ConcatFacts
    <3> HIDE DEF front
    <3>4. Len(front) \in Nat
      BY <3>1
    <3> QED BY <3>1, <3>2, <3>3, <3>4, Zenon
  <2> HIDE DEF front
  <2>3. used = front \o inHand
    BY DEF front
  <2>4. /\ DOMAIN used = 1..Len(used) /\ Len(used) \in Nat
        /\ \A i \in DOMAIN front : used[i] = front[i]
        /\ \A i \in DOMAIN used : \/ i \in DOMAIN front
                                  \/ i - Len(front) \in DOMAIN inHand /\ used[i] = inHand[i - Len(front)]
    <3>1. front \in Seq(Objects) /\ inHand \in Seq(Objects)
      BY <2>1, <2>2
    <3> HIDE DEF used
    <3>2. LET u == front \o inHand
          IN  /\ u \in Seq(Objects) /\ DOMAIN u = 1..Len(u) /\ \A i \in DOMAIN front : u[i] = front[i]
              /\ \A i \in DOMAIN u : \/ i \in DOMAIN front
                                     \/ i - Len(front) \in DOMAIN inHand /\ u[i] = inHand[i - Len(front)]
      BY <3>1, ConcatFacts
    <3>3. /\ used \in Seq(Objects) /\ DOMAIN used = 1..Len(used)
          /\ \A i \in DOMAIN front : used[i] = front[i]
          /\ \A i \in DOMAIN used : \/ i \in DOMAIN front
                                    \/ i - Len(front) \in DOMAIN inHand /\ used[i] = inHand[i - Len(front)]
      BY <2>3, <3>2, Zenon
    <3>4. Len(used) \in Nat
      BY <3>3
    <3> QED
      BY <3>3, <3>4, Zenon
  <2> HIDE DEF used
  <2> DEFINE InHeld(i) == i \in DOMAIN held /\ used[i] = held[i]
             InChan(i) == i - Len(held) \in DOMAIN csChan /\ used[i] = csChan[i - Len(held)]
             InCs(i)   == i - Len(front) \in DOMAIN inHand /\ used[i] = inHand[i - Len(front)]
  <2>5. \A i \in DOMAIN used : i \in Nat /\ (InHeld(i) \/ InChan(i) \/ InCs(i))
    BY <2>2, <2>4
  <2>6. \A i \in DOMAIN used : used[i] \notin pool
    BY <1>1, <2>5 DEF MsgInv, PlaceInv
  <2>7. DOMAIN held \subseteq {1} /\ DOMAIN inHand \subseteq {1}
    BY <1>1, <2>1 DEF MsgInv, HandInv
  <2>8. ASSUME NEW i \in DOMAIN used, NEW j \in DOMAIN used, i # j PROVE used[i] # used[j]
    <3>0. PlaceInv /\ i \in Nat /\ j \in Nat
      BY <1>1, <2>5 DEF MsgInv
    <3>1. ~(InHeld(i) /\ InHeld(j)) /\ ~(InCs(i) /\ InCs(j))
      BY <2>2, <2>7, <2>8, <3>0
    <3>2. CASE InChan(i) /\ InChan(j)
      <4>1. i - Len(held) # j - Len(held)
        BY <2>2, <2>8, <3>0
      <4> QED
        BY <3>0, <3>2, <4>1 DEF PlaceInv
    <3>3. CASE InHeld(i) /\ (InChan(j) \/ InCs(j))
      BY <3>0, <3>3 DEF PlaceInv
    <3>4. CASE InHeld(j) /\ (InChan(i) \/ InCs(i))
      BY <3>0, <3>4 DEF PlaceInv
    <3>5. CASE (InChan(i) /\ InCs(j)) \/ (InChan(j) /\ InCs(i))
      BY <3>0, <3>5 DEF PlaceInv
    <3>6. (InHeld(i) \/ InChan(i) \/ InCs(i)) /\ (InHeld(j) \/ InChan(j) \/ InCs(j))
      BY <2>5
    <3> HIDE DEF InHeld, InChan, InCs
    <3> QED
      BY <3>1, <3>2, <3>3, <3>4, <3>5, <3>6
  <2> QED
    BY <2>6, <2>8 DEF OneOwner, used
<1> QED
  BY <1>1, MsgInit, MsgStep, PTL DEF Spec

\* The packets that entered csChan are sent in their order, each once and with
\* its own content, although the messages that carry them are pooled.
THEOREM PacketsKeepOrder == Spec => []PacketsInOrder
<1>1. ASSUME MsgInv PROVE PacketsInOrder
  <2>1. /\ sent \in Seq(0..MaxPackets) /\ accepted \in Seq(0..MaxPackets)
        /\ inHand \in Seq(Objects) /\ csChan \in Seq(Objects)
        /\ content \in [Objects -> 0..MaxPackets]
    BY <1>1 DEF MsgInv, MessageType
  <2>2. /\ Len(sent) <= Len(accepted) /\ \A i \in DOMAIN sent : sent[i] = accepted[i]
    BY <1>1 DEF MsgInv, OrderInv
  <2>3. sent = SubSeq(accepted, 1, Len(sent))
    <3>0. Len(sent) \in Nat /\ Len(accepted) \in Nat /\ DOMAIN sent = 1..Len(sent)
      BY <2>1
    <3> DEFINE n == Len(sent)
               first == SubSeq(accepted, 1, n)
    <3>1. n \in Int /\ 1 \in Int /\ \A i \in 1..n : accepted[i] \in 0..MaxPackets
      <4>1. \A i \in 1..Len(sent) : sent[i] \in 0..MaxPackets
        BY <2>1, ElementFacts
      <4> QED
        BY <2>2, <3>0, <4>1
    <3>2. n = IF 1 <= n THEN n - 1 + 1 ELSE 0
      BY <3>0
    <3>3. n - 1 + 1 = n /\ \A i \in 1..n : 1 + i - 1 = i
      BY <3>0
    <3> HIDE DEF n
    <3>4. /\ first \in Seq(0..MaxPackets)
          /\ Len(first) = IF 1 <= n THEN n - 1 + 1 ELSE 0
          /\ \A i \in 1..(n - 1 + 1) : first[i] = accepted[1 + i - 1]
      BY <3>1, SubSeqProperties
    <3> HIDE DEF first
    <3>5. Len(first) = n /\ \A i \in 1..n : first[i] = accepted[i]
      BY <3>2, <3>3, <3>4
    <3>6. \A i \in 1..n : sent[i] = accepted[i]
      BY <2>2, <3>0 DEF n
    <3>7. sent = first
      <4>1. sent \in Seq(0..MaxPackets) /\ first \in Seq(0..MaxPackets)
        BY <2>1, <3>4
      <4>2. Len(sent) = Len(first) /\ \A i \in 1..Len(sent) : sent[i] = first[i]
        BY <3>5, <3>6 DEF n
      <4> QED
        BY <4>1, <4>2
    <3> QED
      BY <3>7 DEF first, n
  <2>4. ASSUME cs # "exited" PROVE accepted = sent \o Contents(inHand) \o Contents(csChan)
    <3> DEFINE hand == Contents(inHand)
               rest == Contents(csChan)
               front == sent \o hand
               all   == front \o rest
    <3>1. /\ hand \in Seq(0..MaxPackets) /\ Len(hand) = Len(inHand) /\ DOMAIN hand = DOMAIN inHand
          /\ \A i \in DOMAIN inHand : hand[i] = content[inHand[i]]
      BY <2>1, ContentsFacts
    <3>2. /\ rest \in Seq(0..MaxPackets) /\ Len(rest) = Len(csChan) /\ DOMAIN rest = DOMAIN csChan
          /\ \A i \in DOMAIN csChan : rest[i] = content[csChan[i]]
      BY <2>1, ContentsFacts
    <3> HIDE DEF hand, rest
    <3>3. /\ front \in Seq(0..MaxPackets) /\ Len(sent) \in Nat /\ Len(hand) \in Nat
          /\ Len(front) = Len(sent) + Len(hand)
          /\ \A i \in DOMAIN sent : front[i] = sent[i]
          /\ \A i \in DOMAIN front : \/ i \in DOMAIN sent
                                     \/ i - Len(sent) \in DOMAIN hand /\ front[i] = hand[i - Len(sent)]
      <4>1. sent \in Seq(0..MaxPackets) /\ hand \in Seq(0..MaxPackets)
        BY <2>1, <3>1
      <4> QED
        BY <4>1, ConcatFacts
    <3> HIDE DEF front
    <3>4. /\ all \in Seq(0..MaxPackets) /\ Len(all) = Len(front) + Len(rest) /\ Len(rest) \in Nat
          /\ DOMAIN all = 1..Len(all) /\ DOMAIN front = 1..Len(front)
          /\ \A i \in DOMAIN front : all[i] = front[i]
          /\ \A i \in DOMAIN all : \/ i \in DOMAIN front
                                   \/ i - Len(front) \in DOMAIN rest /\ all[i] = rest[i - Len(front)]
      BY <3>2, <3>3, ConcatFacts
    <3> HIDE DEF all
    <3>5. /\ Len(accepted) = Len(sent) + Len(inHand) + Len(csChan)
          /\ \A k \in DOMAIN inHand : content[inHand[k]] = accepted[Len(sent) + k]
          /\ \A i \in DOMAIN csChan : content[csChan[i]] = accepted[Len(sent) + Len(inHand) + i]
      BY <1>1, <2>4 DEF MsgInv, OrderInv
    <3>6. Len(all) = Len(accepted)
      BY <3>1, <3>2, <3>3, <3>4, <3>5
    <3>7. ASSUME NEW i \in 1..Len(all) PROVE accepted[i] = all[i]
      <4>1. CASE i \in DOMAIN front /\ i \in DOMAIN sent
        BY <2>2, <3>3, <3>4, <4>1
      <4>2. CASE i - Len(sent) \in DOMAIN hand /\ i \in DOMAIN front /\ front[i] = hand[i - Len(sent)]
        <5>1. content[inHand[i - Len(sent)]] = accepted[Len(sent) + (i - Len(sent))]
          BY <3>1, <3>5, <4>2
        <5>2. Len(sent) + (i - Len(sent)) = i
          BY <3>3
        <5> QED
          BY <3>1, <3>4, <4>2, <5>1, <5>2
      <4>3. CASE i - Len(front) \in DOMAIN rest /\ all[i] = rest[i - Len(front)]
        <5>1. content[csChan[i - Len(front)]] = accepted[Len(sent) + Len(inHand) + (i - Len(front))]
          BY <3>2, <3>5, <4>3
        <5>2. Len(sent) + Len(inHand) + (i - Len(front)) = i
          BY <3>1, <3>3
        <5> QED
          BY <3>2, <4>3, <5>1, <5>2
      <4> QED
        BY <3>3, <3>4, <4>1, <4>2, <4>3
    <3>8. accepted = all
      BY <2>1, <3>4, <3>6, <3>7
    <3> QED
      BY <3>8 DEF all, front, hand, rest
  <2> QED
    BY <2>3, <2>4 DEF PacketsInOrder
<1> QED
  BY <1>1, MsgInit, MsgStep, PTL DEF Spec

------------------------------------------------------------------------------
(* What must happen. *)

\* A goroutine of the group that returns cancels the group's context.
CancelInv == watch = "exited" \/ cs = "exited" \/ sc = "exited" => cancelled

\* Tunnel.stop marks the tunnel as stopping.
MarkInv == run \in {"close", "onstop", "done"} => stopper.phase # "live"

WindInv == ControlType /\ stopper \in StopperType /\ GroupInv /\ ClosedInv /\ CancelInv /\ MarkInv

\* Every step keeps the order in which a tunnel winds down.
LEMMA WindInvariant == Spec => []WindInv
<1>1. Init => WindInv
  BY DEF Init, WindInv, ControlType, GroupInv, ClosedInv, CancelInv, MarkInv, NewStopper
<1>2. WindInv /\ [Next]_vars => WindInv'
  <2> SUFFICES ASSUME WindInv, [Next]_vars PROVE WindInv'
    OBVIOUS
  <2>1. ControlType' /\ GroupInv' /\ ClosedInv'
    BY ControlStep, GroupStep, ClosedStep DEF WindInv
  <2>2. CancelInv'
    <3> USE DEF WindInv, CancelInv
    <3>1. CASE ForwardStep
      BY <3>1 DEF ForwardStep, ForwardCalled, ForwardRefuses, Transform, ForwardSends, ForwardPanics
    <3>2. CASE Watch
      BY <3>2 DEF Watch
    <3>3. CASE CsStep
      BY <3>3 DEF CsStep, CsQuits, CsTakes, CsSends, CsSendFails
    <3>4. CASE ScStep
      BY <3>4 DEF ScStep, ScReceives, ScPush, ScPushFails, ScFails
    <3>5. CASE StopStep
      BY <3>5 DEF StopStep, GroupStops, BeginStop, CloseChan, OnStop
    <3>6. CASE ParentEnds \/ HolderStops \/ BackendEnds \/ UNCHANGED vars
      BY <3>6 DEF ParentEnds, HolderStops, BackendEnds
    <3> QED
      BY <3>1, <3>2, <3>3, <3>4, <3>5, <3>6 DEF Next
  <2>3. (stopper \in StopperType)' /\ MarkInv'
    <3> USE DEF WindInv, MarkInv
    <3>1. CASE StopStep
      BY <3>1 DEF StopStep, GroupStops, BeginStop, CloseChan, OnStop, EnterDoStop, LeaveDoStop
    <3>2. CASE HolderStops
      BY <3>2 DEF HolderStops, TriggerStop
    <3>3. CASE UNCHANGED <<run, stopper>>
      BY <3>3
    <3>4. CASE ForwardStep \/ Watch \/ CsStep \/ ScStep \/ ParentEnds \/ BackendEnds \/ UNCHANGED vars
      <4>1. UNCHANGED <<run, stopper>>
        BY <3>4 DEF ForwardStep, ForwardCalled, ForwardRefuses, Transform, ForwardSends, ForwardPanics,
           Watch, CsStep, CsQuits, CsTakes, CsSends, CsSendFails, ScStep, ScReceives, ScPush, ScPushFails, ScFails,
           ParentEnds, BackendEnds
      <4> QED
        BY <3>3, <4>1
    <3> QED
      BY <3>1, <3>2, <3>4 DEF Next
  <2> QED
    BY <2>1, <2>2, <2>3 DEF WindInv
<1> QED
  BY <1>1, <1>2, PTL DEF Spec

\* What never goes back: an ended stream, loops that have returned or receive
\* from it, a process that has ended.
LEMMA Stable ==
  WindInv /\ [Next]_vars =>
    /\ stream = "broken" => (stream = "broken")'
    /\ gate = "down" => (gate = "down")'
    /\ cancelled => cancelled'
    /\ watch = "exited" => (watch = "exited")'
    /\ cs = "exited" => (cs = "exited")'
    /\ sc = "exited" => (sc = "exited")'
    /\ stream = "broken" /\ sc = "recv" => (sc = "recv")' \/ (sc = "exited")'
    /\ run = "done" => (run = "done")'
<1> SUFFICES ASSUME WindInv, [Next]_vars
             PROVE  /\ stream = "broken" => stream' = "broken"
                    /\ gate = "down" => gate' = "down"
                    /\ cancelled => cancelled'
                    /\ watch = "exited" => watch' = "exited"
                    /\ cs = "exited" => cs' = "exited"
                    /\ sc = "exited" => sc' = "exited"
                    /\ stream = "broken" /\ sc = "recv" => sc' = "recv" \/ sc' = "exited"
                    /\ run = "done" => run' = "done"
  OBVIOUS
<1>1. CASE gate = "up" /\ ForwardStep
  BY <1>1 DEF ForwardStep, ForwardCalled, ForwardRefuses, Transform, ForwardSends, ForwardPanics
<1>2. CASE gate = "up" /\ (Watch \/ CsStep \/ ScStep)
  <2>1. CASE Watch BY <1>2, <2>1 DEF Watch
  <2>2. CASE CsStep BY <1>2, <2>2 DEF CsStep, CsQuits, CsTakes, CsSends, CsSendFails
  <2>3. CASE ScStep BY <1>2, <2>3 DEF ScStep, ScReceives, ScPush, ScPushFails, ScFails
  <2> QED BY <1>2, <2>1, <2>2, <2>3
<1>3. CASE gate = "up" /\ StopStep
  BY <1>3 DEF StopStep, GroupStops, BeginStop, CloseChan, OnStop
<1>4. CASE gate = "up" /\ (ParentEnds \/ HolderStops \/ BackendEnds)
  BY <1>4 DEF ParentEnds, HolderStops, BackendEnds
<1>5. CASE UNCHANGED vars
  BY <1>5
<1> QED
  BY <1>1, <1>2, <1>3, <1>4, <1>5 DEF Next

\* scLoop returns when the stream has ended, or takes the process down.
LEMMA ScEnds ==
  []StepsEnabled /\ FairSpec => (stream = "broken" ~> sc = "exited" \/ gate = "down")
<1> DEFINE P == stream = "broken" /\ sc = "pushing" /\ gate # "down"
           R == stream = "broken" /\ sc = "recv" /\ gate # "down"
           Q == sc = "exited" \/ gate = "down"
<1>1. WindInv /\ P /\ [Next]_vars => P' \/ R' \/ Q'
  <2>1. ControlType /\ [Next]_vars => ControlType'
    BY ControlStep
  <2> QED BY <2>1, Stable DEF WindInv, ControlType
<1>2. WindInv /\ P /\ <<ScRuns>>_vars => R' \/ Q'
  BY DEF ScRuns, ScPush, ScPushFails, ScFails
<1>3. WindInv /\ StepsEnabled /\ P => ENABLED <<ScRuns>>_vars
  BY DEF WindInv, ControlType, StepsEnabled
<1>4. WindInv /\ R /\ [Next]_vars => R' \/ Q'
  BY Stable
<1>5. WindInv /\ R /\ <<ScRuns>>_vars => Q'
  BY DEF ScRuns, ScPush, ScPushFails, ScFails
<1>6. WindInv /\ StepsEnabled /\ R => ENABLED <<ScRuns>>_vars
  BY DEF WindInv, ControlType, StepsEnabled
<1>7. WindInv /\ stream = "broken" => P \/ R \/ Q
  BY DEF WindInv, ControlType
<1> QED
  BY <1>1, <1>2, <1>3, <1>4, <1>5, <1>6, <1>7, WindInvariant, PTL DEF FairSpec, Fairness, Spec

\* The watch goroutine returns when the group's context is done.
LEMMA WatchEnds ==
  []StepsEnabled /\ FairSpec => (cancelled ~> watch = "exited" \/ gate = "down")
<1> DEFINE P == cancelled /\ watch # "exited" /\ gate # "down"
           Q == watch = "exited" \/ gate = "down"
<1>1. WindInv /\ P /\ [Next]_vars => P' \/ Q'
  BY Stable
<1>2. WindInv /\ P /\ <<WatchRuns>>_vars => Q'
  BY DEF WatchRuns, Watch
<1>3. WindInv /\ StepsEnabled /\ P => ENABLED <<WatchRuns>>_vars
  BY DEF WindInv, ControlType, StepsEnabled
<1>4. cancelled => P \/ Q
  OBVIOUS
<1> QED
  BY <1>1, <1>2, <1>3, <1>4, WindInvariant, PTL DEF FairSpec, Fairness, Spec

\* csLoop returns when the context is done and the stream has ended: it may
\* take one more message from csChan, which it fails to send.
LEMMA CsEnds ==
  []StepsEnabled /\ FairSpec =>
    (stream = "broken" /\ cancelled ~> cs = "exited" \/ gate = "down")
<1> DEFINE T == stream = "broken" /\ cancelled
           P == T /\ cs = "select" /\ gate # "down"
           R == T /\ cs = "sending" /\ gate # "down"
           Q == cs = "exited" \/ gate = "down"
<1>1. WindInv /\ P /\ [Next]_vars => P' \/ R' \/ Q'
  <2>1. WindInv /\ P /\ [Next]_vars => (ControlType /\ T)'
    BY Stable, ControlStep DEF WindInv
  <2> QED
    BY <2>1 DEF ControlType
<1>2. WindInv /\ P /\ <<CsRuns>>_vars => R' \/ Q'
  BY DEF CsRuns, CsQuits, CsTakes, CsSendFails
<1>3. WindInv /\ StepsEnabled /\ P => ENABLED <<CsRuns>>_vars
  BY DEF WindInv, ControlType, StepsEnabled
<1>4. WindInv /\ R /\ [Next]_vars => R' \/ Q'
  <2> SUFFICES ASSUME WindInv, R, [Next]_vars PROVE R' \/ Q'
    OBVIOUS
  <2>1. T'
    BY Stable
  <2>2. CASE CsStep
    BY <2>1, <2>2 DEF CsStep, CsQuits, CsTakes, CsSends, CsSendFails
  <2>3. CASE ForwardStep
    BY <2>1, <2>3 DEF ForwardStep, ForwardCalled, ForwardRefuses, Transform, ForwardSends, ForwardPanics
  <2>4. CASE Watch \/ ScStep
    BY <2>1, <2>4 DEF Watch, ScStep, ScReceives, ScPush, ScPushFails, ScFails
  <2>5. CASE StopStep
    BY <2>1, <2>5 DEF StopStep, GroupStops, BeginStop, CloseChan, OnStop
  <2>6. CASE ParentEnds \/ HolderStops \/ BackendEnds \/ UNCHANGED vars
    BY <2>1, <2>6 DEF ParentEnds, HolderStops, BackendEnds
  <2> QED
    BY <2>2, <2>3, <2>4, <2>5, <2>6 DEF Next
<1>5. WindInv /\ R /\ <<CsRuns>>_vars => Q'
  BY DEF CsRuns, CsQuits, CsTakes, CsSendFails
<1>6. WindInv /\ StepsEnabled /\ R => ENABLED <<CsRuns>>_vars
  BY DEF WindInv, ControlType, StepsEnabled
<1>7. WindInv /\ stream = "broken" /\ cancelled => P \/ R \/ Q
  BY DEF WindInv, ControlType
<1> QED
  BY <1>1, <1>2, <1>3, <1>4, <1>5, <1>6, <1>7, WindInvariant, PTL DEF FairSpec, Fairness, Spec

\* All three goroutines have returned.
AllExited == watch = "exited" /\ cs = "exited" /\ sc = "exited"

\* Tunnel.run goes on to the end when its group is over.
LEMMA StopEnds ==
  []StepsEnabled /\ FairSpec => (AllExited ~> run = "done" \/ gate = "down")
<1> DEFINE P(r) == AllExited /\ run = r /\ gate # "down"
           Q == run = "done" \/ gate = "down"
<1> USE DEF AllExited
<1>1. ASSUME WindInv, [Next]_vars, AllExited, gate # "down"
      PROVE  /\ AllExited'
             /\ run = "wait" => run' \in {"wait", "stop"}
             /\ run = "stop" => run' \in {"stop", "close"}
             /\ run = "close" => run' \in {"close", "onstop"}
             /\ run = "onstop" => run' \in {"onstop", "done"}
  <2>1. AllExited'
    BY <1>1, Stable
  <2>2. CASE StopStep
    BY <2>1, <2>2 DEF StopStep, GroupStops, BeginStop, CloseChan, OnStop
  <2>3. CASE UNCHANGED run
    BY <2>1, <2>3
  <2>4. CASE HolderStops
    BY <2>3, <2>4 DEF HolderStops
  <2> QED
    BY <1>1, <2>2, <2>3, <2>4, OnlyStopMoves DEF Next
<1>2. ASSUME WindInv, <<StopRuns>>_vars, AllExited, gate # "down"
      PROVE  /\ run = "wait" => run' = "stop"
             /\ run = "stop" => run' = "close"
             /\ run = "close" => run' = "onstop"
             /\ run = "onstop" => run' = "done"
  BY <1>2 DEF StopRuns, StopStep, GroupStops, BeginStop, CloseChan, OnStop
<1>3. ASSUME WindInv, StepsEnabled, AllExited, gate # "down", run # "done"
      PROVE  ENABLED <<StopRuns>>_vars
  BY <1>3 DEF WindInv, ControlType, StepsEnabled
<1>4. /\ WindInv /\ P("wait") /\ [Next]_vars => P("wait")' \/ P("stop")' \/ Q'
      /\ WindInv /\ P("stop") /\ [Next]_vars => P("stop")' \/ P("close")' \/ Q'
      /\ WindInv /\ P("close") /\ [Next]_vars => P("close")' \/ P("onstop")' \/ Q'
      /\ WindInv /\ P("onstop") /\ [Next]_vars => P("onstop")' \/ Q'
  BY <1>1
<1>5. StopRuns => Next
  BY DEF StopRuns, Next
<1>6. /\ WindInv /\ P("wait") /\ <<StopRuns>>_vars => P("stop")' \/ Q'
      /\ WindInv /\ P("stop") /\ <<StopRuns>>_vars => P("close")' \/ Q'
      /\ WindInv /\ P("close") /\ <<StopRuns>>_vars => P("onstop")' \/ Q'
      /\ WindInv /\ P("onstop") /\ <<StopRuns>>_vars => Q'
  BY <1>1, <1>2, <1>5
<1>7. /\ WindInv /\ StepsEnabled /\ P("wait") => ENABLED <<StopRuns>>_vars
      /\ WindInv /\ StepsEnabled /\ P("stop") => ENABLED <<StopRuns>>_vars
      /\ WindInv /\ StepsEnabled /\ P("close") => ENABLED <<StopRuns>>_vars
      /\ WindInv /\ StepsEnabled /\ P("onstop") => ENABLED <<StopRuns>>_vars
  BY <1>3
<1>8. WindInv /\ AllExited => P("wait") \/ P("stop") \/ P("close") \/ P("onstop") \/ Q
  BY DEF WindInv, ControlType
<1> HIDE DEF AllExited
<1> QED
  BY <1>4, <1>6, <1>7, <1>8, WindInvariant, PTL DEF FairSpec, Fairness, Spec

\* A tunnel whose stream has ended winds down completely, whatever its read
\* loop and its backend do: scLoop is the first to return or ends the process,
\* which ends the context and with it the other two, and then Tunnel.run.
THEOREM WindsDown == []StepsEnabled /\ FairSpec => TunnelWindsDown
<1>1. WindInv /\ sc = "exited" => cancelled
  BY DEF WindInv, CancelInv
<1>2. WindInv /\ [Next]_vars => /\ stream = "broken" => (stream = "broken")'
                                /\ gate = "down" => (gate = "down")'
                                /\ cancelled => cancelled'
                                /\ watch = "exited" => (watch = "exited")'
                                /\ cs = "exited" => (cs = "exited")'
                                /\ sc = "exited" => (sc = "exited")'
  BY Stable
<1>3. watch = "exited" /\ cs = "exited" /\ sc = "exited" => AllExited
  BY DEF AllExited
<1> QED
  BY <1>1, <1>2, <1>3, ScEnds, WatchEnds, CsEnds, StopEnds, WindInvariant, PTL
  DEF FairSpec, Spec, TunnelWindsDown

\* The worker's read loop is not held for good in a Forward to such a tunnel:
\* Tunnel.run comes to its end, and then Forward refuses or panics.
THEOREM ForwardEnds == []StepsEnabled /\ FairSpec => ForwardReturns
<1> DEFINE F == forward \in {"called", "made"}
           P == F /\ run = "done" /\ gate # "down"
           Q == forward \notin {"called", "made"} \/ gate = "down"
<1>1. WindInv /\ P /\ [Next]_vars => P' \/ Q'
  BY Stable
<1>2. WindInv /\ P /\ <<ForwardRuns>>_vars => Q'
  BY DEF ForwardRuns, ForwardRefuses, Transform, ForwardSends, ForwardPanics, WindInv, MarkInv, ClosedInv, IsStopping
<1>3. WindInv /\ StepsEnabled /\ P => ENABLED <<ForwardRuns>>_vars
  BY DEF WindInv, ControlType, StepsEnabled, MarkInv, ClosedInv, IsStopping
<1>4. run = "done" /\ ~Q => P
  OBVIOUS
<1> QED
  BY <1>1, <1>2, <1>3, <1>4, WindsDown, WindInvariant, PTL DEF FairSpec, Fairness, Spec, TunnelWindsDown, ForwardReturns
==============================================================================
