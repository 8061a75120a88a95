---------------------------- MODULE ServerProofs -----------------------------
(***************************************************************************)
(* Proofs about Server, for any number of accept loops, buckets and        *)
(* connections.                                                            *)
(*                                                                         *)
(* StopMissesNobody is made inductive by saying where the walks are: a     *)
(* worker that was present when the stop began and is still listed has     *)
(* been dealt with, is in the current snapshot, or is in a bucket that the *)
(* walk has not come to (WalkInv).  It needs that a worker is listed only  *)
(* once in its life (LifeInv).                                             *)
(*                                                                         *)
(* The last part shows that the accept loops end, that a connection's life *)
(* in the server is the one that Worker assumes, and that Stop takes a     *)
(* bounded number of steps.                                                *)
(***************************************************************************)
EXTENDS Server, TLAPS, FiniteSetTheorems

LifeInv ==
  /\ \A c \in Conns : conn[c].listed => conn[c].at = "work"
  /\ \A c \in Conns : c > accepted => conn[c].at = "none"
  /\ \A c \in present : conn[c].at \in {"work", "stop", "stopped"}

LateInv ==
  \A l \in AcceptLoops : /\ late[l] <= 1
                         /\ stop = "live" \/ loop[l] = "accepting" => late[l] = 0

\* Worker c is in the snapshot, or in a bucket still to come.
Ahead(c) == c \in todo \/ Bucket(c) >= bucket

WalkInv ==
  \A c \in present : conn[c].listed =>
    /\ stop = "asking" => conn[c].asked \/ Ahead(c)
    /\ stop = "waiting" => conn[c].asked /\ (c \in gaveUp \/ Ahead(c))
    /\ stop = "closed" => conn[c].asked /\ c \in gaveUp

Inv == TypeOK /\ LifeInv /\ LateInv /\ WalkInv /\ (stop = "live" => present = {})

USE ServerAssumption DEF Conns, stopVars, loopVars, Become, LoopGoto

\* The buckets are numbered from 0.
LEMMA BucketRange == \A c \in Conns : Bucket(c) \in 0..(BucketSize - 1)
BY DEF Bucket

\* The fields of a life.
LEMMA LifeFields ==
  ASSUME NEW p \in LifePoints, NEW l \in BOOLEAN, NEW s \in BOOLEAN, NEW a \in BOOLEAN
  PROVE  /\ Life(p, l, s, a) \in ConnType /\ Life(p, l, s, a).at = p
         /\ Life(p, l, s, a).listed = l /\ Life(p, l, s, a).asked = a
BY DEF Life, ConnType

\* Server.work moves a worker forward and does not list it twice.
LEMMA AdvanceFacts ==
  ASSUME NEW w \in ConnType, w.listed => w.at = "work", NEW v \in Advances(w)
  PROVE  /\ v \in ConnType /\ v.asked = w.asked /\ (v.listed => v.at = "work")
         /\ w.at \in {"start", "work", "stop"} /\ v.at \in {"work", "stop", "stopped"}
         /\ w.at # "start" => ~v.listed
<1>0. w.listed \in BOOLEAN /\ w.seen \in BOOLEAN /\ w.asked \in BOOLEAN
  BY DEF ConnType
<1>w. LET l == Life("work", TRUE, TRUE, w.asked)
      IN  l \in ConnType /\ l.at = "work" /\ l.listed = TRUE /\ l.asked = w.asked
  <2>1. "work" \in LifePoints
    BY DEF LifePoints
  <2>. QED
    BY <1>0, <2>1, LifeFields, ZenonT(40)
<1>s. LET l == Life("stop", FALSE, w.seen, w.asked)
      IN  l \in ConnType /\ l.at = "stop" /\ ~l.listed /\ l.asked = w.asked
  <2>1. "stop" \in LifePoints
    BY DEF LifePoints
  <2>2. /\ Life("stop", FALSE, w.seen, w.asked) \in ConnType
        /\ Life("stop", FALSE, w.seen, w.asked).at = "stop"
        /\ Life("stop", FALSE, w.seen, w.asked).asked = w.asked
    BY <1>0, <2>1 DEF Life, ConnType
  <2>3. ~Life("stop", FALSE, w.seen, w.asked).listed
    BY DEF Life
  <2>. QED
    BY <2>2, <2>3
<1>1. CASE w.at = "start"
  <2>1. CASE v = Life("stop", w.listed, w.seen, w.asked)
    BY <1>0, <1>1, <2>1, LifeFields DEF LifePoints
  <2>2. CASE v = Life("work", TRUE, TRUE, w.asked)
    <3>1. /\ v \in ConnType /\ v.at = "work" /\ v.listed = TRUE /\ v.asked = w.asked
      BY <1>w, <2>2
    <3>. QED
      BY <1>1, <3>1
  <2>. QED
    BY <1>1, <2>1, <2>2 DEF Advances
<1>2. CASE w.at = "work"
  <2>1. v = Life("stop", FALSE, w.seen, w.asked)
    BY <1>2 DEF Advances
  <2>. QED
    <3>1. /\ v \in ConnType /\ v.at = "stop" /\ ~v.listed /\ v.asked = w.asked
      BY <1>s, <2>1
    <3>. QED
      BY <1>2, <3>1
<1>3. CASE w.at = "stop"
  <2>1. v = Life("stopped", w.listed, w.seen, w.asked)
    BY <1>3 DEF Advances
  <2>. QED
    BY <1>0, <1>3, <2>1, LifeFields DEF LifePoints
<1>. QED
  BY <1>1, <1>2, <1>3 DEF Advances

\* A worker that is asked to stop is otherwise as before.
LEMMA AskedFacts ==
  ASSUME NEW w \in ConnType
  PROVE  /\ Asked(w) \in ConnType /\ Asked(w).asked
         /\ Asked(w).listed = w.listed /\ Asked(w).at = w.at
BY DEF Asked, Life, ConnType

\* What a step does to one worker only, given that it neither lists it again
\* nor takes back that it was asked, keeps the invariants about workers.
LEMMA OneConn ==
  ASSUME Inv, NEW c \in Conns, NEW w \in ConnType, conn' = [conn EXCEPT ![c] = w],
         UNCHANGED <<accepted, stopVars>>,
         conn[c].at # "none",
         w.listed => w.at = "work",
         c \in present => /\ w.at \in {"work", "stop", "stopped"}
                          /\ w.listed => conn[c].listed /\ (conn[c].asked => w.asked)
  PROVE  LifeInv' /\ WalkInv' /\ conn' \in [Conns -> ConnType]
<1>. USE DEF Inv
<1>1. conn' \in [Conns -> ConnType] /\ conn'[c] = w /\ \A d \in Conns : d # c => conn'[d] = conn[d]
  BY DEF TypeOK
<1>2. present \subseteq Conns /\ accepted \in Nat
  BY DEF TypeOK
<1>3. LifeInv'
  BY <1>1, <1>2 DEF LifeInv
<1>4. WalkInv'
  <2>. SUFFICES ASSUME NEW d \in present, conn'[d].listed
                PROVE  /\ stop = "asking" => conn'[d].asked \/ Ahead(d)
                       /\ stop = "waiting" => conn'[d].asked /\ (d \in gaveUp \/ Ahead(d))
                       /\ stop = "closed" => conn'[d].asked /\ d \in gaveUp
    BY DEF WalkInv, Ahead
  <2>1. conn[d].listed /\ (conn[d].asked => conn'[d].asked)
    BY <1>1, <1>2
  <2>. QED
    BY <2>1 DEF WalkInv
<1>. QED
  BY <1>1, <1>3, <1>4

\* The accept loops.
LEMMA LoopStepInv ==
  ASSUME Inv, NEW l \in AcceptLoops, LoopStep(l)
  PROVE  Inv'
<1>. USE DEF Inv
<1>1. CASE Select(l) \/ AcceptFails(l) \/ LoopEnds(l)
  <2>1. UNCHANGED <<ctxDone, expired, accepted, late, conn, stopVars>>
    BY <1>1 DEF Select, AcceptFails, LoopEnds
  <2>2. loop' \in [AcceptLoops -> {"select", "accepting", "waiting", "ended"}]
    BY <1>1 DEF Select, AcceptFails, LoopEnds, TypeOK
  <2>3. TypeOK'
    BY <2>1, <2>2 DEF TypeOK
  <2>4. LifeInv' /\ WalkInv' /\ (stop = "live" => present = {})'
    BY <2>1 DEF LifeInv, WalkInv, Ahead
  <2>5. ASSUME NEW k \in AcceptLoops, loop'[k] = "accepting"
        PROVE  late[k] = 0
    BY <1>1, <2>5 DEF Select, AcceptFails, LoopEnds, TypeOK, LateInv
  <2>6. LateInv'
    BY <2>1, <2>5 DEF LateInv
  <2>. QED
    BY <2>3, <2>4, <2>6
<1>2. CASE Accept(l)
  <2>. DEFINE c == accepted + 1
  <2>1. c \in Conns /\ accepted \in Nat /\ accepted' = c /\ conn[c].at = "none"
        /\ UNCHANGED <<ctxDone, expired, stopVars>>
    BY <1>2 DEF Accept, TypeOK, LifeInv
  <2>2. Outside("serve") \in ConnType /\ Outside("serve").at = "serve" /\ ~Outside("serve").listed
    BY DEF Outside, Life, ConnType
  <2>3. /\ conn' = [conn EXCEPT ![c] = Outside("serve")]
        /\ conn' \in [Conns -> ConnType] /\ conn'[c] = Outside("serve")
        /\ \A d \in Conns : d # c => conn'[d] = conn[d]
    BY <1>2, <2>1, <2>2 DEF Accept, TypeOK
  <2>4. c \notin present /\ present \subseteq Conns
    BY <2>1 DEF LifeInv, TypeOK
  <2>5. LifeInv'
    BY <2>1, <2>2, <2>3, <2>4 DEF LifeInv
  <2>6. WalkInv'
    BY <2>1, <2>3, <2>4 DEF WalkInv, Ahead
  <2>7. /\ loop' \in [AcceptLoops -> {"select", "accepting", "waiting", "ended"}]
        /\ loop'[l] = "select" /\ \A k \in AcceptLoops : k # l => loop'[k] = loop[k]
    BY <1>2 DEF Accept, TypeOK
  <2>8. /\ late' \in [AcceptLoops -> Nat] /\ late[l] = 0 /\ late'[l] <= 1
        /\ stop = "live" => late' = late
        /\ \A k \in AcceptLoops : k # l => late'[k] = late[k]
    BY <1>2 DEF Accept, TypeOK, LateInv
  <2>9. LateInv'
    BY <2>1, <2>7, <2>8 DEF LateInv
  <2>10. accepted' \in 0..MaxConns
    BY <1>2 DEF Accept, TypeOK
  <2>11. TypeOK'
    BY <2>1, <2>3, <2>7, <2>8, <2>10 DEF TypeOK
  <2>. QED
    BY <2>1, <2>5, <2>6, <2>9, <2>11
<1>. QED
  BY <1>1, <1>2 DEF LoopStep

\* serve, work and Disconnect.
LEMMA ConnStepInv ==
  ASSUME Inv, NEW c \in Conns, Serve(c) \/ Work(c) \/ Disconnect(c)
  PROVE  Inv'
<1>. USE DEF Inv
<1>1. conn[c] \in ConnType /\ (conn[c].listed => conn[c].at = "work")
  BY DEF TypeOK, LifeInv
<1>2. UNCHANGED <<ctxDone, expired, loopVars, stopVars>>
  BY DEF Serve, Work, Disconnect
<1>3. LifeInv' /\ WalkInv' /\ conn' \in [Conns -> ConnType]
  <2>1. CASE Serve(c)
    <3>1. \A w \in {NewLife, Outside("leaked")} : w \in ConnType /\ ~w.listed
      <4>1. NewLife \in ConnType /\ ~NewLife.listed
        BY DEF NewLife, Life, ConnType, LifePoints
      <4>2. Outside("leaked") \in ConnType /\ ~Outside("leaked").listed
        BY DEF Outside, Life, ConnType, LifePoints
      <4>. QED
        BY <4>1, <4>2
    <3>2. PICK w \in {NewLife, Outside("leaked")} : conn' = [conn EXCEPT ![c] = w]
      BY <2>1 DEF Serve
    <3>3. conn[c].at = "serve" /\ c \notin present
      BY <2>1 DEF Serve, LifeInv
    <3>. QED
      BY <1>2, <3>1, <3>2, <3>3, OneConn
  <2>2. CASE Work(c)
    <3>1. PICK w \in Advances(conn[c]) : conn' = [conn EXCEPT ![c] = w]
      BY <2>2 DEF Work
    <3>2. /\ w \in ConnType /\ w.asked = conn[c].asked /\ (w.listed => w.at = "work")
          /\ conn[c].at \in {"start", "work", "stop"} /\ w.at \in {"work", "stop", "stopped"}
          /\ conn[c].at # "start" => ~w.listed
      BY <1>1, AdvanceFacts
    <3>3. c \in present => conn[c].at # "start"
      BY DEF LifeInv
    <3>. QED
      BY <1>2, <3>1, <3>2, <3>3, OneConn
  <2>3. CASE Disconnect(c)
    <3>1. CASE conn[c].at = "none"
      <4>1. ~conn[c].listed /\ c \notin present
        BY <1>1, <3>1 DEF LifeInv
      <4>. DEFINE w == Asked(conn[c])
      <4>2. w \in ConnType /\ ~w.listed /\ w.at = "none"
        BY <1>1, <3>1, <4>1, AskedFacts
      <4>3. conn' = [conn EXCEPT ![c] = w]
        BY <2>3 DEF Disconnect
      <4>. HIDE DEF w
      <4>4. /\ conn' \in [Conns -> ConnType] /\ conn'[c] = w
            /\ \A d \in Conns : d # c => conn'[d] = conn[d]
        BY <4>2, <4>3 DEF TypeOK
      <4>5. present \subseteq Conns
        BY DEF TypeOK
      <4>. QED
        BY <1>2, <4>1, <4>2, <4>4, <4>5 DEF LifeInv, WalkInv, Ahead
    <3>2. CASE conn[c].at # "none"
      <4>. DEFINE w == Asked(conn[c])
      <4>1. w \in ConnType /\ w.asked /\ w.listed = conn[c].listed /\ w.at = conn[c].at
        BY <1>1, AskedFacts
      <4>2. conn' = [conn EXCEPT ![c] = w]
        BY <2>3 DEF Disconnect
      <4>3. c \in present => w.at \in {"work", "stop", "stopped"}
        BY <4>1 DEF LifeInv
      <4>. HIDE DEF w
      <4>. QED
        BY <1>1, <1>2, <3>2, <4>1, <4>2, <4>3, OneConn
    <3>. QED
      BY <3>1, <3>2
  <2>. QED
    BY <2>1, <2>2, <2>3
<1>4. TypeOK'
  BY <1>2, <1>3 DEF TypeOK
<1>5. LateInv' /\ (stop = "live" => present = {})'
  BY <1>2 DEF LateInv
<1>. QED
  BY <1>3, <1>4, <1>5

\* BeginStop, and the walks of Server.stop.
LEMMA StopStepInv ==
  ASSUME Inv, BeginStop \/ WalkStep
  PROVE  Inv'
<1>. USE DEF Inv
<1>1. CASE BeginStop
  <2>1. UNCHANGED <<ctxDone, expired, loopVars, conn, gaveUp>> /\ stop' = "asking" /\ bucket' = 0
        /\ todo' = {} /\ present' = Listed
    BY <1>1 DEF BeginStop
  <2>2. TypeOK'
    BY <2>1 DEF TypeOK, Listed
  <2>3. LifeInv'
    BY <2>1 DEF LifeInv, Listed
  <2>4. LateInv'
    BY <2>1 DEF LateInv
  <2>5. WalkInv'
    BY <2>1, BucketRange DEF WalkInv, Ahead, Listed, Bucket
  <2>. QED
    BY <2>1, <2>2, <2>3, <2>4, <2>5
<1>2. CASE Snapshot
  <2>1. /\ UNCHANGED <<ctxDone, expired, loopVars, conn, stop, present, gaveUp>>
        /\ todo = {} /\ todo' = {c \in Listed : Bucket(c) = bucket} /\ bucket' = bucket + 1
        /\ bucket' \in 0..BucketSize /\ stop \in {"asking", "waiting"} /\ bucket \in Nat
    BY <1>2 DEF Snapshot, TypeOK
  <2>2. TypeOK' /\ LifeInv' /\ LateInv'
    BY <2>1 DEF TypeOK, Listed, LifeInv, LateInv
  <2>3. ASSUME NEW c \in present, conn[c].listed, Ahead(c)
        PROVE  Ahead(c)'
    <3>1. c \in Listed /\ Bucket(c) \in Nat /\ Bucket(c) >= bucket
      BY <2>1, <2>3, BucketRange DEF Ahead, Listed, TypeOK
    <3>2. Bucket(c)' = Bucket(c)
      BY DEF Bucket
    <3>. QED
      BY <2>1, <3>1, <3>2 DEF Ahead
  <2>4. WalkInv'
    BY <2>1, <2>3 DEF WalkInv
  <2>. QED
    BY <2>1, <2>2, <2>4
<1>3. CASE WalkEnds
  <2>1. /\ UNCHANGED <<ctxDone, expired, loopVars, conn, todo, present, gaveUp>>
        /\ todo = {} /\ bucket = BucketSize /\ bucket' = 0 /\ stop \in {"asking", "waiting"}
        /\ stop' = IF stop = "asking" THEN "waiting" ELSE "closed"
    BY <1>3 DEF WalkEnds
  <2>2. TypeOK' /\ LifeInv' /\ LateInv'
    BY <2>1 DEF TypeOK, LifeInv, LateInv
  <2>3. \A c \in present : ~Ahead(c) /\ Ahead(c)'
    BY <2>1, BucketRange DEF Ahead, TypeOK, Bucket
  <2>4. WalkInv'
    BY <2>1, <2>3 DEF WalkInv
  <2>. QED
    BY <2>1, <2>2, <2>4
<1>4. ASSUME NEW c \in Conns, Ask(c)
      PROVE  Inv'
  <2>1. /\ UNCHANGED <<ctxDone, expired, loopVars, stop, bucket, present, gaveUp>>
        /\ stop = "asking" /\ todo' = todo \ {c} /\ conn' = [conn EXCEPT ![c] = Asked(conn[c])]
    BY <1>4 DEF Ask
  <2>2. /\ conn[c] \in ConnType /\ Asked(conn[c]) \in ConnType /\ Asked(conn[c]).asked
        /\ Asked(conn[c]).listed = conn[c].listed /\ Asked(conn[c]).at = conn[c].at
    BY AskedFacts DEF TypeOK
  <2>3. /\ conn' \in [Conns -> ConnType] /\ conn'[c] = Asked(conn[c])
        /\ \A d \in Conns : d # c => conn'[d] = conn[d]
    BY <2>1, <2>2 DEF TypeOK
  <2>4. TypeOK'
    BY <2>1, <2>3 DEF TypeOK
  <2>5. present \subseteq Conns /\ \A d \in Conns : conn'[d].at = conn[d].at /\ conn'[d].listed = conn[d].listed
    BY <2>2, <2>3 DEF TypeOK
  <2>6. LifeInv' /\ LateInv'
    BY <2>1, <2>5 DEF LifeInv, LateInv
  <2>7. ASSUME NEW d \in present, conn'[d].listed
        PROVE  conn'[d].asked \/ Ahead(d)'
    <3>1. CASE d = c
      BY <2>2, <2>3, <3>1
    <3>2. CASE d # c
      BY <2>1, <2>3, <2>5, <2>7, <3>2 DEF WalkInv, Ahead, Bucket
    <3>. QED
      BY <3>1, <3>2
  <2>8. WalkInv'
    BY <2>1, <2>7 DEF WalkInv
  <2>. QED
    BY <2>1, <2>4, <2>6, <2>8
<1>5. ASSUME NEW c \in Conns, Wait(c)
      PROVE  Inv'
  <2>1. /\ UNCHANGED <<ctxDone, expired, loopVars, conn, stop, bucket, present>>
        /\ stop = "waiting" /\ todo' = todo \ {c}
        /\ gaveUp' = IF Stopped(conn[c]) THEN gaveUp ELSE gaveUp \union {c}
    BY <1>5 DEF Wait
  <2>2. TypeOK' /\ LifeInv' /\ LateInv'
    BY <2>1 DEF TypeOK, LifeInv, LateInv
  <2>3. conn[c].listed => c \in gaveUp'
    BY <2>1 DEF LifeInv, Stopped
  <2>4. ASSUME NEW d \in present, conn[d].listed
        PROVE  d \in gaveUp' \/ Ahead(d)'
    BY <2>1, <2>3, <2>4 DEF WalkInv, Ahead, Bucket
  <2>5. WalkInv'
    BY <2>1, <2>4 DEF WalkInv
  <2>. QED
    BY <2>1, <2>2, <2>5
<1>. QED
  BY <1>1, <1>2, <1>3, <1>4, <1>5 DEF WalkStep

\* The inductive invariant holds in every state of Server.
THEOREM Invariance == Spec => []Inv
<1>1. Init => Inv
  <2>. SUFFICES ASSUME Init PROVE Inv
    OBVIOUS
  <2>1. Outside("none") \in ConnType /\ ~Outside("none").listed /\ Outside("none").at = "none"
    BY DEF Outside, Life, ConnType
  <2>2. TypeOK
    <3>1. conn \in [Conns -> ConnType]
      BY <2>1 DEF Init
    <3>2. /\ loop \in [AcceptLoops -> {"select", "accepting", "waiting", "ended"}]
          /\ late \in [AcceptLoops -> Nat]
      BY DEF Init
    <3>3. ctxDone \in BOOLEAN /\ expired \in BOOLEAN
      BY DEF Init
    <3>4. accepted \in 0..MaxConns /\ bucket \in 0..BucketSize
      BY DEF Init
    <3>. QED
      BY <3>1, <3>2, <3>3, <3>4 DEF Init, TypeOK
  <2>3. LifeInv /\ LateInv /\ WalkInv
    BY <2>1 DEF Init, LifeInv, LateInv, WalkInv
  <2>. QED
    BY <2>2, <2>3 DEF Init, Inv
<1>2. Inv /\ [Next]_vars => Inv'
  <2>. SUFFICES ASSUME Inv, [Next]_vars PROVE Inv'
    OBVIOUS
  <2>1. CASE ListenerExpires \/ ContextDone \/ UNCHANGED vars
    <3>1. UNCHANGED <<loopVars, conn, stopVars>> /\ ctxDone' \in BOOLEAN /\ expired' \in BOOLEAN
      BY <2>1 DEF ListenerExpires, ContextDone, vars, Inv, TypeOK
    <3>2. TypeOK'
      BY <3>1 DEF Inv, TypeOK
    <3>3. LifeInv' /\ LateInv' /\ WalkInv' /\ (stop = "live" => present = {})'
      BY <3>1 DEF Inv, LifeInv, LateInv, WalkInv, Ahead, Bucket
    <3>. QED
      BY <3>2, <3>3 DEF Inv
  <2>. QED
    BY <2>1, LoopStepInv, ConnStepInv, StopStepInv DEF Next
<1>. QED
  BY <1>1, <1>2, PTL DEF Spec

\* All variables of the accept loops, the connections and the walks keep their types.
THEOREM TypeCorrect == Spec => []TypeOK
<1>1. Inv => TypeOK
  BY DEF Inv
<1> QED BY <1>1, Invariance, PTL

\* For any number of accept loops, Server.stop lets each of them hand out at
\* most one connection more.
THEOREM LateAcceptsAreBounded == Spec => []OneLateAcceptPerLoop
<1>1. Inv => OneLateAcceptPerLoop
  BY DEF Inv, LateInv, OneLateAcceptPerLoop
<1>. QED
  BY <1>1, Invariance, PTL

\* For any number of buckets and connections, Server.stop returns only after
\* every worker it found online has left or has been asked and waited for.
THEOREM StopReachesEverybody == Spec => []StopMissesNobody
<1>1. Inv => StopMissesNobody
  BY DEF Inv, WalkInv, StopMissesNobody
<1>. QED
  BY <1>1, Invariance, PTL

------------------------------------------------------------------------------
\* What a step does to one accept loop.
LoopMoves(l) ==
  /\ ctxDone => ctxDone'
  /\ expired => expired'
  /\ loop[l] = "accepting" => loop'[l] \in {"accepting", "select"}
  /\ loop[l] = "select" /\ ctxDone => loop'[l] \in {"select", "waiting"}
  /\ loop[l] = "waiting" => loop'[l] \in {"waiting", "ended"}

\* Every step moves an accept loop on as it should.
LEMMA LoopStepMoves ==
  ASSUME TypeOK, [Next]_vars, NEW l \in AcceptLoops
  PROVE  LoopMoves(l)
<1> USE DEF TypeOK, LoopMoves
<1>1. ASSUME NEW k \in AcceptLoops, LoopStep(k) PROVE LoopMoves(l)
  BY <1>1 DEF LoopStep, Select, Accept, AcceptFails, LoopEnds
<1>2. CASE ListenerExpires BY <1>2 DEF ListenerExpires
<1>3. CASE ContextDone BY <1>3 DEF ContextDone
<1>4. CASE UNCHANGED <<ctxDone, expired, loop>> BY <1>4
<1>5. BeginStop \/ WalkStep \/ UNCHANGED vars => UNCHANGED <<ctxDone, expired, loop>>
  BY DEF BeginStop, WalkStep, Snapshot, WalkEnds, Ask, Wait, vars
<1>6. ASSUME NEW c \in Conns, Serve(c) \/ Work(c) \/ Disconnect(c)
      PROVE  UNCHANGED <<ctxDone, expired, loop>>
  BY <1>6 DEF Serve, Work, Disconnect
<1> QED
  BY <1>1, <1>2, <1>3, <1>4, <1>5, <1>6 DEF Next

\* Once the context given to Start is done, an accept loop ends, also one that
\* is blocked in AcceptTCP: the listener's deadline lets it go.
THEOREM LoopsEnd == []StepsEnabled /\ FairSpec => AcceptLoopsEnd
<1> SUFFICES ASSUME NEW l \in AcceptLoops
             PROVE  []StepsEnabled /\ FairSpec => (ctxDone ~> loop[l] = "ended")
  BY DEF AcceptLoopsEnd
<1> DEFINE W == ctxDone /\ ~expired
           A == ctxDone /\ expired /\ loop[l] = "accepting"
           S == ctxDone /\ expired /\ loop[l] = "select"
           G == ctxDone /\ expired /\ loop[l] = "waiting"
           Q == loop[l] = "ended"
<1>1. LoopsFair => LoopFair(l)
  BY DEF LoopsFair
<1>2. TypeOK /\ ctxDone => W \/ A \/ S \/ G \/ Q
  BY DEF TypeOK
<1>3. TypeOK /\ ctxDone /\ [Next]_vars => ctxDone' /\ (~W => ~W')
  BY LoopStepMoves DEF LoopMoves
<1>4. TypeOK /\ A /\ [Next]_vars => A' \/ S'
  BY LoopStepMoves DEF LoopMoves
<1>5. TypeOK /\ S /\ [Next]_vars => S' \/ G'
  BY LoopStepMoves DEF LoopMoves
<1>6. TypeOK /\ G /\ [Next]_vars => G' \/ Q'
  BY LoopStepMoves DEF LoopMoves
<1>7. TypeOK /\ W /\ <<ListenerExpires>>_vars => ~W'
  BY DEF ListenerExpires
<1>8. TypeOK /\ A /\ <<LoopRuns(l)>>_vars => ~A'
  BY DEF LoopRuns, Select, AcceptFails, LoopEnds, TypeOK
<1>9. TypeOK /\ S /\ <<LoopRuns(l)>>_vars => ~S'
  BY DEF LoopRuns, Select, AcceptFails, LoopEnds, TypeOK
<1>10. TypeOK /\ G /\ <<LoopRuns(l)>>_vars => ~G'
  BY DEF LoopRuns, Select, AcceptFails, LoopEnds, TypeOK
<1>11. StepsEnabled /\ W => ENABLED <<ListenerExpires>>_vars
  BY DEF StepsEnabled
<1>12. StepsEnabled /\ (A \/ S \/ G) => ENABLED <<LoopRuns(l)>>_vars
  BY DEF StepsEnabled
<1> HIDE DEF W, A, S, G
<1> QED
  BY <1>1, <1>2, <1>3, <1>4, <1>5, <1>6, <1>7, <1>8, <1>9, <1>10, <1>11, <1>12, TypeCorrect,
     PTL DEF FairSpec, Spec, Fairness, LoopFair

\* Whom a walk has taken a snapshot of has been in its bucket; a connection
\* outside of Server.work has not.
SeenInv ==
  /\ \A c \in todo : conn[c].seen
  /\ \A c \in Conns : conn[c].listed => conn[c].seen
  /\ \A c \in Conns : conn[c].at \notin LifePoints => conn[c] = Outside(conn[c].at)

\* How a connection comes to its life: AcceptTCP returns it, and serve sets its
\* socket options or gives it up.
Arrivals(w) ==
  {v \in {Outside("serve")} : w = Outside("none")}
    \union {v \in {NewLife, Outside("leaked")} : w = Outside("serve")}

\* A step of the server is one of a single connection, and then an arrival or a
\* step of WorkerLife.
FollowsLife ==
  \/ conn' = conn
  \/ \E c \in Conns : \E w \in Arrivals(conn[c]) \union LifeSteps(conn[c]) : Become(c, w)

\* What has been seen stays so in a step of a life, and what is listed has been.
LEMMA SeenFacts ==
  ASSUME NEW w \in ConnType, w.listed => w.seen, w.seen => w.at \in LifePoints,
         NEW v \in LifeSteps(w)
  PROVE  v \in ConnType /\ v.at \in LifePoints /\ (w.seen => v.seen) /\ (v.listed => v.seen)
<1>1. CASE v = Asked(w) /\ w.seen
  BY <1>1 DEF Asked, Life, ConnType
<1>2. CASE v = Life("stop", w.listed, w.seen, w.asked)
  BY <1>2 DEF Life, ConnType, LifePoints
<1>3. CASE v = Life("work", TRUE, TRUE, w.asked)
  <2>1. v \in ConnType /\ v.at = "work"
    BY <1>3 DEF Life, ConnType, LifePoints
  <2>2. v.seen
    BY <1>3 DEF Life
  <2> QED
    BY <2>1, <2>2 DEF LifePoints
<1>4. CASE v = Life("stop", FALSE, w.seen, w.asked)
  <2>1. v \in ConnType /\ v.at = "stop" /\ v.seen = w.seen
    BY <1>4 DEF Life, ConnType, LifePoints
  <2>2. ~v.listed
    BY <1>4 DEF Life
  <2> QED
    BY <2>1, <2>2 DEF LifePoints
<1>5. CASE v = Life("stopped", w.listed, w.seen, w.asked)
  BY <1>5 DEF Life, ConnType, LifePoints
<1> QED
  BY <1>1, <1>2, <1>3, <1>4, <1>5 DEF LifeSteps, Advances

\* The connections that arrive are outside or at the start, and not seen.
LEMMA ArrivalFacts ==
  /\ \A p \in {"none", "serve", "leaked"} :
       /\ Outside(p) \in ConnType /\ Outside(p).at = p /\ ~Outside(p).seen /\ ~Outside(p).listed
  /\ NewLife \in ConnType /\ NewLife.at = "start" /\ ~NewLife.seen /\ ~NewLife.listed
<1>1. ASSUME NEW p \in {"none", "serve", "leaked"}
      PROVE  /\ Outside(p) \in ConnType /\ Outside(p).at = p
             /\ ~Outside(p).seen /\ ~Outside(p).listed
  <2>1. Outside(p) \in ConnType /\ Outside(p).at = p
    BY DEF Outside, Life, ConnType
  <2>2. ~Outside(p).seen /\ ~Outside(p).listed
    BY DEF Outside, Life
  <2> QED
    BY <2>1, <2>2
<1>2. NewLife \in ConnType /\ NewLife.at = "start"
  BY DEF NewLife, Life, ConnType, LifePoints
<1>3. ~NewLife.seen /\ ~NewLife.listed
  BY DEF NewLife, Life
<1> QED
  BY <1>1, <1>2, <1>3

\* Every step of the server is an arrival or a step of one life.
LEMMA FollowsStep ==
  ASSUME Inv, SeenInv, [Next]_vars
  PROVE  FollowsLife
<1>1. ASSUME NEW c \in Conns, NEW w \in Arrivals(conn[c]) \union LifeSteps(conn[c]), Become(c, w)
      PROVE  FollowsLife
  BY <1>1 DEF FollowsLife
<1>2. ASSUME NEW l \in AcceptLoops, Accept(l) PROVE FollowsLife
  <2>1. accepted + 1 \in Conns /\ conn[accepted + 1].at = "none"
    BY <1>2 DEF Accept, Inv, TypeOK, LifeInv
  <2>2. conn[accepted + 1] = Outside("none")
    BY <2>1 DEF SeenInv, LifePoints
  <2> QED
    BY <1>1, <1>2, <2>1, <2>2 DEF Accept, Arrivals
<1>3. ASSUME NEW c \in Conns, Serve(c) PROVE FollowsLife
  <2>1. conn[c] = Outside("serve")
    BY <1>3 DEF Serve, SeenInv, LifePoints
  <2> QED
    BY <1>1, <1>3, <2>1 DEF Serve, Arrivals
<1>4. ASSUME NEW c \in Conns, Work(c) PROVE FollowsLife
  BY <1>1, <1>4 DEF Work, LifeSteps
<1>5. ASSUME NEW c \in Conns, Ask(c) \/ Disconnect(c) PROVE FollowsLife
  <2>1. conn[c].seen /\ Become(c, Asked(conn[c]))
    BY <1>5 DEF Ask, Disconnect, SeenInv
  <2> QED
    BY <1>1, <2>1 DEF LifeSteps
<1>6. ASSUME UNCHANGED conn PROVE FollowsLife
  BY <1>6 DEF FollowsLife
<1>7. ASSUME NEW l \in AcceptLoops, Select(l) \/ AcceptFails(l) \/ LoopEnds(l) PROVE UNCHANGED conn
  BY <1>7 DEF Select, AcceptFails, LoopEnds
<1>8. ASSUME NEW c \in Conns, Wait(c) PROVE UNCHANGED conn
  BY <1>8 DEF Wait
<1>9. ListenerExpires \/ BeginStop \/ Snapshot \/ WalkEnds \/ ContextDone \/ UNCHANGED vars
        => UNCHANGED conn
  BY DEF ListenerExpires, BeginStop, Snapshot, WalkEnds, ContextDone, vars
<1> QED
  BY <1>2, <1>3, <1>4, <1>5, <1>6, <1>7, <1>8, <1>9 DEF Next, LoopStep, WalkStep

\* Every step keeps SeenInv.
LEMMA SeenStep ==
  ASSUME Inv, SeenInv, [Next]_vars
  PROVE  SeenInv'
<1>1. conn \in [Conns -> ConnType] /\ todo \subseteq Conns
  BY DEF Inv, TypeOK
<1>2. todo' \subseteq todo \union Listed
  <2>1. ASSUME NEW c \in Conns, Ask(c) \/ Wait(c) PROVE todo' \subseteq todo
    BY <2>1 DEF Ask, Wait
  <2>2. CASE Snapshot BY <2>2 DEF Snapshot
  <2>3. CASE BeginStop BY <2>3 DEF BeginStop
  <2>4. ASSUME NEW l \in AcceptLoops, LoopStep(l) PROVE UNCHANGED todo
    BY <2>4 DEF LoopStep, Select, Accept, AcceptFails, LoopEnds
  <2>5. ASSUME NEW c \in Conns, Serve(c) \/ Work(c) \/ Disconnect(c) PROVE UNCHANGED todo
    BY <2>5 DEF Serve, Work, Disconnect
  <2>6. WalkEnds \/ ListenerExpires \/ ContextDone \/ UNCHANGED vars => UNCHANGED todo
    BY DEF WalkEnds, ListenerExpires, ContextDone, vars
  <2> QED
    BY <2>1, <2>2, <2>3, <2>4, <2>5, <2>6 DEF Next, WalkStep
<1>3. \A c \in todo' : c \in Conns /\ conn[c].seen
  BY <1>1, <1>2 DEF SeenInv, Listed
<1>4. CASE conn' = conn
  BY <1>3, <1>4 DEF SeenInv, Outside
<1>5. ASSUME NEW c \in Conns, NEW w \in Arrivals(conn[c]) \union LifeSteps(conn[c]), Become(c, w)
      PROVE  SeenInv'
  <2>1. conn'[c] = w /\ \A d \in Conns : d # c => conn'[d] = conn[d]
    BY <1>1, <1>5
  <2>2. conn[c].seen => conn[c].at \in LifePoints
    <3> SUFFICES ASSUME conn[c].at \notin LifePoints PROVE ~conn[c].seen
      OBVIOUS
    <3>1. conn[c] = Outside(conn[c].at) /\ conn[c].at \in {"none", "serve", "leaked"}
      BY <1>1 DEF SeenInv, ConnType
    <3> QED
      BY <3>1, ArrivalFacts
  <2>3. /\ conn[c].seen => w.seen
        /\ w.listed => w.seen
        /\ w.at \notin LifePoints => w = Outside(w.at)
    <3>1. CASE w \in LifeSteps(conn[c])
      <4>1. conn[c] \in ConnType /\ (conn[c].listed => conn[c].seen)
        BY <1>1 DEF SeenInv
      <4> QED
        BY <2>2, <3>1, <4>1, SeenFacts
    <3>2. CASE w \in Arrivals(conn[c])
      <4>1. ~conn[c].seen
        BY <3>2, ArrivalFacts DEF Arrivals
      <4>2. ~w.listed /\ (w = NewLife \/ w = Outside("serve") \/ w = Outside("leaked"))
        BY <3>2, ArrivalFacts DEF Arrivals
      <4>3. w.at \notin LifePoints => w = Outside(w.at)
        BY <4>2, ArrivalFacts DEF LifePoints
      <4> QED
        BY <4>1, <4>2, <4>3
    <3> QED
      BY <3>1, <3>2
  <2>4. ASSUME NEW d \in Conns
        PROVE  /\ conn[d].seen => conn'[d].seen
               /\ conn'[d].listed => conn'[d].seen
               /\ conn'[d].at \notin LifePoints => conn'[d] = Outside(conn'[d].at)
    <3>1. CASE d = c
      BY <2>1, <2>3, <3>1
    <3>2. CASE d # c
      BY <2>1, <3>2 DEF SeenInv
    <3> QED
      BY <3>1, <3>2
  <2> QED
    BY <1>3, <2>4 DEF SeenInv, Outside
<1> QED
  BY <1>4, <1>5, FollowsStep DEF FollowsLife

\* The server changes one connection at a time and only as WorkerLife allows:
\* in particular both walks of Stop and Disconnect ask only workers that have
\* been in their bucket.  It is what Worker assumes of the server.
THEOREM ConnectionsFollowLife == Spec => [][FollowsLife]_vars
<1>1. Init => SeenInv
  <2> SUFFICES ASSUME Init PROVE SeenInv
    OBVIOUS
  <2>1. todo = {} /\ \A c \in Conns : conn[c] = Outside("none")
    BY DEF Init
  <2>2. Outside("none").at = "none" /\ ~Outside("none").listed
    BY ArrivalFacts
  <2> QED
    BY <2>1, <2>2 DEF SeenInv
<1>2. Inv /\ SeenInv /\ [Next]_vars => SeenInv' /\ FollowsLife
  BY SeenStep, FollowsStep
<1> QED
  BY <1>1, <1>2, Invariance, PTL DEF Spec

\* The steps that Server.stop has left at most: those of the walks still to
\* come, a snapshot for each bucket and a step for each worker of it.
PerBucket == MaxConns + 1
PerWalk   == (BucketSize + 1) * PerBucket
WalksLeft(s) == CASE s = "asking" -> 2 [] s = "waiting" -> 1 [] OTHER -> 0
StepsFrom(s, b, t) == WalksLeft(s) * PerWalk + (BucketSize - b) * PerBucket + Cardinality(t)
StepsLeft == StepsFrom(stop, bucket, todo)

\* A step of the walks leaves fewer; no other step of a server that is being
\* stopped leaves more.
StopAdvances ==
  /\ WalkStep => StepsLeft \in Nat /\ StepsLeft' \in Nat /\ StepsLeft' < StepsLeft
  /\ stop # "live" /\ ~WalkStep => StepsLeft' = StepsLeft

\* A set of connections is finite, and has at most MaxConns members.
LEMMA ConnSets ==
  ASSUME NEW S \in SUBSET Conns
  PROVE  IsFiniteSet(S) /\ Cardinality(S) \in Nat /\ Cardinality(S) <= MaxConns
<1>1. IsFiniteSet(Conns) /\ Cardinality(Conns) = MaxConns
  BY FS_Interval
<1> QED
  BY <1>1, FS_Subset, FS_CardinalityType

\* The sizes the measure is made of.
LEMMA WalkSizes ==
  /\ PerBucket \in Nat /\ PerBucket = MaxConns + 1
  /\ PerWalk \in Nat /\ PerWalk = BucketSize * PerBucket + PerBucket
<1>1. PerBucket \in Nat /\ PerBucket = MaxConns + 1
  BY DEF PerBucket
<1>2. (BucketSize + 1) * PerBucket = BucketSize * PerBucket + PerBucket
  BY <1>1
<1>3. (BucketSize + 1) * PerBucket \in Nat
  BY <1>1
<1> QED
  BY <1>1, <1>2, <1>3 DEF PerWalk

\* The measure is a number.
LEMMA StepsAreNumber ==
  ASSUME NEW s, NEW b \in 0..BucketSize, NEW t \in SUBSET Conns
  PROVE  /\ WalksLeft(s) \in 0..2 /\ WalksLeft(s) * PerWalk \in Nat
         /\ (BucketSize - b) * PerBucket \in Nat
         /\ StepsFrom(s, b, t) \in Nat
<1>1. BucketSize - b \in Nat
  OBVIOUS
<1>2. WalksLeft(s) \in 0..2
  BY DEF WalksLeft
<1>3. WalksLeft(s) * PerWalk \in Nat /\ (BucketSize - b) * PerBucket \in Nat
  BY <1>1, <1>2, WalkSizes
<1> QED
  BY <1>2, <1>3, ConnSets DEF StepsFrom

\* Stop takes a bounded number of steps: every step of the two walks, with
\* connections that come and go meanwhile, leaves fewer to be taken.
THEOREM StopIsBounded == Spec => [][StopAdvances]_vars
<1>1. ASSUME TypeOK, TypeOK', [Next]_vars PROVE StopAdvances
  <2>1. /\ bucket \in 0..BucketSize /\ todo \in SUBSET Conns
        /\ bucket' \in 0..BucketSize /\ todo' \in SUBSET Conns
    BY <1>1 DEF TypeOK
  <2>2. StepsLeft \in Nat /\ StepsLeft' \in Nat
    BY <2>1, StepsAreNumber DEF StepsLeft
  <2>3. ASSUME NEW c \in Conns, Ask(c) \/ Wait(c) PROVE StepsLeft' < StepsLeft
    <3>1. c \in todo /\ todo' = todo \ {c} /\ stop' = stop /\ bucket' = bucket
      BY <2>3 DEF Ask, Wait
    <3>2. IsFiniteSet(todo) /\ Cardinality(todo) \in Nat
      BY <2>1, ConnSets
    <3>3. Cardinality(todo') = Cardinality(todo) - 1
      BY <3>1, <3>2, FS_RemoveElement
    <3> QED
      BY <2>1, <3>1, <3>2, <3>3, StepsAreNumber DEF StepsLeft, StepsFrom
  <2>4. ASSUME Snapshot PROVE StepsLeft' < StepsLeft
    <3>1. todo = {} /\ bucket' = bucket + 1 /\ stop' = stop
      BY <2>4 DEF Snapshot
    <3>2. Cardinality(todo) = 0 /\ Cardinality(todo') \in Nat /\ Cardinality(todo') <= MaxConns
      BY <2>1, <3>1, ConnSets, FS_EmptySet
    <3>3. (BucketSize - bucket) * PerBucket = (BucketSize - bucket') * PerBucket + PerBucket
      BY <2>1, <3>1, WalkSizes
    <3>4. StepsLeft' = WalksLeft(stop) * PerWalk + (BucketSize - bucket') * PerBucket + Cardinality(todo')
      BY <3>1 DEF StepsLeft, StepsFrom
    <3>5. /\ WalksLeft(stop) * PerWalk \in Nat /\ (BucketSize - bucket') * PerBucket \in Nat
          /\ PerBucket = MaxConns + 1
      BY <2>1, StepsAreNumber, WalkSizes
    <3>6. StepsLeft = WalksLeft(stop) * PerWalk + ((BucketSize - bucket') * PerBucket + PerBucket) + 0
      BY <3>2, <3>3 DEF StepsLeft, StepsFrom
    <3> QED
      BY <3>2, <3>4, <3>5, <3>6
  <2>5. ASSUME WalkEnds PROVE StepsLeft' < StepsLeft
    <3>1. /\ todo = {} /\ todo' = {} /\ bucket = BucketSize /\ bucket' = 0
          /\ WalksLeft(stop) = WalksLeft(stop') + 1 /\ WalksLeft(stop') \in {0, 1}
      BY <2>5 DEF WalkEnds, WalksLeft
    <3>2. Cardinality(todo) = 0 /\ Cardinality(todo') = 0
      BY <3>1, FS_EmptySet
    <3>3. WalksLeft(stop) * PerWalk = WalksLeft(stop') * PerWalk + PerWalk
      BY <3>1, WalkSizes
    <3>4. (BucketSize - bucket) * PerBucket = 0
          /\ (BucketSize - bucket') * PerBucket = BucketSize * PerBucket
      BY <3>1, WalkSizes
    <3>5. WalksLeft(stop') * PerWalk \in Nat /\ BucketSize * PerBucket \in Nat
      BY <3>1, WalkSizes
    <3>6. StepsLeft = WalksLeft(stop') * PerWalk + PerWalk + 0 + 0
      BY <3>2, <3>3, <3>4 DEF StepsLeft, StepsFrom
    <3>7. StepsLeft' = WalksLeft(stop') * PerWalk + BucketSize * PerBucket + 0
      BY <3>2, <3>4 DEF StepsLeft, StepsFrom
    <3>8. PerWalk = BucketSize * PerBucket + PerBucket /\ PerBucket \in Nat /\ PerBucket > 0
      BY WalkSizes
    <3> QED
      BY <3>5, <3>6, <3>7, <3>8
  <2>6. ASSUME WalkStep PROVE StepsLeft' < StepsLeft
    <3>1. Snapshot \/ WalkEnds \/ \E c \in Conns : Ask(c) \/ Wait(c)
      BY <2>6 DEF WalkStep
    <3> QED
      BY <2>3, <2>4, <2>5, <3>1
  <2>7. stop # "live" /\ ~WalkStep => UNCHANGED <<stop, bucket, todo>>
    <3>1. ASSUME NEW l \in AcceptLoops, LoopStep(l) PROVE UNCHANGED <<stop, bucket, todo>>
      BY <3>1 DEF LoopStep, Select, Accept, AcceptFails, LoopEnds
    <3>2. ASSUME NEW c \in Conns, Serve(c) \/ Work(c) \/ Disconnect(c)
          PROVE  UNCHANGED <<stop, bucket, todo>>
      BY <3>2 DEF Serve, Work, Disconnect
    <3>3. ListenerExpires \/ ContextDone \/ UNCHANGED vars => UNCHANGED <<stop, bucket, todo>>
      BY DEF ListenerExpires, ContextDone, vars
    <3>4. BeginStop => stop = "live"
      BY DEF BeginStop
    <3> QED
      BY <1>1, <3>1, <3>2, <3>3, <3>4 DEF Next
  <2>8. UNCHANGED <<stop, bucket, todo>> => StepsLeft' = StepsLeft
    BY DEF StepsLeft
  <2> QED
    BY <2>2, <2>6, <2>7, <2>8 DEF StopAdvances
<1> QED
  BY <1>1, TypeCorrect, PTL DEF Spec
==============================================================================
