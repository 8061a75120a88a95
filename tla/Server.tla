-------------------------------- MODULE Server -------------------------------
(***************************************************************************)
(* The TCP server: its accept loops, the connections they hand to serve,   *)
(* the two walks over the buckets by which Stop ends the workers, and      *)
(* Disconnect.                                                             *)
(*                                                                         *)
(* Connections are numbered in the order in which idGen counts them.  A    *)
(* connection lives as WorkerLife says, which Worker implements, from the  *)
(* time serve has set its socket options.  Stop does not close the         *)
(* listener: a blocked AcceptTCP ends with a connection, with an error, or *)
(* when the context given to Start is done and the listener's deadline has *)
(* been set.  WaitStopped (of the worker, of the server) returns when the  *)
(* stop is done or after the stop timeout, which may pass at any time.     *)
(***************************************************************************)
EXTENDS Integers, FiniteSets, WorkerLife

CONSTANTS
  AcceptLoops, \* workerSize goroutines
  BucketSize,
  MaxConns     \* bound: connections that clients open

ASSUME ServerAssumption == BucketSize \in Nat \ {0} /\ MaxConns \in Nat

VARIABLES
  ctxDone,  \* the context given to Start is done
  expired,  \* SetDeadlineWithContext has set the listener's deadline to now
  loop,     \* control points of the accept loops
  accepted, \* idGen
  conn,     \* the life of each connection
  stop,     \* control point of Server.stop
  bucket,   \* buckets the current walk has taken a snapshot of
  todo,     \* the workers of the snapshot that the walk has not come to
  present,  \* history: the workers in their buckets when the stop began
  late,     \* history: how many connections each loop accepted since then
  gaveUp    \* history: the workers that Server.stop waited for in vain

stopVars == <<stop, bucket, todo, present, gaveUp>>
loopVars == <<loop, accepted, late>>
vars == <<ctxDone, expired, loopVars, conn, stopVars>>

Conns == 1..MaxConns

\* A connection that is not accepted yet, is being set up, or was given up by
\* serve without being closed.
Outside(p) == Life(p, FALSE, FALSE, FALSE)

Listed == {c \in Conns : conn[c].listed}
Bucket(c) == c % BucketSize
Become(c, w) == conn' = [conn EXCEPT ![c] = w]

Init ==
  /\ ctxDone = FALSE /\ expired = FALSE
  /\ loop = [l \in AcceptLoops |-> "select"] /\ accepted = 0
  /\ conn = [c \in Conns |-> Outside("none")]
  /\ stop = "live" /\ bucket = 0 /\ todo = {}
  /\ present = {} /\ late = [l \in AcceptLoops |-> 0] /\ gaveUp = {}

------------------------------------------------------------------------------
(* acceptLoop and accept. *)

LoopGoto(l, p) == loop' = [loop EXCEPT ![l] = p]

\* Mutant: the loop does not look at Stopping.
SelectContextOnly(l) ==
  /\ loop[l] = "select"
  /\ LoopGoto(l, IF ctxDone THEN "waiting" ELSE "accepting")
  /\ UNCHANGED <<ctxDone, expired, accepted, late, conn, stopVars>>

Select(l) ==
  /\ loop[l] = "select"
  /\ LoopGoto(l, IF stop # "live" \/ ctxDone THEN "waiting" ELSE "accepting")
  /\ UNCHANGED <<ctxDone, expired, accepted, late, conn, stopVars>>

\* AcceptTCP returns a connection, which gets the next id and a goroutine.
Accept(l) ==
  /\ loop[l] = "accepting" /\ ~expired /\ accepted < MaxConns
  /\ LoopGoto(l, "select") /\ accepted' = accepted + 1
  /\ late' = (IF stop = "live" THEN late ELSE [late EXCEPT ![l] = @ + 1])
  /\ Become(accepted + 1, Outside("serve"))
  /\ UNCHANGED <<ctxDone, expired, stopVars>>

\* The error is logged and the loop goes on.
AcceptFails(l) ==
  /\ loop[l] = "accepting"
  /\ LoopGoto(l, "select")
  /\ UNCHANGED <<ctxDone, expired, accepted, late, conn, stopVars>>

\* s.WaitStopped, then the loop returns.
LoopEnds(l) ==
  /\ loop[l] = "waiting"
  /\ LoopGoto(l, "ended")
  /\ UNCHANGED <<ctxDone, expired, accepted, late, conn, stopVars>>

\* Mutant: the listener is not tied to the context.
ListenerExpiresNever ==
  FALSE /\ expired' = TRUE /\ UNCHANGED <<ctxDone, loopVars, conn, stopVars>>

ListenerExpires ==
  /\ ctxDone /\ ~expired
  /\ expired' = TRUE
  /\ UNCHANGED <<ctxDone, loopVars, conn, stopVars>>

------------------------------------------------------------------------------
(* serve and work. *)

\* The socket options are set, or one cannot be: serve returns then and the
\* connection is not closed.
Serve(c) ==
  /\ conn[c].at = "serve"
  /\ \/ Become(c, NewLife)
     \/ Become(c, Outside("leaked"))
  /\ UNCHANGED <<ctxDone, expired, loopVars, stopVars>>

Work(c) ==
  /\ \E w \in Advances(conn[c]) : Become(c, w)
  /\ UNCHANGED <<ctxDone, expired, loopVars, stopVars>>

------------------------------------------------------------------------------
(* Stop and Disconnect. *)

BeginStop ==
  /\ stop = "live"
  /\ stop' = "asking" /\ bucket' = 0 /\ todo' = {} /\ present' = Listed
  /\ UNCHANGED <<ctxDone, expired, loopVars, conn, gaveUp>>

\* Bucket.walk takes the snapshot of the next bucket.
Snapshot ==
  /\ stop \in {"asking", "waiting"} /\ todo = {} /\ bucket < BucketSize
  /\ todo' = {c \in Listed : Bucket(c) = bucket} /\ bucket' = bucket + 1
  /\ UNCHANGED <<ctxDone, expired, loopVars, conn, stop, present, gaveUp>>

\* TriggerStop of a worker of the snapshot, which may have left meanwhile.
Ask(c) ==
  /\ stop = "asking" /\ c \in todo
  /\ todo' = todo \ {c} /\ Become(c, Asked(conn[c]))
  /\ UNCHANGED <<ctxDone, expired, loopVars, stop, bucket, present, gaveUp>>

\* Mutant: WaitStopped has no timeout.
WaitForever(c) ==
  /\ stop = "waiting" /\ c \in todo /\ Stopped(conn[c])
  /\ todo' = todo \ {c} /\ UNCHANGED gaveUp
  /\ UNCHANGED <<ctxDone, expired, loopVars, conn, stop, bucket, present>>

\* WaitStopped of a worker of the snapshot returns.
Wait(c) ==
  /\ stop = "waiting" /\ c \in todo
  /\ todo' = todo \ {c}
  /\ gaveUp' = (IF Stopped(conn[c]) THEN gaveUp ELSE gaveUp \union {c})
  /\ UNCHANGED <<ctxDone, expired, loopVars, conn, stop, bucket, present>>

\* Mutant: a walk leaves out the last bucket.
WalkEndsEarly ==
  /\ stop \in {"asking", "waiting"} /\ todo = {} /\ bucket >= BucketSize - 1
  /\ stop' = (IF stop = "asking" THEN "waiting" ELSE "closed") /\ bucket' = 0
  /\ UNCHANGED <<ctxDone, expired, loopVars, conn, todo, present, gaveUp>>

\* The second walk follows the first; then Stop returns.
WalkEnds ==
  /\ stop \in {"asking", "waiting"} /\ todo = {} /\ bucket = BucketSize
  /\ stop' = (IF stop = "asking" THEN "waiting" ELSE "closed") /\ bucket' = 0
  /\ UNCHANGED <<ctxDone, expired, loopVars, conn, todo, present, gaveUp>>

\* TriggerStop of a worker that Disconnect has found in its bucket, perhaps a
\* while ago.
Disconnect(c) ==
  /\ conn[c].seen /\ Become(c, Asked(conn[c]))
  /\ UNCHANGED <<ctxDone, expired, loopVars, stopVars>>

ContextDone ==
  /\ ~ctxDone /\ ctxDone' = TRUE
  /\ UNCHANGED <<expired, loopVars, conn, stopVars>>

------------------------------------------------------------------------------
LoopStep(l) == Select(l) \/ Accept(l) \/ AcceptFails(l) \/ LoopEnds(l)
WalkStep == Snapshot \/ WalkEnds \/ \E c \in Conns : Ask(c) \/ Wait(c)

Next ==
  \/ \E l \in AcceptLoops : LoopStep(l)
  \/ ListenerExpires \/ BeginStop \/ WalkStep \/ ContextDone
  \/ \E c \in Conns : Serve(c) \/ Work(c) \/ Disconnect(c)

Spec == Init /\ [][Next]_vars

\* The steps of an accept loop that wait for no client.
LoopRuns(l) == Select(l) \/ LoopEnds(l) \/ (expired /\ AcceptFails(l))

\* The goroutines of the server run, an expired listener answers AcceptTCP,
\* and stop timeouts pass.  Nothing is assumed of clients, of workers, or of
\* when the server is stopped.
LoopFair(l) == WF_vars(LoopRuns(l))
LoopsFair   == \A l \in AcceptLoops : LoopFair(l)
Fairness    == WF_vars(ListenerExpires) /\ WF_vars(WalkStep) /\ LoopsFair

FairSpec == Spec /\ Fairness

\* When the steps towards the end of the accept loops can be taken, as the
\* guards say.  It holds in every state; the proofs take it as a hypothesis, for
\* the provers cannot compute ENABLED.
StepsEnabled ==
  /\ ctxDone /\ ~expired => ENABLED <<ListenerExpires>>_vars
  /\ \A l \in AcceptLoops :
       loop[l] \in {"select", "waiting"} \/ (loop[l] = "accepting" /\ expired)
         => ENABLED <<LoopRuns(l)>>_vars

------------------------------------------------------------------------------
(* Properties. *)

ConnType == [at : LifePoints \union {"none", "serve", "leaked"},
             listed : BOOLEAN, seen : BOOLEAN, asked : BOOLEAN]

TypeOK ==
  /\ ctxDone \in BOOLEAN /\ expired \in BOOLEAN
  /\ loop \in [AcceptLoops -> {"select", "accepting", "waiting", "ended"}]
  /\ accepted \in 0..MaxConns /\ late \in [AcceptLoops -> Nat]
  /\ conn \in [Conns -> ConnType]
  /\ stop \in {"live", "asking", "waiting", "closed"} /\ bucket \in 0..BucketSize
  /\ todo \subseteq Conns /\ present \subseteq Conns /\ gaveUp \subseteq Conns

\* Although Stop leaves the listener open, an accept loop hands out at most
\* one connection after the stop has begun.
OneLateAcceptPerLoop == \A l \in AcceptLoops : late[l] <= 1

\* When Stop returns ("TCP server is closed"), a worker that was in its bucket
\* when the stop began has left it, or has been asked to stop and has been
\* waited for in vain: no interleaving of the two walks with connections that
\* come and go loses one.
StopMissesNobody ==
  stop = "closed" => \A c \in present : conn[c].listed => conn[c].asked /\ c \in gaveUp

\* Stop returns, whatever the workers do.
StopReturns == stop # "live" ~> stop = "closed"

\* Once the context given to Start is done, every accept loop ends, also one
\* that is blocked in AcceptTCP.
AcceptLoopsEnd == \A l \in AcceptLoops : ctxDone ~> loop[l] = "ended"
==============================================================================
