----------------------------- MODULE RouteTable ------------------------------
(***************************************************************************)
(* The shared table, in Redis, that says which gate a user is connected    *)
(* to.  A connection adds its user's route when its handshake is done and  *)
(* removes it when it ends; other servers read the table to reach a user.  *)
(*                                                                         *)
(* A command is sent, and carried out by Redis at a later step.  The gate  *)
(* waits two seconds for the answer; after that the command may still be   *)
(* carried out, or be lost.  Connections of one user may be on one gate or *)
(* on several, and a gate may crash.  A connection that fails its          *)
(* handshake cleans up the route of the empty session's user, NoUid.       *)
(***************************************************************************)
EXTENDS Integers

CONSTANTS Gates, Conns, Uids, NoGate, NoUid

ASSUME NamesAssumption == NoGate \notin Gates /\ NoUid \notin Uids

VARIABLES
  at,      \* control point of each connection's serve goroutine
  gate,    \* the gate a connection is on
  key,     \* the user of its session
  sent,    \* commands sent, neither carried out nor lost yet
  applied, \* commands carried out
  route,   \* the table
  newest,  \* history: the connection whose GetSet was carried out last
  faulty   \* history: the connections with a failed or skipped call or a crash

vars == <<at, gate, key, sent, applied, route, newest, faulty>>

Points   == {"idle", "start", "add", "online", "del", "deleting", "gone"}
Keys     == Uids \union {NoUid}
Ops      == {"GetSet", "DelIfSame"}
Commands == Ops \X Conns

Init ==
  /\ at = [c \in Conns |-> "idle"] /\ gate = [c \in Conns |-> NoGate]
  /\ key = [c \in Conns |-> NoUid] /\ sent = {} /\ applied = {}
  /\ route = [k \in Keys |-> NoGate] /\ newest = [k \in Keys |-> {}] /\ faulty = {}

Goto(c, p) == at' = [at EXCEPT ![c] = p]

------------------------------------------------------------------------------
(* The connections. *)

Accept(c, g) ==
  /\ at[c] = "idle"
  /\ Goto(c, "start") /\ gate' = [gate EXCEPT ![c] = g]
  /\ UNCHANGED <<key, sent, applied, route, newest, faulty>>

\* The handshake succeeds; afterConnectFunc sends GetSet.
AddRouteTable(c, u) ==
  /\ at[c] = "start"
  /\ Goto(c, "add") /\ key' = [key EXCEPT ![c] = u]
  /\ sent' = sent \union {<<"GetSet", c>>}
  /\ UNCHANGED <<gate, applied, route, newest, faulty>>

StartFails(c) ==
  /\ at[c] = "start"
  /\ Goto(c, "del")
  /\ UNCHANGED <<gate, key, sent, applied, route, newest, faulty>>

AddReturns(c) ==
  /\ at[c] = "add" /\ <<"GetSet", c>> \in applied
  /\ Goto(c, "online")
  /\ UNCHANGED <<gate, key, sent, applied, route, newest, faulty>>

\* The two seconds are over, or the answer is lost: the connection ends.
AddFails(c) ==
  /\ at[c] = "add"
  /\ Goto(c, "del") /\ faulty' = faulty \union {c}
  /\ UNCHANGED <<gate, key, sent, applied, route, newest>>

Leave(c) ==
  /\ at[c] = "online"
  /\ Goto(c, "del")
  /\ UNCHANGED <<gate, key, sent, applied, route, newest, faulty>>

\* Mutant: afterDisconnectFunc does not send DelIfSame.
DelRouteTableForgotten(c) ==
  /\ at[c] = "del"
  /\ Goto(c, "gone")
  /\ UNCHANGED <<gate, key, sent, applied, route, newest, faulty>>

\* afterDisconnectFunc sends DelIfSame.
DelRouteTable(c) ==
  /\ at[c] = "del"
  /\ Goto(c, "deleting") /\ sent' = sent \union {<<"DelIfSame", c>>}
  /\ UNCHANGED <<gate, key, applied, route, newest, faulty>>

DelReturns(c) ==
  /\ at[c] = "deleting" /\ <<"DelIfSame", c>> \in applied
  /\ Goto(c, "gone")
  /\ UNCHANGED <<gate, key, sent, applied, route, newest, faulty>>

\* The call fails, or is not sent because the server's context is done: the
\* failure is at most logged.
DelFails(c) ==
  /\ at[c] \in {"del", "deleting"}
  /\ Goto(c, "gone") /\ faulty' = faulty \union {c}
  /\ UNCHANGED <<gate, key, sent, applied, route, newest>>

GateCrashes(g) ==
  /\ \E c \in Conns : gate[c] = g /\ at[c] # "gone"
  /\ at' = [c \in Conns |-> IF gate[c] = g THEN "gone" ELSE at[c]]
  /\ faulty' = faulty \union {c \in Conns : gate[c] = g}
  /\ UNCHANGED <<gate, key, sent, applied, route, newest>>

------------------------------------------------------------------------------
(* Redis and the network. *)

GetSet(c) ==
  /\ <<"GetSet", c>> \in sent
  /\ sent' = sent \ {<<"GetSet", c>>} /\ applied' = applied \union {<<"GetSet", c>>}
  /\ route' = [route EXCEPT ![key[c]] = gate[c]] /\ newest' = [newest EXCEPT ![key[c]] = {c}]
  /\ UNCHANGED <<at, gate, key, faulty>>

\* Mutant: the route is removed whichever gate it names.
DelAlways(c) ==
  /\ <<"DelIfSame", c>> \in sent
  /\ sent' = sent \ {<<"DelIfSame", c>>} /\ applied' = applied \union {<<"DelIfSame", c>>}
  /\ route' = [route EXCEPT ![key[c]] = NoGate]
  /\ UNCHANGED <<at, gate, key, newest, faulty>>

DelIfSame(c) ==
  /\ <<"DelIfSame", c>> \in sent
  /\ sent' = sent \ {<<"DelIfSame", c>>} /\ applied' = applied \union {<<"DelIfSame", c>>}
  /\ route' = [route EXCEPT ![key[c]] = IF @ = gate[c] THEN NoGate ELSE @]
  /\ UNCHANGED <<at, gate, key, newest, faulty>>

\* A command never reaches Redis.
Lose(op, c) ==
  /\ <<op, c>> \in sent
  /\ sent' = sent \ {<<op, c>>} /\ faulty' = faulty \union {c}
  /\ UNCHANGED <<at, gate, key, applied, route, newest>>

------------------------------------------------------------------------------
ConnStep(c) ==
  \/ StartFails(c) \/ AddReturns(c) \/ AddFails(c) \/ Leave(c)
  \/ DelRouteTable(c) \/ DelReturns(c) \/ DelFails(c) \/ GetSet(c) \/ DelIfSame(c)
  \/ \E g \in Gates : Accept(c, g)
  \/ \E u \in Uids : AddRouteTable(c, u)

Next ==
  \/ \E c \in Conns : ConnStep(c)
  \/ \E g \in Gates : GateCrashes(g)
  \/ \E op \in Ops, c \in Conns : Lose(op, c)

Spec == Init /\ [][Next]_vars

------------------------------------------------------------------------------
(* Properties. *)

TypeOK ==
  /\ at \in [Conns -> Points] /\ gate \in [Conns -> Gates \union {NoGate}]
  /\ key \in [Conns -> Keys] /\ sent \subseteq Commands /\ applied \subseteq Commands
  /\ route \in [Keys -> Gates \union {NoGate}] /\ newest \in [Keys -> SUBSET Conns]
  /\ faulty \subseteq Conns

Same(c, d) == key[c] = key[d] /\ gate[c] = gate[d]

\* The cleanup of one connection spares the route of another: a user's newest
\* connection keeps its route for as long as it stays, whatever old
\* connections of the user do on other gates and however late their commands
\* are carried out.  Only a connection of the same user on the same gate that
\* leaves can take it away: DelIfSame compares addresses, which those two share.
CleanupSparesOtherGates ==
  \A c \in Conns :
    /\ at[c] \in {"add", "online"} /\ c \in newest[key[c]]
    /\ \A d \in Conns : d # c /\ Same(c, d) => at[d] \in {"add", "online"}
    => route[key[c]] = gate[c]

\* A route names a gate with a connection of that user that has still to clean
\* up, or that ended with a call that failed: a connection whose calls all
\* succeed leaves no route behind, in whatever order the commands of several
\* connections are carried out.
RoutesAreLive ==
  \A k \in Keys : route[k] # NoGate =>
    \E c \in Conns : /\ key[c] = k /\ gate[c] = route[k]
                     /\ at[c] \in {"add", "online", "del", "deleting"} \/ c \in faulty
==============================================================================
