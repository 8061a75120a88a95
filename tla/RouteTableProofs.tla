-------------------------- MODULE RouteTableProofs ---------------------------
(***************************************************************************)
(* Proofs about RouteTable, for any set of gates, connections and users.   *)
(***************************************************************************)
EXTENDS RouteTable, TLAPS

USE DEF vars, Points, Keys, Ops, Commands, Goto

\* Every step keeps the types.
LEMMA TypeStep == TypeOK /\ [Next]_vars => TypeOK'
<1> SUFFICES ASSUME TypeOK, [Next]_vars PROVE TypeOK'
  OBVIOUS
<1> USE DEF TypeOK
<1>1. CASE UNCHANGED vars
  BY <1>1
<1>2. ASSUME NEW c \in Conns, ConnStep(c) PROVE TypeOK'
  <2>1. ASSUME NEW g \in Gates, Accept(c, g) PROVE TypeOK'
    BY <2>1 DEF Accept
  <2>2. ASSUME NEW u \in Uids, AddRouteTable(c, u) PROVE TypeOK'
    BY <2>2 DEF AddRouteTable
  <2>3. CASE StartFails(c) \/ AddReturns(c) \/ Leave(c) \/ DelReturns(c)
    BY <2>3 DEF StartFails, AddReturns, Leave, DelReturns
  <2>4. CASE AddFails(c) \/ DelFails(c)
    BY <2>4 DEF AddFails, DelFails
  <2>5. CASE DelRouteTable(c)
    BY <2>5 DEF DelRouteTable
  <2>6. CASE GetSet(c)
    BY <2>6 DEF GetSet
  <2>7. CASE DelIfSame(c)
    BY <2>7 DEF DelIfSame
  <2> QED
    BY <1>2, <2>1, <2>2, <2>3, <2>4, <2>5, <2>6, <2>7 DEF ConnStep
<1>3. ASSUME NEW g \in Gates, GateCrashes(g) PROVE TypeOK'
  BY <1>3 DEF GateCrashes
<1>4. ASSUME NEW op \in Ops, NEW c \in Conns, Lose(op, c) PROVE TypeOK'
  BY <1>4 DEF Lose
<1> QED
  BY <1>1, <1>2, <1>3, <1>4 DEF Next

\* All the variables keep their types.
THEOREM TypeCorrect == Spec => []TypeOK
<1>1. Init => TypeOK
  BY DEF Init, TypeOK
<1> QED
  BY <1>1, TypeStep, PTL DEF Spec

------------------------------------------------------------------------------
\* What the control point of a connection says about its session and its
\* commands: a key is final once the connection is past its handshake, a
\* removal is asked for only at the end, and a GetSet still under way past
\* "add" belongs to a connection with a failed call.
CommandInv ==
  \A c \in Conns :
    /\ at[c] \in {"idle", "start"} => key[c] = NoUid
    /\ at[c] \in {"add", "online"} => key[c] \in Uids
    /\ <<"GetSet", c>> \in sent => at[c] = "add" \/ c \in faulty
    /\ c \in faulty => at[c] \notin {"idle", "start"}
    /\ <<"GetSet", c>> \in sent => at[c] \notin {"idle", "start"}
    /\ <<"GetSet", c>> \in sent => <<"GetSet", c>> \notin applied
    /\ <<"GetSet", c>> \in applied => at[c] \notin {"idle", "start"}
    /\ <<"DelIfSame", c>> \in sent \union applied => at[c] \in {"deleting", "gone"}
    /\ \A k \in Keys : c \in newest[k] => key[c] = k /\ at[c] \notin {"idle", "start"}

\* Every step keeps CommandInv.
LEMMA CommandStep == TypeOK /\ CommandInv /\ [Next]_vars => CommandInv'
<1> SUFFICES ASSUME TypeOK, CommandInv, [Next]_vars PROVE CommandInv'
  OBVIOUS
<1> USE NamesAssumption DEF TypeOK, CommandInv
<1>1. CASE UNCHANGED vars
  BY <1>1
<1>2. ASSUME NEW c \in Conns, ConnStep(c) PROVE CommandInv'
  <2>1. ASSUME NEW g \in Gates, Accept(c, g) PROVE CommandInv'
    BY <2>1 DEF Accept
  <2>2. ASSUME NEW u \in Uids, AddRouteTable(c, u) PROVE CommandInv'
    BY <2>2 DEF AddRouteTable
  <2>3. CASE StartFails(c)
    BY <2>3 DEF StartFails
  <2>9. CASE AddReturns(c)
    BY <2>9 DEF AddReturns
  <2>10. CASE Leave(c)
    BY <2>10 DEF Leave
  <2>11. CASE DelReturns(c)
    BY <2>11 DEF DelReturns
  <2>4. CASE AddFails(c)
    BY <2>4 DEF AddFails
  <2>8. CASE DelFails(c)
    BY <2>8 DEF DelFails
  <2>5. CASE DelRouteTable(c)
    BY <2>5 DEF DelRouteTable
  <2>6. CASE GetSet(c)
    BY <2>6 DEF GetSet
  <2>7. CASE DelIfSame(c)
    BY <2>7 DEF DelIfSame
  <2> QED
    BY <1>2, <2>1, <2>2, <2>3, <2>4, <2>5, <2>6, <2>7, <2>8, <2>9,
       <2>10, <2>11 DEF ConnStep
<1>3. ASSUME NEW g \in Gates, GateCrashes(g) PROVE CommandInv'
  BY <1>3 DEF GateCrashes
<1>4. ASSUME NEW op \in Ops, NEW c \in Conns, Lose(op, c) PROVE CommandInv'
  BY <1>4 DEF Lose
<1> QED
  BY <1>1, <1>2, <1>3, <1>4 DEF Next

------------------------------------------------------------------------------
\* The cleanup of a connection takes a route away only from connections of the
\* same user on the same gate: a DelIfSame under way belongs to a connection
\* that has left.
LEMMA SparesStep == TypeOK /\ CommandInv /\ CleanupSparesOtherGates /\ [Next]_vars => CleanupSparesOtherGates'
<1> SUFFICES ASSUME TypeOK, CommandInv, CleanupSparesOtherGates, [Next]_vars PROVE CleanupSparesOtherGates'
  OBVIOUS
<1> USE NamesAssumption DEF TypeOK, CommandInv, CleanupSparesOtherGates, Same
<1>1. CASE UNCHANGED vars
  BY <1>1
<1>2. ASSUME NEW c \in Conns, ConnStep(c) PROVE CleanupSparesOtherGates'
  <2>1. ASSUME NEW g \in Gates, Accept(c, g) PROVE CleanupSparesOtherGates'
    <3> SUFFICES ASSUME NEW d \in Conns, at'[d] \in {"add", "online"}, d \in newest'[key'[d]],
                        \A e \in Conns : e # d /\ Same(d, e)' => at'[e] \in {"add", "online"}
                 PROVE  route'[key'[d]] = gate'[d]
      OBVIOUS
    <3>1. d # c /\ key[c] = NoUid /\ key[d] \in Uids
      BY <2>1 DEF Accept
    <3>2. ASSUME NEW e \in Conns, e # d, Same(d, e) PROVE at[e] \in {"add", "online"}
      <4>1. e # c
        BY <3>1, <3>2
      <4> QED
        BY <2>1, <3>1, <3>2, <4>1 DEF Accept
    <3> QED
      BY <2>1, <3>1, <3>2 DEF Accept
  <2>2. ASSUME NEW u \in Uids, AddRouteTable(c, u) PROVE CleanupSparesOtherGates'
    <3> SUFFICES ASSUME NEW d \in Conns, at'[d] \in {"add", "online"}, d \in newest'[key'[d]],
                        \A e \in Conns : e # d /\ Same(d, e)' => at'[e] \in {"add", "online"}
                 PROVE  route'[key'[d]] = gate'[d]
      OBVIOUS
    <3>1. d # c /\ key[c] = NoUid /\ key[d] \in Uids
      <4>1. key'[d] \in Keys /\ d \in newest[key'[d]]
        BY <2>2 DEF AddRouteTable
      <4> QED
        BY <2>2, <4>1 DEF AddRouteTable
    <3>2. ASSUME NEW e \in Conns, e # d, Same(d, e) PROVE at[e] \in {"add", "online"}
      <4>1. e # c
        BY <3>1, <3>2
      <4> QED
        BY <2>2, <3>1, <3>2, <4>1 DEF AddRouteTable
    <3> QED
      BY <2>2, <3>1, <3>2 DEF AddRouteTable
  <2>3. CASE StartFails(c) \/ AddReturns(c) \/ Leave(c) \/ DelReturns(c)
    BY <2>3 DEF StartFails, AddReturns, Leave, DelReturns
  <2>4. CASE AddFails(c) \/ DelFails(c)
    BY <2>4 DEF AddFails, DelFails
  <2>5. CASE DelRouteTable(c)
    BY <2>5 DEF DelRouteTable
  <2>6. CASE GetSet(c)
    BY <2>6 DEF GetSet
  <2>7. CASE DelIfSame(c)
    <3> SUFFICES ASSUME NEW d \in Conns, at[d] \in {"add", "online"}, d \in newest[key[d]],
                        \A e \in Conns : e # d /\ Same(d, e) => at[e] \in {"add", "online"}
                 PROVE  route'[key[d]] = gate[d]
      BY <2>7 DEF DelIfSame
    <3>1. at[c] \in {"deleting", "gone"}
      BY <2>7 DEF DelIfSame
    <3>2. ~Same(d, c) /\ route[key[d]] = gate[d]
      BY <3>1
    <3> QED
      BY <2>7, <3>2 DEF DelIfSame
  <2> QED
    BY <1>2, <2>1, <2>2, <2>3, <2>4, <2>5, <2>6, <2>7 DEF ConnStep
<1>3. ASSUME NEW g \in Gates, GateCrashes(g) PROVE CleanupSparesOtherGates'
  BY <1>3 DEF GateCrashes
<1>4. ASSUME NEW op \in Ops, NEW c \in Conns, Lose(op, c) PROVE CleanupSparesOtherGates'
  BY <1>4 DEF Lose
<1> QED
  BY <1>1, <1>2, <1>3, <1>4 DEF Next

\* A user's newest connection keeps its route until a connection of the same
\* user on the same gate leaves, however late commands are carried out.
THEOREM CleanupSpares == Spec => []CleanupSparesOtherGates
<1>1. Init => TypeOK /\ CommandInv /\ CleanupSparesOtherGates
  BY DEF Init, TypeOK, CommandInv, CleanupSparesOtherGates
<1> QED
  BY <1>1, TypeStep, CommandStep, SparesStep, PTL DEF Spec

------------------------------------------------------------------------------
\* The witness of RoutesAreLive, with what makes it inductive: its own removal
\* has not been carried out, or one of its calls failed.
WitnessInv ==
  \A k \in Keys : route[k] # NoGate =>
    \E c \in Conns :
      /\ key[c] = k /\ gate[c] = route[k] /\ at[c] \notin {"idle", "start"}
      /\ \/ c \in faulty
         \/ /\ at[c] \in {"add", "online", "del", "deleting"}
            /\ <<"DelIfSame", c>> \notin applied

\* Every step keeps WitnessInv.
LEMMA WitnessStep == TypeOK /\ CommandInv /\ WitnessInv /\ [Next]_vars => WitnessInv'
<1> SUFFICES ASSUME TypeOK, CommandInv, WitnessInv, [Next]_vars PROVE WitnessInv'
  OBVIOUS
<1> USE NamesAssumption DEF TypeOK, CommandInv, WitnessInv
<1>1. CASE UNCHANGED vars
  BY <1>1
<1>2. ASSUME NEW c \in Conns, ConnStep(c) PROVE WitnessInv'
  <2>1. ASSUME NEW g \in Gates, Accept(c, g) PROVE WitnessInv'
    BY <2>1 DEF Accept
  <2>2. ASSUME NEW u \in Uids, AddRouteTable(c, u) PROVE WitnessInv'
    BY <2>2 DEF AddRouteTable
  <2>3. CASE StartFails(c)
    BY <2>3 DEF StartFails
  <2>9. CASE AddReturns(c)
    BY <2>9 DEF AddReturns
  <2>10. CASE Leave(c)
    BY <2>10 DEF Leave
  <2>11. CASE DelReturns(c)
    BY <2>11 DEF DelReturns
  <2>4. CASE AddFails(c)
    BY <2>4 DEF AddFails
  <2>8. CASE DelFails(c)
    BY <2>8 DEF DelFails
  <2>5. CASE DelRouteTable(c)
    BY <2>5 DEF DelRouteTable
  <2>6. CASE GetSet(c)
    BY <2>6 DEF GetSet
  <2>7. CASE DelIfSame(c)
    <3> SUFFICES ASSUME NEW k \in Keys, route'[k] # NoGate
                 PROVE  \E e \in Conns :
                          /\ key[e] = k /\ gate[e] = route'[k] /\ at[e] \notin {"idle", "start"}
                          /\ \/ e \in faulty
                             \/ /\ at[e] \in {"add", "online", "del", "deleting"}
                                /\ <<"DelIfSame", e>> \notin applied'
      BY <2>7 DEF DelIfSame
    <3>1. route'[k] = route[k] /\ (key[c] = k => route[k] # gate[c])
      BY <2>7 DEF DelIfSame
    <3>2. PICK e \in Conns :
            /\ key[e] = k /\ gate[e] = route[k] /\ at[e] \notin {"idle", "start"}
            /\ \/ e \in faulty
               \/ /\ at[e] \in {"add", "online", "del", "deleting"}
                  /\ <<"DelIfSame", e>> \notin applied
      BY <3>1
    <3>3. e # c
      BY <3>1, <3>2
    <3>4. <<"DelIfSame", e>> \notin applied => <<"DelIfSame", e>> \notin applied'
      BY <2>7, <3>3 DEF DelIfSame
    <3> QED
      BY <3>1, <3>2, <3>4
  <2> QED
    BY <1>2, <2>1, <2>2, <2>3, <2>4, <2>5, <2>6, <2>7, <2>8, <2>9, <2>10, <2>11 DEF ConnStep
<1>3. ASSUME NEW g \in Gates, GateCrashes(g) PROVE WitnessInv'
  BY <1>3 DEF GateCrashes
<1>4. ASSUME NEW op \in Ops, NEW c \in Conns, Lose(op, c) PROVE WitnessInv'
  BY <1>4 DEF Lose
<1> HIDE DEF TypeOK, CommandInv, WitnessInv
<1> QED
  BY <1>1, <1>2, <1>3, <1>4 DEF Next

\* A connection whose calls all succeed leaves no route behind.
THEOREM NoRouteLeftBehind == Spec => []RoutesAreLive
<1>1. Init => TypeOK /\ CommandInv /\ WitnessInv
  BY DEF Init, TypeOK, CommandInv, WitnessInv
<1>2. WitnessInv => RoutesAreLive
  BY DEF WitnessInv, RoutesAreLive
<1> QED
  BY <1>1, <1>2, TypeStep, CommandStep, WitnessStep, PTL DEF Spec
==============================================================================
