--------------------------- MODULE RegistryProofs ----------------------------
(***************************************************************************)
(* Proofs about Registry, for any users, number of buckets, number of      *)
(* connections and finders.                                                *)
(***************************************************************************)
EXTENDS Registry, TLAPS

USE DEF vars, connVars, finderVars, NoWid, ConnPoints, FinderPoints

\* Every worker id falls into one of the buckets, for any number of them.
LEMMA BucketInRange == \A w \in Wids : Bucket(w) \in Indices
BY SizeAssumption DEF Wids, Bucket, Indices

\* A worker id is not the absent one.
LEMMA WidIsNotNoWid == NoWid \notin Wids
BY SizeAssumption DEF Wids

\* The finders read the buckets and uidWidMap and change neither, nor the walk.
LEMMA OnlyFindersMove ==
  \A f \in Finders : FinderStep(f) => UNCHANGED <<connVars, walk>>
BY DEF FinderStep, Find, Collected, Deliver, Load, Get

------------------------------------------------------------------------------
(* Types. *)

\* Every step keeps the types of the connections, the buckets and uidWidMap.
LEMMA ConnTypeStep == ConnType /\ [Next]_vars => ConnType'
<1> SUFFICES ASSUME ConnType, [Next]_vars PROVE ConnType'
  OBVIOUS
<1> USE BucketInRange, WidIsNotNoWid, SizeAssumption DEF ConnType
<1>1. CASE UNCHANGED vars
  BY <1>1
<1>2. CASE Accept
  <2>1. idGen' \in 0..MaxWid
    BY <1>2 DEF Accept
  <2>2. conn' \in [Wids -> ConnPoints]
    BY <1>2 DEF Accept
  <2> QED
    BY <1>2, <2>1, <2>2 DEF Accept
<1>3. CASE WalkBegins
  BY <1>3 DEF WalkBegins
<1>4. CASE WalkBucket
  BY <1>4 DEF WalkBucket
<1>5. ASSUME NEW w \in Wids, ConnStep(w) PROVE ConnType'
  <2>1. CASE Start(w)
    BY <2>1 DEF Start
  <2>2. CASE PutWorker(w)
    BY <2>2 DEF PutWorker
  <2>3. CASE PutUid(w)
    BY <2>3 DEF PutUid
  <2>4. CASE Leave(w)
    BY <2>4 DEF Leave
  <2>5. CASE DelWorker(w)
    BY <2>5 DEF DelWorker
  <2>6. CASE DelUid(w)
    BY <2>6 DEF DelUid
  <2>7. CASE Disconnect(w)
    BY <2>7 DEF Disconnect
  <2> QED
    BY <1>5, <2>1, <2>2, <2>3, <2>4, <2>5, <2>6, <2>7 DEF ConnStep
<1>6. ASSUME NEW f \in Finders, FinderStep(f) PROVE ConnType'
  BY <1>6, OnlyFindersMove
<1> HIDE DEF ConnType
<1> QED
  BY <1>1, <1>2, <1>3, <1>4, <1>5, <1>6 DEF Next

\* Every step keeps the types of the finders.
LEMMA FinderTypeStep == ConnType /\ FinderType /\ [Next]_vars => FinderType'
<1> SUFFICES ASSUME ConnType, FinderType, [Next]_vars PROVE FinderType'
  OBVIOUS
<1> USE WidIsNotNoWid DEF ConnType, FinderType
<1>1. CASE UNCHANGED vars
  BY <1>1
<1>2. CASE Accept
  BY <1>2 DEF Accept
<1>3. CASE WalkBegins
  BY <1>3 DEF WalkBegins
<1>4. CASE WalkBucket
  BY <1>4 DEF WalkBucket
<1>5. ASSUME NEW w \in Wids, ConnStep(w) PROVE FinderType'
  <2>1. CASE Start(w)
    BY <2>1 DEF Start
  <2>2. CASE PutWorker(w)
    BY <2>2 DEF PutWorker
  <2>3. CASE PutUid(w)
    BY <2>3 DEF PutUid
  <2>4. CASE Leave(w)
    BY <2>4 DEF Leave
  <2>5. CASE DelWorker(w)
    BY <2>5 DEF DelWorker
  <2>6. CASE DelUid(w)
    BY <2>6 DEF DelUid
  <2>7. CASE Disconnect(w)
    BY <2>7 DEF Disconnect
  <2> QED
    BY <1>5, <2>1, <2>2, <2>3, <2>4, <2>5, <2>6, <2>7 DEF ConnStep
<1>6. ASSUME NEW f \in Finders, FinderStep(f) PROVE FinderType'
  <2>1. CASE Find(f)
    BY <2>1 DEF Find
  <2>2. CASE Collected(f)
    BY <2>2 DEF Collected
  <2>3. CASE Deliver(f)
    BY <2>3 DEF Deliver
  <2>4. ASSUME NEW u \in Uids, Load(f, u) PROVE FinderType'
    BY <2>4 DEF Load
  <2>5. ASSUME NEW u \in Uids, NEW w \in Wids, Get(f, u, w) PROVE FinderType'
    BY <2>5 DEF Get
  <2> QED
    BY <1>6, <2>1, <2>2, <2>3, <2>4, <2>5 DEF FinderStep
<1> HIDE DEF ConnType, FinderType
<1> QED
  BY <1>1, <1>2, <1>3, <1>4, <1>5, <1>6 DEF Next

\* Every step keeps the type of the walk.
LEMMA WalkTypeStep == ConnType /\ WalkType /\ [Next]_vars => WalkType'
<1> SUFFICES ASSUME ConnType, WalkType, [Next]_vars PROVE WalkType'
  OBVIOUS
<1> USE SizeAssumption DEF ConnType, WalkType
<1>1. CASE UNCHANGED vars
  BY <1>1
<1>2. CASE Accept
  BY <1>2 DEF Accept
<1>3. CASE WalkBegins
  BY <1>3 DEF WalkBegins
<1>4. CASE WalkBucket
  <2> DEFINE snapshot == {w \in workers : Bucket(w) = walk.next}
  <2>1. walk.next + 1 \in 0..BucketSize
    BY <1>4 DEF WalkBucket
  <2>2. walk.reached \union snapshot \in SUBSET Wids
    OBVIOUS
  <2>3. walk' = [walk EXCEPT !.next = walk.next + 1, !.reached = walk.reached \union snapshot]
    BY <1>4 DEF WalkBucket
  <2> HIDE DEF snapshot
  <2> QED
    BY <2>1, <2>2, <2>3
<1>5. ASSUME NEW w \in Wids, ConnStep(w) PROVE WalkType'
  <2>1. CASE Start(w)
    BY <2>1 DEF Start
  <2>2. CASE PutWorker(w)
    BY <2>2 DEF PutWorker
  <2>3. CASE PutUid(w)
    BY <2>3 DEF PutUid
  <2>4. CASE Leave(w)
    BY <2>4 DEF Leave
  <2>5. CASE DelWorker(w)
    BY <2>5 DEF DelWorker
  <2>6. CASE DelUid(w)
    BY <2>6 DEF DelUid
  <2>7. CASE Disconnect(w)
    BY <2>7 DEF Disconnect
  <2> QED
    BY <1>5, <2>1, <2>2, <2>3, <2>4, <2>5, <2>6, <2>7 DEF ConnStep
<1>6. ASSUME NEW f \in Finders, FinderStep(f) PROVE WalkType'
  BY <1>6, OnlyFindersMove
<1> HIDE DEF ConnType, WalkType
<1> QED
  BY <1>1, <1>2, <1>3, <1>4, <1>5, <1>6 DEF Next

\* All the variables keep their types.
THEOREM TypeCorrect == Spec => []TypeOK
<1>1. Init => ConnType /\ FinderType /\ WalkType
  BY SizeAssumption DEF Init, ConnType, FinderType, WalkType, Indices
<1> QED
  BY <1>1, ConnTypeStep, FinderTypeStep, WalkTypeStep, PTL DEF Spec, TypeOK
------------------------------------------------------------------------------
(* The buckets and uidWidMap. *)

\* A worker is in its bucket from put to del; an entry of uidWidMap names a
\* worker of its user between the two accesses to that map; an id that has not
\* been given out is not in use.
EntryInv ==
  /\ \A w \in Wids : w > idGen => conn[w] = "none"
  /\ \A w \in Wids : w \in workers <=> conn[w] \in {"stored", "online", "del"}
  /\ \A u \in Uids : uidWid[u] # NoWid =>
       uid[uidWid[u]] = u /\ conn[uidWid[u]] \in {"online", "del", "deleted"}

\* Every step keeps EntryInv.
LEMMA EntryStep == ConnType /\ EntryInv /\ [Next]_vars => EntryInv'
<1> SUFFICES ASSUME ConnType, EntryInv, [Next]_vars PROVE EntryInv'
  OBVIOUS
<1> USE BucketInRange, WidIsNotNoWid, SizeAssumption DEF ConnType, EntryInv
<1>1. CASE UNCHANGED vars
  BY <1>1
<1>2. CASE Accept
  <2>1. idGen + 1 \in Wids /\ conn[idGen + 1] = "none" /\ idGen' = idGen + 1
    BY <1>2 DEF Accept, Wids
  <2>2. \A w \in Wids : w # idGen + 1 => conn'[w] = conn[w]
    BY <1>2 DEF Accept
  <2>3. \A w \in Wids : w > idGen' => conn'[w] = "none"
    BY <2>1, <2>2 DEF Wids
  <2>4. conn'[idGen + 1] = "start"
    BY <1>2, <2>1 DEF Accept
  <2>5. \A w \in Wids : w \in workers <=> conn'[w] \in {"stored", "online", "del"}
    BY <2>1, <2>2, <2>4
  <2> QED
    BY <1>2, <2>1, <2>2, <2>3, <2>5 DEF Accept
<1>3. CASE WalkBegins
  BY <1>3 DEF WalkBegins
<1>4. CASE WalkBucket
  BY <1>4 DEF WalkBucket
<1>5. ASSUME NEW w \in Wids, ConnStep(w) PROVE EntryInv'
  <2>1. CASE Start(w)
    BY <2>1 DEF Start
  <2>2. CASE PutWorker(w)
    BY <2>2 DEF PutWorker
  <2>3. CASE PutUid(w)
    BY <2>3 DEF PutUid
  <2>4. CASE Leave(w)
    BY <2>4 DEF Leave
  <2>5. CASE DelWorker(w)
    BY <2>5 DEF DelWorker
  <2>6. CASE DelUid(w)
    BY <2>6 DEF DelUid
  <2>7. CASE Disconnect(w)
    BY <2>7 DEF Disconnect
  <2> QED
    BY <1>5, <2>1, <2>2, <2>3, <2>4, <2>5, <2>6, <2>7 DEF ConnStep
<1>6. ASSUME NEW f \in Finders, FinderStep(f) PROVE EntryInv'
  BY <1>6, OnlyFindersMove
<1> HIDE DEF ConnType, EntryInv
<1> QED
  BY <1>1, <1>2, <1>3, <1>4, <1>5, <1>6 DEF Next

\* No entry of uidWidMap outlives the worker it names.
THEOREM EntriesAreFresh == Spec => []NoEntryOutlivesWorker
<1>1. Init => ConnType /\ EntryInv
  BY SizeAssumption DEF Init, ConnType, EntryInv
<1>2. ConnType /\ EntryInv => NoEntryOutlivesWorker
  BY DEF ConnType, EntryInv, NoEntryOutlivesWorker
<1> QED
  BY <1>1, <1>2, ConnTypeStep, EntryStep, PTL DEF Spec

------------------------------------------------------------------------------
(* Lookups. *)

\* What a finder has read from uidWidMap, and what it has collected, are
\* workers of the users it asked for; neither a user nor the past of a worker
\* changes between the two reads.
FoundInv ==
  \A f \in Finders : \A r \in loaded[f] \union found[f] :
    r[2] # NoWid => uid[r[2]] = r[1] /\ conn[r[2]] \in {"online", "stored", "del", "deleted", "gone"}

\* Every step keeps FoundInv.
LEMMA FoundStep == ConnType /\ FinderType /\ EntryInv /\ FoundInv /\ [Next]_vars => FoundInv'
<1> SUFFICES ASSUME ConnType, FinderType, EntryInv, FoundInv, [Next]_vars PROVE FoundInv'
  OBVIOUS
<1> USE WidIsNotNoWid, SizeAssumption DEF ConnType, FinderType, EntryInv, FoundInv
<1>1. CASE UNCHANGED vars
  BY <1>1
<1>2. CASE Accept
  BY <1>2 DEF Accept
<1>3. CASE WalkBegins
  BY <1>3 DEF WalkBegins
<1>4. CASE WalkBucket
  BY <1>4 DEF WalkBucket
<1>5. ASSUME NEW w \in Wids, ConnStep(w) PROVE FoundInv'
  <2>1. CASE Start(w)
    BY <2>1 DEF Start
  <2>2. CASE PutWorker(w)
    BY <2>2 DEF PutWorker
  <2>3. CASE PutUid(w)
    BY <2>3 DEF PutUid
  <2>4. CASE Leave(w)
    BY <2>4 DEF Leave
  <2>5. CASE DelWorker(w)
    BY <2>5 DEF DelWorker
  <2>6. CASE DelUid(w)
    BY <2>6 DEF DelUid
  <2>7. CASE Disconnect(w)
    BY <2>7 DEF Disconnect
  <2> QED
    BY <1>5, <2>1, <2>2, <2>3, <2>4, <2>5, <2>6, <2>7 DEF ConnStep
<1>6. ASSUME NEW f \in Finders, FinderStep(f) PROVE FoundInv'
  <2>1. CASE Find(f)
    BY <2>1 DEF Find
  <2>2. CASE Collected(f)
    BY <2>2 DEF Collected
  <2>3. CASE Deliver(f)
    BY <2>3 DEF Deliver
  <2>4. ASSUME NEW u \in Uids, Load(f, u) PROVE FoundInv'
    BY <2>4 DEF Load
  <2>5. ASSUME NEW u \in Uids, NEW w \in Wids, Get(f, u, w) PROVE FoundInv'
    BY <2>5 DEF Get
  <2> QED
    BY <1>6, <2>1, <2>2, <2>3, <2>4, <2>5 DEF FinderStep
<1> HIDE DEF ConnType, FinderType, EntryInv, FoundInv
<1> QED
  BY <1>1, <1>2, <1>3, <1>4, <1>5, <1>6 DEF Next

\* A lookup by user never yields another user's worker.
THEOREM LookupsFindOwner == Spec => []LookupFindsOwner
<1>1. Init => ConnType /\ FinderType /\ EntryInv /\ FoundInv
  BY SizeAssumption DEF Init, ConnType, FinderType, EntryInv, FoundInv
<1>2. FoundInv => LookupFindsOwner
  BY DEF FoundInv, LookupFindsOwner
<1> QED
  BY <1>1, <1>2, ConnTypeStep, FinderTypeStep, EntryStep, FoundStep, PTL DEF Spec

\* Nobody but a connection of the same user takes an entry away.
LEMMA LostStep == ConnType /\ EntryInv /\ EntryLostOnlyToOwnUser /\ [Next]_vars => EntryLostOnlyToOwnUser'
<1> SUFFICES ASSUME ConnType, EntryInv, EntryLostOnlyToOwnUser, [Next]_vars PROVE EntryLostOnlyToOwnUser'
  OBVIOUS
<1> USE WidIsNotNoWid, SizeAssumption DEF ConnType, EntryLostOnlyToOwnUser
<1>1. CASE UNCHANGED vars
  BY <1>1 DEF vars
<1>2. CASE Accept
  <2>1. idGen + 1 \in Wids
    BY <1>2 DEF Accept, Wids
  <2>2. \A v \in Wids : conn'[v] = conn[v] \/ (v = idGen + 1 /\ conn'[v] = "start")
    BY <1>2, <2>1 DEF Accept
  <2>3. conn[idGen + 1] = "none"
    BY <2>1 DEF EntryInv, Wids
  <2> QED BY <1>2, <2>1, <2>2, <2>3 DEF Accept
<1>3. CASE WalkBegins \/ WalkBucket
  BY <1>3 DEF WalkBegins, WalkBucket, connVars
<1>5. ASSUME NEW w \in Wids, ConnStep(w) PROVE EntryLostOnlyToOwnUser'
  <2>1. CASE Start(w)
    BY <2>1 DEF Start
  <2>2. CASE PutWorker(w)
    BY <2>2 DEF PutWorker
  <2>3. CASE PutUid(w)
    BY <2>3 DEF PutUid
  <2>4. CASE Leave(w)
    BY <2>4 DEF Leave
  <2>5. CASE DelWorker(w)
    BY <2>5 DEF DelWorker
  <2>6. CASE DelUid(w)
    BY <2>6 DEF DelUid
  <2>7. CASE Disconnect(w)
    BY <2>7 DEF Disconnect
  <2> QED
    BY <1>5, <2>1, <2>2, <2>3, <2>4, <2>5, <2>6, <2>7 DEF ConnStep
<1>6. ASSUME NEW f \in Finders, FinderStep(f) PROVE EntryLostOnlyToOwnUser'
  BY <1>6, OnlyFindersMove DEF connVars
<1> HIDE DEF ConnType, EntryLostOnlyToOwnUser
<1> QED
  BY <1>1, <1>2, <1>3, <1>5, <1>6 DEF Next

\* An online user is not found only after another connection of that user left.
THEOREM EntriesAreLostToOwnUser == Spec => []EntryLostOnlyToOwnUser
<1>1. Init => ConnType /\ EntryInv /\ EntryLostOnlyToOwnUser
  BY SizeAssumption DEF Init, ConnType, EntryInv, EntryLostOnlyToOwnUser
<1> QED
  BY <1>1, ConnTypeStep, EntryStep, LostStep, PTL DEF Spec

\* A worker that left stays out of its bucket.
LEMMA NilStep ==
  ConnType /\ FinderType /\ EntryInv /\ FoundInv /\ NilMeansLeft /\ [Next]_vars => NilMeansLeft'
<1> SUFFICES ASSUME ConnType, FinderType, EntryInv, FoundInv, NilMeansLeft, [Next]_vars
             PROVE  NilMeansLeft'
  OBVIOUS
<1> DEFINE Left(u) == \E w \in Wids : uid[w] = u /\ conn[w] \in {"deleted", "gone"}
<1>1. UNCHANGED uid /\ \A w \in Wids : conn[w] \in {"deleted", "gone"} => conn'[w] \in {"deleted", "gone"}
  <2> USE DEF ConnType
  <2>1. CASE Accept
    <3>1. idGen + 1 \in Wids /\ conn[idGen + 1] = "none"
      BY <2>1, SizeAssumption DEF Accept, EntryInv, Wids
    <3> QED BY <2>1, <3>1 DEF Accept
  <2>2. CASE UNCHANGED vars \/ WalkBegins \/ WalkBucket
    BY <2>2 DEF vars, WalkBegins, WalkBucket, connVars
  <2>3. ASSUME NEW w \in Wids, ConnStep(w)
        PROVE  UNCHANGED uid /\ \A v \in Wids : conn[v] \in {"deleted", "gone"} => conn'[v] \in {"deleted", "gone"}
    BY <2>3 DEF ConnStep, Start, PutWorker, PutUid, Leave, DelWorker, DelUid, Disconnect
  <2>4. ASSUME NEW f \in Finders, FinderStep(f) PROVE UNCHANGED <<uid, conn>>
    BY <2>4, OnlyFindersMove DEF connVars
  <2> QED BY <2>1, <2>2, <2>3, <2>4 DEF Next
<1>2. \A u \in Uids : Left(u) => Left(u)'
  BY <1>1
<1>3. CASE UNCHANGED found
  BY <1>2, <1>3 DEF NilMeansLeft, FinderType
<1>4. ASSUME NEW f \in Finders, NEW u \in Uids, NEW w \in Wids, Get(f, u, w) PROVE NilMeansLeft'
  <2>1. w \notin workers => Left(u)
    BY <1>4, WidIsNotNoWid DEF Get, FoundInv, EntryInv
  <2>2. \A g \in Finders : \A p \in found'[g] :
          p \in found[g] \/ p = <<u, IF w \in workers THEN w ELSE NoWid>>
    BY <1>4 DEF Get, FinderType
  <2>3. \A g \in Finders : \A p \in found'[g] : p[2] = NoWid => Left(p[1])
    BY <2>1, <2>2, WidIsNotNoWid DEF NilMeansLeft
  <2>4. UNCHANGED <<uid, conn>>
    BY <1>4 DEF Get, connVars
  <2> QED BY <2>3, <2>4 DEF NilMeansLeft
<1>5. \/ UNCHANGED found
      \/ \E f \in Finders, u \in Uids, w \in Wids : Get(f, u, w)
  BY DEF Next, vars, finderVars, Accept, WalkBegins, WalkBucket, ConnStep, Start, PutWorker, PutUid,
         Leave, DelWorker, DelUid, Disconnect, FinderStep, Find, Collected, Deliver, Load
<1> QED BY <1>3, <1>4, <1>5

\* A lookup yields a nil worker only for a user one of whose workers has left.
THEOREM NilWorkersHaveLeft == Spec => []NilMeansLeft
<1>1. Init => ConnType /\ FinderType /\ EntryInv /\ FoundInv /\ NilMeansLeft
  BY SizeAssumption DEF Init, ConnType, FinderType, EntryInv, FoundInv, NilMeansLeft
<1> QED
  BY <1>1, ConnTypeStep, FinderTypeStep, EntryStep, FoundStep, NilStep, PTL DEF Spec

------------------------------------------------------------------------------
(* Broadcasts. *)

\* The stayers are online, and those of the buckets already walked are reached.
WalkInv ==
  /\ \A w \in walk.stayed : conn[w] = "online"
  /\ \A w \in walk.stayed : Bucket(w) < walk.next => w \in walk.reached

\* Every step keeps WalkInv.
LEMMA WalkStep == ConnType /\ WalkType /\ EntryInv /\ WalkInv /\ [Next]_vars => WalkInv'
<1> SUFFICES ASSUME ConnType, WalkType, EntryInv, WalkInv, [Next]_vars PROVE WalkInv'
  OBVIOUS
<1> USE BucketInRange, SizeAssumption DEF ConnType, WalkType, EntryInv, WalkInv
<1>1. CASE UNCHANGED vars
  BY <1>1
<1>2. CASE Accept
  BY <1>2 DEF Accept
<1>3. CASE WalkBegins
  <2>1. walk'.next = 0 /\ \A w \in walk'.stayed : w \in Wids /\ conn'[w] = "online"
    BY <1>3 DEF WalkBegins
  <2>2. \A w \in Wids : ~(Bucket(w) < 0)
    BY DEF Indices
  <2> QED
    BY <2>1, <2>2
<1>4. CASE WalkBucket
  <2> DEFINE snapshot == {w \in workers : Bucket(w) = walk.next}
  <2>1. walk' = [walk EXCEPT !.next = walk.next + 1, !.reached = walk.reached \union snapshot]
    BY <1>4 DEF WalkBucket
  <2>2. /\ walk'.next = walk.next + 1 /\ walk'.stayed = walk.stayed
        /\ walk'.reached = walk.reached \union snapshot /\ conn' = conn
    BY <1>4, <2>1 DEF WalkBucket
  <2>3. ASSUME NEW w \in walk.stayed, Bucket(w) < walk.next + 1
        PROVE  w \in walk.reached \union snapshot
    <3>1. w \in Wids /\ w \in workers /\ Bucket(w) \in Int /\ walk.next \in Int
      BY DEF Indices
    <3>2. Bucket(w) < walk.next \/ Bucket(w) = walk.next
      BY <2>3, <3>1
    <3> QED
      BY <3>1, <3>2
  <2> HIDE DEF snapshot
  <2> QED
    BY <2>2, <2>3
<1>5. ASSUME NEW w \in Wids, ConnStep(w) PROVE WalkInv'
  <2>1. CASE Start(w)
    BY <2>1 DEF Start
  <2>2. CASE PutWorker(w)
    BY <2>2 DEF PutWorker
  <2>3. CASE PutUid(w)
    BY <2>3 DEF PutUid
  <2>4. CASE Leave(w)
    BY <2>4 DEF Leave
  <2>5. CASE DelWorker(w)
    BY <2>5 DEF DelWorker
  <2>6. CASE DelUid(w)
    BY <2>6 DEF DelUid
  <2>7. CASE Disconnect(w)
    BY <2>7 DEF Disconnect
  <2> QED
    BY <1>5, <2>1, <2>2, <2>3, <2>4, <2>5, <2>6, <2>7 DEF ConnStep
<1>6. ASSUME NEW f \in Finders, FinderStep(f) PROVE WalkInv'
  BY <1>6, OnlyFindersMove
<1> HIDE DEF ConnType, WalkType, EntryInv, WalkInv
<1> QED
  BY <1>1, <1>2, <1>3, <1>4, <1>5, <1>6 DEF Next

\* A broadcast reaches every worker that stays online throughout.
THEOREM BroadcastsReachStayers == Spec => []BroadcastReachesStayers
<1>1. Init => ConnType /\ WalkType /\ EntryInv /\ WalkInv
  BY SizeAssumption DEF Init, ConnType, WalkType, EntryInv, WalkInv
<1>2. WalkType /\ WalkInv => BroadcastReachesStayers
  BY BucketInRange, SizeAssumption DEF WalkType, WalkInv, BroadcastReachesStayers, Indices
<1> QED
  BY <1>1, <1>2, ConnTypeStep, WalkTypeStep, EntryStep, WalkStep, PTL DEF Spec
==============================================================================
