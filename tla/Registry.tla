------------------------------ MODULE Registry -------------------------------
(***************************************************************************)
(* How one gate finds the worker of a user: the buckets of workers, each   *)
(* under its own lock, and the process-wide map uidWidMap from user to     *)
(* worker id, which is not under these locks.                              *)
(*                                                                         *)
(* Each worker id stands for one connection and for its Worker; ids come   *)
(* from idGen and are never used again.  conn is the control point of the  *)
(* connection's serve goroutine, cut at the accesses to shared state:      *)
(* "stored" and "deleted" are inside put and del, between the access to    *)
(* the bucket and the one to uidWidMap, with the bucket locked.            *)
(* A finder is a goroutine in Server.Push (one user) or Server.PushGroup   *)
(* (several); a broadcast walks the buckets one by one.                    *)
(***************************************************************************)
EXTENDS Integers, FiniteSets

CONSTANTS
  Uids,        \* users
  MaxWid,      \* bound: connections accepted
  BucketSize,  \* number of buckets
  Finders      \* goroutines that push to users

ASSUME SizeAssumption == MaxWid \in Nat /\ BucketSize \in Nat \ {0}

Wids    == 1..MaxWid
NoWid   == 0
Indices == 0..(BucketSize - 1)

VARIABLES
  idGen,     \* the last worker id given out
  uid,       \* the user of each connection
  conn,      \* control point of each connection
  workers,   \* the ids present in the buckets
  lock,      \* the connection that holds each bucket's write lock
  uidWid,    \* uidWidMap, NoWid where there is no entry
  triggered, \* workers asked to stop
  finder,    \* control point of each finder
  single,    \* whether a finder is in Push, not in PushGroup
  todo,      \* users each finder has not looked up yet
  loaded,    \* the entry of uidWidMap a finder has just read, if any
  found,     \* the workers a finder has collected: pairs of user and id
  walk       \* the broadcast: next bucket, workers reached, workers that
             \* have been online since it began

vars == <<idGen, uid, conn, workers, lock, uidWid, triggered, finder, single,
          todo, loaded, found, walk>>
connVars   == <<idGen, uid, conn, workers, lock, uidWid, triggered>>
finderVars == <<finder, single, todo, loaded, found>>

ConnPoints   == {"none", "start", "put", "stored", "online", "del", "deleted", "gone"}
FinderPoints == {"idle", "load", "get", "push", "pushed", "missing", "panicked"}

Bucket(w)   == w % BucketSize
Unlocked(b) == lock[b] = NoWid

Init ==
  /\ idGen = 0 /\ uid \in [Wids -> Uids]
  /\ conn = [w \in Wids |-> "none"] /\ workers = {}
  /\ lock = [b \in Indices |-> NoWid] /\ uidWid = [u \in Uids |-> NoWid]
  /\ triggered = {}
  /\ finder = [f \in Finders |-> "idle"] /\ single = [f \in Finders |-> FALSE]
  /\ todo = [f \in Finders |-> {}] /\ loaded = [f \in Finders |-> {}]
  /\ found = [f \in Finders |-> {}]
  /\ walk = [next |-> BucketSize, reached |-> {}, stayed |-> {}]

------------------------------------------------------------------------------
(* Connections. *)

Accept ==
  /\ idGen < MaxWid
  /\ idGen' = idGen + 1 /\ conn' = [conn EXCEPT ![idGen + 1] = "start"]
  /\ UNCHANGED <<uid, workers, lock, uidWid, triggered, finderVars, walk>>

\* Worker.Start; a connection that fails it is never put.
Start(w) ==
  /\ conn[w] = "start"
  /\ \E next \in {"put", "gone"} : conn' = [conn EXCEPT ![w] = next]
  /\ UNCHANGED <<idGen, uid, workers, lock, uidWid, triggered, finderVars, walk>>

\* Bucket.put up to the store into uidWidMap.  putBucket stops the worker that
\* was there under the same id.
PutWorker(w) ==
  /\ conn[w] = "put" /\ Unlocked(Bucket(w))
  /\ conn' = [conn EXCEPT ![w] = "stored"]
  /\ lock' = [lock EXCEPT ![Bucket(w)] = w]
  /\ workers' = workers \union {w} /\ triggered' = triggered \union (workers \intersect {w})
  /\ UNCHANGED <<idGen, uid, uidWid, finderVars, walk>>

\* Mutant: stores the id generator's current value for the worker's own id.
PutUidLatest(w) ==
  /\ conn[w] = "stored"
  /\ conn' = [conn EXCEPT ![w] = "online"]
  /\ lock' = [lock EXCEPT ![Bucket(w)] = NoWid]
  /\ uidWid' = [uidWid EXCEPT ![uid[w]] = idGen]
  /\ UNCHANGED <<idGen, uid, workers, triggered, finderVars, walk>>

\* Mutant: the user's entry is not stored.
PutUidForgotten(w) ==
  /\ conn[w] = "stored"
  /\ conn' = [conn EXCEPT ![w] = "online"]
  /\ lock' = [lock EXCEPT ![Bucket(w)] = NoWid]
  /\ UNCHANGED <<idGen, uid, workers, uidWid, triggered, finderVars, walk>>

PutUid(w) ==
  /\ conn[w] = "stored"
  /\ conn' = [conn EXCEPT ![w] = "online"]
  /\ lock' = [lock EXCEPT ![Bucket(w)] = NoWid]
  /\ uidWid' = [uidWid EXCEPT ![uid[w]] = w]
  /\ UNCHANGED <<idGen, uid, workers, triggered, finderVars, walk>>

\* afterConnectFunc has failed or Worker.Run has returned.
Leave(w) ==
  /\ conn[w] = "online"
  /\ conn' = [conn EXCEPT ![w] = "del"]
  /\ walk' = [walk EXCEPT !.stayed = @ \ {w}]
  /\ UNCHANGED <<idGen, uid, workers, lock, uidWid, triggered, finderVars>>

\* Bucket.del up to the delete from uidWidMap.
DelWorker(w) ==
  /\ conn[w] = "del" /\ Unlocked(Bucket(w))
  /\ conn' = [conn EXCEPT ![w] = "deleted"]
  /\ lock' = [lock EXCEPT ![Bucket(w)] = w]
  /\ workers' = workers \ {w}
  /\ UNCHANGED <<idGen, uid, uidWid, triggered, finderVars, walk>>

\* Mutant: the entry of uidWidMap is left behind.
DelUidForgotten(w) ==
  /\ conn[w] = "deleted"
  /\ conn' = [conn EXCEPT ![w] = "gone"]
  /\ lock' = [lock EXCEPT ![Bucket(w)] = NoWid]
  /\ UNCHANGED <<idGen, uid, workers, uidWid, triggered, finderVars, walk>>

\* uidWidMap.Delete(w.UID()), whichever worker the entry names.
DelUid(w) ==
  /\ conn[w] = "deleted"
  /\ conn' = [conn EXCEPT ![w] = "gone"]
  /\ lock' = [lock EXCEPT ![Bucket(w)] = NoWid]
  /\ uidWid' = [uidWid EXCEPT ![uid[w]] = NoWid]
  /\ UNCHANGED <<idGen, uid, workers, triggered, finderVars, walk>>

\* Server.Disconnect: the worker is looked up by its id and asked to stop.
Disconnect(w) ==
  /\ w \in workers \ triggered /\ Unlocked(Bucket(w))
  /\ triggered' = triggered \union {w}
  /\ UNCHANGED <<idGen, uid, conn, workers, lock, uidWid, finderVars, walk>>

------------------------------------------------------------------------------
(* Server.Push and Server.PushGroup. *)

Find(f) ==
  /\ finder[f] = "idle"
  /\ finder' = [finder EXCEPT ![f] = "load"]
  /\ \E us \in SUBSET Uids \ {{}}, one \in BOOLEAN :
       /\ one => Cardinality(us) = 1
       /\ todo' = [todo EXCEPT ![f] = us] /\ single' = [single EXCEPT ![f] = one]
  /\ UNCHANGED <<connVars, loaded, found, walk>>

\* uidWidMap.Load: no entry is "worker not found" to Push, and is left out by
\* GetByUIDs.
Load(f, u) ==
  /\ finder[f] = "load" /\ u \in todo[f]
  /\ todo' = [todo EXCEPT ![f] = @ \ {u}]
  /\ \/ /\ uidWid[u] # NoWid
        /\ finder' = [finder EXCEPT ![f] = "get"]
        /\ loaded' = [loaded EXCEPT ![f] = {<<u, uidWid[u]>>}]
     \/ /\ uidWid[u] = NoWid
        /\ finder' = [finder EXCEPT ![f] = IF single[f] THEN "missing" ELSE "load"]
        /\ UNCHANGED loaded
  /\ UNCHANGED <<connVars, single, found, walk>>

\* Bucket.get, under the read lock.  A worker that is no longer there is nil:
\* GetByUID returns it to Push, GetByUIDs collects it as it is.
Get(f, u, w) ==
  /\ finder[f] = "get" /\ <<u, w>> \in loaded[f] /\ Unlocked(Bucket(w))
  /\ found' = [found EXCEPT ![f] = @ \union {<<u, IF w \in workers THEN w ELSE NoWid>>}]
  /\ loaded' = [loaded EXCEPT ![f] = {}]
  /\ finder' = [finder EXCEPT ![f] = IF ~single[f] THEN "load"
                                     ELSE IF w \in workers THEN "push" ELSE "missing"]
  /\ UNCHANGED <<connVars, single, todo, walk>>

\* GetByUIDs returns once every user has been looked up.
Collected(f) ==
  /\ finder[f] = "load" /\ todo[f] = {}
  /\ finder' = [finder EXCEPT ![f] = "push"]
  /\ UNCHANGED <<connVars, single, todo, loaded, found, walk>>

\* w.Push on what was collected; on a nil worker it panics.
Deliver(f) ==
  /\ finder[f] = "push"
  /\ finder' = [finder EXCEPT ![f] =
                  IF \E r \in found[f] : r[2] = NoWid THEN "panicked" ELSE "pushed"]
  /\ UNCHANGED <<connVars, single, todo, loaded, found, walk>>

------------------------------------------------------------------------------
(* Server.Broadcast, WIDList and stop: Buckets.Walk. *)

WalkBegins ==
  /\ walk.next = BucketSize
  /\ walk' = [next |-> 0, reached |-> {}, stayed |-> {w \in Wids : conn[w] = "online"}]
  /\ UNCHANGED <<connVars, finderVars>>

\* Mutant: a bucket that is locked is passed over.
WalkBucketTries ==
  /\ walk.next < BucketSize
  /\ walk' = [walk EXCEPT !.next = @ + 1,
                          !.reached = @ \union {w \in workers : /\ Bucket(w) = walk.next
                                                               /\ Unlocked(walk.next)}]
  /\ UNCHANGED <<connVars, finderVars>>

\* The snapshot of one bucket, under its read lock.
WalkBucket ==
  /\ walk.next < BucketSize /\ Unlocked(walk.next)
  /\ walk' = [walk EXCEPT !.next = @ + 1,
                          !.reached = @ \union {w \in workers : Bucket(w) = walk.next}]
  /\ UNCHANGED <<connVars, finderVars>>

------------------------------------------------------------------------------
ConnStep(w) ==
  Start(w) \/ PutWorker(w) \/ PutUid(w) \/ Leave(w) \/ DelWorker(w) \/ DelUid(w) \/ Disconnect(w)
FinderStep(f) ==
  \/ Find(f) \/ Collected(f) \/ Deliver(f)
  \/ \E u \in Uids : Load(f, u) \/ \E w \in Wids : Get(f, u, w)

Next ==
  \/ Accept \/ WalkBegins \/ WalkBucket
  \/ \E w \in Wids : ConnStep(w)
  \/ \E f \in Finders : FinderStep(f)

Spec == Init /\ [][Next]_vars

------------------------------------------------------------------------------
(* Properties. *)

\* The connections, the buckets and uidWidMap.
ConnType ==
  /\ idGen \in 0..MaxWid /\ uid \in [Wids -> Uids] /\ conn \in [Wids -> ConnPoints]
  /\ workers \in SUBSET Wids /\ triggered \in SUBSET Wids
  /\ lock \in [Indices -> Wids \union {NoWid}]
  /\ uidWid \in [Uids -> Wids \union {NoWid}]

\* The finders.
FinderType ==
  /\ finder \in [Finders -> FinderPoints] /\ single \in [Finders -> BOOLEAN]
  /\ todo \in [Finders -> SUBSET Uids] /\ loaded \in [Finders -> SUBSET (Uids \X Wids)]
  /\ found \in [Finders -> SUBSET (Uids \X (Wids \union {NoWid}))]

\* The broadcast.
WalkType ==
  walk \in [next : 0..BucketSize, reached : SUBSET Wids, stayed : SUBSET Wids]

TypeOK == ConnType /\ FinderType /\ WalkType

\* The lookup by user is two reads, of uidWidMap and of a bucket, with any
\* number of puts and dels between them; the worker it yields is nevertheless
\* one of that user, past its handshake: nothing is pushed to another user.
LookupFindsOwner ==
  \A f \in Finders : \A r \in found[f] :
    r[2] # NoWid => uid[r[2]] = r[1] /\ conn[r[2]] \notin {"none", "start", "put"}

\* An entry of uidWidMap names a worker of that user that is in its bucket, or
\* is being taken out by the del that removes the entry: none outlives its
\* worker.
NoEntryOutlivesWorker ==
  \A u \in Uids : uidWid[u] # NoWid =>
    /\ uid[uidWid[u]] = u
    /\ uidWid[u] \in workers \/ conn[uidWid[u]] = "deleted"

\* A broadcast takes its snapshots bucket by bucket, and reaches every worker
\* that is online from its beginning to its end.
BroadcastReachesStayers ==
  walk.next = BucketSize => walk.stayed \subseteq walk.reached

\* del removes the user's entry whichever worker it names, so a connection may
\* be online and not found; but only after the del of another connection of the
\* same user: nobody else's del, put or lookup takes the entry away.
EntryLostOnlyToOwnUser ==
  \A w \in Wids : conn[w] = "online" =>
    \/ uidWid[uid[w]] # NoWid
    \/ \E v \in Wids : v # w /\ uid[v] = uid[w] /\ conn[v] = "gone"

\* GetByUIDs collects a nil worker, on which PushGroup panics and for which Push
\* answers "worker not found" (server.go:297), only for a user who had a worker
\* that was taken out of its bucket: never for one who is just being put.
NilMeansLeft ==
  \A f \in Finders : \A r \in found[f] :
    r[2] = NoWid => \E w \in Wids : uid[w] = r[1] /\ conn[w] \in {"deleted", "gone"}
==============================================================================
