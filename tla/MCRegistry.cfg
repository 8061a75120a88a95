SPECIFICATION Spec
CONSTANTS
  u1 = u1
  u2 = u2
  finder1 = finder1
  Uids <- MCUids
  MaxWid = 3
  BucketSize = 2
  Finders <- MCFinders
SYMMETRY MCSymmetry
INVARIANTS LookupFindsOwner NoEntryOutlivesWorker BroadcastReachesStayers EntryLostOnlyToOwnUser NilMeansLeft
CHECK_DEADLOCK FALSE
