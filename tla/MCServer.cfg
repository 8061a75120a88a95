SPECIFICATION FairSpec
CONSTANTS
  AcceptLoops = {l1, l2}
  BucketSize = 2
  MaxConns = 2
INVARIANTS OneLateAcceptPerLoop StopMissesNobody
PROPERTIES StopReturns AcceptLoopsEnd
CHECK_DEADLOCK FALSE
