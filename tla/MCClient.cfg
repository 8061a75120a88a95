SPECIFICATION FairSpec
CONSTANTS
  ChanSize = 2
  InitialSize = 2
  Extras <- MCExtras
  Body = 2
  MaxUnits = 12
INVARIANTS PacksInOrder ClosedUnderLoopOnlyOnRequest
PROPERTIES StopClosesChannel ReceiveEnds
CHECK_DEADLOCK FALSE
