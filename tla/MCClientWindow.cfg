SPECIFICATION Spec
CONSTANTS
  ChanSize = 2
  InitialSize = 2
  Extras <- MCExtras
  Body = 2
  MaxUnits = 12
INVARIANT ReceivedPackIsIntact
CHECK_DEADLOCK FALSE
