SPECIFICATION FairSpec
CONSTANTS
  m1 = m1
  m2 = m2
  m3 = m3
  m4 = m4
  Objects <- MCObjects
  ChanSize = 2
  MaxPackets = 6
  StoppingOnTrigger = TRUE
INVARIANTS TypeOK PacketsInOrder OneOwner LoopsEndBeforeClose
PROPERTIES TunnelWindsDown ForwardReturns ImplementsLife
CHECK_DEADLOCK FALSE
