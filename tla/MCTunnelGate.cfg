SPECIFICATION Spec
CONSTANTS
  m1 = m1
  m2 = m2
  m3 = m3
  m4 = m4
  Objects <- MCObjects
  ChanSize = 1
  MaxPackets = 2
  StoppingOnTrigger = FALSE
INVARIANTS BackendMessageKeepsGateUp
CHECK_DEADLOCK FALSE
