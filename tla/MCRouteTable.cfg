SPECIFICATION Spec
CONSTANTS
  g1 = g1
  g2 = g2
  c1 = c1
  c2 = c2
  c3 = c3
  u1 = u1
  u2 = u2
  NoGate = NoGate
  NoUid = NoUid
  Gates <- MCGates
  Conns <- MCConns
  Uids <- MCUids
SYMMETRY MCSymmetry
INVARIANTS CleanupSparesOtherGates RoutesAreLive
CHECK_DEADLOCK FALSE
