\* Two readers, classes of 4, 6, 8 and 8 bytes.  A reader starts with 4 bytes,
\* grows to 8, which the pool takes back, and to 16, which it does not.
CONSTANTS
  MinSize = 2
  MaxSize = 8
  Factor = 4
  Readers = {q1, q2}
  Bufs = {b1, b2, b3}
  NoBuf = NoBuf
  InitialSize = 4
  Slack = 1
  Powers <- MCPowers
  Reads = {1, 5}
  MaxStream = 6
SPECIFICATION Spec
SYMMETRY Symmetry
INVARIANTS TypeOK WindowInBounds BufferHasOneOwner ReadsOwnStream AllocFits
