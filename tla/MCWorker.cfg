SPECIFICATION Spec
CONSTANTS
  p1 = p1
  p2 = p2
  p3 = p3
  main1 = main1
  main2 = main2
  room = room
  Pushers <- MCPushers
  Keys <- MCPlayerKeys
  PlayerKeys <- MCPlayerKeys
  ReplyChanSize = 2
  MaxInbox = 1
  StoppingOnTrigger = FALSE
INVARIANTS StopsQuietly RepliesInOrder TickStopsForEndedTunnel EndedTunnelCountsDown FoundWorkerIsLive
PROPERTIES ImplementsLife
CHECK_DEADLOCK FALSE
SYMMETRY MCSymmetry
