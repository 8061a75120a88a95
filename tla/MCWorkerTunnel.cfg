SPECIFICATION FairSpec
CONSTANTS
  p1 = p1
  p2 = p2
  p3 = p3
  main1 = main1
  main2 = main2
  room = room
  Pushers <- MCTwoPushers
  Keys <- MCOneKey
  PlayerKeys <- MCOneKey
  ReplyChanSize = 1
  MaxInbox = 1
  StoppingOnTrigger = FALSE
PROPERTIES PlayerTunnelClosesWorker
CHECK_DEADLOCK FALSE
