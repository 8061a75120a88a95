SPECIFICATION FairSpec
CONSTANTS
  p1 = p1
  p2 = p2
  p3 = p3
  main1 = main1
  main2 = main2
  room = room
  Pushers <- MCTwoPushers
  Keys <- MCRoom
  PlayerKeys <- MCNoKeys
  ReplyChanSize = 1
  MaxInbox = 1
  StoppingOnTrigger = TRUE
PROPERTIES WriterEndsWorker PushReturns HandshakeEnds StalledForwardEnds
CHECK_DEADLOCK FALSE
