\* Two instances, one registers a webhook; two lives of the process.
SPECIFICATION FairSpec
CONSTANTS
  first = first
  second = second
  Order <- TwoInstances
  WsEnabled = {first, second}
  Registers = {first}
  BaseDelay = 1
  MaxDelay = 3
  MaxAttempt = 2
  MaxLives = 2
  MaxPosts = 1
INVARIANTS TypeOK SocketOrTimer KeepaliveMatchesSocket BackoffFollowsFailures WebhookFollowsProcess
PROPERTIES KeepsTrying ShutdownEnds
CHECK_DEADLOCK FALSE
