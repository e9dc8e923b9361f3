\* Two conversations, four requests, one slot per queue, real sends that take up to a unit.
SPECIFICATION FairSpec
CONSTANTS
  alice = alice
  bob = bob
  Conversations <- TwoConversations
  MaxQueueDepth = 1
  FirstReplyBase = 1
  FirstReplyPerChar = 1
  FirstReplyMax = 2
  MinGap = 1
  IdleReset = 2
  HardFloor = 1
  CeilingPerMinute = 2
  CeilingPerHour = 3
  QuietCeilingPerMinute = 1
  DelayMultiplierPct = 150
  QuietRanges <- NightRange
  OneMinute = 5
  OneHour = 8
  OneDay = 9
  TextLengths = {1}
  JitterPcts <- FewJitters
  MaxSends = 4
  IdleHorizon = 1
  SendTime = 1
INVARIANTS TypeOK SoloCeilingsHold FloorBetweenReleases
PROPERTIES ImplementsOutbox AcceptedIsReleased
CHECK_DEADLOCK FALSE
