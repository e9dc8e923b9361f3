\* As OutboundPacer.cfg without quiet hours; checks the account-wide ceilings.
SPECIFICATION Spec
CONSTANTS
  alice = alice
  bob = bob
  Conversations <- TwoConversations
  MaxQueueDepth = 2
  FirstReplyBase = 1
  FirstReplyPerChar = 1
  FirstReplyMax = 2
  MinGap = 2
  IdleReset = 2
  HardFloor = 1
  CeilingPerMinute = 2
  CeilingPerHour = 6
  QuietCeilingPerMinute = 2
  DelayMultiplierPct = 100
  QuietRanges <- NoRange
  OneMinute = 8
  OneHour = 30
  OneDay = 60
  TextLengths = {0}
  JitterPcts = {0}
  MaxSends = 4
  IdleHorizon = 0
  SendTime = 0
INVARIANT CeilingsHold
CHECK_DEADLOCK FALSE
