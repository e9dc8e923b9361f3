SPECIFICATION FairSpec
CONSTANTS
  MaxFrames = 2
  Senders <- MCSenders
  Bot = "bot"
  Configured = FALSE
  Debounced = TRUE
  MaxStarts = 2
  MaxBreaks = 1
CHECK_DEADLOCK FALSE
INVARIANTS
  TypeOK
  OneStandingSubscription
  EchoGated
PROPERTIES
  FrameIsHandled
