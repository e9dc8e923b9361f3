\* A direct message answered by a captioned image and a quote, in a conversation
\* without a pacer, and a group post answered by a text, in one with a pacer.
SPECIFICATION FairSpec
CONSTANTS
  dm = dm
  post = post
  friend = friend
  group = group
  report = report
  Messages = {}
  Kinds <- AnyKind
  Size <- Sizes
  NameOf <- OneName
  MinTries = 1
  MaxTries = 2
  SectionCap = 2
  MaxSections = 2
  Turns = {dm, post}
  Chats = {friend, group}
  ChatOf <- Apart
  PacedChats = {group}
  Retries = 1
  MaxLosses <- TwoForOne
  Direct = {dm}
  Replies <- LongAndShort
  MaxDeaths = 1
INVARIANTS OnceAndInOrder
PROPERTIES TurnEnds
CHECK_DEADLOCK FALSE
