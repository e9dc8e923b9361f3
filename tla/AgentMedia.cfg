\* Two turns that fetch media, the names of their files alike; no replies.
SPECIFICATION FairSpec
CONSTANTS
  dm = dm
  post = post
  friend = friend
  group = group
  report = report
  Messages = {dm, post}
  Kinds <- AnyKind
  Size <- Sizes
  NameOf <- OneName
  MinTries = 1
  MaxTries = 2
  SectionCap = 2
  MaxSections = 2
  Turns = {dm, post}
  Chats = {friend, group}
  ChatOf <- Apart
  PacedChats = {group}
  Retries = 1
  MaxLosses <- NoLosses
  Direct = {dm}
  Replies <- NoReplies
  MaxDeaths = 1
INVARIANTS TypeOK AgentReadsItsMedia GatedCostsNothing
CHECK_DEADLOCK FALSE
