\* Two files of the same name: whose bytes the agent reads.
SPECIFICATION Spec
CONSTANTS
  dm = dm
  post = post
  friend = friend
  group = group
  report = report
  Messages = {dm, post}
  Kinds <- FilesOnly
  Size <- Sizes
  NameOf <- OneName
  MinTries = 1
  MaxTries = 2
  SectionCap = 2
  MaxSections = 2
  Turns = {dm, post}
  Chats = {friend, group}
  ChatOf <- Apart
  PacedChats = {group}
  Retries = 1
  MaxLosses <- NoLosses
  Direct = {dm}
  Replies <- NoReplies
  MaxDeaths = 0
INVARIANTS PathHoldsItsMessage
CHECK_DEADLOCK FALSE
