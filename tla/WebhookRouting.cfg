\* No wxid is configured, and the upstream keeps pushing to the webhook.
SPECIFICATION PushedSpec
CONSTANTS
  A = A
  B = B
  room = room
  device = device
  none = none
  r1 = r1
  r2 = r2
  Accounts <- OneAccount
  Peers <- RoomAndB
  Foreign = device
  Declared <- Nobody
  Log <- TwoLogs
  SeenMax = 2
  Unknown = none
  Rounds = {r1}
  MaxBatch = 2
  MaxFailures = 0
PROPERTY PushesGetRouted
