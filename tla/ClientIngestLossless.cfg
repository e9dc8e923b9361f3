\* As ClientIngest.cfg: a failed write, and the same message presented again.
SPECIFICATION Spec
CONSTANTS
  A = A
  B = B
  room = room
  device = device
  none = none
  r1 = r1
  r2 = r2
  Accounts <- TwoAccounts
  Peers <- Room
  Foreign = device
  Declared <- OnlyB
  Log <- TwoLogs
  SeenMax = 2
  Unknown = none
  Rounds = {r1}
  MaxBatch = 2
  MaxFailures = 1
INVARIANT RedeliveryIsStored
