\* A learns its wxid, B is given it; two forceSync calls, a failed write, restarts.
SPECIFICATION Spec
CONSTANTS
  A = A
  B = B
  room = room
  device = device
  none = none
  r1 = r1
  r2 = r2
  Accounts <- TwoAccounts
  Peers <- Room
  Foreign = device
  Declared <- OnlyB
  Log <- TwoLogs
  SeenMax = 2
  Unknown = none
  Rounds = {r1, r2}
  MaxBatch = 2
  MaxFailures = 1
SYMMETRY Calls
INVARIANTS TypeOK RightAccount NoOwnDM SeenRemembersRecent PresentedIsStored CursorCovers
