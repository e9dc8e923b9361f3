\* One id in two accounts, an acknowledging and a silent subscriber, two faults.
SPECIFICATION FairSpec
CONSTANTS
  A = A
  B = B
  m1 = m1
  adapter = adapter
  console = console
  Accounts <- TwoAccounts
  Ids = {m1}
  Clients = {adapter, console}
  AccountOf <- AllOnA
  AutoAck = {adapter}
  Messages <- SharedId
  MaxBroadcastAge = 1
  AgeWindow = 2
  Retention = 2
  MaxTime = 3
  MaxFaults = 2
INVARIANTS TypeOK AccountIsolation DeliveredWasReceived BroadcastAtMostOnce
PROPERTIES AckedIsFinal FreshIsReceived
CHECK_DEADLOCK FALSE
