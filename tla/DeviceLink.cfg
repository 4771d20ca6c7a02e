\* A payout retried once or with an unreadable event over two connections, or together with a balance query.
SPECIFICATION MCSpec
CONSTANTS
  m1 = m1
  MoneyJobs = {m1}
  BalanceJobs = {b1}
  NoJob = NoJob
  MaxConnections = 2
  MaxBatch = 2
  MaxInFlight = 1
  MaxFence = 2
  MaxCorrupt = 1
INVARIANTS AppliedOnceInOrder SmsFindsCommit
PROPERTY ArrivesOrRefused
CHECK_DEADLOCK FALSE
