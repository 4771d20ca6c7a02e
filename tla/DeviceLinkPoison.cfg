\* A payout whose SMS settles it before its last status arrives.
SPECIFICATION FairSpec
CONSTANTS
  MoneyJobs = {m1}
  BalanceJobs = {}
  NoJob = NoJob
  MaxConnections = 1
  MaxBatch = 2
  MaxInFlight = 1
  MaxFence = 1
  MaxCorrupt = 0
PROPERTY EvidenceArrives
CHECK_DEADLOCK FALSE
