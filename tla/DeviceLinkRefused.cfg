\* A payout that failed before the PIN and is retried by staff.
SPECIFICATION Spec
CONSTANTS
  MoneyJobs = {m1}
  BalanceJobs = {}
  NoJob = NoJob
  MaxConnections = 1
  MaxBatch = 2
  MaxInFlight = 1
  MaxFence = 2
  MaxCorrupt = 0
INVARIANT RetryRuns
CHECK_DEADLOCK FALSE
