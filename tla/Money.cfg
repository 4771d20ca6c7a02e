\* The ledger of two merchants and the system; one SIM with two payouts and a sweep.
SPECIFICATION MCSpec
CONSTANTS
  m1 = m1  m2 = m2  t1 = t1  t2 = t2  x1 = x1  r1 = r1  r2 = r2  System = System
  Merchants = {m1, m2, System}
  Transfers = {t1, t2, x1}
  Receipts = {r1, r2}
  Owner <- MCOwner
  Mode <- MCMode
  Amount <- MCAmount
  ReserveFee = 2
  GatewayFee = 1
  ActualFees = {0, 2, 5}
  TestFee = 1
  Payouts = {t1, t2}
  Sweeps = {x1}
  PayoutAmount <- MCPayoutAmount
  SimFee = 1
  SimFees = {0, 1}
  Deposit = 2
  StartBalance = 8
  Safety = 1
  DailyLimit = 8
  HighWater = 2
  Target = 1
  MaxPerRun = 4
  MaxDay = 1
  RoutineTime = 4
  ExceptionalTime = 3
  MaxRetries = 1
INVARIANTS AccountsExact ProofNeverRefused ReservedExact
PROPERTY PromisesKept
CHECK_DEADLOCK FALSE
