\* Two look-alike payouts on one SIM, or one payout with two attempts on two SIMs; a staff retry per job.
SPECIFICATION MCSpec
CONSTANTS
  d1 = d1  d2 = d2  s1 = s1  s2 = s2  t1 = t1  t2 = t2  x1 = x1  x2 = x2
  NoJob = NoJob  NoSim = NoSim  NoTx = NoTx
  Transfers = {t1, t2}
  Devices = {d1, d2}
  Sims = {s1, s2}
  Payments = {x1, x2}
  DeviceOf <- MCDeviceOf
  Describes <- MCDescribes
  MaxAttempts = 2
  MaxRetries = 1
  MaxInFlight = 1
INVARIANTS TypeOK WalletHoldExact LedgerHoldExact LockExact AttemptAgreement CommitMarked NoSilentHold
PROPERTIES CommittedNeverRetried DeliveredNeverRequeued StartedReleasedOnlyWithProof PayoutEnds
