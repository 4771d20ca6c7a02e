\* A payout that staff resolve before its SMS arrives.
SPECIFICATION Spec
CONSTANTS
  d1 = d1  d2 = d2  s1 = s1  s2 = s2  t1 = t1  t2 = t2  x1 = x1  x2 = x2
  NoJob = NoJob  NoSim = NoSim  NoTx = NoTx
  Transfers = {t1, t2}
  Devices = {d1}
  Sims = {s1}
  Payments = {x1}
  DeviceOf <- MCDeviceOf
  Describes <- MCDescribes
  MaxAttempts = 1
  MaxRetries = 0
  MaxInFlight = 1
INVARIANTS OutflowCountedOnce OneSession
