\* Two retry requests of one job at once.
SPECIFICATION Spec
CONSTANTS
  d1 = d1  d2 = d2  s1 = s1  s2 = s2  t1 = t1  t2 = t2  x1 = x1  x2 = x2
  NoJob = NoJob  NoSim = NoSim  NoTx = NoTx
  Transfers = {t1}
  Devices = {d1}
  Sims = {s1}
  Payments = {x1}
  DeviceOf <- MCDeviceOf
  Describes <- MCDescribes
  MaxAttempts = 1
  MaxRetries = 2
  MaxInFlight = 2
PROPERTY DeliveredNeverRequeued
