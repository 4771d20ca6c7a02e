\* Four calls that share keys and references; two events, an endpoint, two workers, a fault.
SPECIFICATION ApiSpec
CONSTANTS
  a = a  b = b  c = c  d = d
  NoIdentity = NoIdentity
  NoRecord = NoRecord
  NoOne = NoOne
  Requests = {a, b, c, d}
  KeyOf <- MCKeyOf
  RefOf <- MCRefOf
  HashOf <- MCHashOf
  Endpoints = {p1}
  Events = {1, 2}
  Owned = {1}
  Workers = {w1, w2}
  MaxSecrets = 2
  MaxFaults = 1
  NoWorker = NoWorker
INVARIANT NothingLost
PROPERTIES ImplementsOnceOnly ClaimsFenced NothingWaitsForEver
CHECK_DEADLOCK FALSE
