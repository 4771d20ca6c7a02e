\* One request sent twice at the same time.
SPECIFICATION ApiSpec
CONSTANTS
  a = a  b = b  c = c  d = d
  NoIdentity = NoIdentity
  NoRecord = NoRecord
  NoOne = NoOne
  Requests = {b, c}
  KeyOf <- MCKeyOf
  RefOf <- MCRefOf
  HashOf <- MCHashOf
  Endpoints = {p1}
  Events = {1}
  Owned = {1}
  Workers = {w1}
  MaxSecrets = 1
  MaxFaults = 0
  NoWorker = NoWorker
INVARIANT RepeatReturnsOriginal
CHECK_DEADLOCK FALSE
