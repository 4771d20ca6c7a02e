\* A dead delivery that was replayed and died again; a claim made while the secret
\* is rotated; a process that lost its channel.
SPECIFICATION Spec
CONSTANTS
  NoWorker = NoWorker
  Endpoints = {p1}
  Events = {1}
  Owned = {1}
  Workers = {w1}
  MaxSecrets = 2
  MaxFaults = 1
INVARIANT DeadIsReplayable
PROPERTIES AlwaysFresh AlwaysDrains
CHECK_DEADLOCK FALSE
