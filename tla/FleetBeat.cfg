\* A heartbeat overlaps a quarantine.
SPECIFICATION Spec
CONSTANTS
  d1 = d1  d2 = d2  d3 = d3  s1 = s1  s2 = s2
  None = None
  Devices = {d1}
  Sims = {s1}
  Home <- MCHome
  Handsets = {h1}
  Workers = {w1}
  MaxCodes = 1
  MaxRuns = 0
PROPERTY HeartbeatNeverPromotes
CHECK_DEADLOCK FALSE
