\* Staff approve while the rule is being replaced, or a number is enrolled as a fleet SIM
\* while it becomes a destination.  Two claims: run with -continue.
SPECIFICATION Spec
CONSTANTS
  Sims = {s1}
  Phones = {p1, p2}
  Workers = {w1}
  MaxVersion = 2
  MaxTime = 2
  Interval = 1
  Owners = {"platform", "merchant"}
  NoPhone = NoPhone
INVARIANTS ApprovedWhatWasSeen NoSweepIntoFleet
CHECK_DEADLOCK FALSE
