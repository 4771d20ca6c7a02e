\* The settlement fails by a path that sends no event.
SPECIFICATION Spec
CONSTANTS
  Settlements = {r1}
  SweepOps = {x1}
  Staff = {a1}
  MaxRetries = 1
INVARIANT LifecycleTold
CHECK_DEADLOCK FALSE
