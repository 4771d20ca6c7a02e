\* One SIM with a rule of two versions, two destinations and two evaluations of the rule at once;
\* two settlement requests with two reviewers, a sweep execution and a staff retry.
SPECIFICATION TreasurySpec
CONSTANTS
  Sims = {s1}
  Phones = {p1, p2}
  Evaluators = {a1, a2}
  MaxVersion = 2
  MaxTime = 2
  Interval = 1
  Owners = {"platform"}
  NoPhone = NoPhone
  Settlements = {p1, p2}
  SweepOps = {x1}
  Reviewers = {a1, a2}
  MaxRetries = 1
SYMMETRY Symmetry
INVARIANTS SweepsSafe SettlementsAgree
CHECK_DEADLOCK FALSE
