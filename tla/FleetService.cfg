\* A device enters service through the staff switch, or a retired one is activated with
\* a new code.  Two claims, each with counterexamples of its own: run with -continue.
SPECIFICATION Spec
CONSTANTS
  d1 = d1  d2 = d2  d3 = d3  s1 = s1  s2 = s2
  None = None
  Devices = {d1}
  Sims = {s1}
  Home <- MCHome
  Handsets = {h1}
  Workers = {w1}
  MaxCodes = 2
  MaxRuns = 0
INVARIANTS ServiceNeedsApproval RetirementNeedsRecovery
CHECK_DEADLOCK FALSE
