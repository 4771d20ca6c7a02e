\* A device with two SIMs, two codes and a qualification, or two records of one handset with three codes.
SPECIFICATION MCSpec
CONSTANTS
  d1 = d1  d2 = d2  d3 = d3  s1 = s1  s2 = s2
  None = None
  Devices = {d1, d2, d3}
  Sims = {s1, s2}
  Home <- MCHome
  Handsets = {h1}
  Workers = {w1}
  MaxCodes = 3
  MaxRuns = 1
SYMMETRY Symmetry
INVARIANT OneIdentityPerHandset
PROPERTY EntersServiceByStaff
CHECK_DEADLOCK FALSE
