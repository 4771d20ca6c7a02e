\* Two staff credits at once, of two payments to one intent.
SPECIFICATION Spec
CONSTANTS
  d1 = d1  d2 = d2  d3 = d3  dt = dt  s1 = s1  x1 = x1  x2 = x2
  TestSim = TestSim
  NoSim = NoSim
  NoPayment = NoPayment
  Simulated = Simulated
  NoDeposit = NoDeposit
  Deposits = {d2, d3}
  TestMode = {}
  Sims = {s1}
  Payments = {x1, x2}
  CustomerOf <- MCCustomerOf
  Likeness <- MCLikeness
  Agrees <- MCAgrees
  MaxChecked = 2
PROPERTY MatchIsFinal
CHECK_DEADLOCK FALSE
