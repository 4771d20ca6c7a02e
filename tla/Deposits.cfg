\* Four intents and a payment, or two intents and two payments with two staff credits at once.
SPECIFICATION MCSpec
CONSTANTS
  d1 = d1  d2 = d2  d3 = d3  dt = dt  s1 = s1  x1 = x1  x2 = x2
  TestSim = TestSim
  NoSim = NoSim
  NoPayment = NoPayment
  Simulated = Simulated
  NoDeposit = NoDeposit
  Deposits = {d1, d2, d3, dt}
  TestMode = {dt}
  Sims = {s1}
  Payments = {x1, x2}
  CustomerOf <- MCCustomerOf
  Likeness <- MCLikeness
  Agrees <- MCAgrees
  MaxChecked = 2
INVARIANTS PaymentsAccounted AlikeNeverAmbiguous
PROPERTY IntentsEnd
CHECK_DEADLOCK FALSE
