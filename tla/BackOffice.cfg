\* Two incidents of one condition with two workers; one case, a merchant user and
\* two staff; the defaults, a group and a merchant with two proposals.
SPECIFICATION BackOfficeSpec
CONSTANTS
  Keys = {k1}
  MaxAlerts = 2
  Workers = {w1, w2}
  MaxAttempts = 2
  Cases = {c1}
  Authors = {merchant, staff1, staff2}
  Staff = {staff1, staff2}
  MaxMessages = 3
  MaxInFlight = 2
  NoOne = NoOne
  Groups = {g1}
  Merchants = {m1}
  Platform = Platform
  Amounts = {0, 1, 2}
  MaxChanges = 2
INVARIANT ConfigurationSafe
PROPERTIES AlertsDelivered CaseRulesKept
CHECK_DEADLOCK FALSE
