\* Two queries, at once or one after the other, with a requeue, a retry, lost answers and refused reports, on a slow link.
SPECIFICATION FairRefreshSpec
CONSTANTS
  MaxJobs = 2
  MaxFence = 3
  SlowLink = TRUE
INVARIANT AnswerFindsItsQuery
PROPERTY RefreshedOrBlocked
CHECK_DEADLOCK FALSE
