\* A success screen ends the query before its SMS, on a prompt link.
SPECIFICATION FairRefreshSpec
CONSTANTS
  MaxJobs = 1
  MaxFence = 1
  SlowLink = FALSE
PROPERTY AnswerArrives
CHECK_DEADLOCK FALSE
