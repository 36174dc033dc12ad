SPECIFICATION FairSpec
CONSTANTS
  MaxPending = 1
  MaxCalls = 1
  MaxPolls = 10
  MaxFailures = 0
PROPERTY CallsReturn
CHECK_DEADLOCK FALSE
