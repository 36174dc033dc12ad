SPECIFICATION FairSpec
CONSTANTS
  MaxPending = 2
  MaxCalls = 2
  MaxPolls = 3
  MaxFailures = 1
INVARIANTS TypeOK OpensWhenUp EarlyFailureIsQuiet FailedInitLeavesNoHalf
  ReadsAreMapped CrashWindow
PROPERTIES StopsOnStaleStatus SetupEnds BatchIsStable PacketsAreFetched
  RequestWhileOnReturns
\* nf_init may wait for ever and the process may crash: the system may stop.
CHECK_DEADLOCK FALSE
