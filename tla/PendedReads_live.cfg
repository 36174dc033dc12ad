CONSTANTS
  Irps = {r1, r2}
  MaxOutstanding = 1
  MaxPush = 2
  NoIrp = NoIrp
SPECIFICATION FairSpec
INVARIANT NoLostWakeup
PROPERTIES
  CancelledReadAnswered
  ParkedReadServed
  UnloadEnds
\* an idle driver, with every read answered, waits for ever
CHECK_DEADLOCK FALSE
