CONSTANTS
  Irps = {r1, r2, r3}
  MaxOutstanding = 3
  MaxPush = 1
  NoIrp = NoIrp
SYMMETRY IrpSymmetry
SPECIFICATION Spec
INVARIANTS
  TypeOK
  OneOwner
  AnsweredIsGone
  CancelFindsEntry
  ThreadHoldsNoEntry
PROPERTY ImplementsReadRequests
\* an idle driver, with every read answered, waits for ever
CHECK_DEADLOCK FALSE
