CONSTANTS
  f1 = f1
  f2 = f2
  f3 = f3
  m1 = m1
  m2 = m2
  Packets = {f1, f2, f3}
  KindOf <- FlowsOnly
  RecordSize <- Sizes
  BufferLength = 9
  Wrap = 100
  MaxFailures = 1
  MaxSessions = 2
  NoPacket = NoPacket
SPECIFICATION FairSpec
PROPERTY PausedCapturesNothing
\* with every packet handled and every session over, nothing is left to do
CHECK_DEADLOCK FALSE
