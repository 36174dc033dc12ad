CONSTANTS
  f1 = f1
  m1 = m1
  Irps = {1, 2}
  NoIrp = NoIrp
  Packets <- MCPackets
  KindOf <- MCKind
  RecordSize <- Sizes
  BufferLength = 5
  Wrap = 100
  MaxFailures = 1
  MaxSessions = 1
  NoPacket = NoPacket
SPECIFICATION FairSpec
INVARIANT CloseFindsIdle
PROPERTIES ServesReads QueuedIsDelivered
\* with every packet handled and the session over, nothing is left to do
CHECK_DEADLOCK FALSE
