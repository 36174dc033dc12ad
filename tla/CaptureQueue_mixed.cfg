CONSTANTS
  f1 = f1
  f2 = f2
  f3 = f3
  m1 = m1
  m2 = m2
  Packets = {f1, f2, f3, m1, m2}
  KindOf <- BothKinds
  RecordSize <- Sizes
  BufferLength = 8
  Wrap = 100
  MaxFailures = 1
  MaxSessions = 2
  NoPacket = NoPacket
SYMMETRY KindSymmetry
SPECIFICATION Spec
INVARIANTS
  TypeOK
  FreedIsGone
  PacketIsSomewhere
  WritesInBounds
  PacketsHaveQueries
PROPERTY ImplementsDeliveries
\* with every packet handled and every session over, nothing is left to do
CHECK_DEADLOCK FALSE
