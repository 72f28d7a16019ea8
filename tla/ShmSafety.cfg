SPECIFICATION Spec
CONSTANTS
  Threads = {t1, t2}
  Packets = {p1, p2, p3}
  NoPacket = NoPacket
  Cap = 2
  NWords = 2
  MaxIntr = 1
  MaxRestarts = 1
  MaxSeconds = 1
SYMMETRY Symmetry
INVARIANT TypeOK
INVARIANT NoUnfilledBlock
INVARIANT NeverMoreThanAnnounced
INVARIANT NoStrandedBlock
PROPERTY ImplementsLossyMailbox
PROPERTY LifoUntilOverlap
CHECK_DEADLOCK FALSE
