SPECIFICATION Spec
CONSTANTS
  Threads = {t1, t2}
  Packets = {p1, p2, p3}
  NoPacket = NoPacket
  Cap = 2
  NWords = 2
  MaxIntr = 0
  MaxRestarts = 0
  MaxSeconds = 0
SYMMETRY Symmetry
INVARIANT BlocksAreWhole
CHECK_DEADLOCK FALSE
