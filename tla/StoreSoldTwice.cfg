SPECIFICATION Spec
CONSTANTS
  Threads = {t1, t2}
  NCards = 2
  Value <- MCValue
  Tels = {a}
  NoTel = NoTel
  Initial <- MCInitial
  Precision = 10
  Counts = {1, 2}
  MaxRequests = 2
  MaxRestarts = 0
  MaxFailures = 0
CHECK_DEADLOCK FALSE
INVARIANT CardIsSoldOnce
