SPECIFICATION Spec
CONSTANTS
  Threads = {t1, t2}
  NCards = 2
  Value <- MCValue
  Tels = {a, b}
  NoTel = NoTel
  Initial <- MCInitial
  Precision = 10
  Counts = {1, 2}
  MaxRequests = 4
  MaxRestarts = 1
  MaxFailures = 1
SYMMETRY Symmetry
CHECK_DEADLOCK FALSE
INVARIANTS TypeOK NoMoneyFromNowhere SoldCreditedUsed CreditsAreAnswered NoCardVanishes
PROPERTY LedgerUntilOverlap
