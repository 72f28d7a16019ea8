SPECIFICATION FairSpec
CONSTANTS
  Clients = {c1, c2}
  NoClient = NoClient
  NEpolls = 2
  NFds = 2
  MaxPackets = 2
  MaxFails = 1
INVARIANTS TypeOK WatchedByOne SumIsSize Balanced RepliesGoHome
PROPERTY SentIsRead
CHECK_DEADLOCK FALSE
