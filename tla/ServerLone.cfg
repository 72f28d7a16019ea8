SPECIFICATION FairSpec
CONSTANTS
  Clients = {a}
  Deaf = {}
  Readers = {t}
  Operators = {o}
  NoMessage = NoMessage
  RequestCap = 2
  ReplyCap = 2
  MaxStarts = 1
  MaxDeaths = 0
  MaxFailures = 0
  MaxRequests = 2
CHECK_DEADLOCK FALSE
PROPERTY EveryRequestIsAnswered
