SPECIFICATION FairSpec
CONSTANTS
  Clients = {a, d}
  Deaf = {d}
  Readers = {t}
  Operators = {o}
  NoMessage = NoMessage
  RequestCap = 2
  ReplyCap = 1
  MaxStarts = 2
  MaxDeaths = 2
  MaxFailures = 1
  MaxRequests = 3
CHECK_DEADLOCK FALSE
INVARIANTS TypeOK OneServer StaleNeedsRace MatchUnlessRaced NoneLostNoneTwice
PROPERTIES ExchangeUntilTrouble AnsweredUnlessTrouble
