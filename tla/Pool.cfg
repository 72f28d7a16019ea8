SPECIFICATION FairSpec
CONSTANTS
  Workers = {w1, w2, w3}
  Tasks = {k1, k2, k3}
  NoTask = NoTask
  Free = Free
  Adder = Adder
  Destroyer = Destroyer
  MaxCount = 2
  StartCount = 1
  MaxFails = 1
  MayDestroy = TRUE
INVARIANT TypeOK
INVARIANT CountsAreExact
INVARIANT TakersFindTheirTask
INVARIANT NobodySleepsOnWork
PROPERTY ImplementsTaskQueue
PROPERTY TaskListDrains
PROPERTY ThreadsLeave
CHECK_DEADLOCK FALSE
