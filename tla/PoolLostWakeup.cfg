SPECIFICATION FairSpec
CONSTANTS
  Workers = {w1, w2}
  Tasks = {k1, k2, k3}
  NoTask = NoTask
  Free = Free
  Adder = Adder
  Destroyer = Destroyer
  MaxCount = 2
  StartCount = 1
  MaxFails = 0
  MayDestroy = FALSE
PROPERTY AddedTaskIsProcessed
CHECK_DEADLOCK FALSE
