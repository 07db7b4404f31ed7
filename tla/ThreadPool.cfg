CONSTANTS
  Producers = {p1, p2}
  Submitters = {p1}
  Workers = {w1, w2}
  MaxQueueSize = 2
  MaxTasks = 2
SPECIFICATION Spec
INVARIANTS QueueBounded NoLostNotify
PROPERTIES RunTakesEffect StopReturns
CHECK_DEADLOCK FALSE
