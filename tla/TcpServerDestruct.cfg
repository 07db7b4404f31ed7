CONSTANTS
  MaxThreads = 2
  Conns = {c1, c2}
  MaxFds = 2
  Others = 1
SPECIFICATION Spec
CHECK_DEADLOCK FALSE
INVARIANT DestructedDisconnected
