SPECIFICATION Spec
CONSTANTS
  Fds = {0, 1}
  Reused = {}
  MaxChannels = 1
  Events = {"read"}
INVARIANT WatchesEnabledAgain
CHECK_DEADLOCK FALSE
