CONSTANTS
  LoopThread = loop_thread
  Threads = {t1}
  ThreadCalls = {"ForceClose"}
  MaxBytes = 2
  MessageSize = 2
  HighWaterMark = 2
  LoopCalls = {"Send", "Shutdown", "ForceClose", "ForceCloseWithDelay"}
SPECIFICATION FairSpec
INVARIANTS ShutdownAfterData UpThenDownOnce DestructedClean
PROPERTIES OutputDrains ShutdownCompletes
CHECK_DEADLOCK FALSE
