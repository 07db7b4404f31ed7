CONSTANTS
  LoopThread = loop_thread
  Threads = {t1, t2}
  WakeupChannel = wakeup
  Channels = {io}
  MaxFunctors = 3
  MaxQuits = 2
SPECIFICATION FairSpec
INVARIANTS NoLostWakeup NoLostQuit
PROPERTIES ImplementsTaskQueue QueuedFunctorRuns
