CONSTANTS
  LoopThread = loop_thread
  Threads = {t1, t2}
  Calls = {"Connect", "Disconnect", "Stop"}
  retry_ = TRUE
  kInitRetryDelayMs = 500
  kMaxRetryDelayMs = 1500
  MaxConnects = 1
  MaxStops = 3
SPECIFICATION Spec
INVARIANTS OneAttempt NeverForgets NoSocketLeak StopIsFinal
