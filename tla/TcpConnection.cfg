CONSTANTS
  LoopThread = loop_thread
  Threads = {t1}
  ThreadCalls = {"Send", "Shutdown"}
  MaxBytes = 4
  MessageSize = 2
  HighWaterMark = 3
  LoopCalls = {"Send"}
SPECIFICATION Spec
INVARIANTS BytesInOrder WritingIffOutput
CHECK_DEADLOCK FALSE
