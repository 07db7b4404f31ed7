CONSTANTS
  kCheapPrepend = 1
  kInitialSize = 1
  ExtraSize = 2
  Base = 2
  Widths = {1, 2}
  MaxArg = 3
  CR = 0
  LF = 1
  MaxSize = 5
SPECIFICATION Spec
INVARIANTS TypeOK AssertsHold
PROPERTIES GrowsOnlyWhenFull ImplementsByteDeque
