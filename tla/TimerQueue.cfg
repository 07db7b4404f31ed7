CONSTANTS
  Threads = {t1}
  Addrs = {a1, a2}
  MaxTimers = 2
  MaxTime = 3
  Intervals = {0, 1}
  MaxPending = 1
  MaxJumps = 1
SPECIFICATION FairSpec
INVARIANTS IndexesAgree OwnedOnce EarliestIsArmed CancelIsFinal OnlyCancelDrops
PROPERTIES DueTimerServed
