CONSTANTS
  Fds = {0, 1, 2}
  Reused = {0}
  MaxChannels = 2
  Events = {"read", "write"}
SPECIFICATION Spec
INVARIANTS PollIndexed EPollAccepts WatchesWhatIsAsked OnlyLiveChannels
CHECK_DEADLOCK FALSE
