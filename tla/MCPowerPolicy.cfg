\* Two events of the phones; the timers run out twice over.
SPECIFICATION FairSpec
CONSTANTS
  ShortWindow = 1
  BleWindow = 2
  LongWindow = 2
  MaxEvents = 2
CHECK_DEADLOCK FALSE
PROPERTY ConnectedDisarms
PROPERTY PowersDown
INVARIANT NoEarlySleep
