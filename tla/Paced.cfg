\* Three bytes a second, a second is two ticks: a byte lacking costs less than a tick, two
\* cost one and a fraction, three cost two; four go as two pieces. Nine bytes are three
\* such requests at the same time.
SPECIFICATION ConnectionSpec
CONSTANTS
  Ways = {"SendB"}
  HighWater = 2
  InputCapacity = 1
  MaxSend = 2
  MaxBytes = 5
  MaxTasks = 2
  MaxInbound = 3
  Rate = 3
  Second = 2
  MaxLen = 4
  MaxPaced = 9
  MaxNow = 4
  MaxLag = 1
INVARIANTS
  BacklogCovered
  LongRunRate
\* The clock stops at MaxNow.
CHECK_DEADLOCK FALSE
