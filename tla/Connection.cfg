\* Bytes 1..5 in Sends of up to 2, watermark 2, two posted tasks, three inbound bytes
\* into a buffer of capacity 1 (two doublings).
SPECIFICATION ConnectionSpec
CONSTANTS
  Ways = {"Send"}
  HighWater = 2
  InputCapacity = 1
  MaxSend = 2
  MaxBytes = 5
  MaxTasks = 2
  MaxInbound = 3
  Rate = 3
  Second = 2
  MaxLen = 4
  MaxPaced = 9
  MaxNow = 4
  MaxLag = 1
INVARIANTS
  StreamIntact
  WriteInterestExact
  WriteHasWork
  WriteableAccurate
  ClosedUnwatched
  InputShown
PROPERTIES
  PeerGoneIsNoticed
  OutputDrains
\* The connection rests when nobody sends and the peer is silent or gone.
CHECK_DEADLOCK FALSE
