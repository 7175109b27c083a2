\* A loop that is never late; three bytes a second, a second is six ticks.
SPECIFICATION Spec
CONSTANTS
  Rate = 3
  Second = 6
  MaxLen = 2
  MaxBytes = 6
  MaxNow = 5
  MaxLag = 0
INVARIANTS
  TokenBucket
\* The clock stops at MaxNow.
CHECK_DEADLOCK FALSE
