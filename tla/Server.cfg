\* Two accepting loops and two that serve; three calls of accept(), and one failure, of
\* a call or of a thread. The counter starts inside or past the range.
SPECIFICATION FairSpec
CONSTANTS
  AcceptNum = 2
  IoNum = 2
  Garbage = {1, 7}
  MaxConns = 3
  MaxFailures = 1
INVARIANTS
  NullNeedsFailure
  SetIsExact
PROPERTIES
  StartReturns
\* The peers stop coming.
CHECK_DEADLOCK FALSE
