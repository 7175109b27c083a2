\* One poster and the loop, which posts from its handlers, two tasks each of all four
\* kinds; those that are delayed are due together (Timers.cfg has them due one by one). One
\* thread's tasks can overtake each other, and the pipe holds fewer bytes than there are
\* posts. Fair scheduling of the loop, of posters inside Post*Task, and of the clock. The
\* loop may stop: once the bounded clock, posters and peers have, select blocks.
SPECIFICATION FairSpec
CONSTANTS
  p1 = p1
  loop = loop
  Posters = {p1}
  LoopThread = loop
  Kinds = {"task", "delay", "idle", "idleDelay"}
  Delays = {1}
  MaxPost = 2
  MaxNow = 2
  MaxIO = 1
  PipeCap = 1
INVARIANTS
  NoLostWakeup
PROPERTIES
  RunsInPostingOrder
  ImplementsService
  EveryTaskServed
CHECK_DEADLOCK FALSE
