\* As EventLoop.cfg, without fairness, and with timers of three due times, which are posted
\* in any order, several of them parked at once, early, due and late when the loop looks at
\* them, and due or overtaken while it computes its wait.
SPECIFICATION Spec
CONSTANTS
  p1 = p1
  loop = loop
  Posters = {p1}
  LoopThread = loop
  Kinds = {"task", "delay", "idle", "idleDelay"}
  Delays = {0, 1, 2}
  MaxPost = 2
  MaxNow = 3
  MaxIO = 1
  PipeCap = 1
INVARIANTS
  SleepsUntilTimer
CHECK_DEADLOCK FALSE
