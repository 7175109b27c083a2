\* The program's pool, WorkPool(1, 2), one thread posting from outside and the tasks
\* themselves; one worker name more than PoolBounded allows to be in use, seven posts:
\* as many threads as PoolBounded allows do come to be. No symmetry: it is not sound for
\* liveness.
SPECIFICATION FairSpec
CONSTANTS
  Posters = {p1}
  Workers = {w1, w2, w3, w4}
  CoreThreads = 1
  MaxThreads = 2
  MaxPosts = 7
  MaxFailures = 2
INVARIANTS
  ThreadNumExact
  PoolBounded
  WorkIsSeen
PROPERTIES
  TasksServed
  PoolShrinks
\* The pool rests when nobody posts any more.
CHECK_DEADLOCK FALSE
