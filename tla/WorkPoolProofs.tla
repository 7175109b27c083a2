--------------------------- MODULE WorkPoolProofs ---------------------------
(***************************************************************************)
(* Proofs about WorkPool, for any finite number of posters and workers and *)
(* any core and maximum: threadNum_ counts the workers, and the workers    *)
(* never all sleep beside a task.                                          *)
(***************************************************************************)
EXTENDS WorkPool, TLAPS, FiniteSetTheorems

WokenWorkers == {w \in Workers : pc[w] = "Woken"}

\* Why no task is slept on: while somebody waits, each queued task has a worker of
\* its own that was woken and has not looked yet. A push wakes one; a wait begins
\* with an empty queue only; a woken worker takes a task or finds none.
WakeInv == Waiting # {} => queued <= Cardinality(WokenWorkers)


-----------------------------------------------------------------------------
(* Finite sets of threads *)

\* The sets that are counted are finite.
LEMMA CountedSetsFinite ==
  /\ IsFiniteSet(Live) /\ IsFiniteSet(Adding) /\ IsFiniteSet(WokenWorkers)
  /\ Cardinality(Live) \in Nat
  /\ Cardinality(Adding) \in Nat
  /\ Cardinality(WokenWorkers) \in Nat
<1>1. IsFiniteSet(Threads)
  BY PoolAssumption, FS_Union DEF Threads
<1>2. Live \subseteq Workers /\ Adding \subseteq Threads /\ WokenWorkers \subseteq Workers
  BY DEF Live, Adding, WokenWorkers
<1>3. IsFiniteSet(Live) /\ IsFiniteSet(Adding) /\ IsFiniteSet(WokenWorkers)
  BY <1>1, <1>2, PoolAssumption, FS_Subset
<1> QED
  BY <1>3, FS_CardinalityType

\* Adding an element that is not there, or removing one that is, changes the count by one.
LEMMA OneMore ==
  ASSUME NEW S, NEW T, NEW x, IsFiniteSet(S), x \notin S, T = S \union {x}
  PROVE  Cardinality(T) = Cardinality(S) + 1
BY FS_AddElement

LEMMA OneLess ==
  ASSUME NEW S, NEW T, NEW x, IsFiniteSet(S), x \in S, T = S \ {x}
  PROVE  /\ Cardinality(S) \in Nat /\ Cardinality(T) \in Nat
         /\ Cardinality(T) = Cardinality(S) - 1
         /\ Cardinality(S) >= 1
<1>1. IsFiniteSet(T) /\ Cardinality(T) = Cardinality(S) - 1
  BY FS_RemoveElement
<1> QED
  BY <1>1, FS_CardinalityType

-----------------------------------------------------------------------------
(* threadNum_ counts the workers *)

LEMMA CountStep ==
  ASSUME TypeOK, ThreadNumExact, [Next]_vars
  PROVE  ThreadNumExact' /\ threadNum' \in Nat
<1> USE CountedSetsFinite
<1> DEFINE Same == threadNum' = threadNum /\ failed' = failed /\ Live' = Live /\ Adding' = Adding
<1>0. Same => ThreadNumExact' /\ threadNum' \in Nat
  BY DEF TypeOK, ThreadNumExact
<1>1. ASSUME NEW t \in Threads, Push(t)
      PROVE  Same
  <2>1. \A w \in Workers : pc'[w] = "Absent" <=> pc[w] = "Absent"
    BY <1>1 DEF Push, Signal, Waiting, TypeOK
  <2>2. \A u \in Threads : post'[u] = "Add" <=> post[u] = "Add"
    BY <1>1 DEF Push, TypeOK
  <2> QED
    BY <1>1, <2>1, <2>2 DEF Live, Adding, Push
<1>2. ASSUME NEW t \in Threads, TestMax(t) \/ ReadSize(t) \/ Compare(t)
      PROVE  Same
  <2>1. \A u \in Threads : post'[u] = "Add" <=> post[u] = "Add"
    BY <1>2 DEF TestMax, ReadSize, Compare, TypeOK
  <2> QED
    BY <1>2, <2>1 DEF Live, Adding, TestMax, ReadSize, Compare, workerVars
<1>3. ASSUME NEW t \in Threads, Grow(t)
      PROVE  ThreadNumExact' /\ threadNum' \in Nat
  <2>1. t \notin Adding /\ Adding' = Adding \union {t} /\ Live' = Live
    BY <1>3 DEF Grow, TypeOK, Adding, Live, workerVars
  <2>2. Cardinality(Adding') = Cardinality(Adding) + 1
    BY <2>1, OneMore
  <2> QED
    BY <1>3, <2>1, <2>2, PoolAssumption DEF Grow, ThreadNumExact, TypeOK
<1>4. ASSUME NEW t \in Threads, AddThread(t)
      PROVE  ThreadNumExact' /\ threadNum' \in Nat
  <2>1. t \in Adding /\ Adding' = Adding \ {t}
    BY <1>4 DEF AddThread, Adding, TypeOK
  <2>2. Cardinality(Adding') = Cardinality(Adding) - 1 /\ Cardinality(Adding') \in Nat
    BY <2>1, OneLess
  <2>3. /\ Cardinality(Live') + failed' = Cardinality(Live) + failed + 1
        /\ Cardinality(Live') \in Nat /\ failed' \in Nat
    <3>1. CASE Start
      <4>1. PICK w \in Workers \ Live : pc' = [pc EXCEPT ![w] = "Enter"]
        BY <3>1 DEF Start
      <4>2. w \notin Live /\ Live' = Live \union {w}
        BY <4>1 DEF Live, TypeOK
      <4>3. Cardinality(Live') = Cardinality(Live) + 1
        BY <4>2, OneMore
      <4> QED
        BY <3>1, <4>3, PoolAssumption DEF Start, TypeOK
    <3>2. CASE StartFails
      BY <3>2, PoolAssumption DEF StartFails, Live, TypeOK, workerVars
    <3> QED
      BY <1>4, <3>1, <3>2 DEF AddThread
  <2> QED
    <3>1. threadNum' = threadNum /\ threadNum \in Nat /\ failed \in Nat
      BY <1>4, PoolAssumption DEF AddThread, TypeOK
    <3> QED
      BY <2>2, <2>3, <3>1 DEF ThreadNumExact
<1>5. ASSUME NEW w \in Workers,
             Enter(w) \/ Poll(w) \/ TimeOut(w) \/ Woken(w) \/ Finish(w) \/ WakeSpuriously(w)
      PROVE  Same
  <2>1. \A v \in Workers : pc'[v] = "Absent" <=> pc[v] = "Absent"
    BY <1>5 DEF Enter, Poll, Take, TimeOut, Woken, Finish, WakeSpuriously, TypeOK
  <2> QED
    BY <1>5, <2>1 DEF Live, Adding, Enter, Poll, TimeOut, Woken, Finish, WakeSpuriously,
                      postVars
<1>6. ASSUME NEW w \in Workers, Leave(w)
      PROVE  ThreadNumExact' /\ threadNum' \in Nat
  <2>1. w \in Live /\ Live' = Live \ {w} /\ Adding' = Adding
    BY <1>6 DEF Leave, Live, Adding, TypeOK, postVars
  <2>2. Cardinality(Live') = Cardinality(Live) - 1 /\ Cardinality(Live) >= 1
    BY <2>1, OneLess
  <2> QED
    BY <1>6, <2>1, <2>2 DEF Leave, AfterLeave, ThreadNumExact, TypeOK
<1>7. CASE UNCHANGED vars
  BY <1>7, <1>0 DEF vars, workerVars, postVars, Live, Adding
<1> HIDE DEF Same
<1> QED
  BY <1>0, <1>1, <1>2, <1>3, <1>4, <1>5, <1>6, <1>7 DEF Next, PostStep, WorkerStep
-----------------------------------------------------------------------------
(* Nobody sleeps beside a task *)

\* A step that wakes nobody and queues nothing, or less than before with the same
\* workers woken, keeps WakeInv if nobody begins to wait.
LEMMA WakeKept ==
  ASSUME TypeOK, WakeInv,
         queued' \in Nat, queued' <= queued,
         Waiting' \subseteq Waiting,
         WokenWorkers \subseteq WokenWorkers', IsFiniteSet(WokenWorkers')
  PROVE  WakeInv'
<1>1. Cardinality(WokenWorkers) <= Cardinality(WokenWorkers')
  BY FS_Subset
<1>2. queued \in Nat
  BY DEF TypeOK
<1>3. Cardinality(WokenWorkers) \in Nat /\ Cardinality(WokenWorkers') \in Nat
  BY CountedSetsFinite, FS_CardinalityType
<1> QED
  BY <1>1, <1>2, <1>3 DEF WakeInv

LEMMA WakeStep ==
  ASSUME TypeOK, TypeOK', WakeInv, [Next]_vars
  PROVE  WakeInv'
<1> USE CountedSetsFinite
<1>0. queued \in Nat /\ queued' \in Nat
  BY DEF TypeOK
<1>f. IsFiniteSet(WokenWorkers')
  <2>1. WokenWorkers' \subseteq Workers
    BY DEF WokenWorkers
  <2> QED
    BY <2>1, PoolAssumption, FS_Subset
<1>c. Cardinality(WokenWorkers') \in Nat
  BY <1>f, FS_CardinalityType
<1>1. ASSUME NEW t \in Threads, Push(t)
      PROVE  WakeInv'
  <2>1. CASE Waiting = {}
    BY <1>1, <2>1 DEF Push, Signal, Waiting, WakeInv
  <2>2. CASE Waiting # {}
    <3>1. PICK w \in Waiting : pc' = [pc EXCEPT ![w] = "Woken"]
      BY <1>1, <2>2 DEF Push, Signal
    <3>2. w \notin WokenWorkers /\ WokenWorkers' = WokenWorkers \union {w}
      BY <3>1 DEF Waiting, WokenWorkers, TypeOK
    <3>3. Cardinality(WokenWorkers') = Cardinality(WokenWorkers) + 1
      BY <3>2, OneMore
    <3>4. queued' = queued + 1
      BY <1>1 DEF Push
    <3> QED
      BY <1>0, <2>2, <3>3, <3>4 DEF WakeInv
  <2> QED
    BY <2>1, <2>2
<1>2. ASSUME NEW t \in Threads, TestMax(t) \/ ReadSize(t) \/ Compare(t) \/ Grow(t)
      PROVE  WakeInv'
  BY <1>2 DEF TestMax, ReadSize, Compare, Grow, workerVars, WakeInv, Waiting, WokenWorkers
<1>3. ASSUME NEW t \in Threads, AddThread(t)
      PROVE  WakeInv'
  <2>1. pc' = pc \/ \E w \in Workers \ Live : pc' = [pc EXCEPT ![w] = "Enter"]
    BY <1>3 DEF AddThread, Start, StartFails, workerVars
  <2>2. WokenWorkers' = WokenWorkers /\ Waiting' = Waiting
    BY <2>1 DEF Live, Waiting, WokenWorkers, TypeOK
  <2> QED
    BY <1>3, <2>2 DEF AddThread, WakeInv
<1>4. ASSUME NEW w \in Workers, Enter(w) \/ Leave(w) \/ Finish(w)
      PROVE  WakeInv'
  <2>1. WokenWorkers' = WokenWorkers /\ Waiting' = Waiting
    BY <1>4 DEF Enter, Leave, Finish, Waiting, WokenWorkers, TypeOK
  <2> QED
    BY <1>4, <2>1 DEF Enter, Leave, Finish, WakeInv
<1>5. ASSUME NEW w \in Workers, TimeOut(w) \/ WakeSpuriously(w)
      PROVE  WakeInv'
  <2>1. WokenWorkers \subseteq WokenWorkers' /\ Waiting' \subseteq Waiting
    BY <1>5 DEF TimeOut, WakeSpuriously, Waiting, WokenWorkers, TypeOK
  <2>2. queued' <= queued
    BY <1>5, <1>0 DEF TimeOut, WakeSpuriously
  <2> QED
    BY <1>0, <1>f, <2>1, <2>2, WakeKept
<1>6. ASSUME NEW w \in Workers, Poll(w)
      PROVE  WakeInv'
  <2>1. CASE Take(w)
    <3>1. WokenWorkers' = WokenWorkers /\ Waiting' \subseteq Waiting
      BY <1>6, <2>1 DEF Poll, Take, Waiting, WokenWorkers, TypeOK
    <3>2. queued' <= queued
      BY <1>0, <2>1 DEF Take
    <3> QED
      BY <1>0, <1>f, <3>1, <3>2, WakeKept
  <2>2. CASE queued = 0 /\ UNCHANGED queued
    BY <1>c, <2>2 DEF WakeInv
  <2> QED
    BY <1>6, <2>1, <2>2 DEF Poll
<1>7. ASSUME NEW w \in Workers, Woken(w)
      PROVE  WakeInv'
  <2>1. CASE Take(w)
    <3>1. w \in WokenWorkers /\ WokenWorkers' = WokenWorkers \ {w} /\ Waiting' = Waiting
      BY <1>7, <2>1 DEF Woken, Take, Waiting, WokenWorkers, TypeOK
    <3>2. Cardinality(WokenWorkers') = Cardinality(WokenWorkers) - 1
      BY <3>1, OneLess
    <3>3. queued' = queued - 1
      BY <2>1 DEF Take
    <3> QED
      BY <1>0, <1>c, <3>1, <3>2, <3>3 DEF WakeInv
  <2>2. CASE queued = 0 /\ UNCHANGED queued
    BY <1>c, <2>2 DEF WakeInv
  <2> QED
    BY <1>7, <2>1, <2>2 DEF Woken
<1>8. CASE UNCHANGED vars
  BY <1>8 DEF vars, workerVars, WakeInv, Waiting, WokenWorkers
<1> QED
  BY <1>1, <1>2, <1>3, <1>4, <1>5, <1>6, <1>7, <1>8 DEF Next, PostStep, WorkerStep

-----------------------------------------------------------------------------
(* Type correctness *)

\* All of TypeOK but the number, which CountStep gives.
LEMMA TypeStep ==
  ASSUME TypeOK, threadNum' \in Nat, [Next]_vars
  PROVE  TypeOK'
<1> USE PoolAssumption DEF TypeOK
<1>1. ASSUME NEW t \in Threads, Push(t)
      PROVE  TypeOK'
  <2>1. posts' \in 0 .. MaxPosts /\ queued' \in 0 .. posts'
    BY <1>1 DEF Push
  <2>2. pc' \in [Workers -> {"Absent", "Enter", "Leave", "Poll", "Waiting", "Woken",
                             "Running"}]
    BY <1>1 DEF Push, Signal, Waiting
  <2>3. size' \in [Threads -> 0 .. posts']
    BY <1>1 DEF Push
  <2> QED
    BY <1>1, <2>1, <2>2, <2>3 DEF Push
<1>2. ASSUME NEW t \in Threads, TestMax(t) \/ ReadSize(t) \/ Compare(t) \/ Grow(t)
      PROVE  TypeOK'
  BY <1>2 DEF TestMax, ReadSize, Compare, Grow, workerVars
<1>3. ASSUME NEW t \in Threads, AddThread(t)
      PROVE  TypeOK'
  <2>1. post' \in [Threads -> {"None", "TestMax", "Size", "Compare", "Grow", "Add"}]
    BY <1>3 DEF AddThread
  <2>2. CASE Start
    BY <1>3, <2>1, <2>2 DEF AddThread, Start
  <2>3. CASE StartFails
    BY <1>3, <2>1, <2>3 DEF AddThread, StartFails, workerVars
  <2> QED
    BY <1>3, <2>2, <2>3 DEF AddThread
<1>4. ASSUME NEW w \in Workers, Take(w), posts' = posts
      PROVE  queued' \in 0 .. posts'
  BY <1>4 DEF Take, HasTask
<1>5. ASSUME NEW w \in Workers, Enter(w)
      PROVE  TypeOK'
  <2>1. MayTimeOut \in BOOLEAN
    BY DEF MayTimeOut
  <2> QED
    BY <1>5, <2>1 DEF Enter, postVars
<1>6. ASSUME NEW w \in Workers, Leave(w) \/ TimeOut(w) \/ Finish(w) \/ WakeSpuriously(w)
      PROVE  TypeOK'
  BY <1>6 DEF Leave, TimeOut, Finish, WakeSpuriously, postVars
<1>7. ASSUME NEW w \in Workers, Poll(w) \/ Woken(w)
      PROVE  TypeOK'
  <2>1. posts' = posts
    BY <1>7 DEF Poll, Woken, postVars
  <2>2. queued' \in 0 .. posts'
    BY <1>4, <1>7, <2>1 DEF Poll, Woken
  <2> QED
    BY <1>7, <2>1, <2>2 DEF Poll, Woken, Take, postVars
<1>8. CASE UNCHANGED vars
  BY <1>8 DEF vars, workerVars, postVars
<1> QED
  BY <1>1, <1>2, <1>3, <1>5, <1>6, <1>7, <1>8 DEF Next, PostStep, WorkerStep

-----------------------------------------------------------------------------
(* The pool is bounded *)

\* Threads that have passed the test of maxThreads_ and not yet counted a thread.
Passed == {t \in Threads : post[t] \in {"Size", "Compare", "Grow"}}

Bound == 2 * (MaxThreads - 1) + Cardinality(Posters)

\* A worker posts from inside a task, and is there until the task has returned.
PostersPresent == \A w \in Workers : post[w] # "None" => pc[w] = "Running"

\* Each thread that has passed may add one to threadNum_, whatever the others do.
BoundInv == PostersPresent /\ threadNum + Cardinality(Passed) <= Bound

\* A thread inside a task stays there while it posts.
LEMMA PresentStep ==
  ASSUME TypeOK, PostersPresent, [Next]_vars
  PROVE  PostersPresent'
<1> USE DEF PostersPresent, TypeOK
<1>0. Workers \subseteq Threads
  BY DEF Threads
<1>1. ASSUME NEW t \in Threads, Push(t)
      PROVE  PostersPresent'
  <2>1. \A w \in Workers : pc[w] = "Running" => pc'[w] = "Running"
    BY <1>1 DEF Push, Signal, Waiting
  <2>2. t \in Workers => pc[t] = "Running"
    BY <1>1, PoolAssumption DEF Push, MayPost
  <2> QED
    BY <1>0, <1>1, <2>1, <2>2 DEF Push
<1>2. ASSUME NEW t \in Threads, TestMax(t) \/ ReadSize(t) \/ Compare(t) \/ Grow(t)
      PROVE  PostersPresent'
  BY <1>0, <1>2 DEF TestMax, ReadSize, Compare, Grow, workerVars
<1>3. ASSUME NEW t \in Threads, AddThread(t)
      PROVE  PostersPresent'
  <2>1. \A w \in Workers : pc[w] = "Running" => pc'[w] = "Running"
    BY <1>3 DEF AddThread, Start, StartFails, workerVars, Live
  <2> QED
    BY <1>0, <1>3, <2>1 DEF AddThread
<1>4. ASSUME NEW w \in Workers, WorkerStep(w) \/ WakeSpuriously(w)
      PROVE  PostersPresent'
  BY <1>0, <1>4 DEF WorkerStep, Enter, Leave, Poll, Take, TimeOut, Woken, Finish,
                    WakeSpuriously, postVars
<1>5. CASE UNCHANGED vars
  BY <1>5 DEF vars, workerVars, postVars
<1> QED
  BY <1>1, <1>2, <1>3, <1>4, <1>5 DEF Next, PostStep

\* Threads that post are workers, which threadNum_ counts, or come from outside.
LEMMA FewHavePassed ==
  ASSUME TypeOK, ThreadNumExact, NEW S \in SUBSET (Live \union Posters)
  PROVE  Cardinality(S) <= threadNum + Cardinality(Posters)
<1> USE CountedSetsFinite
<1>2. /\ IsFiniteSet(Live \union Posters)
      /\ Cardinality(Live \union Posters) <= Cardinality(Live) + Cardinality(Posters)
  <2>1. Live \intersect Posters = {}
    BY PoolAssumption DEF Live
  <2>2. Cardinality(Live \intersect Posters) = 0
    BY <2>1, FS_EmptySet
  <2>3. Cardinality(Live) \in Nat /\ Cardinality(Posters) \in Nat
    BY PoolAssumption, FS_CardinalityType
  <2>4. Cardinality(Live \union Posters)
          = Cardinality(Live) + Cardinality(Posters) - Cardinality(Live \intersect Posters)
    BY PoolAssumption, FS_Union
  <2> QED
    BY <2>2, <2>3, <2>4, PoolAssumption, FS_Union
<1>3. Cardinality(S) <= Cardinality(Live \union Posters)
  BY <1>2, FS_Subset
<1>4. /\ Cardinality(S) \in Nat /\ Cardinality(Live \union Posters) \in Nat
      /\ Cardinality(Posters) \in Nat
  BY <1>2, PoolAssumption, FS_Subset, FS_CardinalityType
<1> QED
  BY <1>2, <1>3, <1>4 DEF ThreadNumExact, TypeOK

\* The sum does not grow but by a passed test, and not beyond the bound by that.
LEMMA BoundStep ==
  ASSUME TypeOK, TypeOK', ThreadNumExact, BoundInv, [Next]_vars
  PROVE  BoundInv'
<1>0. /\ Cardinality(Passed) \in Nat /\ Cardinality(Passed') \in Nat
      /\ IsFiniteSet(Passed) /\ IsFiniteSet(Passed')
      /\ Bound \in Nat /\ Cardinality(Posters) \in Nat
      /\ threadNum \in Nat /\ threadNum' \in Nat
  <2>1. IsFiniteSet(Threads)
    BY PoolAssumption, FS_Union DEF Threads
  <2>2. Passed \subseteq Threads /\ Passed' \subseteq Threads
    BY DEF Passed
  <2>3. IsFiniteSet(Passed) /\ IsFiniteSet(Passed')
    BY <2>1, <2>2, FS_Subset
  <2>4. Cardinality(Posters) \in Nat
    BY PoolAssumption, FS_CardinalityType
  <2>5. Bound \in Nat
    BY <2>4, PoolAssumption DEF Bound
  <2> QED
    BY <2>3, <2>4, <2>5, FS_CardinalityType DEF TypeOK
<1>1. PostersPresent'
  BY PresentStep DEF BoundInv
<1> SUFFICES threadNum' + Cardinality(Passed') <= Bound
  BY <1>1 DEF BoundInv, Bound
<1>2. ASSUME Passed' \subseteq Passed, threadNum' <= threadNum
      PROVE  threadNum' + Cardinality(Passed') <= Bound
  <2>1. Cardinality(Passed') <= Cardinality(Passed)
    BY <1>0, <1>2, FS_Subset
  <2> QED
    BY <1>0, <1>2, <2>1 DEF BoundInv
<1>3. ASSUME NEW t \in Threads, TestMax(t)
      PROVE  threadNum' + Cardinality(Passed') <= Bound
  <2>1. CASE BelowMax
    <3>1. Passed' \subseteq Live \union Posters
      BY <1>3 DEF TestMax, Passed, Live, BoundInv, PostersPresent, Threads, TypeOK
    <3>2. Cardinality(Passed') <= threadNum + Cardinality(Posters)
      BY <3>1, FewHavePassed
    <3>3. threadNum' = threadNum /\ threadNum <= MaxThreads - 1
      BY <1>0, <1>3, <2>1, PoolAssumption DEF TestMax, BelowMax
    <3> QED
      BY <1>0, <3>2, <3>3, PoolAssumption DEF Bound
  <2>2. CASE ~BelowMax
    <3>1. Passed' \subseteq Passed /\ threadNum' = threadNum
      BY <1>3, <2>2 DEF TestMax, Passed, TypeOK
    <3> QED
      BY <1>0, <1>2, <3>1
  <2> QED
    BY <2>1, <2>2
<1>4. ASSUME NEW t \in Threads, Grow(t)
      PROVE  threadNum' + Cardinality(Passed') <= Bound
  <2>1. t \in Passed /\ Passed' = Passed \ {t}
    BY <1>4 DEF Grow, Passed, TypeOK
  <2>2. Cardinality(Passed') = Cardinality(Passed) - 1
    BY <1>0, <2>1, OneLess
  <2>3. threadNum' = threadNum + 1
    BY <1>4 DEF Grow
  <2> QED
    BY <1>0, <2>2, <2>3 DEF BoundInv
<1>5. ASSUME NEW t \in Threads, Push(t) \/ ReadSize(t) \/ Compare(t) \/ AddThread(t)
      PROVE  threadNum' + Cardinality(Passed') <= Bound
  <2>1. Passed' \subseteq Passed /\ threadNum' = threadNum
    BY <1>5 DEF Push, ReadSize, Compare, AddThread, Passed, TypeOK
  <2> QED
    BY <1>0, <1>2, <2>1
<1>6. ASSUME NEW w \in Workers, WorkerStep(w) \/ WakeSpuriously(w)
      PROVE  threadNum' + Cardinality(Passed') <= Bound
  <2>1. Passed' \subseteq Passed
    BY <1>6 DEF WorkerStep, Enter, Leave, Poll, TimeOut, Woken, Finish, WakeSpuriously,
                postVars, Passed
  <2>2. threadNum' <= threadNum
    BY <1>0, <1>6 DEF WorkerStep, Enter, Leave, AfterLeave, Poll, TimeOut, Woken, Finish,
                WakeSpuriously
  <2> QED
    BY <1>2, <2>1, <2>2
<1>7. CASE UNCHANGED vars
  <2>1. Passed' \subseteq Passed /\ threadNum' = threadNum
    BY <1>7 DEF vars, postVars, Passed
  <2> QED
    BY <1>0, <1>2, <2>1
<1> QED
  BY <1>3, <1>4, <1>5, <1>6, <1>7 DEF Next, PostStep

-----------------------------------------------------------------------------
(* The theorems *)

\* The inductive invariant: TypeOK says that threadNum_ is a number, which needs
\* that a worker that leaves was counted.
PoolInv == TypeOK /\ ThreadNumExact /\ WakeInv /\ BoundInv

LEMMA PoolInit == Init => PoolInv
<1> SUFFICES ASSUME Init PROVE PoolInv
  OBVIOUS
<1>1. TypeOK
  BY PoolAssumption DEF Init, TypeOK
<1>2. ThreadNumExact
  <2>1. PICK core \in SUBSET Workers :
          /\ Cardinality(core) + failed = CoreThreads
          /\ pc = [w \in Workers |-> IF w \in core THEN "Enter" ELSE "Absent"]
    BY DEF Init
  <2>2. Live = core /\ Adding = {}
    BY <2>1 DEF Live, Adding, Init
  <2> QED
    BY <2>1, <2>2, FS_EmptySet, CountedSetsFinite, PoolAssumption DEF ThreadNumExact, Init
<1>3. Waiting = {}
  BY DEF Init, Waiting
<1>4. BoundInv
  <2>1. Passed = {} /\ PostersPresent
    BY DEF Init, Passed, PostersPresent, Threads
  <2>2. Cardinality(Passed) = 0
    BY <2>1, FS_EmptySet
  <2>3. Cardinality(Posters) \in Nat \ {0}
    BY PoolAssumption, FS_CardinalityType, FS_EmptySet
  <2>4. CoreThreads <= Bound
    BY <2>3, PoolAssumption DEF Bound
  <2> QED
    BY <2>1, <2>2, <2>4, PoolAssumption DEF BoundInv, Init
<1> QED
  BY <1>1, <1>2, <1>3, <1>4 DEF PoolInv, WakeInv

LEMMA PoolInvariant == Spec => []PoolInv
<1>1. PoolInv /\ [Next]_vars => PoolInv'
  BY CountStep, TypeStep, WakeStep, BoundStep DEF PoolInv
<1> QED
  BY PoolInit, <1>1, PTL DEF Spec

\* Type correctness of the pool.
THEOREM PoolTypeCorrect == Spec => []TypeOK
BY PoolInvariant, PTL DEF PoolInv

\* threadNum_ is the number of workers, but for threads being added and threads that could
\* not be created, although posters and leaving workers change it without a common lock.
THEOREM ThreadsAreCounted == Spec => []ThreadNumExact
BY PoolInvariant, PTL DEF PoolInv

\* The workers are never all asleep beside a task: no signal of Push is lost to a
\* worker that was about to wait, nor spent on one that finds its task taken.
THEOREM NobodySleepsOnWork == Spec => []WorkIsSeen
<1>1. PoolInv => WorkIsSeen
  <2> SUFFICES ASSUME TypeOK, WakeInv, queued > 0, Live # {}, Live = Waiting
               PROVE  FALSE
    BY DEF PoolInv, WorkIsSeen
  <2>1. WokenWorkers = {}
    BY DEF WokenWorkers, Live, Waiting
  <2>2. Cardinality(WokenWorkers) = 0
    BY <2>1, FS_EmptySet
  <2> QED
    BY <2>2 DEF WakeInv, TypeOK
<1> QED
  BY PoolInvariant, <1>1, PTL

\* However late the test of maxThreads_ is acted upon, the pool is bounded: by twice
\* what the test allows, and one worker for each thread outside that posts.
THEOREM PoolStaysBounded == Spec => []PoolBounded
<1>1. PoolInv => PoolBounded
  <2> SUFFICES ASSUME PoolInv PROVE PoolBounded
    OBVIOUS
  <2>1. IsFiniteSet(Passed)
    <3>1. Passed \subseteq Threads /\ IsFiniteSet(Threads)
      BY PoolAssumption, FS_Union DEF Passed, Threads
    <3> QED
      BY <3>1, FS_Subset
  <2>2. Cardinality(Passed) \in Nat /\ Cardinality(Posters) \in Nat
    BY <2>1, PoolAssumption, FS_CardinalityType
  <2> QED
    BY <2>2, CountedSetsFinite, PoolAssumption
       DEF PoolInv, BoundInv, Bound, PoolBounded, ThreadNumExact, TypeOK
<1> QED
  BY PoolInvariant, <1>1, PTL
=============================================================================
