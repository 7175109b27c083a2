------------------------------ MODULE WorkPool ------------------------------
(***************************************************************************)
(* base::WorkPool with its BlockingQueue and Cond: threads that post tasks *)
(* (readers of files, and the workers themselves from inside a task), and  *)
(* a pool of workers that grows with the queue and shrinks when a worker   *)
(* waits in vain. threadNum_ is atomic, but tested and changed in separate *)
(* steps, and no lock spans two of them. Tasks are counted: which one a    *)
(* worker takes makes no difference to the pool.                           *)
(***************************************************************************)
EXTENDS Naturals, FiniteSets

CONSTANTS
  Posters,       \* threads outside the pool that post
  Workers,       \* names for worker threads, reused after a worker has left
  CoreThreads,   \* coreThreads_
  MaxThreads,    \* maxThreads_
  MaxPosts,      \* bound: tasks posted
  MaxFailures    \* bound: threads that cannot be created

ASSUME PoolAssumption ==
  /\ Posters \intersect Workers = {}
  /\ IsFiniteSet(Posters) /\ Posters # {}
  /\ IsFiniteSet(Workers)
  /\ CoreThreads \in Nat
  /\ MaxThreads \in Nat \ {0}
  /\ CoreThreads <= MaxThreads
  /\ CoreThreads <= Cardinality(Workers)
  /\ MaxPosts \in Nat
  /\ MaxFailures \in Nat

Threads == Posters \union Workers

VARIABLES
  queued,      \* tasks in taskQueue_
  threadNum,   \* threadNum_
  failed,      \* threads that were counted and could not be created
  pc,          \* per worker: its place in ThreadMain and WaitForTask
  timeout,     \* per worker: local of WaitForTask
  timed,       \* per worker: its timeoutEnable
  post,        \* per thread: its place in PostTask
  size,        \* per thread: what Size() returned
  posts        \* tasks posted so far

workerVars == <<pc, timeout, timed>>
postVars == <<post, size, posts>>
vars == <<queued, threadNum, failed, workerVars, postVars>>

Live == {w \in Workers : pc[w] # "Absent"}
Waiting == {w \in Workers : pc[w] = "Waiting"}

\* The constructor, which adds the core threads: some of them may fail.
Init ==
  /\ queued = 0
  /\ threadNum = CoreThreads
  /\ failed \in 0 .. MaxFailures
  /\ \E core \in SUBSET Workers :
       /\ Cardinality(core) + failed = CoreThreads
       /\ pc = [w \in Workers |-> IF w \in core THEN "Enter" ELSE "Absent"]
  /\ timeout = [w \in Workers |-> FALSE]
  /\ timed = [w \in Workers |-> FALSE]
  /\ post = [t \in Threads |-> "None"]
  /\ size = [t \in Threads |-> 0]
  /\ posts = 0

-----------------------------------------------------------------------------
(* PostTask *)

\* Mutant of Signal: nobody is woken.
SignalMissing == UNCHANGED pc

\* Cond::Signal: one waiter, if there is one, leaves the condition variable.
Signal ==
  IF Waiting = {} THEN UNCHANGED pc
  ELSE \E w \in Waiting : pc' = [pc EXCEPT ![w] = "Woken"]

MayPost(t) == t \in Posters \/ (t \in Workers /\ pc[t] = "Running")

\* BlockingQueue::Push, under the queue's mutex.
Push(t) ==
  /\ post[t] = "None"
  /\ MayPost(t)
  /\ posts < MaxPosts
  /\ posts' = posts + 1
  /\ queued' = queued + 1
  /\ Signal
  /\ post' = [post EXCEPT ![t] = "TestMax"]
  /\ UNCHANGED <<threadNum, failed, timeout, timed, size>>

\* Mutant of BelowMax: the limit is not tested.
BelowMaxAlways == TRUE

BelowMax == threadNum < MaxThreads

\* threadNum_ < maxThreads_ ...
TestMax(t) ==
  /\ post[t] = "TestMax"
  /\ post' = [post EXCEPT ![t] = IF BelowMax THEN "Size" ELSE "None"]
  /\ UNCHANGED <<queued, threadNum, failed, workerVars, size, posts>>

\* ... && taskQueue_.Size() (under the mutex) ...
ReadSize(t) ==
  /\ post[t] = "Size"
  /\ size' = [size EXCEPT ![t] = queued]
  /\ post' = [post EXCEPT ![t] = "Compare"]
  /\ UNCHANGED <<queued, threadNum, failed, workerVars, posts>>

Crowded(n) == n > threadNum * 2

\* ... > threadNum_ * 2. The size read is not used again.
Compare(t) ==
  /\ post[t] = "Compare"
  /\ post' = [post EXCEPT ![t] = IF Crowded(size[t]) THEN "Grow" ELSE "None"]
  /\ size' = [size EXCEPT ![t] = 0]
  /\ UNCHANGED <<queued, threadNum, failed, workerVars, posts>>

\* threadNum_++.
Grow(t) ==
  /\ post[t] = "Grow"
  /\ threadNum' = threadNum + 1
  /\ post' = [post EXCEPT ![t] = "Add"]
  /\ UNCHANGED <<queued, failed, workerVars, size, posts>>

\* Thread::Start, called by a new WorkerThread.
Start ==
  /\ \E w \in Workers \ Live :
       /\ pc' = [pc EXCEPT ![w] = "Enter"]
       /\ timeout' = [timeout EXCEPT ![w] = FALSE]
       /\ timed' = [timed EXCEPT ![w] = FALSE]
  /\ UNCHANGED failed

\* It returns false, which WorkerThread does not look at: the thread stays counted.
StartFails ==
  /\ failed < MaxFailures
  /\ failed' = failed + 1
  /\ UNCHANGED workerVars

\* AddThreads(1).
AddThread(t) ==
  /\ post[t] = "Add"
  /\ Start \/ StartFails
  /\ post' = [post EXCEPT ![t] = "None"]
  /\ UNCHANGED <<queued, threadNum, size, posts>>

-----------------------------------------------------------------------------
(* The workers *)

\* Mutant of MayTimeOut: only threads beyond the maximum leave.
MayTimeOutLate == threadNum > MaxThreads

MayTimeOut == threadNum > CoreThreads

\* One turn of WaitForTask's loop up to Poll: the number of threads is looked at,
\* and a worker that has waited in vain and finds too many of them leaves.
Enter(w) ==
  /\ pc[w] = "Enter"
  /\ timed' = [timed EXCEPT ![w] = MayTimeOut]
  /\ pc' = [pc EXCEPT ![w] = IF timeout[w] /\ MayTimeOut THEN "Leave" ELSE "Poll"]
  /\ UNCHANGED <<queued, threadNum, failed, timeout, postVars>>

\* Mutant of AfterLeave: the worker is not discounted.
AfterLeaveSame == threadNum

AfterLeave == threadNum - 1

\* threadNum_--, NULL is returned, ThreadMain ends.
Leave(w) ==
  /\ pc[w] = "Leave"
  /\ threadNum' = AfterLeave
  /\ pc' = [pc EXCEPT ![w] = "Absent"]
  /\ timeout' = [timeout EXCEPT ![w] = FALSE]
  /\ timed' = [timed EXCEPT ![w] = FALSE]
  /\ UNCHANGED <<queued, failed, postVars>>

HasTask == queued > 0

\* A worker holding the queue's mutex takes a task if there is one.
Take(w) ==
  /\ HasTask
  /\ queued' = queued - 1
  /\ pc' = [pc EXCEPT ![w] = "Running"]
  /\ UNCHANGED timeout

\* BlockingQueue::Poll: a task, or wait, which releases the mutex.
Poll(w) ==
  /\ pc[w] = "Poll"
  /\ \/ Take(w)
     \/ /\ queued = 0
        /\ pc' = [pc EXCEPT ![w] = "Waiting"]
        /\ UNCHANGED <<queued, timeout>>
  /\ UNCHANGED <<threadNum, failed, timed, postVars>>

TimeOut(w) ==
  /\ pc[w] = "Waiting"
  /\ timed[w]
  /\ pc' = [pc EXCEPT ![w] = "Woken"]
  /\ UNCHANGED <<queued, threadNum, failed, timeout, timed, postVars>>

\* SleepConditionVariableCS may return without a signal.
WakeSpuriously(w) ==
  /\ pc[w] = "Waiting"
  /\ pc' = [pc EXCEPT ![w] = "Woken"]
  /\ UNCHANGED <<queued, threadNum, failed, timeout, timed, postVars>>

\* The wait is over, for whatever reason, and the mutex held again. Poll waits once:
\* an empty queue is reported like a timeout, also when the worker was signalled and
\* another one has taken the task.
Woken(w) ==
  /\ pc[w] = "Woken"
  /\ \/ Take(w)
     \/ /\ queued = 0
        /\ pc' = [pc EXCEPT ![w] = "Enter"]
        /\ timeout' = [timeout EXCEPT ![w] = TRUE]
        /\ UNCHANGED queued
  /\ UNCHANGED <<threadNum, failed, timed, postVars>>

\* The task returns; what it posted has been posted.
Finish(w) ==
  /\ pc[w] = "Running"
  /\ post[w] = "None"
  /\ pc' = [pc EXCEPT ![w] = "Enter"]
  /\ timeout' = [timeout EXCEPT ![w] = FALSE]
  /\ UNCHANGED <<queued, threadNum, failed, timed, postVars>>

PostStep(t) == TestMax(t) \/ ReadSize(t) \/ Compare(t) \/ Grow(t) \/ AddThread(t)
WorkerStep(w) == Enter(w) \/ Leave(w) \/ Poll(w) \/ TimeOut(w) \/ Woken(w) \/ Finish(w)

Next ==
  \/ \E t \in Threads : Push(t) \/ PostStep(t)
  \/ \E w \in Workers : WorkerStep(w) \/ WakeSpuriously(w)

Spec == Init /\ [][Next]_vars

\* Every thread is scheduled and gets the mutex, tasks return, timed waits end.
FairSpec ==
  /\ Spec
  /\ \A t \in Threads : WF_vars(PostStep(t))
  /\ \A w \in Workers : WF_vars(WorkerStep(w))

-----------------------------------------------------------------------------
(* Properties *)

\* Type invariant.
TypeOK ==
  /\ queued \in 0 .. posts
  /\ threadNum \in Nat
  /\ failed \in 0 .. MaxFailures
  /\ pc \in [Workers -> {"Absent", "Enter", "Leave", "Poll", "Waiting", "Woken",
                         "Running"}]
  /\ timeout \in [Workers -> BOOLEAN]
  /\ timed \in [Workers -> BOOLEAN]
  /\ post \in [Threads -> {"None", "TestMax", "Size", "Compare", "Grow", "Add"}]
  /\ size \in [Threads -> 0 .. posts]
  /\ posts \in 0 .. MaxPosts

Adding == {t \in Threads : post[t] = "Add"}

\* threadNum_ is changed in other steps, by other threads, than the workers it
\* counts come and go: it is never wrong by more than the threads being added and
\* those that could not be created, which it counts for ever.
ThreadNumExact == threadNum = Cardinality(Live) + Cardinality(Adding) + failed

\* maxThreads_ is tested long before the thread is added, so it can be exceeded, by
\* every poster and by every task running that passed the test at the same time,
\* and by no more: the pool has at most this many workers.
PoolBounded == Cardinality(Live) <= 2 * (MaxThreads - 1) + Cardinality(Posters)

\* While there is work, some worker is on its way to it: the workers are never all
\* asleep beside a task, whichever of them a signal woke and whoever took the task
\* it was woken for.
WorkIsSeen == queued > 0 /\ Live # {} => Live # Waiting

\* A task waits for ever only if there is no worker: all of them have left (two may time
\* out together and each take the other for the one that stays, and one worker may take
\* a thread that was never created for it).
TasksServed == queued > 0 ~> queued = 0 \/ Live = {}

\* The pool is dynamic: when posting stops it shrinks to its core threads, or fewer if
\* some could not be created, and what is left waits without a timeout.
PoolShrinks == <>[](Cardinality(Live) <= CoreThreads)
=============================================================================
