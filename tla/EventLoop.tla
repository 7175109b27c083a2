----------------------------- MODULE EventLoop -----------------------------
(***************************************************************************)
(* MessageLoop and EventMessageLoop (src/base): one loop thread that runs  *)
(* posted tasks and select() callbacks, and the threads that post to it.   *)
(* A post is two steps (push to incomingQueue_ under its mutex, then one   *)
(* byte into the wake pipe), a turn of RunLoop is one step per call it     *)
(* makes, so that posts fall between any two of them.                      *)
(***************************************************************************)
EXTENDS Naturals, Sequences, FiniteSets, Functions

CONSTANTS
  Posters,       \* threads other than the loop's own
  LoopThread,    \* the thread that executes RunLoop
  Kinds,         \* subset of {"task", "delay", "idle", "idleDelay"}: Post*Task
  Delays,        \* delays (ticks) passed to PostDelayTask, PostIdleDelayTask
  MaxPost,       \* bound: tasks posted per thread
  MaxNow,        \* bound: the clock stops here
  MaxIO,         \* bound: readiness events on the loop's other descriptors
  PipeCap        \* bytes the wake pipe holds; a write to a full pipe is dropped

ASSUME ConstantsAssumption ==
  /\ LoopThread \notin Posters
  /\ Kinds \subseteq {"task", "delay", "idle", "idleDelay"}
  /\ Delays \subseteq Nat
  /\ MaxPost \in Nat
  /\ MaxNow \in Nat
  /\ MaxIO \in Nat
  /\ PipeCap \in Nat \ {0}

Threads == Posters \union {LoopThread}

\* PendingTask: due = 0 is an invalid TimeTick, that is "not delayed".
Tasks == [by : Threads, n : 1 .. MaxPost, idle : BOOLEAN, due : 0 .. MaxNow]

IsDelay(t) == t.due > 0
Plain(t) == ~IsDelay(t) /\ ~t.idle

VARIABLES
  incomingQueue,   \* BlockingQueue shared by all threads
  workQueue,       \* the loop's private batch
  delayTaskQueue,  \* priority queue by due time; ties in any order
  idleTaskQueue,
  delayWorkTime,   \* local of RunLoop; 0 = invalid
  doWorkSucess,    \* local of RunLoop
  loopPc,          \* next call of RunLoop
  wakeBytes,       \* bytes in the wake pipe
  ioReady,         \* another descriptor is ready
  ioCount,
  scheduling,      \* posters between Push and ScheduleWork
  posted,          \* per thread, number of tasks posted
  ran,             \* tasks that have run
  now              \* TimeTick::Now(), starts at 1

loopVars == <<delayWorkTime, doWorkSucess, loopPc>>
ioVars == <<ioReady, ioCount>>
vars == <<incomingQueue, workQueue, delayTaskQueue, idleTaskQueue, loopVars,
          wakeBytes, ioVars, scheduling, posted, ran, now>>

Init ==
  /\ incomingQueue = <<>>
  /\ workQueue = <<>>
  /\ delayTaskQueue = {}
  /\ idleTaskQueue = <<>>
  /\ delayWorkTime = 0
  /\ doWorkSucess = FALSE
  /\ loopPc = "Inject"
  /\ wakeBytes = 0
  /\ ioReady = FALSE
  /\ ioCount = 0
  /\ scheduling = {}
  /\ posted = [p \in Threads |-> 0]
  /\ ran = {}
  /\ now = 1

-----------------------------------------------------------------------------
(* Posting *)

\* The PendingTask that the four Post*Task functions build. The clock is read
\* before the push; a late push is a smaller delay, and 0 is one of the delays.
NewTasks(p) ==
  {t \in Tasks :
     /\ t.by = p
     /\ t.n = posted[p] + 1
     /\ \/ /\ "task" \in Kinds
           /\ t.due = 0 /\ ~t.idle
        \/ /\ "delay" \in Kinds
           /\ ~t.idle
           /\ \E d \in Delays : t.due = now + d
        \/ /\ "idle" \in Kinds
           /\ t.due = 0 /\ t.idle
        \/ /\ "idleDelay" \in Kinds
           /\ t.idle
           /\ \E d \in Delays : t.due = now + d}

Push(p, t) ==
  /\ incomingQueue' = Append(incomingQueue, t)
  /\ posted' = [posted EXCEPT ![p] = @ + 1]

\* Mutant of AfterWakeWrite: a wake-up that writes nothing.
AfterWakeWriteMissing(bytes) == bytes

\* One non-blocking byte: dropped, with no error reported, when the pipe is full.
AfterWakeWrite(bytes) == IF bytes < PipeCap THEN bytes + 1 ELSE bytes

\* Post*Task on another thread: the push ...
PostTask(p) ==
  /\ p \notin scheduling
  /\ \E t \in NewTasks(p) : Push(p, t)
  /\ scheduling' = scheduling \union {p}
  /\ UNCHANGED <<workQueue, delayTaskQueue, idleTaskQueue, loopVars,
                 wakeBytes, ioVars, ran, now>>

\* ... and the wake-up.
ScheduleWork(p) ==
  /\ p \in scheduling
  /\ wakeBytes' = AfterWakeWrite(wakeBytes)
  /\ scheduling' = scheduling \ {p}
  /\ UNCHANGED <<incomingQueue, workQueue, delayTaskQueue, idleTaskQueue,
                 loopVars, ioVars, posted, ran, now>>

\* A task or an event handler runs on the loop thread and may post to its own
\* loop; no other step of the loop thread comes between push and wake-up.
\* bytes is what the pipe holds when the callback starts.
Callback(bytes) ==
  \/ /\ wakeBytes' = bytes
     /\ UNCHANGED <<incomingQueue, posted>>
  \/ /\ \E t \in NewTasks(LoopThread) : Push(LoopThread, t)
     /\ wakeBytes' = AfterWakeWrite(bytes)

-----------------------------------------------------------------------------
(* DoTask *)

\* Mutant of BatchDone: the swap is not guarded by workQueue_.empty().
BatchDoneIgnored == TRUE

BatchDone == workQueue = <<>>

\* InjectWorkQueue, and DoTask's test for nothing to do.
InjectWorkQueue ==
  /\ loopPc = "Inject"
  /\ delayWorkTime' = 0
  /\ IF BatchDone
     THEN /\ workQueue' = incomingQueue
          /\ incomingQueue' = workQueue
     ELSE UNCHANGED <<workQueue, incomingQueue>>
  /\ doWorkSucess' = FALSE
  /\ loopPc' = IF workQueue' = <<>> THEN "PollZero" ELSE "Work"
  /\ UNCHANGED <<delayTaskQueue, idleTaskQueue, wakeBytes, ioVars,
                 scheduling, posted, ran, now>>

\* Parking a task does not end DoTask: it goes on with the batch, then injects.
ContinueWork == loopPc' = IF workQueue' = <<>> THEN "Inject" ELSE "Work"

ParkDelayTask ==
  /\ loopPc = "Work"
  /\ workQueue # <<>>
  /\ IsDelay(Head(workQueue))
  /\ delayTaskQueue' = delayTaskQueue \union {Head(workQueue)}
  /\ workQueue' = Tail(workQueue)
  /\ ContinueWork
  /\ UNCHANGED <<incomingQueue, idleTaskQueue, delayWorkTime, doWorkSucess,
                 wakeBytes, ioVars, scheduling, posted, ran, now>>

ParkIdleTask ==
  /\ loopPc = "Work"
  /\ workQueue # <<>>
  /\ ~IsDelay(Head(workQueue))
  /\ Head(workQueue).idle
  /\ idleTaskQueue' = Append(idleTaskQueue, Head(workQueue))
  /\ workQueue' = Tail(workQueue)
  /\ ContinueWork
  /\ UNCHANGED <<incomingQueue, delayTaskQueue, delayWorkTime, doWorkSucess,
                 wakeBytes, ioVars, scheduling, posted, ran, now>>

\* One plain task is run and DoTask returns true.
RunWorkTask ==
  /\ loopPc = "Work"
  /\ workQueue # <<>>
  /\ Plain(Head(workQueue))
  /\ workQueue' = Tail(workQueue)
  /\ ran' = ran \union {Head(workQueue)}
  /\ Callback(wakeBytes)
  /\ doWorkSucess' = TRUE
  /\ loopPc' = "PollZero"
  /\ UNCHANGED <<delayTaskQueue, idleTaskQueue, delayWorkTime, ioVars,
                 scheduling, now>>

-----------------------------------------------------------------------------
(* select() *)

Ready == wakeBytes > 0 \/ ioReady

\* HandleWakeUpRead takes one byte if select reported the pipe readable.
AfterWakeRead == IF wakeBytes > 0 THEN wakeBytes - 1 ELSE 0

\* SelectPoller::PollTime with something ready: the wake pipe, another descriptor
\* whose handler consumes its event, or both, in the order of an unordered_map: a task
\* that the handler posts is followed or preceded by the reading of a byte.
DispatchReady ==
  /\ Ready
  /\ ioReady' = FALSE
  /\ \/ /\ ~ioReady
        /\ wakeBytes' = AfterWakeRead
        /\ UNCHANGED <<incomingQueue, posted>>
     \/ ioReady /\ Callback(AfterWakeRead)
     \/ /\ ioReady /\ wakeBytes > 0
        /\ \E t \in NewTasks(LoopThread) : Push(LoopThread, t)
        /\ wakeBytes' = AfterWakeWrite(wakeBytes) - 1
  /\ UNCHANGED <<workQueue, delayTaskQueue, idleTaskQueue, ioCount,
                 scheduling, ran, now>>

PollZero ==
  /\ loopPc = "PollZero"
  /\ loopPc' = "DoDelay"
  /\ UNCHANGED delayWorkTime
  /\ \/ DispatchReady /\ doWorkSucess' = TRUE
     \/ /\ ~Ready
        /\ UNCHANGED <<incomingQueue, workQueue, delayTaskQueue, idleTaskQueue,
                       doWorkSucess, wakeBytes, ioVars, scheduling, posted,
                       ran, now>>

\* The blocking select: without a timeout when delayWorkTime is invalid.
PollWakes ==
  /\ loopPc = "Poll"
  /\ loopPc' = "Inject"
  /\ UNCHANGED <<delayWorkTime, doWorkSucess>>
  /\ DispatchReady

PollTimesOut ==
  /\ loopPc = "Poll"
  /\ ~Ready
  /\ delayWorkTime > 0
  /\ now >= delayWorkTime
  /\ loopPc' = "Inject"
  /\ UNCHANGED <<incomingQueue, workQueue, delayTaskQueue, idleTaskQueue,
                 delayWorkTime, doWorkSucess, wakeBytes, ioVars, scheduling,
                 posted, ran, now>>

-----------------------------------------------------------------------------
(* DoDelayTask *)

\* Mutant of Earliest: the priority queue without the reversed comparison.
EarliestReversed(S) == {t \in S : \A u \in S : t.due >= u.due}

Earliest(S) == {t \in S : \A u \in S : t.due <= u.due}

\* nextTaskTime after a look at the top: its time, or what it was if there is none.
TopTimes(S, keep) == IF S = {} THEN {keep} ELSE {t.due : t \in Earliest(S)}

\* Mutant of AfterDelay: the first "continue" is missing.
AfterDelayFallsThrough(worked) == "DoIdle"

\* RunLoop's first "continue".
AfterDelay(worked) == IF worked THEN "Inject" ELSE "DoIdle"

DelayNotDue ==
  /\ loopPc = "DoDelay"
  /\ \A t \in delayTaskQueue : t.due > now
  /\ delayWorkTime' \in TopTimes(delayTaskQueue, delayWorkTime)
  /\ loopPc' = AfterDelay(doWorkSucess)
  /\ UNCHANGED <<incomingQueue, workQueue, delayTaskQueue, idleTaskQueue,
                 doWorkSucess, wakeBytes, ioVars, scheduling, posted, ran, now>>

\* Mutant of PopDelay: top() without pop().
PopDelayKeepsTop(t) ==
  /\ loopPc = "DoDelay"
  /\ t \in Earliest(delayTaskQueue)
  /\ t.due <= now
  /\ delayWorkTime' \in TopTimes(delayTaskQueue, delayWorkTime)
  /\ UNCHANGED delayTaskQueue

\* The top is due: popped, and run or (an idle delayed task) queued as idle.
PopDelay(t) ==
  /\ loopPc = "DoDelay"
  /\ t \in Earliest(delayTaskQueue)
  /\ t.due <= now
  /\ delayTaskQueue' = delayTaskQueue \ {t}
  /\ delayWorkTime' \in TopTimes(delayTaskQueue \ {t}, delayWorkTime)

RunDelayTask ==
  /\ \E t \in delayTaskQueue :
       /\ PopDelay(t)
       /\ ~t.idle
       /\ ran' = ran \union {t}
  /\ Callback(wakeBytes)
  /\ doWorkSucess' = TRUE
  /\ loopPc' = "Inject"
  /\ UNCHANGED <<workQueue, idleTaskQueue, ioVars, scheduling, now>>

IdleDelayTask ==
  /\ \E t \in delayTaskQueue :
       /\ PopDelay(t)
       /\ t.idle
       /\ idleTaskQueue' = Append(idleTaskQueue, t)
  /\ loopPc' = AfterDelay(doWorkSucess)
  /\ UNCHANGED <<incomingQueue, workQueue, doWorkSucess, wakeBytes, ioVars,
                 scheduling, posted, ran, now>>

-----------------------------------------------------------------------------
(* DoIdleTask and the choice of how to block *)

NoIdleTask ==
  /\ loopPc = "DoIdle"
  /\ idleTaskQueue = <<>>
  /\ loopPc' = "Wait"
  /\ UNCHANGED <<incomingQueue, workQueue, delayTaskQueue, idleTaskQueue,
                 delayWorkTime, doWorkSucess, wakeBytes, ioVars, scheduling,
                 posted, ran, now>>

\* The front idle task runs and stays at the front.
RunIdleTask ==
  /\ loopPc = "DoIdle"
  /\ idleTaskQueue # <<>>
  /\ ran' = ran \union {Head(idleTaskQueue)}
  /\ Callback(wakeBytes)
  /\ doWorkSucess' = TRUE
  /\ loopPc' = "Inject"
  /\ UNCHANGED <<workQueue, delayTaskQueue, idleTaskQueue, delayWorkTime,
                 ioVars, scheduling, now>>

\* A deadline that passed since DoDelayTask read the clock is not waited for.
ChooseWait ==
  /\ loopPc = "Wait"
  /\ loopPc' = IF delayWorkTime > 0 /\ delayWorkTime <= now THEN "Inject" ELSE "Poll"
  /\ UNCHANGED <<incomingQueue, workQueue, delayTaskQueue, idleTaskQueue,
                 delayWorkTime, doWorkSucess, wakeBytes, ioVars, scheduling,
                 posted, ran, now>>

-----------------------------------------------------------------------------
(* The environment: the clock, and peers of the loop's other descriptors *)

Tick ==
  /\ now < MaxNow
  /\ now' = now + 1
  /\ UNCHANGED <<incomingQueue, workQueue, delayTaskQueue, idleTaskQueue,
                 loopVars, wakeBytes, ioVars, scheduling, posted, ran>>

PeerReady ==
  /\ ~ioReady
  /\ ioCount < MaxIO
  /\ ioReady' = TRUE
  /\ ioCount' = ioCount + 1
  /\ UNCHANGED <<incomingQueue, workQueue, delayTaskQueue, idleTaskQueue,
                 loopVars, wakeBytes, scheduling, posted, ran, now>>

RunLoop ==
  \/ InjectWorkQueue
  \/ ParkDelayTask
  \/ ParkIdleTask
  \/ RunWorkTask
  \/ PollZero
  \/ PollWakes
  \/ PollTimesOut
  \/ DelayNotDue
  \/ RunDelayTask
  \/ IdleDelayTask
  \/ NoIdleTask
  \/ RunIdleTask
  \/ ChooseWait

Next ==
  \/ \E p \in Posters : PostTask(p) \/ ScheduleWork(p)
  \/ RunLoop
  \/ Tick
  \/ PeerReady

Spec == Init /\ [][Next]_vars

\* The loop thread and a thread inside Post*Task are scheduled, time passes.
\* Nobody has to post, and no peer has to send.
Fairness ==
  /\ WF_vars(RunLoop)
  /\ \A p \in Posters : WF_vars(ScheduleWork(p))
  /\ WF_vars(Tick)

FairSpec == Spec /\ Fairness

-----------------------------------------------------------------------------
(* Properties *)

\* Type invariant: every variable of MessageLoop, EventMessageLoop and RunLoop's
\* locals holds what its declaration allows, and the wake pipe never overflows.
TypeOK ==
  /\ incomingQueue \in Seq(Tasks)
  /\ workQueue \in Seq(Tasks)
  /\ delayTaskQueue \subseteq Tasks
  /\ idleTaskQueue \in Seq(Tasks)
  /\ delayWorkTime \in 0 .. MaxNow
  /\ doWorkSucess \in BOOLEAN
  /\ loopPc \in {"Inject", "Work", "PollZero", "DoDelay", "DoIdle", "Wait", "Poll"}
  /\ wakeBytes \in 0 .. PipeCap
  /\ ioReady \in BOOLEAN
  /\ ioCount \in 0 .. MaxIO
  /\ scheduling \subseteq Posters
  /\ posted \in [Threads -> 0 .. MaxPost]
  /\ ran \subseteq Tasks
  /\ now \in Nat

WakeupDue == wakeBytes > 0 \/ scheduling # {}

\* No lost wake-up: when RunLoop is blocked in select with a task waiting in
\* incomingQueue_, either a byte is in the wake pipe or some thread is between
\* its Push and its ScheduleWork. Although the queue is tested first and the pipe
\* drained later, and although writes to a full pipe are dropped.
NoLostWakeup ==
  loopPc = "Poll" /\ incomingQueue # <<>> => WakeupDue

\* The loop never sleeps past a timer: when it is blocked in select with delayed
\* tasks parked, select has a timeout, no later than the earliest of them; and it
\* never blocks with a batch half done or an idle task to run.
SleepsUntilTimer ==
  loopPc = "Poll" =>
    /\ workQueue = <<>>
    /\ idleTaskQueue = <<>>
    /\ delayTaskQueue # {} => delayWorkTime > 0
    /\ \A t \in delayTaskQueue : delayWorkTime <= t.due

\* Plain tasks of one thread run in the order that thread posted them: when one
\* runs, no earlier one of its thread is still queued (AddEvent, ModifyEvent and
\* RemoveEvent posted by one thread rely on it, as does TcpConnection::Send).
RunsInPostingOrder ==
  [][\A t \in ran' \ ran :
       Plain(t) =>
         \A u \in Range(workQueue') \union Range(incomingQueue') :
           ~(Plain(u) /\ u.by = t.by /\ u.n < t.n)]_vars

\* The loop implements what it promises its posters.
Service == INSTANCE TaskService WITH
             queue <- workQueue \o incomingQueue,
             parked <- delayTaskQueue \union Range(idleTaskQueue),
             done <- ran

\* Refinement: with RunLoop's polling, waking and parking hidden, what the posters
\* see is one queue in posting order, and tasks that leave it to run or to wait.
ImplementsService == Service!Spec

\* Every posted task, delayed or not, is eventually run, or has become an idle
\* task: no sleep of the loop leaves one behind for ever.
EveryTaskServed ==
  \A p \in Threads : \A n \in 1 .. MaxPost :
    (posted[p] >= n) ~>
      (\E t \in ran \union Range(idleTaskQueue) : t.by = p /\ t.n = n)
=============================================================================
