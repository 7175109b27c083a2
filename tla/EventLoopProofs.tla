-------------------------- MODULE EventLoopProofs --------------------------
(***************************************************************************)
(* Proofs about EventLoop, for any number of posters, any bounds and any   *)
(* capacity of the wake pipe.                                              *)
(***************************************************************************)
EXTENDS EventLoop, SeqFacts

\* RunLoop's way from an empty queue to select: DoTask found nothing, and no
\* event or timer has turned up since.
Sleepy ==
  \/ loopPc \in {"DoIdle", "Wait", "Poll"}
  \/ loopPc \in {"PollZero", "DoDelay"} /\ ~doWorkSucess

\* The inductive strengthening of NoLostWakeup: the promise holds on the whole
\* way to select, and is void as soon as the loop has a reason to turn again.
WakeInv == Sleepy /\ incomingQueue # <<>> => WakeupDue

\* The inductive strengthening of SleepsUntilTimer.
TimerInv ==
  /\ Sleepy => workQueue = <<>>
  /\ loopPc \in {"Wait", "Poll"} => idleTaskQueue = <<>>
  /\ \A t \in delayTaskQueue : t.due > 0
  /\ loopPc \in {"DoIdle", "Wait", "Poll"} =>
       /\ delayTaskQueue # {} => delayWorkTime > 0
       /\ \A t \in delayTaskQueue : delayWorkTime <= t.due

-----------------------------------------------------------------------------
\* Writing the wake-up byte never overflows the pipe, and leaves a byte in it.
LEMMA WakeWriteFacts ==
  ASSUME NEW bytes \in 0 .. PipeCap
  PROVE  /\ AfterWakeWrite(bytes) \in 0 .. PipeCap
         /\ AfterWakeWrite(bytes) > 0
BY ConstantsAssumption DEF AfterWakeWrite

\* A push keeps the queue and the post counters in their types.
LEMMA PushType ==
  ASSUME TypeOK, NEW p \in Threads, NEW t \in NewTasks(p), Push(p, t)
  PROVE  /\ incomingQueue' \in Seq(Tasks)
         /\ posted' \in [Threads -> 0 .. MaxPost]
<1>1. t \in Tasks /\ t.n = posted[p] + 1
  BY DEF NewTasks
<1>2. posted[p] + 1 \in 0 .. MaxPost
  BY <1>1, ConstantsAssumption DEF Tasks
<1>3. incomingQueue' \in Seq(Tasks)
  BY <1>1 DEF Push, TypeOK
<1>4. posted \in [Threads -> 0 .. MaxPost]
  BY DEF TypeOK
<1>5. posted' \in [Threads -> 0 .. MaxPost]
  BY <1>2, <1>4 DEF Push
<1> QED
  BY <1>3, <1>5

\* A callback on the loop thread keeps the types of what it may change.
LEMMA CallbackType ==
  ASSUME TypeOK, NEW bytes \in 0 .. PipeCap, Callback(bytes)
  PROVE  /\ incomingQueue' \in Seq(Tasks)
         /\ wakeBytes' \in 0 .. PipeCap
         /\ posted' \in [Threads -> 0 .. MaxPost]
<1>1. CASE wakeBytes' = bytes /\ UNCHANGED <<incomingQueue, posted>>
  BY <1>1 DEF TypeOK
<1>2. CASE /\ \E t \in NewTasks(LoopThread) : Push(LoopThread, t)
           /\ wakeBytes' = AfterWakeWrite(bytes)
  <2>1. incomingQueue' \in Seq(Tasks) /\ posted' \in [Threads -> 0 .. MaxPost]
    BY <1>2, PushType DEF Threads
  <2> QED
    BY <1>2, <2>1, WakeWriteFacts
<1> QED
  BY <1>1, <1>2 DEF Callback

\* Whatever the order in which the pipe and another descriptor are handled, the handler's
\* part is that of a callback.
LEMMA HandlerCalls ==
  ASSUME TypeOK, DispatchReady
  PROVE  UNCHANGED <<incomingQueue, posted>> \/ \E bytes \in Int : Callback(bytes)
<1>1. CASE Callback(AfterWakeRead)
  <2>1. AfterWakeRead \in Int
    BY DEF AfterWakeRead, TypeOK
  <2> QED
    BY <1>1, <2>1
<1>2. CASE /\ wakeBytes > 0
           /\ \E t \in NewTasks(LoopThread) : Push(LoopThread, t)
           /\ wakeBytes' = AfterWakeWrite(wakeBytes) - 1
  <2>1. AfterWakeWrite(wakeBytes) - 1 = AfterWakeWrite(AfterWakeWrite(wakeBytes) - 2)
    BY <1>2, ConstantsAssumption DEF AfterWakeWrite, TypeOK
  <2>2. AfterWakeWrite(wakeBytes) - 2 \in Int
    BY ConstantsAssumption DEF AfterWakeWrite, TypeOK
  <2>3. Callback(AfterWakeWrite(wakeBytes) - 2)
    BY <1>2, <2>1 DEF Callback
  <2> QED
    BY <2>2, <2>3
<1> QED
  BY <1>1, <1>2 DEF DispatchReady

\* Type correctness: no interleaving of posts, turns of the loop and ticks takes
\* a queue, the clock fields or the pipe's byte count outside its type.
THEOREM TypeCorrect == Spec => []TypeOK
<1>1. Init => TypeOK
  <2> SUFFICES ASSUME Init PROVE TypeOK
    OBVIOUS
  <2>1. doWorkSucess \in BOOLEAN /\ ioReady \in BOOLEAN
    BY DEF Init
  <2>2. posted \in [Threads -> 0 .. MaxPost]
    BY ConstantsAssumption DEF Init
  <2> QED
    BY <2>1, <2>2, ConstantsAssumption DEF Init, TypeOK
<1>2. TypeOK /\ [Next]_vars => TypeOK'
  <2> SUFFICES ASSUME TypeOK, [Next]_vars PROVE TypeOK'
    OBVIOUS
  <2>1. ASSUME NEW p \in Posters, PostTask(p) PROVE TypeOK'
    <3>1. incomingQueue' \in Seq(Tasks) /\ posted' \in [Threads -> 0 .. MaxPost]
      BY <2>1, PushType DEF PostTask, Threads
    <3> QED
      BY <2>1, <3>1 DEF PostTask, TypeOK, loopVars, ioVars
  <2>2. ASSUME NEW p \in Posters, ScheduleWork(p) PROVE TypeOK'
    BY <2>2, WakeWriteFacts DEF ScheduleWork, TypeOK, loopVars, ioVars
  <2>3. CASE InjectWorkQueue
    <3>1. incomingQueue' \in Seq(Tasks) /\ workQueue' \in Seq(Tasks)
      BY <2>3 DEF InjectWorkQueue, BatchDone, TypeOK
    <3>2. loopPc' \in {"PollZero", "Work"} /\ doWorkSucess' = FALSE
      BY <2>3 DEF InjectWorkQueue, BatchDone
    <3>3. delayWorkTime' \in 0 .. MaxNow
      BY <2>3, ConstantsAssumption DEF InjectWorkQueue, BatchDone
    <3> QED
      BY <2>3, <3>1, <3>2, <3>3 DEF InjectWorkQueue, BatchDone, TypeOK, ioVars
  <2>4. CASE ParkDelayTask
    BY <2>4 DEF ParkDelayTask, ContinueWork, TypeOK, ioVars
  <2>5. CASE ParkIdleTask
    BY <2>5 DEF ParkIdleTask, ContinueWork, TypeOK, ioVars
  <2>6. CASE RunWorkTask
    BY <2>6, CallbackType DEF RunWorkTask, TypeOK, ioVars
  <2>7. ASSUME DispatchReady
        PROVE /\ incomingQueue' \in Seq(Tasks)
              /\ wakeBytes' \in 0 .. PipeCap
              /\ posted' \in [Threads -> 0 .. MaxPost]
              /\ ioReady' \in BOOLEAN
    <3>1. AfterWakeRead \in 0 .. PipeCap
      BY ConstantsAssumption DEF TypeOK, AfterWakeRead
    <3>2. CASE Callback(AfterWakeRead)
      BY <2>7, <3>1, <3>2, CallbackType DEF DispatchReady
    <3>4. CASE /\ wakeBytes > 0
               /\ \E t \in NewTasks(LoopThread) : Push(LoopThread, t)
               /\ wakeBytes' = AfterWakeWrite(wakeBytes) - 1
      <4>1. incomingQueue' \in Seq(Tasks) /\ posted' \in [Threads -> 0 .. MaxPost]
        BY <3>4, PushType DEF Threads
      <4>2. wakeBytes' \in 0 .. PipeCap
        BY <3>4, ConstantsAssumption DEF AfterWakeWrite, TypeOK
      <4> QED
        BY <2>7, <4>1, <4>2 DEF DispatchReady
    <3>3. CASE ~ioReady
      BY <2>7, <3>1, <3>3 DEF DispatchReady, TypeOK
    <3> QED
      BY <2>7, <3>2, <3>3, <3>4 DEF DispatchReady
  <2>8. CASE PollZero
    <3>1. CASE DispatchReady
      BY <2>7, <2>8, <3>1 DEF PollZero, DispatchReady, TypeOK
    <3>2. CASE ~DispatchReady
      BY <2>8, <3>2 DEF PollZero, TypeOK, ioVars
    <3> QED
      BY <3>1, <3>2
  <2>9. CASE PollWakes
    BY <2>7, <2>9 DEF PollWakes, DispatchReady, TypeOK
  <2>10. CASE PollTimesOut
    BY <2>10 DEF PollTimesOut, TypeOK, ioVars
  <2>11. ASSUME NEW S \in SUBSET Tasks, NEW d \in TopTimes(S, delayWorkTime)
         PROVE  d \in 0 .. MaxNow
    BY DEF TopTimes, Earliest, Tasks, TypeOK
  <2>12. CASE DelayNotDue
    BY <2>11, <2>12 DEF DelayNotDue, AfterDelay, TypeOK, ioVars
  <2>13. CASE RunDelayTask
    <3>1. PICK t \in delayTaskQueue : PopDelay(t) /\ ~t.idle /\ ran' = ran \union {t}
      BY <2>13 DEF RunDelayTask
    <3>2. delayWorkTime' \in 0 .. MaxNow
      BY <2>11, <3>1 DEF PopDelay, TypeOK
    <3> QED
      BY <2>13, <3>1, <3>2, CallbackType DEF RunDelayTask, PopDelay, TypeOK, ioVars
  <2>14. CASE IdleDelayTask
    <3>1. PICK t \in delayTaskQueue :
             PopDelay(t) /\ idleTaskQueue' = Append(idleTaskQueue, t)
      BY <2>14 DEF IdleDelayTask
    <3>2. delayWorkTime' \in 0 .. MaxNow
      BY <2>11, <3>1 DEF PopDelay, TypeOK
    <3> QED
      BY <2>14, <3>1, <3>2 DEF IdleDelayTask, PopDelay, AfterDelay, TypeOK, ioVars
  <2>15. CASE NoIdleTask
    BY <2>15 DEF NoIdleTask, TypeOK, ioVars
  <2>16. CASE RunIdleTask
    BY <2>16, CallbackType DEF RunIdleTask, TypeOK, ioVars
  <2>17. CASE ChooseWait
    BY <2>17 DEF ChooseWait, TypeOK, ioVars
  <2>18. CASE Tick
    BY <2>18 DEF Tick, TypeOK, loopVars, ioVars
  <2>19. CASE PeerReady
    BY <2>19, ConstantsAssumption DEF PeerReady, TypeOK, loopVars
  <2>20. CASE UNCHANGED vars
    BY <2>20 DEF vars, TypeOK, loopVars, ioVars
  <2> QED
    BY <2>1, <2>2, <2>3, <2>4, <2>5, <2>6, <2>8, <2>9, <2>10, <2>12, <2>13,
       <2>14, <2>15, <2>16, <2>17, <2>18, <2>19, <2>20 DEF Next, RunLoop
<1> QED
  BY <1>1, <1>2, PTL DEF Spec

-----------------------------------------------------------------------------
\* No lost wake-up, whatever the number of posters and the size of the pipe: a
\* thread that posts to a loop on its way into select finds it turning again or
\* leaves a byte that makes select return.
THEOREM NeverLosesWakeup == Spec => []NoLostWakeup
<1>1. Init => WakeInv
  BY DEF Init, WakeInv
<1>2. TypeOK /\ WakeInv /\ [Next]_vars => WakeInv'
  <2> SUFFICES ASSUME TypeOK, WakeInv, [Next]_vars PROVE WakeInv'
    OBVIOUS
  <2> USE DEF WakeInv, WakeupDue, Sleepy
  <2>1. ASSUME NEW p \in Posters, PostTask(p) PROVE WakeInv'
    BY <2>1 DEF PostTask
  <2>2. ASSUME NEW p \in Posters, ScheduleWork(p) PROVE WakeInv'
    <3>1. wakeBytes' > 0
      BY <2>2, WakeWriteFacts DEF ScheduleWork, TypeOK
    <3> QED
      BY <3>1
  <2>3. CASE InjectWorkQueue
    <3>1. CASE workQueue = <<>>
      BY <2>3, <3>1 DEF InjectWorkQueue, BatchDone
    <3>2. CASE workQueue # <<>>
      BY <2>3, <3>2 DEF InjectWorkQueue, BatchDone
    <3> QED
      BY <3>1, <3>2
  <2>4. CASE ParkDelayTask
    BY <2>4 DEF ParkDelayTask, ContinueWork
  <2>5. CASE ParkIdleTask
    BY <2>5 DEF ParkIdleTask, ContinueWork
  <2>6. CASE RunWorkTask
    BY <2>6 DEF RunWorkTask
  <2>7. CASE PollZero
    <3>1. CASE DispatchReady /\ doWorkSucess' = TRUE
      BY <2>7, <3>1 DEF PollZero
    <3>2. CASE UNCHANGED <<incomingQueue, doWorkSucess, wakeBytes, scheduling>>
      BY <2>7, <3>2 DEF PollZero
    <3> QED
      BY <2>7, <3>1, <3>2 DEF PollZero
  <2>8. CASE PollWakes
    BY <2>8 DEF PollWakes
  <2>9. CASE PollTimesOut
    BY <2>9 DEF PollTimesOut
  <2>10. CASE DelayNotDue
    BY <2>10 DEF DelayNotDue, AfterDelay
  <2>11. CASE RunDelayTask
    BY <2>11 DEF RunDelayTask
  <2>12. CASE IdleDelayTask
    BY <2>12 DEF IdleDelayTask, PopDelay, AfterDelay
  <2>13. CASE NoIdleTask
    BY <2>13 DEF NoIdleTask
  <2>14. CASE RunIdleTask
    BY <2>14 DEF RunIdleTask
  <2>15. CASE ChooseWait
    BY <2>15 DEF ChooseWait
  <2>16. CASE Tick
    BY <2>16 DEF Tick, loopVars
  <2>17. CASE PeerReady
    BY <2>17 DEF PeerReady, loopVars
  <2>18. CASE UNCHANGED vars
    BY <2>18 DEF vars, loopVars
  <2> QED
    BY <2>1, <2>2, <2>3, <2>4, <2>5, <2>6, <2>7, <2>8, <2>9, <2>10, <2>11,
       <2>12, <2>13, <2>14, <2>15, <2>16, <2>17, <2>18 DEF Next, RunLoop
<1>3. WakeInv => NoLostWakeup
  BY DEF WakeInv, NoLostWakeup, Sleepy
<1> QED
  BY <1>1, <1>2, <1>3, TypeCorrect, PTL DEF Spec

-----------------------------------------------------------------------------
\* The strengthening of SleepsUntilTimer is inductive.
LEMMA TimerInvariant == Spec => []TimerInv
<1>1. Init => TimerInv
  BY DEF Init, TimerInv, Sleepy
<1>2. TypeOK /\ TimerInv /\ [Next]_vars => TimerInv'
  <2> SUFFICES ASSUME TypeOK, TimerInv, [Next]_vars PROVE TimerInv'
    OBVIOUS
  <2> USE DEF TimerInv, Sleepy
  <2>1. ASSUME NEW p \in Posters, PostTask(p) PROVE TimerInv'
    BY <2>1 DEF PostTask, loopVars
  <2>2. ASSUME NEW p \in Posters, ScheduleWork(p) PROVE TimerInv'
    BY <2>2 DEF ScheduleWork, loopVars
  <2>3. CASE InjectWorkQueue
    <3>1. workQueue' = <<>> \/ loopPc' = "Work"
      BY <2>3 DEF InjectWorkQueue, BatchDone
    <3>2. loopPc' \in {"PollZero", "Work"}
      BY <2>3 DEF InjectWorkQueue, BatchDone
    <3> QED
      BY <2>3, <3>1, <3>2 DEF InjectWorkQueue, BatchDone
  <2>4. CASE ParkDelayTask
    <3>1. loopPc' \in {"Inject", "Work"} /\ \A t \in delayTaskQueue' : t.due > 0
      BY <2>4 DEF ParkDelayTask, ContinueWork, IsDelay
    <3> QED
      BY <3>1
  <2>5. CASE ParkIdleTask
    BY <2>5 DEF ParkIdleTask, ContinueWork
  <2>6. CASE RunWorkTask
    BY <2>6 DEF RunWorkTask
  <2>7. CASE PollZero
    <3>1. CASE DispatchReady /\ doWorkSucess' = TRUE
      BY <2>7, <3>1 DEF PollZero, DispatchReady
    <3>2. CASE UNCHANGED <<workQueue, delayTaskQueue, doWorkSucess>>
      BY <2>7, <3>2 DEF PollZero
    <3> QED
      BY <2>7, <3>1, <3>2 DEF PollZero
  <2>8. CASE PollWakes
    BY <2>8 DEF PollWakes, DispatchReady
  <2>9. CASE PollTimesOut
    BY <2>9 DEF PollTimesOut
  <2>10. ASSUME NEW S \in SUBSET Tasks, NEW d \in TopTimes(S, delayWorkTime),
                \A t \in S : t.due > 0
         PROVE  (S # {} => d > 0) /\ \A t \in S : d <= t.due
    BY <2>10 DEF TopTimes, Earliest
  <2>11. CASE DelayNotDue
    <3>1. /\ delayTaskQueue' # {} => delayWorkTime' > 0
          /\ \A t \in delayTaskQueue' : delayWorkTime' <= t.due
      BY <2>10, <2>11 DEF DelayNotDue, TypeOK
    <3> QED
      BY <2>11, <3>1 DEF DelayNotDue, AfterDelay
  <2>12. CASE RunDelayTask
    BY <2>12 DEF RunDelayTask, PopDelay
  <2>13. CASE IdleDelayTask
    <3>1. PICK t \in delayTaskQueue : PopDelay(t)
      BY <2>13 DEF IdleDelayTask
    <3>2. /\ delayTaskQueue' # {} => delayWorkTime' > 0
          /\ \A u \in delayTaskQueue' : delayWorkTime' <= u.due
      BY <2>10, <3>1 DEF PopDelay, TypeOK
    <3> QED
      BY <2>13, <3>1, <3>2 DEF IdleDelayTask, PopDelay, AfterDelay
  <2>14. CASE NoIdleTask
    BY <2>14 DEF NoIdleTask
  <2>15. CASE RunIdleTask
    BY <2>15 DEF RunIdleTask
  <2>16. CASE ChooseWait
    BY <2>16 DEF ChooseWait
  <2>17. CASE Tick
    BY <2>17 DEF Tick, loopVars
  <2>18. CASE PeerReady
    BY <2>18 DEF PeerReady, loopVars
  <2>19. CASE UNCHANGED vars
    BY <2>19 DEF vars, loopVars
  <2> QED
    BY <2>1, <2>2, <2>3, <2>4, <2>5, <2>6, <2>7, <2>8, <2>9, <2>11, <2>12,
       <2>13, <2>14, <2>15, <2>16, <2>17, <2>18, <2>19 DEF Next, RunLoop
<1> QED
  BY <1>1, <1>2, TypeCorrect, PTL DEF Spec

\* The loop never blocks on a batch or an idle task, nor past a timer.
THEOREM NeverOversleeps == Spec => []SleepsUntilTimer
<1>1. TimerInv => SleepsUntilTimer
  BY DEF TimerInv, SleepsUntilTimer, Sleepy
<1> QED
  BY TimerInvariant, <1>1, PTL

-----------------------------------------------------------------------------
(* Refinement of TaskService *)

\* Only idle tasks are in the idle queue, so that a delayed task that runs has
\* left the park for good.
IdleInv == \A t \in Range(idleTaskQueue) : t.idle

\* A callback leaves the queue behind any batch w alone, or appends one task.
LEMMA CallbackPosts ==
  ASSUME TypeOK, NEW bytes, Callback(bytes), NEW w \in Seq(Tasks)
  PROVE  \/ w \o incomingQueue' = w \o incomingQueue
         \/ \E u \in Tasks : w \o incomingQueue' = Append(w \o incomingQueue, u)
<1>1. CASE UNCHANGED incomingQueue
  BY <1>1
<1>2. CASE \E t \in NewTasks(LoopThread) : Push(LoopThread, t)
  <2>1. PICK t \in NewTasks(LoopThread) : Push(LoopThread, t)
    BY <1>2
  <2>2. t \in Tasks /\ incomingQueue' = Append(incomingQueue, t)
    BY <2>1 DEF NewTasks, Push
  <2>3. w \o Append(incomingQueue, t) = Append(w \o incomingQueue, t)
    BY <2>2, ConcatAppendsToSecond DEF TypeOK
  <2> QED
    BY <2>2, <2>3
<1> QED
  BY <1>1, <1>2 DEF Callback

\* Only parking an idle task changes the idle queue, by appending an idle task.
LEMMA IdleStep == TypeOK /\ IdleInv /\ [Next]_vars => IdleInv'
<1> SUFFICES ASSUME TypeOK, IdleInv, [Next]_vars PROVE IdleInv'
  OBVIOUS
<1>1. ASSUME NEW t \in Tasks, t.idle, idleTaskQueue' = Append(idleTaskQueue, t)
      PROVE  IdleInv'
  <2>1. Range(idleTaskQueue') = Range(idleTaskQueue) \union {t}
    BY <1>1, ElementsOfAppend DEF TypeOK
  <2> QED
    BY <1>1, <2>1 DEF IdleInv
<1>2. CASE UNCHANGED idleTaskQueue
  BY <1>2 DEF IdleInv
<1>3. CASE ParkIdleTask
  <2>1. Head(workQueue) \in Tasks
    BY <1>3, HeadTailProperties DEF ParkIdleTask, TypeOK
  <2> QED
    BY <1>1, <1>3, <2>1 DEF ParkIdleTask
<1>4. CASE IdleDelayTask
  BY <1>1, <1>4 DEF IdleDelayTask, TypeOK
<1> QED
  BY <1>2, <1>3, <1>4
     DEF Next, RunLoop, PostTask, ScheduleWork, InjectWorkQueue, ParkDelayTask,
         RunWorkTask, PollZero, DispatchReady, PollWakes, PollTimesOut,
         DelayNotDue, RunDelayTask, NoIdleTask, RunIdleTask, ChooseWait, Tick,
         PeerReady, vars

\* Refinement, for every number of posters and every interleaving: what posters
\* see of the loop is the queue of TaskService.
THEOREM LoopImplementsService == Spec => ImplementsService
<1> DEFINE Queue == workQueue \o incomingQueue
           Parked == delayTaskQueue \union Range(idleTaskQueue)
<1>1. Init => Service!Init
  <2> SUFFICES ASSUME Init PROVE Service!Init
    OBVIOUS
  <2>1. Queue = <<>>
    BY ConcatEmptySeq, EmptySeq DEF Init
  <2>2. Range(idleTaskQueue) = {}
    BY ElementsOfEmpty DEF Init
  <2> QED
    BY <2>1, <2>2 DEF Init, Service!Init
<1>2. Init => IdleInv
  <2> SUFFICES ASSUME Init PROVE IdleInv
    OBVIOUS
  <2>1. Range(idleTaskQueue) = {}
    BY ElementsOfEmpty DEF Init
  <2> QED
    BY <2>1 DEF IdleInv
<1>3. TypeOK /\ IdleInv /\ [Next]_vars => [Service!Next]_(Service!serviceVars)
  <2> SUFFICES ASSUME TypeOK, IdleInv, [Next]_vars
               PROVE  Service!Next \/ UNCHANGED <<Queue, Parked, ran>>
    BY DEF Service!serviceVars
  <2>0. /\ incomingQueue \in Seq(Tasks)
        /\ workQueue \in Seq(Tasks)
        /\ idleTaskQueue \in Seq(Tasks)
        /\ delayTaskQueue \subseteq Tasks
        /\ Queue \in Seq(Tasks)
    BY ConcatProperties DEF TypeOK
  \* Steps that the posters do not see.
  <2>1. CASE UNCHANGED <<incomingQueue, workQueue, delayTaskQueue, idleTaskQueue, ran>>
    BY <2>1
  \* A batch is empty when it is swapped in: the whole queue stays as it is.
  <2>2. CASE InjectWorkQueue
    <3>1. CASE workQueue = <<>>
      <4>1. workQueue' = incomingQueue /\ incomingQueue' = <<>>
        BY <2>2, <3>1 DEF InjectWorkQueue, BatchDone
      <4>2. Queue' = incomingQueue /\ Queue = incomingQueue
        BY <2>0, <3>1, <4>1, ConcatEmptySeq
      <4> QED
        BY <2>2, <4>2 DEF InjectWorkQueue, BatchDone
    <3>2. CASE workQueue # <<>>
      BY <2>2, <3>2 DEF InjectWorkQueue, BatchDone
    <3> QED
      BY <3>1, <3>2
  <2>3. ASSUME NEW p \in Posters, PostTask(p) PROVE Service!Next
    <3>1. PICK t \in Tasks : incomingQueue' = Append(incomingQueue, t)
      BY <2>3 DEF PostTask, NewTasks, Push
    <3>2. Queue' = Append(Queue, t)
      BY <2>0, <2>3, <3>1, ConcatAppendsToSecond DEF PostTask
    <3>3. Service!Post(t)
      BY <2>3, <3>2 DEF PostTask, Service!Post, Service!Accept
    <3> QED
      BY <3>3 DEF Service!Next
  \* The head of a batch is the head of the queue.
  <2>4. ASSUME workQueue # <<>>, workQueue' = Tail(workQueue)
        PROVE  /\ Queue # <<>>
               /\ Head(Queue) = Head(workQueue)
               /\ Tail(Queue) = workQueue' \o incomingQueue
               /\ workQueue' \in Seq(Tasks)
               /\ Head(workQueue) \in Tasks
               /\ Head(workQueue).due \in Nat
    <3>1. Head(workQueue) \in Tasks /\ workQueue' \in Seq(Tasks)
      BY <2>0, <2>4, HeadTailProperties
    <3>2. Head(workQueue).due \in Nat
      BY <3>1 DEF Tasks
    <3> QED
      BY <2>0, <2>4, <3>1, <3>2, ConcatTakesFromFirst
  <2>5. CASE ParkDelayTask
    <3>1. Queue' = Tail(Queue)
      BY <2>4, <2>5 DEF ParkDelayTask
    <3>2. Parked' = Parked \union {Head(Queue)}
      BY <2>4, <2>5 DEF ParkDelayTask
    <3>3. ~Service!Immediate(Head(Queue))
      BY <2>4, <2>5 DEF ParkDelayTask, IsDelay, Service!Immediate
    <3>4. Service!ParkHead
      BY <2>4, <2>5, <3>1, <3>2, <3>3 DEF ParkDelayTask, Service!ParkHead
    <3> QED
      BY <3>4 DEF Service!Next
  <2>6. CASE ParkIdleTask
    <3>1. Queue' = Tail(Queue)
      BY <2>4, <2>6 DEF ParkIdleTask
    <3>2. Range(idleTaskQueue') = Range(idleTaskQueue) \union {Head(workQueue)}
      BY <2>0, <2>4, <2>6, ElementsOfAppend DEF ParkIdleTask
    <3>3. Parked' = Parked \union {Head(Queue)}
      BY <2>4, <2>6, <3>2 DEF ParkIdleTask
    <3>4. ~Service!Immediate(Head(Queue))
      BY <2>4, <2>6 DEF ParkIdleTask, Service!Immediate
    <3>5. Service!ParkHead
      BY <2>4, <2>6, <3>1, <3>3, <3>4 DEF ParkIdleTask, Service!ParkHead
    <3> QED
      BY <3>5 DEF Service!Next
  <2>7. CASE RunWorkTask
    <3>1. Service!RunEffect(Tail(Queue))
      BY <2>4, <2>7, CallbackPosts DEF RunWorkTask, Service!RunEffect
    <3>2. Service!Immediate(Head(Queue))
      BY <2>4, <2>7 DEF RunWorkTask, Plain, IsDelay, Service!Immediate
    <3>3. Service!RunHead
      BY <2>4, <2>7, <3>1, <3>2 DEF RunWorkTask, Service!RunHead
    <3> QED
      BY <3>3 DEF Service!Next
  <2>8. ASSUME DispatchReady PROVE Service!HandlerPost \/ UNCHANGED <<Queue, Parked, ran>>
    <3>1. CASE UNCHANGED incomingQueue
      BY <2>8, <3>1 DEF DispatchReady
    <3>2. CASE \E b : Callback(b)
      <4>1. Queue' = Queue \/ \E u \in Tasks : Queue' = Append(Queue, u)
        BY <2>0, <2>8, <3>2, CallbackPosts DEF DispatchReady
      <4> QED
        BY <2>8, <4>1 DEF DispatchReady, Service!HandlerPost, Service!Accept
    <3> QED
      BY <2>8, <3>1, <3>2, HandlerCalls
  <2>9. CASE PollZero
    BY <2>8, <2>9 DEF PollZero, Service!Next
  <2>10. CASE PollWakes
    BY <2>8, <2>10 DEF PollWakes, Service!Next
  <2>11. CASE RunDelayTask
    <3>1. PICK t \in delayTaskQueue : PopDelay(t) /\ ~t.idle /\ ran' = ran \union {t}
      BY <2>11 DEF RunDelayTask
    <3>2. t \notin Range(idleTaskQueue)
      BY <3>1 DEF IdleInv
    <3>3. Parked' = Parked \ {t} /\ t \in Parked /\ t \in Tasks
      BY <2>0, <2>11, <3>1, <3>2 DEF RunDelayTask, PopDelay
    <3>4. Service!RunEffect(Queue)
      BY <2>0, <2>11, CallbackPosts DEF RunDelayTask, Service!RunEffect
    <3>5. Service!RunParked(t)
      BY <3>1, <3>3, <3>4 DEF Service!RunParked
    <3> QED
      BY <3>3, <3>5 DEF Service!Next
  \* An idle delayed task that is due moves inside the park.
  <2>12. CASE IdleDelayTask
    <3>1. PICK t \in delayTaskQueue :
             PopDelay(t) /\ idleTaskQueue' = Append(idleTaskQueue, t)
      BY <2>12 DEF IdleDelayTask
    <3>2. Range(idleTaskQueue') = Range(idleTaskQueue) \union {t}
      BY <2>0, <3>1, ElementsOfAppend
    <3>3. Parked' = Parked
      BY <3>1, <3>2 DEF PopDelay
    <3> QED
      BY <2>12, <3>3 DEF IdleDelayTask
  <2>13. CASE RunIdleTask
    <3> DEFINE t == Head(idleTaskQueue)
    <3>1. idleTaskQueue # <<>> /\ Len(idleTaskQueue) \in Nat \ {0}
      BY <2>0, <2>13, EmptySeq DEF RunIdleTask
    <3>2. t \in Tasks /\ t \in Range(idleTaskQueue)
      BY <2>0, <3>1, HeadTailProperties, RangeEquality
    <3>3. t.idle
      BY <3>2 DEF IdleInv
    <3>4. Service!RunEffect(Queue)
      BY <2>0, <2>13, CallbackPosts DEF RunIdleTask, Service!RunEffect
    <3>5. Service!RunParked(t)
      BY <2>13, <3>2, <3>3, <3>4 DEF RunIdleTask, Service!RunParked
    <3> QED
      BY <3>2, <3>5 DEF Service!Next
  <2> QED
    BY <2>1, <2>2, <2>3, <2>5, <2>6, <2>7, <2>9, <2>10, <2>11, <2>12, <2>13
       DEF Next, RunLoop, ScheduleWork, PollTimesOut, DelayNotDue, NoIdleTask,
           ChooseWait, Tick, PeerReady, vars
<1> QED
  BY <1>1, <1>2, <1>3, IdleStep, TypeCorrect, PTL
     DEF Spec, ImplementsService, Service!Spec

-----------------------------------------------------------------------------
(* The order of plain tasks *)

\* The tasks accepted and not yet looked at, oldest first.
Accepted == workQueue \o incomingQueue

\* Tasks of one thread are in the order of their numbers.
InOrder(q) ==
  \A i, j \in 1 .. Len(q) : i < j /\ q[i].by = q[j].by => q[i].n < q[j].n

\* No task is newer than the last one its thread has posted.
Numbered(q, last) == \A i \in 1 .. Len(q) : q[i].n <= last[q[i].by]

\* The inductive strengthening of RunsInPostingOrder: the batch and the incoming queue
\* together are in posting order.
OrderInv == InOrder(Accepted) /\ Numbered(Accepted, posted)

Counters == [Threads -> 0 .. MaxPost]

\* The next task of its thread.
Newest(u, last) == u \in Tasks /\ u.n = last[u.by] + 1

LEMMA AppendInOrder ==
  ASSUME NEW q \in Seq(Tasks), NEW last \in Counters, NEW u, Newest(u, last),
         InOrder(q), Numbered(q, last), NEW next, next = [last EXCEPT ![u.by] = @ + 1]
  PROVE  InOrder(Append(q, u)) /\ Numbered(Append(q, u), next)
<1>1. PICK s : s = Append(q, u)
  OBVIOUS
<1>2. /\ s \in Seq(Tasks) /\ Len(s) = Len(q) + 1 /\ Len(q) \in Nat
      /\ \A i \in 1 .. Len(q) : s[i] = q[i]
      /\ s[Len(q) + 1] = u
  BY <1>1, AppendProperties, LenProperties DEF Newest
<1>3. u.by \in Threads /\ u.n = last[u.by] + 1
  BY DEF Newest, Tasks
<1>4. \A p \in Threads : last[p] \in Int /\ next[p] = IF p = u.by THEN last[p] + 1 ELSE last[p]
  <2>1. MaxPost \in Nat /\ last \in [Threads -> 0 .. MaxPost]
    BY ConstantsAssumption DEF Counters
  <2>2. \A p \in Threads : last[p] \in Int
    BY <2>1
  <2>3. \A p \in Threads : next[p] = IF p = u.by THEN last[p] + 1 ELSE last[p]
    BY <1>3, <2>1
  <2> QED
    BY <2>2, <2>3
<1>5. \A i \in 1 .. Len(q) : q[i].by \in Threads /\ q[i].n \in Int
  <2>1. \A i \in 1 .. Len(q) : q[i] \in Tasks
    BY ONLY q \in Seq(Tasks), ElementOfSeq
  <2> QED
    BY <2>1 DEF Tasks
<1>6. \A i \in 1 .. Len(s) : i \in 1 .. Len(q) \/ i = Len(q) + 1
  BY <1>2
<1>7. ASSUME NEW i \in 1 .. Len(s), NEW j \in 1 .. Len(s), i < j, s[i].by = s[j].by
      PROVE  s[i].n < s[j].n
  <2>1. i \in 1 .. Len(q) /\ s[i] = q[i]
    BY <1>2, <1>7
  <2>2. CASE j \in 1 .. Len(q)
    BY <1>2, <1>7, <2>1, <2>2 DEF InOrder
  <2>3. CASE j = Len(q) + 1
    <3>1. s[j].n = last[u.by] + 1 /\ q[i].by = u.by
      BY <1>2, <1>3, <1>7, <2>1, <2>3
    <3>2. q[i].n <= last[u.by]
      BY <2>1, <3>1 DEF Numbered
    <3> QED
      BY <1>3, <1>4, <1>5, <2>1, <3>1, <3>2
  <2> QED
    BY <1>6, <2>2, <2>3
<1>8. ASSUME NEW i \in 1 .. Len(s)
      PROVE  s[i].n <= next[s[i].by]
  <2>1. CASE i \in 1 .. Len(q)
    <3>1. s[i] = q[i] /\ q[i].n <= last[q[i].by] /\ q[i].by \in Threads /\ q[i].n \in Int
      BY <1>2, <1>5, <2>1 DEF Numbered
    <3> QED
      BY <1>4, <3>1
  <2>2. CASE i = Len(q) + 1
    BY <1>2, <1>3, <1>4, <2>2
  <2> QED
    BY <1>6, <2>1, <2>2
<1> QED
  BY <1>1, <1>7, <1>8 DEF InOrder, Numbered

LEMMA TailInOrder ==
  ASSUME NEW q \in Seq(Tasks), q # <<>>, NEW last, InOrder(q), Numbered(q, last)
  PROVE  /\ Tail(q) \in Seq(Tasks) /\ Head(q) \in Tasks
         /\ InOrder(Tail(q)) /\ Numbered(Tail(q), last)
         /\ Head(q).n <= last[Head(q).by]
         /\ \A i \in 1 .. Len(Tail(q)) :
              Tail(q)[i].by = Head(q).by => Head(q).n < Tail(q)[i].n
<1>1. PICK s : s = Tail(q)
  OBVIOUS
<1>2. /\ s \in Seq(Tasks) /\ Head(q) \in Tasks /\ Len(s) = Len(q) - 1
      /\ \A i \in 1 .. Len(s) : s[i] = q[i + 1]
  BY <1>1, HeadTailProperties
<1>3. Len(q) \in Nat \ {0} /\ Head(q) = q[1]
  BY EmptySeq
<1>4. 1 \in 1 .. Len(q) /\ \A i \in 1 .. Len(s) : i + 1 \in 1 .. Len(q) /\ 1 < i + 1
  BY <1>2, <1>3
<1>5. InOrder(s)
  <2> SUFFICES ASSUME NEW i \in 1 .. Len(s), NEW j \in 1 .. Len(s), i < j, s[i].by = s[j].by
               PROVE  s[i].n < s[j].n
    BY DEF InOrder
  <2>1. i + 1 < j + 1 /\ s[i] = q[i + 1] /\ s[j] = q[j + 1]
    BY <1>2
  <2> QED
    BY <1>4, <2>1 DEF InOrder
<1>6. Numbered(s, last) /\ q[1].n <= last[q[1].by]
  BY <1>2, <1>4 DEF Numbered
<1>7. \A i \in 1 .. Len(s) : s[i].by = q[1].by => q[1].n < s[i].n
  BY <1>2, <1>4 DEF InOrder
<1> QED
  BY <1>1, <1>2, <1>3, <1>5, <1>6, <1>7

\* What one step adds to the queue w \o incomingQueue: nothing, or the next task of a thread.
Grows(w) ==
  \/ UNCHANGED <<incomingQueue, posted>>
  \/ \E u : /\ Newest(u, posted)
            /\ posted' = [posted EXCEPT ![u.by] = @ + 1]
            /\ w \o incomingQueue' = Append(w \o incomingQueue, u)

LEMMA PushGrows ==
  ASSUME TypeOK, NEW p \in Threads, NEW t \in NewTasks(p), Push(p, t), NEW w \in Seq(Tasks)
  PROVE  Grows(w)
<1>1. t \in Tasks /\ t.by = p /\ t.n = posted[p] + 1
  BY DEF NewTasks
<1>2. w \o Append(incomingQueue, t) = Append(w \o incomingQueue, t)
  <2>1. incomingQueue \in Seq(Tasks) /\ t \in Tasks
    BY <1>1 DEF TypeOK
  <2> QED
    BY ONLY <2>1, w \in Seq(Tasks), ConcatAppendsToSecond
<1>3. incomingQueue' = Append(incomingQueue, t) /\ posted' = [posted EXCEPT ![p] = @ + 1]
  BY DEF Push
<1> QED
  BY <1>1, <1>2, <1>3 DEF Grows, Newest

LEMMA CallbackGrows ==
  ASSUME TypeOK, NEW bytes, Callback(bytes), NEW w \in Seq(Tasks)
  PROVE  Grows(w)
<1>1. CASE UNCHANGED <<incomingQueue, posted>>
  BY <1>1 DEF Grows
<1>2. CASE \E t \in NewTasks(LoopThread) : Push(LoopThread, t)
  BY <1>2, PushGrows DEF Threads
<1> QED
  BY <1>1, <1>2 DEF Callback

\* Whatever the step, the accepted tasks lose their first one at most and gain a newest
\* one at most; and a plain task that runs was the first.
LEMMA AcceptedStep ==
  ASSUME TypeOK, TimerInv, IdleInv, [Next]_vars
  PROVE  \/ /\ Accepted' = Accepted /\ posted' = posted
            /\ \A t \in ran' \ ran : ~Plain(t)
         \/ /\ workQueue' = workQueue /\ Grows(workQueue)
            /\ \A t \in ran' \ ran : ~Plain(t)
         \/ /\ workQueue # <<>> /\ workQueue' = Tail(workQueue) /\ Grows(Tail(workQueue))
            /\ \A t \in ran' \ ran : t = Head(workQueue)
<1>1. workQueue \in Seq(Tasks) /\ incomingQueue \in Seq(Tasks) /\ idleTaskQueue \in Seq(Tasks)
  BY DEF TypeOK
<1>2. CASE UNCHANGED <<incomingQueue, workQueue, posted, ran>>
  BY <1>2 DEF Accepted
<1>3. CASE InjectWorkQueue
  <2>1. CASE workQueue = <<>>
    <3>1. workQueue' = incomingQueue /\ incomingQueue' = <<>> /\ UNCHANGED <<posted, ran>>
      BY <1>3, <2>1 DEF InjectWorkQueue, BatchDone
    <3>2. Accepted' = incomingQueue /\ Accepted = incomingQueue
      BY <1>1, <2>1, <3>1, ConcatEmptySeq DEF Accepted
    <3> QED
      BY <3>1, <3>2
  <2>2. CASE workQueue # <<>>
    BY <1>2, <1>3, <2>2 DEF InjectWorkQueue, BatchDone
  <2> QED
    BY <2>1, <2>2
<1>4. ASSUME NEW p \in Posters, PostTask(p)
      PROVE  workQueue' = workQueue /\ Grows(workQueue) /\ ran' = ran
  <2>1. PICK t \in NewTasks(p) : Push(p, t)
    BY <1>4 DEF PostTask
  <2>2. p \in Threads
    BY DEF Threads
  <2>3. Grows(workQueue)
    BY <1>1, <2>1, <2>2, PushGrows
  <2> QED
    BY <1>4, <2>3 DEF PostTask
<1>5. ASSUME workQueue # <<>>
      PROVE  Tail(workQueue) \in Seq(Tasks)
  BY <1>1, <1>5, HeadTailProperties
<1>6. CASE ParkDelayTask \/ ParkIdleTask
  BY <1>6 DEF ParkDelayTask, ParkIdleTask, Grows
<1>7. CASE RunWorkTask
  <2>1. /\ workQueue # <<>> /\ workQueue' = Tail(workQueue) /\ Callback(wakeBytes)
        /\ ran' = ran \union {Head(workQueue)}
    BY <1>7 DEF RunWorkTask
  <2>2. Grows(Tail(workQueue))
    BY <1>5, <2>1, CallbackGrows
  <2> QED
    BY <2>1, <2>2
<1>8. ASSUME DispatchReady
      PROVE  workQueue' = workQueue /\ Grows(workQueue) /\ ran' = ran
  <2>1. CASE \E bytes \in Int : Callback(bytes)
    <3>1. Grows(workQueue)
      BY <1>1, <2>1, CallbackGrows
    <3> QED
      BY <1>8, <3>1 DEF DispatchReady
  <2>2. CASE UNCHANGED <<incomingQueue, posted>>
    BY <1>8, <2>2 DEF DispatchReady, Grows
  <2> QED
    BY <1>8, <2>1, <2>2, HandlerCalls
<1>9. CASE PollZero
  BY <1>2, <1>8, <1>9 DEF PollZero
<1>10. CASE PollWakes
  BY <1>8, <1>10 DEF PollWakes
<1>11. CASE RunDelayTask
  <2>1. PICK t \in delayTaskQueue : ran' = ran \union {t}
    BY <1>11 DEF RunDelayTask
  <2>2. ~Plain(t)
    BY <2>1 DEF TimerInv, Plain, IsDelay
  <2>3. workQueue' = workQueue /\ Callback(wakeBytes)
    BY <1>11 DEF RunDelayTask
  <2>4. Grows(workQueue)
    BY <1>1, <2>3, CallbackGrows
  <2> QED
    BY <2>1, <2>2, <2>3, <2>4
<1>12. CASE RunIdleTask
  <2>1. /\ idleTaskQueue # <<>> /\ ran' = ran \union {Head(idleTaskQueue)}
        /\ workQueue' = workQueue /\ Callback(wakeBytes)
    BY <1>12 DEF RunIdleTask
  <2>2. Len(idleTaskQueue) \in Nat \ {0}
    BY <1>1, <2>1, EmptySeq
  <2>3. Head(idleTaskQueue) \in Range(idleTaskQueue)
    BY <1>1, <2>2, RangeEquality
  <2>4. ~Plain(Head(idleTaskQueue))
    BY <2>3 DEF IdleInv, Plain
  <2>5. Grows(workQueue)
    BY <1>1, <2>1, CallbackGrows
  <2> QED
    BY <2>1, <2>4, <2>5
<1> QED
  BY <1>2, <1>3, <1>4, <1>6, <1>7, <1>9, <1>10, <1>11, <1>12
     DEF Next, RunLoop, ScheduleWork, PollTimesOut, DelayNotDue, IdleDelayTask, NoIdleTask,
         ChooseWait, Tick, PeerReady, vars

\* So the accepted tasks stay in order, and those behind a plain task that runs are newer.
LEMMA OrderStep ==
  ASSUME TypeOK, TimerInv, IdleInv, OrderInv, [Next]_vars
  PROVE  /\ OrderInv'
         /\ \A t \in ran' \ ran : Plain(t) =>
              \A i \in 1 .. Len(Accepted') :
                Accepted'[i].by = t.by => t.n < Accepted'[i].n
<1>1. /\ workQueue \in Seq(Tasks) /\ incomingQueue \in Seq(Tasks) /\ posted \in Counters
      /\ Accepted \in Seq(Tasks)
  BY ConcatProperties DEF TypeOK, Counters, Accepted
<1>2. CASE Accepted' = Accepted /\ posted' = posted /\ \A t \in ran' \ ran : ~Plain(t)
  BY <1>2 DEF OrderInv
<1>3. ASSUME NEW w \in Seq(Tasks), workQueue' = w, Grows(w),
             InOrder(w \o incomingQueue), Numbered(w \o incomingQueue, posted)
      PROVE  /\ OrderInv'
             /\ \/ Accepted' = w \o incomingQueue
                \/ \E u : /\ Newest(u, posted)
                          /\ Accepted' = Append(w \o incomingQueue, u)
  <2>1. PICK q : q = w \o incomingQueue
    OBVIOUS
  <2>2. q \in Seq(Tasks)
    BY ONLY <1>1, <1>3, <2>1, ConcatProperties
  <2>3. CASE UNCHANGED <<incomingQueue, posted>>
    BY <1>3, <2>3 DEF OrderInv, Accepted
  <2>4. CASE \E u : /\ Newest(u, posted)
                    /\ posted' = [posted EXCEPT ![u.by] = @ + 1]
                    /\ w \o incomingQueue' = Append(w \o incomingQueue, u)
    <3>1. PICK u : /\ Newest(u, posted)
                   /\ posted' = [posted EXCEPT ![u.by] = @ + 1]
                   /\ w \o incomingQueue' = Append(q, u)
      BY <2>1, <2>4
    <3>2. InOrder(Append(q, u)) /\ Numbered(Append(q, u), posted')
      BY <1>1, <1>3, <2>1, <2>2, <3>1, AppendInOrder
    <3>3. Accepted' = Append(q, u)
      BY <1>3, <3>1 DEF Accepted
    <3> QED
      BY <2>1, <3>1, <3>2, <3>3 DEF OrderInv
  <2> QED
    BY <1>3, <2>3, <2>4 DEF Grows
<1>4. CASE workQueue' = workQueue /\ Grows(workQueue) /\ \A t \in ran' \ ran : ~Plain(t)
  BY <1>1, <1>3, <1>4 DEF OrderInv, Accepted
<1>5. CASE /\ workQueue # <<>> /\ workQueue' = Tail(workQueue) /\ Grows(Tail(workQueue))
           /\ \A t \in ran' \ ran : t = Head(workQueue)
  <2>1. PICK w : w = Tail(workQueue)
    OBVIOUS
  <2>2. PICK h : h = Head(workQueue)
    OBVIOUS
  <2>3. PICK q : q = w \o incomingQueue
    OBVIOUS
  <2>4. /\ w \in Seq(Tasks) /\ Accepted # <<>> /\ Head(Accepted) = h /\ Tail(Accepted) = q
    BY <1>1, <1>5, <2>1, <2>2, <2>3, ConcatTakesFromFirst, HeadTailProperties DEF Accepted
  <2>5. /\ q \in Seq(Tasks) /\ h \in Tasks
        /\ InOrder(q) /\ Numbered(q, posted) /\ h.n <= posted[h.by]
        /\ \A i \in 1 .. Len(q) : q[i].by = h.by => h.n < q[i].n
    BY <1>1, <2>4, TailInOrder DEF OrderInv
  <2>6. /\ OrderInv'
        /\ \/ Accepted' = q
           \/ \E u : Newest(u, posted) /\ Accepted' = Append(q, u)
    BY <1>3, <1>5, <2>1, <2>3, <2>4, <2>5
  <2>7. \A i \in 1 .. Len(Accepted') : Accepted'[i].by = h.by => h.n < Accepted'[i].n
    <3>1. CASE Accepted' = q
      BY <2>5, <3>1
    <3>2. ASSUME NEW u, Newest(u, posted), Accepted' = Append(q, u)
          PROVE  \A i \in 1 .. Len(Accepted') : Accepted'[i].by = h.by => h.n < Accepted'[i].n
      <4>1. u \in Tasks /\ u.n = posted[u.by] + 1
        BY <3>2 DEF Newest
      <4>2. PICK s : s = Append(q, u)
        OBVIOUS
      <4>3. /\ Len(s) = Len(q) + 1 /\ Len(q) \in Nat /\ s[Len(q) + 1] = u
            /\ \A i \in 1 .. Len(q) : s[i] = q[i]
        BY <2>5, <4>1, <4>2, AppendProperties, LenProperties
      <4>4. u.by = h.by => h.n < u.n
        <5>1. h.n \in Int /\ h.by \in Threads /\ posted[h.by] \in Int
          BY <1>1, <2>5, ConstantsAssumption DEF Tasks, Counters
        <5> QED
          BY <2>5, <4>1, <5>1
      <4>5. ASSUME NEW i \in 1 .. Len(s), s[i].by = h.by
            PROVE  h.n < s[i].n
        <5>1. i \in 1 .. Len(q) \/ i = Len(q) + 1
          BY <4>3
        <5> QED
          BY <2>5, <4>3, <4>4, <4>5, <5>1
      <4> QED
        BY <3>2, <4>2, <4>5
    <3> QED
      BY <2>6, <3>1, <3>2
  <2> QED
    BY <1>5, <2>2, <2>6, <2>7
<1> QED
  BY <1>2, <1>4, <1>5, AcceptedStep

\* Plain tasks of a thread run in the order it posted them: when one runs, none of its
\* thread that was posted before it is still queued, for any number of posters, whatever
\* is posted by handlers meanwhile and however the batches are cut.
THEOREM PlainTasksInOrder == Spec => RunsInPostingOrder
<1>1. Init => OrderInv /\ IdleInv
  <2> SUFFICES ASSUME Init PROVE OrderInv /\ IdleInv
    OBVIOUS
  <2>1. Accepted = <<>> /\ Len(Accepted) = 0
    BY ConcatEmptySeq, EmptySeq DEF Init, Accepted
  <2>2. Range(idleTaskQueue) = {}
    BY ElementsOfEmpty DEF Init
  <2> QED
    BY <2>1, <2>2 DEF OrderInv, InOrder, Numbered, IdleInv
<1>2. TypeOK /\ TimerInv /\ IdleInv /\ OrderInv /\ [Next]_vars => OrderInv'
  BY OrderStep
<1>3. ASSUME TypeOK, TypeOK', TimerInv, IdleInv, OrderInv, [Next]_vars
      PROVE  [\A t \in ran' \ ran :
                Plain(t) =>
                  \A u \in Range(workQueue') \union Range(incomingQueue') :
                    ~(Plain(u) /\ u.by = t.by /\ u.n < t.n)]_vars
  <2> SUFFICES ASSUME NEW t \in ran' \ ran, Plain(t),
                      NEW u \in Range(workQueue') \union Range(incomingQueue'),
                      u.by = t.by, u.n < t.n
               PROVE  FALSE
    OBVIOUS
  <2>1. PICK q : q = Accepted'
    OBVIOUS
  <2>2. q \in Seq(Tasks) /\ Range(q) = Range(workQueue') \union Range(incomingQueue')
    BY <1>3, <2>1, ConcatProperties, RangeConcatenation DEF TypeOK, Accepted
  <2>3. PICK i \in 1 .. Len(q) : q[i] = u
    BY <2>2, RangeEquality
  <2>4. t.n < u.n
    BY <1>3, <2>1, <2>3, OrderStep
  <2>5. t.n \in Int /\ u.n \in Int
    <3>1. t \in Tasks /\ u \in Tasks
      BY <1>3, <2>2, <2>3, ElementOfSeq DEF TypeOK
    <3> QED
      BY <3>1 DEF Tasks
  <2> QED
    BY <2>4, <2>5
<1> QED
  BY <1>1, <1>2, <1>3, IdleStep, TimerInvariant, TypeCorrect, PTL DEF Spec, RunsInPostingOrder
=============================================================================
