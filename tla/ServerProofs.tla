---------------------------- MODULE ServerProofs ----------------------------
(***************************************************************************)
(* Proofs, for any number of loops of either kind and of connections and   *)
(* any value threadCounter_ may start with: the program uses a NULL loop   *)
(* only where a thread failed or a wait ended early, and connectionManager_*)
(* is exact until two threads are in it at once.                           *)
(***************************************************************************)
EXTENDS Server, SequenceTheorems, TLAPS

Serving == {"listener", "listen", "listen on NULL", "done"}

EventType == [isSigned : BOOLEAN, waitingNum : Nat, asleep : Nat]

ServerType ==
  /\ mainPc \in [at : {"create", "wait", "asleep"} \union Serving, loop : Loops]
  /\ mainPc.at \in Serving => mainPc.loop \in Acceptors
  /\ thread \in [Loops -> {"none", "begun", "set", "running", "failed"}]
  /\ messageLoop \in [Loops -> BOOLEAN]
  /\ event \in [Loops -> EventType]
  /\ early \subseteq Loops
  /\ bound \in Nat
  /\ listening \subseteq Acceptors
  /\ threadCounter \in Nat
  /\ acceptPc \in [Acceptors -> {"idle", "test", "reset", "index", "insert", "inserting",
                                 "start"}]

\* A thread that has come so far has set its messageLoop_.
SetInv == \A l \in Loops : thread[l] \in {"set", "running"} => messageLoop[l]

\* A signal is there, or has ended the wait for it, only if the thread has sent it.
EventInv ==
  \A l \in Loops :
    /\ event[l].isSigned => thread[l] = "running"
    /\ event[l].asleep <= event[l].waitingNum
    /\ mainPc.at = "asleep" /\ l = mainPc.loop =>
         /\ event[l].waitingNum = 1
         /\ event[l].asleep = 0 => thread[l] = "running" \/ l \in early

\* Nothing has happened to the loops that Start has yet to create, and nobody has
\* waited for the one that it has just created.
FutureInv ==
  \A l \in Loops :
    /\ mainPc.at \notin Serving /\ mainPc.loop < l
         => thread[l] = "none" /\ event[l].waitingNum = 0
    /\ mainPc.at = "create" /\ l = mainPc.loop => thread[l] = "none"
    /\ mainPc.at \in {"create", "wait"} /\ l = mainPc.loop => event[l].waitingNum = 0

Passed(l) == mainPc.at \in Serving \/ l < mainPc.loop

\* A loop that Start has left behind is there, or has failed.
PassedInv ==
  \A l \in Loops :
    Passed(l) => messageLoop[l] \/ l \in early \/ thread[l] = "failed"

\* One Listener alone gets as far as accept(), so that nobody else changes the counter
\* between its test and its use.
AcceptInv ==
  /\ listening \subseteq {bound}
  /\ listening # {} => mainPc.at \in Serving
  /\ \A a \in Acceptors :
       /\ acceptPc[a] # "idle" => a \in listening
       /\ acceptPc[a] = "index" => threadCounter < IoNum

\* A Listener has been given NULL because of a failure.
TakenInv ==
  mainPc.at = "listen on NULL" => early # {} \/ \E l \in Loops : thread[l] = "failed"

StartInv == ServerType /\ SetInv /\ EventInv /\ FutureInv /\ PassedInv

ServerInv == StartInv /\ TakenInv /\ AcceptInv /\ NullNeedsFailure

-----------------------------------------------------------------------------

\* The loops are numbered from 1, those that accept first.
LEMMA LoopFacts ==
  /\ AcceptNum \in Nat /\ AcceptNum > 0
  /\ IoNum \in Nat /\ IoNum > 0
  /\ Loops = 1 .. AcceptNum + IoNum
  /\ Acceptors \subseteq Loops
  /\ IoLoops \subseteq Loops
  /\ 1 \in Acceptors
  /\ 0 \notin Acceptors
<1> USE ServerAssumption DEF Loops, Acceptors, IoLoops
<1>1. AcceptNum \in Nat /\ AcceptNum > 0 /\ IoNum \in Nat /\ IoNum > 0
  OBVIOUS
<1>2. Loops = 1 .. AcceptNum + IoNum
  BY <1>1
<1>3. QED
  BY <1>1, <1>2

\* The order in which loops are created.
LEMMA LoopOrder ==
  ASSUME NEW i \in Loops, NEW l \in Loops
  PROVE  /\ i + 1 <= l => i < l
         /\ i < l => i <= l
         /\ l < i + 1 /\ l # i => l < i
         /\ l <= i /\ l # i => l < i
BY LoopFacts

\* What the update of one entry of a function leaves behind.
LEMMA EventUpdate ==
  ASSUME NEW S, NEW T, NEW f \in [S -> T], NEW x \in S, NEW v \in T
  PROVE  /\ [f EXCEPT ![x] = v] \in [S -> T]
         /\ \A y \in S : [f EXCEPT ![x] = v][y] = IF y = x THEN v ELSE f[y]
OBVIOUS

\* A wait that finds the signal consumes it.
LEMMA PassFields ==
  ASSUME NEW e \in EventType
  PROVE  /\ Pass(e) \in EventType
         /\ Pass(e).isSigned = FALSE
         /\ Pass(e).waitingNum = e.waitingNum
         /\ Pass(e).asleep = e.asleep
<1>1. Pass(e) \in EventType
  BY DEF Pass, EventType
<1>2. Pass(e).isSigned = FALSE
  BY DEF Pass, EventType
<1>3. Pass(e).waitingNum = e.waitingNum
  BY DEF Pass, EventType
<1>4. Pass(e).asleep = e.asleep
  BY DEF Pass, EventType
<1>5. QED
  BY <1>1, <1>2, <1>3, <1>4

\* A wait that finds no signal counts one more waiting thread, and it sleeps.
LEMMA SleepFields ==
  ASSUME NEW e \in EventType
  PROVE  /\ Sleep(e) \in EventType
         /\ Sleep(e).isSigned = e.isSigned
         /\ Sleep(e).waitingNum = e.waitingNum + 1
         /\ Sleep(e).asleep = e.asleep + 1
<1>1. e.waitingNum + 1 \in Nat /\ e.asleep + 1 \in Nat
  BY DEF EventType
<1>2. ASSUME NEW w \in Nat, NEW a \in Nat
      PROVE  [e EXCEPT !.waitingNum = w, !.asleep = a] \in EventType
  BY DEF EventType
<1>3. Sleep(e) \in EventType
  BY ONLY <1>1, <1>2 DEF Sleep
<1>4. Sleep(e).isSigned = e.isSigned
  BY DEF Sleep, EventType
<1>5. Sleep(e).waitingNum = e.waitingNum + 1
  BY DEF Sleep, EventType
<1>6. Sleep(e).asleep = e.asleep + 1
  BY DEF Sleep, EventType
<1>7. QED
  BY <1>3, <1>4, <1>5, <1>6

\* A waiting thread that wakes up leaves one sleeper less.
LEMMA WakeUpFields ==
  ASSUME NEW e \in EventType, e.asleep > 0
  PROVE  /\ WakeUp(e) \in EventType
         /\ WakeUp(e).isSigned = e.isSigned
         /\ WakeUp(e).waitingNum = e.waitingNum
         /\ WakeUp(e).asleep = e.asleep - 1
BY DEF WakeUp, EventType

\* A woken thread that goes on leaves one waiting thread less.
LEMMA LeaveFields ==
  ASSUME NEW e \in EventType, e.waitingNum > 0
  PROVE  /\ Leave(e) \in EventType
         /\ Leave(e).isSigned = e.isSigned
         /\ Leave(e).waitingNum = e.waitingNum - 1
         /\ Leave(e).asleep = e.asleep
BY DEF Leave, EventType

\* A signal changes neither who waits nor, upwards, who sleeps.
LEMMA SignalFields ==
  ASSUME NEW e \in EventType
  PROVE  /\ Signal(e) \in EventType
         /\ Signal(e).waitingNum = e.waitingNum
         /\ Signal(e).asleep <= e.asleep
<1>1. Signal(e) \in EventType
  <2>1. CASE e.waitingNum = 0
    BY <2>1 DEF Signal, Unheard, EventType
  <2>2. CASE e.waitingNum # 0
    BY <2>2 DEF Signal, Unheard, EventType
  <2>3. QED
    BY <2>1, <2>2
<1>2. Signal(e).waitingNum = e.waitingNum
  BY DEF Signal, Unheard, EventType
<1>3. Signal(e).asleep <= e.asleep
  BY DEF Signal, Unheard, EventType
<1>4. QED
  BY <1>1, <1>2, <1>3

\* What is left to create after a loop, and that the loop is the last one left behind.
LEMMA StartedIsNext ==
  ASSUME ServerType, mainPc.at \notin Serving
  PROVE  /\ Started(mainPc.loop) \in [at : {"create"} \union Serving, loop : Loops]
         /\ Started(mainPc.loop).at \in Serving => Started(mainPc.loop).loop \in Acceptors
         /\ Started(mainPc.loop).at = "create"
              => Started(mainPc.loop).loop = mainPc.loop + 1
         /\ Started(mainPc.loop).at \in {"create", "listener"}
         /\ Started(mainPc.loop).at = "listener"
              => \A l \in Loops : l <= mainPc.loop
<1>1. mainPc.loop \in Loops
  BY DEF ServerType
<1>2. CASE mainPc.loop + 1 \in Loops
  BY <1>1, <1>2, LoopFacts DEF Started, Serving
<1>3. CASE mainPc.loop + 1 \notin Loops
  <2>1. \A l \in Loops : l <= mainPc.loop
    BY <1>1, <1>3, LoopFacts
  <2>2. QED
    BY <1>1, <1>3, <2>1, LoopFacts DEF Started, Serving
<1>4. QED
  BY <1>2, <1>3

\* The main thread goes on to the next loop: the one it leaves is there, or has failed.
LEMMA StartedKeeps ==
  ASSUME StartInv, mainPc.at \notin Serving,
         mainPc' = Started(mainPc.loop),
         ServerType', SetInv',
         UNCHANGED <<messageLoop, early>>,
         \A l \in Loops : l # mainPc.loop => thread'[l] = thread[l] /\ event'[l] = event[l],
         \A l \in Loops : event'[l].isSigned => thread'[l] = "running",
         event'[mainPc.loop].asleep <= event'[mainPc.loop].waitingNum,
         \/ messageLoop[mainPc.loop] \/ mainPc.loop \in early
         \/ thread'[mainPc.loop] = "failed"
  PROVE  StartInv'
<1> USE DEF StartInv
<1>1. mainPc.loop \in Loops /\ mainPc'.loop \in Loops /\ Loops \subseteq Nat
  BY LoopFacts DEF ServerType
<1>2. /\ mainPc'.at \in {"create", "listener"}
      /\ mainPc'.at = "create" => mainPc'.loop = mainPc.loop + 1
      /\ mainPc'.at = "listener" => \A l \in Loops : l <= mainPc.loop
  BY StartedIsNext
<1>3. EventInv'
  <2>1. ASSUME NEW l \in Loops
        PROVE  event'[l].asleep <= event'[l].waitingNum
    BY DEF EventInv
  <2>2. QED
    BY <1>2, <2>1 DEF EventInv
<1>4. FutureInv'
  <2>1. ASSUME NEW l \in Loops, mainPc'.at = "create", mainPc'.loop <= l
        PROVE  thread'[l] = "none" /\ event'[l].waitingNum = 0
    <3>1. mainPc.loop + 1 <= l
      BY <1>2, <2>1
    <3>2. mainPc.loop < l /\ l # mainPc.loop
      BY ONLY <1>1, <3>1, LoopOrder, LoopFacts, l \in Loops
    <3>3. thread[l] = "none" /\ event[l].waitingNum = 0
      BY ONLY <3>2, FutureInv, mainPc.at \notin Serving, l \in Loops DEF FutureInv
    <3>4. QED
      BY <3>2, <3>3
  <2>2. ASSUME NEW l \in Loops, mainPc'.loop < l \/ l = mainPc'.loop
        PROVE  mainPc'.loop <= l
    BY ONLY <1>1, <2>2, LoopOrder, LoopFacts, l \in Loops
  <2>3. mainPc'.at \in {"create", "wait"} \/ mainPc'.at \notin Serving
          => mainPc'.at = "create"
    BY <1>2 DEF Serving
  <2>4. QED
    BY ONLY <2>1, <2>2, <2>3 DEF FutureInv
<1>5. PassedInv'
  <2>1. ASSUME NEW l \in Loops, Passed(l)'
        PROVE  messageLoop'[l] \/ l \in early' \/ thread'[l] = "failed"
    <3>1. CASE l = mainPc.loop
      BY <3>1
    <3>2. CASE l # mainPc.loop
      <4>1. l < mainPc.loop
        <5>1. CASE mainPc'.at = "create"
          BY ONLY <5>1, <1>1, <1>2, <2>1, <3>2, LoopOrder DEF Passed, Serving
        <5>2. CASE mainPc'.at = "listener"
          BY ONLY <5>2, <1>1, <1>2, <2>1, <3>2, LoopOrder
        <5>3. QED
          BY <1>2, <5>1, <5>2
      <4>2. QED
        BY <3>2, <4>1 DEF PassedInv, Passed
    <3>3. QED
      BY <3>1, <3>2
  <2>2. QED
    BY <2>1 DEF PassedInv
<1>6. QED
  BY <1>3, <1>4, <1>5

-----------------------------------------------------------------------------

\* The variables of the first part of Start alone change.
Quiet == UNCHANGED <<bound, listening, threadCounter, acceptPc>>

\* A thread has been created for the loop Start is at.
LEMMA CreateThreadKeeps == StartInv /\ CreateThread /\ Quiet => StartInv'
<1> SUFFICES ASSUME StartInv, CreateThread, Quiet PROVE StartInv'
  OBVIOUS
<1> USE DEF StartInv, CreateThread
<1>1. mainPc.loop \in Loops /\ mainPc' = [at |-> "wait", loop |-> mainPc.loop]
  BY DEF ServerType
<1>2. \A l \in Loops : thread'[l] = IF l = mainPc.loop THEN "begun" ELSE thread[l]
  BY <1>1 DEF ServerType
<1>3. ServerType'
  BY <1>1 DEF ServerType, Quiet, Serving
<1>4. SetInv'
  BY <1>2 DEF SetInv
<1>5. EventInv'
  BY <1>1, <1>2 DEF EventInv, FutureInv
<1>6. FutureInv'
  <2>1. ~(mainPc.loop < mainPc.loop)
    BY <1>1, LoopFacts
  <2>2. mainPc.at \notin Serving
    BY DEF Serving
  <2>3. QED
    BY <1>1, <1>2, <2>1, <2>2 DEF FutureInv
<1>7. PassedInv'
  <2>1. ~(mainPc.loop < mainPc.loop)
    BY <1>1, LoopFacts
  <2>2. QED
    BY <1>1, <1>2, <2>1 DEF PassedInv, Passed, Serving
<1>8. QED
  BY <1>3, <1>4, <1>5, <1>6, <1>7

\* The place in Start after a loop is again a place in Start.
LEMMA StartedType ==
  ASSUME ServerType, mainPc.at \notin Serving, mainPc' = Started(mainPc.loop)
  PROVE  /\ mainPc' \in [at : {"create", "wait", "asleep"} \union Serving, loop : Loops]
         /\ mainPc'.at \in Serving => mainPc'.loop \in Acceptors
<1>1. Started(mainPc.loop) \in [at : {"create"} \union Serving, loop : Loops]
  BY StartedIsNext
<1>2. QED
  BY <1>1, StartedIsNext

\* A thread could not be created.
LEMMA CreateThreadFailsKeeps == StartInv /\ CreateThreadFails /\ Quiet => StartInv'
<1> SUFFICES ASSUME StartInv, CreateThreadFails, Quiet PROVE StartInv'
  OBVIOUS
<1> USE DEF StartInv, CreateThreadFails
<1>1. mainPc.loop \in Loops /\ mainPc.at \notin Serving
  BY DEF ServerType, Serving
<1>2. \A l \in Loops : thread'[l] = IF l = mainPc.loop THEN "failed" ELSE thread[l]
  BY <1>1 DEF ServerType
<1>3. ServerType'
  BY <1>1, StartedType DEF ServerType, Quiet
<1>4. SetInv'
  BY <1>2 DEF SetInv
<1>5. \A l \in Loops : event'[l].isSigned => thread'[l] = "running"
  BY <1>1, <1>2 DEF EventInv, FutureInv
<1>6. event'[mainPc.loop].asleep <= event'[mainPc.loop].waitingNum
  BY <1>1 DEF EventInv
<1>7. QED
  BY <1>1, <1>2, <1>3, <1>4, <1>5, <1>6, StartedKeeps

\* Start finds the signal, or falls asleep.
LEMMA WaitKeeps == StartInv /\ Wait /\ Quiet => StartInv'
<1> SUFFICES ASSUME StartInv, Wait, Quiet PROVE StartInv'
  OBVIOUS
<1> USE DEF StartInv, Wait
<1>1. mainPc.loop \in Loops /\ mainPc.at \notin Serving
  BY DEF ServerType, Serving
<1>2. event[mainPc.loop] \in EventType
  BY <1>1 DEF ServerType
<1>3. /\ event[mainPc.loop].waitingNum = 0
      /\ event[mainPc.loop].asleep = 0
  BY <1>1, <1>2 DEF FutureInv, EventInv, EventType
<1>4. SetInv'
  BY DEF SetInv
<1>5. CASE event[mainPc.loop].isSigned
  <2>1. event' = [event EXCEPT ![mainPc.loop] = Pass(@)] /\ mainPc' = Started(mainPc.loop)
    BY <1>5
  <2>2. \A l \in Loops : event'[l] = IF l = mainPc.loop THEN Pass(event[l]) ELSE event[l]
    BY <1>1, <2>1 DEF ServerType
  <2>3. /\ Pass(event[mainPc.loop]) \in EventType
        /\ Pass(event[mainPc.loop]).isSigned = FALSE
        /\ Pass(event[mainPc.loop]).asleep <= Pass(event[mainPc.loop]).waitingNum
    <3>1. /\ Pass(event[mainPc.loop]) \in EventType
          /\ Pass(event[mainPc.loop]).isSigned = FALSE
          /\ Pass(event[mainPc.loop]).waitingNum = 0
          /\ Pass(event[mainPc.loop]).asleep = 0
      BY ONLY <1>2, <1>3, PassFields
    <3>2. QED
      BY ONLY <3>1
  <2>4. ServerType'
    <3>1. event \in [Loops -> EventType]
      BY DEF ServerType
    <3>2. event' \in [Loops -> EventType]
      BY ONLY <1>1, <2>1, <2>3, <3>1, EventUpdate
    <3>3. QED
      BY <1>1, <2>1, <3>2, StartedType DEF ServerType, Quiet
  <2>5. messageLoop[mainPc.loop]
    BY <1>1, <1>5 DEF EventInv, SetInv
  <2>6. \A l \in Loops : event'[l].isSigned => thread'[l] = "running"
    BY <2>2, <2>3 DEF EventInv
  <2>7. QED
    BY <1>1, <1>4, <2>1, <2>2, <2>3, <2>4, <2>5, <2>6, StartedKeeps
<1>6. CASE ~event[mainPc.loop].isSigned
  <2>1. /\ event' = [event EXCEPT ![mainPc.loop] = Sleep(@)]
        /\ mainPc' = [at |-> "asleep", loop |-> mainPc.loop]
    BY <1>6 DEF ServerType
  <2>2. \A l \in Loops : event'[l] = IF l = mainPc.loop THEN Sleep(event[l]) ELSE event[l]
    BY <1>1, <2>1 DEF ServerType
  <2>3. /\ Sleep(event[mainPc.loop]) \in EventType
        /\ Sleep(event[mainPc.loop]).isSigned = event[mainPc.loop].isSigned
        /\ Sleep(event[mainPc.loop]).waitingNum = 1
        /\ Sleep(event[mainPc.loop]).asleep = 1
    BY ONLY <1>2, <1>3, SleepFields
  <2>4. ServerType'
    <3>1. event \in [Loops -> EventType]
      BY DEF ServerType
    <3>2. event' \in [Loops -> EventType]
      BY ONLY <1>1, <2>1, <2>3, <3>1, EventUpdate
    <3>3. QED
      BY <1>1, <2>1, <3>2 DEF ServerType, Quiet, Serving
  <2>5. EventInv'
    BY <1>1, <2>1, <2>2, <2>3 DEF EventInv
  <2>6. ~(mainPc.loop < mainPc.loop)
    BY <1>1, LoopFacts
  <2>7. FutureInv'
    BY <1>1, <2>1, <2>2, <2>6 DEF FutureInv, Serving
  <2>8. PassedInv'
    BY <1>1, <2>1 DEF PassedInv, Passed, Serving
  <2>9. QED
    BY <1>4, <2>4, <2>5, <2>7, <2>8
<1>7. QED
  BY <1>5, <1>6

\* The wait ends without the signal: the loop becomes an early one.
LEMMA WakeSpuriouslyKeeps == StartInv /\ WakeSpuriously /\ Quiet => StartInv'
<1> SUFFICES ASSUME StartInv, WakeSpuriously, Quiet PROVE StartInv'
  OBVIOUS
<1> USE DEF StartInv, WakeSpuriously
<1>1. mainPc.loop \in Loops
  BY DEF ServerType
<1>2. event[mainPc.loop] \in EventType /\ event \in [Loops -> EventType]
  BY <1>1 DEF ServerType
<1>3. /\ WakeUp(event[mainPc.loop]) \in EventType
      /\ WakeUp(event[mainPc.loop]).isSigned = event[mainPc.loop].isSigned
      /\ WakeUp(event[mainPc.loop]).waitingNum = event[mainPc.loop].waitingNum
      /\ WakeUp(event[mainPc.loop]).asleep = 0
  BY <1>2, WakeUpFields
<1>4. /\ event' \in [Loops -> EventType]
      /\ \A l \in Loops : event'[l] = IF l = mainPc.loop THEN WakeUp(event[l]) ELSE event[l]
  <2>1. event' = [event EXCEPT ![mainPc.loop] = WakeUp(event[mainPc.loop])]
    OBVIOUS
  <2>2. QED
    BY ONLY <1>1, <1>2, <1>3, <2>1, EventUpdate
<1>5. ServerType'
  BY <1>1, <1>4 DEF ServerType, Quiet
<1>6. SetInv'
  BY DEF SetInv
<1>7. EventInv'
  <2>1. ASSUME NEW l \in Loops, l # mainPc.loop
        PROVE  /\ event'[l].isSigned => thread'[l] = "running"
               /\ event'[l].asleep <= event'[l].waitingNum
    BY <1>4, <2>1 DEF EventInv
  <2>2. /\ event'[mainPc.loop].isSigned => thread'[mainPc.loop] = "running"
        /\ event'[mainPc.loop].waitingNum = 1
        /\ event'[mainPc.loop].asleep = 0
    BY <1>1, <1>3, <1>4 DEF EventInv
  <2>3. mainPc.loop \in early'
    OBVIOUS
  <2>4. QED
    BY <2>1, <2>2, <2>3 DEF EventInv
<1>8. FutureInv'
  <2>1. \A l \in Loops : event'[l].waitingNum = event[l].waitingNum
    BY <1>3, <1>4
  <2>2. QED
    BY <2>1 DEF FutureInv
<1>9. PassedInv'
  BY DEF PassedInv, Passed
<1>10. QED
  BY <1>5, <1>6, <1>7, <1>8, <1>9

\* Start goes on after a wait that the signal or nothing ended.
LEMMA WaitReturnsKeeps == StartInv /\ WaitReturns /\ Quiet => StartInv'
<1> SUFFICES ASSUME StartInv, WaitReturns, Quiet PROVE StartInv'
  OBVIOUS
<1> USE DEF StartInv, WaitReturns
<1>1. mainPc.loop \in Loops /\ mainPc.at \notin Serving
  BY DEF ServerType, Serving
<1>2. event[mainPc.loop] \in EventType /\ event \in [Loops -> EventType]
  BY <1>1 DEF ServerType
<1>3. event[mainPc.loop].waitingNum = 1 /\ event[mainPc.loop].asleep = 0
  BY <1>1, <1>2 DEF EventInv, Woken, EventType
<1>4. /\ Leave(event[mainPc.loop]) \in EventType
      /\ Leave(event[mainPc.loop]).isSigned = event[mainPc.loop].isSigned
      /\ Leave(event[mainPc.loop]).waitingNum = 0
      /\ Leave(event[mainPc.loop]).asleep = 0
  BY <1>2, <1>3, LeaveFields
<1>5. /\ event' \in [Loops -> EventType]
      /\ \A l \in Loops : event'[l] = IF l = mainPc.loop THEN Leave(event[l]) ELSE event[l]
  <2>1. event' = [event EXCEPT ![mainPc.loop] = Leave(event[mainPc.loop])]
    OBVIOUS
  <2>2. QED
    BY ONLY <1>1, <1>2, <1>4, <2>1, EventUpdate
<1>6. ServerType'
  BY <1>1, <1>5, StartedType DEF ServerType, Quiet
<1>7. SetInv'
  BY DEF SetInv
<1>8. \A l \in Loops : event'[l].isSigned => thread'[l] = "running"
  BY <1>4, <1>5 DEF EventInv
<1>9. event'[mainPc.loop].asleep <= event'[mainPc.loop].waitingNum
  <2>1. event'[mainPc.loop].asleep = 0 /\ event'[mainPc.loop].waitingNum = 0
    BY <1>1, <1>4, <1>5
  <2>2. QED
    BY ONLY <2>1
<1>10. messageLoop[mainPc.loop] \/ mainPc.loop \in early
  BY <1>1, <1>3 DEF EventInv, SetInv
<1>11. QED
  BY <1>1, <1>5, <1>6, <1>7, <1>8, <1>9, <1>10, StartedKeeps

\* A new thread sets its loop.
LEMMA SetMessageLoopKeeps ==
  ASSUME NEW l \in Loops, StartInv, SetMessageLoop(l), Quiet
  PROVE  StartInv'
<1> USE DEF StartInv, SetMessageLoop
<1>1. \A k \in Loops : thread'[k] = IF k = l THEN "set" ELSE thread[k]
  BY DEF ServerType
<1>2. \A k \in Loops : messageLoop'[k] = IF k = l THEN TRUE ELSE messageLoop[k]
  BY DEF ServerType
<1>3. ServerType'
  BY DEF ServerType, Quiet
<1>4. SetInv'
  BY <1>1, <1>2 DEF SetInv
<1>5. EventInv'
  BY <1>1 DEF EventInv
<1>6. FutureInv'
  BY <1>1 DEF FutureInv
<1>7. PassedInv'
  BY <1>1, <1>2 DEF PassedInv, Passed
<1>8. QED
  BY <1>3, <1>4, <1>5, <1>6, <1>7

\* A new thread signals that it has set its loop.
LEMMA SignalStartedKeeps ==
  ASSUME NEW l \in Loops, StartInv, SignalStarted(l), Quiet
  PROVE  StartInv'
<1> USE DEF StartInv, SignalStarted
<1>1. \A k \in Loops : thread'[k] = IF k = l THEN "running" ELSE thread[k]
  BY DEF ServerType
<1>2. event[l] \in EventType /\ event \in [Loops -> EventType]
  BY DEF ServerType
<1>3. /\ Signal(event[l]) \in EventType
      /\ Signal(event[l]).waitingNum = event[l].waitingNum
      /\ Signal(event[l]).asleep <= event[l].asleep
  BY <1>2, SignalFields
<1>4. /\ event' \in [Loops -> EventType]
      /\ \A k \in Loops : event'[k] = IF k = l THEN Signal(event[l]) ELSE event[k]
  <2>1. event' = [event EXCEPT ![l] = Signal(event[l])]
    OBVIOUS
  <2>2. QED
    BY ONLY <1>2, <1>3, <2>1, EventUpdate, l \in Loops
<1>5. ServerType'
  BY <1>4 DEF ServerType, Quiet
<1>6. SetInv'
  BY <1>1 DEF SetInv
<1>7. \A k \in Loops : event'[k].waitingNum = event[k].waitingNum
  BY <1>3, <1>4
<1>8. EventInv'
  <2>1. ASSUME NEW k \in Loops, k # l
        PROVE  event'[k] = event[k] /\ thread'[k] = thread[k]
    BY <1>1, <1>4, <2>1
  <2>2. thread'[l] = "running"
    BY <1>1
  <2>3. event'[l].asleep <= event'[l].waitingNum
    <3>1. event[l].asleep <= event[l].waitingNum
      BY DEF EventInv
    <3>2. QED
      BY <1>2, <1>3, <1>4, <3>1 DEF EventType
  <2>4. QED
    BY <1>7, <2>1, <2>2, <2>3 DEF EventInv
<1>9. FutureInv'
  BY <1>1, <1>7 DEF FutureInv
<1>10. PassedInv'
  BY <1>1 DEF PassedInv, Passed
<1>11. QED
  BY <1>5, <1>6, <1>8, <1>9, <1>10

-----------------------------------------------------------------------------

\* Whoever leaves alone what AcceptInv speaks of, and does not take Start back, keeps it.
LEMMA AcceptKept ==
  ASSUME AcceptInv, Quiet, mainPc.at \in Serving => mainPc'.at \in Serving
  PROVE  AcceptInv'
BY DEF AcceptInv, Quiet

\* The first part of Start, on both sides, keeps the whole invariant.
LEMMA StartKeeps ==
  ASSUME ServerInv, ~crashed,
         \/ StartStep
         \/ SpuriousStep
         \/ \E l \in Loops : ThreadStep(l)
  PROVE  ServerInv'
<1> USE DEF ServerInv
<1>1. Quiet /\ ~crashed'
  BY DEF StartStep, SpuriousStep, ThreadStep, listenVars, acceptVars, Quiet
<1>2. NullNeedsFailure'
  BY <1>1 DEF NullNeedsFailure
<1>3. mainPc.at \in Serving => mainPc'.at \in Serving
  BY DEF StartStep, SpuriousStep, ThreadStep, CreateThread, CreateThreadFails, Wait,
         WakeSpuriously, WaitReturns, SetMessageLoop, SignalStarted, Serving
<1>4. StartInv'
  <2>1. CASE StartStep
    BY <1>1, <2>1, CreateThreadKeeps, CreateThreadFailsKeeps, WaitKeeps, WaitReturnsKeeps
       DEF StartStep
  <2>2. CASE SpuriousStep
    BY <1>1, <2>2, WakeSpuriouslyKeeps DEF SpuriousStep
  <2>3. CASE \E l \in Loops : ThreadStep(l)
    BY <1>1, <2>3, SetMessageLoopKeeps, SignalStartedKeeps DEF ThreadStep
  <2>4. QED
    BY <2>1, <2>2, <2>3
<1>5. TakenInv'
  <2>1. CASE StartStep
    <3>1. mainPc.at \notin Serving /\ mainPc.loop \in Loops
      BY <2>1 DEF StartStep, CreateThread, CreateThreadFails, Wait, WaitReturns, Serving,
                  StartInv, ServerType
    <3>2. Started(mainPc.loop).at \in {"create", "listener"}
      BY <3>1, StartedIsNext DEF StartInv
    <3>3. mainPc'.at # "listen on NULL"
      BY <2>1, <3>1, <3>2
         DEF StartStep, CreateThread, CreateThreadFails, Wait, WaitReturns, StartInv,
             ServerType
    <3>4. QED
      BY <3>3 DEF TakenInv
  <2>2. CASE SpuriousStep
    BY <2>2 DEF SpuriousStep, WakeSpuriously, TakenInv
  <2>3. CASE \E l \in Loops : ThreadStep(l)
    <3>1. /\ UNCHANGED <<mainPc, early>>
          /\ \A l \in Loops : thread[l] = "failed" => thread'[l] = "failed"
      BY <2>3 DEF ThreadStep, SetMessageLoop, SignalStarted, StartInv, ServerType
    <3>2. QED
      BY <3>1 DEF TakenInv
  <2>4. QED
    BY <2>1, <2>2, <2>3
<1>6. QED
  BY <1>1, <1>2, <1>3, <1>4, <1>5, AcceptKept

\* The main thread in the second part of Start disturbs nothing of the first.
LEMMA ServingKeeps ==
  ASSUME StartInv, mainPc.at \in Serving, mainPc'.at \in Serving, ServerType',
         UNCHANGED <<thread, messageLoop, event, early>>
  PROVE  StartInv'
<1> USE DEF StartInv
<1>1. SetInv'
  BY DEF SetInv
<1>2. EventInv'
  BY DEF EventInv, Serving
<1>3. FutureInv'
  BY DEF FutureInv, Serving
<1>4. PassedInv'
  BY DEF PassedInv, Passed
<1>5. QED
  BY <1>1, <1>2, <1>3, <1>4

\* A loop that Start has left behind and that is NULL is there because of a failure.
LEMMA NullIsFailed ==
  ASSUME PassedInv, mainPc.at \in Serving, NEW l \in Loops, ~messageLoop[l]
  PROVE  early # {} \/ thread[l] = "failed"
BY DEF PassedInv, Passed

\* The socket with the address stays the only one, and a Listener without a loop is
\* there because of a failure.
LEMMA ListenKeeps ==
  ASSUME ServerInv, ListenStep
  PROVE  ServerInv'
<1> USE DEF ServerInv, StartInv
<1>1. UNCHANGED <<thread, messageLoop, event, early, threadCounter, acceptPc>>
  BY DEF ListenStep, acceptVars
<1>2. CASE CreateListener
  <2>1. /\ mainPc.at \in Serving /\ mainPc.loop \in Acceptors
        /\ mainPc'.at \in {"listen", "listen on NULL"}
        /\ mainPc' = [at |-> mainPc'.at, loop |-> mainPc.loop]
        /\ mainPc'.at = "listen on NULL" => ~messageLoop[mainPc.loop]
    BY <1>2 DEF CreateListener, ServerType, Serving
  <2>2. bound' \in Nat
    <3>1. bound' = mainPc.loop \/ bound' = bound
      BY <1>2 DEF CreateListener
    <3>2. mainPc.loop \in Loops /\ bound \in Nat
      BY <2>1, LoopFacts DEF ServerType
    <3>3. Loops \subseteq Nat
      BY LoopFacts
    <3>4. QED
      BY <3>1, <3>2, <3>3
  <2>3. ServerType'
    BY <1>1, <1>2, <2>1, <2>2, LoopFacts DEF CreateListener, ServerType, Serving
  <2>4. StartInv'
    BY <1>1, <2>1, <2>3, ServingKeeps DEF Serving
  <2>5. AcceptInv'
    <3>1. listening' = listening /\ mainPc'.at \in Serving
      BY <1>2, <2>1 DEF CreateListener, Serving
    <3>2. listening \subseteq {bound'}
      <4>1. CASE bound = 0
        BY <4>1, LoopFacts DEF AcceptInv, ServerType
      <4>2. CASE bound # 0
        BY <1>2, <4>2 DEF AcceptInv, CreateListener, MayBind
      <4>3. QED
        BY <4>1, <4>2
    <3>3. QED
      BY <1>1, <3>1, <3>2 DEF AcceptInv
  <2>6. NullNeedsFailure'
    BY <1>1, <1>2 DEF NullNeedsFailure, CreateListener
  <2>7. TakenInv'
    <3>1. mainPc.loop \in Loops
      BY <2>1, LoopFacts
    <3>2. QED
      BY <1>1, <2>1, <3>1, NullIsFailed DEF TakenInv
  <2>8. QED
    BY <2>4, <2>5, <2>6, <2>7
<1>3. CASE Listen
  <2>1. /\ mainPc.at \in Serving /\ mainPc.loop \in Acceptors
        /\ bound' = bound
    BY <1>3 DEF Listen, ServerType, Serving
  <2>2. mainPc' \in [at : Serving, loop : Acceptors] /\ mainPc'.at # "listen on NULL"
    BY <1>3, <2>1 DEF Listen, Serving
  <2>3. /\ listening' \subseteq Acceptors
        /\ listening \subseteq listening'
        /\ listening' \subseteq {bound}
    BY <1>3, <2>1 DEF Listen, ServerType, AcceptInv
  <2>4. ServerType'
    BY <1>1, <2>1, <2>2, <2>3, LoopFacts DEF ServerType
  <2>5. StartInv'
    BY <1>1, <2>1, <2>2, <2>4, ServingKeeps
  <2>6. AcceptInv'
    BY <1>1, <2>1, <2>2, <2>3 DEF AcceptInv
  <2>7. NullNeedsFailure'
    <3>1. crashed' => mainPc.at = "listen on NULL"
      BY <1>3 DEF Listen
    <3>2. QED
      BY <1>1, <3>1 DEF TakenInv, NullNeedsFailure
  <2>8. TakenInv'
    BY <2>2 DEF TakenInv
  <2>9. QED
    BY <2>5, <2>6, <2>7, <2>8
<1>4. QED
  BY <1>2, <1>3 DEF ListenStep

-----------------------------------------------------------------------------

\* A Listener alone moves its place in Accept and the counter; whoever else is inside
\* Accept listens too, and so is the same.
LEMMA AcceptStepKeeps ==
  ASSUME ServerInv, ~crashed, NEW a \in Acceptors, AcceptStep(a)
  PROVE  ServerInv'
<1> USE DEF ServerInv, StartInv
<1>1. /\ UNCHANGED <<mainPc, thread, messageLoop, event, early>>
      /\ UNCHANGED <<bound, listening>>
  BY DEF AcceptStep, startVars, listenVars
<1>2. /\ acceptPc' = [acceptPc EXCEPT ![a] = acceptPc'[a]]
      /\ acceptPc'[a] \in {"idle", "test", "reset", "index", "insert", "inserting", "start"}
      /\ a \in listening
      /\ threadCounter' \in Nat
      /\ acceptPc'[a] = "index" => threadCounter' < IoNum
  <2>1. CASE \E fd \in BOOLEAN : Accept(a, fd)
    BY <2>1 DEF Accept, ServerType
  <2>2. CASE TestCounter(a)
    BY <2>2, LoopFacts DEF TestCounter, PastEnd, ServerType, AcceptInv
  <2>3. CASE ResetCounter(a)
    BY <2>3, LoopFacts DEF ResetCounter, ServerType, AcceptInv
  <2>4. CASE PickLoop(a)
    BY <2>4 DEF PickLoop, ServerType, AcceptInv
  <2>5. CASE BeginInsert(a)
    BY <2>5 DEF BeginInsert, ServerType, AcceptInv
  <2>6. CASE EndInsert(a)
    BY <2>6 DEF EndInsert, ServerType, AcceptInv
  <2>7. CASE StartConnection(a)
    BY <2>7 DEF StartConnection, ServerType, AcceptInv
  <2>8. QED
    BY <2>1, <2>2, <2>3, <2>4, <2>5, <2>6, <2>7 DEF AcceptStep
<1>3. acceptPc' \in [Acceptors -> {"idle", "test", "reset", "index", "insert",
                                   "inserting", "start"}]
  BY <1>2 DEF ServerType
<1>4. StartInv'
  <2>1. ServerType'
    BY <1>1, <1>2, <1>3 DEF ServerType
  <2>2. QED
    BY <1>1, <2>1 DEF SetInv, EventInv, FutureInv, PassedInv, Passed
<1>5. \A b \in Acceptors : b # a => acceptPc[b] = "idle" /\ acceptPc'[b] = acceptPc[b]
  BY <1>2 DEF AcceptInv, ServerType
<1>6. AcceptInv'
  BY <1>1, <1>2, <1>5 DEF AcceptInv
<1>7. NullNeedsFailure'
  <2>1. CASE PickLoop(a)
    <3>1. threadCounter < IoNum /\ threadCounter \in Nat
      BY <2>1 DEF PickLoop, AcceptInv, ServerType
    <3>2. PickedLoop \in IoLoops /\ PickedLoop \in Loops
      BY <3>1, LoopFacts DEF PickedLoop, IoLoops
    <3>3. crashed' => ~messageLoop[PickedLoop]
      BY <2>1, <3>2 DEF PickLoop
    <3>4. mainPc.at \in Serving
      BY <1>2 DEF AcceptInv
    <3>5. QED
      BY <1>1, <3>2, <3>3, <3>4, NullIsFailed DEF NullNeedsFailure
  <2>2. CASE ~PickLoop(a)
    <3>1. UNCHANGED crashed
      BY <2>2 DEF AcceptStep, Accept, TestCounter, ResetCounter, BeginInsert, EndInsert,
                  StartConnection
    <3>2. QED
      BY <3>1 DEF NullNeedsFailure
  <2>3. QED
    BY <2>1, <2>2
<1>8. TakenInv'
  BY <1>1 DEF TakenInv
<1>9. QED
  BY <1>4, <1>6, <1>7, <1>8

\* The connections, once there, change nothing that the invariant speaks of.
LEMMA Untouched ==
  ASSUME ServerInv, UNCHANGED <<startVars, listenVars, threadCounter, acceptPc, crashed>>
  PROVE  ServerInv'
BY DEF ServerInv, StartInv, ServerType, SetInv, EventInv, FutureInv, PassedInv, Passed,
       TakenInv, AcceptInv, NullNeedsFailure, startVars, listenVars

\* The initial states satisfy the invariant.
LEMMA ServerInit == Init => ServerInv
<1> SUFFICES ASSUME Init PROVE ServerInv
  OBVIOUS
<1> USE DEF Init
<1>1. Acceptors \subseteq Loops /\ 1 \in Acceptors /\ Loops \subseteq Nat /\ 1 \in Loops
  BY LoopFacts
<1>2. NewEvent \in EventType
  BY DEF NewEvent, EventType
<1>3. ServerType
  BY <1>1, <1>2, ServerAssumption DEF ServerType, Serving
<1>4. SetInv
  BY DEF SetInv
<1>5. EventInv
  BY DEF EventInv, NewEvent
<1>6. FutureInv
  BY DEF FutureInv, NewEvent
<1>7. PassedInv
  <2>1. \A l \in Loops : ~(l < 1)
    BY LoopFacts
  <2>2. QED
    BY <2>1 DEF PassedInv, Passed, Serving
<1>8. AcceptInv
  BY DEF AcceptInv
<1>9. NullNeedsFailure
  BY DEF NullNeedsFailure
<1>10. TakenInv
  BY DEF TakenInv
<1>11. QED
  BY <1>3, <1>4, <1>5, <1>6, <1>7, <1>8, <1>9, <1>10 DEF ServerInv, StartInv

\* Every reachable state satisfies the invariant.
LEMMA ServerInvariant == Spec => []ServerInv
<1>1. Init => ServerInv
  BY ServerInit
<1>2. ServerInv /\ [Next]_vars => ServerInv'
  <2> SUFFICES ASSUME ServerInv, [Next]_vars PROVE ServerInv'
    OBVIOUS
  <2>1. CASE ~crashed /\ (StartStep \/ SpuriousStep \/ \E l \in Loops : ThreadStep(l))
    BY <2>1, StartKeeps
  <2>2. CASE ListenStep
    BY <2>2, ListenKeeps
  <2>3. CASE ~crashed /\ \E a \in Acceptors : AcceptStep(a)
    BY <2>3, AcceptStepKeeps
  <2>4. CASE \E c \in DOMAIN conns : ConnStep(c)
    BY <2>4, Untouched DEF ConnStep, Watch, BeginErase, EndErase
  <2>5. CASE UNCHANGED vars
    BY <2>5, Untouched DEF vars, acceptVars
  <2>6. QED
    BY <2>1, <2>2, <2>3, <2>4, <2>5 DEF Next, Running
<1>3. QED
  BY <1>1, <1>2, PTL DEF Spec

-----------------------------------------------------------------------------
(* connectionManager_ *)

States == {"new", "open", "watched", "erasing", "closed"}

Conn == [by : Acceptors, loop : Nat, state : States, fd : BOOLEAN]

RegistryType ==
  /\ conns \in Seq(Conn)
  /\ manager \in [Acceptors -> SUBSET Nat]
  /\ raced \in [Acceptors -> BOOLEAN]

LatestIn(cs, a, c) ==
  /\ c \in DOMAIN cs
  /\ cs[c].by = a
  /\ \A d \in DOMAIN cs : cs[d].by = a => d <= c

\* The connection a Listener is at work on is the only one of its not started yet.
NewInv ==
  /\ \A a \in Acceptors :
       acceptPc[a] # "idle" => \E c : LatestIn(conns, a, c) /\ conns[c].state = "new"
  /\ \A c \in DOMAIN conns :
       conns[c].state = "new" => acceptPc[conns[c].by] # "idle" /\ LatestIn(conns, conns[c].by, c)

\* SetIsExact, and that a connection is in the set before it is started.
EnteredInv ==
  \A c \in DOMAIN conns :
    ~raced[conns[c].by] =>
      /\ conns[c].state \in {"open", "watched"} => c \in manager[conns[c].by]
      /\ conns[c].state = "new" /\ acceptPc[conns[c].by] = "start" =>
           c \in manager[conns[c].by]
      /\ conns[c].state = "closed" => c \notin manager[conns[c].by]

RegistryInv == RegistryType /\ NewInv /\ EnteredInv

LEMMA ConnFields ==
  ASSUME NEW cs \in Seq(Conn), NEW c \in DOMAIN cs
  PROVE  cs[c] \in Conn /\ cs[c].by \in Acceptors /\ cs[c].state \in States /\ c \in Nat
<1>1. DOMAIN cs = 1 .. Len(cs) /\ Len(cs) \in Nat
  BY LenProperties
<1>2. cs[c] \in Conn
  BY <1>1, ElementOfSeq
<1> QED
  BY <1>1, <1>2 DEF Conn

\* What a change of the state of one connection leaves behind.
LEMMA StateUpdate ==
  ASSUME NEW cs \in Seq(Conn), NEW c \in DOMAIN cs, NEW s \in States
  PROVE  /\ [cs EXCEPT ![c].state = s] \in Seq(Conn)
         /\ DOMAIN [cs EXCEPT ![c].state = s] = DOMAIN cs
         /\ \A d \in DOMAIN cs :
              /\ [cs EXCEPT ![c].state = s][d].by = cs[d].by
              /\ [cs EXCEPT ![c].state = s][d].state = IF d = c THEN s ELSE cs[d].state
<1>1. DOMAIN cs = 1 .. Len(cs) /\ Len(cs) \in Nat /\ cs \in [1 .. Len(cs) -> Conn]
  BY LenProperties
<1>2. [cs EXCEPT ![c].state = s] = [cs EXCEPT ![c] = [cs[c] EXCEPT !.state = s]]
  OBVIOUS
<1>3. cs[c] \in Conn
  BY <1>1
<1>4. /\ [cs[c] EXCEPT !.state = s] \in Conn
      /\ [cs[c] EXCEPT !.state = s].by = cs[c].by
      /\ [cs[c] EXCEPT !.state = s].state = s
  BY <1>3 DEF Conn
<1> DEFINE e == [cs[c] EXCEPT !.state = s]
<1> HIDE DEF e
<1>5. /\ [cs EXCEPT ![c] = e] \in Seq(Conn)
      /\ DOMAIN [cs EXCEPT ![c] = e] = DOMAIN cs
      /\ \A d \in DOMAIN cs : [cs EXCEPT ![c] = e][d] = IF d = c THEN e ELSE cs[d]
  BY <1>1, <1>4, ExceptSeq DEF e
<1> QED
  BY <1>2, <1>4, <1>5 DEF e

\* The latest connection of a Listener is one.
LEMMA LatestIsOne ==
  ASSUME RegistryType, NEW a, NEW c, NEW d, LatestIn(conns, a, c), LatestIn(conns, a, d)
  PROVE  c = d
<1>1. DOMAIN conns = 1 .. Len(conns) /\ Len(conns) \in Nat
  BY LenProperties DEF RegistryType
<1>2. c \in Nat /\ d \in Nat /\ c <= d /\ d <= c
  BY <1>1 DEF LatestIn
<1> QED
  BY <1>2

LEMMA CurrentIsNew ==
  ASSUME RegistryType, NewInv, NEW a \in Acceptors, acceptPc[a] # "idle"
  PROVE  /\ LatestIn(conns, a, Current(a)) /\ conns[Current(a)].state = "new"
         /\ \A c \in DOMAIN conns :
              conns[c].state = "new" /\ conns[c].by = a => c = Current(a)
<1>1. PICK c : LatestIn(conns, a, c) /\ conns[c].state = "new"
  BY DEF NewInv
<1>2. LatestIn(conns, a, Current(a))
  BY <1>1 DEF LatestIn, Current
<1>3. Current(a) = c
  BY <1>1, <1>2, LatestIsOne
<1> QED
  BY <1>1, <1>2, <1>3, LatestIsOne DEF NewInv

\* Steps that move no connection and enter or remove none.
LEMMA RegistryKept ==
  ASSUME RegistryInv, UNCHANGED <<conns, manager>>,
         raced' \in [Acceptors -> BOOLEAN],
         \A a \in Acceptors : raced[a] => raced'[a],
         \A a \in Acceptors :
           \/ acceptPc'[a] = acceptPc[a]
           \/ acceptPc[a] # "idle" /\ acceptPc'[a] \notin {"idle", "start"}
  PROVE  RegistryInv'
<1>1. RegistryType /\ NewInv /\ EnteredInv
  BY DEF RegistryInv
<1>2. RegistryType'
  BY <1>1 DEF RegistryType
<1>3. \A c \in DOMAIN conns : conns[c].by \in Acceptors
  BY <1>1, ConnFields DEF RegistryType
<1>4. NewInv'
  BY <1>1, <1>3 DEF NewInv, LatestIn
<1>5. EnteredInv'
  BY <1>1, <1>3 DEF EnteredInv
<1> QED
  BY <1>2, <1>4, <1>5 DEF RegistryInv

\* A connection has been accepted: it is the Listener's latest, and in no set yet.
LEMMA AcceptRegistry ==
  ASSUME RegistryInv, ServerType, NEW a \in Acceptors,
         NEW fd \in BOOLEAN, Accept(a, fd)
  PROVE  RegistryInv'
<1> DEFINE new == [by |-> a, loop |-> 0, state |-> "new", fd |-> fd]
<1>n. PICK n : n = Len(conns) + 1
  OBVIOUS
<1>1. /\ acceptPc[a] = "idle" /\ conns' = Append(conns, new) /\ UNCHANGED setVars
      /\ acceptPc'[a] = "test" /\ \A b \in Acceptors : b # a => acceptPc'[b] = acceptPc[b]
  BY DEF Accept, ServerType
<1>2. RegistryType /\ NewInv /\ EnteredInv /\ conns \in Seq(Conn)
  BY DEF RegistryInv, RegistryType
<1>3. new \in Conn /\ new.by = a /\ new.state = "new"
  BY DEF Conn, States
<1> HIDE DEF new
<1>4. /\ conns' \in Seq(Conn) /\ Len(conns') = Len(conns) + 1
      /\ \A c \in 1 .. Len(conns) : conns'[c] = conns[c]
      /\ conns'[n] = new
  BY <1>n, <1>1, <1>2, <1>3, AppendProperties
<1>5. /\ Len(conns) \in Nat /\ DOMAIN conns = 1 .. Len(conns)
      /\ DOMAIN conns' = 1 .. Len(conns')
  BY <1>2, <1>4, LenProperties
<1>6. /\ n \in DOMAIN conns' /\ n \notin DOMAIN conns
      /\ \A c \in DOMAIN conns' : c = n \/ c \in DOMAIN conns
      /\ \A c \in DOMAIN conns : c \in DOMAIN conns' /\ conns'[c] = conns[c]
      /\ \A c \in DOMAIN conns' : c <= n
  BY <1>n, <1>4, <1>5
<1>7. \A c \in DOMAIN conns : conns[c].by \in Acceptors
  BY <1>2, ConnFields
<1>8. RegistryType'
  BY <1>1, <1>2, <1>4 DEF RegistryType, setVars
<1>9. NewInv'
  <2>1. LatestIn(conns', a, n) /\ conns'[n].state = "new" /\ conns'[n].by = a
    BY <1>3, <1>4, <1>6 DEF LatestIn
  <2>2. ASSUME NEW b \in Acceptors, b # a, NEW c, LatestIn(conns, b, c)
        PROVE  LatestIn(conns', b, c) /\ conns'[c] = conns[c]
    <3>1. c \in DOMAIN conns /\ conns[c].by = b /\ \A d \in DOMAIN conns : conns[d].by = b => d <= c
      BY <2>2 DEF LatestIn
    <3>2. conns'[n].by # b
      BY <2>1, <2>2
    <3>3. \A d \in DOMAIN conns' : conns'[d].by = b => d <= c
      BY <1>6, <3>1, <3>2
    <3> QED
      BY <1>6, <3>1, <3>3 DEF LatestIn
  <2>3. ASSUME NEW c \in DOMAIN conns, conns[c].state = "new"
        PROVE  conns[c].by # a
    BY <1>1, <1>2, <2>3 DEF NewInv
  <2>4. ASSUME NEW b \in Acceptors, acceptPc'[b] # "idle"
        PROVE  \E c : LatestIn(conns', b, c) /\ conns'[c].state = "new"
    <3>1. CASE b = a
      BY <2>1, <3>1
    <3>2. CASE b # a
      <4>1. PICK c : LatestIn(conns, b, c) /\ conns[c].state = "new"
        BY <1>1, <1>2, <2>4, <3>2 DEF NewInv
      <4> QED
        BY <2>2, <3>2, <4>1
    <3> QED
      BY <3>1, <3>2
  <2>5. ASSUME NEW c \in DOMAIN conns', conns'[c].state = "new"
        PROVE  acceptPc'[conns'[c].by] # "idle" /\ LatestIn(conns', conns'[c].by, c)
    <3>1. CASE c = n
      BY <1>1, <2>1, <3>1
    <3>2. CASE c # n
      <4>1. c \in DOMAIN conns /\ conns'[c] = conns[c] /\ conns[c].state = "new"
        BY <1>6, <2>5, <3>2
      <4>2. conns[c].by # a /\ conns[c].by \in Acceptors
            /\ acceptPc[conns[c].by] # "idle" /\ LatestIn(conns, conns[c].by, c)
        BY <1>2, <1>7, <2>3, <4>1 DEF NewInv
      <4>3. LatestIn(conns', conns[c].by, c) /\ acceptPc'[conns[c].by] # "idle"
        BY <1>1, <2>2, <4>2
      <4>4. conns'[c].by = conns[c].by
        BY <4>1
      <4> QED
        BY <4>3, <4>4
    <3> QED
      BY <3>1, <3>2
  <2> QED
    BY <2>4, <2>5 DEF NewInv
<1>10. EnteredInv'
  BY <1>1, <1>2, <1>3, <1>4, <1>6, <1>7 DEF EnteredInv, setVars
<1> QED
  BY <1>8, <1>9, <1>10 DEF RegistryInv

\* The loop has been picked; the connection is still a new one.
LEMMA PickRegistry ==
  ASSUME RegistryInv, ServerType,
         NEW a \in Acceptors, PickLoop(a)
  PROVE  RegistryInv'
<1>1. /\ acceptPc[a] = "index" /\ UNCHANGED setVars
      /\ acceptPc'[a] = "insert" /\ \A b \in Acceptors : b # a => acceptPc'[b] = acceptPc[b]
      /\ \/ UNCHANGED conns
         \/ conns' = [conns EXCEPT ![Current(a)].loop = PickedLoop,
                                   ![Current(a)].state = "new"]
  BY DEF PickLoop, Constructed, ServerType
<1>2. RegistryType /\ NewInv /\ EnteredInv /\ conns \in Seq(Conn)
  BY DEF RegistryInv, RegistryType
<1>3. LatestIn(conns, a, Current(a)) /\ conns[Current(a)].state = "new" /\ Current(a) \in DOMAIN conns
  BY <1>1, <1>2, CurrentIsNew DEF LatestIn
<1>4. /\ conns' \in Seq(Conn) /\ DOMAIN conns' = DOMAIN conns
      /\ \A c \in DOMAIN conns :
           conns'[c].by = conns[c].by /\ conns'[c].state = conns[c].state
  <2>1. CASE UNCHANGED conns
    BY <1>2, <2>1
  <2>2. CASE conns' = [conns EXCEPT ![Current(a)].loop = PickedLoop,
                                    ![Current(a)].state = "new"]
    <3>1. PickedLoop \in Nat
      BY LoopFacts DEF PickedLoop, ServerType
    <3> DEFINE old == conns[Current(a)]
               new == [[old EXCEPT !.loop = PickedLoop] EXCEPT !.state = "new"]
    <3>2. old \in Conn /\ old.state = "new"
      BY <1>2, <1>3, ConnFields
    <3>3. conns' = [conns EXCEPT ![Current(a)] = new]
      BY <2>2
    <3> HIDE DEF old
    <3>4. new \in Conn /\ new.by = old.by /\ new.state = old.state
      BY <3>1, <3>2 DEF Conn
    <3> HIDE DEF new
    <3>5. DOMAIN conns = 1 .. Len(conns)
      BY <1>2, LenProperties
    <3>6. /\ conns' \in Seq(Conn) /\ DOMAIN conns' = DOMAIN conns
          /\ \A c \in DOMAIN conns : conns'[c] = IF c = Current(a) THEN new ELSE conns[c]
      BY <1>2, <1>3, <3>3, <3>4, <3>5, ExceptSeq
    <3> QED
      BY <3>4, <3>6 DEF old
  <2> QED
    BY <1>1, <2>1, <2>2
<1>5. \A c \in DOMAIN conns : conns[c].by \in Acceptors
  BY <1>2, ConnFields
<1>6. RegistryType'
  BY <1>1, <1>2, <1>4 DEF RegistryType, setVars
<1>7. NewInv'
  <2>1. \A b, c : LatestIn(conns, b, c) => LatestIn(conns', b, c)
    BY <1>4 DEF LatestIn
  <2>2. \A b, c : LatestIn(conns, b, c) => c \in DOMAIN conns
    BY DEF LatestIn
  <2> QED
    BY <1>1, <1>2, <1>4, <1>5, <2>1, <2>2 DEF NewInv
<1>8. EnteredInv'
  BY <1>1, <1>2, <1>4, <1>5 DEF EnteredInv, setVars
<1> QED
  BY <1>6, <1>7, <1>8 DEF RegistryInv

\* insert() ends; what it leaves is certain unless somebody else was inside the set.
LEMMA EndInsertRegistry ==
  ASSUME RegistryInv, ServerType, NEW a \in Acceptors, EndInsert(a)
  PROVE  RegistryInv'
<1>1. /\ acceptPc[a] = "inserting" /\ UNCHANGED <<conns, raced>>
      /\ acceptPc'[a] = "start" /\ \A b \in Acceptors : b # a => acceptPc'[b] = acceptPc[b]
  BY DEF EndInsert, ServerType
<1>2. RegistryType /\ NewInv /\ EnteredInv /\ conns \in Seq(Conn)
  BY DEF RegistryInv, RegistryType
<1>3. PICK m : m = Current(a)
  OBVIOUS
<1>4. /\ m \in DOMAIN conns /\ conns[m].state = "new" /\ conns[m].by = a
      /\ \A c \in DOMAIN conns : conns[c].state = "new" /\ conns[c].by = a => c = m
  BY <1>1, <1>2, <1>3, CurrentIsNew DEF LatestIn
<1>5. \A c \in DOMAIN conns : conns[c].by \in Acceptors /\ c \in Nat
  BY <1>2, ConnFields
<1>6. PICK entered \in {manager[a] \union {m}} \union (IF raced[a] THEN {manager[a]} ELSE {}) :
        manager' = [manager EXCEPT ![a] = entered]
  BY <1>3 DEF EndInsert
<1>7. /\ entered \subseteq Nat /\ (~raced[a] => entered = manager[a] \union {m})
      /\ manager'[a] = entered
      /\ \A b \in Acceptors : b # a => manager'[b] = manager[b]
      /\ manager' \in [Acceptors -> SUBSET Nat]
  BY <1>2, <1>4, <1>5, <1>6 DEF RegistryType
<1>8. RegistryType'
  BY <1>1, <1>2, <1>7 DEF RegistryType
<1>9. NewInv'
  BY <1>1, <1>2, <1>5 DEF NewInv
<1>10. EnteredInv'
  <2>1. ASSUME NEW c \in DOMAIN conns, ~raced[conns[c].by]
        PROVE  /\ conns[c].state \in {"open", "watched"} => c \in manager'[conns[c].by]
               /\ conns[c].state = "new" /\ acceptPc'[conns[c].by] = "start" =>
                    c \in manager'[conns[c].by]
               /\ conns[c].state = "closed" => c \notin manager'[conns[c].by]
    <3>1. CASE conns[c].by = a
      BY <1>2, <1>4, <1>7, <2>1, <3>1 DEF EnteredInv
    <3>2. CASE conns[c].by # a
      BY <1>1, <1>2, <1>5, <1>7, <2>1, <3>2 DEF EnteredInv
    <3> QED
      BY <3>1, <3>2
  <2> QED
    BY <1>1, <2>1 DEF EnteredInv
<1> QED
  BY <1>8, <1>9, <1>10 DEF RegistryInv

\* The connection is started: it is in the set by now.
LEMMA StartRegistry ==
  ASSUME RegistryInv, ServerType, NEW a \in Acceptors, StartConnection(a)
  PROVE  RegistryInv'
<1>1. /\ acceptPc[a] = "start" /\ UNCHANGED setVars
      /\ acceptPc'[a] = "idle" /\ \A b \in Acceptors : b # a => acceptPc'[b] = acceptPc[b]
  BY DEF StartConnection, ServerType
<1>2. RegistryType /\ NewInv /\ EnteredInv /\ conns \in Seq(Conn)
  BY DEF RegistryInv, RegistryType
<1>3. PICK m : m = Current(a)
  OBVIOUS
<1>4. /\ m \in DOMAIN conns /\ conns[m].state = "new" /\ conns[m].by = a
      /\ \A c \in DOMAIN conns : conns[c].state = "new" /\ conns[c].by = a => c = m
  BY <1>1, <1>2, <1>3, CurrentIsNew DEF LatestIn
<1>5. \A c \in DOMAIN conns : conns[c].by \in Acceptors /\ c \in Nat
  BY <1>2, ConnFields
<1>6. conns' = [conns EXCEPT ![m].state = "open"]
  <2>1. conns' = [conns EXCEPT ![m].state = IF @ = "new" THEN "open" ELSE @]
    BY <1>3 DEF StartConnection
  <2> QED
    BY <1>4, <2>1
<1>7. /\ conns' \in Seq(Conn) /\ DOMAIN conns' = DOMAIN conns
      /\ \A c \in DOMAIN conns :
           /\ conns'[c].by = conns[c].by
           /\ conns'[c].state = IF c = m THEN "open" ELSE conns[c].state
  <2>1. "open" \in States
    BY DEF States
  <2> QED
    BY <1>2, <1>4, <1>6, <2>1, StateUpdate
<1>8. RegistryType'
  BY <1>1, <1>2, <1>7 DEF RegistryType, setVars
<1>9. NewInv'
  <2>1. \A b, c : LatestIn(conns, b, c) => LatestIn(conns', b, c) /\ c \in DOMAIN conns
                                             /\ conns[c].by = b
    BY <1>7 DEF LatestIn
  <2>2. ASSUME NEW b \in Acceptors, acceptPc'[b] # "idle"
        PROVE  \E c : LatestIn(conns', b, c) /\ conns'[c].state = "new"
    <3>1. b # a /\ acceptPc[b] # "idle"
      BY <1>1, <2>2
    <3>2. PICK c : LatestIn(conns, b, c) /\ conns[c].state = "new"
      BY <1>2, <3>1 DEF NewInv
    <3>3. c # m
      BY <1>4, <2>1, <3>1, <3>2
    <3> QED
      BY <1>7, <2>1, <3>2, <3>3
  <2>3. ASSUME NEW c \in DOMAIN conns, conns'[c].state = "new"
        PROVE  acceptPc'[conns[c].by] # "idle" /\ LatestIn(conns', conns[c].by, c)
    <3>1. c # m /\ conns[c].state = "new"
      BY <1>7, <2>3
    <3>2. conns[c].by # a
      BY <1>4, <3>1
    <3> QED
      BY <1>1, <1>2, <1>5, <2>1, <3>1, <3>2 DEF NewInv
  <2> QED
    BY <1>7, <2>2, <2>3 DEF NewInv
<1>10. EnteredInv'
  <2>1. ASSUME NEW c \in DOMAIN conns, ~raced[conns[c].by]
        PROVE  /\ conns'[c].state \in {"open", "watched"} => c \in manager[conns[c].by]
               /\ conns'[c].state = "new" /\ acceptPc'[conns[c].by] = "start" =>
                    c \in manager[conns[c].by]
               /\ conns'[c].state = "closed" => c \notin manager[conns[c].by]
    <3>1. CASE c = m
      BY <1>1, <1>2, <1>4, <1>7, <2>1, <3>1 DEF EnteredInv
    <3>2. CASE c # m
      <4>1. acceptPc'[conns[c].by] = "start" => acceptPc[conns[c].by] = "start"
        BY <1>1, <1>5
      <4> QED
        BY <1>2, <1>7, <2>1, <3>2, <4>1 DEF EnteredInv
    <3> QED
      BY <3>1, <3>2
  <2> QED
    BY <1>1, <1>7, <2>1 DEF EnteredInv, setVars
<1> QED
  BY <1>8, <1>9, <1>10 DEF RegistryInv

\* The AddEvent task, the beginning and the end of a close: a connection goes on from one
\* state to the next, and leaves the set with the last of them.
LEMMA ConnRegistry ==
  ASSUME RegistryInv, NEW m \in DOMAIN conns, ConnStep(m)
  PROVE  RegistryInv'
<1>1. RegistryType /\ NewInv /\ EnteredInv /\ conns \in Seq(Conn) /\ UNCHANGED acceptPc
  BY DEF RegistryInv, RegistryType, ConnStep, Watch, BeginErase, EndErase
<1>2. \A c \in DOMAIN conns : conns[c].by \in Acceptors /\ c \in Nat
  BY <1>1, ConnFields
<1> DEFINE a == conns[m].by
<1>3. PICK s \in States :
        /\ conns' = [conns EXCEPT ![m].state = s]
        /\ raced' \in [Acceptors -> BOOLEAN]
        /\ \A b \in Acceptors : raced[b] => raced'[b]
        /\ \/ conns[m].state = "open" /\ s = "watched" /\ UNCHANGED manager
           \/ conns[m].state = "watched" /\ s = "erasing" /\ UNCHANGED manager
           \/ /\ conns[m].state = "erasing" /\ s = "closed"
              /\ \E rest \in {manager[a] \ {m}} \union (IF raced[a] THEN {manager[a]} ELSE {}) :
                   manager' = [manager EXCEPT ![a] = rest]
              /\ UNCHANGED raced
  <2>1. CASE Watch(m)
    BY <1>1, <2>1 DEF Watch, setVars, States, RegistryType
  <2>2. CASE BeginErase(m)
    <3>1. /\ conns[m].state = "watched" /\ UNCHANGED manager
          /\ conns' = [conns EXCEPT ![m].state = "erasing"]
          /\ raced' = [raced EXCEPT ![a] = \/ @
                                           \/ Erasing(a) # {}
                                           \/ acceptPc[a] = "inserting"]
      BY <2>2 DEF BeginErase
    <3>2. raced' \in [Acceptors -> BOOLEAN] /\ \A b \in Acceptors : raced[b] => raced'[b]
      BY <1>1, <1>2, <3>1 DEF RegistryType
    <3>3. "erasing" \in States
      BY DEF States
    <3> QED
      BY <3>1, <3>2, <3>3
  <2>3. CASE EndErase(m)
    BY <1>1, <2>3 DEF EndErase, States, RegistryType
  <2> QED
    BY <2>1, <2>2, <2>3 DEF ConnStep
<1>4. /\ conns' \in Seq(Conn) /\ DOMAIN conns' = DOMAIN conns
      /\ \A c \in DOMAIN conns :
           /\ conns'[c].by = conns[c].by
           /\ conns'[c].state = IF c = m THEN s ELSE conns[c].state
  BY <1>1, <1>3, StateUpdate
<1>5. /\ manager' \in [Acceptors -> SUBSET Nat]
      /\ \A b \in Acceptors : \A c : c # m /\ ~raced[b] => (c \in manager'[b] <=> c \in manager[b])
      /\ s \in {"watched", "erasing"} => manager' = manager
      /\ s = "closed" /\ ~raced[a] => m \notin manager'[a]
  <2>1. CASE s \in {"watched", "erasing"}
    <3>1. manager' = manager /\ s # "closed"
      BY <1>3, <2>1
    <3> QED
      BY <1>1, <3>1 DEF RegistryType
  <2>2. CASE s \notin {"watched", "erasing"}
    <3>1. PICK rest \in {manager[a] \ {m}} \union (IF raced[a] THEN {manager[a]} ELSE {}) :
            manager' = [manager EXCEPT ![a] = rest]
      BY <1>3, <2>2
    <3>2. /\ manager \in [Acceptors -> SUBSET Nat] /\ manager[a] \in SUBSET Nat
          /\ a \in Acceptors
      BY <1>1, <1>2 DEF RegistryType
    <3>3. rest \in SUBSET Nat /\ (~raced[a] => rest = manager[a] \ {m})
      BY <3>2
    <3>4. /\ manager' \in [Acceptors -> SUBSET Nat]
          /\ manager'[a] = rest
          /\ \A b \in Acceptors : b # a => manager'[b] = manager[b]
      BY ONLY <3>1, <3>2, <3>3
    <3>5. ASSUME NEW b \in Acceptors, NEW c, c # m, ~raced[b]
          PROVE  c \in manager'[b] <=> c \in manager[b]
      BY <3>3, <3>4, <3>5
    <3> QED
      BY <2>2, <3>3, <3>4, <3>5
  <2> QED
    BY <2>1, <2>2
<1>6. conns[m].state # "new" /\ s # "new" /\ s # "open"
  BY <1>3
<1>7. RegistryType'
  BY <1>3, <1>4, <1>5 DEF RegistryType
<1>8. NewInv'
  <2>1. \A b, c : LatestIn(conns, b, c) => LatestIn(conns', b, c) /\ c \in DOMAIN conns
    BY <1>4 DEF LatestIn
  <2>2. \A c \in DOMAIN conns : conns'[c].state = "new" <=> conns[c].state = "new"
    BY <1>4, <1>6
  <2> QED
    BY <1>1, <1>4, <2>1, <2>2 DEF NewInv
<1>9. EnteredInv'
  <2>1. ASSUME NEW c \in DOMAIN conns, ~raced'[conns[c].by]
        PROVE  /\ conns'[c].state \in {"open", "watched"} => c \in manager'[conns[c].by]
               /\ conns'[c].state = "new" /\ acceptPc[conns[c].by] = "start" =>
                    c \in manager'[conns[c].by]
               /\ conns'[c].state = "closed" => c \notin manager'[conns[c].by]
    <3>1. ~raced[conns[c].by]
      BY <1>2, <1>3, <2>1
    <3>2. CASE c = m
      BY <1>1, <1>3, <1>4, <1>5, <1>6, <3>1, <3>2 DEF EnteredInv
    <3>3. CASE c # m
      BY <1>1, <1>2, <1>4, <1>5, <3>1, <3>3 DEF EnteredInv
    <3> QED
      BY <3>2, <3>3
  <2> QED
    BY <1>1, <1>4, <2>1 DEF EnteredInv
<1> QED
  BY <1>7, <1>8, <1>9 DEF RegistryInv

LEMMA RegistryStep ==
  ASSUME RegistryInv, ServerInv, [Next]_vars
  PROVE  RegistryInv'
<1>1. ServerType /\ RegistryType
  BY DEF ServerInv, StartInv, RegistryInv
<1>2. CASE UNCHANGED <<acceptVars, setVars>>
  BY <1>1, <1>2, RegistryKept DEF acceptVars, setVars, RegistryType
<1>3. ASSUME NEW a \in Acceptors, AcceptStep(a)
      PROVE  RegistryInv'
  <2>1. CASE TestCounter(a) \/ ResetCounter(a)
    <3>1. /\ UNCHANGED <<conns, manager, raced>> /\ acceptPc[a] \notin {"idle"}
          /\ acceptPc'[a] \in {"reset", "index"}
          /\ \A b \in Acceptors : b # a => acceptPc'[b] = acceptPc[b]
      BY <1>1, <2>1 DEF TestCounter, ResetCounter, ServerType, setVars
    <3> QED
      BY <1>1, <3>1, RegistryKept DEF RegistryType
  <2>2. CASE BeginInsert(a)
    <3>1. /\ UNCHANGED <<conns, manager>> /\ acceptPc[a] = "insert" /\ acceptPc'[a] = "inserting"
          /\ \A b \in Acceptors : b # a => acceptPc'[b] = acceptPc[b]
          /\ raced' = [raced EXCEPT ![a] = @ \/ Erasing(a) # {}]
      BY <1>1, <2>2 DEF BeginInsert, ServerType
    <3>2. raced' \in [Acceptors -> BOOLEAN] /\ \A b \in Acceptors : raced[b] => raced'[b]
      BY <1>1, <3>1 DEF RegistryType
    <3> QED
      BY <3>1, <3>2, RegistryKept
  <2> QED
    BY <1>1, <1>3, <2>1, <2>2, AcceptRegistry, PickRegistry, EndInsertRegistry, StartRegistry
       DEF AcceptStep
<1>4. ASSUME NEW c \in DOMAIN conns, ConnStep(c)
      PROVE  RegistryInv'
  BY <1>4, ConnRegistry
<1>5. CASE \/ StartStep \/ SpuriousStep \/ ListenStep
           \/ \E l \in Loops : ThreadStep(l)
           \/ UNCHANGED vars
  <2>1. UNCHANGED <<acceptVars, setVars>>
    BY <1>5 DEF StartStep, SpuriousStep, ListenStep, ThreadStep, vars
  <2> QED
    BY <1>2, <2>1
<1> QED
  BY <1>3, <1>4, <1>5 DEF Next, Running

\* A NULL loop is used only after a thread could not be created or a wait ended without
\* its signal: for any number of loops of either kind, of connections and of failures,
\* and whatever value the uninitialised threadCounter_ starts with.
THEOREM NullOnlyByFailure == Spec => []NullNeedsFailure
<1>1. ServerInv => NullNeedsFailure
  BY DEF ServerInv
<1>2. QED
  BY ServerInvariant, <1>1, PTL

\* A connection is in its Listener's set from before its start to its close and not after,
\* for any number of Listeners and connections, unless two threads were in the set at once.
THEOREM SetStaysExact == Spec => []SetIsExact
<1>1. Init => RegistryInv
  <2>1. <<>> \in Seq(Conn) /\ DOMAIN <<>> = {}
    BY EmptySeq
  <2> QED
    BY <2>1 DEF Init, RegistryInv, RegistryType, NewInv, EnteredInv
<1>2. RegistryInv => SetIsExact
  BY DEF RegistryInv, EnteredInv, SetIsExact
<1> QED
  BY ServerInvariant, RegistryStep, <1>1, <1>2, PTL DEF Spec
=============================================================================
