------------------------------- MODULE Server -------------------------------
(***************************************************************************)
(* base::TcpServer: Start creates one thread with a message loop after the *)
(* other, first those that accept, then those that serve connections, and  *)
(* gives each accepting loop a Listener. A Listener accepts a connection,  *)
(* asks the EventLoopManager for a loop, enters the connection in a        *)
(* std::set and starts it; the thread of the connection's loop takes it    *)
(* out of the set when it closes. Loops are numbered in the order of their *)
(* creation, connections in the order of accept().                         *)
(***************************************************************************)
EXTENDS Integers, Sequences, FiniteSets, WaitableEvent

CONSTANTS
  AcceptNum,     \* acceptThreadsNum_
  IoNum,         \* ioThreadsNum_
  Garbage,       \* values threadCounter_, never initialised, may start with
  MaxConns,      \* bound: calls of accept()
  MaxFailures    \* bound: threads not created, calls of accept() that fail

ASSUME ServerAssumption ==
  /\ AcceptNum \in Nat \ {0}
  /\ IoNum \in Nat \ {0}
  /\ Garbage \subseteq Nat
  /\ MaxConns \in Nat
  /\ MaxFailures \in Nat

Acceptors == 1 .. AcceptNum
IoLoops == AcceptNum + 1 .. AcceptNum + IoNum
Loops == Acceptors \union IoLoops

VARIABLES
  mainPc,        \* place of TcpServer::Start: its step and the loop it is at
  thread,        \* per loop: its thread
  messageLoop,   \* per loop: messageLoop_ is not NULL
  event,         \* per loop: event_
  early,         \* loops whose Start returned without the signal
  bound,         \* the Listener whose socket has the address, 0 for none
  listening,     \* Listeners that listen
  threadCounter,
  acceptPc,      \* per Listener: place in Accept
  conns,         \* connections: [by, loop, state, fd]
  manager,       \* per Listener: connectionManager_
  raced,         \* per Listener: two threads were inside the set at once
  deaf,          \* loops whose select() fails
  failures,      \* threads not created and calls of accept() failed so far
  crashed        \* a NULL loop has been used

startVars == <<mainPc, thread, messageLoop, event, early>>
listenVars == <<bound, listening>>
acceptVars == <<threadCounter, acceptPc, conns>>
setVars == <<manager, raced>>
vars == <<startVars, listenVars, acceptVars, setVars, deaf, failures, crashed>>

Init ==
  /\ mainPc = [at |-> "create", loop |-> 1]
  /\ thread = [l \in Loops |-> "none"]
  /\ messageLoop = [l \in Loops |-> FALSE]
  /\ event = [l \in Loops |-> NewEvent]
  /\ early = {}
  /\ bound = 0
  /\ listening = {}
  /\ threadCounter \in Garbage
  /\ acceptPc = [a \in Acceptors |-> "idle"]
  /\ conns = <<>>
  /\ manager = [a \in Acceptors |-> {}]
  /\ raced = [a \in Acceptors |-> FALSE]
  /\ deaf = {}
  /\ failures = 0
  /\ crashed = FALSE

-----------------------------------------------------------------------------
(* EventLoopManager::Start and EventLoopThread::Start, on the main thread *)

\* What follows the start of loop l, whatever it returned: the next loop, and after
\* the last one the first Listener.
Started(l) ==
  IF l + 1 \in Loops THEN [at |-> "create", loop |-> l + 1]
  ELSE [at |-> "listener", loop |-> 1]

CreateThread ==
  /\ mainPc.at = "create"
  /\ thread' = [thread EXCEPT ![mainPc.loop] = "begun"]
  /\ mainPc' = [mainPc EXCEPT !.at = "wait"]
  /\ UNCHANGED <<messageLoop, event, early, failures>>

\* EventLoopThread::Start returns false, and the manager does not look.
CreateThreadFails ==
  /\ mainPc.at = "create"
  /\ failures < MaxFailures
  /\ failures' = failures + 1
  /\ thread' = [thread EXCEPT ![mainPc.loop] = "failed"]
  /\ mainPc' = Started(mainPc.loop)
  /\ UNCHANGED <<messageLoop, event, early>>

Wait ==
  /\ mainPc.at = "wait"
  /\ LET l == mainPc.loop
     IN  IF event[l].isSigned
         THEN /\ event' = [event EXCEPT ![l] = Pass(@)]
              /\ mainPc' = Started(l)
         ELSE /\ event' = [event EXCEPT ![l] = Sleep(@)]
              /\ mainPc' = [mainPc EXCEPT !.at = "asleep"]
  /\ UNCHANGED <<thread, messageLoop, early, failures>>

WakeSpuriously ==
  /\ mainPc.at = "asleep"
  /\ event[mainPc.loop].asleep = 1
  /\ event' = [event EXCEPT ![mainPc.loop] = WakeUp(@)]
  /\ early' = early \union {mainPc.loop}
  /\ UNCHANGED <<mainPc, thread, messageLoop, failures>>

WaitReturns ==
  /\ mainPc.at = "asleep"
  /\ Woken(event[mainPc.loop])
  /\ event' = [event EXCEPT ![mainPc.loop] = Leave(@)]
  /\ mainPc' = Started(mainPc.loop)
  /\ UNCHANGED <<thread, messageLoop, early, failures>>

-----------------------------------------------------------------------------
(* EventLoopThread::RunLoop, on the new thread *)

SetMessageLoop(l) ==
  /\ thread[l] = "begun"
  /\ thread' = [thread EXCEPT ![l] = "set"]
  /\ messageLoop' = [messageLoop EXCEPT ![l] = TRUE]
  /\ UNCHANGED <<mainPc, event, early, failures>>

SignalStarted(l) ==
  /\ thread[l] = "set"
  /\ thread' = [thread EXCEPT ![l] = "running"]
  /\ event' = [event EXCEPT ![l] = Signal(@)]
  /\ UNCHANGED <<mainPc, messageLoop, early, failures>>

StartStep ==
  /\ CreateThread \/ CreateThreadFails \/ Wait \/ WaitReturns
  /\ UNCHANGED <<listenVars, acceptVars, setVars, deaf, crashed>>

\* Not a step of the main thread: nothing says that it ever happens.
SpuriousStep ==
  /\ WakeSpuriously
  /\ UNCHANGED <<listenVars, acceptVars, setVars, deaf, crashed>>

ThreadStep(l) ==
  /\ SetMessageLoop(l) \/ SignalStarted(l)
  /\ UNCHANGED <<listenVars, acceptVars, setVars, deaf, crashed>>

-----------------------------------------------------------------------------
(* TcpServer::Start, second part: the Listeners, on the main thread *)

\* The socket is bound where it is created, before SetReuseAddr: the platform gives
\* the address to one socket. The result is not used.
MayBind == bound = 0

\* The constructor keeps the loop, or the NULL that messageLoop_ still is.

CreateListener ==
  /\ mainPc.at = "listener"
  /\ bound' = IF MayBind THEN mainPc.loop ELSE bound
  /\ mainPc' = [mainPc EXCEPT !.at = IF messageLoop[mainPc.loop] THEN "listen"
                                      ELSE "listen on NULL"]
  /\ UNCHANGED <<listening, crashed>>

\* Listen: AddEvent on the Listener's loop, then listen(), which for a socket without an
\* address fails (Windows) or listens elsewhere; true is returned in any case.
Listen ==
  /\ mainPc.at \in {"listen", "listen on NULL"}
  /\ LET a == mainPc.loop
         isNull == mainPc.at = "listen on NULL"
     IN  /\ crashed' = isNull
         /\ listening' = IF ~isNull /\ bound = a THEN listening \union {a} ELSE listening
         /\ mainPc' = IF a + 1 \in Acceptors THEN [at |-> "listener", loop |-> a + 1]
                      ELSE [at |-> "done", loop |-> a]
  /\ UNCHANGED bound

ListenStep ==
  /\ CreateListener \/ Listen
  /\ UNCHANGED <<thread, messageLoop, event, early, acceptVars, setVars, deaf, failures>>

-----------------------------------------------------------------------------
(* Listener::Accept, on the Listener's loop *)

\* A peer has connected and the listening socket is readable; accept() succeeds, or
\* fails because the peer has gone: the code of the error is then used as the
\* descriptor.
Accept(a, fd) ==
  /\ a \in listening
  /\ thread[a] = "running"
  /\ acceptPc[a] = "idle"
  /\ Len(conns) < MaxConns
  /\ fd \/ failures < MaxFailures
  /\ failures' = IF fd THEN failures ELSE failures + 1
  /\ conns' = Append(conns, [by |-> a, loop |-> 0, state |-> "new", fd |-> fd])
  /\ acceptPc' = [acceptPc EXCEPT ![a] = "test"]
  /\ UNCHANGED <<threadCounter, setVars, crashed>>

\* Mutant of PastEnd: off by one.
PastEndLate == threadCounter > IoNum

PastEnd == threadCounter >= IoNum

\* GetOneLoop tests the atomic counter, resets it and increments it in three steps.
TestCounter(a) ==
  /\ acceptPc[a] = "test"
  /\ acceptPc' = [acceptPc EXCEPT ![a] = IF PastEnd THEN "reset" ELSE "index"]
  /\ UNCHANGED <<threadCounter, conns, setVars, crashed, failures>>

ResetCounter(a) ==
  /\ acceptPc[a] = "reset"
  /\ threadCounter' = 0
  /\ acceptPc' = [acceptPc EXCEPT ![a] = "index"]
  /\ UNCHANGED <<conns, setVars, crashed, failures>>

\* The connection this Listener is working on: its latest one.
Current(a) == CHOOSE c \in DOMAIN conns :
                /\ conns[c].by = a
                /\ \A d \in DOMAIN conns : conns[d].by = a => d <= c

\* Mutant of Constructed: the constructor asks for events (TcpConnection.cpp:15).
ConstructedWatched == "open"

Constructed == "new"

PickedLoop == AcceptNum + 1 + threadCounter

\* operator[] of the vector, and the construction of the connection. An index past
\* the end and a loop that never came to be are the same NULL here.
PickLoop(a) ==
  /\ acceptPc[a] = "index"
  /\ threadCounter' = threadCounter + 1
  /\ IF PickedLoop \in IoLoops /\ messageLoop[PickedLoop]
     THEN /\ conns' = [conns EXCEPT ![Current(a)].loop = PickedLoop,
                                    ![Current(a)].state = Constructed]
          /\ UNCHANGED crashed
     ELSE /\ crashed' = TRUE
          /\ UNCHANGED conns
  /\ acceptPc' = [acceptPc EXCEPT ![a] = "insert"]
  /\ UNCHANGED <<setVars, failures>>

Erasing(a) == {c \in DOMAIN conns : conns[c].by = a /\ conns[c].state = "erasing"}

\* insert() takes time: other threads may be inside erase() meanwhile.
BeginInsert(a) ==
  /\ acceptPc[a] = "insert"
  /\ acceptPc' = [acceptPc EXCEPT ![a] = "inserting"]
  /\ raced' = [raced EXCEPT ![a] = @ \/ Erasing(a) # {}]
  /\ UNCHANGED <<threadCounter, conns, manager, crashed, failures>>

\* What becomes of an operation on a set that was raced for is open.
EndInsert(a) ==
  /\ acceptPc[a] = "inserting"
  /\ acceptPc' = [acceptPc EXCEPT ![a] = "start"]
  /\ \E entered \in {manager[a] \union {Current(a)}}
                      \union (IF raced[a] THEN {manager[a]} ELSE {}) :
       manager' = [manager EXCEPT ![a] = entered]
  /\ UNCHANGED <<threadCounter, conns, raced, crashed, failures>>

\* TcpConnection::Start.
StartConnection(a) ==
  /\ acceptPc[a] = "start"
  /\ acceptPc' = [acceptPc EXCEPT ![a] = "idle"]
  /\ conns' = [conns EXCEPT ![Current(a)].state = IF @ = "new" THEN "open" ELSE @]
  /\ UNCHANGED <<threadCounter, setVars, crashed, failures>>

AcceptStep(a) ==
  /\ \/ \E fd \in BOOLEAN : Accept(a, fd)
     \/ TestCounter(a) \/ ResetCounter(a) \/ PickLoop(a)
     \/ BeginInsert(a) \/ EndInsert(a) \/ StartConnection(a)
  /\ UNCHANGED <<startVars, listenVars, deaf>>

-----------------------------------------------------------------------------
(* The connections, each on the thread of its loop *)

OnLoop(c) ==
  /\ conns[c].loop # 0
  /\ thread[conns[c].loop] = "running"
  /\ \A d \in DOMAIN conns : conns[d].state = "erasing" => conns[d].loop # conns[c].loop

\* The AddEvent task. select() fails from now on if the descriptor is no socket.
Watch(c) ==
  /\ conns[c].state = "open"
  /\ OnLoop(c)
  /\ conns' = [conns EXCEPT ![c].state = "watched"]
  /\ deaf' = IF conns[c].fd THEN deaf ELSE deaf \union {conns[c].loop}
  /\ UNCHANGED <<setVars, threadCounter, acceptPc>>

\* The peer leaves: HandleClose, and in it CloseConnection.
BeginErase(c) ==
  /\ conns[c].state = "watched"
  /\ OnLoop(c)
  /\ conns[c].loop \notin deaf
  /\ conns' = [conns EXCEPT ![c].state = "erasing"]
  /\ raced' = [raced EXCEPT ![conns[c].by] =
                 \/ @
                 \/ Erasing(conns[c].by) # {}
                 \/ acceptPc[conns[c].by] = "inserting"]
  /\ UNCHANGED <<manager, deaf, threadCounter, acceptPc>>

EndErase(c) ==
  LET a == conns[c].by
  IN  /\ conns[c].state = "erasing"
      /\ conns' = [conns EXCEPT ![c].state = "closed"]
      /\ \E rest \in {manager[a] \ {c}} \union (IF raced[a] THEN {manager[a]} ELSE {}) :
           manager' = [manager EXCEPT ![a] = rest]
      /\ UNCHANGED <<raced, deaf, threadCounter, acceptPc>>

ConnStep(c) ==
  /\ Watch(c) \/ BeginErase(c) \/ EndErase(c)
  /\ UNCHANGED <<startVars, listenVars, failures, crashed>>

Running ==
  \/ StartStep
  \/ SpuriousStep
  \/ \E l \in Loops : ThreadStep(l)
  \/ ListenStep
  \/ \E a \in Acceptors : AcceptStep(a)
  \/ \E c \in DOMAIN conns : ConnStep(c)

\* A NULL loop ends the program.
Next == ~crashed /\ Running

Spec == Init /\ [][Next]_vars

\* The main thread and the new threads are scheduled.
FairSpec ==
  /\ Spec
  /\ WF_vars(~crashed /\ StartStep)
  /\ \A l \in Loops : WF_vars(~crashed /\ ThreadStep(l))
  /\ WF_vars(~crashed /\ ListenStep)

-----------------------------------------------------------------------------
(* Properties *)

\* The program uses a NULL loop (a loop whose thread has not set messageLoop_, or an
\* index past the end of threadQueue_) only if a thread could not be created or the
\* wait for it ended without its signal: whatever threadCounter_ started with, and
\* with GetOneLoop in three steps, because one Listener alone can accept.
NullNeedsFailure ==
  crashed => early # {} \/ \E l \in Loops : thread[l] = "failed"

\* A connection is in its Listener's set from its start to its end, and a closed one
\* is forgotten, although it is entered and removed by different threads; unless two
\* threads have been inside the set at the same time.
SetIsExact ==
  \A c \in DOMAIN conns :
    ~raced[conns[c].by] =>
      /\ conns[c].state \in {"open", "watched"} => c \in manager[conns[c].by]
      /\ conns[c].state = "closed" => c \notin manager[conns[c].by]

\* Start comes to its end: no signal of a new thread is lost, be it sent before or
\* after the main thread waits for it.
StartReturns == <>(mainPc.at = "done" \/ crashed)
=============================================================================
