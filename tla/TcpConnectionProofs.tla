------------------------ MODULE TcpConnectionProofs ------------------------
(***************************************************************************)
(* Proofs about TcpConnection, for every watermark and number of bytes:    *)
(* the write interest, the watermark flag and the output buffer say the    *)
(* same thing in every state, and a closed connection is not watched. And  *)
(* about its sending at a rate, Pacing, for every rate and lateness: the   *)
(* delayed tasks owe the bytes of the backlog, and what has been sent is   *)
(* paid for by the time.                                                   *)
(***************************************************************************)
EXTENDS MCConnection, SeqFacts, FiniteSetTheorems

\* The variables the invariant speaks of.
ConnType ==
  /\ state \in {"Dummy", "Open", "Closed"}
  /\ waitingWrite \in BOOLEAN
  /\ writeable \in BOOLEAN
  /\ outputBuffer \in Seq(Nat)
  /\ interest \subseteq {"Read", "Write"}
  /\ registered \in BOOLEAN
  /\ tasks \in Seq(0 .. MaxSend)
  /\ pc \in {"Idle", "Attached", "Read", "Callback", "Write"}
  /\ event \subseteq {"Read", "Write"}
  /\ accepted \in Nat

\* The read and write half run for an event of their kind only.
EventInv ==
  /\ pc = "Idle" => event = {}
  /\ pc = "Attached" => event # {}
  /\ pc = "Write" => "Write" \in event
  \* Between the poll and the write half nothing withdraws what was to be written.
  /\ "Write" \in event => waitingWrite

\* AddEvent is posted by Start, before anything else can be, and runs before the
\* connection can be closed: it cannot register a descriptor that is closed.
StartInv ==
  /\ \A i \in 1 .. Len(tasks) :
       tasks[i] = 0 => i = 1 /\ state = "Open" /\ pc = "Idle" /\ ~registered
  /\ state = "Dummy" => tasks = <<>> /\ pc = "Idle"
  /\ registered => state = "Open"

\* The interest is right in a connection not started yet, too.
InterestInv ==
  /\ waitingWrite <=> outputBuffer # <<>>
  /\ state # "Closed" => (waitingWrite <=> "Write" \in interest)
  /\ state = "Closed" => "Write" \notin interest
  /\ state = "Closed" /\ interest # {} => outputBuffer = <<>>

ConnInv == ConnType /\ EventInv /\ StartInv /\ InterestInv /\ WriteableAccurate

-----------------------------------------------------------------------------
(* Send *)

\* The part of the invariant that a Send can disturb.
SendInv ==
  /\ state \in {"Dummy", "Open", "Closed"}
  /\ waitingWrite \in BOOLEAN
  /\ writeable \in BOOLEAN
  /\ outputBuffer \in Seq(Nat)
  /\ interest \subseteq {"Read", "Write"}
  /\ registered \in BOOLEAN
  /\ accepted \in Nat
  /\ registered => state = "Open"
  /\ InterestInv
  /\ WriteableAccurate

\* What Send does not do: take back what waits to be written, or open a connection.
SendFrame ==
  /\ waitingWrite => waitingWrite'
  /\ state' = state \/ (state = "Open" /\ state' = "Closed")
  /\ registered' => registered

\* HandleClose stops the watching, whatever is in the buffer.
LEMMA CloseStep ==
  ASSUME SendInv, HandleClose, UNCHANGED sendVars
  PROVE  SendInv' /\ SendFrame
<1>1. CASE ~IsOpen
  BY <1>1 DEF SendInv, SendFrame, HandleClose, InterestInv, WriteableAccurate, sendVars
<1>2. CASE IsOpen
  <2>1. state' = "Closed" /\ interest' = {} /\ registered' = FALSE /\ state = "Open"
    BY <1>2 DEF HandleClose, IsOpen
  <2> QED
    BY <2>1 DEF SendInv, SendFrame, InterestInv, WriteableAccurate, sendVars
<1> QED
  BY <1>1, <1>2

\* Bytes left over from a send are buffered, counted and watched for.
LEMMA BufferStep ==
  ASSUME SendInv, state = "Open", NEW rest \in Seq(Nat), rest # <<>>, Buffer(rest),
         accepted' \in Nat, UNCHANGED <<state, registered>>
  PROVE  SendInv' /\ SendFrame
<1>1. outputBuffer' = outputBuffer \o rest /\ waitingWrite' = TRUE
  BY DEF Buffer
<1>2. /\ outputBuffer' \in Seq(Nat)
      /\ outputBuffer' # <<>>
      /\ Len(outputBuffer') = Len(outputBuffer) + Len(rest)
      /\ Len(outputBuffer) \in Nat /\ Len(rest) \in Nat
  BY <1>1 DEF SendInv
<1>3. "Write" \in interest' /\ interest' \subseteq {"Read", "Write"}
  BY DEF Buffer, ArmWrite, SendInv, InterestInv
<1>4. HighWaterReached(outputBuffer') <=> Len(outputBuffer') >= HighWater
  BY DEF HighWaterReached
<1>5. writeable' \in BOOLEAN /\ (writeable' <=> writeable /\ ~HighWaterReached(outputBuffer'))
  BY DEF Buffer
<1>6. WriteableAccurate'
  BY <1>2, <1>4, <1>5, ConnectionAssumption DEF SendInv, WriteableAccurate
<1>7. InterestInv'
  BY <1>1, <1>2, <1>3 DEF InterestInv
<1> QED
  BY <1>1, <1>2, <1>3, <1>5, <1>6, <1>7 DEF SendInv, SendFrame

LEMMA SendStep ==
  ASSUME SendInv, NEW len \in Nat \ {0}, Send(len)
  PROVE  SendInv' /\ SendFrame
<1> DEFINE data == [i \in 1 .. len |-> accepted + i]
           direct == ~waitingWrite /\ outputBuffer = <<>>
<1>1. CASE ~IsOpen
  BY <1>1 DEF Send, SendInv, SendFrame, InterestInv, WriteableAccurate, sendVars
<1>2. CASE IsOpen /\ direct /\ peer = "reset"
  BY <1>2, CloseStep DEF Send
<1>3. CASE IsOpen /\ ~(direct /\ peer = "reset")
  <2>1. PICK k \in IF direct THEN Taken(len) ELSE {0} :
          /\ accepted' = accepted + len
          /\ IF k = len
             THEN UNCHANGED <<outputBuffer, writeable, waitingWrite, interest>>
             ELSE Buffer(Unsent(data, k))
          /\ UNCHANGED <<state, registered>>
    BY <1>3 DEF Send
  <2>2. k \in 0 .. len
    BY DEF Taken
  <2>3. accepted' \in Nat
    BY <2>1 DEF SendInv
  <2>4. CASE k = len
    BY <2>1, <2>3, <2>4 DEF SendInv, SendFrame, InterestInv, WriteableAccurate
  <2>5. CASE k # len
    <3>1. data \in Seq(Nat) /\ Len(data) = len
      BY DEF SendInv
    <3> HIDE DEF data
    <3>2. Unsent(data, k) \in Seq(Nat) /\ Unsent(data, k) # <<>>
      BY <2>2, <2>5, <3>1 DEF Unsent
    <3> QED
      BY <1>3, <2>1, <2>3, <2>5, <3>2, BufferStep DEF IsOpen
  <2> QED
    BY <2>4, <2>5
<1> QED
  BY <1>1, <1>2, <1>3
-----------------------------------------------------------------------------
(* HandleWrite *)

\* n bytes have left; the interest is withdrawn with the last of them.
LEMMA WrittenStep ==
  ASSUME SendInv, NEW n \in 1 .. Len(outputBuffer), Written(n),
         UNCHANGED <<state, registered, accepted>>
  PROVE  SendInv'
<1> DEFINE rest == SubSeq(outputBuffer, n + 1, Len(outputBuffer))
<1>1. outputBuffer \in Seq(Nat) /\ Len(outputBuffer) \in Nat
  BY DEF SendInv
<1>2. rest \in Seq(Nat) /\ Len(rest) = Len(outputBuffer) - n
  BY <1>1
<1>3. outputBuffer # <<>> /\ waitingWrite
  BY <1>1 DEF SendInv, InterestInv
<1>4. /\ outputBuffer' = rest
      /\ writeable' = (writeable \/ ~HighWaterReached(rest))
      /\ waitingWrite' = (waitingWrite /\ rest # <<>>)
      /\ interest' = IF rest = <<>> THEN {"Read"} ELSE interest
  BY DEF Written, DisarmWrite
<1> HIDE DEF rest
<1>5. waitingWrite' \in BOOLEAN /\ (waitingWrite' <=> rest # <<>>)
  BY <1>3, <1>4
<1>6. writeable' \in BOOLEAN /\ (writeable' <=> writeable \/ ~HighWaterReached(rest))
  BY <1>4
<1>7. HighWaterReached(rest) <=> Len(rest) >= HighWater
  BY DEF HighWaterReached
<1>8. WriteableAccurate'
  BY <1>1, <1>2, <1>4, <1>6, <1>7, ConnectionAssumption DEF SendInv, WriteableAccurate
<1>9. InterestInv'
  BY <1>3, <1>4, <1>5 DEF SendInv, InterestInv
<1> QED
  BY <1>2, <1>4, <1>5, <1>6, <1>8, <1>9 DEF SendInv

LEMMA WriteStep ==
  ASSUME SendInv, HandleWrite
  PROVE  SendInv' /\ (registered' => registered) /\ (state' = state \/ state' = "Closed")
           /\ (state = "Dummy" => state' = "Dummy")
<1>1. CASE peer = "reset"
  BY <1>1, CloseStep DEF HandleWrite, SendFrame
<1>2. CASE peer # "reset"
  <2>f. PICK first \in 1 .. Len(outputBuffer) :
          /\ \E k \in Taken(first) : \E l \in Taken(Len(outputBuffer) - first) :
               WriteV(first, k, l)
          /\ UNCHANGED <<state, registered, accepted>>
    BY <1>2 DEF HandleWrite
  <2>k. PICK k \in Taken(first) :
          \E l \in Taken(Len(outputBuffer) - first) : WriteV(first, k, l)
    BY <2>f
  <2>l. PICK l \in Taken(Len(outputBuffer) - first) : WriteV(first, k, l)
    BY <2>k
  <2>1. WriteV(first, k, l) /\ UNCHANGED <<state, registered, accepted>>
    BY <2>f, <2>l
  <2>2. Len(outputBuffer) \in Nat
    BY DEF SendInv
  <2>3. k \in 0 .. first /\ l \in 0 .. Len(outputBuffer) - first
    BY <2>2 DEF Taken
  <2>4. CASE UNCHANGED <<outputBuffer, writeable, waitingWrite, interest>>
    BY <2>1, <2>4 DEF SendInv, InterestInv, WriteableAccurate
  <2>5. CASE k # 0 /\ Written(k + l)
    <3>1. k + l \in 1 .. Len(outputBuffer)
      BY <2>2, <2>3, <2>5
    <3> QED
      BY <2>1, <2>5, <3>1, WrittenStep
  <2> QED
    BY <2>1, <2>4, <2>5 DEF WriteV
<1> QED
  BY <1>1, <1>2

-----------------------------------------------------------------------------
(* The inductive invariant *)

LEMMA ConnInit == Init => ConnInv
<1> SUFFICES ASSUME Init PROVE ConnInv
  OBVIOUS
<1>1. outputBuffer \in Seq(Nat) /\ Len(outputBuffer) = 0 /\ tasks \in Seq(0 .. MaxSend)
  BY DEF Init
<1>2. ConnType
  BY <1>1 DEF Init, ConnType
<1>3. WriteableAccurate
  BY <1>1, ConnectionAssumption DEF Init, WriteableAccurate
<1> QED
  BY <1>1, <1>2, <1>3 DEF Init, ConnInv, EventInv, StartInv, InterestInv

\* A task at the end of the queue: Start's is alone in it.
LEMMA TasksAppended ==
  ASSUME ConnInv, NEW n \in 0 .. MaxSend, tasks' = Append(tasks, n)
  PROVE  /\ tasks' \in Seq(0 .. MaxSend)
         /\ Len(tasks') = Len(tasks) + 1
         /\ Len(tasks) \in Nat
         /\ \A i \in 1 .. Len(tasks) : tasks'[i] = tasks[i]
         /\ tasks'[Len(tasks) + 1] = n
BY DEF ConnInv, ConnType

LEMMA TasksTaken ==
  ASSUME ConnInv, tasks # <<>>, tasks' = Tail(tasks)
  PROVE  /\ tasks' \in Seq(0 .. MaxSend)
         /\ Head(tasks) \in 0 .. MaxSend
         /\ Head(tasks) = 0 => state = "Open" /\ pc = "Idle" /\ ~registered
         /\ \A i \in 1 .. Len(tasks') : tasks'[i] # 0
<1>1. tasks \in Seq(0 .. MaxSend)
  BY DEF ConnInv, ConnType
<1>a. tasks' \in Seq(0 .. MaxSend) /\ Head(tasks) \in 0 .. MaxSend
  BY <1>1, HeadTailProperties
<1>b. Len(tasks) \in Nat \ {0} /\ Len(tasks') = Len(tasks) - 1
  BY <1>1
<1>c. \A i \in 1 .. Len(tasks') : tasks'[i] = tasks[i + 1]
  BY <1>1
<1>2. Head(tasks) = tasks[1]
  BY <1>1
<1>3. \A i \in 1 .. Len(tasks) :
        tasks[i] = 0 => i = 1 /\ state = "Open" /\ pc = "Idle" /\ ~registered
  BY DEF ConnInv, StartInv
<1>4. ASSUME NEW i \in 1 .. Len(tasks') PROVE tasks'[i] # 0
  <2>1. i + 1 \in 1 .. Len(tasks) /\ i + 1 # 1
    BY <1>b
  <2> QED
    BY <1>c, <1>3, <2>1
<1> QED
  BY <1>a, <1>b, <1>2, <1>3, <1>4

\* The invariant is that of Send and the rest.
LEMMA ConnFromParts ==
  ASSUME ConnType', EventInv', StartInv', SendInv'
  PROVE  ConnInv'
BY DEF ConnInv, SendInv

\* The steps of the loop thread within HandleEvent.
LEMMA ConnToSend == ConnInv => SendInv
BY DEF ConnInv, SendInv, ConnType, StartInv

LEMMA StepType ==
  ASSUME ConnType, NEW next \in {"Idle", "Attached", "Read", "Callback", "Write"},
         Step(next)
  PROVE  /\ pc' \in {"Idle", "Attached", "Read", "Callback", "Write"}
         /\ event' \subseteq {"Read", "Write"}
         /\ pc' = next
         /\ event' = IF next = "Idle" THEN {} ELSE event
BY DEF Step, ConnType
\* A step that leaves the tasks alone and starts no connection keeps StartInv unless
\* it registers, or leaves the idle loop while AddEvent waits.
LEMMA StartKept ==
  ASSUME ConnInv, UNCHANGED tasks, registered' => registered,
         state' = state \/ (state = "Open" /\ state' = "Closed" /\ registered' = FALSE),
         registered \/ pc # "Idle"
  PROVE  StartInv'
<1>1. \A i \in 1 .. Len(tasks) : tasks[i] # 0
  BY DEF ConnInv, StartInv
<1> QED
  BY <1>1 DEF ConnInv, StartInv
\* What a step inside a handler must show.
LEMMA HandlerStep ==
  ASSUME ConnInv, pc # "Idle", UNCHANGED <<tasks, state, registered>>,
         SendInv', ConnType', EventInv'
  PROVE  ConnInv'
BY StartKept, ConnFromParts

LEMMA ConnStep ==
  ASSUME ConnInv, [Next]_vars
  PROVE  ConnInv'
<1> USE ConnToSend
<1>0. ConnType /\ EventInv /\ StartInv /\ InterestInv /\ WriteableAccurate /\ SendInv
  BY DEF ConnInv
<1>1. CASE PeerSends \/ PeerEnds \/ UNCHANGED vars
  <2>1. UNCHANGED <<state, sendVars, interest, registered, tasks, pc, event>>
    BY <1>1 DEF PeerSends, PeerEnds, vars
  <2> QED
    BY <1>0, <2>1 DEF ConnInv, ConnType, EventInv, StartInv, InterestInv,
                      WriteableAccurate, sendVars
<1>2. CASE Start
  <2>1. /\ tasks = <<>> /\ tasks' = Append(tasks, 0) /\ pc = "Idle" /\ ~registered
        /\ state = "Dummy" /\ state' = "Open"
        /\ UNCHANGED <<sendVars, interest, registered, pc, event>>
    BY <1>0, <1>2 DEF Start, StartInv
  <2>2. tasks' = <<0>> /\ tasks' \in Seq(0 .. MaxSend) /\ Len(tasks') = 1
    BY <2>1, ConnectionAssumption
  <2>3. StartInv'
    BY <2>1, <2>2 DEF StartInv
  <2>4. ConnType' /\ EventInv' /\ InterestInv' /\ WriteableAccurate'
    BY <1>0, <2>1, <2>2 DEF ConnType, EventInv, InterestInv, WriteableAccurate, sendVars
  <2> QED
    BY <2>3, <2>4 DEF ConnInv
<1>3. ASSUME NEW len \in 1 .. MaxSend, PostSend(len)
      PROVE  ConnInv'
  <2>1. len \in 0 .. MaxSend /\ len # 0
    BY ConnectionAssumption
  <2>2. /\ tasks' \in Seq(0 .. MaxSend)
        /\ Len(tasks') = Len(tasks) + 1
        /\ Len(tasks) \in Nat
        /\ \A i \in 1 .. Len(tasks) : tasks'[i] = tasks[i]
        /\ tasks'[Len(tasks) + 1] = len
    BY <1>3, <2>1, TasksAppended DEF PostSend
  <2>3. /\ state # "Dummy"
        /\ UNCHANGED <<state, sendVars, interest, registered, pc, event>>
    BY <1>3 DEF PostSend
  <2>4. \A i \in 1 .. Len(tasks') :
          tasks'[i] = 0 => i \in 1 .. Len(tasks) /\ tasks[i] = 0
    BY <2>1, <2>2
  <2>5. StartInv'
    BY <1>0, <2>3, <2>4 DEF StartInv
  <2>6. ConnType' /\ EventInv' /\ InterestInv' /\ WriteableAccurate'
    BY <1>0, <2>2, <2>3 DEF ConnType, EventInv, InterestInv, WriteableAccurate, sendVars
  <2> QED
    BY <2>5, <2>6 DEF ConnInv
<1>4. ASSUME NEW len \in 1 .. MaxSend, LoopSend(len)
      PROVE  ConnInv'
  <2>1. len \in Nat \ {0}
    BY ConnectionAssumption
  <2>2. SendInv' /\ SendFrame
    BY <1>0, <1>4, <2>1, SendStep DEF LoopSend
  <2>3. registered /\ UNCHANGED <<tasks, pc, event>> /\ pc # "Write"
    BY <1>4 DEF LoopSend
  <2>4. state' = "Closed" => registered' = FALSE
    BY <2>2 DEF SendInv
  <2>5. StartInv'
    BY <2>2, <2>3, <2>4, StartKept DEF SendFrame
  <2>6. ConnType' /\ EventInv'
    BY <1>0, <2>2, <2>3 DEF ConnType, EventInv, SendInv, SendFrame
  <2> QED
    BY <2>2, <2>5, <2>6, ConnFromParts
<1>5. CASE RunTask
  <2>1. /\ tasks' \in Seq(0 .. MaxSend)
        /\ Head(tasks) \in 0 .. MaxSend
        /\ Head(tasks) = 0 => state = "Open" /\ pc = "Idle" /\ ~registered
        /\ \A i \in 1 .. Len(tasks') : tasks'[i] # 0
    BY <1>5, TasksTaken DEF RunTask
  <2>2. pc = "Idle" /\ UNCHANGED <<pc, event>> /\ tasks # <<>>
    BY <1>5 DEF RunTask
  <2>3. SendInv' /\ (state' = state \/ (state = "Open" /\ state' = "Closed"))
    <3>1. CASE Head(tasks) = 0
      <4>1. /\ registered' = TRUE /\ interest' = interest \union {"Read"}
            /\ UNCHANGED <<state, sendVars>> /\ state = "Open"
        BY <1>5, <2>1, <3>1 DEF RunTask
      <4>2. InterestInv'
        BY <1>0, <4>1 DEF InterestInv, sendVars
      <4>3. WriteableAccurate'
        BY <1>0, <4>1 DEF WriteableAccurate, sendVars
      <4>4. interest' \subseteq {"Read", "Write"} /\ registered' \in BOOLEAN
        BY <1>0, <4>1 DEF SendInv
      <4> QED
        BY <1>0, <4>1, <4>2, <4>3, <4>4 DEF SendInv, sendVars
    <3>2. CASE Head(tasks) # 0
      <4>1. Head(tasks) \in Nat \ {0}
        BY <2>1, <3>2, ConnectionAssumption
      <4>2. Send(Head(tasks))
        BY <1>5, <3>2 DEF RunTask
      <4>3. SendInv' /\ SendFrame
        BY <1>0, <4>1, <4>2, SendStep
      <4> QED
        BY <4>3 DEF SendFrame
    <3> QED
      BY <3>1, <3>2
  <2>4. StartInv'
    BY <1>0, <2>1, <2>2, <2>3 DEF StartInv, SendInv
  <2>5. ConnType' /\ EventInv'
    BY <1>0, <2>1, <2>2, <2>3 DEF ConnType, EventInv, SendInv
  <2> QED
    BY <2>3, <2>4, <2>5, ConnFromParts
<1>6. CASE Poll
  <2>1. /\ registered /\ pc = "Idle" /\ pc' = "Attached"
        /\ event' \subseteq {"Read", "Write"} /\ event' # {}
        /\ "Write" \in event' => "Write" \in interest
        /\ UNCHANGED <<state, sendVars, interest, registered, tasks>>
    BY <1>0, <1>6 DEF Poll, ConnType
  <2>2. state = "Open"
    BY <1>0, <2>1 DEF StartInv
  <2>3. "Write" \in event' => waitingWrite'
    BY <1>0, <2>1, <2>2 DEF InterestInv, sendVars
  <2>4. StartInv'
    BY <2>1, StartKept
  <2>5. ConnType' /\ EventInv'
    BY <1>0, <2>1, <2>3 DEF ConnType, EventInv, sendVars
  <2>6. SendInv'
    BY <1>0, <2>1 DEF SendInv, InterestInv, WriteableAccurate, sendVars
  <2> QED
    BY <2>4, <2>5, <2>6, ConnFromParts
<1>7. CASE HandleEvent
  <2>1. /\ pc = "Attached" /\ UNCHANGED <<state, sendVars, interest, registered, tasks>>
        /\ pc' = IF "Read" \in event THEN "Read" ELSE "Write"
        /\ event' = event
    BY <1>7 DEF HandleEvent, Step
  <2>2. "Read" \notin event => "Write" \in event
    BY <1>0, <2>1 DEF EventInv, ConnType
  <2>3. EventInv'
    BY <1>0, <2>1, <2>2 DEF EventInv, sendVars
  <2>4. ConnType' /\ SendInv'
    BY <1>0, <2>1 DEF ConnType, SendInv, InterestInv, WriteableAccurate, sendVars
  <2> QED
    BY <2>1, <2>3, <2>4, HandlerStep
<1>8. CASE HandleRead
  <2>1. /\ pc = "Read" /\ UNCHANGED <<sendVars, tasks>>
        /\ \/ HandleClose /\ Step(AfterRead)
           \/ /\ UNCHANGED <<state, registered, interest>>
              /\ Step("Read") \/ Step("Callback") \/ Step(AfterRead)
    BY <1>8 DEF HandleRead, ReadResult
  <2>2. SendInv' /\ SendFrame
    <3>1. CASE HandleClose
      BY <1>0, <2>1, <3>1, CloseStep
    <3>2. CASE UNCHANGED <<state, registered, interest>>
      BY <1>0, <2>1, <3>2 DEF SendInv, SendFrame, InterestInv, WriteableAccurate, sendVars
    <3> QED
      BY <2>1, <3>1, <3>2
  <2>3. AfterRead \in {"Write", "Idle"} /\ (AfterRead = "Write" => "Write" \in event)
    BY DEF AfterRead
  <2>4. /\ pc' \in {"Read", "Callback", "Write", "Idle"}
        /\ pc' = "Write" => "Write" \in event
        /\ event' = IF pc' = "Idle" THEN {} ELSE event
    BY <2>1, <2>3 DEF Step
  <2>5. ConnType' /\ EventInv'
    BY <1>0, <2>1, <2>2, <2>4 DEF ConnType, EventInv, SendInv, SendFrame
  <2>6. StartInv'
    BY <2>1, <2>2, StartKept DEF SendFrame, SendInv
  <2> QED
    BY <2>2, <2>5, <2>6, ConnFromParts
<1>9. CASE CallbackReturns
  <2>1. /\ pc = "Callback" /\ Step(AfterRead)
        /\ UNCHANGED <<state, sendVars, interest, registered, tasks>>
    BY <1>9 DEF CallbackReturns
  <2>2. /\ pc' \in {"Write", "Idle"}
        /\ pc' = "Write" => "Write" \in event
        /\ event' = IF pc' = "Idle" THEN {} ELSE event
    BY <2>1 DEF Step, AfterRead
  <2>3. ConnType' /\ EventInv'
    BY <1>0, <2>1, <2>2 DEF ConnType, EventInv, sendVars
  <2>4. SendInv'
    BY <1>0, <2>1 DEF SendInv, InterestInv, WriteableAccurate, sendVars
  <2> QED
    BY <2>1, <2>3, <2>4, HandlerStep
<1>10. CASE HandleWrite
  <2>1. /\ SendInv' /\ (registered' => registered) /\ (state' = state \/ state' = "Closed")
        /\ state = "Dummy" => state' = "Dummy"
    BY <1>0, <1>10, WriteStep
  <2>2. pc = "Write" /\ pc' = "Idle" /\ event' = {} /\ UNCHANGED tasks
    BY <1>10 DEF HandleWrite, Step
  <2>3. state' = state \/ (state = "Open" /\ state' = "Closed" /\ registered' = FALSE)
    BY <1>0, <2>1 DEF SendInv
  <2>4. StartInv'
    BY <2>1, <2>2, <2>3, StartKept
  <2>5. ConnType' /\ EventInv'
    BY <1>0, <2>1, <2>2 DEF ConnType, EventInv, SendInv
  <2> QED
    BY <2>1, <2>4, <2>5, ConnFromParts
<1> QED
  BY <1>1, <1>2, <1>3, <1>4, <1>5, <1>6, <1>7, <1>8, <1>9, <1>10 DEF Next

-----------------------------------------------------------------------------
(* The stream *)

\* StreamIntact, and that both parts of it are sequences.
StreamInv ==
  /\ wire \in Seq(Nat)
  /\ torn \in BOOLEAN
  /\ StreamIntact

\* Whatever part of a Send the socket takes at once, the rest is buffered behind what
\* was there.
LEMMA SendStream ==
  ASSUME SendInv, StreamInv, NEW len \in Nat \ {0}, Send(len)
  PROVE  StreamInv'
<1> DEFINE data == [i \in 1 .. len |-> accepted + i]
           direct == ~waitingWrite /\ outputBuffer = <<>>
<1>1. CASE UNCHANGED sendVars
  BY <1>1 DEF StreamInv, StreamIntact, sendVars
<1>2. CASE ~UNCHANGED sendVars
  <2>1. PICK k \in IF direct THEN Taken(len) ELSE {0} :
          /\ accepted' = accepted + len
          /\ wire' = IF torn THEN wire ELSE wire \o SubSeq(data, 1, k)
          /\ IF k = len
             THEN UNCHANGED <<outputBuffer, writeable, waitingWrite, interest>>
             ELSE Buffer(Unsent(data, k))
          /\ torn' = torn
    BY <1>2 DEF Send
  <2>2. /\ accepted \in Nat /\ data \in Seq(Nat) /\ Len(data) = len
        /\ FirstNumbers(accepted) \o data = FirstNumbers(accepted')
    <3>1. accepted \in Nat /\ len \in Nat
      BY DEF SendInv
    <3> QED
      BY <2>1, <3>1, NumbersAreSeq, NextNumbers
  <2> HIDE DEF data
  <2>3. k \in 0 .. Len(data) /\ (outputBuffer = <<>> \/ k = 0)
    BY <2>2 DEF Taken
  <2>4. outputBuffer \in Seq(Nat) /\ wire \in Seq(Nat)
    BY DEF SendInv, StreamInv
  <2>5. outputBuffer' = outputBuffer \o SubSeq(data, k + 1, Len(data))
    <3>1. CASE k = len
      <4>1. SubSeq(data, k + 1, Len(data)) = <<>>
        BY <2>2, <2>3, <3>1, TwoParts
      <4> QED
        BY <2>1, <2>4, <3>1, <4>1, ConcatEmptySeq
    <3>2. CASE k # len
      BY <2>1, <3>2 DEF Buffer, Unsent
    <3> QED
      BY <3>1, <3>2
  <2>6. CASE torn
    BY <2>1, <2>4, <2>6 DEF StreamInv, StreamIntact
  <2>7. CASE ~torn
    <3>1. wire' \in Seq(Nat) /\ wire' \o outputBuffer' = (wire \o outputBuffer) \o data
      <4>1. wire' = wire \o SubSeq(data, 1, k)
        BY <2>1, <2>7
      <4>2. /\ wire \o SubSeq(data, 1, k) \in Seq(Nat)
            /\ (wire \o SubSeq(data, 1, k))
                 \o (outputBuffer \o SubSeq(data, k + 1, Len(data)))
               = (wire \o outputBuffer) \o data
        <5> DEFINE one == SubSeq(data, 1, k)
                   two == SubSeq(data, k + 1, Len(data))
        <5>1. data \in Seq(Nat) /\ k \in 0 .. Len(data)
          BY <2>2, <2>3
        <5>2. /\ one \in Seq(Nat) /\ two \in Seq(Nat) /\ one \o two = data
              /\ k = 0 => one = <<>>
          BY <5>1, TwoParts
        <5> HIDE DEF one, two
        <5>3. wire \o one \in Seq(Nat) /\ wire \o outputBuffer \in Seq(Nat)
          BY <2>4, <5>2, ConcatProperties
        <5>4. (wire \o one) \o (outputBuffer \o two) = (wire \o outputBuffer) \o (one \o two)
          <6>1. AreSeqs(Nat, wire, one, two) /\ AreSeqs(Nat, wire, outputBuffer, two)
            BY <2>4, <5>2 DEF AreSeqs
          <6>a. EmptyMoves(wire, one, two) /\ EmptyMoves(wire, outputBuffer, two)
            BY ONLY <6>1, EmptyBetween
          <6>2. (wire \o <<>>) \o (one \o two) = (wire \o one) \o (<<>> \o two)
            BY <6>a DEF EmptyMoves
          <6>3. (wire \o <<>>) \o (outputBuffer \o two) = (wire \o outputBuffer) \o (<<>> \o two)
            BY <6>a DEF EmptyMoves
          <6>4. outputBuffer = <<>> \/ one = <<>>
            BY <2>3, <5>2
          <6> QED
            BY <6>2, <6>3, <6>4, Zenon
        <5> QED
          BY <5>2, <5>3, <5>4 DEF one, two
      <4> QED
        BY <2>5, <4>1, <4>2
    <3>2. wire \o outputBuffer = FirstNumbers(accepted)
      BY <2>7 DEF StreamInv, StreamIntact, FirstNumbers
    <3> QED
      BY <2>1, <2>2, <3>1, <3>2 DEF StreamInv, StreamIntact, FirstNumbers
  <2> QED
    BY <2>6, <2>7
<1> QED
  BY <1>1, <1>2

\* A write that was not torn has sent the front of the buffer, once, and keeps the rest.
LEMMA WriteStream ==
  ASSUME SendInv, StreamInv, HandleWrite
  PROVE  StreamInv'
<1>1. CASE peer = "reset"
  BY <1>1 DEF HandleWrite, StreamInv, StreamIntact, sendVars
<1>2. CASE peer # "reset"
  <2>f. PICK first \in 1 .. Len(outputBuffer) :
          /\ \E k \in Taken(first) : \E l \in Taken(Len(outputBuffer) - first) :
               WriteV(first, k, l)
          /\ UNCHANGED accepted
    BY <1>2 DEF HandleWrite
  <2>k. PICK k \in Taken(first) :
          \E l \in Taken(Len(outputBuffer) - first) : WriteV(first, k, l)
    BY <2>f
  <2>l. PICK l \in Taken(Len(outputBuffer) - first) : WriteV(first, k, l)
    BY <2>k
  <2> DEFINE n == Len(outputBuffer)
             one == SubSeq(outputBuffer, 1, k)
             two == SubSeq(outputBuffer, first + 1, first + l)
             rest == SubSeq(outputBuffer, k + l + 1, n)
  <2>1. /\ n \in Nat /\ k \in 0 .. first /\ l \in 0 .. n - first
        /\ outputBuffer \in Seq(Nat) /\ wire \in Seq(Nat)
    <3>1. outputBuffer \in Seq(Nat) /\ wire \in Seq(Nat)
      BY DEF SendInv, StreamInv
    <3>2. n \in Nat
      BY <3>1, LenProperties
    <3> QED
      BY <3>1, <3>2 DEF Taken
  <2>2. /\ torn' = (torn \/ (k > 0 /\ first < n /\ l = 0) \/ (k < first /\ l > 0))
        /\ wire' = IF torn' THEN wire ELSE wire \o (one \o two)
        /\ k = 0 \/ first = n => l = 0
        /\ IF k = 0 \/ (k > 0 /\ first < n /\ l = 0)
           THEN outputBuffer' = outputBuffer
           ELSE outputBuffer' = rest
    BY <2>l DEF WriteV, Written
  <2> HIDE DEF n
  <2>3. CASE torn'
    BY <2>1, <2>2, <2>3 DEF StreamInv, StreamIntact
  <2>4. CASE ~torn'
    <3>1. /\ ~torn /\ torn' = FALSE
          /\ wire' = wire \o (one \o two)
          /\ ~(k > 0 /\ first < n /\ l = 0) /\ ~(k < first /\ l > 0)
      BY <2>2, <2>4 DEF StreamInv
    <3>2. k + l \in 0 .. n /\ l \in 0 .. n - k /\ k \in 0 .. n /\ n = Len(outputBuffer)
      BY <2>1 DEF n
    <3>3. one \o two = SubSeq(outputBuffer, 1, k + l)
      <4>1. two = SubSeq(outputBuffer, k + 1, k + l)
        <5>1. CASE l = 0
          <6>1. k \in Nat /\ first \in Nat
            BY <2>1
          <6>2. SubSeq(outputBuffer, first + 1, first + 0)
                  = SubSeq(outputBuffer, k + 1, k + 0)
            BY <6>1, EmptyPart
          <6> QED
            BY <5>1, <6>2, Zenon
        <5>2. CASE l # 0
          <6>1. k = first
            BY <2>1, <3>1, <5>2
          <6> QED
            BY <6>1
        <5> QED
          BY <5>1, <5>2
      <4>2. AreParts(Nat, outputBuffer, k, l)
        BY <2>1, <3>2 DEF AreParts
      <4>3. SubSeq(outputBuffer, 1, k) \o SubSeq(outputBuffer, k + 1, k + l)
              = SubSeq(outputBuffer, 1, k + l)
        <5>1. PartsJoin(Nat, outputBuffer, k, l)
          BY ONLY <4>2, ConcatParts
        <5> QED
          BY ONLY <5>1 DEF PartsJoin
      <4> QED
        BY <4>1, <4>3
    <3>4. outputBuffer' = rest
      <4>1. CASE k = 0
        <5>1. l = 0 /\ outputBuffer' = outputBuffer
          BY <2>1, <2>2, <4>1
        <5>2. k + l + 1 = 1
          BY <4>1, <5>1
        <5>3. rest = SubSeq(outputBuffer, 1, Len(outputBuffer))
          BY <3>2, <5>2
        <5> QED
          BY <2>1, <5>1, <5>3, SubSeqFull
      <4>2. CASE k # 0
        BY <2>1, <2>2, <3>1, <4>2
      <4> QED
        BY <4>1, <4>2
    <3>5. wire' \in Seq(Nat) /\ wire' \o outputBuffer' = wire \o outputBuffer
      <4>1. wire' = wire \o SubSeq(outputBuffer, 1, k + l)
        BY <3>1, <3>3
      <4>2. outputBuffer' = SubSeq(outputBuffer, k + l + 1, Len(outputBuffer))
        BY <3>2, <3>4
      <4>3. /\ wire \o SubSeq(outputBuffer, 1, k + l) \in Seq(Nat)
            /\ (wire \o SubSeq(outputBuffer, 1, k + l))
                 \o SubSeq(outputBuffer, k + l + 1, Len(outputBuffer)) = wire \o outputBuffer
        <5>1. HasFront(Nat, wire, outputBuffer, k + l)
          BY <2>1, <3>2 DEF HasFront
        <5>2. FrontMoved(Nat, wire, outputBuffer, k + l)
          BY ONLY <5>1, MoveFront
        <5> QED
          BY ONLY <5>2 DEF FrontMoved
      <4> QED
        BY <4>1, <4>2, <4>3
    <3>6. wire \o outputBuffer = FirstNumbers(accepted)
      BY <3>1 DEF StreamInv, StreamIntact, FirstNumbers
    <3> QED
      BY <2>f, <3>1, <3>5, <3>6 DEF StreamInv, StreamIntact, FirstNumbers
  <2> QED
    BY <2>2, <2>3, <2>4
<1> QED
  BY <1>1, <1>2

LEMMA StreamStep ==
  ASSUME ConnInv, StreamInv, [Next]_vars
  PROVE  StreamInv'
<1>1. SendInv
  BY ConnToSend
<1>2. CASE UNCHANGED <<wire, torn, outputBuffer, accepted>>
  BY <1>2 DEF StreamInv, StreamIntact
<1>3. ASSUME NEW len \in 1 .. MaxSend, LoopSend(len)
      PROVE  StreamInv'
  <2>1. len \in Nat \ {0}
    BY ConnectionAssumption
  <2> QED
    BY <1>1, <1>3, <2>1, SendStream DEF LoopSend
<1>4. CASE RunTask
  <2>1. CASE Head(tasks) = 0
    BY <1>2, <1>4, <2>1 DEF RunTask, sendVars
  <2>2. CASE Head(tasks) # 0
    <3>1. Head(tasks) \in Nat \ {0}
      BY <1>4, <2>2, TasksTaken, ConnectionAssumption DEF RunTask
    <3> QED
      BY <1>1, <1>4, <2>2, <3>1, SendStream DEF RunTask
  <2> QED
    BY <2>1, <2>2
<1>5. CASE HandleWrite
  BY <1>1, <1>5, WriteStream
<1>6. CASE \/ PeerSends \/ PeerEnds \/ Start \/ Poll \/ HandleEvent \/ HandleRead
          \/ CallbackReturns \/ UNCHANGED vars
          \/ \E len \in 1 .. MaxSend : PostSend(len)
  BY <1>2, <1>6 DEF PeerSends, PeerEnds, Start, Poll, HandleEvent, HandleRead,
                    CallbackReturns, PostSend, sendVars, vars
<1> QED
  BY <1>3, <1>4, <1>5, <1>6 DEF Next

-----------------------------------------------------------------------------
(* The input buffer *)

\* HandleRead's counts: what recvLen says has been received is what readCallback_ has
\* not been shown, and a turn that goes on reading has left the buffer full. Bytes are
\* left unshown by a close only, in a buffer doubled for a read that found the end.
InputInv ==
  /\ inputSize \in Nat
  /\ inputCapacity \in Nat \ {0}
  /\ recvLen \in Nat
  /\ unseen \in Nat
  /\ inbound \in Nat
  /\ inputSize <= inputCapacity
  /\ pc = "Read" => unseen = recvLen /\ (unseen > 0 => inputSize = inputCapacity)
  /\ unseen > 0 =>
       \/ pc = "Read"
       \/ pc \in {"Write", "Idle"} /\ state = "Closed" /\ 2 * inputSize = inputCapacity

\* Steps that touch neither the counts nor a read in progress.
LEMMA InputKept ==
  ASSUME InputInv, UNCHANGED inputVars, inbound' \in Nat, UNCHANGED pc,
         state' = state \/ state # "Closed"
  PROVE  InputInv'
BY DEF InputInv, inputVars

\* One turn of HandleRead.
LEMMA ReadTurn ==
  ASSUME ConnInv, InputInv, HandleRead
  PROVE  InputInv'
<1>1. /\ inputSize \in Nat /\ inputCapacity \in Nat \ {0} /\ inputSize <= inputCapacity
      /\ recvLen \in Nat /\ unseen = recvLen /\ inbound \in Nat
      /\ unseen > 0 => inputSize = inputCapacity
  BY DEF InputInv, HandleRead
<1>2. /\ Roomy \in Nat \ {0} /\ inputSize < Roomy
      /\ inputSize = inputCapacity => 2 * inputSize = Roomy
      /\ inputCapacity' = Roomy
  BY <1>1 DEF Roomy, HandleRead
<1>3. AfterRead \in {"Write", "Idle"}
  BY DEF AfterRead
<1>4. CASE EndOfStream
  <2>1. /\ HandleClose /\ pc' = AfterRead
        /\ UNCHANGED <<inputSize, recvLen, unseen, inbound>>
    BY <1>4 DEF HandleRead, Step
  <2>2. state' = "Closed"
    BY <2>1 DEF HandleClose, IsOpen, ConnInv, ConnType, StartInv, HandleRead
  <2> QED
    BY <1>1, <1>2, <1>3, <2>1, <2>2 DEF InputInv
<1>5. CASE ~EndOfStream
  <2> DEFINE len == IF peer = "failed" THEN 0 ELSE Lesser(inbound, Roomy - inputSize)
             full == len > 0 /\ inputSize + len = Roomy
             next == IF full THEN "Read" ELSE ReadResult(recvLen, len)
  <2>1. /\ inputSize' = inputSize + len
        /\ recvLen' = recvLen + len
        /\ unseen' = IF next = "Callback" THEN 0 ELSE unseen + len
        /\ inbound' = inbound - len
        /\ pc' = next
    BY <1>5 DEF HandleRead, Step
  <2>2. len \in Nat /\ len <= inbound /\ len <= Roomy - inputSize
    BY <1>1, <1>2 DEF Lesser
  <2>3. \/ full /\ next = "Read"
        \/ recvLen + len > 0 /\ next = "Callback"
        \/ recvLen + len = 0 /\ next \in {"Write", "Idle"}
    <3>1. ~full => next = IF recvLen + len > 0 THEN "Callback" ELSE AfterRead
      BY DEF ReadResult
    <3>2. recvLen + len \in Nat
      BY <1>1, <2>2
    <3> QED
      BY <1>3, <3>1, <3>2
  <2> HIDE DEF len, next
  <2>4. /\ inputSize' \in Nat /\ inputSize' <= Roomy /\ recvLen' \in Nat
        /\ inbound' \in Nat /\ unseen + len \in Nat
    BY <1>1, <1>2, <2>1, <2>2
  <2>5. CASE full /\ next = "Read"
    BY <1>1, <1>2, <2>1, <2>4, <2>5 DEF InputInv
  <2>6. CASE next = "Callback"
    BY <1>2, <2>1, <2>4, <2>6 DEF InputInv
  <2>7. CASE recvLen + len = 0 /\ next \in {"Write", "Idle"}
    BY <1>1, <1>2, <2>1, <2>4, <2>7 DEF InputInv
  <2> QED
    BY <2>3, <2>5, <2>6, <2>7
<1> QED
  BY <1>4, <1>5

LEMMA InputStep ==
  ASSUME ConnInv, InputInv, [Next]_vars
  PROVE  InputInv'
<1>1. SendInv /\ ConnType /\ StartInv
  BY ConnToSend DEF ConnInv
<1>2. CASE PeerSends \/ PeerEnds \/ UNCHANGED vars
  BY <1>2, InputKept DEF PeerSends, PeerEnds, peerVars, vars, InputInv
<1>3. CASE Start
  BY <1>3, InputKept DEF Start, InputInv, peerVars
<1>4. ASSUME NEW len \in 1 .. MaxSend, PostSend(len)
      PROVE  InputInv'
  BY <1>4, InputKept DEF PostSend, InputInv, peerVars
<1>5. ASSUME NEW len \in 1 .. MaxSend, LoopSend(len)
      PROVE  InputInv'
  <2>1. len \in Nat \ {0} /\ Send(len)
    BY <1>5, ConnectionAssumption DEF LoopSend
  <2>2. SendFrame
    BY <1>1, <2>1, SendStep
  <2> QED
    BY <1>5, <2>2, InputKept DEF LoopSend, SendFrame, InputInv, peerVars
<1>6. CASE RunTask
  <2>1. CASE Head(tasks) = 0
    BY <1>6, <2>1, InputKept DEF RunTask, InputInv, peerVars
  <2>2. CASE Head(tasks) # 0
    <3>1. Head(tasks) \in Nat \ {0} /\ Send(Head(tasks))
      BY <1>6, <2>2, TasksTaken, ConnectionAssumption DEF RunTask
    <3>2. SendFrame
      BY <1>1, <3>1, SendStep
    <3> QED
      BY <1>6, <3>2, InputKept DEF RunTask, SendFrame, InputInv, peerVars
  <2> QED
    BY <2>1, <2>2
<1>7. CASE Poll
  \* The connection is registered, so open: everything has been shown.
  <2>1. pc = "Idle" /\ state = "Open" /\ pc' = "Attached" /\ UNCHANGED <<inputVars, inbound>>
    BY <1>1, <1>7 DEF Poll, StartInv, peerVars
  <2>2. unseen = 0
    BY <2>1 DEF InputInv
  <2> QED
    BY <2>1, <2>2 DEF InputInv, inputVars
<1>8. CASE HandleEvent
  <2>1. /\ pc = "Attached" /\ recvLen' = 0 /\ pc' \in {"Read", "Write"}
        /\ UNCHANGED <<inputSize, inputCapacity, unseen, inbound>>
    BY <1>8 DEF HandleEvent, Step, peerVars
  <2>2. unseen = 0
    BY <2>1 DEF InputInv
  <2> QED
    BY <2>1, <2>2 DEF InputInv
<1>9. CASE HandleRead
  BY <1>9, ReadTurn
<1>10. CASE CallbackReturns
  <2>1. /\ pc = "Callback" /\ pc' \in {"Write", "Idle"} /\ inputSize' \in 0 .. inputSize
        /\ UNCHANGED <<inputCapacity, recvLen, unseen, inbound>>
    BY <1>10 DEF CallbackReturns, Step, AfterRead, peerVars
  <2>2. unseen = 0
    BY <2>1 DEF InputInv
  <2> QED
    BY <2>1, <2>2 DEF InputInv
<1>11. CASE HandleWrite
  <2>1. /\ pc = "Write" /\ pc' = "Idle" /\ UNCHANGED <<inputVars, inbound>>
    BY <1>11 DEF HandleWrite, Step, peerVars
  <2>2. state' = state \/ state' = "Closed"
    BY <1>1, <1>11, WriteStep
  <2>3. state = "Closed" => state' = "Closed"
    BY <2>2
  <2> QED
    BY <2>1, <2>3 DEF InputInv, inputVars
<1> QED
  BY <1>2, <1>3, <1>4, <1>5, <1>6, <1>7, <1>8, <1>9, <1>10, <1>11 DEF Next

-----------------------------------------------------------------------------
(* The theorems *)

LEMMA ConnInvariant == Spec => []ConnInv
BY ConnInit, ConnStep, PTL DEF Spec

\* waitingWrite_, the output buffer and the poller's write set agree in every state,
\* whoever sends, whatever the socket takes and however a batch of events is ordered.
THEOREM InterestIsExact == Spec => []WriteInterestExact
<1>1. ConnInv => WriteInterestExact
  BY DEF ConnInv, InterestInv, WriteInterestExact
<1> QED
  BY ConnInvariant, <1>1, PTL

\* Writeable() is exact for every high-water mark.
THEOREM WriteableIsAccurate == Spec => []WriteableAccurate
BY ConnInvariant, PTL DEF ConnInv

\* HandleWrite never finds an empty buffer.
THEOREM WritesHaveWork == Spec => []WriteHasWork
<1>1. ConnInv => WriteHasWork
  BY DEF ConnInv, InterestInv, EventInv, WriteHasWork
<1> QED
  BY ConnInvariant, <1>1, PTL

\* A closed connection has left the poller, although the read half of HandleEvent may
\* close it before the write half runs, and although AddEvent is a posted task.
THEOREM ClosedIsUnwatched == Spec => []ClosedUnwatched
<1>1. ConnInv => ClosedUnwatched
  BY DEF ConnInv, InterestInv, StartInv, ConnType, ClosedUnwatched
<1> QED
  BY ConnInvariant, <1>1, PTL

\* What the peer has got and what is buffered are, as long as WriteV has not torn the
\* stream, exactly the bytes Send took, in order, for every way the socket cuts a write.
THEOREM StreamStaysIntact == Spec => []StreamIntact
<1>1. Init => StreamInv
  <2>1. <<>> \in Seq(Nat) /\ <<>> \o <<>> = <<>>
    BY EmptySeq, ConcatEmptySeq
  <2>2. [i \in 1 .. 0 |-> i] = <<>>
    OBVIOUS
  <2> QED
    BY <2>1, <2>2 DEF Init, StreamInv, StreamIntact
<1>2. StreamInv => StreamIntact
  BY DEF StreamInv
<1> QED
  BY ConnInvariant, StreamStep, <1>1, <1>2, PTL DEF Spec

\* readCallback_ is called for all that was received before the loop selects again,
\* for every capacity and however the bytes come, but for a close after a full read.
THEOREM InputIsShown == Spec => []InputShown
<1>1. Init => InputInv
  BY ConnectionAssumption DEF Init, InputInv
<1>2. InputInv => InputShown
  BY DEF InputInv, InputShown
<1> QED
  BY ConnInvariant, InputStep, <1>1, <1>2, PTL DEF Spec
-----------------------------------------------------------------------------
(* Sums by counting *)

\* The numbers of f add up to n.
AddsUp(f, n) == n \in Nat /\ IsFiniteSet(Pace!Units(f)) /\ Cardinality(Pace!Units(f)) = n

\* h is f and g side by side.
Splits(h, f, g) ==
  /\ DOMAIN f \cap DOMAIN g = {}
  /\ DOMAIN h = DOMAIN f \union DOMAIN g
  /\ \A x \in DOMAIN f : h[x] = f[x]
  /\ \A x \in DOMAIN g : h[x] = g[x]

\* Parts of a sum have no unit in common.
LEMMA UnitsOfParts ==
  ASSUME NEW h, NEW f, NEW g, Splits(h, f, g)
  PROVE  /\ Pace!Units(h) = Pace!Units(f) \union Pace!Units(g)
         /\ Pace!Units(f) \cap Pace!Units(g) = {}
<1>1. ASSUME NEW e, NEW u
      PROVE  u \in Pace!Units(e) <=> \E x \in DOMAIN e : \E k \in 1 .. e[x] : u = <<x, k>>
  BY DEF Pace!Units
<1>2. ASSUME NEW u, u \in Pace!Units(h)
      PROVE  u \in Pace!Units(f) \union Pace!Units(g)
  <2>1. PICK x \in DOMAIN h : \E k \in 1 .. h[x] : u = <<x, k>>
    BY <1>1, <1>2
  <2> QED
    BY <1>1, <2>1 DEF Splits
<1>3. ASSUME NEW u, u \in Pace!Units(f)
      PROVE  u \in Pace!Units(h)
  <2>1. PICK x \in DOMAIN f : \E k \in 1 .. f[x] : u = <<x, k>>
    BY <1>1, <1>3
  <2> QED
    BY <1>1, <2>1 DEF Splits
<1>4. ASSUME NEW u, u \in Pace!Units(g)
      PROVE  u \in Pace!Units(h) /\ u \notin Pace!Units(f)
  <2>1. PICK x \in DOMAIN g : \E k \in 1 .. g[x] : u = <<x, k>>
    BY <1>1, <1>4
  <2>2. u \in Pace!Units(h)
    BY <1>1, <2>1 DEF Splits
  <2>3. ASSUME u \in Pace!Units(f) PROVE FALSE
    <3>1. PICK y \in DOMAIN f : \E l \in 1 .. f[y] : u = <<y, l>>
      BY <1>1, <2>3
    <3>2. x = y
      BY ONLY <2>1, <3>1
    <3> QED
      BY <2>1, <3>1, <3>2 DEF Splits
  <2> QED
    BY <2>2, <2>3
<1> QED
  BY <1>2, <1>3, <1>4

\* The sum of both parts is the sum of the whole.
LEMMA PartsAddUp ==
  ASSUME NEW h, NEW f, NEW g, NEW m, NEW n, Splits(h, f, g), AddsUp(f, m), AddsUp(g, n)
  PROVE  AddsUp(h, m + n)
<1>1. /\ Pace!Units(h) = Pace!Units(f) \union Pace!Units(g)
      /\ Pace!Units(f) \cap Pace!Units(g) = {}
  BY UnitsOfParts
<1>2. /\ IsFiniteSet(Pace!Units(h))
      /\ Cardinality(Pace!Units(h)) = m + n - Cardinality(Pace!Units(f) \cap Pace!Units(g))
  BY <1>1, FS_Union DEF AddsUp
<1>3. Cardinality(Pace!Units(f) \cap Pace!Units(g)) = 0
  BY <1>1, FS_EmptySet
<1> QED
  BY <1>2, <1>3 DEF AddsUp

\* Each part of a sum is one.
LEMMA PartIsLess ==
  ASSUME NEW h, NEW f, NEW g, NEW n, Splits(h, f, g), AddsUp(h, n)
  PROVE  \E m \in 0 .. n : AddsUp(f, m)
<1>1. Pace!Units(f) \in SUBSET Pace!Units(h)
  BY UnitsOfParts
<1>2. IsFiniteSet(Pace!Units(f)) /\ Cardinality(Pace!Units(f)) <= n
  BY <1>1, FS_Subset DEF AddsUp
<1>3. Cardinality(Pace!Units(f)) \in 0 .. n
  BY <1>2, FS_CardinalityType DEF AddsUp
<1> QED
  BY <1>2, <1>3 DEF AddsUp

\* What is left when a part is taken away.
LEMMA PartTaken ==
  ASSUME NEW h, NEW f, NEW g, NEW m, NEW n, Splits(h, f, g), AddsUp(h, m), AddsUp(g, n)
  PROVE  AddsUp(f, m - n)
<1>1. PICK k \in 0 .. m : AddsUp(f, k)
  BY PartIsLess DEF AddsUp
<1>2. AddsUp(h, k + n)
  BY <1>1, PartsAddUp
<1>3. m = k + n
  BY <1>2 DEF AddsUp
<1> QED
  BY <1>1, <1>3 DEF AddsUp

\* A sum is one number only.
LEMMA OneSum ==
  ASSUME NEW f, NEW m, NEW n, AddsUp(f, m), AddsUp(f, n)
  PROVE  m = n
BY DEF AddsUp

\* Noughts add up to nothing.
LEMMA NothingAddsUp ==
  ASSUME NEW f, \A x \in DOMAIN f : f[x] = 0
  PROVE  AddsUp(f, 0)
<1>1. Pace!Units(f) = {}
  BY DEF Pace!Units
<1> QED
  BY <1>1, FS_EmptySet DEF AddsUp

\* As many numbers as there are in 1 .. n.
LEMMA CountedAddUp ==
  ASSUME NEW f, NEW n \in Nat, NEW number \in [Pace!Units(f) -> 1 .. n],
         \A u, v \in Pace!Units(f) : number[u] = number[v] => u = v,
         \A i \in 1 .. n : \E u \in Pace!Units(f) : number[u] = i
  PROVE  AddsUp(f, n)
<1>1. /\ number \in Injection(Pace!Units(f), 1 .. n)
      /\ number \in Surjection(Pace!Units(f), 1 .. n)
  BY DEF Injection, IsInjective, Surjection
<1>2. IsFiniteSet(1 .. n) /\ Cardinality(1 .. n) = n
  <2>1. 1 \in Int /\ n \in Int
    OBVIOUS
  <2>2. IsFiniteSet(1 .. n) /\ Cardinality(1 .. n) = IF 1 > n THEN 0 ELSE n - 1 + 1
    BY ONLY <2>1, FS_Interval
  <2> QED
    BY <2>2
<1>3. IsFiniteSet(Pace!Units(f)) /\ Cardinality(Pace!Units(f)) = Cardinality(1 .. n)
  BY <1>1, <1>2, FS_Injection
<1> QED
  BY <1>2, <1>3 DEF AddsUp

\* The sum of one number.
LEMMA OneAddsUp ==
  ASSUME NEW f, NEW a, NEW n \in Nat, DOMAIN f = {a}, f[a] = n
  PROVE  AddsUp(f, n)
<1>1. ASSUME NEW u
      PROVE  u \in Pace!Units(f) <=> \E k \in 1 .. n : u = <<a, k>>
  BY DEF Pace!Units
<1>2. PICK number : number = [u \in Pace!Units(f) |-> u[2]]
  OBVIOUS
<1>3. ASSUME NEW u \in Pace!Units(f)
      PROVE  \E k \in 1 .. n : u = <<a, k>> /\ number[u] = k
  <2>1. PICK k \in 1 .. n : u = <<a, k>>
    BY <1>1
  <2>2. number[u] = u[2]
    BY <1>2
  <2>3. <<a, k>>[2] = k
    OBVIOUS
  <2> QED
    BY <2>1, <2>2, <2>3
<1>4. number \in [Pace!Units(f) -> 1 .. n]
  BY <1>2, <1>3
<1>5. \A u, v \in Pace!Units(f) : number[u] = number[v] => u = v
  BY <1>3
<1>6. ASSUME NEW i \in 1 .. n
      PROVE  \E u \in Pace!Units(f) : number[u] = i
  <2>1. <<a, i>> \in Pace!Units(f)
    BY <1>1
  <2>2. number[<<a, i>>] = <<a, i>>[2]
    BY <1>2, <2>1
  <2> QED
    BY <2>1, <2>2
<1> QED
  BY <1>4, <1>5, <1>6, CountedAddUp

-----------------------------------------------------------------------------
(* The pieces of SendC *)

\* What \div and % are, as products: multiples of r that fit into a.
LEMMA Division ==
  ASSUME NEW a \in Nat, NEW r \in Nat \ {0}
  PROVE  /\ a \div r \in Nat
         /\ a % r \in 0 .. r - 1
         /\ a = (a \div r) * r + (a % r)
         /\ \A x \in Int : x * r <= a => x <= a \div r
         /\ \A x \in Int : x <= a \div r => x * r <= a
<1>1. /\ a \div r \in Nat /\ a % r \in 0 .. r - 1 /\ a = r * (a \div r) + (a % r)
  OBVIOUS
<1>2. ASSUME NEW x \in Int, r * x <= a
      PROVE  x <= a \div r
  BY <1>2
<1>3. ASSUME NEW x \in Int, NEW q \in Nat, x <= q
      PROVE  x * r <= q * r
  BY <1>3
<1>4. (a \div r) * r = r * (a \div r) /\ (a \div r) * r <= a
  BY <1>1
<1>5. ASSUME NEW x \in Int, x <= a \div r
      PROVE  x * r <= a
  <2>1. x * r <= (a \div r) * r /\ x * r \in Int /\ (a \div r) * r \in Int
    BY <1>1, <1>3, <1>5
  <2> QED
    BY <1>4, <2>1
<1>6. \A x \in Int : x * r = r * x
  OBVIOUS
<1> QED
  BY <1>1, <1>2, <1>4, <1>5, <1>6

\* The places of the bytes of the pieces i and j.
LEMMA PlacesDiffer ==
  ASSUME NEW r \in Nat \ {0}, NEW i \in Nat, NEW j \in Nat,
         NEW k \in 1 .. r, NEW l \in 1 .. r,
         i * r + k = j * r + l
  PROVE  i = j /\ k = l
<1>1. ASSUME NEW x \in Nat, NEW y \in Nat, x < y
      PROVE  x * r + r <= y * r
  <2>1. PICK d \in Nat : y = x + 1 + d
    <3>1. y - x - 1 \in Nat /\ y = x + 1 + (y - x - 1)
      BY <1>1
    <3> QED
      BY <3>1
  <2>2. y * r = x * r + r + d * r
    BY <2>1
  <2>3. d * r \in Nat /\ x * r \in Nat /\ y * r \in Nat
    OBVIOUS
  <2> QED
    BY <2>2, <2>3
<1>2. i * r \in Nat /\ j * r \in Nat
  OBVIOUS
<1>3. ~(i < j) /\ ~(j < i)
  BY <1>1, <1>2
<1> QED
  BY <1>2, <1>3

\* The places of the bytes of a request: each is in one piece.
LEMMA PiecesArePlaces ==
  ASSUME Pace!PacingConstants, NEW len \in Nat
  PROVE  /\ Pace!Pieces(len) \in Nat
         /\ \A i \in 1 .. Pace!Pieces(len) :
              /\ Pace!PieceLen(len, i) \in 1 .. Rate
              /\ \A k \in 1 .. Pace!PieceLen(len, i) : (i - 1) * Rate + k \in 1 .. len
         /\ \A m \in 1 .. len :
              \E i \in 1 .. Pace!Pieces(len) : \E k \in 1 .. Pace!PieceLen(len, i) :
                (i - 1) * Rate + k = m
<1>1. Rate \in Nat \ {0} /\ len + Rate - 1 \in Nat
  BY DEF Pace!PacingConstants
<1>2. PICK p : p = Pace!Pieces(len)
  OBVIOUS
<1>3. /\ p \in Nat
      /\ \A x \in Int : x * Rate <= len + Rate - 1 <=> x <= p
  BY <1>1, <1>2, Division DEF Pace!Pieces
<1>4. ASSUME NEW i \in 1 .. p
      PROVE  /\ (i - 1) * Rate \in Nat /\ (i - 1) * Rate < len
             /\ Pace!PieceLen(len, i) = IF Rate < len - (i - 1) * Rate THEN Rate
                                   ELSE len - (i - 1) * Rate
  <2>1. i * Rate <= len + Rate - 1
    BY <1>3
  <2>2. i * Rate = (i - 1) * Rate + Rate /\ (i - 1) * Rate \in Nat
    BY <1>1
  <2> QED
    BY <1>1, <2>1, <2>2 DEF Pace!PieceLen, Pace!Least
<1>5. ASSUME NEW i \in 1 .. p
      PROVE  /\ Pace!PieceLen(len, i) \in 1 .. Rate
             /\ \A k \in 1 .. Pace!PieceLen(len, i) : (i - 1) * Rate + k \in 1 .. len
  <2>1. PICK before \in Nat : before = (i - 1) * Rate
    BY <1>4
  <2>2. PICK piece : piece = Pace!PieceLen(len, i)
    OBVIOUS
  <2>3. before < len /\ piece = IF Rate < len - before THEN Rate ELSE len - before
    BY <1>4, <2>1, <2>2
  <2>4. piece \in 1 .. Rate /\ \A k \in 1 .. piece : before + k \in 1 .. len
    BY <1>1, <2>3
  <2> QED
    BY <2>1, <2>2, <2>4
<1>6. ASSUME NEW m \in 1 .. len
      PROVE  \E i \in 1 .. p : \E k \in 1 .. Pace!PieceLen(len, i) : (i - 1) * Rate + k = m
  <2>1. m - 1 \in Nat
    OBVIOUS
  <2>2. PICK q \in Nat, l \in 0 .. Rate - 1 : m - 1 = q * Rate + l
    <3>1. /\ (m - 1) \div Rate \in Nat /\ (m - 1) % Rate \in 0 .. Rate - 1
          /\ m - 1 = ((m - 1) \div Rate) * Rate + ((m - 1) % Rate)
      BY ONLY <1>1, <2>1, Division
    <3> QED
      BY ONLY <3>1
  <2>3. (q + 1) * Rate = q * Rate + Rate /\ q * Rate \in Nat /\ (q + 1) * Rate \in Nat
    BY <1>1
  <2>4. (q + 1) * Rate <= len + Rate - 1
    BY <1>1, <2>2, <2>3
  <2>5. q + 1 \in 1 .. p
    BY <1>3, <2>4
  <2>6. (q + 1) - 1 = q
    OBVIOUS
  <2>7. l + 1 \in 1 .. Pace!PieceLen(len, q + 1)
    <3>1. Pace!PieceLen(len, q + 1) = IF Rate < len - q * Rate THEN Rate ELSE len - q * Rate
      BY <1>4, <2>5, <2>6
    <3>2. l + 1 <= Rate /\ l + 1 <= len - q * Rate /\ l + 1 \in Nat \ {0}
      BY <1>1, <2>2, <2>3
    <3> QED
      BY <1>1, <2>3, <3>1, <3>2
  <2>8. q * Rate + (l + 1) = m
    BY <2>2, <2>3
  <2> QED
    BY <2>5, <2>6, <2>7, <2>8
<1> QED
  BY <1>2, <1>3, <1>5, <1>6

\* The tasks that SendC posts, one per piece.
PieceTask(len, i) ==
  Pace!Timer("SendTemp", Pace!PieceLen(len, i), now + (i - 1) * Second, posted + i)
PieceTasks(len) == {PieceTask(len, i) : i \in 1 .. Pace!Pieces(len)}

\* SendC divides a request into pieces which are neither less nor more than it.
LEMMA PiecesAddUp ==
  ASSUME Pace!PacingConstants, posted \in Nat, NEW len \in Nat
  PROVE  AddsUp(Pace!Lengths(PieceTasks(len)), len)
<1> DEFINE f == Pace!Lengths(PieceTasks(len))
<1>1. \A i : /\ PieceTask(len, i).n = posted + i
             /\ PieceTask(len, i).len = Pace!PieceLen(len, i)
  BY DEF PieceTask, Pace!Timer
<1>2. /\ DOMAIN f = PieceTasks(len)
      /\ \A i \in 1 .. Pace!Pieces(len) : f[PieceTask(len, i)] = Pace!PieceLen(len, i)
  BY <1>1 DEF PieceTasks, Pace!Lengths
<1>3. Rate \in Nat \ {0}
  BY DEF Pace!PacingConstants
<1> HIDE DEF f
<1>4. ASSUME NEW u
      PROVE  u \in Pace!Units(f) <=>
               \E i \in 1 .. Pace!Pieces(len) : \E k \in 1 .. Pace!PieceLen(len, i) :
                 u = <<PieceTask(len, i), k>>
  <2>1. u \in Pace!Units(f) <=> \E x \in DOMAIN f : \E k \in 1 .. f[x] : u = <<x, k>>
    BY DEF Pace!Units
  <2> QED
    BY <1>2, <2>1 DEF PieceTasks
<1>5. PICK number : number = [u \in Pace!Units(f) |-> (u[1].n - posted - 1) * Rate + u[2]]
  OBVIOUS
<1>6. ASSUME NEW i \in 1 .. Pace!Pieces(len), NEW k \in 1 .. Pace!PieceLen(len, i)
      PROVE  /\ <<PieceTask(len, i), k>> \in Pace!Units(f)
             /\ number[<<PieceTask(len, i), k>>] = (i - 1) * Rate + k
  <2>1. <<PieceTask(len, i), k>> \in Pace!Units(f)
    BY <1>4
  <2>2. PICK u : u = <<PieceTask(len, i), k>>
    OBVIOUS
  <2>3. u[1] = PieceTask(len, i) /\ u[2] = k
    BY <2>2
  <2>4. u[1].n - posted - 1 = i - 1
    <3>1. u[1].n = posted + i /\ i \in Int
      BY <1>1, <2>3
    <3> QED
      BY <3>1
  <2>5. number[u] = (u[1].n - posted - 1) * Rate + u[2]
    BY <1>5, <2>1, <2>2
  <2> QED
    BY <2>1, <2>2, <2>3, <2>4, <2>5
<1>7. ASSUME NEW u \in Pace!Units(f)
      PROVE  \E i \in 1 .. Pace!Pieces(len) : \E k \in 1 .. Pace!PieceLen(len, i) :
               u = <<PieceTask(len, i), k>> /\ number[u] = (i - 1) * Rate + k
  BY <1>4, <1>6
<1>8. number \in [Pace!Units(f) -> 1 .. len]
  BY <1>5, <1>7, PiecesArePlaces
<1>9. ASSUME NEW u \in Pace!Units(f), NEW v \in Pace!Units(f), number[u] = number[v]
      PROVE  u = v
  <2>1. PICK i \in 1 .. Pace!Pieces(len) : \E k \in 1 .. Pace!PieceLen(len, i) :
               u = <<PieceTask(len, i), k>> /\ number[u] = (i - 1) * Rate + k
    BY <1>7
  <2>2. PICK k \in 1 .. Pace!PieceLen(len, i) :
               u = <<PieceTask(len, i), k>> /\ number[u] = (i - 1) * Rate + k
    BY <2>1
  <2>3. PICK j \in 1 .. Pace!Pieces(len) : \E l \in 1 .. Pace!PieceLen(len, j) :
               v = <<PieceTask(len, j), l>> /\ number[v] = (j - 1) * Rate + l
    BY <1>7
  <2>4. PICK l \in 1 .. Pace!PieceLen(len, j) :
               v = <<PieceTask(len, j), l>> /\ number[v] = (j - 1) * Rate + l
    BY <2>3
  <2>5. Pace!PieceLen(len, i) \in 1 .. Rate /\ Pace!PieceLen(len, j) \in 1 .. Rate
    BY PiecesArePlaces
  <2>6. k \in 1 .. Rate /\ l \in 1 .. Rate /\ i - 1 \in Nat /\ j - 1 \in Nat
    BY <1>3, <2>5
  <2>7. (i - 1) * Rate + k = (j - 1) * Rate + l
    BY <1>9, <2>2, <2>4
  <2>8. i - 1 = j - 1 /\ k = l
    BY ONLY <1>3, <2>6, <2>7, PlacesDiffer
  <2>9. i = j
    BY <2>8
  <2> QED
    BY <2>2, <2>4, <2>8, <2>9
<1>10. ASSUME NEW m \in 1 .. len
       PROVE  \E u \in Pace!Units(f) : number[u] = m
  <2>1. PICK i \in 1 .. Pace!Pieces(len) :
          \E k \in 1 .. Pace!PieceLen(len, i) : (i - 1) * Rate + k = m
    BY PiecesArePlaces
  <2> QED
    BY <1>6, <2>1
<1> QED
  BY <1>8, <1>9, <1>10, CountedAddUp DEF f

-----------------------------------------------------------------------------
(* The invariant *)

Tasks == [op : {"SendC", "SendTemp"}, len : Nat, due : Nat, n : Nat]

\* The tasks that are due at d.
DueIn(ts, d) == {t \in ts : t.due <= d}

Owes(ts, n) == AddsUp(Pace!Lengths(ts), n)
SentBy(t) == [u \in 0 .. t |-> sentAt[u]]

PacingType ==
  /\ now \in 0 .. MaxNow
  /\ storedPermits \in Nat
  /\ nextFree \in Nat
  /\ backlog \in Nat
  /\ timers \subseteq Tasks
  /\ posted \in Nat
  /\ requested \in Nat
  /\ charged \in Nat
  /\ sentAt \in [0 .. MaxNow -> Nat]

\* The tasks owe the backlog, and none has the name of a later one.
OwedInv == Owes(timers, backlog) /\ \A t \in timers : t.n <= posted

\* What is not in the backlog has been sent.
GoneInv ==
  /\ AddsUp(SentBy(now), requested - backlog)
  /\ \A t \in 0 .. MaxNow : t > now => sentAt[t] = 0

\* What was requested and what is stored has been paid for by the time nextFree, but for
\* less than a tick, or one, for each request that was charged.
ChargeInv ==
  /\ requested * Second + storedPermits <= Rate * (nextFree + charged)
  /\ nextFree > now => storedPermits = 0

\* What has been sent at d, if the tasks that are due by then have run.
DueInv ==
  \A d \in Nat : now <= d =>
    \E m \in Nat : /\ Owes(DueIn(timers, d), m)
                   /\ (requested - backlog + m - MaxLen) * Second <= Rate * (d + charged)

PacingInv == PacingType /\ OwedInv /\ GoneInv /\ ChargeInv /\ DueInv

-----------------------------------------------------------------------------
(* Sets of tasks *)

\* Disjoint sets of tasks are parts of a sum.
LEMMA TasksSplit ==
  ASSUME NEW A, NEW B, A \cap B = {}
  PROVE  Splits(Pace!Lengths(A \union B), Pace!Lengths(A), Pace!Lengths(B))
BY DEF Splits, Pace!Lengths

\* They owe together what each owes.
LEMMA UnionOwes ==
  ASSUME NEW A, NEW B, NEW m, NEW n, A \cap B = {}, Owes(A, m), Owes(B, n)
  PROVE  Owes(A \union B, m + n)
BY TasksSplit, PartsAddUp DEF Owes

\* A subset owes no more.
LEMMA SubsetOwes ==
  ASSUME NEW A, NEW B, NEW n, A \subseteq B, Owes(B, n)
  PROVE  \E m \in 0 .. n : Owes(A, m)
<1>1. A \union (B \ A) = B /\ A \cap (B \ A) = {}
  OBVIOUS
<1>2. Splits(Pace!Lengths(A \union (B \ A)), Pace!Lengths(A), Pace!Lengths(B \ A))
  BY ONLY <1>1, TasksSplit
<1>3. AddsUp(Pace!Lengths(A \union (B \ A)), n)
  BY <1>1 DEF Owes
<1> QED
  BY <1>2, <1>3, PartIsLess DEF Owes

\* A task owes its length.
LEMMA OneOwes ==
  ASSUME NEW t, t.len \in Nat
  PROVE  Owes({t}, t.len)
<1>1. DOMAIN Pace!Lengths({t}) = {t} /\ Pace!Lengths({t})[t] = t.len
  BY DEF Pace!Lengths
<1> QED
  BY <1>1, OneAddsUp DEF Owes

\* Without a task that much less is owed.
LEMMA RemovalOwes ==
  ASSUME NEW A, NEW t \in A, NEW n, t.len \in Nat, Owes(A, n)
  PROVE  Owes(A \ {t}, n - t.len) /\ n - t.len \in Nat
<1>1. (A \ {t}) \union {t} = A /\ (A \ {t}) \cap {t} = {}
  OBVIOUS
<1>2. Splits(Pace!Lengths((A \ {t}) \union {t}), Pace!Lengths(A \ {t}), Pace!Lengths({t}))
  BY ONLY <1>1, TasksSplit
<1>3. AddsUp(Pace!Lengths((A \ {t}) \union {t}), n) /\ AddsUp(Pace!Lengths({t}), t.len)
  BY <1>1, OneOwes DEF Owes
<1>4. AddsUp(Pace!Lengths(A \ {t}), n - t.len)
  BY <1>2, <1>3, PartTaken
<1> QED
  BY <1>4 DEF Owes, AddsUp

\* Products keep the order.
LEMMA Longer ==
  ASSUME NEW r \in Nat, NEW x \in Int, NEW y \in Int, x <= y
  PROVE  x * r <= y * r
OBVIOUS

LEMMA Later ==
  ASSUME NEW r \in Nat, NEW d \in Nat, NEW x \in Nat, NEW y \in Nat, x <= y
  PROVE  r * (d + x) <= r * (d + y)
OBVIOUS

\* What SendC makes of the tasks in pending and of len more bytes.
SendCMakes(len, pending, m) ==
  /\ timers' \subseteq Tasks /\ posted' \in Nat
  /\ Owes(timers', m + len)
  /\ \A t \in timers' : t.n <= posted'
  /\ \A d \in Nat, l \in Nat :
       Owes(DueIn(pending, d), l) => \E k \in 0 .. l + len : Owes(DueIn(timers', d), k)

\* The tasks of SendC owe what it was called for, now and at any time d at most.
LEMMA SendCStep ==
  ASSUME Pace!PacingConstants, PacingType, NEW len \in Nat, NEW pending, NEW m,
         pending \subseteq Tasks, Owes(pending, m), \A t \in pending : t.n <= posted,
         Pace!SendC(len, pending)
  PROVE  SendCMakes(len, pending, m)
<1>1. PICK pieces : pieces = PieceTasks(len)
  OBVIOUS
<1>2. timers' = pending \union pieces /\ posted' = posted + Pace!Pieces(len)
  BY <1>1 DEF Pace!SendC, PieceTasks, PieceTask
<1>3. /\ now \in Nat /\ posted \in Nat /\ Second \in Nat /\ Pace!Pieces(len) \in Nat
      /\ posted' \in Nat
  <2>1. now \in Nat /\ posted \in Nat
    BY DEF PacingType
  <2>2. Second \in Nat
    BY DEF Pace!PacingConstants
  <2>3. Pace!Pieces(len) \in Nat
    BY PiecesArePlaces
  <2> QED
    BY <1>2, <2>1, <2>2, <2>3
<1>4. ASSUME NEW i \in 1 .. Pace!Pieces(len)
      PROVE  /\ PieceTask(len, i) \in Tasks
             /\ PieceTask(len, i).n > posted /\ PieceTask(len, i).n <= posted'
  <2>1. Pace!PieceLen(len, i) \in Nat
    BY PiecesArePlaces DEF Pace!PacingConstants
  <2>2. (i - 1) * Second \in Nat /\ now + (i - 1) * Second \in Nat
    <3>1. i - 1 \in Nat
      BY <1>3
    <3>2. (i - 1) * Second \in Nat
      BY <1>3, <3>1
    <3> QED
      BY <1>3, <3>2
  <2>3. posted + i \in Nat /\ posted + i > posted /\ posted + i <= posted'
    BY <1>2, <1>3
  <2>4. PieceTask(len, i).n = posted + i
    BY DEF PieceTask, Pace!Timer
  <2> QED
    BY <2>1, <2>2, <2>3, <2>4 DEF PieceTask, Pace!Timer, Tasks
<1>5. \A t \in pieces : t \in Tasks /\ t.n > posted /\ t.n <= posted'
  BY <1>1, <1>4 DEF PieceTasks
<1>6. \A t \in pending : t.n \in Nat
  BY DEF Tasks
<1>7. timers' \subseteq Tasks
  BY <1>2, <1>5
<1>8. \A t \in timers' : t.n <= posted'
  BY <1>2, <1>3, <1>5, <1>6
<1>9. pending \cap pieces = {}
  BY <1>3, <1>5, <1>6
<1>10. Owes(pieces, len)
  BY <1>1, <1>3, PiecesAddUp DEF Owes
<1>11. Owes(timers', m + len)
  BY <1>2, <1>9, <1>10, UnionOwes
<1>12. ASSUME NEW d \in Nat, NEW l \in Nat, Owes(DueIn(pending, d), l)
       PROVE  \E k \in 0 .. l + len : Owes(DueIn(timers', d), k)
  <2>1. PICK soon : soon = DueIn(pieces, d)
    OBVIOUS
  <2>2. soon \subseteq pieces
    BY <2>1 DEF DueIn
  <2>3. PICK k \in 0 .. len : Owes(soon, k)
    BY <1>10, <2>2, SubsetOwes
  <2>4. DueIn(timers', d) = DueIn(pending, d) \union soon
    BY <1>2, <2>1 DEF DueIn
  <2>5. DueIn(pending, d) \cap soon = {}
    BY <1>9, <2>2 DEF DueIn
  <2>6. Owes(DueIn(pending, d) \union soon, l + k)
    BY ONLY <1>12, <2>3, <2>5, UnionOwes
  <2>7. l + k \in 0 .. l + len
    BY <2>3
  <2> QED
    BY <2>4, <2>6, <2>7
<1> QED
  BY <1>3, <1>7, <1>8, <1>11, <1>12 DEF SendCMakes

-----------------------------------------------------------------------------
(* The steps *)

\* A request is granted for a time by which all that was requested before is paid for.
Granted(len) ==
  /\ storedPermits' \in Nat /\ nextFree' \in Nat
  /\ charged' \in Nat /\ charged <= charged'
  /\ Pace!Wait(len) \in Nat
  /\ requested * Second <= Rate * (now + Pace!Wait(len) + charged)
  /\ (requested + len) * Second + storedPermits' <= Rate * (nextFree' + charged')
  /\ nextFree' > now => storedPermits' = 0

\* What is charged for the permits a request lacks, and one tick more, pays for them.
LEMMA DebtPays ==
  ASSUME Pace!PacingConstants, NEW len \in Nat, Pace!Permits \in Nat, ~Pace!Covered(len),
         NEW debt \in Pace!Debts(len)
  PROVE  debt \in Nat /\ len * Second - Pace!Permits <= Rate * (debt + 1)
<1>1. Rate \in Nat \ {0} /\ Second \in Nat
  BY DEF Pace!PacingConstants
<1>2. PICK lacking : lacking = len * Second - Pace!Permits
  OBVIOUS
<1>3. lacking \in Nat \ {0}
  <2>1. len * Second \in Nat
    BY <1>1
  <2> QED
    BY <1>2, <2>1 DEF Pace!Covered
<1>4. PICK ticks : ticks = lacking \div Rate
  OBVIOUS
<1>5. debt = ticks \/ (lacking % Rate = 0 /\ debt = ticks - 1)
  BY <1>2, <1>4 DEF Pace!Debts
<1>6. ticks \in Nat /\ lacking < Rate * (ticks + 1)
  BY ONLY <1>1, <1>3, <1>4, SMT
<1>7. lacking % Rate = 0 => lacking = Rate * ticks
  BY ONLY <1>1, <1>3, <1>4, SMT
<1>8. CASE debt = ticks
  BY <1>1, <1>2, <1>3, <1>6, <1>8
<1>9. CASE lacking % Rate = 0 /\ debt = ticks - 1
  <2>1. lacking = Rate * ticks
    BY <1>7, <1>9
  <2>2. ticks # 0
    BY <1>1, <1>3, <2>1
  <2>3. debt \in Nat /\ debt + 1 = ticks
    BY <1>6, <1>9, <2>2
  <2> QED
    BY <1>2, <1>3, <2>1, <2>3
<1> QED
  BY <1>5, <1>8, <1>9

\* Accquire charges a request to the next one, and the stored time only once.
LEMMA AccquireStep ==
  ASSUME Pace!PacingConstants, PacingType, ChargeInv,
         NEW len \in Nat \ {0}, Pace!Accquire(len)
  PROVE  Granted(len)
<1>1. /\ Second \in Nat \ {0} /\ Rate \in Nat
      /\ now \in Nat /\ storedPermits \in Nat /\ nextFree \in Nat /\ requested \in Nat
      /\ charged \in Nat
  BY DEF Pace!PacingConstants, PacingType
<1>2. Pace!FreeFrom \in Nat /\ now <= Pace!FreeFrom /\ nextFree <= Pace!FreeFrom
  BY <1>1 DEF Pace!FreeFrom
<1>s. requested * Second \in Nat /\ len * Second \in Nat \ {0}
      /\ (requested + len) * Second = requested * Second + len * Second
  BY <1>1
<1>3. Pace!Permits \in Nat
      /\ requested * Second + Pace!Permits <= Rate * (Pace!FreeFrom + charged)
  <2>1. CASE now > nextFree
    <3>1. PICK gain : gain = (now - nextFree) * Rate
      OBVIOUS
    <3>2. now - nextFree \in Nat
      BY <1>1, <2>1
    <3>3. gain \in Nat
      BY <1>1, <3>1, <3>2
    <3>4. Pace!Permits = Pace!Least(Rate * Second, storedPermits + gain)
      BY <2>1, <3>1 DEF Pace!Permits
    <3>5. Pace!Permits \in Nat /\ Pace!Permits <= storedPermits + gain
      <4>1. Rate * Second \in Nat
        BY <1>1
      <4> QED
        BY <1>1, <3>3, <3>4, <4>1 DEF Pace!Least
    <3>6. Rate * (nextFree + charged) + gain = Rate * (now + charged)
      BY <1>1, <3>1, SMT
    <3>7. Rate * (nextFree + charged) \in Nat /\ Rate * (now + charged) \in Nat
      BY <1>1
    <3>8. requested * Second + storedPermits <= Rate * (nextFree + charged)
      BY DEF ChargeInv
    <3>9. requested * Second + Pace!Permits <= Rate * (now + charged)
      BY ONLY <1>1, <1>s, <3>3, <3>5, <3>6, <3>7, <3>8
    <3> QED
      BY <2>1, <3>5, <3>9 DEF Pace!FreeFrom
  <2>2. CASE ~(now > nextFree)
    BY <1>1, <2>2 DEF Pace!Permits, Pace!FreeFrom, ChargeInv
  <2> QED
    BY <2>1, <2>2
<1>4. Rate * (Pace!FreeFrom + charged) \in Nat
  BY <1>1, <1>2
<1>5. requested * Second <= Rate * (Pace!FreeFrom + charged)
  BY ONLY <1>s, <1>3, <1>4
<1>6. CASE Pace!Covered(len)
  <2>1. /\ storedPermits' = Pace!Permits - len * Second /\ nextFree' = now
        /\ charged' = charged /\ Pace!Wait(len) = 0
    BY <1>6 DEF Pace!Accquire, Pace!Wait
  <2>2. len * Second <= Pace!Permits
    BY <1>6 DEF Pace!Covered
  <2>3. Pace!FreeFrom = now
    <3>1. nextFree > now => Pace!Permits = 0
      BY <1>1 DEF ChargeInv, Pace!Permits
    <3>2. ~(nextFree > now)
      BY <1>s, <2>2, <3>1
    <3> QED
      BY <1>1, <3>2 DEF Pace!FreeFrom
  <2>4. /\ storedPermits' \in Nat
        /\ (requested + len) * Second + storedPermits' = requested * Second + Pace!Permits
    BY <1>3, <1>s, <2>1, <2>2
  <2>5. (requested + len) * Second + storedPermits' <= Rate * (nextFree' + charged')
    BY <1>3, <2>1, <2>3, <2>4
  <2>6. requested * Second <= Rate * (now + Pace!Wait(len) + charged)
    <3>1. now + Pace!Wait(len) = now
      BY <1>1, <2>1
    <3> QED
      BY <1>5, <2>3, <3>1
  <2>7. nextFree' \in Nat /\ charged' \in Nat /\ charged <= charged'
        /\ Pace!Wait(len) \in Nat /\ ~(nextFree' > now)
    BY <1>1, <2>1
  <2> QED
    BY <2>4, <2>5, <2>6, <2>7 DEF Granted
<1>7. CASE ~Pace!Covered(len)
  <2>1. PICK debt \in Pace!Debts(len) : nextFree' = Pace!FreeFrom + debt
    BY <1>7 DEF Pace!Accquire
  <2>2. /\ storedPermits' = 0 /\ charged' = charged + 1
        /\ Pace!Wait(len) = Pace!FreeFrom - now
    BY <1>7 DEF Pace!Accquire, Pace!Wait
  <2>3. debt \in Nat /\ len * Second - Pace!Permits <= Rate * (debt + 1)
    BY <1>3, <1>7, DebtPays
  <2>4. Rate * (Pace!FreeFrom + charged) + Rate * (debt + 1)
          = Rate * (nextFree' + charged')
    BY <1>1, <1>2, <2>1, <2>2, <2>3, SMT
  <2>5. Rate * (debt + 1) \in Nat
    BY <1>1, <2>3
  <2>6. (requested + len) * Second + storedPermits' <= Rate * (nextFree' + charged')
    BY <1>3, <1>4, <1>s, <2>2, <2>3, <2>4, <2>5
  <2>7. /\ nextFree' \in Nat /\ Pace!Wait(len) \in Nat
        /\ now + Pace!Wait(len) = Pace!FreeFrom
        /\ charged' \in Nat /\ charged <= charged'
    BY <1>1, <1>2, <2>1, <2>2, <2>3
  <2> QED
    BY <1>5, <2>2, <2>6, <2>7 DEF Granted
<1> QED
  BY <1>6, <1>7

\* At the start nothing is owed and nothing has been sent.
LEMMA PacingInit == Pace!PacingConstants /\ Pace!Init => PacingInv
<1> SUFFICES ASSUME Pace!PacingConstants, Pace!Init PROVE PacingInv
  OBVIOUS
<1> USE DEF Pace!Init
<1>1. Second \in Nat /\ Rate \in Nat /\ MaxNow \in Nat /\ MaxLen \in Nat
  BY DEF Pace!PacingConstants
<1>2. PacingType
  BY <1>1 DEF PacingType
<1>3. Owes({}, 0)
  BY NothingAddsUp DEF Owes, Pace!Lengths
<1>4. OwedInv
  BY <1>3 DEF OwedInv
<1>5. AddsUp(SentBy(now), 0)
  <2>1. \A t \in DOMAIN SentBy(now) : SentBy(now)[t] = 0
    BY <1>1 DEF SentBy
  <2> QED
    BY <2>1, NothingAddsUp
<1>6. GoneInv
  BY <1>5 DEF GoneInv
<1>7. ChargeInv
  BY <1>1 DEF ChargeInv
<1>8. DueInv
  <2>1. \A d : DueIn(timers, d) = {}
    BY DEF DueIn
  <2>2. ASSUME NEW d \in Nat
        PROVE  (0 - 0 + 0 - MaxLen) * Second <= Rate * (d + 0)
    <3>1. 0 - 0 + 0 - MaxLen \in Int /\ 0 - 0 + 0 - MaxLen <= 0
      BY <1>1
    <3>2. (0 - 0 + 0 - MaxLen) * Second <= 0 * Second
      BY <1>1, <3>1, Longer
    <3>3. Rate * (d + 0) \in Nat /\ (0 - 0 + 0 - MaxLen) * Second \in Int
      BY <1>1
    <3> QED
      BY <1>1, <3>2, <3>3
  <2> QED
    BY <1>3, <2>1, <2>2 DEF DueInv
<1> QED
  BY <1>2, <1>4, <1>6, <1>7, <1>8 DEF PacingInv

\* A request is delayed until what was requested before it is paid for.
LEMMA SendBStep ==
  ASSUME Pace!PacingConstants, PacingInv, NEW len \in 1 .. MaxLen, Pace!SendB(len)
  PROVE  PacingInv'
<1>1. PacingType /\ OwedInv /\ GoneInv /\ ChargeInv /\ DueInv
  BY DEF PacingInv
<1>2. /\ len \in Nat \ {0} /\ len <= MaxLen /\ MaxLen \in Nat /\ Second \in Nat /\ Rate \in Nat
      /\ now \in Nat /\ backlog \in Nat /\ requested \in Nat /\ posted \in Nat
      /\ charged \in Nat
      /\ timers \subseteq Tasks
  BY <1>1 DEF Pace!PacingConstants, PacingType
<1>3. /\ requested' = requested + len /\ backlog' = backlog + len
      /\ Pace!Accquire(len) /\ UNCHANGED <<now, sentAt>>
  BY DEF Pace!SendB
<1>4. Granted(len)
  BY <1>1, <1>2, <1>3, AccquireStep
<1>5. requested' - backlog' = requested - backlog
  BY <1>2, <1>3
<1>6. GoneInv'
  BY <1>1, <1>3, <1>5 DEF GoneInv, SentBy
<1>7. ChargeInv'
  BY <1>3, <1>4 DEF ChargeInv, Granted
\* From the time of the grant on, all that is owed may have been sent.
<1>8. ASSUME NEW d \in Nat, now + Pace!Wait(len) <= d, Owes(timers', backlog')
      PROVE  \E m \in Nat :
               /\ Owes(DueIn(timers', d), m)
               /\ (requested' - backlog' + m - MaxLen) * Second <= Rate * (d + charged')
  <2>1. DueIn(timers', d) \subseteq timers'
    BY DEF DueIn
  <2>2. PICK m \in 0 .. backlog' : Owes(DueIn(timers', d), m)
    BY <1>8, <2>1, SubsetOwes
  <2>3. m \in Nat /\ requested' - backlog' + m - MaxLen \in Int
        /\ requested' - backlog' + m - MaxLen <= requested
    BY <1>2, <1>3, <2>2
  <2>4. (requested' - backlog' + m - MaxLen) * Second <= requested * Second
    BY <1>2, <2>3, Longer
  <2>5. requested * Second <= Rate * (d + charged')
    <3>1. /\ Pace!Wait(len) \in Nat /\ charged' \in Nat /\ charged <= charged'
          /\ requested * Second <= Rate * (now + Pace!Wait(len) + charged)
      BY <1>4 DEF Granted
    <3>2. now + Pace!Wait(len) + charged <= d + charged'
      BY <1>2, <1>8, <3>1
    <3>3. (now + Pace!Wait(len) + charged) * Rate <= (d + charged') * Rate
      BY <1>2, <3>1, <3>2, Longer
    <3>4. /\ (now + Pace!Wait(len) + charged) * Rate = Rate * (now + Pace!Wait(len) + charged)
          /\ (d + charged') * Rate = Rate * (d + charged')
          /\ Rate * (now + Pace!Wait(len) + charged) \in Int /\ Rate * (d + charged') \in Int
      BY <1>2, <3>1
    <3>5. requested * Second \in Int
      BY <1>2
    <3> QED
      BY <3>1, <3>3, <3>4, <3>5
  <2>6. (requested' - backlog' + m - MaxLen) * Second <= Rate * (d + charged')
    <3>1. (requested' - backlog' + m - MaxLen) * Second \in Int
          /\ requested * Second \in Int
      BY <1>2, <2>3
    <3>2. Rate * (d + charged') \in Int
      BY <1>2, <1>4 DEF Granted
    <3> QED
      BY <2>4, <2>5, <3>1, <3>2
  <2> QED
    BY <2>2, <2>3, <2>6
<1>9. CASE Pace!Wait(len) = 0
  <2>1. Pace!SendC(len, timers)
    BY <1>9 DEF Pace!SendB
  <2>2. SendCMakes(len, timers, backlog)
    BY <1>1, <1>2, <2>1, SendCStep DEF OwedInv
  <2>3. Owes(timers', backlog') /\ OwedInv'
    BY <1>3, <2>2 DEF SendCMakes, OwedInv
  <2>4. PacingType'
    BY <1>1, <1>2, <1>3, <1>4, <2>2 DEF PacingType, SendCMakes, Granted
  <2>5. \A d \in Nat : now <= d => now + Pace!Wait(len) <= d
    BY <1>2, <1>9
  <2>6. DueInv'
    BY <1>3, <1>8, <2>3, <2>5 DEF DueInv
  <2> QED
    BY <1>6, <1>7, <2>3, <2>4, <2>6 DEF PacingInv
<1>10. CASE Pace!Wait(len) # 0
  <2>1. PICK t : t = Pace!Timer("SendC", len, now + Pace!Wait(len), posted + 1)
    OBVIOUS
  <2>2. timers' = timers \union {t} /\ posted' = posted + 1
    BY <1>10, <2>1 DEF Pace!SendB
  <2>3. /\ t.len = len /\ t.due = now + Pace!Wait(len) /\ t.n = posted + 1
        /\ t.op = "SendC"
    BY <2>1 DEF Pace!Timer
  <2>4. now + Pace!Wait(len) \in Nat /\ posted + 1 \in Nat
    BY <1>2, <1>4 DEF Granted
  <2>5. t \in Tasks
    BY <1>2, <2>1, <2>4 DEF Pace!Timer, Tasks
  <2>6. \A u \in timers : u.n \in Nat /\ u.n <= posted
    BY <1>1, <1>2 DEF OwedInv, Tasks
  <2>7. timers \cap {t} = {}
    BY <1>2, <2>3, <2>6
  <2>8. Owes({t}, len)
    BY <1>2, <2>3, OneOwes
  <2>9. Owes(timers', backlog')
    BY <1>1, <1>3, <2>2, <2>7, <2>8, UnionOwes DEF OwedInv
  <2>10. OwedInv'
    BY <1>2, <2>2, <2>3, <2>6, <2>9 DEF OwedInv
  <2>11. PacingType'
    BY <1>1, <1>2, <1>3, <1>4, <2>2, <2>4, <2>5 DEF PacingType, Granted
  <2>12. ASSUME NEW d \in Nat, now <= d, ~(now + Pace!Wait(len) <= d)
         PROVE  \E m \in Nat :
                  /\ Owes(DueIn(timers', d), m)
                  /\ (requested' - backlog' + m - MaxLen) * Second <= Rate * (d + charged')
    <3>1. DueIn(timers', d) = DueIn(timers, d)
      BY <2>2, <2>3, <2>12 DEF DueIn
    <3>2. PICK m \in Nat :
            /\ Owes(DueIn(timers, d), m)
            /\ (requested - backlog + m - MaxLen) * Second <= Rate * (d + charged)
      BY <1>1, <2>12 DEF DueInv
    <3>3. (requested' - backlog' + m - MaxLen) * Second <= Rate * (d + charged)
      BY <1>5, <3>2
    <3>4. Rate * (d + charged) <= Rate * (d + charged')
      BY <1>2, <1>4, Later DEF Granted
    <3>5. /\ (requested' - backlog' + m - MaxLen) * Second \in Int
          /\ Rate * (d + charged) \in Int /\ Rate * (d + charged') \in Int
      <4>1. requested' - backlog' + m - MaxLen \in Int
        BY <1>2, <1>5, <3>2
      <4> QED
        BY <1>2, <1>4, <4>1 DEF Granted
    <3>6. (requested' - backlog' + m - MaxLen) * Second <= Rate * (d + charged')
      BY ONLY <3>3, <3>4, <3>5
    <3> QED
      BY <3>1, <3>2, <3>6
  <2>13. DueInv'
    BY <1>3, <1>8, <2>9, <2>12 DEF DueInv
  <2> QED
    BY <1>6, <1>7, <2>10, <2>11, <2>13 DEF PacingInv
<1> QED
  BY <1>9, <1>10

\* SendC run by the loop posts in place of its own task others that owe as much.
LEMMA RunSendCStep ==
  ASSUME Pace!PacingConstants, PacingInv, NEW t \in timers, Pace!RunSendC(t)
  PROVE  PacingInv'
<1>1. PacingType /\ OwedInv /\ GoneInv /\ ChargeInv /\ DueInv
  BY DEF PacingInv
<1>2. /\ UNCHANGED <<now, storedPermits, nextFree, backlog, requested, charged, sentAt>>
      /\ t.due <= now
      /\ Pace!SendC(t.len, timers \ {t})
  BY DEF Pace!RunSendC, Pace!Runs
<1>3. /\ t.len \in Nat /\ t.due \in Nat /\ now \in Nat /\ timers \ {t} \subseteq Tasks
      /\ backlog \in Nat /\ requested \in Nat /\ MaxLen \in Nat /\ Second \in Nat
      /\ Rate \in Nat /\ charged \in Nat
  BY <1>1 DEF PacingType, Tasks, Pace!PacingConstants
<1>4. Owes(timers \ {t}, backlog - t.len) /\ backlog - t.len \in Nat
  BY <1>1, <1>3, RemovalOwes DEF OwedInv
<1>5. SendCMakes(t.len, timers \ {t}, backlog - t.len)
  BY <1>1, <1>2, <1>3, <1>4, SendCStep DEF OwedInv
<1>6. backlog - t.len + t.len = backlog
  BY <1>3
<1>7. OwedInv'
  BY <1>2, <1>5, <1>6 DEF SendCMakes, OwedInv
<1>8. PacingType'
  BY <1>1, <1>2, <1>5 DEF SendCMakes, PacingType
<1>9. GoneInv' /\ ChargeInv'
  BY <1>1, <1>2 DEF GoneInv, SentBy, ChargeInv
\* The pieces are due no earlier than the task they come from.
<1>10. ASSUME NEW d \in Nat, now <= d
       PROVE  \E m \in Nat :
                /\ Owes(DueIn(timers', d), m)
                /\ (requested - backlog + m - MaxLen) * Second <= Rate * (d + charged)
  <2>1. PICK m \in Nat : /\ Owes(DueIn(timers, d), m)
                         /\ (requested - backlog + m - MaxLen) * Second <= Rate * (d + charged)
    BY <1>1, <1>10 DEF DueInv
  <2>2. t \in DueIn(timers, d) /\ DueIn(timers \ {t}, d) = DueIn(timers, d) \ {t}
    BY <1>2, <1>3, <1>10 DEF DueIn
  <2>r. Owes(DueIn(timers, d) \ {t}, m - t.len) /\ m - t.len \in Nat
    BY ONLY <1>3, <2>1, <2>2, RemovalOwes
  <2>3. Owes(DueIn(timers \ {t}, d), m - t.len) /\ m - t.len \in Nat
    BY <2>2, <2>r
  <2>4. PICK k \in 0 .. (m - t.len) + t.len : Owes(DueIn(timers', d), k)
    BY <1>5, <2>3 DEF SendCMakes
  <2>5. k \in Nat /\ k <= m
    BY <1>3, <2>1, <2>4
  <2>6. /\ requested - backlog + k - MaxLen \in Int
        /\ requested - backlog + m - MaxLen \in Int
        /\ requested - backlog + k - MaxLen <= requested - backlog + m - MaxLen
    BY <1>3, <2>1, <2>5
  <2>7. (requested - backlog + k - MaxLen) * Second
          <= (requested - backlog + m - MaxLen) * Second
    BY <1>3, <2>6, Longer
  <2>8. (requested - backlog + k - MaxLen) * Second <= Rate * (d + charged)
    <3>1. (requested - backlog + k - MaxLen) * Second \in Int
          /\ (requested - backlog + m - MaxLen) * Second \in Int
      BY <1>3, <2>6
    <3>2. Rate * (d + charged) \in Int
      BY <1>3
    <3> QED
      BY <2>1, <2>7, <3>1, <3>2
  <2> QED
    BY <2>4, <2>5, <2>8
<1>11. DueInv'
  BY <1>2, <1>10 DEF DueInv
<1> QED
  BY <1>7, <1>8, <1>9, <1>11 DEF PacingInv

\* SendTemp sends what its task owed.
LEMMA RunSendTempStep ==
  ASSUME Pace!PacingConstants, PacingInv, NEW t \in timers, Pace!RunSendTemp(t)
  PROVE  PacingInv'
<1>1. PacingType /\ OwedInv /\ GoneInv /\ ChargeInv /\ DueInv
  BY DEF PacingInv
<1>2. /\ UNCHANGED <<now, storedPermits, nextFree, posted, requested, charged>>
      /\ t.due <= now
      /\ backlog' = backlog - t.len
      /\ sentAt' = [sentAt EXCEPT ![now] = sentAt[now] + t.len]
      /\ timers' = timers \ {t}
  BY DEF Pace!RunSendTemp, Pace!Runs
<1>3. /\ t.len \in Nat /\ t.due \in Nat
      /\ now \in 0 .. MaxNow /\ now \in Nat /\ MaxNow \in Nat
      /\ timers' \subseteq Tasks /\ backlog \in Nat /\ requested \in Nat
      /\ sentAt \in [0 .. MaxNow -> Nat]
  BY <1>1, <1>2 DEF PacingType, Tasks, Pace!PacingConstants
<1>4. Owes(timers \ {t}, backlog - t.len) /\ backlog - t.len \in Nat
  BY <1>1, <1>3, RemovalOwes DEF OwedInv
<1>5. OwedInv'
  BY <1>1, <1>2, <1>4 DEF OwedInv
<1>6. /\ sentAt' \in [0 .. MaxNow -> Nat]
      /\ sentAt'[now] = sentAt[now] + t.len /\ sentAt[now] \in Nat
      /\ \A u \in 0 .. MaxNow : u # now => sentAt'[u] = sentAt[u]
  BY <1>2, <1>3
<1>7. PacingType'
  BY <1>1, <1>2, <1>3, <1>4, <1>6 DEF PacingType
<1>8. ChargeInv'
  BY <1>2, <1>1 DEF ChargeInv
<1>9. requested - backlog' = requested - backlog + t.len /\ requested - backlog \in Int
  BY <1>2, <1>3
\* What was sent before this tick is the same; at this tick it is more by t.len.
<1>10. AddsUp(SentBy(now)', requested - backlog + t.len)
  <2>1. PICK f : f = [u \in 0 .. now - 1 |-> sentAt[u]]
    OBVIOUS
  <2>2. PICK g : g = [u \in {now} |-> sentAt[now]]
    OBVIOUS
  <2>3. PICK h : h = [u \in {now} |-> sentAt[now] + t.len]
    OBVIOUS
  <2>4. /\ 0 .. now - 1 \subseteq 0 .. MaxNow
        /\ 0 .. now = (0 .. now - 1) \union {now} /\ now \notin 0 .. now - 1
    BY <1>3
  <2>5. Splits(SentBy(now), f, g)
    BY <2>1, <2>2, <2>4 DEF SentBy, Splits
  <2>6. SentBy(now)' = [u \in 0 .. now |-> sentAt'[u]]
    BY <1>2 DEF SentBy
  <2>7. Splits([u \in 0 .. now |-> sentAt'[u]], f, h)
    BY <1>6, <2>1, <2>3, <2>4 DEF Splits
  <2>8. DOMAIN g = {now} /\ g[now] = sentAt[now]
    BY <2>2
  <2>9. DOMAIN h = {now} /\ h[now] = sentAt[now] + t.len
    BY <2>3
  <2>10. AddsUp(g, sentAt[now])
    BY <1>6, <2>8, OneAddsUp
  <2>11. AddsUp(h, sentAt[now] + t.len)
    <3>1. sentAt[now] + t.len \in Nat
      BY <1>3, <1>6
    <3> QED
      BY <2>9, <3>1, OneAddsUp
  <2>12. AddsUp(f, requested - backlog - sentAt[now])
    BY <1>1, <2>5, <2>10, PartTaken DEF GoneInv
  <2>13. AddsUp(SentBy(now)', (requested - backlog - sentAt[now]) + (sentAt[now] + t.len))
    BY <2>6, <2>7, <2>11, <2>12, PartsAddUp
  <2>14. (requested - backlog - sentAt[now]) + (sentAt[now] + t.len)
           = requested - backlog + t.len
    BY <1>3, <1>6
  <2> QED
    BY <2>13, <2>14
<1>11. GoneInv'
  <2>1. \A u \in 0 .. MaxNow : u > now => u # now
    BY <1>3
  <2>2. \A u \in 0 .. MaxNow : u > now => sentAt'[u] = 0
    BY <1>1, <1>6, <2>1 DEF GoneInv
  <2> QED
    BY <1>2, <1>9, <1>10, <2>2 DEF GoneInv
<1>12. ASSUME NEW d \in Nat, now <= d
       PROVE  \E m \in Nat :
                /\ Owes(DueIn(timers', d), m)
                /\ (requested - backlog' + m - MaxLen) * Second <= Rate * (d + charged)
  <2>1. PICK m \in Nat : /\ Owes(DueIn(timers, d), m)
                         /\ (requested - backlog + m - MaxLen) * Second <= Rate * (d + charged)
    BY <1>1, <1>12 DEF DueInv
  <2>2. t \in DueIn(timers, d) /\ DueIn(timers', d) = DueIn(timers, d) \ {t}
    BY <1>2, <1>3, <1>12 DEF DueIn
  <2>3. Owes(DueIn(timers, d) \ {t}, m - t.len) /\ m - t.len \in Nat
    BY ONLY <1>3, <2>1, <2>2, RemovalOwes
  <2>4. PICK k \in Nat : k = m - t.len
    BY <2>3
  <2>5. requested - backlog' + k - MaxLen = requested - backlog + m - MaxLen
    <3>1. MaxLen \in Nat
      BY DEF Pace!PacingConstants
    <3>2. \A r, b, l, x, y \in Int : r - (b - l) + (x - l) - y = r - b + x - y
      OBVIOUS
    <3>3. /\ requested \in Int /\ backlog \in Int /\ t.len \in Int
          /\ m \in Int /\ MaxLen \in Int
      BY <1>3, <3>1
    <3>4. backlog' = backlog - t.len
      BY <1>2
    <3> QED
      BY ONLY <2>4, <3>2, <3>3, <3>4
  <2>6. (requested - backlog' + k - MaxLen) * Second <= Rate * (d + charged)
    BY <2>1, <2>5
  <2>7. Owes(DueIn(timers', d), k)
    BY <2>2, <2>3, <2>4
  <2> QED
    BY ONLY <2>4, <2>6, <2>7
<1>13. DueInv'
  BY <1>2, <1>12 DEF DueInv
<1> QED
  BY <1>5, <1>7, <1>8, <1>11, <1>13 DEF PacingInv

\* At a new tick nothing has been sent yet.
LEMMA TickStep ==
  ASSUME Pace!PacingConstants, PacingInv, Pace!Tick
  PROVE  PacingInv'
<1>1. PacingType /\ OwedInv /\ GoneInv /\ ChargeInv /\ DueInv
  BY DEF PacingInv
<1>2. /\ now < MaxNow /\ now' = now + 1
      /\ UNCHANGED <<storedPermits, nextFree, backlog, timers, posted, requested, charged,
                     sentAt>>
  BY DEF Pace!Tick
<1>3. /\ now \in 0 .. MaxNow /\ now \in Nat /\ MaxNow \in Nat /\ now + 1 \in 0 .. MaxNow
      /\ nextFree \in Nat /\ backlog \in Nat /\ requested \in Nat
  BY <1>1, <1>2 DEF PacingType, Pace!PacingConstants
<1>4. PacingType' /\ OwedInv'
  BY <1>1, <1>2, <1>3 DEF PacingType, OwedInv
<1>5. ChargeInv'
  BY <1>1, <1>2, <1>3 DEF ChargeInv
<1>6. DueInv'
  <2>1. \A d \in Nat : now + 1 <= d => now <= d
    BY <1>3
  <2> QED
    BY <1>1, <1>2, <2>1 DEF DueInv
<1>7. AddsUp(SentBy(now + 1), requested - backlog)
  <2>1. PICK g : g = [u \in {now + 1} |-> 0]
    OBVIOUS
  <2>2. sentAt[now + 1] = 0
    BY <1>1, <1>3 DEF GoneInv
  <2>3. 0 .. now + 1 = (0 .. now) \union {now + 1} /\ now + 1 \notin 0 .. now
    BY <1>3
  <2>4. Splits(SentBy(now + 1), SentBy(now), g)
    BY <2>1, <2>2, <2>3 DEF SentBy, Splits
  <2>5. AddsUp(g, 0)
    BY <2>1, NothingAddsUp
  <2>6. AddsUp(SentBy(now + 1), requested - backlog + 0)
    BY <1>1, <2>4, <2>5, PartsAddUp DEF GoneInv
  <2>7. requested - backlog + 0 = requested - backlog
    BY <1>3
  <2> QED
    BY <2>6, <2>7
<1>8. GoneInv'
  <2>1. \A u \in 0 .. MaxNow : u > now + 1 => u > now
    BY <1>3
  <2> QED
    BY <1>1, <1>2, <1>7, <2>1 DEF GoneInv, SentBy
<1> QED
  BY <1>4, <1>5, <1>6, <1>8 DEF PacingInv

\* Every step keeps the invariant.
LEMMA PacingStep ==
  Pace!PacingConstants /\ PacingInv /\ [Pace!Next]_(Pace!vars) => PacingInv'
<1> SUFFICES ASSUME Pace!PacingConstants, PacingInv, [Pace!Next]_(Pace!vars)
             PROVE  PacingInv'
  OBVIOUS
<1>1. CASE UNCHANGED Pace!vars
  <2>1. UNCHANGED <<now, storedPermits, nextFree, backlog, timers, posted, requested,
                    charged, sentAt>>
    BY <1>1 DEF Pace!vars
  <2>2. PacingType' /\ OwedInv' /\ GoneInv' /\ ChargeInv' /\ DueInv'
    BY <2>1 DEF PacingInv, PacingType, OwedInv, GoneInv, SentBy, ChargeInv, DueInv
  <2> QED
    BY <2>2 DEF PacingInv
<1> QED
  BY <1>1, SendBStep, RunSendCStep, RunSendTempStep, TickStep DEF Pace!Next

\* The invariant of Pacing, for all rates, ticks of a second and latenesses of the loop.
THEOREM PacingInvariant == Pace!Spec => []PacingInv
<1>1. Pace!Init => PacingInv
  BY PacingAssumption, PacingInit
<1>2. PacingInv /\ [Pace!Next]_(Pace!vars) => PacingInv'
  BY PacingAssumption, PacingStep
<1> QED
  BY <1>1, <1>2, PTL DEF Pace!Spec

\* Pacing counts by the same definition.
LEMMA SameCardinality == \A S : Pace!Cardinality(S) = Cardinality(S)
BY DEF Pace!Cardinality, Cardinality

\* The ring sendLimterBuffer_ and the delayed tasks of SendB, SendC and SendTemp hold the
\* same number of bytes: SendTemp never reads more than there is.
THEOREM BacklogStaysCovered == Pace!Spec => []BacklogCovered
<1>1. PacingInv => BacklogCovered
  BY SameCardinality
     DEF PacingInv, OwedInv, Owes, AddsUp, BacklogCovered, Pace!BacklogCovered, Pace!Total
<1> QED
  BY <1>1, PacingInvariant, PTL

\* RateLimiter's bound, with what its rounding gives away: from the start to any time, what
\* SendTemp has sent is what that time pays for, at most one request more, and at most a
\* tick's worth for each request that was charged, however requests, pieces and late runs
\* of the loop fall.
THEOREM RateIsKept == Pace!Spec => []LongRunRate
<1>1. PacingInv => LongRunRate
  <2> SUFFICES ASSUME PacingInv PROVE LongRunRate
    OBVIOUS
  <2>1. /\ now \in Nat /\ requested \in Nat /\ backlog \in Nat /\ charged \in Nat
        /\ MaxLen \in Nat /\ Second \in Nat /\ Rate \in Nat
    BY PacingAssumption DEF PacingInv, PacingType, Pace!PacingConstants
  <2>2. PICK m \in Nat :
          (requested - backlog + m - MaxLen) * Second <= Rate * (now + charged)
    BY <2>1 DEF PacingInv, DueInv
  <2>3. PICK sent \in Int : sent = requested - backlog
    BY <2>1
  <2>4. (sent - MaxLen) * Second <= (requested - backlog + m - MaxLen) * Second
    <3>1. /\ sent - MaxLen \in Int /\ requested - backlog + m - MaxLen \in Int
          /\ sent - MaxLen <= requested - backlog + m - MaxLen
      BY <2>1, <2>2, <2>3
    <3> QED
      BY <2>1, <3>1, Longer
  <2>5. Second * sent = (sent - MaxLen) * Second + Second * MaxLen
    BY <2>1, <2>3
  <2>6. Second * sent <= Rate * (now + charged) + Second * MaxLen
    <3>1. /\ (sent - MaxLen) * Second \in Int /\ Second * MaxLen \in Int
          /\ (requested - backlog + m - MaxLen) * Second \in Int
          /\ Rate * (now + charged) \in Int
      BY <2>1, <2>2, <2>3
    <3> QED
      BY ONLY <2>2, <2>4, <2>5, <3>1
  <2>7. Pace!SentIn(0, now) = sent
    BY <2>3, SameCardinality
       DEF PacingInv, GoneInv, SentBy, AddsUp, Pace!SentIn, Pace!Total
  <2> QED
    BY <2>6, <2>7 DEF LongRunRate, Pace!LongRunRate
<1> QED
  BY <1>1, PacingInvariant, PTL
=============================================================================
