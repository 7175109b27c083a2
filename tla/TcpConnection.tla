--------------------------- MODULE TcpConnection ---------------------------
(***************************************************************************)
(* base::TcpConnection on its loop thread: the socket, the output buffer,  *)
(* the poller's interest in the descriptor, Send from the loop and from    *)
(* other threads, HandleEvent with its read and its write half, HandleClose*)
(* The loop is TaskService: posted tasks in order, one handler at a time.  *)
(* The buffers are RingBuffers, taken here as what they implement, a queue *)
(* of bytes; where the output ring wraps is left open.                     *)
(***************************************************************************)
EXTENDS Naturals, Sequences

CONSTANTS
  HighWater,      \* highWaterWriteWarning_
  InputCapacity,  \* capacity inputBuffer_ is constructed with
  MaxSend,        \* bound: bytes of one Send
  MaxBytes,       \* bound: bytes of all Sends
  MaxTasks,       \* bound: posted tasks waiting
  MaxInbound      \* bound: bytes the peer sends

ASSUME ConnectionAssumption ==
  /\ HighWater \in Nat \ {0}
  /\ InputCapacity \in Nat \ {0}
  /\ MaxSend \in Nat
  /\ MaxBytes \in Nat
  /\ MaxTasks \in Nat
  /\ MaxInbound \in Nat

VARIABLES
  state,          \* state_: "Dummy", "Open", "Closed"
  waitingWrite,
  writeable,
  outputBuffer,   \* bytes accepted by Send and not yet given to the socket
  interest,       \* the poller's readSet and writeSet, for this descriptor
  registered,     \* the descriptor is in eventMap_
  tasks,          \* posted to the loop: 0 is AddEvent, n > 0 a Send of n bytes
  pc,             \* where the loop thread is, as far as this connection goes
  event,          \* the event attached to the callback
  inputSize,
  inputCapacity,
  recvLen,        \* local of HandleRead
  unseen,         \* bytes received since readCallback_ was last called
  inbound,        \* bytes in the kernel, not yet received
  peer,           \* "up", "fin" (closed), "reset", or "failed" (another error)
  arrived,        \* bytes the peer has sent
  offered,        \* bytes passed to Send
  accepted,       \* bytes taken by Send: byte number i is the i-th of them
  wire,           \* bytes the socket took, recorded until the stream is torn
  torn            \* a write of two segments stopped inside the first, or
                  \* between the two

sendVars == <<waitingWrite, writeable, outputBuffer, accepted, wire, torn>>
inputVars == <<inputSize, inputCapacity, recvLen, unseen>>
peerVars == <<inbound, peer, arrived>>
vars == <<state, sendVars, interest, registered, tasks, pc, event, inputVars,
          peerVars, offered>>

Init ==
  /\ state = "Dummy"
  /\ waitingWrite = FALSE
  /\ writeable = TRUE
  /\ outputBuffer = <<>>
  /\ interest = {}
  /\ registered = FALSE
  /\ tasks = <<>>
  /\ pc = "Idle"
  /\ event = {}
  /\ inputSize = 0
  /\ inputCapacity = InputCapacity
  /\ recvLen = 0
  /\ unseen = 0
  /\ inbound = 0
  /\ peer = "up"
  /\ arrived = 0
  /\ offered = 0
  /\ accepted = 0
  /\ wire = <<>>
  /\ torn = FALSE

-----------------------------------------------------------------------------
(* The peer and the network *)

PeerSends ==
  /\ peer = "up"
  /\ arrived < MaxInbound
  /\ inbound' = inbound + 1
  /\ arrived' = arrived + 1
  /\ UNCHANGED <<state, sendVars, interest, registered, tasks, pc, event,
                 inputVars, peer, offered>>

PeerEnds ==
  /\ peer \in {"up", "fin"}
  /\ peer' \in {"fin", "reset", "failed"} \ {peer}
  /\ UNCHANGED <<state, sendVars, interest, registered, tasks, pc, event,
                 inputVars, inbound, arrived, offered>>

-----------------------------------------------------------------------------
(* Start, HandleClose and Send *)

\* Listener::Accept, on the accept thread, starts the connection once.
Start ==
  /\ state = "Dummy"
  /\ state' = "Open"
  /\ tasks' = Append(tasks, 0)
  /\ UNCHANGED <<sendVars, interest, registered, pc, event, inputVars,
                 peerVars, offered>>

\* Mutant of IsOpen: the state is not looked at.
IsOpenAlways == TRUE

IsOpen == state = "Open"

\* The close callback of the listener drops its reference; no other is set.
HandleClose ==
  IF IsOpen
  THEN /\ registered' = FALSE
       /\ interest' = {}
       /\ state' = "Closed"
  ELSE UNCHANGED <<registered, interest, state>>

\* Mutant of HighWaterReached: the mark itself does not count.
HighWaterReachedLate(out) == Len(out) > HighWater

HighWaterReached(out) == Len(out) >= HighWater

\* Mutant of Unsent: a partial send is forgotten and all of the data buffered.
UnsentAll(data, sendLen) == data

Unsent(data, sendLen) == SubSeq(data, sendLen + 1, Len(data))

\* Mutant of ArmWrite: the poller is not told.
ArmWriteMissing == UNCHANGED interest

\* ModifyEvent(EventRead | EventWrite), unless it was done before.
ArmWrite == interest' = IF waitingWrite THEN interest ELSE {"Read", "Write"}

\* The end of Send: what the socket did not take goes to the output buffer.
Buffer(rest) ==
  /\ outputBuffer' = outputBuffer \o rest
  /\ writeable' = (writeable /\ ~HighWaterReached(outputBuffer'))
  /\ ArmWrite
  /\ waitingWrite' = TRUE

\* The bytes the socket may take of n offered: it is non-blocking, and 0 stands
\* for a send refused with kSocketPending or kSocketFailed, which the callers
\* treat alike.
Taken(n) == IF peer = "failed" THEN {0} ELSE 0 .. n

\* Send(void*, int) on the loop thread.
Send(len) ==
  LET data == [i \in 1 .. len |-> accepted + i]
      direct == ~waitingWrite /\ outputBuffer = <<>>
  IN  IF ~IsOpen
      THEN UNCHANGED <<state, registered, interest, sendVars>>
      ELSE IF direct /\ peer = "reset"
      THEN /\ HandleClose
           /\ UNCHANGED sendVars
      ELSE \E k \in IF direct THEN Taken(len) ELSE {0} :
             /\ accepted' = accepted + len
             /\ wire' = IF torn THEN wire ELSE wire \o SubSeq(data, 1, k)
             /\ IF k = len
                THEN UNCHANGED <<outputBuffer, writeable, waitingWrite, interest>>
                ELSE Buffer(Unsent(data, k))
             /\ UNCHANGED <<state, registered, torn>>

\* Send on another thread copies the data and posts itself to the loop.
PostSend(len) ==
  /\ state # "Dummy"
  /\ Len(tasks) < MaxTasks
  /\ offered + len <= MaxBytes
  /\ offered' = offered + len
  /\ tasks' = Append(tasks, len)
  /\ UNCHANGED <<state, sendVars, interest, registered, pc, event, inputVars,
                 peerVars>>

\* The session answers from readCallback_, or the handler of another connection
\* of the loop (a publisher's) sends on this one.
LoopSend(len) ==
  /\ pc \in {"Idle", "Attached", "Callback"}
  /\ registered
  /\ offered + len <= MaxBytes
  /\ offered' = offered + len
  /\ Send(len)
  /\ UNCHANGED <<tasks, pc, event, inputVars, peerVars>>

\* The loop runs a posted task: AddEvent for EventRead, or Send.
RunTask ==
  /\ pc = "Idle"
  /\ tasks # <<>>
  /\ tasks' = Tail(tasks)
  /\ IF Head(tasks) = 0
     THEN /\ registered' = TRUE
          /\ interest' = interest \union {"Read"}
          /\ UNCHANGED <<state, sendVars>>
     ELSE Send(Head(tasks))
  /\ UNCHANGED <<pc, event, inputVars, peerVars, offered>>

-----------------------------------------------------------------------------
(* Events *)

Readable == inbound > 0 \/ peer # "up"

\* PollTime attaches the event and lists the callback; it runs after the callbacks
\* listed before it. The write bit is taken from writeSet, the interest, and not
\* from the set select() returned: this or any other descriptor being ready is
\* enough.
Poll ==
  /\ pc = "Idle"
  /\ registered
  /\ event' = (IF Readable THEN interest \intersect {"Read"} ELSE {})
                \union (interest \intersect {"Write"})
  /\ event' # {}
  /\ pc' = "Attached"
  /\ UNCHANGED <<state, sendVars, interest, registered, tasks, inputVars,
                 peerVars, offered>>

\* HandleEvent goes on to HandleWrite, also when HandleRead closed the connection.
AfterRead == IF "Write" \in event THEN "Write" ELSE "Idle"

Step(next) ==
  /\ pc' = next
  /\ event' = IF next = "Idle" THEN {} ELSE event

HandleEvent ==
  /\ pc = "Attached"
  /\ Step(IF "Read" \in event THEN "Read" ELSE "Write")
  /\ recvLen' = 0
  /\ UNCHANGED <<state, sendVars, interest, registered, tasks, inputSize,
                 inputCapacity, unseen, peerVars, offered>>

Lesser(a, b) == IF a < b THEN a ELSE b

\* A full input buffer is doubled before the next ReadV.
Roomy == IF inputSize = inputCapacity THEN 2 * inputCapacity ELSE inputCapacity

\* Mutant of EndOfStream: an orderly close is taken for nothing to read.
EndOfStreamMissed == peer = "reset"

\* recv returned 0, or an error of the reset kind.
EndOfStream == peer = "reset" \/ (peer = "fin" /\ inbound = 0)

\* Mutant of ReadResult: the last ReadV alone decides.
ReadResultLast(total, len) == IF len > 0 THEN "Callback" ELSE AfterRead

\* The end of HandleRead: the callback if this or an earlier ReadV received bytes.
ReadResult(total, len) == IF total + len > 0 THEN "Callback" ELSE AfterRead

\* One turn of HandleRead's loop. It goes on while it leaves the buffer full.
HandleRead ==
  /\ pc = "Read"
  /\ inputCapacity' = Roomy
  /\ IF EndOfStream
     THEN /\ HandleClose
          /\ Step(AfterRead)
          /\ UNCHANGED <<inputSize, recvLen, unseen, inbound>>
     ELSE LET len == IF peer = "failed" THEN 0 ELSE Lesser(inbound, Roomy - inputSize)
              full == len > 0 /\ inputSize + len = Roomy
              next == IF full THEN "Read" ELSE ReadResult(recvLen, len)
          IN  /\ inputSize' = inputSize + len
              /\ recvLen' = recvLen + len
              /\ unseen' = IF next = "Callback" THEN 0 ELSE unseen + len
              /\ inbound' = inbound - len
              /\ Step(next)
              /\ UNCHANGED <<state, registered, interest>>
  /\ UNCHANGED <<sendVars, tasks, peer, arrived, offered>>

\* readCallback_ returns, having consumed what it could parse.
CallbackReturns ==
  /\ pc = "Callback"
  /\ inputSize' \in 0 .. inputSize
  /\ Step(AfterRead)
  /\ UNCHANGED <<state, sendVars, interest, registered, tasks, inputCapacity,
                 recvLen, unseen, peerVars, offered>>

\* Mutant of DisarmWrite: the interest in writing is kept.
DisarmWriteMissing(out) == UNCHANGED interest

\* ModifyEvent(EventRead) when everything has been written.
DisarmWrite(out) == interest' = IF out = <<>> THEN {"Read"} ELSE interest

\* WriteV returned kSocketOk: AddReadPos, and the interest is withdrawn at the end.
Written(n) ==
  LET rest == SubSeq(outputBuffer, n + 1, Len(outputBuffer))
  IN  /\ outputBuffer' = rest
      /\ writeable' = (writeable \/ ~HighWaterReached(rest))
      /\ waitingWrite' = (waitingWrite /\ rest # <<>>)
      /\ DisarmWrite(rest)

\* WriteV sends the first segment of the ring, of `first` bytes, and then the
\* second, also after a part of the first (k < first). When the second is refused
\* the bytes of the first are not counted and will be sent again.
WriteV(first, k, l) ==
  LET n == Len(outputBuffer)
      stops == k = 0
      refused == k > 0 /\ first < n /\ l = 0
      sent == SubSeq(outputBuffer, 1, k) \o SubSeq(outputBuffer, first + 1, first + l)
  IN  /\ stops \/ first = n => l = 0
      /\ torn' = (torn \/ refused \/ (k < first /\ l > 0))
      /\ wire' = IF torn' THEN wire ELSE wire \o sent
      /\ IF stops \/ refused
         THEN UNCHANGED <<outputBuffer, writeable, waitingWrite, interest>>
         ELSE Written(k + l)

\* A reset that falls between the two sends is taken as one before them.
HandleWrite ==
  /\ pc = "Write"
  /\ Step("Idle")
  /\ IF peer = "reset"
     THEN /\ HandleClose
          /\ UNCHANGED sendVars
     ELSE \E first \in 1 .. Len(outputBuffer) :
            /\ \E k \in Taken(first) : \E l \in Taken(Len(outputBuffer) - first) :
                 WriteV(first, k, l)
            /\ UNCHANGED <<state, registered, accepted>>
  /\ UNCHANGED <<tasks, inputVars, peerVars, offered>>

Next ==
  \/ PeerSends
  \/ PeerEnds
  \/ Start
  \/ \E len \in 1 .. MaxSend : PostSend(len) \/ LoopSend(len)
  \/ RunTask
  \/ Poll
  \/ HandleEvent
  \/ HandleRead
  \/ CallbackReturns
  \/ HandleWrite

Spec == Init /\ [][Next]_vars

\* The loop thread keeps running; select() reports what is ready, level-triggered;
\* and a socket asked again and again takes something, unless it has failed.
SomeWritten == HandleWrite /\ Len(outputBuffer') < Len(outputBuffer)

Fairness ==
  /\ WF_vars(RunTask)
  /\ WF_vars(Poll)
  /\ WF_vars(HandleEvent)
  /\ WF_vars(HandleRead)
  /\ WF_vars(CallbackReturns)
  /\ WF_vars(HandleWrite)
  /\ SF_vars(SomeWritten)

FairSpec == Spec /\ Fairness

-----------------------------------------------------------------------------
(* Properties *)

\* The stream the peer sees is the one the callers sent: every byte Send took is
\* once on the wire or in the output buffer, in order, whatever the partial writes
\* and whoever sent. It holds as long as no write of two segments was cut inside
\* the first or between the two: there Socket::WriteV tears the stream.
StreamIntact == ~torn => wire \o outputBuffer = [i \in 1 .. accepted |-> i]

\* waitingWrite_, the output buffer and the poller's write set are changed in
\* different calls and say the same thing while the connection is open: a byte
\* left behind is watched for, and nothing is watched for without one.
WriteInterestExact ==
  /\ waitingWrite <=> outputBuffer # <<>>
  /\ state = "Open" => (waitingWrite <=> "Write" \in interest)

\* HandleWrite's own check ("error---") never fires: whatever other callbacks of
\* the batch and the read half did since the event was attached, there is
\* something to write, so that GetReadPos sets both segments.
WriteHasWork == pc = "Write" => waitingWrite /\ outputBuffer # <<>>

\* Writeable() is what the high-water mark says of the buffer, at every moment.
WriteableAccurate == writeable <=> Len(outputBuffer) < HighWater

\* After HandleClose no handler is called for the descriptor and it is never
\* watched for writing again. It is watched for reading only if the write half of
\* the same HandleEvent emptied the output buffer after the read half had closed.
ClosedUnwatched ==
  state = "Closed" =>
    /\ ~registered
    /\ "Write" \notin interest
    /\ interest # {} => outputBuffer = <<>>

\* Received bytes are shown to readCallback_ before the loop goes back to select.
\* The exception is a connection that ends right after a read that filled the
\* input buffer: the loop reads again, closes, and returns without the callback.
InputShown ==
  unseen > 0 =>
    \/ pc = "Read"
    \/ state = "Closed" /\ 2 * inputSize = inputCapacity

\* Once the peer has closed or reset the connection, it is closed here too.
PeerGoneIsNoticed ==
  (peer = "reset" \/ peer = "fin") /\ registered ~> ~registered \/ peer = "failed"

\* Bytes accepted by Send leave, unless the connection closes or its socket fails
\* with an error that is not a reset (then they are kept for ever: nobody closes).
OutputDrains ==
  outputBuffer # <<>> ~> outputBuffer = <<>> \/ state = "Closed" \/ peer = "failed"
=============================================================================
