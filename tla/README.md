# Verification of streamcode

TLA+ models of this repository's C++ streaming server (`src/base`, a reactor
library; `src/stream`, RTMP, HTTP-FLV and media formats on top of it), the TLC
configurations that check them on small instances, and TLAPS proofs of the
properties of the core. Every definition follows the source at the lines that
`PROJECT.json` ("map") gives for it.

    tlc -workers 2 -config EventLoop.cfg EventLoop.tla     # one run
    tlapm EventLoopProofs.tla                              # one module's proofs

## 1. The system

`http-flv.cpp` starts an `HttpServer` and an `RtmpServer`. Each has an accept
thread and five io threads; each of these runs an `EventMessageLoop`. A connection
belongs to the loop that the manager chose for it, and only that thread touches
its buffers. Other threads reach it by posting tasks. A publisher's session pushes
packets into an `RtmpSource`, which calls the sessions of the players *on the
publisher's thread*; these send with `TcpConnection::Send`, which posts to the
player's loop. A `WorkPool` runs file reads.

| Part | State | Operations | Hard behaviour | What makes it correct |
|---|---|---|---|---|
| Message loop (`MessageLoop`, `EventMessageLoop`, `SocketPipe`) | incoming and work queue, delayed tasks, idle tasks, wake pipe, computed wait | five `Post*Task`, one turn of `RunLoop` | posts fall between any two steps of the turn; the pipe can be full; the wait is computed long before `select` | no lost wake-up, no sleep past a timer, tasks once and in order, every task served |
| Poller (`SelectPoller`) | read and write sets, event of each descriptor | Add/Modify/RemoveEvent, PollTime | events are attached before the callbacks of the batch run | no handler for a removed descriptor |
| Ring buffer (`RingBuffer`) | memory, read and write position, size | Write, Read, Peek, ReadString, Resize, the two-segment views | wrap-around, full against empty, growth of a wrapped ring | it is a queue of bytes |
| Connection (`TcpConnection`, `Socket`) | state, output and input buffer, waitingWrite_, writeable_ | Send (any thread), HandleRead, HandleWrite, HandleClose | partial writes, resets, closing inside an event that has a second half | the peer sees the bytes sent; interest and buffer agree; end is noticed |
| Worker pool (`WorkPool`, `BlockingQueue`, `Cond`) | task queue, threadNum_, waiting threads | PostTask, worker loop | test and change of the count are separate steps; timeouts race posts; a thread cannot be created and nobody looks | bounded, a count that is off by the failures only, nobody sleeps on work, shrinks |
| Rate limiter (`RateLimiter`, `SendB`) | stored permits, next free time, backlog, delayed tasks | Accquire, SendB, SendC, SendTemp | the clock moves between grant and use; two records of the same bytes; waits cut to whole microseconds | tasks cover the backlog; the rate is kept but for the rounding |
| Source and cache (`RtmpSource`, `GopCache`) | configuration, cached packets, callbacks | PushPacket(Config), StartRead | publisher and players on different threads, three unlocked regions | no repetition, no hole, cache decodable |
| Chunk codec (`RtmpDecoder`) | handshake state, chunk size, a record per channel | decode; Send functions | bytes in pieces, channels mixed, headers omitted, chunk size changing | messages put together exactly; in step |
| RTMP session (`RtmpSession`, the writing half of `RtmpDecoder`) | application, source, place in `Run`; sources and their players | connect, publish, play, delete, video; replies cut into chunks | clients command in any order; two threads write to one connection | whole messages on the wire; introduction before packets; what was started can be played |
| HTTP-FLV (`HttpRequest`, `HttpFlvSession`, `FlvEncoder`) | parser status, fields, body length, last tag's size | Parse, ProcessHttp, the tags | requests in pieces, a local that is lost between calls, tags from two threads | one answer per request; a well-formed stream |
| Server (`TcpServer`, `EventLoopThread`, `EventLoopManager`, `Listener`, `WaitableEvent`) | loops and their threads, event, counter, set of connections | Start, Accept, GetOneLoop, CloseConnection | signals before waits, unsynchronised set and counter, failed threads | Start returns; no loop used before it is there; exact set |
| FLV reader (`FlvReader`) | file position, buffers, tasks on the pool | ReadHeader, ReadFile, DocodeChunk | tags cut by pieces; two chains of tasks on one buffer | packets once and in order; an end |
| Message buffer (`DrainableBuffer`) | memory, positions, size | Write, AddWritePos, Read, Peek | a write that just fits | it is a queue of bytes |
| RTSP and RTP (`RtspSession`, `RTP`) | reader, sequence number shared by all | the five methods, SendNaluPacket | replies and fragments from two threads; units that just fit a packet | whole replies and units, numbered |
| AMF, HLS, H.264 | formats | | stateless, or not created by the programs | not modelled |

`PROJECT.json` lists all components with their status, and under "hazards" what
can go wrong at which line, with the properties that speak of it.

## 2. Modules

| Module | Models | Correspondence |
|---|---|---|
| `TaskService` | nothing of its own | what a loop promises to the threads that post: the abstract specification of `EventLoop` |
| `EventLoop` | `MessageLoop`, `EventMessageLoop`, `SocketPipe`, the polling of `SelectPoller` | `loopPc` is the place in `RunLoop`; one action per call it makes (`InjectWorkQueue`, `RunWorkTask`, `PollZero`, `DelayNotDue`, `RunDelayTask`, `RunIdleTask`, `ChooseWait`, `PollWakes`, ...). A post from another thread is `PostTask` (push under the mutex) and `ScheduleWork` (the byte), two steps. A task or event handler may post while it runs. `delayWorkTime` = 0 stands for the code's "unset" and its infinite `select` |
| `ByteQueue` | nothing of its own | a queue of bytes: the abstract specification of `RingBuffer` |
| `RingBuffer` | `RingBuffer.cpp`, `TBuffer.h` | a ring is the record of the members, each function of the class an operator on it; the state machine applies them in any order, with the callers' size checks |
| `TcpConnection` | `TcpConnection`, its part of `SelectPoller`, the outcomes of `Socket` | `pc` is the place in `HandleEvent`; `Attached` is a batch of poller callbacks in which others run first; `tasks` are the posted `SendInLoop`s. Bytes are numbered in the order `Send` accepts them |
| `WorkPool` | `WorkPool`, `BlockingQueue`, `Cond` | `post[t]` is the place of thread t in `PostTask`, `pc[w]` the place of worker w in its loop; waiting with and without a timeout as `coreThreads_` tells; workers run tasks that may post; `AddThread` creates a worker (`Start`) or not (`StartFails`), and `failed` counts the threads that never came to be |
| `Pacing` | `SendB`, `SendC`, `SendTemp`, `RateLimiter` | one action per function, time in ticks, which are the microseconds of the code; `timers` are the delayed tasks posted, run up to `MaxLag` late. Stored permits are kept times `Second`, so that they are whole numbers where the code has a double; what is charged for permits that lack is cut to whole ticks as by the cast in `Accquire`, and a product that is whole may come out one tick lower (`Debts`). `charged` counts the requests that were cut |
| `RtmpSource` | `RtmpSource`, `GopCache`, delivery to players | `pubPc`, `playerPc`: the publisher between the copy of the callbacks, the cache and the calls; a player between cache, and registration |
| `WaitableEvent`, `Server` | `WaitableEvent`, `EventLoopThread`, `EventLoopManager`, `TcpServer::Start`, `Listener` | the event is a record with operators; `mainPc` is the place in `Start`, `thread[l]` the place of a new thread, `acceptPc[a]` the place of a Listener in `Accept`, with `GetOneLoop` in three steps. The loop of a Listener is taken where the Listener is constructed, so that a null one is used later, in `Listen`. Connections are numbered by accept() |
| `RtmpSession` | `RtmpSession`, `SendRtmpProtol` and the replies, the sources the sessions share | one action per command of `g_mapCmd`; `pc` is the place of a session's thread in `Run`, between cache and registration of a player and between the calls of a publisher; `wire` is what the peer has got, chunk by chunk |
| `HttpFlv` | `HttpRequest`, `HttpFlvSession`, `FlvEncoder` and the publisher of the stream | `Receive` appends a piece and starts `Parse`, of which each round of its loop is an action, by the status; `preTagSize` belongs to the encoder, which both threads use |
| `FlvReader` | `FlvReader`, `File` | tasks of the pool; `worker[w]` is the place of a worker in a task; a round of `DocodeChunk` is an action |
| `DrainableBuffer` | `DrainableBuffer` | one action per call; `filledBy` tells which of the two ways its maker fills it |
| `Rtsp` | `RtspSession`, `RtspRequest`, `RTP::SendNaluPacket` | `OnRead` parses what came, one operator per method; the reader's packets are sent by tasks, `seq++` in two steps. `Allowed` is what RFC 6184 says of the two bits of a fragment, `OneFragment` the two lengths of units for which the code does otherwise |
| `RtmpDecoder` | `RtmpDecoder::decode`, `RtmpSession::OnRecv`, `Run`'s clearing | one action per iteration of the loop in `decode`, by how it ends; the peer is a client that keeps the protocol, written from the headers that decode expects |
| `SeqFacts`, `EventLoopProofs`, `BufferProofs`, `TcpConnectionProofs`, `WorkPoolProofs`, `ServerProofs`, `StreamProofs`, `RtmpSessionProofs` | | lemmas on sequences, and proofs. `BufferProofs` speaks of both buffers (it extends `MCBuffers`), `TcpConnectionProofs` of both ways of sending (it extends `MCConnection`), `StreamProofs` of a source, of an FLV answer made from one, of a file that is read and of the RTSP sessions that send its units (it extends `MCStreams`), `RtmpSessionProofs` of both ends of the chunk codec (it extends `MCRtmp`) |
| `MCBuffers`, `MCConnection`, `MCRtmp`, `MCStreams` | | modules in one instance, one of which a behaviour uses: ring and message buffer, which implement the same queue; a connection that sends at once, and one that sends at a rate; the sessions, which write chunks, and the decoder, which reads them; a source with its players, an HTTP-FLV session with its publisher, the reader of a file, and the RTSP sessions |

Composition is by abstraction: `EventLoop` implements `TaskService`, which is how
`TcpConnection` and `Pacing` see the loop (tasks in order, one handler at a time);
`RingBuffer` and
`DrainableBuffer` implement `ByteQueue`, which is how `TcpConnection`, `Pacing` and
`RtmpDecoder` see buffers; `TcpConnection`'s `StreamIntact` is why `RtmpSource`
and `RtmpSession` may take a `Send` for a delivery. `RtmpDecoder`'s `DeliveredExact`
(the reading half) and `RtmpSession`'s `WireIsMessages` (the writing half) have the
wire in common. `FlvReader`'s `DeliveredExact` is what `Rtsp` takes a reader for, as
long as the reader's tasks do not run at once. `WaitableEvent` is shared by all loop
threads of `Server`.

An operator commented "Mutant of X" is X with a plausible slip. No specification
uses it; with X replaced by it, the property that `PROJECT.json` ("mutants") names
is violated, which shows that the property is able to fail.

## 3. What TLC checks

| Run | Instance | Distinct states | Shows |
|---|---|---|---|
| `loop` | 1 poster and the loop, 2 posts each, all kinds, one delay, pipe of 1 byte, 1 other readiness event, fair | 322 000 | `NoLostWakeup`, `RunsInPostingOrder`, `ImplementsService`, `EveryTaskServed` |
| `timers` | the same with delays of 0, 1 and 2 ticks and one tick more, not fair | 6 957 000 | `SleepsUntilTimer` |
| `buffers` | rings of 1 to 3, growth to 6, chunks to 3; messages of up to 4 bytes | 25 000 | `PositionsAgree`, `PeekIsExact`, `ImplementsByteQueue`; `MessageImplementsByteQueue` |
| `conn` | 5 bytes out, 3 in, watermark 2, fair | 230 000 | `StreamIntact`, `WriteInterestExact`, `WriteHasWork`, `WriteableAccurate`, `ClosedUnwatched`, `InputShown`, `PeerGoneIsNoticed`, `OutputDrains` |
| `paced` | rate 3 bytes a second of 2 ticks, 9 bytes in requests to 4, 4 ticks, 1 tick late | 4 308 000 | `BacklogCovered`, `LongRunRate` |
| `pool` | `WorkPool(1, 2)`, 1 poster, 4 worker names, 7 posts, 2 threads that cannot be created, fair | 358 000 | `ThreadNumExact`, `PoolBounded`, `WorkIsSeen`, `TasksServed`, `PoolShrinks` |
| `pacing_bucket` | rate 3 bytes a second of 6 ticks, requests to 2, loop never late | (violation) | `TokenBucket`: the README's claim does not hold |
| `streams` | 2 players, 4 packets, 2 configurations; 3 requests with bodies of 0 and 1, 1 request with such a body and 2 packets, 1 without and 3 packets, of 2 sizes; all files of up to 4 tags of 5 kinds, pieces of 4 and 5, buffer of 8, 2 workers, fair; 2 RTSP sessions, 3 and 2 requests, a file of units of 4, 3, 2 and 1 bytes in packets of 2, of which the second session reads the first unit | 1 138 000 | `NoRepeat`, `LiveIsComplete`, `GopFromLastKey`; `AnsweredInOrder`, `FlvWellFormed`; `DeliveredExact`, `ReaderEnds`; `WireIsRepliesAndUnits` |
| `rtmp` | 2 sessions, 5 messages, 3 of them video of 2 or 3 bytes, chunks of 2; a decoder with 2 channels, 3 messages, chunks of 2 bytes, then 1 or 3 | 1 589 000 | `WireIsMessages`, `PlayIsIntroduced`, `StartedIsPlayable`; `DeliveredExact`, `NothingHeldBack` |
| `server` | 2 accepting and 2 serving loops, 3 calls of accept(), 1 failure, fair | 1 809 000 | `NullNeedsFailure`, `SetIsExact`, `StartReturns` |

### Why the bounds are enough

- **Loop.** A lost wake-up needs one task, one thread between its two steps and
  a full or drained pipe: a poster, the loop's own handlers and a pipe of one byte
  give every such state. Ordering needs two tasks of one thread. In `loop` all delayed
  tasks are due together, which is enough for wake-ups and order. What can be wrong with
  a wait needs timers of different times: in `timers` tasks are due at once, one and two
  ticks after they are posted, on a clock of three ticks, so that timers which are early,
  due and late are in the queue together, an earlier one is posted after a wait has been
  computed for a later one, and a timer becomes due between `ChooseWait` and `select`.
  The general case of both is covered by the proofs.
- **Ring.** Positions in rings of 1 to 3 bytes that double to 6 meet every
  comparison in the code with <, = and >. A message buffer is filled to below, to and
  not beyond its end. Both refinements are proved for every size.
- **Connection.** Five bytes in sends of at most two, watermark two: a partial
  write below, at and above the mark, with two tasks waiting behind it.
- **Rate.** A request is less than, equal to and more than a second's permits,
  and the next one comes before and after it is paid for. At three bytes in two ticks
  what one lacking byte costs is less than a tick and is lost, two cost one tick and a
  third, three cost two ticks or, by the product of doubles, one. Four go in two pieces,
  and nine bytes are three requests at one time, of which the last pays for the others.
- **Pool.** The poster and a running task can be past the maximum's test at once, and
  as many workers as `PoolBounded` allows do come to be within the seven posts (a bound
  one lower is violated). Two threads that cannot be created make the count wrong by as
  much as the pool can grow, and can leave a pool without a single worker; the three
  invariants are proved for all numbers of threads and failures.
- **Source.** Two players make the copied list stale for one of them while the
  other is called; four packets allow a second key frame after a player joined.
- **Decoder.** Three messages: a chunk size announced between the first and the
  second chunk of another channel's message. Sizes 0 and 3 give an empty message,
  one of two chunks, and of three.

- **Server.** Two accepting and two serving loops: each Listener can be between the
  steps of `GetOneLoop` while a thread of a serving loop is in its set, and the counter
  can be inside, at the end of and behind the vector. One failure is enough for each
  place at which one can happen.
- **Session.** Two sessions publish and play each other's stream, or their own; the
  video channel is one that replies use as well; videos of a chunk and of two chunks.
- **HTTP.** A body of one byte divides "complete" from "not complete"; three packets
  are a configuration, a cached packet and a live one, which is what meets in
  `preTagSize`.
- **Files and RTSP.** Tags shorter than, as long as and longer than a piece begin at every
  place of a piece, with and without a rest in the buffer; and one tag just fits and one
  does not fit the buffer. Numbers that go round after two packets. With packets of
  two bytes, units of one byte are sent whole, those of two and three make a single fragment
  (the boundary lengths 1350 and 1351 of the code), and those of four make two. The second
  session is there for what two sessions share, the packet numbers; it reads one unit.

### Fairness

- `EventLoop`: the loop thread keeps running (`RunLoop` is an endless loop that the
  platform schedules), a poster between push and byte goes on, and the clock ticks.
  Nobody is obliged to post.
- `TcpConnection`: tasks run, `select` reports, handlers return: what the loop
  guarantees by `EveryTaskServed`. Strong fairness is needed for one thing, that a
  socket which is writable again and again takes a byte at last; a socket may
  refuse any number of times before.
- `WorkPool`: each thread takes its next step. A waiting worker with a timeout
  wakes at the timeout; one without is woken by a signal only.
- `Server`: the main thread, the threads it creates and the creation of Listeners go
  on. A wake-up without a signal may happen, but nothing relies on it
  (`SpuriousStep` has no fairness); nor is a peer obliged to come.
- `FlvReader`: each worker of the pool takes its next step.

### What is not a property, but in the models

The models follow the code where it is surprising, and the properties say so:

- An idle task is never popped, so it runs again for ever and the loop never sleeps
  (`EveryTaskServed` takes a task that has become one for served).
- `Socket::WriteV` writes two segments by two calls. When the first is cut short or
  the second refused, bytes are skipped or sent twice: variable `torn`, which
  `StreamIntact` excludes.
- A socket error that is not a reset leaves the connection open with its output
  (`OutputDrains`, `PeerGoneIsNoticed`: `peer = "failed"`).
- A connection that ends directly after a read which filled the input buffer closes
  without showing those bytes (`InputShown`).
- All workers can leave with a task queued (`TasksServed` excludes it).
- A worker whose thread could not be created is counted like the others, for ever
  (`WorkPool.cpp:19` ignores the result of `Start`): `ThreadNumExact` says that the count is
  too high by these threads and by nothing else. An idle worker then leaves that should stay,
  and a pool may go down to none (`PoolShrinks` says at most the core).
- `RateLimiter` cuts each wait to whole microseconds (`RateLimiter.h:93`), in favour of the
  sender: `LongRunRate` holds up to a tick's worth for every request that stored permits did not
  cover. Above 1 000 000 bytes a second a tick is worth more than a byte, and requests of one
  byte are free.
- A unit of 1350 or 1351 bytes leaves as one fragment with both the start and the end bit
  (`RTP.cpp:66`), which RFC 6184 forbids in section 5.8. `WireIsRepliesAndUnits` takes such a
  packet for units of these two lengths only (`OneFragment`).
- A packet published between a player's reading of the cache and its registration
  reaches it by neither way; a player that copies the cache while it changes reads a
  vector under modification (`raced`).
- `RingBuffer::Peek` subtracts the offset from the bytes before the memory's end
  without asking whether the offset lies behind it (`PeekDefined`). `PeekIsExact`
  speaks of the other peeks. `decode` looks into headers by such peeks; the
  decoder's model takes its buffer for a byte queue and does not include a header
  that is divided by the end of the ring before the field looked at.

- `threadCounter_` starts with any value, and a loop whose thread did not start is in
  the vector all the same: a null loop is used (`crashed`). `NullNeedsFailure` says that
  nothing else leads there.
- The io threads erase from the Listener's `std::set` while the accepting thread inserts
  (`raced`); `SetIsExact` speaks of the connections of a Listener to which this has not
  happened.
- Each accepting loop gets a Listener with a socket of its own, bound where it is made
  (`Socket.cpp:153`), before `SetReuseAddr`; neither the result of `Bind` nor that of
  `Listen` is used. With more than one accepting thread ("可配置的accept线程", README.md:3)
  only the first one has the address and listens (`MayBind`, `Listen`).
- Video before publish, and play of a stream that nobody has published, use a null
  source; `StartedIsPlayable` says that nothing else does.
- `content_length` is a local of `HttpRequest::Parse`: a body that arrives later than
  its head is taken for empty; and a request without `Content-Length` after one with it
  inherits the length (`AnsweredInOrder` excludes both: `cut`, `Inherits`).
- A tag longer than the reader's buffer makes `DocodeChunk` go round for ever
  (`ReaderEnds` excludes it); a video tag of another codec leaves the reader inside the
  tag (`lost`); the two chains of `ReadFile` tasks may run at once (`raced`).
- RTP's sequence number is shared by all sessions and incremented without a lock, and
  DESCRIBE replaces a reader that tasks still use (`undefined`).

The one disagreement with a document that a run shows is `pacing_bucket`: the README calls the
limiter a token bucket at a fixed rate; what the code bounds is the long run only
(`LongRunRate`).

## 4. What is proved

Proofs are for every value of the constants that satisfies the named assumption of the
module. These say that bounds are numbers, sets of sizes are sets of numbers, and beside
that: the pipe holds a byte (`ConstantsAssumption`, `EventLoop`); capacities are positive
and what memory held before is no byte (`RingAssumption`); watermark and input capacity
are positive (`ConnectionAssumption`); the rate and the ticks of a second are
positive (`PacingAssumption`); the sets of threads are finite and disjoint, there is a thread
outside the pool, and the core is within the maximum (`PoolAssumption`); there is a loop
of either kind (`ServerAssumption`); chunks and videos are not empty and the video
channel is one a basic header of one byte can name (`SessionAssumption`); chunk sizes are
positive, and so is the length of the handshake (`DecoderAssumption`). For `HttpFlv` they say only
that lengths and bounds are numbers (`HttpAssumption`). For `FlvReader` they say that heads,
pieces and the buffer have a length, that the first piece is longer than the head of a file and
not longer than the others, and that these fit the buffer (9, 200, 4096 and 4194304 bytes in
the code), and that a file is a sequence of tags with sizes (`ReaderAssumption`). For `Rtsp` they say that
no unit is empty, that a packet carries two bytes or more (1350 in the code) and that there are
packet numbers (`RtspAssumption`). The message buffer needs no assumption.

| Theorem | Statement | Argument |
|---|---|---|
| `TypeCorrect` (`EventLoopProofs`) | `Spec => []TypeOK` | `TypeOK` is inductive; one step per action; lemmas on Push, the wake write and callbacks |
| `NeverLosesWakeup` | `Spec => []NoLostWakeup` | Nothing in the state at `select` explains the byte, so the invariant is strengthened to every place of the loop at which the incoming queue has been looked at or the pipe drained: a byte is drained only in a turn that swaps the queues afterwards. A push leaves a `ScheduleWork` behind, and the write makes the pipe non-empty even when it is full |
| `NeverOversleeps` | `Spec => []SleepsUntilTimer` | `TimerInv` states for each place of the turn what the steps before have established about the batch, the timers and the computed wait |
| `PlainTasksInOrder` | `Spec => RunsInPostingOrder` | an action property. `OrderInv`: the batch and the incoming queue, joined, are in posting order and numbered up to what each thread has posted. The swap does not change what is joined; a push adds the next number of its thread; what runs is the head |
| `LoopImplementsService` | `Spec => ImplementsService` | every step is a step of `TaskService` or leaves its variables alone: the queues joined (`workQueue \o incomingQueue`) make the swap invisible. Uses `SeqFacts` |
| `PositionsAlwaysAgree` (`BufferProofs`) | `Spec => []PositionsAgree` | with bounds on the positions and the size, inductive: one lemma per function of the class |
| `RingImplementsQueue` | `Spec => ImplementsByteQueue` | what the ring stores is `Stretch`, the cells from the read position on, counted round the end. Each function is shown to prolong or shorten the stretch: two copies around the end are one stretch, `Resize` turns it to the front, the two free segments hold what comes behind it. The cells stored are bytes and not what memory held before (`BufferInv`) |
| `PeekStaysExact` | `Spec => []PeekIsExact` | from the same invariant: the pieces a peek copies are a part of the stretch |
| `MessageImplementsQueue` | `Message!Spec => MessageImplementsByteQueue` | what is stored lies within the memory and, in a buffer filled by `AddWritePos`, ends at the write position (it does not after a `Write` that just fits, which is why there must be one such Write only). Storing behind a piece of memory prolongs it, and a piece splits at any place |
| `InterestIsExact`, `WriteableIsAccurate`, `WritesHaveWork`, `ClosedIsUnwatched` (`TcpConnectionProofs`) | `Spec => []WriteInterestExact` and so on | one invariant, `ConnInv`: the four facts hold each other up (the write half finds work because the poll attached an event for an open connection whose interest was exact, and because nothing between poll and write half withdraws it: `EventInv`; a closed connection is not registered again because `AddEvent` is alone at the head of the tasks until it has run: `StartInv`). `SendInv` is the part that Send can disturb, with a lemma for each of its outcomes |
| `StreamStaysIntact` | `Spec => []StreamIntact` | inductive over `ConnInv`, which says that a Send with an empty buffer and only such a one reaches the socket first: what it takes and what is buffered behind are one piece. For the write half, the two segments are parts of the output buffer, and unless the write is torn what left it is its front |
| `InputIsShown` | `Spec => []InputShown` | `InputInv`: `recvLen` is what `readCallback_` has not seen, and a turn that goes on reading has left the buffer full; so a close inside that turn finds a buffer which has just doubled |
| `BacklogStaysCovered` | `Pace!Spec => []BacklogCovered` | the sum is a cardinality, so that sums of disjoint parts add up by counting. `OwedInv`: the tasks owe the backlog, and no task has the name of a later one, without which the set of tasks would lose one. The pieces of `SendC` are a request divided with a remainder |
| `RateIsKept` | `Pace!Spec => []LongRunRate` | `LongRunRate` speaks of the past only. `DueInv` looks ahead: for every time d from now on, what has been sent plus all tasks due by d is paid for by d, up to one request; a tick then has nothing to show. It holds because everything requested and every stored permit has been charged to `nextFree`, up to a tick's worth for each of the `charged` requests (`ChargeInv`; that the cut of one wait, in either of its two ways, loses less than that is `DebtPays`), and a request is due no earlier than what was requested before it is paid for; the pieces of a delayed one, which each cost the time they wait, are counted by `PiecesAddUp` |
| `PoolTypeCorrect`, `ThreadsAreCounted` (`WorkPoolProofs`) | `Spec => []TypeOK`, `Spec => []ThreadNumExact` | by the cardinalities of the workers present and of the threads between `threadNum_++` and `AddThreads`; a thread that fails moves from these to `failed` |
| `PoolStaysBounded` | `Spec => []PoolBounded` | `BoundInv`: `threadNum_` and the threads that have passed the test and not added yet stay below the bound together. A thread passes while the count is below the maximum; each worker that posts is one of the count (`PostersPresent`), so there are at most as many threads past the test as the count and the posters outside |
| `NobodySleepsOnWork` | `Spec => []WorkIsSeen` | `WorkIsSeen` is not inductive: it does not say why a worker that leaves is not the last one awake. `WakeInv` does: while somebody waits, there are at least as many woken workers as queued tasks |
| `NullOnlyByFailure` (`ServerProofs`) | `Spec => []NullNeedsFailure` | three facts that hold each other up: a signal is only where its thread has set its loop (`SetInv`, `EventInv`), so a loop that `Start` has left behind is there, ended its wait early, or has failed (`PassedInv`, which needs that nothing has happened yet to the loops still to come: `FutureInv`); a Listener made with a null loop is made for one of these (`TakenInv`); and one Listener alone gets as far as accept(), so the counter it tested is the counter it uses (`AcceptInv`) |
| `SetStaysExact` | `Spec => []SetIsExact` | the connection a Listener works on is its latest and the only new one (`NewInv`); it is in the set before it is started, and out of it before it is closed (`EnteredInv`) |
| `NoPacketRepeats` (`StreamProofs`) | `Spec => []NoRepeat` | `OrderInv`: cache, copies of it and what players have got are increasing, and none is ahead of what has been cached or, for this player, delivered. `ListInv`: lists of callbacks are without repetition, and a player in one has left `StartRead` |
| `LiveStaysComplete` | `Spec => []LiveIsComplete` | `LiveInv`: a player that has been called once is registered, and in the copy while a packet is on its way; what it got since it joined are consecutive numbers up to the latest that is not on its way to it |
| `GopStartsAtLastKey` | `Spec => []GopFromLastKey` | `GopInv`, which names the last key frame by what it is: the largest key that is cached. The queue is then the numbers from it to the latest cached |
| `FlvStaysWellFormed` | `Http!Spec => []FlvWellFormed` | what has been sent and what the publisher's thread has posted are one stream, in which each place has its part (`IsPlace`), and `preTagSize` is the size of its last tag, whoever wrote it (`StreamInv`); the publisher calls nobody before the connection's thread has registered, which it does behind the cached tags (`BeforeInv`). Two streams of whole tags joined are one if the second begins with the size the first ends with |
| `RequestsStayAnswered` | `Http!Spec => []AnsweredInOrder` | `RequestInv`: there is a history of all symbols ever sent, in which the requests lie one behind the other; the buffer and the network are its end, Parse has consumed up to a place that its status names, and what it knows of a length is what the head it read last says (`Parsed`). A piece that ends with a request ends where one begins, because the symbol behind it is a first line and no other symbol of a request is one (`FirstBegins`). So Parse finds all of a request whenever it finds its head, and never returns between the two, which is why its local `contentLength` is not lost; a length that is not overwritten is 0, since no request takes over one |
| `FileStaysDelivered` | `Reader!Spec => []DeliveredExact` | `ReaderInv`: until two tasks meet or a tag is misread, some m tags have ended within the bytes gone through, the buffer holds what lies in the file from the end of the m-th to there, and exactly their packets have been delivered (`Kept`); a piece at hand lies right behind (`PieceOf`); and one task at most goes through a piece, the first being ReadHeader's (`Reading`, `NotBegun`). The tags begin at known places of the file, one behind the other (`FileLaid`). That `Decode` of bytes that begin with a tag finds the whole tags that lie in them is an induction from the last of these to the first (`DecodeFinds`); that its recursive function exists at all is another (`SomethingDecodes`) |
| `WireStaysRepliesAndUnits` | `Rtp!Spec => []WireIsRepliesAndUnits` | `RtspInv`, per session: each packet, sent or on its way, goes on with what a client has got from those before it (`Followed`), and what it has got with the last one is where the reader stands, in a unit or between two (`Stands`): a DESCRIBE or PLAY that moves the reader finds it between two files, or has used a reader it must not use. A unit that needs one packet is never sent in part (`Upto`), and the next packet takes up the next byte (`PartIsNext`). A packet with both bits carries all of its unit but the first byte, and is not sent for a unit that fits without being cut, which leaves two lengths (`Fits`, `PacketAllowed`). While no other session has sent or is about to, the shared counter is the number of packets, and what has been read of it is its value (`Numbered`); the premise is lost by any step of another session that would change the counter |
| `PlayStaysIntroduced` (`RtmpSessionProofs`) | `Spec => []PlayIsIntroduced` | a packet can reach a player from four places. `JoinedInv`: whoever is in the list of players of a source, in a publisher's copy of it, about to register, or has a packet posted, has been told the configuration. With it, each reply and each packet leaves what was sent in order (`SentInv`); sequences joined are in order if the first is and the second is or needs no introduction |
| `StartedStaysPlayable` | `Spec => []StartedIsPlayable` | a name that was started has a source, and sources stay |
| `WireStaysMessages` | `Spec => []WireIsMessages` | `WireInv`: a reader of all a peer was sent is between messages and has those that were sent. `Stage` says where such a reader is after each chunk of a message, so that one more message can be read without an induction (`ReadsMore`). Two inductions are left, over the messages of one call (`FlattenReads`) and to see that there is only one such reader (`ReadAllIsRead`) |
| `DecoderDeliversExactly`, `DecoderHoldsNothingBack` | `Decoder!Spec => []DeliveredExact`, `Decoder!Spec => []NothingHeldBack` | `DecoderInv`: there are a history of all bytes ever sent and of the chunks they belong to, which only grow; buffer and network are its end, and the decoder's channels, chunk size and packets are what the peer's were when it had sent as much as has been read (`StateOK`). A byte keeps its place in the history, so that what a chunk meant when it was sent is what it means when it is read. A step of the peer prolongs the history; one of decode moves the place of reading over one chunk, or shows that the chunk is not all there |

`SessionInvariant` and `PacingInvariant` state the invariants of `RtmpSession` and
`Pacing` as theorems of their own.

## 5. What is only model-checked, and what is not modelled

Liveness and fairness stay with TLC, as does `ENABLED`: `EveryTaskServed`,
`PeerGoneIsNoticed`, `OutputDrains`, `TasksServed`, `PoolShrinks`, `StartReturns` and
`ReaderEnds`. Every safety property of a run that passes is proved.

Induction over data is available in one form only: `SetInduction` (`SeqFacts`), in which
the statement is a set of numbers. `ReadAll`, which `WireIsMessages` is stated with, is a
recursive function for this reason.

Not modelled:

- data formats without state (AMF, what is inside a reply, the fields of FLV tags,
  MPEG-TS, parameter sets); addresses and socket options;
- `DefaultMessageLoop`, which no program creates, and `WaitableEvent::Broadcast`, which
  has no caller;
- `TsEncoder`, `HlsMixer`, `HLSource` and `AVC`, which no server uses (and which do not
  all compile); `RtspSource`, `RTSPConsumer` and `RTPStream`, which `RtspSession` does not
  use. `RtspSession` itself is modelled, though no server of the program creates one;
- the rounding of stored permits themselves: the code adds and subtracts them as doubles, the
  model exactly. The error is smaller than the distance of a fraction with the denominator
  `Rate` from a whole number, so that it shows only where a product is whole, which `Debts`
  allows for;
- a second publisher of one HTTP-FLV stream (`RtmpSession.cpp:243` hands the same source to
  whoever publishes its name), and an iteration over the cache during a change of it:
  `HttpFlv.ProcessHttp` reads configuration and cache in one step (`RtmpSource` has the steps
  of the iteration and the mark `raced`);
- a build with a `size_t` of more than 32 bits, in which `HttpRequest.cpp:108` compares an
  `unsigned int` with `npos` in vain and the loop over the lines of a head does not end. Modelled
  is Debug|Win32, the configuration of `rtmp.vcxproj` that has the project's include path;
- a player of `RtmpSource` that starts twice: a session that plays again is one more player
  there, and in `RtmpSession`, where sessions do play again, its callback is in the list twice;
- the chunked states of `HttpRequest`, which cannot be reached; a request divided by the
  end of the ring, in which `PeekString` finds nothing; an RTSP request that arrives in
  pieces;
- `HttpFlvSession::OnRecv` copies its input to a block of 4096 bytes to print it
  (`HttpFlvSession.cpp:11`): requests are taken to be shorter;
- `DrainableBuffer::Read32`, which keeps one byte of four and has no caller; a second
  `Write` on one buffer; `stream/Buffer.cpp`, which is appended to and not read;
- superseded files.

The models say nothing about memory lifetime beyond `ClosedUnwatched`.

## 6. Plan

Done: loop, ring, message buffer, connection, pool, pacing, source, decoder, server,
session, HTTP-FLV, FLV reader, RTSP, with proofs of the core.

Next models, the most important behaviour first:

1. `RtmpSession`'s writer and `RtmpDecoder`'s reader over one wire: a relayed message
   survives both.
2. `FlvReader` on `WorkPool`: with one core thread and short queues the two chains are
   serial, with more they are not.
3. A request divided by the end of the ring: `HttpFlv` over `RingBuffer` in place of
   a sequence.

Next theorem: that the wire of a `RtmpSession` is what the peer of a `RtmpDecoder` may send,
which makes `WireIsMessages` and `DeliveredExact` one statement about a relayed message.
