------------------------------- MODULE Pacing -------------------------------
(***************************************************************************)
(* Rate-limited sending: TcpConnection::SendB, SendC and SendTemp with     *)
(* base::RateLimiter. SendB appends to a ring, asks the limiter when these *)
(* bytes may go, and posts delayed tasks that each move some bytes from    *)
(* the ring to Send. Time is in ticks, the microseconds of the code; a     *)
(* permit is one byte. Stored permits are kept Second times their number,  *)
(* which is whole; the code keeps a double, off by less than a permit's    *)
(* share of a tick, and cuts every wait to whole ticks.                    *)
(***************************************************************************)
EXTENDS Integers, FiniteSets

CONSTANTS
  Rate,        \* sendRate_ and permitsPerSecond, in bytes
  Second,      \* ticks of a second, 1000000 in the code
  MaxLen,      \* bound: bytes of one SendB
  MaxBytes,    \* bound: bytes of all SendBs
  MaxNow,      \* bound: the clock stops here
  MaxLag       \* ticks the loop may be late running a due task

\* Assumed where the constants get their values (MCConnection).
PacingConstants ==
  /\ Rate \in Nat \ {0}
  /\ Second \in Nat \ {0}
  /\ MaxLen \in Nat
  /\ MaxBytes \in Nat
  /\ MaxNow \in Nat
  /\ MaxLag \in Nat

VARIABLES
  now,
  storedPermits, \* times Second
  nextFree,     \* nextFreeMicros
  backlog,      \* bytes in sendLimterBuffer_
  timers,       \* tasks posted with a delay: SendC or SendTemp of len bytes
  posted,       \* tasks posted so far; names them
  requested,    \* bytes passed to SendB
  charged,      \* requests that stored permits did not cover, so far
  sentAt        \* bytes passed to Send, per tick

vars == <<now, storedPermits, nextFree, backlog, timers, posted, requested, charged,
          sentAt>>

\* SetSendRate at time 0: no permits are stored.
Init ==
  /\ now = 0
  /\ storedPermits = 0
  /\ nextFree = 0
  /\ backlog = 0
  /\ timers = {}
  /\ posted = 0
  /\ requested = 0
  /\ charged = 0
  /\ sentAt = [t \in 0 .. MaxNow |-> 0]

Timer(op, len, due, n) == [op |-> op, len |-> len, due |-> due, n |-> n]

-----------------------------------------------------------------------------
(* RateLimiter *)

Least(a, b) == IF a < b THEN a ELSE b

\* resync: permits for the time since nextFree, at most a second's worth.
Permits == IF now > nextFree
           THEN Least(Rate * Second, storedPermits + (now - nextFree) * Rate)
           ELSE storedPermits

FreeFrom == IF now > nextFree THEN now ELSE nextFree

Covered(len) == len * Second <= Permits

\* Mutant of Debts: what the request lacks is not charged to the next one.
DebtsForgiven(len) == {0}

\* The ticks charged for the permits a request lacks: cut to whole ones, so that a
\* request worth less than a tick costs nothing; and one that costs exactly so many
\* ticks costs one less if the product of doubles comes out just below.
Debts(len) ==
  LET lacking == len * Second - Permits
      ticks == lacking \div Rate
  IN {ticks} \union (IF lacking % Rate = 0 THEN {ticks - 1} ELSE {})

\* Accquire: the wait, in ticks. A request that stored permits do not cover is not
\* delayed itself; it delays the next one.
Wait(len) == IF Covered(len) THEN 0 ELSE FreeFrom - now

Accquire(len) ==
  \/ /\ Covered(len)
     /\ storedPermits' = Permits - len * Second
     /\ nextFree' = now
     /\ charged' = charged
  \/ /\ ~Covered(len)
     /\ storedPermits' = 0
     /\ \E debt \in Debts(len) : nextFree' = FreeFrom + debt
     /\ charged' = charged + 1

-----------------------------------------------------------------------------
(* TcpConnection *)

\* Mutant of PieceLen: the last piece is as long as the others.
PieceLenWhole(len, i) == Rate

\* Length of the i-th piece of len bytes.
PieceLen(len, i) == Least(Rate, len - (i - 1) * Rate)

Pieces(len) == (len + Rate - 1) \div Rate

\* SendC: the bytes as pieces of at most Rate, a second apart.
SendC(len, pending) ==
  /\ timers' = pending \union
       {Timer("SendTemp", PieceLen(len, i), now + (i - 1) * Second, posted + i) :
          i \in 1 .. Pieces(len)}
  /\ posted' = posted + Pieces(len)

\* SendB on the loop thread (on another thread it first posts itself).
SendB(len) ==
  /\ requested + len <= MaxBytes
  /\ requested' = requested + len
  /\ backlog' = backlog + len
  /\ Accquire(len)
  /\ IF Wait(len) = 0
     THEN SendC(len, timers)
     ELSE /\ timers' = timers \union {Timer("SendC", len, now + Wait(len), posted + 1)}
          /\ posted' = posted + 1
  /\ UNCHANGED <<now, sentAt>>

\* The top of the loop's delay queue; ties in any order.
Runs(t) ==
  /\ t.due <= now
  /\ \A u \in timers : t.due <= u.due

RunSendC(t) ==
  /\ Runs(t)
  /\ t.op = "SendC"
  /\ SendC(t.len, timers \ {t})
  /\ UNCHANGED <<now, storedPermits, nextFree, backlog, requested, charged, sentAt>>

\* SendTemp: reads len bytes from the ring, which is not asked how many it has.
RunSendTemp(t) ==
  /\ Runs(t)
  /\ t.op = "SendTemp"
  /\ backlog' = backlog - t.len
  /\ sentAt' = [sentAt EXCEPT ![now] = @ + t.len]
  /\ timers' = timers \ {t}
  /\ UNCHANGED <<now, storedPermits, nextFree, posted, requested, charged>>

Tick ==
  /\ now < MaxNow
  /\ \A t \in timers : now < t.due + MaxLag
  /\ now' = now + 1
  /\ UNCHANGED <<storedPermits, nextFree, backlog, timers, posted, requested, charged,
                 sentAt>>

Next ==
  \/ \E len \in 1 .. MaxLen : SendB(len)
  \/ \E t \in timers : RunSendC(t) \/ RunSendTemp(t)
  \/ Tick

Spec == Init /\ [][Next]_vars

-----------------------------------------------------------------------------
(* Properties *)

\* What the numbers f[x] add up to: as many pairs as there are ones in them.
Units(f) == UNION {{x} \X (1 .. f[x]) : x \in DOMAIN f}
Total(f) == Cardinality(Units(f))

Lengths(tasks) == [t \in tasks |-> t.len]

\* The ring and the delayed tasks are two records of the same bytes: the lengths of
\* the tasks add up to what the ring holds, whatever was split and in whatever order
\* tasks with equal times run. SendTemp relies on it: it reads without checking.
BacklogCovered == Total(Lengths(timers)) = backlog

SentIn(a, b) == Total([t \in a .. b |-> sentAt[t]])

\* In the long run the rate is kept but for what the limiter rounds away: what has been
\* sent is what the elapsed time pays for, one request in advance, and at most a tick's
\* worth for every request that stored permits did not cover. (A tick's worth is a large
\* part of a small request at a high rate: above a byte a tick, requests of one byte are
\* free for ever.)
LongRunRate ==
  Second * SentIn(0, now) <= Rate * (now + charged) + Second * MaxLen

\* README.md line 5: sending at a fixed rate by a token bucket. A bucket that holds
\* a second's worth of permits never lets more than those, and what the time brings,
\* through in any interval (but for the ticks that are rounded away).
TokenBucket ==
  \A a \in 0 .. now : \A b \in a .. now :
    Second * SentIn(a, b) <= Rate * (Second + b - a + charged)
=============================================================================
