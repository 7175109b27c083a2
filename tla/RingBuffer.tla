----------------------------- MODULE RingBuffer -----------------------------
(***************************************************************************)
(* base::RingBuffer (src/base/RingBuffer.cpp, TBuffer.h): the growing ring *)
(* every connection reads into and writes from. The ring is a record of    *)
(* the members; each function of the class is an operator on it, so that   *)
(* other modules can use them, and the state machine below applies them to *)
(* one ring in every legal order.                                          *)
(***************************************************************************)
EXTENDS Naturals, Sequences, FiniteSets

CONSTANTS
  Byte,          \* payload values
  Separator,     \* the byte that stands for the pattern of ReadString
  Junk,          \* content of memory nothing has been stored in
  Capacities,    \* capacities a ring is constructed with
  MaxCapacity,   \* bound: no operation that grows the ring beyond it
  MaxChunk       \* bound: bytes stored by one Write or one receive

ASSUME RingAssumption ==
  /\ Separator \in Byte
  /\ Junk \notin Byte
  /\ Capacities \subseteq Nat \ {0}
  /\ MaxCapacity \in Nat
  /\ MaxChunk \in Nat

Chunks == UNION {[1 .. n -> Byte] : n \in 0 .. MaxChunk}

-----------------------------------------------------------------------------
(* Memory *)

\* memcpy(buf + at, s, Len(s)); an empty s copies nothing.
CopyTo(buf, at, s) ==
  [i \in DOMAIN buf |-> IF at <= i /\ i < at + Len(s) THEN s[i - at + 1] ELSE buf[i]]

\* The n bytes at buf + from.
Piece(buf, from, n) == [i \in 1 .. n |-> buf[from + i - 1]]

Fresh(n) == [i \in 0 .. n - 1 |-> Junk]

-----------------------------------------------------------------------------
(* The class *)

\* The members of a ring.
Members(buffer, capacity, readPos, writePos, size) ==
  [buffer |-> buffer, capacity |-> capacity, readPos |-> readPos,
   writePos |-> writePos, size |-> size]

NewRing(n) == Members(Fresh(n), n, 0, 0, 0)

Full(r) == r.size = r.capacity
Empty(r) == r.size = 0

\* GetReadPos: the stored bytes as two pieces of memory.
ReadIovecs(r) ==
  IF Empty(r) THEN <<<<>>, <<>>>>
  ELSE IF r.readPos < r.writePos
       THEN <<Piece(r.buffer, r.readPos, r.writePos - r.readPos), <<>>>>
       ELSE <<Piece(r.buffer, r.readPos, r.capacity - r.readPos),
              Piece(r.buffer, 0, r.writePos)>>

\* Mutant of WriteIovecs: the equal positions of an empty ring are taken for a wrap.
WriteIovecsEqual(r) ==
  IF Full(r) THEN <<<<0, 0>>, <<0, 0>>>>
  ELSE IF r.writePos <= r.readPos
       THEN <<<<r.writePos, r.readPos - r.writePos>>, <<0, 0>>>>
       ELSE <<<<r.writePos, r.capacity - r.writePos>>, <<0, r.readPos>>>>

\* GetWritePos: the free memory as two (start, length) regions.
WriteIovecs(r) ==
  IF Full(r) THEN <<<<0, 0>>, <<0, 0>>>>
  ELSE IF r.writePos < r.readPos
       THEN <<<<r.writePos, r.readPos - r.writePos>>, <<0, 0>>>>
       ELSE <<<<r.writePos, r.capacity - r.writePos>>, <<0, r.readPos>>>>

\* Mutant of Moved: the wrap is tested with <= where the code has <.
MovedLate(r, p, n) == IF n <= r.capacity - p THEN p + n ELSE n + p - r.capacity

\* A position p moved by n, around the end of the memory.
Moved(r, p, n) == IF n < r.capacity - p THEN p + n ELSE n + p - r.capacity

AddWritePos(r, n) ==
  Members(r.buffer, r.capacity, r.readPos,
          IF r.writePos >= r.readPos THEN Moved(r, r.writePos, n) ELSE r.writePos + n,
          r.size + n)

AddReadPos(r, n) ==
  Members(r.buffer, r.capacity,
          IF r.writePos <= r.readPos THEN Moved(r, r.readPos, n) ELSE r.readPos + n,
          r.writePos, r.size - n)

\* Mutant of Resize: the wrapped part is not copied.
ResizeLinear(r, newSize) ==
  Members(CopyTo(Fresh(newSize), 0, ReadIovecs(r)[1]), newSize, 0, r.size, r.size)

\* newSize < size_ is refused. An empty ring copies nothing.
Resize(r, newSize) ==
  IF newSize < r.size THEN r
  ELSE Members(CopyTo(Fresh(newSize), 0, ReadIovecs(r)[1] \o ReadIovecs(r)[2]),
               newSize, 0, r.size, r.size)

\* The capacity Write leaves the ring with for n more bytes.
GrownCapacity(r, n) ==
  IF n <= r.capacity - r.size THEN r.capacity
  ELSE IF n + r.size - r.capacity < r.capacity THEN 2 * r.capacity
  ELSE n + r.size

GrowFor(r, n) ==
  IF n <= r.capacity - r.size THEN r ELSE Resize(r, GrownCapacity(r, n))

\* Write after the ring has room: one memcpy, or two around the end.
Store(r, data) ==
  LET n == Len(data)
      room == r.capacity - r.writePos
      wraps == r.readPos <= r.writePos /\ n >= room
      first == IF wraps THEN SubSeq(data, 1, room) ELSE data
      second == IF wraps THEN SubSeq(data, room + 1, n) ELSE <<>>
  IN  Members(CopyTo(CopyTo(r.buffer, r.writePos, first), 0, second), r.capacity,
              r.readPos, IF wraps THEN n - room ELSE r.writePos + n, r.size + n)

Write(r, data) == Store(GrowFor(r, Len(data)), data)

\* The bytes a ReadV into GetWritePos' regions leaves in memory.
FillIovecs(r, data) ==
  LET v == WriteIovecs(r)
      k == IF Len(data) <= v[1][2] THEN Len(data) ELSE v[1][2]
      one == CopyTo(r.buffer, v[1][1], SubSeq(data, 1, k))
  IN  Members(CopyTo(one, v[2][1], SubSeq(data, k + 1, Len(data))), r.capacity,
              r.readPos, r.writePos, r.size)

\* Peek's second memcpy: the length of the first, capacity_ - readPos_ - offset,
\* is unsigned and wraps when the offset lies beyond the end of the memory.
PeekDefined(r, n, offset) ==
  n + offset <= r.capacity - r.readPos \/ offset <= r.capacity - r.readPos

\* Mutant of Peek: the bytes around the end are taken without the offset.
PeekNoOffset(r, n, offset) ==
  IF r.readPos + offset >= r.writePos /\ n + offset > r.capacity - r.readPos
  THEN Piece(r.buffer, r.readPos + offset, r.capacity - r.readPos - offset)
         \o Piece(r.buffer, offset, n + r.readPos + offset - r.capacity)
  ELSE Piece(r.buffer, r.readPos + offset, n)

\* Peek, for n + offset <= size_ and PeekDefined.
Peek(r, n, offset) ==
  IF r.readPos + offset >= r.writePos /\ n + offset > r.capacity - r.readPos
  THEN Piece(r.buffer, r.readPos + offset, r.capacity - r.readPos - offset)
         \o Piece(r.buffer, 0, n + r.readPos + offset - r.capacity)
  ELSE Piece(r.buffer, r.readPos + offset, n)

\* The end of Read, Read8 .. Read64 and ReadString; none of them compares n with
\* size_, the callers do.
Consume(r, n) ==
  Members(r.buffer, r.capacity, (r.readPos + n) % r.capacity, r.writePos, r.size - n)

\* Read(TBuffer&, n) copies out in one or two Writes to the other buffer.
ReadInto(r, n) ==
  IF r.readPos < r.writePos \/ n <= r.capacity - r.readPos
  THEN Piece(r.buffer, r.readPos, n)
  ELSE Piece(r.buffer, r.readPos, r.capacity - r.readPos)
         \o Piece(r.buffer, 0, n + r.readPos - r.capacity)

\* PeekString: std::search runs over readPos_ .. readPos_ + size_ as if the memory
\* did not wrap. When it does, the result lies behind writePos_ and "" is returned;
\* when it does not and the pattern is absent, everything stored is returned.
PeekString(r) ==
  IF r.readPos + r.size > r.writePos THEN <<>>
  ELSE LET len == Cardinality({i \in 0 .. r.size - 1 :
                                \A j \in 0 .. i : r.buffer[r.readPos + j] # Separator})
       IN  Piece(r.buffer, r.readPos, len)

-----------------------------------------------------------------------------
(* One ring under every sequence of calls *)

VARIABLES
  ring,
  moved      \* bytes handed in or out by the last call

vars == <<ring, moved>>

Init ==
  /\ \E n \in Capacities : ring = NewRing(n)
  /\ moved = <<>>

\* RingBuffer::Write.
WriteBytes(data) ==
  /\ GrownCapacity(ring, Len(data)) <= MaxCapacity
  /\ ring' = Write(ring, data)
  /\ moved' = data

\* TcpConnection::HandleRead: double a full ring, ReadV into GetWritePos' regions,
\* AddWritePos.
Receive(data) ==
  LET roomy == IF Full(ring) THEN Resize(ring, 2 * ring.capacity) ELSE ring
  IN  /\ roomy.capacity <= MaxCapacity
      /\ Len(data) <= roomy.capacity - roomy.size
      /\ ring' = AddWritePos(FillIovecs(roomy, data), Len(data))
      /\ moved' = data

\* TcpConnection::HandleWrite: the socket takes n bytes of GetReadPos' regions,
\* AddReadPos.
Transmit(n) ==
  /\ n <= ring.size
  /\ moved' = SubSeq(ReadIovecs(ring)[1] \o ReadIovecs(ring)[2], 1, n)
  /\ ring' = AddReadPos(ring, n)

\* Read, Read8 .. Read64.
Read(n) ==
  /\ n <= ring.size
  /\ moved' = Peek(ring, n, 0)
  /\ ring' = Consume(ring, n)

\* Read into another buffer.
ReadBuffer(n) ==
  /\ n <= ring.size
  /\ moved' = ReadInto(ring, n)
  /\ ring' = Consume(ring, n)

ReadString ==
  /\ moved' = PeekString(ring)
  /\ ring' = Consume(ring, Len(PeekString(ring)))

Next ==
  \/ \E data \in Chunks : WriteBytes(data) \/ Receive(data)
  \/ \E n \in 0 .. ring.size : Transmit(n) \/ Read(n) \/ ReadBuffer(n)
  \/ ReadString

Spec == Init /\ [][Next]_vars

-----------------------------------------------------------------------------
(* Properties *)

WritePosOf(r) ==
  IF r.readPos + r.size < r.capacity THEN r.readPos + r.size
  ELSE r.readPos + r.size - r.capacity

\* readPos_, writePos_ and size_ are kept separately by each call, and agree:
\* writePos_ is size_ bytes after readPos_ around the end of the memory, so that
\* an empty and a full ring, both with equal positions, are told apart by size_.
PositionsAgree == ring.writePos = WritePosOf(ring)

\* The bytes stored, oldest first.
Contents == [i \in 1 .. ring.size |-> ring.buffer[(ring.readPos + i - 1) % ring.capacity]]

Abstract == INSTANCE ByteQueue WITH queue <- Contents

\* Refinement: whatever the order of calls, growth and wrap-around, bytes come out
\* once, whole and in order; memory nothing was stored in is never handed out.
ImplementsByteQueue == Abstract!Spec

\* A look-ahead shows the stored bytes, for each offset that Peek can serve.
PeekIsExact ==
  \A offset \in 0 .. ring.size : \A n \in 0 .. ring.size - offset :
    PeekDefined(ring, n, offset) =>
      Peek(ring, n, offset) = SubSeq(Contents, offset + 1, offset + n)
=============================================================================
