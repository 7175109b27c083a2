-------------------------- MODULE DrainableBuffer --------------------------
(***************************************************************************)
(* base::DrainableBuffer: the memory of one message, filled from the front *)
(* and read from the front, without going round. Its makers fill it in one *)
(* of two ways: FlvReader writes a parameter set into a buffer of just its *)
(* size; FlvReader and RtmpDecoder copy to GetWritePtr() and AddWritePos.  *)
(* A Write that ends where the memory ends starts at the front again: it   *)
(* is right for the first of the two ways only because it is the only one. *)
(***************************************************************************)
EXTENDS Naturals, Sequences

CONSTANTS
  Byte,
  MaxChunk,      \* bound: bytes put at once
  MaxCapacity    \* bound: size of a message

VARIABLES
  filledBy,      \* "Write" or "AddWritePos"
  capacity,
  buffer,
  readPos,
  writePos,
  size,
  moved          \* bytes handed in or out by the last call

Chunks == UNION {[1 .. n -> Byte] : n \in 0 .. MaxChunk}

vars == <<filledBy, capacity, buffer, readPos, writePos, size, moved>>

\* The memory is not initialised.
Init ==
  /\ filledBy \in {"Write", "AddWritePos"}
  /\ capacity \in 0 .. MaxCapacity
  /\ buffer \in [1 .. capacity -> Byte]
  /\ readPos = 0 /\ writePos = 0 /\ size = 0
  /\ moved = <<>>

\* memcpy, into the memory and out of it.
Store(mem, at, s) ==
  [i \in DOMAIN mem |-> IF at < i /\ i <= at + Len(s) THEN s[i - at] ELSE mem[i]]
Piece(mem, at, n) == [i \in 1 .. n |-> mem[at + i]]

\* The copy to GetWritePtr(), and AddWritePos, which refuses what there is no room for.
AddWritePos(s) ==
  /\ filledBy = "AddWritePos"
  /\ Len(s) <= capacity - writePos
  /\ buffer' = Store(buffer, writePos, s)
  /\ writePos' = writePos + Len(s)
  /\ size' = size + Len(s)
  /\ moved' = s
  /\ UNCHANGED <<filledBy, capacity, readPos>>

\* The memory ends where s ends, or before: what is stored (nothing, as the buffer is
\* filled once) is moved to the front, and s is copied over it; the write position stays
\* behind what was moved.
AtFront(s) ==
  [mem |-> Store(Store(buffer, 0, Piece(buffer, writePos, size)), 0, s),
   end |-> size, start |-> 0]

Behind(s) ==
  [mem |-> Store(buffer, writePos, s), end |-> writePos + Len(s), start |-> readPos]

\* Write, the only one of a buffer that is filled this way.
Write(s) ==
  LET put == IF writePos + Len(s) < capacity THEN Behind(s) ELSE AtFront(s)
  IN  /\ filledBy = "Write"
      /\ readPos = 0 /\ writePos = 0 /\ size = 0
      /\ Len(s) <= capacity - size
      /\ buffer' = put.mem
      /\ writePos' = put.end
      /\ readPos' = put.start
      /\ size' = size + Len(s)
      /\ moved' = s
      /\ UNCHANGED <<filledBy, capacity>>

\* Mutant of Peek: what has been read is read again.
PeekFromFront(n, offset) == Piece(buffer, offset, n)

Peek(n, offset) == IF n + offset > size THEN <<>> ELSE Piece(buffer, readPos + offset, n)

\* Read, the reads of a fixed width, and AddReadPos. Only the last one refuses to go
\* past the end; nobody calls the others without having asked for the size.
Read(n) ==
  /\ n <= size
  /\ moved' = Peek(n, 0)
  /\ readPos' = readPos + n
  /\ size' = size - n
  /\ UNCHANGED <<filledBy, capacity, buffer, writePos>>

Next ==
  \/ \E s \in Chunks : AddWritePos(s) \/ Write(s)
  \/ \E n \in 0 .. size : Read(n)

Spec == Init /\ [][Next]_vars

-----------------------------------------------------------------------------
(* Properties *)

Bytes == INSTANCE ByteQueue WITH queue <- Piece(buffer, readPos, size)

\* Whatever the memory held before, however the message is cut into pieces and whether
\* or not it fills the memory to the last byte: bytes come out of a DrainableBuffer as
\* they were put in, once and in order.
ImplementsByteQueue == Bytes!Spec
=============================================================================
