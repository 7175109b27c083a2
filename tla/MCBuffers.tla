----------------------------- MODULE MCBuffers -----------------------------
(* TLC instance of the two buffers the network bytes go through: a behaviour *)
(* uses one of them, and the other one stays as it was made.                 *)
EXTENDS RingBuffer

CONSTANT MaxMessage

VARIABLES inUse, filledBy, capacity, buffer, readPos, writePos, size, taken

messageVars == <<filledBy, capacity, buffer, readPos, writePos, size, taken>>

Message == INSTANCE DrainableBuffer WITH MaxCapacity <- MaxMessage, moved <- taken

BuffersInit ==
  /\ Init
  /\ Message!Init
  /\ inUse \in {"ring", "message"}
  /\ inUse = "ring" => capacity = 0 /\ filledBy = "Write"
  /\ inUse = "message" => ring = NewRing(1)

UseRing ==
  /\ inUse = "ring"
  /\ Next
  /\ UNCHANGED <<inUse, messageVars>>

UseMessage ==
  /\ inUse = "message"
  /\ Message!Next
  /\ UNCHANGED <<inUse, ring, moved>>

BuffersNext == UseRing \/ UseMessage

BuffersSpec == BuffersInit /\ [][BuffersNext]_<<inUse, vars, messageVars>>

\* Whatever the memory held before, however the message is cut into pieces and whether
\* or not it fills the memory to the last byte: bytes come out of a DrainableBuffer as
\* they were put in, once and in order.
MessageImplementsByteQueue == Message!ImplementsByteQueue
=============================================================================
