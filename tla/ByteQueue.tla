----------------------------- MODULE ByteQueue -----------------------------
(***************************************************************************)
(* What a network buffer promises: bytes come out once, whole and in the   *)
(* order they went in. RingBuffer refines this module.                     *)
(***************************************************************************)
EXTENDS Naturals, Sequences

CONSTANT Chunks       \* the byte sequences that can be put at once

VARIABLES
  queue,              \* bytes stored, oldest first
  moved               \* bytes handed in or out by the last step

Init == queue = <<>> /\ moved = <<>>

Put(s) ==
  /\ queue' = queue \o s
  /\ moved' = s

Take(n) ==
  /\ moved' = SubSeq(queue, 1, n)
  /\ queue' = SubSeq(queue, n + 1, Len(queue))

Next ==
  \/ \E s \in Chunks : Put(s)
  \/ \E n \in 0 .. Len(queue) : Take(n)

Spec == Init /\ [][Next]_<<queue, moved>>
=============================================================================
