---------------------------- MODULE BufferProofs ----------------------------
(***************************************************************************)
(* Proofs about the two buffers, for every capacity, byte set and bound.   *)
(* RingBuffer: the positions and the size agree, the ring refines          *)
(* ByteQueue, and Peek shows what is stored. The second and third rest on  *)
(* one view of the memory, Stretch: the n bytes from a place, around the   *)
(* end. DrainableBuffer, which MCBuffers has as Message, refines ByteQueue *)
(* as well.                                                                *)
(***************************************************************************)
EXTENDS MCBuffers, FiniteSetTheorems, SequenceTheorems, TLAPS

\* The inductive invariant: the positions are in range and agree with size_.
IndexOK(r) ==
  /\ r.capacity \in Nat \ {0}
  /\ r.readPos \in 0 .. r.capacity - 1
  /\ r.writePos \in 0 .. r.capacity - 1
  /\ r.size \in 0 .. r.capacity
  /\ r.writePos = WritePosOf(r)

IndexInv == IndexOK(ring)

-----------------------------------------------------------------------------
\* The two ways the class goes around the end of the memory, % and subtraction.
LEMMA ModuloWraps ==
  ASSUME NEW c \in Nat \ {0}, NEW p \in 0 .. c - 1, NEW n \in 0 .. c
  PROVE  (p + n) % c = IF p + n < c THEN p + n ELSE p + n - c
<1>1. CASE p + n < c
  BY <1>1
<1>2. CASE p + n >= c
  <2> DEFINE m == p + n - c
  <2>1. m \in 0 .. c - 1 /\ p + n = m + c
    BY <1>2
  <2>2. (m + c) % c = m
    BY <2>1
  <2> QED
    BY <1>2, <2>1, <2>2
<1> QED
  BY <1>1, <1>2

\* AddWritePos keeps the positions in agreement for any n that fits.
LEMMA AddWritePosIndex ==
  ASSUME NEW r, IndexOK(r), NEW n \in 0 .. r.capacity - r.size
  PROVE  IndexOK(AddWritePos(r, n)) /\ AddWritePos(r, n).size = r.size + n
BY DEF IndexOK, Members, WritePosOf, AddWritePos, Moved

\* AddReadPos keeps them for any n that is stored.
LEMMA AddReadPosIndex ==
  ASSUME NEW r, IndexOK(r), NEW n \in 0 .. r.size
  PROVE  IndexOK(AddReadPos(r, n))
BY DEF IndexOK, Members, WritePosOf, AddReadPos, Moved

\* So does Read, which goes around by % where AddReadPos subtracts.
LEMMA ConsumeIndex ==
  ASSUME NEW r, IndexOK(r), NEW n \in 0 .. r.size
  PROVE  IndexOK(Consume(r, n))
<1> DEFINE p == (r.readPos + n) % r.capacity
<1>1. r.capacity \in Nat \ {0} /\ r.readPos \in 0 .. r.capacity - 1 /\ n \in 0 .. r.capacity
  BY DEF IndexOK
<1>2. p = IF r.readPos + n < r.capacity THEN r.readPos + n
          ELSE r.readPos + n - r.capacity
  BY <1>1, ModuloWraps
<1>3. Consume(r, n) = Members(r.buffer, r.capacity, p, r.writePos, r.size - n)
  BY DEF Consume
<1> HIDE DEF p
<1> QED
  BY <1>2, <1>3 DEF IndexOK, Members, WritePosOf

\* Resize to anything larger than the stored bytes.
LEMMA ResizeIndex ==
  ASSUME NEW r, IndexOK(r), NEW c \in Nat, c > r.size
  PROVE  /\ IndexOK(Resize(r, c))
         /\ Resize(r, c).capacity = c
         /\ Resize(r, c).size = r.size
BY DEF IndexOK, Members, WritePosOf, Resize

\* Growing leaves room for n more bytes; the doubled or exact size suffices.
LEMMA GrowForIndex ==
  ASSUME NEW r, IndexOK(r), NEW n \in Nat
  PROVE  /\ IndexOK(GrowFor(r, n))
         /\ GrowFor(r, n).size = r.size
         /\ n <= GrowFor(r, n).capacity - r.size
<1>1. CASE n <= r.capacity - r.size
  BY <1>1 DEF GrowFor
<1>2. CASE ~(n <= r.capacity - r.size)
  <2>1. /\ GrownCapacity(r, n) \in Nat
        /\ GrownCapacity(r, n) > r.size
        /\ n <= GrownCapacity(r, n) - r.size
    BY <1>2 DEF GrownCapacity, IndexOK
  <2> QED
    BY <1>2, <2>1, ResizeIndex DEF GrowFor
<1> QED
  BY <1>1, <1>2

\* The arithmetic of Write: where the last of n bytes goes, with the wrap tested
\* on the memory behind writePos_, is where readPos_ and size_ put it.
LEMMA StoreArithmetic ==
  ASSUME NEW r, IndexOK(r), NEW n \in 0 .. r.capacity - r.size, NEW e,
         e = IF r.readPos <= r.writePos /\ n >= r.capacity - r.writePos
             THEN n - (r.capacity - r.writePos) ELSE r.writePos + n
  PROVE  /\ e \in 0 .. r.capacity - 1
         /\ e = IF r.readPos + (r.size + n) < r.capacity THEN r.readPos + (r.size + n)
                ELSE r.readPos + (r.size + n) - r.capacity
<1> DEFINE c == r.capacity
           p == r.readPos
           w == r.writePos
           s == r.size
<1>0. /\ c \in Nat \ {0} /\ p \in 0 .. c - 1 /\ w \in 0 .. c - 1
      /\ s \in 0 .. c /\ n \in 0 .. c - s
      /\ w = IF p + s < c THEN p + s ELSE p + s - c
      /\ e = IF p <= w /\ n >= c - w THEN n - (c - w) ELSE w + n
  BY DEF IndexOK, WritePosOf
<1> SUFFICES /\ e \in 0 .. c - 1
             /\ e = IF p + (s + n) < c THEN p + (s + n) ELSE p + (s + n) - c
  OBVIOUS
<1> HIDE DEF c, p, w, s
<1>1. CASE p <= w /\ n >= c - w
  <2>1. e = n - (c - w)
    BY <1>0, <1>1
  <2>2. p + s < c
    BY <1>0, <1>1
  <2>3. w = p + s
    BY <1>0, <2>2
  <2> QED
    BY <1>0, <1>1, <2>1, <2>3
<1>2. CASE ~(p <= w /\ n >= c - w)
  <2>1. e = w + n
    BY <1>0, <1>2
  <2>2. CASE p + s < c
    <3>1. w = p + s /\ n < c - w
      BY <1>0, <1>2, <2>2
    <3> QED
      BY <1>0, <2>1, <3>1
  <2>3. CASE ~(p + s < c)
    <3>1. w = p + s - c
      BY <1>0, <2>3
    <3> QED
      BY <1>0, <2>1, <2>3, <3>1
  <2> QED
    BY <2>2, <2>3
<1> QED
  BY <1>1, <1>2

\* Storing n bytes where they fit moves writePos_ like AddWritePos does.
LEMMA StoreIndex ==
  ASSUME NEW r, IndexOK(r), NEW data, Len(data) \in 0 .. r.capacity - r.size
  PROVE  IndexOK(Store(r, data))
<1> DEFINE n == Len(data)
           room == r.capacity - r.writePos
           wraps == r.readPos <= r.writePos /\ n >= room
           next == IF wraps THEN n - room ELSE r.writePos + n
<1>1. PICK b : Store(r, data) = Members(b, r.capacity, r.readPos, next, r.size + n)
  BY DEF Store
<1>2. n \in 0 .. r.capacity - r.size
  OBVIOUS
<1> HIDE DEF n
<1>3. next = IF r.readPos <= r.writePos /\ n >= r.capacity - r.writePos
             THEN n - (r.capacity - r.writePos) ELSE r.writePos + n
  OBVIOUS
<1> HIDE DEF next
<1>4. /\ next \in 0 .. r.capacity - 1
      /\ next = IF r.readPos + (r.size + n) < r.capacity THEN r.readPos + (r.size + n)
                ELSE r.readPos + (r.size + n) - r.capacity
  BY <1>2, <1>3, StoreArithmetic
<1> QED
  BY <1>1, <1>2, <1>4 DEF IndexOK, Members, WritePosOf

-----------------------------------------------------------------------------
(* The bytes stored *)

Cell == Byte \union {Junk}

BufferOK(r) == r.buffer \in [0 .. r.capacity - 1 -> Cell]

\* The place of byte i of those that begin at p in a memory of c bytes.
At(c, p, i) == IF p + i - 1 < c THEN p + i - 1 ELSE p + i - 1 - c

\* The n bytes that begin at p, around the end of the memory.
Stretch(buf, c, p, n) == [i \in 1 .. n |-> buf[At(c, p, i)]]

\* s is these n bytes.
Shows(s, n, buf, c, p) ==
  /\ s \in Seq(Cell)
  /\ Len(s) = n
  /\ \A i \in 1 .. n : s[i] = buf[At(c, p, i)]

StoredIn(r) == Stretch(r.buffer, r.capacity, r.readPos, r.size)

\* A stretch is a sequence of as many bytes.
LEMMA StretchShows ==
  ASSUME NEW c \in Nat \ {0}, NEW p \in 0 .. c, NEW n \in 0 .. c,
         NEW buf \in [0 .. c - 1 -> Cell]
  PROVE  Shows(Stretch(buf, c, p, n), n, buf, c, p)
<1>1. \A i \in 1 .. n : At(c, p, i) \in 0 .. c - 1
  BY DEF At
<1>2. Stretch(buf, c, p, n) \in [1 .. n -> Cell]
  BY <1>1 DEF Stretch
<1>3. n \in Nat
  OBVIOUS
<1>4. Stretch(buf, c, p, n) \in Seq(Cell)
  BY <1>2, <1>3, SeqDef
<1>5. DOMAIN Stretch(buf, c, p, n) = 1 .. n
  BY <1>2
<1>6. Len(Stretch(buf, c, p, n)) = n
  BY <1>3, <1>4, <1>5, LenProperties
<1> QED
  BY <1>4, <1>6 DEF Stretch, Shows

\* Only one sequence is these bytes.
LEMMA ShowsOne ==
  ASSUME NEW s, NEW t, NEW n, NEW buf, NEW c, NEW p,
         Shows(s, n, buf, c, p), Shows(t, n, buf, c, p)
  PROVE  s = t
<1>1. /\ s \in Seq(Cell) /\ t \in Seq(Cell) /\ Len(s) = n /\ Len(t) = n
      /\ \A i \in 1 .. n : s[i] = t[i]
  BY DEF Shows
<1> QED
  BY ONLY <1>1, SeqEqual

\* Bytes that do not reach the end of the memory are one piece of it ...
LEMMA OnePiece ==
  ASSUME NEW c \in Nat \ {0}, NEW p \in Nat, NEW n \in Nat, p + n <= c, NEW buf
  PROVE  Piece(buf, p, n) = Stretch(buf, c, p, n)
<1>1. \A i \in 1 .. n : At(c, p, i) = p + i - 1
  BY DEF At
<1> QED
  BY <1>1 DEF Piece, Stretch

\* ... and those that do are two.
LEMMA TwoPieces ==
  ASSUME NEW c \in Nat \ {0}, NEW p \in 0 .. c, NEW n \in 0 .. c, p + n >= c,
         NEW buf \in [0 .. c - 1 -> Cell]
  PROVE  Piece(buf, p, c - p) \o Piece(buf, 0, p + n - c) = Stretch(buf, c, p, n)
<1>1. PICK f \in 0 .. c : f = c - p
  OBVIOUS
<1>2. PICK l \in 0 .. c : l = p + n - c
  OBVIOUS
<1>3. PICK one : one = Piece(buf, p, f)
  OBVIOUS
<1>4. PICK two : two = Piece(buf, 0, l)
  OBVIOUS
<1>5. Shows(one, f, buf, c, p)
  <2>1. f \in Nat /\ p \in Nat /\ p + f <= c
    BY <1>1
  <2>2. one = Stretch(buf, c, p, f)
    BY <1>3, <2>1, OnePiece
  <2> QED
    BY <2>2, StretchShows
<1>6. Shows(two, l, buf, c, 0)
  <2>1. l \in Nat /\ 0 \in Nat /\ 0 + l <= c /\ 0 \in 0 .. c
    BY <1>2
  <2>2. two = Stretch(buf, c, 0, l)
    BY <1>4, <2>1, OnePiece
  <2> QED
    BY <2>1, <2>2, StretchShows
<1>7. one \in Seq(Cell) /\ two \in Seq(Cell) /\ Len(one) = f /\ Len(two) = l
  BY <1>5, <1>6 DEF Shows
<1>8. /\ one \o two \in Seq(Cell)
      /\ Len(one \o two) = Len(one) + Len(two)
      /\ \A i \in 1 .. Len(one) + Len(two) :
           (one \o two)[i] = IF i <= Len(one) THEN one[i] ELSE two[i - Len(one)]
  BY ONLY <1>7, ConcatProperties
<1>9. f + l = n
  BY <1>1, <1>2
<1>10. ASSUME NEW i \in 1 .. n
       PROVE  (one \o two)[i] = buf[At(c, p, i)]
  <2>1. CASE i <= f
    BY <1>5, <1>7, <1>8, <1>9, <2>1 DEF Shows
  <2>2. CASE ~(i <= f)
    <3>1. At(c, p, i) = At(c, 0, i - f) /\ i - f \in 1 .. l
      BY <1>1, <1>2, <2>2 DEF At
    <3>2. two[i - f] = buf[At(c, 0, i - f)]
      BY <1>6, <3>1 DEF Shows
    <3> QED
      BY <1>7, <1>8, <1>9, <2>2, <3>1, <3>2
  <2> QED
    BY <2>1, <2>2
<1>11. Shows(one \o two, n, buf, c, p)
  BY <1>7, <1>8, <1>9, <1>10 DEF Shows
<1>12. one \o two = Stretch(buf, c, p, n)
  BY <1>11, StretchShows, ShowsOne
<1> QED
  BY <1>1, <1>2, <1>3, <1>4, <1>12

\* The l bytes that follow the first k of the n bytes from p.
Part(buf, c, p, n, k, l) == SubSeq(Stretch(buf, c, p, n), k + 1, k + l)

\* In a memory of c bytes, q is the place of the l bytes that follow the first k of the n
\* bytes from p.
PartAt(buf, c, p, n, k, l, q) ==
  /\ c \in Nat \ {0} /\ buf \in [0 .. c - 1 -> Cell]
  /\ p \in 0 .. c /\ n \in 0 .. c
  /\ k \in 0 .. n /\ l \in 0 .. n - k
  /\ q \in 0 .. c /\ (q = p + k \/ q = p + k - c)

\* A part of a stretch is the stretch that begins at the part's place.
LEMMA PartOfStretch ==
  ASSUME NEW buf, NEW c, NEW p, NEW n, NEW k, NEW l, NEW q, PartAt(buf, c, p, n, k, l, q)
  PROVE  Part(buf, c, p, n, k, l) = Stretch(buf, c, q, l)
<1>0. /\ c \in Nat \ {0} /\ buf \in [0 .. c - 1 -> Cell]
      /\ p \in 0 .. c /\ n \in 0 .. c
      /\ k \in 0 .. n /\ l \in 0 .. n - k
      /\ q \in 0 .. c /\ (q = p + k \/ q = p + k - c)
  BY DEF PartAt
<1>1. PICK all : all = Stretch(buf, c, p, n)
  OBVIOUS
<1>2. Shows(all, n, buf, c, p)
  BY <1>0, <1>1, StretchShows
<1>3. l \in 0 .. c /\ Shows(Stretch(buf, c, q, l), l, buf, c, q)
  <2>1. l \in 0 .. c
    BY <1>0
  <2> QED
    BY <1>0, <2>1, StretchShows
<1>4. /\ k + 1 \in Int /\ k + l \in Int /\ \A i \in k + 1 .. k + l : i \in 1 .. n
  BY <1>0
<1>5. \A i \in k + 1 .. k + l : all[i] \in Cell
  BY <1>2, <1>4, ElementOfSeq DEF Shows
<1>6. /\ SubSeq(all, k + 1, k + l) \in Seq(Cell)
      /\ Len(SubSeq(all, k + 1, k + l)) =
           IF k + 1 <= k + l THEN (k + l) - (k + 1) + 1 ELSE 0
      /\ \A i \in 1 .. (k + l) - (k + 1) + 1 :
           SubSeq(all, k + 1, k + l)[i] = all[(k + 1) + i - 1]
  BY ONLY <1>4, <1>5, SubSeqProperties
<1>7. /\ Len(SubSeq(all, k + 1, k + l)) = l
      /\ \A i \in 1 .. l : SubSeq(all, k + 1, k + l)[i] = all[(k + 1) + i - 1]
  BY <1>0, <1>6
<1>8. ASSUME NEW i \in 1 .. l
      PROVE  SubSeq(all, k + 1, k + l)[i] = buf[At(c, q, i)]
  <2>1. (k + 1) + i - 1 = k + i /\ k + i \in 1 .. n
    BY <1>0
  <2>2. At(c, p, k + i) = At(c, q, i)
    BY <1>0 DEF At
  <2> QED
    BY <1>2, <1>7, <2>1, <2>2 DEF Shows
<1>9. Shows(SubSeq(all, k + 1, k + l), l, buf, c, q)
  BY <1>6, <1>7, <1>8 DEF Shows
<1> QED
  BY <1>1, <1>3, <1>9, ShowsOne DEF Part

\* What GetReadPos shows in one or two pieces is what is stored.
LEMMA IovecsShowStored ==
  ASSUME NEW r, IndexOK(r), BufferOK(r)
  PROVE  /\ ReadIovecs(r)[1] \o ReadIovecs(r)[2] = StoredIn(r)
         /\ Shows(StoredIn(r), r.size, r.buffer, r.capacity, r.readPos)
<1> DEFINE c == r.capacity
           p == r.readPos
           n == r.size
           buf == r.buffer
<1>1. /\ c \in Nat \ {0} /\ p \in 0 .. c /\ p \in Nat /\ n \in 0 .. c /\ n \in Nat
      /\ buf \in [0 .. c - 1 -> Cell]
  BY DEF IndexOK, BufferOK
<1>2. Shows(StoredIn(r), n, buf, c, p)
  BY <1>1, StretchShows DEF StoredIn
<1>3. CASE Empty(r)
  <2>1. ReadIovecs(r)[1] = <<>> /\ ReadIovecs(r)[2] = <<>>
    BY <1>3 DEF ReadIovecs
  <2>2. StoredIn(r) \in Seq(Cell) /\ Len(StoredIn(r)) = 0
    BY <1>2, <1>3 DEF Shows, Empty
  <2>3. StoredIn(r) = <<>> /\ <<>> \o <<>> = <<>>
    BY <2>2, EmptySeq, ConcatEmptySeq
  <2> QED
    BY <1>2, <2>1, <2>3
<1>4. CASE ~Empty(r) /\ p < r.writePos
  <2>1. r.writePos - p = n /\ p + n <= c
    BY <1>4 DEF IndexOK, WritePosOf
  <2>2. ReadIovecs(r)[1] = Piece(buf, p, n) /\ ReadIovecs(r)[2] = <<>>
    BY <1>4, <2>1 DEF ReadIovecs
  <2>3. Piece(buf, p, n) = StoredIn(r)
    BY <1>1, <2>1, OnePiece DEF StoredIn
  <2>4. StoredIn(r) \in Seq(Cell)
    BY <1>2 DEF Shows
  <2>5. StoredIn(r) \o <<>> = StoredIn(r)
    BY <2>4, ConcatEmptySeq
  <2> QED
    BY <1>2, <2>2, <2>3, <2>5
<1>5. CASE ~Empty(r) /\ ~(p < r.writePos)
  <2>1. r.writePos = p + n - c /\ p + n >= c
    BY <1>5 DEF IndexOK, WritePosOf, Empty
  <2>2. /\ ReadIovecs(r)[1] = Piece(buf, p, c - p)
        /\ ReadIovecs(r)[2] = Piece(buf, 0, p + n - c)
    BY <1>5, <2>1 DEF ReadIovecs
  <2>3. Piece(buf, p, c - p) \o Piece(buf, 0, p + n - c) = StoredIn(r)
    BY <1>1, <2>1, TwoPieces DEF StoredIn
  <2> QED
    BY <1>2, <2>2, <2>3
<1> QED
  BY <1>3, <1>4, <1>5

\* The memory new is buf with s copied to the place at.
Copied(new, buf, c, at, s) ==
  /\ new \in [0 .. c - 1 -> Cell]
  /\ \A x \in 0 .. c - 1 :
       new[x] = IF at <= x /\ x < at + Len(s) THEN s[x - at + 1] ELSE buf[x]

\* memcpy into a memory of c bytes.
LEMMA CopyToMemory ==
  ASSUME NEW c \in Nat \ {0}, NEW at \in Nat, NEW s \in Seq(Cell), at + Len(s) <= c,
         NEW buf \in [0 .. c - 1 -> Cell]
  PROVE  Copied(CopyTo(buf, at, s), buf, c, at, s)
<1>1. Len(s) \in Nat /\ \A i \in 1 .. Len(s) : s[i] \in Cell
  BY LenProperties, ElementOfSeq
<1>2. \A x \in 0 .. c - 1 : at <= x /\ x < at + Len(s) => x - at + 1 \in 1 .. Len(s)
  BY <1>1
<1>3. \A x \in 0 .. c - 1 :
        (IF at <= x /\ x < at + Len(s) THEN s[x - at + 1] ELSE buf[x]) \in Cell
  BY <1>1, <1>2
<1>4. DOMAIN buf = 0 .. c - 1
  OBVIOUS
<1>5. CopyTo(buf, at, s) =
        [x \in 0 .. c - 1 |-> IF at <= x /\ x < at + Len(s) THEN s[x - at + 1] ELSE buf[x]]
  BY <1>4 DEF CopyTo
<1> QED
  BY <1>3, <1>5 DEF Copied

\* In a memory of c bytes, buf has become new, and the n bytes data have become stored
\* after the s ones from p.
Appended(new, buf, c, p, s, n, data) ==
  /\ new \in [0 .. c - 1 -> Cell]
  /\ Stretch(new, c, p, s + n) = Stretch(buf, c, p, s) \o data

\* Bytes copied to where the s stored ones end, around the end of the memory if they
\* are more than what is left of it, are stored after them; the stored ones stay.
LEMMA TwoCopies ==
  ASSUME NEW c \in Nat \ {0}, NEW p \in 0 .. c - 1, NEW s \in 0 .. c, NEW w \in 0 .. c - 1,
         w = IF p + s < c THEN p + s ELSE p + s - c,
         NEW buf \in [0 .. c - 1 -> Cell],
         NEW data \in Seq(Cell), NEW n \in 0 .. c - s, n = Len(data),
         NEW k \in 0 .. n, k <= c - w, k = n \/ k = c - w,
         NEW new, new = CopyTo(CopyTo(buf, w, SubSeq(data, 1, k)), 0, SubSeq(data, k + 1, n))
  PROVE  Appended(new, buf, c, p, s, n, data)
<1>1. PICK one : one = SubSeq(data, 1, k)
  OBVIOUS
<1>2. PICK two : two = SubSeq(data, k + 1, n)
  OBVIOUS
<1>3. one \in Seq(Cell) /\ Len(one) = k /\ \A i \in 1 .. k : one[i] = data[i]
  <2>1. 1 \in Int /\ k \in Int /\ \A i \in 1 .. k : i \in 1 .. Len(data)
    OBVIOUS
  <2>2. \A i \in 1 .. k : data[i] \in Cell
    BY <2>1, ElementOfSeq
  <2>3. /\ one \in Seq(Cell) /\ Len(one) = IF 1 <= k THEN k - 1 + 1 ELSE 0
        /\ \A i \in 1 .. k - 1 + 1 : one[i] = data[1 + i - 1]
    BY ONLY <1>1, <2>1, <2>2, SubSeqProperties
  <2>4. k - 1 + 1 = k /\ \A i \in 1 .. k : 1 + i - 1 = i
    OBVIOUS
  <2> QED
    BY <2>3, <2>4
<1>4. two \in Seq(Cell) /\ Len(two) = n - k /\ \A i \in 1 .. n - k : two[i] = data[k + i]
  <2>1. k + 1 \in Int /\ n \in Int /\ \A i \in k + 1 .. n : i \in 1 .. Len(data)
    OBVIOUS
  <2>2. \A i \in k + 1 .. n : data[i] \in Cell
    BY <2>1, ElementOfSeq
  <2>3. /\ two \in Seq(Cell) /\ Len(two) = IF k + 1 <= n THEN n - (k + 1) + 1 ELSE 0
        /\ \A i \in 1 .. n - (k + 1) + 1 : two[i] = data[(k + 1) + i - 1]
    BY ONLY <1>2, <2>1, <2>2, SubSeqProperties
  <2>4. n - (k + 1) + 1 = n - k /\ \A i \in 1 .. n - k : (k + 1) + i - 1 = k + i
    OBVIOUS
  <2> QED
    BY <2>3, <2>4
<1>5. PICK mid : mid = CopyTo(buf, w, one)
  OBVIOUS
<1>6. /\ mid \in [0 .. c - 1 -> Cell]
      /\ \A x \in 0 .. c - 1 : mid[x] = IF w <= x /\ x < w + k THEN one[x - w + 1] ELSE buf[x]
  <2>1. w \in Nat /\ w + Len(one) <= c
    BY <1>3
  <2>2. Copied(mid, buf, c, w, one)
    BY <1>3, <1>5, <2>1, CopyToMemory
  <2> QED
    BY <1>3, <2>2 DEF Copied
<1>7. /\ new \in [0 .. c - 1 -> Cell]
      /\ \A x \in 0 .. c - 1 : new[x] = IF 0 <= x /\ x < 0 + (n - k) THEN two[x - 0 + 1] ELSE mid[x]
  <2>1. 0 \in Nat /\ 0 + Len(two) <= c
    BY <1>4
  <2>2. new = CopyTo(mid, 0, two)
    BY <1>1, <1>2, <1>5
  <2>3. mid \in [0 .. c - 1 -> Cell]
    BY <1>6
  <2>4. Copied(new, mid, c, 0, two)
    BY <1>4, <2>1, <2>2, <2>3, CopyToMemory
  <2> QED
    BY <1>4, <2>4 DEF Copied
<1>8. \A x \in 0 .. c - 1 :
        new[x] = IF x < n - k THEN data[k + x + 1]
                 ELSE IF w <= x /\ x < w + k THEN data[x - w + 1] ELSE buf[x]
  <2> SUFFICES ASSUME NEW x \in 0 .. c - 1
               PROVE  new[x] = IF x < n - k THEN data[k + x + 1]
                               ELSE IF w <= x /\ x < w + k THEN data[x - w + 1] ELSE buf[x]
    OBVIOUS
  <2>1. CASE x < n - k
    <3>1. x - 0 + 1 \in 1 .. n - k /\ k + (x - 0 + 1) = k + x + 1 /\ 0 <= x /\ x < 0 + (n - k)
      BY <2>1
    <3> QED
      BY <1>4, <1>7, <2>1, <3>1
  <2>2. CASE ~(x < n - k)
    <3>1. new[x] = mid[x]
      BY <1>7, <2>2
    <3>2. w <= x /\ x < w + k => x - w + 1 \in 1 .. k
      OBVIOUS
    <3> QED
      BY <1>3, <1>6, <2>2, <3>1, <3>2
  <2> QED
    BY <2>1, <2>2
<1>9. PICK q : q = Stretch(buf, c, p, s)
  OBVIOUS
<1>10. Shows(q, s, buf, c, p)
  <2>1. p \in 0 .. c
    OBVIOUS
  <2> QED
    BY <1>9, <2>1, StretchShows
<1>11. /\ q \o data \in Seq(Cell)
       /\ Len(q \o data) = Len(q) + Len(data)
       /\ \A i \in 1 .. Len(q) + Len(data) :
            (q \o data)[i] = IF i <= Len(q) THEN q[i] ELSE data[i - Len(q)]
  <2>1. q \in Seq(Cell)
    BY <1>10 DEF Shows
  <2> QED
    BY ONLY <2>1, data \in Seq(Cell), ConcatProperties
<1>12. Len(q) = s
  BY <1>10 DEF Shows
<1>13. ASSUME NEW i \in 1 .. s
       PROVE  new[At(c, p, i)] = buf[At(c, p, i)]
  <2>1. PICK x \in 0 .. c - 1 : x = At(c, p, i)
    BY DEF At
  <2>2. ~(x < n - k) /\ ~(w <= x /\ x < w + k)
    BY <2>1 DEF At
  <2> QED
    BY <1>8, <2>1, <2>2
<1>14. ASSUME NEW j \in 1 .. n
       PROVE  new[At(c, p, s + j)] = data[j]
  <2>1. PICK x \in 0 .. c - 1 : x = At(c, p, s + j)
    <3>1. PICK i \in 1 .. c : i = s + j
      OBVIOUS
    <3>2. At(c, p, i) \in 0 .. c - 1
      BY ONLY c \in Nat \ {0}, p \in 0 .. c - 1, i \in 1 .. c DEF At
    <3> QED
      BY <3>1, <3>2
  <2>2. CASE j <= k
    <3>1. ~(x < n - k) /\ w <= x /\ x < w + k /\ x - w + 1 = j
      BY <2>1, <2>2 DEF At
    <3> QED
      BY <1>8, <2>1, <3>1
  <2>3. CASE ~(j <= k)
    <3>1. x < n - k /\ k + x + 1 = j
      BY <2>1, <2>3 DEF At
    <3> QED
      BY <1>8, <2>1, <3>1
  <2> QED
    BY <2>2, <2>3
<1>15. ASSUME NEW i \in 1 .. s + n
       PROVE  (q \o data)[i] = new[At(c, p, i)]
  <2>1. CASE i <= s
    <3>1. i \in 1 .. s
      BY <2>1
    <3>2. (q \o data)[i] = q[i] /\ q[i] = buf[At(c, p, i)]
      BY <1>10, <1>11, <1>12, <2>1, <3>1 DEF Shows
    <3> QED
      BY <1>13, <3>1, <3>2
  <2>2. CASE ~(i <= s)
    <3>1. i - s \in 1 .. n /\ s + (i - s) = i
      BY <2>2
    <3>2. (q \o data)[i] = data[i - s]
      BY <1>11, <1>12, <2>2
    <3> QED
      BY <1>14, <3>1, <3>2
  <2> QED
    BY <2>1, <2>2
<1>16. Shows(q \o data, s + n, new, c, p)
  BY <1>11, <1>12, <1>15 DEF Shows
<1>17. Shows(Stretch(new, c, p, s + n), s + n, new, c, p)
  <2>1. p \in 0 .. c /\ s + n \in 0 .. c
    OBVIOUS
  <2> QED
    BY <1>7, <2>1, StretchShows
<1> QED
  BY <1>7, <1>9, <1>16, <1>17, ShowsOne DEF Appended

\* Resize copies what is stored to the front of the new memory.
LEMMA ResizeStored ==
  ASSUME NEW r, IndexOK(r), BufferOK(r), NEW c \in Nat, c > r.size
  PROVE  BufferOK(Resize(r, c)) /\ StoredIn(Resize(r, c)) = StoredIn(r)
<1>1. PICK q : q = StoredIn(r)
  OBVIOUS
<1>2. r.size \in Nat /\ c \in Nat \ {0} /\ r.size \in 0 .. c /\ 0 \in 0 .. c /\ 0 \in Nat
  BY DEF IndexOK
<1>3. Shows(q, r.size, r.buffer, r.capacity, r.readPos)
  BY <1>1, IovecsShowStored
<1>4. PICK new : new = CopyTo(Fresh(c), 0, q)
  OBVIOUS
<1>5. Fresh(c) \in [0 .. c - 1 -> Cell]
  BY <1>2 DEF Fresh, Cell
<1>6. q \in Seq(Cell) /\ Len(q) = r.size /\ 0 + Len(q) <= c
  BY <1>2, <1>3 DEF Shows
<1>7. Copied(new, Fresh(c), c, 0, q)
  BY <1>2, <1>4, <1>5, <1>6, CopyToMemory
<1>8. ~(c < r.size)
  BY <1>2
<1>9. Resize(r, c) = Members(new, c, 0, r.size, r.size)
  BY <1>1, <1>4, <1>8, IovecsShowStored DEF Resize
<1>10. /\ Resize(r, c).buffer = new /\ Resize(r, c).capacity = c
       /\ Resize(r, c).readPos = 0 /\ Resize(r, c).size = r.size
  BY <1>9 DEF Members
<1>11. new \in [0 .. c - 1 -> Cell]
  BY <1>7 DEF Copied
<1>12. ASSUME NEW i \in 1 .. r.size
       PROVE  q[i] = new[At(c, 0, i)]
  <2>1. At(c, 0, i) = i - 1 /\ i - 1 \in 0 .. c - 1
    BY <1>2 DEF At
  <2>2. 0 <= i - 1 /\ i - 1 < 0 + Len(q) /\ (i - 1) - 0 + 1 = i
    BY <1>2, <1>6
  <2> QED
    BY <1>7, <2>1, <2>2 DEF Copied
<1>13. Shows(q, r.size, new, c, 0)
  BY <1>6, <1>12 DEF Shows
<1>14. Shows(Stretch(new, c, 0, r.size), r.size, new, c, 0)
  BY <1>2, <1>11, StretchShows
<1> QED
  BY <1>1, <1>10, <1>11, <1>13, <1>14, ShowsOne DEF BufferOK, StoredIn

\* So growing a ring leaves what is stored.
LEMMA GrowForStored ==
  ASSUME NEW r, IndexOK(r), BufferOK(r), NEW n \in Nat
  PROVE  BufferOK(GrowFor(r, n)) /\ StoredIn(GrowFor(r, n)) = StoredIn(r)
<1>1. CASE n <= r.capacity - r.size
  BY <1>1 DEF GrowFor
<1>2. CASE ~(n <= r.capacity - r.size)
  <2>1. GrownCapacity(r, n) \in Nat /\ GrownCapacity(r, n) > r.size
    BY <1>2 DEF GrownCapacity, IndexOK
  <2> QED
    BY <1>2, <2>1, ResizeStored DEF GrowFor
<1> QED
  BY <1>1, <1>2

\* Write into a ring with room appends, at whichever side of the end it falls.
LEMMA StoreStored ==
  ASSUME NEW r, IndexOK(r), BufferOK(r), NEW data \in Seq(Cell), Len(data) <= r.capacity - r.size
  PROVE  BufferOK(Store(r, data)) /\ StoredIn(Store(r, data)) = StoredIn(r) \o data
<1> DEFINE c == r.capacity
           p == r.readPos
           w == r.writePos
           s == r.size
<1>1. /\ c \in Nat \ {0} /\ p \in 0 .. c - 1 /\ w \in 0 .. c - 1 /\ s \in 0 .. c
      /\ w = (IF p + s < c THEN p + s ELSE p + s - c)
      /\ r.buffer \in [0 .. c - 1 -> Cell]
  BY DEF IndexOK, BufferOK, WritePosOf
<1> HIDE DEF c, p, w, s
<1>2. PICK n : n = Len(data)
  OBVIOUS
<1>3. n \in 0 .. c - s
  <2>1. n \in Nat
    BY <1>2, LenProperties
  <2> QED
    BY <1>1, <1>2, <2>1 DEF c, s
<1>4. PICK wraps \in BOOLEAN : wraps <=> p <= w /\ n >= c - w
  OBVIOUS
<1>5. PICK k : k = IF wraps THEN c - w ELSE n
  OBVIOUS
<1>6. k \in 0 .. n /\ k <= c - w /\ (k = n \/ k = c - w)
  BY <1>1, <1>3, <1>4, <1>5
<1>7. PICK new : new = CopyTo(CopyTo(r.buffer, w, SubSeq(data, 1, k)), 0, SubSeq(data, k + 1, n))
  OBVIOUS
<1>8. Appended(new, r.buffer, c, p, s, n, data)
  BY <1>1, <1>2, <1>3, <1>6, <1>7, TwoCopies
<1>9. Store(r, data) = Members(new, c, p, IF wraps THEN n - (c - w) ELSE w + n, s + n)
  <2>1. CASE wraps
    <3>1. k = c - w /\ r.readPos <= r.writePos /\ n >= r.capacity - r.writePos
      BY <1>4, <1>5, <2>1 DEF c, p, w
    <3> QED
      BY <1>2, <1>7, <2>1, <3>1 DEF Store, c, p, w, s
  <2>2. CASE ~wraps
    <3>1. k = n /\ ~(r.readPos <= r.writePos /\ n >= r.capacity - r.writePos)
      BY <1>4, <1>5, <2>2 DEF c, p, w
    <3>2. SubSeq(data, 1, n) = data
      BY <1>2, SubSeqFull
    <3>3. SubSeq(data, n + 1, n) = <<>>
      BY <1>3, SubSeqEmpty
    <3> QED
      BY <1>2, <1>7, <2>2, <3>1, <3>2, <3>3 DEF Store, c, p, w, s
  <2> QED
    BY <2>1, <2>2
<1> QED
  BY <1>8, <1>9 DEF Members, BufferOK, StoredIn, Appended, c, p, s

\* So does a receive into GetWritePos' regions, with AddWritePos after it.
LEMMA ReceiveStored ==
  ASSUME NEW r, IndexOK(r), BufferOK(r), ~Full(r),
         NEW data \in Seq(Cell), Len(data) <= r.capacity - r.size
  PROVE  LET got == AddWritePos(FillIovecs(r, data), Len(data))
         IN  BufferOK(got) /\ StoredIn(got) = StoredIn(r) \o data
<1> DEFINE c == r.capacity
           p == r.readPos
           w == r.writePos
           s == r.size
<1>1. /\ c \in Nat \ {0} /\ p \in 0 .. c - 1 /\ w \in 0 .. c - 1 /\ s \in 0 .. c
      /\ w = (IF p + s < c THEN p + s ELSE p + s - c)
      /\ s # c
      /\ r.buffer \in [0 .. c - 1 -> Cell]
  BY DEF IndexOK, BufferOK, WritePosOf, Full
<1> HIDE DEF c, p, w, s
<1>2. PICK n : n = Len(data)
  OBVIOUS
<1>3. n \in 0 .. c - s
  <2>1. n \in Nat
    BY <1>2, LenProperties
  <2> QED
    BY <1>1, <1>2, <2>1 DEF c, s
<1>4. PICK room : room = WriteIovecs(r)[1][2]
  OBVIOUS
<1>5. PICK k : k = IF n <= room THEN n ELSE room
  OBVIOUS
<1>6. /\ WriteIovecs(r)[1][1] = w /\ WriteIovecs(r)[2][1] = 0
      /\ room = IF w < p THEN p - w ELSE c - w
  BY <1>4 DEF WriteIovecs, Full, c, p, w
<1>7. k \in 0 .. n /\ k <= c - w /\ (k = n \/ k = c - w)
  <2>1. CASE w < p
    <3>1. p - w = c - s /\ room = p - w
      BY <1>1, <1>6, <2>1
    <3>2. k = n
      BY <1>3, <1>5, <3>1
    <3> QED
      BY <1>1, <1>3, <2>1, <3>1, <3>2
  <2>2. CASE ~(w < p)
    BY <1>1, <1>3, <1>5, <1>6, <2>2
  <2> QED
    BY <2>1, <2>2
<1>8. PICK new : new = CopyTo(CopyTo(r.buffer, w, SubSeq(data, 1, k)), 0, SubSeq(data, k + 1, n))
  OBVIOUS
<1>9. Appended(new, r.buffer, c, p, s, n, data)
  BY <1>1, <1>2, <1>3, <1>7, <1>8, TwoCopies
<1>10. FillIovecs(r, data) = Members(new, c, p, w, s)
  BY <1>2, <1>4, <1>5, <1>6, <1>8 DEF FillIovecs, c, p, w, s
<1>11. PICK got : got = AddWritePos(FillIovecs(r, data), Len(data))
  OBVIOUS
<1>12. got.buffer = new /\ got.capacity = c /\ got.readPos = p /\ got.size = s + n
  BY <1>2, <1>10, <1>11 DEF AddWritePos, Members
<1>13. BufferOK(got) /\ StoredIn(got) = StoredIn(r) \o data
  BY <1>9, <1>12 DEF BufferOK, StoredIn, Appended, c, p, s
<1> QED
  BY <1>11, <1>13

\* A ring that has moved readPos_ by n and nothing else stores the rest.
LEMMA MovedStored ==
  ASSUME NEW r, IndexOK(r), BufferOK(r), NEW n \in 0 .. r.size, NEW new,
         new.buffer = r.buffer, new.capacity = r.capacity, new.size = r.size - n,
         new.readPos \in 0 .. r.capacity - 1,
         new.readPos = r.readPos + n \/ new.readPos = r.readPos + n - r.capacity
  PROVE  BufferOK(new) /\ StoredIn(new) = SubSeq(StoredIn(r), n + 1, r.size)
<1> DEFINE c == r.capacity
           p == r.readPos
           s == r.size
           q == new.readPos
<1>1. /\ c \in Nat \ {0} /\ p \in 0 .. c /\ s \in 0 .. c /\ q \in 0 .. c
      /\ n \in 0 .. s /\ (q = p + n \/ q = p + n - c)
      /\ r.buffer \in [0 .. c - 1 -> Cell]
  BY DEF IndexOK, BufferOK
<1> HIDE DEF c, p, s, q
<1>2. PICK l \in 0 .. s - n : l = s - n
  <2>1. s - n \in 0 .. s - n
    BY ONLY <1>1
  <2> QED
    BY <2>1
<1>3. n + l = s
  BY <1>1, <1>2
<1>4. Part(r.buffer, c, p, s, n, l) = Stretch(r.buffer, c, q, l)
  <2>1. PartAt(r.buffer, c, p, s, n, l, q)
    BY <1>1, <1>2 DEF PartAt
  <2> QED
    BY ONLY <2>1, PartOfStretch
<1> QED
  BY <1>1, <1>2, <1>3, <1>4 DEF StoredIn, Part, BufferOK, c, p, s, q

LEMMA AddReadPosStored ==
  ASSUME NEW r, IndexOK(r), BufferOK(r), NEW n \in 0 .. r.size
  PROVE  /\ BufferOK(AddReadPos(r, n))
         /\ StoredIn(AddReadPos(r, n)) = SubSeq(StoredIn(r), n + 1, r.size)
<1>1. PICK new : new = AddReadPos(r, n)
  OBVIOUS
<1>2. /\ new.buffer = r.buffer /\ new.capacity = r.capacity /\ new.size = r.size - n
      /\ new.readPos = r.readPos + n \/ new.readPos = r.readPos + n - r.capacity
  BY <1>1 DEF AddReadPos, Members, Moved, IndexOK
<1>3. new.readPos \in 0 .. r.capacity - 1
  BY <1>1, <1>2, AddReadPosIndex DEF IndexOK
<1> QED
  BY <1>1, <1>2, <1>3, MovedStored

LEMMA ConsumeStored ==
  ASSUME NEW r, IndexOK(r), BufferOK(r), NEW n \in 0 .. r.size
  PROVE  /\ BufferOK(Consume(r, n))
         /\ StoredIn(Consume(r, n)) = SubSeq(StoredIn(r), n + 1, r.size)
<1>1. PICK new : new = Consume(r, n)
  OBVIOUS
<1>2. r.capacity \in Nat \ {0} /\ r.readPos \in 0 .. r.capacity - 1 /\ n \in 0 .. r.capacity
  BY DEF IndexOK
<1>3. /\ new.buffer = r.buffer /\ new.capacity = r.capacity /\ new.size = r.size - n
      /\ new.readPos = (r.readPos + n) % r.capacity
  BY <1>1 DEF Consume, Members
<1>4. new.readPos = r.readPos + n \/ new.readPos = r.readPos + n - r.capacity
  BY <1>2, <1>3, ModuloWraps
<1>5. new.readPos \in 0 .. r.capacity - 1
  BY <1>1, <1>3, ConsumeIndex DEF IndexOK
<1> QED
  BY <1>1, <1>3, <1>4, <1>5, MovedStored

\* Peek returns the n bytes after the first offset ones.
LEMMA PeekStored ==
  ASSUME NEW r, IndexOK(r), BufferOK(r), NEW offset \in 0 .. r.size,
         NEW n \in 0 .. r.size - offset, PeekDefined(r, n, offset)
  PROVE  Peek(r, n, offset) = SubSeq(StoredIn(r), offset + 1, offset + n)
<1> DEFINE c == r.capacity
           p == r.readPos
           w == r.writePos
           s == r.size
<1>1. /\ c \in Nat \ {0} /\ p \in 0 .. c - 1 /\ p \in 0 .. c /\ w \in 0 .. c - 1 /\ s \in 0 .. c
      /\ w = (IF p + s < c THEN p + s ELSE p + s - c)
      /\ offset \in 0 .. s /\ n \in 0 .. s - offset
      /\ r.buffer \in [0 .. c - 1 -> Cell]
  BY DEF IndexOK, BufferOK, WritePosOf
<1>2. n + offset <= c - p \/ offset <= c - p
  BY DEF PeekDefined
<1> HIDE DEF c, p, w, s
<1>3. PICK q : q = p + offset
  OBVIOUS
<1>4. q \in 0 .. c /\ q \in Nat /\ n \in 0 .. c /\ n \in Nat
  BY <1>1, <1>2, <1>3
<1>5. SubSeq(StoredIn(r), offset + 1, offset + n) = Stretch(r.buffer, c, q, n)
  <2>1. Part(r.buffer, c, p, s, offset, n) = Stretch(r.buffer, c, q, n)
    <3>1. PartAt(r.buffer, c, p, s, offset, n, q)
      BY <1>1, <1>3, <1>4 DEF PartAt
    <3> QED
      BY ONLY <3>1, PartOfStretch
  <2> QED
    BY <2>1 DEF StoredIn, Part, c, p, s
<1>6. CASE q >= w /\ n + offset > c - p
  <2>1. q + n >= c
    BY <1>1, <1>3, <1>6
  <2>2. c - p - offset = c - q /\ n + p + offset - c = q + n - c
    BY <1>1, <1>3, <1>4
  <2>3. Piece(r.buffer, q, c - q) \o Piece(r.buffer, 0, q + n - c) = Stretch(r.buffer, c, q, n)
    BY <1>1, <1>4, <2>1, TwoPieces
  <2>4. Peek(r, n, offset) = Piece(r.buffer, q, c - p - offset)
                               \o Piece(r.buffer, 0, n + p + offset - c)
    BY <1>3, <1>6 DEF Peek, c, p, w
  <2> QED
    BY <1>5, <2>2, <2>3, <2>4
<1>7. CASE ~(q >= w /\ n + offset > c - p)
  <2>1. q + n <= c
    <3>1. CASE q < w
      <4>1. w = p + s /\ w < c
        BY <1>1, <1>3, <3>1
      <4> QED
        BY <1>1, <1>3, <4>1
    <3>2. CASE n + offset <= c - p
      BY <1>1, <1>3, <3>2
    <3> QED
      BY <1>1, <1>3, <1>4, <1>7, <3>1, <3>2
  <2>2. Piece(r.buffer, q, n) = Stretch(r.buffer, c, q, n)
    BY <1>1, <1>4, <2>1, OnePiece
  <2>3. Peek(r, n, offset) = Piece(r.buffer, q, n)
    BY <1>3, <1>7 DEF Peek, c, p, w
  <2> QED
    BY <1>5, <2>2, <2>3
<1> QED
  BY <1>6, <1>7

\* Read into another buffer copies the first n.
LEMMA ReadIntoStored ==
  ASSUME NEW r, IndexOK(r), BufferOK(r), NEW n \in 0 .. r.size
  PROVE  ReadInto(r, n) = SubSeq(StoredIn(r), 1, n)
<1> DEFINE c == r.capacity
           p == r.readPos
           w == r.writePos
           s == r.size
<1>1. /\ c \in Nat \ {0} /\ p \in 0 .. c /\ p \in Nat /\ w \in 0 .. c - 1 /\ s \in 0 .. c
      /\ w = (IF p + s < c THEN p + s ELSE p + s - c)
      /\ n \in 0 .. s /\ n \in 0 .. c /\ n \in Nat
      /\ r.buffer \in [0 .. c - 1 -> Cell]
  BY DEF IndexOK, BufferOK, WritePosOf
<1> HIDE DEF c, p, w, s
<1>2. PICK k : k = 0
  OBVIOUS
<1>3. SubSeq(StoredIn(r), 1, n) = Stretch(r.buffer, c, p, n)
  <2>1. k \in 0 .. s /\ n \in 0 .. s - k /\ p = p + k /\ k + 1 = 1 /\ k + n = n
    BY <1>1, <1>2
  <2>2. Part(r.buffer, c, p, s, k, n) = Stretch(r.buffer, c, p, n)
    <3>1. PartAt(r.buffer, c, p, s, k, n, p)
      BY <1>1, <2>1 DEF PartAt
    <3> QED
      BY ONLY <3>1, PartOfStretch
  <2> QED
    BY <2>1, <2>2 DEF StoredIn, Part, c, p, s
<1>4. CASE p < w \/ n <= c - p
  <2>1. p + n <= c
    BY <1>1, <1>4
  <2>2. ReadInto(r, n) = Piece(r.buffer, p, n)
    BY <1>4 DEF ReadInto, c, p, w
  <2> QED
    BY <1>1, <1>3, <2>1, <2>2, OnePiece
<1>5. CASE ~(p < w \/ n <= c - p)
  <2>1. p + n >= c /\ n + p - c = p + n - c
    BY <1>1, <1>5
  <2>2. ReadInto(r, n) = Piece(r.buffer, p, c - p) \o Piece(r.buffer, 0, n + p - c)
    BY <1>5 DEF ReadInto, c, p, w
  <2>3. Piece(r.buffer, p, c - p) \o Piece(r.buffer, 0, p + n - c) = Stretch(r.buffer, c, p, n)
    BY <1>1, <2>1, TwoPieces
  <2> QED
    BY <1>3, <2>1, <2>2, <2>3
<1> QED
  BY <1>4, <1>5

\* What ReadString takes is a piece of memory within the stored bytes, or empty.
LEMMA PeekStringPiece ==
  ASSUME NEW r, IndexOK(r)
  PROVE  \E len \in 0 .. r.size :
           /\ PeekString(r) = Piece(r.buffer, r.readPos, len)
           /\ Len(PeekString(r)) = len
           /\ r.readPos + len <= r.capacity
           /\ r.readPos < r.writePos \/ len = 0
<1>1. /\ r.capacity \in Nat \ {0} /\ r.readPos \in 0 .. r.capacity - 1 /\ r.readPos \in Nat
      /\ r.size \in 0 .. r.capacity /\ r.size \in Nat
  BY DEF IndexOK
<1>2. CASE r.readPos + r.size > r.writePos
  <2>1. PeekString(r) = <<>> /\ Len(PeekString(r)) = 0
    BY <1>2 DEF PeekString
  <2>2. Piece(r.buffer, r.readPos, 0) = <<>>
    BY DEF Piece
  <2>3. 0 \in 0 .. r.size /\ r.readPos + 0 <= r.capacity
    BY <1>1
  <2> QED
    BY <2>1, <2>2, <2>3
<1>3. CASE ~(r.readPos + r.size > r.writePos)
  <2> DEFINE before == {i \in 0 .. r.size - 1 :
                          \A j \in 0 .. i : r.buffer[r.readPos + j] # Separator}
             len == Cardinality(before)
  <2>1. /\ IsFiniteSet(0 .. r.size - 1)
        /\ Cardinality(0 .. r.size - 1) = r.size
    <3> DEFINE m == r.size - 1
    <3>1. 0 \in Int /\ m \in Int
      BY <1>1
    <3>2. Cardinality(0 .. m) = (IF 0 > m THEN 0 ELSE m - 0 + 1) /\ IsFiniteSet(0 .. m)
      <4> HIDE DEF m
      <4> QED
        BY <3>1, FS_Interval, Zenon
    <3> QED
      BY <1>1, <3>2
  <2>2. before \in SUBSET (0 .. r.size - 1)
    OBVIOUS
  <2> HIDE DEF before
  <2>3. IsFiniteSet(before) /\ Cardinality(before) <= r.size
    BY <2>1, <2>2, FS_Subset
  <2>4. len \in 0 .. r.size
    BY <1>1, <2>3, FS_CardinalityType
  <2>5. PeekString(r) = Piece(r.buffer, r.readPos, len)
    BY <1>3 DEF PeekString, before
  <2> HIDE DEF len
  <2>6. r.readPos + len <= r.capacity /\ (r.readPos < r.writePos \/ len = 0)
    BY <1>1, <1>3, <2>4 DEF IndexOK, WritePosOf
  <2>7. Len(Piece(r.buffer, r.readPos, len)) = len
    BY <2>4 DEF Piece, IndexOK
  <2> QED
    BY <2>4, <2>5, <2>6, <2>7
<1> QED
  BY <1>2, <1>3

LEMMA PeekStringStored ==
  ASSUME NEW r, IndexOK(r), BufferOK(r)
  PROVE  /\ Len(PeekString(r)) \in 0 .. r.size
         /\ PeekString(r) = SubSeq(StoredIn(r), 1, Len(PeekString(r)))
<1>1. PICK len \in 0 .. r.size :
        /\ PeekString(r) = Piece(r.buffer, r.readPos, len)
        /\ Len(PeekString(r)) = len
        /\ r.readPos + len <= r.capacity
        /\ r.readPos < r.writePos \/ len = 0
  BY PeekStringPiece
<1>2. len <= r.capacity - r.readPos
  BY <1>1 DEF IndexOK
<1>3. ReadInto(r, len) = Piece(r.buffer, r.readPos, len)
  BY <1>2 DEF ReadInto
<1> QED
  BY <1>1, <1>3, ReadIntoStored

\* The positions go around by %, as Contents has it, or by subtraction.
LEMMA ContentsStored ==
  ASSUME NEW r, IndexOK(r)
  PROVE  [i \in 1 .. r.size |-> r.buffer[(r.readPos + i - 1) % r.capacity]] = StoredIn(r)
<1>1. /\ r.capacity \in Nat \ {0} /\ r.readPos \in 0 .. r.capacity - 1
      /\ r.size \in 0 .. r.capacity
  BY DEF IndexOK
<1>2. ASSUME NEW i \in 1 .. r.size
      PROVE  (r.readPos + i - 1) % r.capacity = At(r.capacity, r.readPos, i)
  <2>1. PICK n \in 0 .. r.capacity : n = i - 1
    BY <1>1
  <2>2. PICK k \in Int : k = r.readPos + i - 1
    BY <1>1
  <2>3. k = r.readPos + n
    BY <1>1, <2>1, <2>2
  <2>4. (r.readPos + n) % r.capacity =
          IF r.readPos + n < r.capacity THEN r.readPos + n ELSE r.readPos + n - r.capacity
    BY ONLY <1>1, n \in 0 .. r.capacity, ModuloWraps
  <2>5. At(r.capacity, r.readPos, i) = IF k < r.capacity THEN k ELSE k - r.capacity
    BY <1>1, <2>2 DEF At
  <2> QED
    BY <1>1, <2>2, <2>3, <2>4, <2>5
<1> QED
  BY <1>2 DEF StoredIn, Stretch

\* The strengthening of PositionsAgree is inductive.
LEMMA IndexInvariant == Spec => []IndexInv
<1>1. Init => IndexInv
  <2> SUFFICES ASSUME NEW n \in Capacities, ring = NewRing(n) PROVE IndexInv
    BY DEF Init
  <2>1. n \in Nat \ {0}
    BY RingAssumption
  <2> QED
    BY <2>1 DEF NewRing, Members, IndexInv, IndexOK, WritePosOf
<1>2. IndexInv /\ [Next]_vars => IndexInv'
  <2> SUFFICES ASSUME IndexOK(ring), [Next]_vars PROVE IndexOK(ring')
    BY DEF IndexInv
  <2>1. ASSUME NEW data \in Chunks PROVE Len(data) \in Nat
    BY <2>1, RingAssumption DEF Chunks
  <2>2. ASSUME NEW data \in Chunks, WriteBytes(data) PROVE IndexOK(ring')
    <3> DEFINE r == GrowFor(ring, Len(data))
    <3>1. IndexOK(r) /\ Len(data) <= r.capacity - r.size
      BY <2>1, GrowForIndex
    <3> HIDE DEF r
    <3>2. Len(data) \in 0 .. r.capacity - r.size
      BY <2>1, <3>1 DEF IndexOK
    <3>3. IndexOK(Store(r, data))
      BY <3>1, <3>2, StoreIndex
    <3> QED
      BY <2>2, <3>3 DEF WriteBytes, Write, r
  <2>3. ASSUME NEW data \in Chunks, Receive(data) PROVE IndexOK(ring')
    <3> DEFINE r == IF Full(ring) THEN Resize(ring, 2 * ring.capacity) ELSE ring
    <3>1. 2 * ring.capacity \in Nat /\ 2 * ring.capacity > ring.size
      BY DEF IndexOK
    <3>2. IndexOK(r)
      BY <3>1, ResizeIndex
    <3>3. Len(data) <= r.capacity - r.size
      BY <2>3 DEF Receive
    <3>4. ring' = AddWritePos(FillIovecs(r, data), Len(data))
      BY <2>3 DEF Receive
    <3> HIDE DEF r
    <3>5. PICK b : FillIovecs(r, data) = Members(b, r.capacity, r.readPos, r.writePos, r.size)
      BY DEF FillIovecs
    <3>6. /\ IndexOK(FillIovecs(r, data))
          /\ FillIovecs(r, data).capacity = r.capacity
          /\ FillIovecs(r, data).size = r.size
      BY <3>2, <3>5 DEF IndexOK, Members, WritePosOf
    <3>7. Len(data) \in 0 .. FillIovecs(r, data).capacity - FillIovecs(r, data).size
      BY <2>1, <3>2, <3>3, <3>6 DEF IndexOK
    <3> QED
      BY <3>4, <3>6, <3>7, AddWritePosIndex
  <2>4. ASSUME NEW n \in 0 .. ring.size, Transmit(n) PROVE IndexOK(ring')
    BY <2>4, AddReadPosIndex DEF Transmit
  <2>5. ASSUME NEW n \in 0 .. ring.size, Read(n) \/ ReadBuffer(n) PROVE IndexOK(ring')
    BY <2>5, ConsumeIndex DEF Read, ReadBuffer
  <2>6. CASE ReadString
    <3>1. Len(PeekString(ring)) \in 0 .. ring.size
      BY PeekStringPiece
    <3> QED
      BY <2>6, <3>1, ConsumeIndex DEF ReadString
  <2>7. CASE UNCHANGED vars
    BY <2>7 DEF vars
  <2> QED
    BY <2>2, <2>3, <2>4, <2>5, <2>6, <2>7 DEF Next
<1> QED
  BY <1>1, <1>2, PTL DEF Spec

\* The positions of a ring never leave its memory and never disagree with size_,
\* whatever the order of reads, writes, receives, transmissions and growth: a full
\* ring is never taken for an empty one, nor free memory for stored bytes.
THEOREM PositionsAlwaysAgree == Spec => []PositionsAgree
<1>1. IndexInv => PositionsAgree
  BY DEF IndexInv, IndexOK, PositionsAgree
<1> QED
  BY IndexInvariant, <1>1, PTL

-----------------------------------------------------------------------------
(* Refinement of ByteQueue *)

\* What each call does to the bytes stored.
BytesIn(data) ==
  /\ moved' = data
  /\ StoredIn(ring') = StoredIn(ring) \o data

BytesOut(n) ==
  /\ moved' = SubSeq(StoredIn(ring), 1, n)
  /\ StoredIn(ring') = SubSeq(StoredIn(ring), n + 1, ring.size)

LEMMA ChunkIsSeq ==
  ASSUME NEW data \in Chunks
  PROVE  data \in Seq(Cell) /\ Len(data) \in Nat
<1>1. PICK n \in 0 .. MaxChunk : data \in [1 .. n -> Byte]
  BY DEF Chunks
<1>2. n \in Nat /\ data \in [1 .. n -> Cell]
  BY <1>1, RingAssumption DEF Cell
<1>3. data \in Seq(Cell)
  BY <1>2, SeqDef
<1> QED
  BY <1>3, LenProperties

LEMMA WriteMoves ==
  ASSUME IndexInv, BufferOK(ring), NEW data \in Chunks, WriteBytes(data)
  PROVE  BufferOK(ring') /\ BytesIn(data)
<1>1. data \in Seq(Cell) /\ Len(data) \in Nat
  BY ChunkIsSeq
<1>2. PICK r : r = GrowFor(ring, Len(data))
  OBVIOUS
<1>3. IndexOK(r) /\ Len(data) <= r.capacity - r.size
  BY <1>1, <1>2, GrowForIndex DEF IndexInv
<1>4. BufferOK(r) /\ StoredIn(r) = StoredIn(ring)
  BY <1>1, <1>2, GrowForStored DEF IndexInv
<1>5. ring' = Store(r, data) /\ moved' = data
  BY <1>2 DEF WriteBytes, Write
<1>6. BufferOK(Store(r, data)) /\ StoredIn(Store(r, data)) = StoredIn(r) \o data
  BY <1>1, <1>3, <1>4, StoreStored
<1> QED
  BY <1>4, <1>5, <1>6 DEF BytesIn

LEMMA ReceiveMoves ==
  ASSUME IndexInv, BufferOK(ring), NEW data \in Chunks, Receive(data)
  PROVE  BufferOK(ring') /\ BytesIn(data)
<1>1. data \in Seq(Cell) /\ Len(data) \in Nat
  BY ChunkIsSeq
<1>2. PICK r : r = IF Full(ring) THEN Resize(ring, 2 * ring.capacity) ELSE ring
  OBVIOUS
<1>3. /\ 2 * ring.capacity \in Nat /\ 2 * ring.capacity > ring.size
      /\ 2 * ring.capacity # ring.size
  BY DEF IndexInv, IndexOK
<1>4. IndexOK(r) /\ ~Full(r)
  BY <1>2, <1>3, ResizeIndex DEF IndexInv, Full
<1>5. BufferOK(r) /\ StoredIn(r) = StoredIn(ring)
  BY <1>2, <1>3, ResizeStored DEF IndexInv
<1>6. /\ Len(data) <= r.capacity - r.size
      /\ ring' = AddWritePos(FillIovecs(r, data), Len(data)) /\ moved' = data
  BY <1>2 DEF Receive
<1>7. BufferOK(ring') /\ StoredIn(ring') = StoredIn(r) \o data
  BY <1>1, <1>4, <1>5, <1>6, ReceiveStored
<1> QED
  BY <1>5, <1>6, <1>7 DEF BytesIn

LEMMA ReadsMove ==
  ASSUME IndexInv, BufferOK(ring), NEW n \in 0 .. ring.size,
         Transmit(n) \/ Read(n) \/ ReadBuffer(n)
  PROVE  BufferOK(ring') /\ BytesOut(n)
<1>1. CASE Transmit(n)
  BY <1>1, IovecsShowStored, AddReadPosStored DEF Transmit, BytesOut, IndexInv
<1>2. CASE Read(n)
  <2>1. PICK offset : offset = 0
    OBVIOUS
  <2>2. /\ offset \in 0 .. ring.size /\ n \in 0 .. ring.size - offset
        /\ PeekDefined(ring, n, offset) /\ offset + 1 = 1 /\ offset + n = n
    BY <2>1 DEF PeekDefined, IndexInv, IndexOK
  <2>3. Peek(ring, n, offset) = SubSeq(StoredIn(ring), offset + 1, offset + n)
    BY <2>2, PeekStored DEF IndexInv
  <2>4. moved' = SubSeq(StoredIn(ring), 1, n)
    BY <1>2, <2>1, <2>2, <2>3 DEF Read
  <2> QED
    BY <1>2, <2>4, ConsumeStored DEF Read, BytesOut, IndexInv
<1>3. CASE ReadBuffer(n)
  BY <1>3, ReadIntoStored, ConsumeStored DEF ReadBuffer, BytesOut, IndexInv
<1> QED
  BY <1>1, <1>2, <1>3

LEMMA RingStep ==
  ASSUME IndexInv, BufferOK(ring), Next
  PROVE  /\ BufferOK(ring')
         /\ \/ \E data \in Chunks : BytesIn(data)
            \/ \E n \in 0 .. ring.size : BytesOut(n)
<1>1. CASE \E data \in Chunks : WriteBytes(data) \/ Receive(data)
  BY <1>1, WriteMoves, ReceiveMoves
<1>2. CASE \E n \in 0 .. ring.size : Transmit(n) \/ Read(n) \/ ReadBuffer(n)
  BY <1>2, ReadsMove
<1>3. CASE ReadString
  <2>1. PICK n : n = Len(PeekString(ring))
    OBVIOUS
  <2>2. n \in 0 .. ring.size /\ PeekString(ring) = SubSeq(StoredIn(ring), 1, n)
    BY <2>1, PeekStringStored DEF IndexInv
  <2>3. BufferOK(ring') /\ BytesOut(n)
    BY <1>3, <2>1, <2>2, ConsumeStored DEF ReadString, BytesOut, IndexInv
  <2> QED
    BY <2>2, <2>3
<1> QED
  BY <1>1, <1>2, <1>3 DEF Next

BufferInv == BufferOK(ring)

LEMMA BufferInvariant == Spec => [](IndexInv /\ BufferInv)
<1>1. Init => BufferInv
  <2> SUFFICES ASSUME NEW n \in Capacities, ring = NewRing(n) PROVE BufferInv
    BY DEF Init
  <2>1. n \in Nat \ {0}
    BY RingAssumption
  <2> QED
    BY <2>1 DEF NewRing, Members, Fresh, BufferInv, BufferOK, Cell
<1>2. IndexInv /\ BufferInv /\ [Next]_vars => BufferInv'
  BY RingStep DEF BufferInv, vars
<1> QED
  BY IndexInvariant, <1>1, <1>2, PTL DEF Spec

\* Refinement: whatever the order of calls, wherever the end of the memory falls and
\* however often the ring grows, bytes come out once, whole and in the order they came in.
THEOREM RingImplementsQueue == Spec => ImplementsByteQueue
<1>1. Init => Abstract!Init
  <2> SUFFICES ASSUME NEW n \in Capacities, ring = NewRing(n) PROVE Contents = <<>>
    BY DEF Init, Abstract!Init
  <2>1. ring.size = 0
    BY DEF NewRing, Members
  <2>2. Contents \in [1 .. 0 -> {}]
    BY <2>1 DEF Contents
  <2>3. Contents \in Seq({}) /\ Len(Contents) = 0
    BY <2>2, SeqDef, LenProperties
  <2> QED
    BY <2>3, EmptySeq
<1>2. ASSUME IndexInv, IndexInv', BufferInv, [Next]_vars
      PROVE  [Abstract!Next]_<<Contents, moved>>
  <2>1. Contents = StoredIn(ring)
    BY <1>2, ContentsStored DEF Contents, IndexInv
  <2>2. Contents' = StoredIn(ring')
    <3>1. IndexOK(ring')
      BY <1>2 DEF IndexInv
    <3> QED
      BY <3>1, ContentsStored DEF Contents
  <2>3. CASE UNCHANGED vars
    BY <2>3 DEF vars, Contents
  <2>4. ASSUME NEW data \in Chunks, BytesIn(data) PROVE Abstract!Next
    BY <2>1, <2>2, <2>4 DEF BytesIn, Abstract!Next, Abstract!Put
  <2>5. ASSUME NEW n \in 0 .. ring.size, BytesOut(n) PROVE Abstract!Next
    <3>1. Len(Contents) = ring.size
      BY <1>2, <2>1, IovecsShowStored DEF IndexInv, BufferInv, Shows
    <3> QED
      BY <2>1, <2>2, <2>5, <3>1 DEF BytesOut, Abstract!Next, Abstract!Take
  <2> QED
    BY <1>2, <2>3, <2>4, <2>5, RingStep DEF BufferInv
<1> QED
  BY BufferInvariant, <1>1, <1>2, PTL DEF Spec, ImplementsByteQueue, Abstract!Spec

\* A look-ahead shows exactly the stored bytes, at each offset and around the end of the
\* memory, for every ring that any order of calls can lead to.
THEOREM PeekStaysExact == Spec => []PeekIsExact
<1>1. IndexInv /\ BufferInv => PeekIsExact
  BY ContentsStored, PeekStored DEF IndexInv, BufferInv, Contents, PeekIsExact
<1> QED
  BY BufferInvariant, <1>1, PTL

-----------------------------------------------------------------------------
(* The message buffer, which MCBuffers has as Message *)

\* What is stored lies in the memory and, in a buffer filled by AddWritePos, ends at
\* the write position.
MessageType ==
  /\ filledBy \in {"Write", "AddWritePos"}
  /\ capacity \in Nat
  /\ buffer \in [1 .. capacity -> Byte]
  /\ readPos \in Nat
  /\ writePos \in Nat
  /\ size \in Nat

StoredWithin == readPos + size <= capacity
StoredToWritePos == filledBy = "AddWritePos" => readPos + size = writePos

MessageInv == MessageType /\ StoredWithin /\ StoredToWritePos

-----------------------------------------------------------------------------

LEMMA PiecesAreSequences == \A s \in Message!Chunks : s \in Seq(Byte) /\ Len(s) \in Nat
BY DEF Message!Chunks

\* Storing in the memory keeps it a memory.
LEMMA StoreInMessage ==
  ASSUME NEW cap \in Nat, NEW mem \in [1 .. cap -> Byte], NEW at \in Nat,
         NEW s \in Seq(Byte), at + Len(s) <= cap
  PROVE  Message!Store(mem, at, s) \in [1 .. cap -> Byte]
<1>1. DOMAIN mem = 1 .. cap
  OBVIOUS
<1>2. \A i \in 1 .. cap : (at < i /\ i <= at + Len(s)) => i - at \in 1 .. Len(s)
  BY SMT
<1>3. \A i \in 1 .. cap :
        (IF at < i /\ i <= at + Len(s) THEN s[i - at] ELSE mem[i]) \in Byte
  BY <1>1, <1>2
<1>4. QED
  BY <1>1, <1>3 DEF Message!Store

\* A piece of the memory.
Within(cap, mem, pos, n) ==
  /\ cap \in Nat /\ mem \in [1 .. cap -> Byte]
  /\ pos \in Nat /\ n \in Nat /\ pos + n <= cap

\* Bytes for which there is room behind it.
Fits(cap, mem, pos, n, s) ==
  Within(cap, mem, pos, n) /\ s \in Seq(Byte) /\ pos + n + Len(s) <= cap

\* Bytes stored behind a piece of the memory prolong it.
Prolonged(mem, pos, n, s) ==
  Message!Piece(Message!Store(mem, pos + n, s), pos, n + Len(s))
    = Message!Piece(mem, pos, n) \o s

LEMMA StoreProlongs ==
  ASSUME NEW cap, NEW mem, NEW pos, NEW n, NEW s, Fits(cap, mem, pos, n, s)
  PROVE  Prolonged(mem, pos, n, s)
<1> USE DEF Fits, Within
<1> DEFINE new == Message!Store(mem, pos + n, s)
<1> DEFINE old == Message!Piece(mem, pos, n)
<1>1. old \in Seq(Byte) /\ Len(old) = n /\ \A i \in 1 .. n : old[i] = mem[pos + i]
  <2>1. \A i \in 1 .. n : pos + i \in 1 .. cap
    BY SMT
  <2>2. old \in [1 .. n -> Byte]
    BY <2>1 DEF Message!Piece
  <2>3. QED
    BY <2>2 DEF Message!Piece
<1>2. \A i \in 1 .. n + Len(s) : pos + i \in 1 .. cap
  BY SMT
<1>3. \A i \in 1 .. n + Len(s) : new[pos + i] = (old \o s)[i]
  <2>1. SUFFICES ASSUME NEW i \in 1 .. n + Len(s) PROVE new[pos + i] = (old \o s)[i]
    OBVIOUS
  <2>2. CASE i <= n
    <3>1. new[pos + i] = mem[pos + i]
      BY <1>2, <2>2 DEF Message!Store
    <3>2. (old \o s)[i] = old[i]
      BY <1>1, <2>2
    <3>3. QED
      BY <1>1, <2>2, <3>1, <3>2
  <2>3. CASE ~(i <= n)
    <3>1. new[pos + i] = s[pos + i - (pos + n)]
      BY <1>2, <2>3 DEF Message!Store
    <3>2. (old \o s)[i] = s[i - n]
      BY <1>1, <2>3
    <3>3. QED
      BY <3>1, <3>2
  <2>4. QED
    BY <2>2, <2>3
<1>4. Message!Piece(new, pos, n + Len(s)) = [i \in 1 .. n + Len(s) |-> (old \o s)[i]]
  BY <1>3 DEF Message!Piece
<1>5. old \o s \in Seq(Byte) /\ Len(old \o s) = n + Len(s)
  <2>1. s \in Seq(Byte) /\ old \in Seq(Byte) /\ Len(old) = n
    BY <1>1
  <2>2. QED
    BY ONLY <2>1, ConcatProperties
<1>6. old \o s = [i \in 1 .. n + Len(s) |-> (old \o s)[i]]
  <2>1. old \o s \in [1 .. n + Len(s) -> Byte]
    BY <1>5, LenProperties
  <2>2. QED
    BY <2>1
<1>7. QED
  BY <1>4, <1>6 DEF Prolonged

\* The beginning of a piece, and what is left of it.
Split(mem, pos, n, k) ==
  /\ Message!Piece(mem, pos, n) \in Seq(Byte)
  /\ Len(Message!Piece(mem, pos, n)) = n
  /\ Message!Piece(mem, pos, k) = SubSeq(Message!Piece(mem, pos, n), 1, k)
  /\ Message!Piece(mem, pos + k, n - k) = SubSeq(Message!Piece(mem, pos, n), k + 1, n)

LEMMA PieceSplits ==
  ASSUME NEW cap, NEW mem, NEW pos, NEW n, Within(cap, mem, pos, n), NEW k \in 0 .. n
  PROVE  Split(mem, pos, n, k)
<1> USE DEF Within
<1> DEFINE old == Message!Piece(mem, pos, n)
<1>1. \A i \in 1 .. n : pos + i \in 1 .. cap
  BY SMT
<1>2. old \in [1 .. n -> Byte] /\ \A i \in 1 .. n : old[i] = mem[pos + i]
  BY <1>1 DEF Message!Piece
<1>3. old \in Seq(Byte) /\ Len(old) = n
  BY <1>2
<1>4. Message!Piece(mem, pos, k) = SubSeq(old, 1, k)
  <2>1. SubSeq(old, 1, k) = [i \in 1 .. k |-> old[i]]
    BY <1>3, SMT
  <2>2. \A i \in 1 .. k : old[i] = mem[pos + i]
    BY <1>2, SMT
  <2>3. QED
    BY <2>1, <2>2 DEF Message!Piece
<1>5. Message!Piece(mem, pos + k, n - k) = SubSeq(old, k + 1, n)
  <2>1. SubSeq(old, k + 1, n) = [i \in 1 .. n - k |-> old[i + k]]
    BY <1>3, SMT
  <2>2. \A i \in 1 .. n - k : old[i + k] = mem[(pos + k) + i]
    BY <1>2, SMT
  <2>3. QED
    BY <2>1, <2>2 DEF Message!Piece
<1>6. QED
  BY <1>3, <1>4, <1>5 DEF Split

-----------------------------------------------------------------------------

\* The invariant holds in a new buffer, and every call keeps it.
LEMMA MessageInvariant == Message!Spec => []MessageInv
<1>1. Message!Init => MessageInv
  BY DEF Message!Init, MessageInv, MessageType, StoredWithin, StoredToWritePos
<1>2. MessageInv /\ [Message!Next]_Message!vars => MessageInv'
  <2> SUFFICES ASSUME MessageInv, [Message!Next]_Message!vars PROVE MessageInv'
    OBVIOUS
  <2> USE DEF MessageInv, MessageType, StoredWithin, StoredToWritePos
  <2>1. ASSUME NEW s \in Message!Chunks, Message!AddWritePos(s) PROVE MessageInv'
    <3>1. s \in Seq(Byte) /\ Len(s) \in Nat
      BY PiecesAreSequences
    <3>2. writePos + Len(s) <= capacity
      BY <2>1, <3>1 DEF Message!AddWritePos
    <3>3. Message!Store(buffer, writePos, s) \in [1 .. capacity -> Byte]
      BY <3>1, <3>2, StoreInMessage
    <3>4. QED
      BY <2>1, <3>1, <3>2, <3>3 DEF Message!AddWritePos
  <2>2. ASSUME NEW s \in Message!Chunks, Message!Write(s) PROVE MessageInv'
    <3>1. s \in Seq(Byte) /\ Len(s) \in Nat
      BY PiecesAreSequences
    <3>2. Len(s) <= capacity
      BY <2>2, <3>1 DEF Message!Write
    <3>3. \A mem \in [1 .. capacity -> Byte] :
            Message!Store(mem, 0, s) \in [1 .. capacity -> Byte]
      BY <3>1, <3>2, StoreInMessage
    <3>p. Within(capacity, buffer, 0, 0) /\ 0 \in 0 .. 0
      BY DEF Within
    <3>s. Split(buffer, 0, 0, 0)
      BY ONLY <3>p, PieceSplits
    <3>4. Message!Piece(buffer, 0, 0) \in Seq(Byte) /\ Len(Message!Piece(buffer, 0, 0)) = 0
      BY ONLY <3>s DEF Split
    <3>5. Message!Store(buffer, 0, Message!Piece(buffer, 0, 0)) \in [1 .. capacity -> Byte]
      BY <3>4, StoreInMessage
    <3>6. /\ writePos = 0 /\ size = 0
          /\ buffer' \in {Message!Store(buffer, 0, s),
                          Message!Store(Message!Store(buffer, 0, Message!Piece(buffer, 0, 0)),
                                        0, s)}
      BY <2>2 DEF Message!Write, Message!AtFront, Message!Behind
    <3>7. buffer' \in [1 .. capacity -> Byte]
      BY <3>3, <3>5, <3>6
    <3>8. /\ filledBy = "Write" /\ UNCHANGED <<filledBy, capacity>>
          /\ readPos' = 0 /\ size' = Len(s) /\ writePos' \in {0, Len(s)}
      BY <2>2, <3>1 DEF Message!Write, Message!AtFront, Message!Behind
    <3>9. QED
      BY <3>1, <3>2, <3>7, <3>8
  <2>3. ASSUME NEW n \in 0 .. size, Message!Read(n) PROVE MessageInv'
    BY <2>3 DEF Message!Read
  <2>4. CASE UNCHANGED Message!vars
    BY <2>4 DEF Message!vars
  <2>5. QED
    BY <2>1, <2>2, <2>3, <2>4 DEF Message!Next
<1>3. QED
  BY <1>1, <1>2, PTL DEF Message!Spec

\* A DrainableBuffer of any size, filled either way with pieces of any length, gives back
\* the bytes that were put in, once and in order: it refines ByteQueue.
THEOREM MessageImplementsQueue == Message!Spec => MessageImplementsByteQueue
<1>1. Message!Init => Message!Bytes!Init
  <2>1. Message!Piece(buffer, 0, 0) = <<>>
    BY DEF Message!Piece
  <2>2. QED
    BY <2>1 DEF Message!Init, Message!Bytes!Init
<1>2. MessageInv /\ [Message!Next]_Message!vars
        => [Message!Bytes!Next]_<<Message!Piece(buffer, readPos, size), taken>>
  <2> SUFFICES ASSUME MessageInv, [Message!Next]_Message!vars
               PROVE  [Message!Bytes!Next]_<<Message!Piece(buffer, readPos, size), taken>>
    OBVIOUS
  <2> USE DEF MessageInv, MessageType, StoredWithin, StoredToWritePos
  <2> DEFINE queue == Message!Piece(buffer, readPos, size)
  <2>s. ASSUME NEW n \in 0 .. size PROVE Split(buffer, readPos, size, n)
    <3>1. Within(capacity, buffer, readPos, size)
      BY DEF Within
    <3>2. QED
      BY ONLY <3>1, <2>s, PieceSplits
  <2>0. Len(queue) = size
    <3>1. Split(buffer, readPos, size, 0)
      BY <2>s
    <3>2. QED
      BY ONLY <3>1 DEF Split
  <2>1. ASSUME NEW s \in Message!Chunks, Message!AddWritePos(s) PROVE Message!Bytes!Put(s)
    <3>1. s \in Seq(Byte) /\ Len(s) \in Nat
      BY PiecesAreSequences
    <3>2. readPos + size = writePos /\ readPos + size + Len(s) <= capacity
      BY <2>1, <3>1 DEF Message!AddWritePos
    <3>3. Message!Piece(Message!Store(buffer, readPos + size, s), readPos, size + Len(s))
            = queue \o s
      <4>1. Fits(capacity, buffer, readPos, size, s)
        BY <3>1, <3>2 DEF Fits, Within
      <4>2. Prolonged(buffer, readPos, size, s)
        BY ONLY <4>1, StoreProlongs
      <4>3. QED
        BY ONLY <4>2 DEF Prolonged
    <3>4. QED
      BY <2>1, <3>2, <3>3 DEF Message!AddWritePos, Message!Bytes!Put
  <2>2. ASSUME NEW s \in Message!Chunks, Message!Write(s) PROVE Message!Bytes!Put(s)
    <3>1. s \in Seq(Byte) /\ Len(s) \in Nat
      BY PiecesAreSequences
    <3>2. Len(s) <= capacity
      BY <2>2, <3>1 DEF Message!Write
    <3>p. Within(capacity, buffer, 0, 0) /\ 0 \in 0 .. 0
      BY DEF Within
    <3>s. Split(buffer, 0, 0, 0)
      BY ONLY <3>p, PieceSplits
    <3>3. Message!Piece(buffer, 0, 0) \in Seq(Byte) /\ Len(Message!Piece(buffer, 0, 0)) = 0
      BY ONLY <3>s DEF Split
    <3>4. Message!Store(buffer, 0, Message!Piece(buffer, 0, 0)) \in [1 .. capacity -> Byte]
      BY <3>3, StoreInMessage
    <3>5. \A mem \in [1 .. capacity -> Byte] :
            Message!Piece(Message!Store(mem, 0, s), 0, Len(s)) = Message!Piece(mem, 0, 0) \o s
      <4>1. ASSUME NEW mem \in [1 .. capacity -> Byte]
            PROVE  Message!Piece(Message!Store(mem, 0 + 0, s), 0, 0 + Len(s))
                     = Message!Piece(mem, 0, 0) \o s
        <5>1. Fits(capacity, mem, 0, 0, s)
          BY <3>1, <3>2 DEF Fits, Within
        <5>2. Prolonged(mem, 0, 0, s)
          BY ONLY <5>1, StoreProlongs
        <5>3. QED
          BY ONLY <5>2 DEF Prolonged
      <4>2. QED
        BY <3>1, <4>1
    <3>6. \A mem : Message!Piece(mem, 0, 0) = <<>>
      BY DEF Message!Piece
    <3>7. /\ writePos = 0 /\ size = 0 /\ readPos = 0
          /\ buffer' \in {Message!Store(buffer, 0, s),
                          Message!Store(Message!Store(buffer, 0, Message!Piece(buffer, 0, 0)),
                                        0, s)}
          /\ readPos' = 0 /\ size' = Len(s) /\ taken' = s
      BY <2>2, <3>1 DEF Message!Write, Message!AtFront, Message!Behind
    <3>8. Message!Piece(buffer', 0, Len(s)) = <<>> \o s
      BY <3>4, <3>5, <3>6, <3>7
    <3>9. QED
      BY <3>6, <3>7, <3>8 DEF Message!Bytes!Put
  <2>3. ASSUME NEW n \in 0 .. size, Message!Read(n) PROVE Message!Bytes!Take(n)
    <3>1. /\ Message!Piece(buffer, readPos, n) = SubSeq(queue, 1, n)
          /\ Message!Piece(buffer, readPos + n, size - n) = SubSeq(queue, n + 1, size)
      <4>1. Split(buffer, readPos, size, n)
        BY <2>s
      <4>2. QED
        BY ONLY <4>1 DEF Split
    <3>2. /\ taken' = Message!Piece(buffer, readPos, n)
          /\ buffer' = buffer /\ readPos' = readPos + n /\ size' = size - n
      <4>1. ~(n + 0 > size) /\ readPos + 0 = readPos
        OBVIOUS
      <4>2. QED
        BY <2>3, <4>1 DEF Message!Read, Message!Peek
    <3>3. QED
      BY <2>0, <3>1, <3>2 DEF Message!Bytes!Take
  <2>4. CASE UNCHANGED Message!vars
    BY <2>4 DEF Message!vars
  <2>5. QED
    BY <2>0, <2>1, <2>2, <2>3, <2>4 DEF Message!Next, Message!Bytes!Next
<1>3. QED
  BY <1>1, <1>2, MessageInvariant, PTL
     DEF Message!Spec, Message!ImplementsByteQueue, Message!Bytes!Spec,
         MessageImplementsByteQueue
=============================================================================
