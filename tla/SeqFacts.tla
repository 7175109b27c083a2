------------------------------ MODULE SeqFacts ------------------------------
(***************************************************************************)
(* Lemmas about queues written as sequences, used by the proof modules:    *)
(* a queue split into a private batch and a shared tail (MessageLoop's     *)
(* workQueue_ and incomingQueue_), the set of a queue's elements, the      *)
(* front of a queue moved elsewhere, queues without repetition.            *)
(***************************************************************************)
EXTENDS SequenceTheorems, WellFoundedInduction, TLAPS

\* Taking from a non-empty batch takes from the whole queue: what InjectWorkQueue's
\* swap relies on.
LEMMA ConcatTakesFromFirst ==
  ASSUME NEW S, NEW w \in Seq(S), NEW q \in Seq(S), w # <<>>
  PROVE  /\ w \o q # <<>>
         /\ Head(w \o q) = Head(w)
         /\ Tail(w \o q) = Tail(w) \o q
<1>1. Len(w) \in Nat \ {0} /\ Len(q) \in Nat
  BY EmptySeq, LenProperties
<1>2. /\ w \o q \in Seq(S)
      /\ Len(w \o q) = Len(w) + Len(q)
      /\ \A i \in 1 .. Len(w) + Len(q) :
           (w \o q)[i] = IF i <= Len(w) THEN w[i] ELSE q[i - Len(w)]
  BY ConcatProperties
<1>3. w \o q # <<>>
  BY <1>1, <1>2, EmptySeq
<1>4. Head(w \o q) = Head(w)
  BY <1>1, <1>2
<1>5. /\ Tail(w) \in Seq(S)
      /\ Len(Tail(w)) = Len(w) - 1
      /\ \A i \in 1 .. Len(Tail(w)) : Tail(w)[i] = w[i + 1]
  BY HeadTailProperties
<1>6. /\ Tail(w \o q) \in Seq(S)
      /\ Len(Tail(w \o q)) = Len(w \o q) - 1
      /\ \A i \in 1 .. Len(Tail(w \o q)) : Tail(w \o q)[i] = (w \o q)[i + 1]
  BY <1>2, <1>3, HeadTailProperties
<1>7. /\ Tail(w) \o q \in Seq(S)
      /\ Len(Tail(w) \o q) = Len(Tail(w)) + Len(q)
      /\ \A i \in 1 .. Len(Tail(w)) + Len(q) :
           (Tail(w) \o q)[i] =
             IF i <= Len(Tail(w)) THEN Tail(w)[i] ELSE q[i - Len(Tail(w))]
  BY <1>5, ConcatProperties
<1>8. Len(Tail(w \o q)) = Len(Tail(w) \o q)
  BY <1>1, <1>2, <1>5, <1>6, <1>7
<1>9. ASSUME NEW i \in 1 .. Len(Tail(w \o q))
      PROVE  Tail(w \o q)[i] = (Tail(w) \o q)[i]
  <2>1. Tail(w \o q)[i] = (w \o q)[i + 1] /\ i + 1 \in 1 .. Len(w) + Len(q)
    BY <1>1, <1>2, <1>6
  <2>2. CASE i <= Len(w) - 1
    BY <1>1, <1>2, <1>5, <1>7, <2>1, <2>2
  <2>3. CASE ~(i <= Len(w) - 1)
    BY <1>1, <1>2, <1>5, <1>7, <2>1, <2>3
  <2> QED
    BY <2>2, <2>3
<1>10. Tail(w \o q) = Tail(w) \o q
  BY <1>6, <1>7, <1>8, <1>9, SeqEqual
<1> QED
  BY <1>3, <1>4, <1>10

\* Appending to the shared tail appends to the whole queue.
LEMMA ConcatAppendsToSecond ==
  ASSUME NEW S, NEW w \in Seq(S), NEW q \in Seq(S), NEW e \in S
  PROVE  w \o Append(q, e) = Append(w \o q, e)
<1>1. w \o q \in Seq(S) /\ <<e>> \in Seq(S)
  BY ConcatProperties
<1>2. w \o Append(q, e) = w \o (q \o <<e>>)
  BY AppendIsConcat
<1>3. Append(w \o q, e) = (w \o q) \o <<e>>
  BY <1>1, AppendIsConcat
<1> QED
  BY <1>1, <1>2, <1>3, ConcatAssociative

\* An empty queue has no elements.
LEMMA ElementsOfEmpty == Range(<<>>) = {}
<1>1. <<>> \in Seq({}) /\ Len(<<>>) = 0
  BY EmptySeq
<1>2. Range(<<>>) = {<<>>[i] : i \in 1 .. 0}
  BY <1>1, RangeEquality
<1> QED
  BY <1>2

\* The elements of a queue after an append.
LEMMA ElementsOfAppend ==
  ASSUME NEW S, NEW s \in Seq(S), NEW e \in S
  PROVE  Range(Append(s, e)) = Range(s) \union {e}
<1>1. /\ Append(s, e) \in Seq(S)
      /\ Len(Append(s, e)) = Len(s) + 1
      /\ \A i \in 1 .. Len(s) : Append(s, e)[i] = s[i]
      /\ Append(s, e)[Len(s) + 1] = e
  BY AppendProperties
<1>2. Len(s) \in Nat
  BY LenProperties
<1>3. Range(s) = {s[i] : i \in 1 .. Len(s)}
  BY RangeEquality
<1>4. Range(Append(s, e)) = {Append(s, e)[i] : i \in 1 .. Len(s) + 1}
  BY <1>1, RangeEquality
<1> QED
  BY <1>1, <1>2, <1>3, <1>4

-----------------------------------------------------------------------------
(* Parts of a sequence, and sequences of consecutive numbers *)

\* The first k elements of a sequence and the next l are the first k + l. In this and the
\* next lemmas hypothesis and conclusion are one predicate each, for the provers to match.
AreParts(S, s, k, l) == s \in Seq(S) /\ k \in 0 .. Len(s) /\ l \in 0 .. Len(s) - k
PartsJoin(S, s, k, l) ==
  /\ SubSeq(s, 1, k) \in Seq(S)
  /\ SubSeq(s, k + 1, k + l) \in Seq(S)
  /\ SubSeq(s, 1, k) \o SubSeq(s, k + 1, k + l) = SubSeq(s, 1, k + l)

LEMMA ConcatParts ==
  ASSUME NEW S, NEW s, NEW k, NEW l, AreParts(S, s, k, l)
  PROVE  PartsJoin(S, s, k, l)
<1>0. s \in Seq(S) /\ k \in 0 .. Len(s) /\ l \in 0 .. Len(s) - k
  BY DEF AreParts
<1>1. Len(s) \in Nat
  BY <1>0, LenProperties
<1>2. /\ k \in Int /\ k + 1 \in Int /\ k + l \in Int /\ 1 \in Int
      /\ \A i \in 1 .. k : i \in 1 .. Len(s)
      /\ \A i \in k + 1 .. k + l : i \in 1 .. Len(s)
      /\ 1 \in 1 .. Len(s) + 1 /\ k \in 1 - 1 .. Len(s) /\ k + l \in k .. Len(s)
  BY <1>0, <1>1
<1>3. /\ \A i \in 1 .. k : s[i] \in S
      /\ \A i \in k + 1 .. k + l : s[i] \in S
  BY ONLY <1>0, <1>2, ElementOfSeq
<1>4. SubSeq(s, 1, k) \in Seq(S)
  BY ONLY <1>2, <1>3, SubSeqProperties
<1>5. SubSeq(s, k + 1, k + l) \in Seq(S)
  BY ONLY <1>2, <1>3, SubSeqProperties
<1>6. SubSeq(s, 1, k) \o SubSeq(s, k + 1, k + l) = SubSeq(s, 1, k + l)
  BY ONLY <1>0, <1>2, ConcatAdjacentSubSeq
<1> QED
  BY <1>4, <1>5, <1>6 DEF PartsJoin

\* The two parts of a sequence.
LEMMA TwoParts ==
  ASSUME NEW S, NEW s \in Seq(S), NEW k \in 0 .. Len(s)
  PROVE  /\ SubSeq(s, 1, k) \in Seq(S)
         /\ SubSeq(s, k + 1, Len(s)) \in Seq(S)
         /\ SubSeq(s, 1, k) \o SubSeq(s, k + 1, Len(s)) = s
         /\ k = 0 => SubSeq(s, 1, k) = <<>>
         /\ k = Len(s) => SubSeq(s, k + 1, Len(s)) = <<>>
<1>1. Len(s) \in Nat /\ 1 \in Int /\ 0 \in Int
  BY LenProperties
<1>2. PICK l \in 0 .. Len(s) - k : k + l = Len(s)
  BY <1>1
<1>p. AreParts(S, s, k, l)
  BY DEF AreParts
<1>3. /\ SubSeq(s, 1, k) \in Seq(S)
      /\ SubSeq(s, k + 1, k + l) \in Seq(S)
      /\ SubSeq(s, 1, k) \o SubSeq(s, k + 1, k + l) = SubSeq(s, 1, k + l)
  <2>1. PartsJoin(S, s, k, l)
    BY ONLY <1>p, ConcatParts
  <2> QED
    BY <2>1 DEF PartsJoin
<1>4. SubSeq(s, 1, Len(s)) = s
  BY SubSeqFull
<1>5. 0 < 1 => SubSeq(s, 1, 0) = <<>>
  BY ONLY <1>1, SubSeqEmpty
<1>6. Len(s) < Len(s) + 1 /\ Len(s) + 1 \in Int /\ Len(s) \in Int /\ 0 < 1
  BY <1>1
<1>7. SubSeq(s, Len(s) + 1, Len(s)) = <<>>
  BY ONLY <1>6, SubSeqEmpty
<1> QED
  BY <1>2, <1>3, <1>4, <1>5, <1>6, <1>7

\* A part of no elements is the same wherever it is taken.
LEMMA EmptyPart ==
  ASSUME NEW s, NEW k \in Nat, NEW j \in Nat
  PROVE  SubSeq(s, j + 1, j + 0) = SubSeq(s, k + 1, k + 0)
<1>1. ASSUME NEW m \in Nat
      PROVE  SubSeq(s, m + 1, m + 0) = <<>>
  <2>1. m + 1 \in Int /\ m + 0 \in Int /\ m + 0 < m + 1
    OBVIOUS
  <2> QED
    BY ONLY <2>1, SubSeqEmpty
<1> QED
  BY <1>1

\* Concatenation is associative.
AreSeqs(S, a, b, c) == a \in Seq(S) /\ b \in Seq(S) /\ c \in Seq(S)
Associates(a, b, c) == (a \o b) \o c = a \o (b \o c)

LEMMA Associative ==
  ASSUME NEW S, NEW a, NEW b, NEW c, AreSeqs(S, a, b, c)
  PROVE  Associates(a, b, c)
BY ConcatAssociative DEF AreSeqs, Associates

\* The front of a queue moved behind another sequence.
HasFront(S, w, s, k) == w \in Seq(S) /\ s \in Seq(S) /\ k \in 0 .. Len(s)
FrontMoved(S, w, s, k) ==
  /\ w \o SubSeq(s, 1, k) \in Seq(S)
  /\ (w \o SubSeq(s, 1, k)) \o SubSeq(s, k + 1, Len(s)) = w \o s

LEMMA MoveFront ==
  ASSUME NEW S, NEW w, NEW s, NEW k, HasFront(S, w, s, k)
  PROVE  FrontMoved(S, w, s, k)
<1> DEFINE one == SubSeq(s, 1, k)
           two == SubSeq(s, k + 1, Len(s))
<1>0. w \in Seq(S) /\ s \in Seq(S) /\ k \in 0 .. Len(s)
  BY DEF HasFront
<1>1. one \in Seq(S) /\ two \in Seq(S) /\ one \o two = s
  BY <1>0, TwoParts
<1> HIDE DEF one, two
<1>2. w \o one \in Seq(S)
  BY <1>0, <1>1, ConcatProperties
<1>s. AreSeqs(S, w, one, two)
  BY <1>0, <1>1 DEF AreSeqs
<1>3. Associates(w, one, two)
  BY ONLY <1>s, Associative
<1>4. (w \o one) \o two = w \o s
  BY <1>1, <1>3 DEF Associates
<1> QED
  BY <1>2, <1>4 DEF one, two, FrontMoved

\* An empty sequence may change places with its neighbour.
EmptyMoves(w, s, two) == (w \o <<>>) \o (s \o two) = (w \o s) \o (<<>> \o two)

LEMMA EmptyBetween ==
  ASSUME NEW S, NEW w, NEW s, NEW two, AreSeqs(S, w, s, two)
  PROVE  EmptyMoves(w, s, two)
<1>1. <<>> \o two = two /\ w \o <<>> = w
  BY ConcatEmptySeq DEF AreSeqs
<1>2. Associates(w, s, two)
  BY ONLY AreSeqs(S, w, s, two), Associative
<1> QED
  BY <1>1, <1>2 DEF EmptyMoves, Associates

\* The numbers from 1 on, so many of them.
FirstNumbers(n) == [i \in 1 .. n |-> i]

LEMMA NumbersAreSeq ==
  ASSUME NEW a \in Nat, NEW n \in Nat
  PROVE  /\ [i \in 1 .. n |-> a + i] \in Seq(Nat)
         /\ Len([i \in 1 .. n |-> a + i]) = n
         /\ \A i \in 1 .. n : [j \in 1 .. n |-> a + j][i] = a + i
<1>1. [i \in 1 .. n |-> a + i] \in [1 .. n -> Nat]
  OBVIOUS
<1>2. [i \in 1 .. n |-> a + i] \in Seq(Nat)
  BY <1>1, SeqDef
<1>3. Len([i \in 1 .. n |-> a + i]) = n
  OBVIOUS
<1> QED
  BY <1>2, <1>3

LEMMA FirstNumbersAreSeq ==
  ASSUME NEW n \in Nat
  PROVE  /\ FirstNumbers(n) \in Seq(Nat)
         /\ Len(FirstNumbers(n)) = n
         /\ \A i \in 1 .. n : FirstNumbers(n)[i] = i
<1>1. FirstNumbers(n) \in [1 .. n -> Nat]
  BY DEF FirstNumbers
<1>2. FirstNumbers(n) \in Seq(Nat)
  BY <1>1, SeqDef
<1>3. Len(FirstNumbers(n)) = n
  BY DEF FirstNumbers
<1> QED
  BY <1>2, <1>3 DEF FirstNumbers

\* The next n numbers continue the first a of them.
LEMMA NextNumbers ==
  ASSUME NEW a \in Nat, NEW n \in Nat
  PROVE  FirstNumbers(a) \o [i \in 1 .. n |-> a + i] = FirstNumbers(a + n)
<1> DEFINE next == [i \in 1 .. n |-> a + i]
           all == FirstNumbers(a) \o next
<1>1. next \in Seq(Nat) /\ Len(next) = n /\ \A i \in 1 .. n : next[i] = a + i
  BY ONLY a \in Nat, n \in Nat, NumbersAreSeq
<1>2. a + n \in Nat
  OBVIOUS
<1> HIDE DEF next
<1>3. /\ all \in Seq(Nat) /\ Len(all) = a + n
      /\ \A i \in 1 .. a + n : all[i] = IF i <= a THEN FirstNumbers(a)[i] ELSE next[i - a]
  <2>1. /\ all \in Seq(Nat) /\ Len(all) = Len(FirstNumbers(a)) + Len(next)
        /\ \A i \in 1 .. Len(FirstNumbers(a)) + Len(next) :
             all[i] = IF i <= Len(FirstNumbers(a)) THEN FirstNumbers(a)[i]
                      ELSE next[i - Len(FirstNumbers(a))]
    <3>1. FirstNumbers(a) \in Seq(Nat) /\ next \in Seq(Nat)
      BY <1>1, FirstNumbersAreSeq
    <3> QED
      BY ONLY <3>1, ConcatProperties
  <2> QED
    BY ONLY <1>1, <2>1, a \in Nat, FirstNumbersAreSeq
<1> HIDE DEF all
<1>4. ASSUME NEW i \in 1 .. a + n
      PROVE  all[i] = i
  <2>1. CASE i <= a
    <3>1. i \in 1 .. a
      BY <2>1
    <3> QED
      BY <1>3, <2>1, <3>1, FirstNumbersAreSeq
  <2>2. CASE ~(i <= a)
    <3>1. i - a \in 1 .. n /\ a + (i - a) = i
      BY <2>2
    <3> QED
      BY <1>1, <1>3, <2>2, <3>1
  <2> QED
    BY <2>1, <2>2
<1>5. all = FirstNumbers(a + n)
  <2>1. /\ FirstNumbers(a + n) \in Seq(Nat) /\ Len(FirstNumbers(a + n)) = a + n
        /\ \A i \in 1 .. a + n : FirstNumbers(a + n)[i] = i
    BY <1>2, FirstNumbersAreSeq
  <2>2. \A i \in 1 .. Len(all) : all[i] = FirstNumbers(a + n)[i]
    BY <1>3, <1>4, <2>1
  <2> QED
    BY ONLY <1>3, <2>1, <2>2, SeqEqual
<1> QED
  BY <1>5 DEF all, next

-----------------------------------------------------------------------------
(* Queues without repetition, and queues of increasing numbers *)

Holds(s, e) == \E i \in 1 .. Len(s) : s[i] = e

Distinct(s) == \A i, j \in 1 .. Len(s) : s[i] = s[j] => i = j

AtMost(s, n) == \A i \in 1 .. Len(s) : s[i] <= n

\* A queue that gets an element it does not hold.
LEMMA AppendDistinct ==
  ASSUME NEW S, NEW s \in Seq(S), NEW e \in S
  PROVE  /\ Append(s, e) \in Seq(S)
         /\ \A x : Holds(Append(s, e), x) <=> Holds(s, x) \/ x = e
         /\ Distinct(s) /\ ~Holds(s, e) => Distinct(Append(s, e))
<1>1. /\ Append(s, e) \in Seq(S)
      /\ Len(Append(s, e)) = Len(s) + 1
      /\ \A i \in 1 .. Len(s) : Append(s, e)[i] = s[i]
      /\ Append(s, e)[Len(s) + 1] = e
  BY AppendProperties
<1>2. Len(s) \in Nat
  BY LenProperties
<1> DEFINE t == Append(s, e)
<1> HIDE DEF t
<1>3. /\ Len(t) = Len(s) + 1 /\ t[Len(s) + 1] = e
      /\ \A i \in 1 .. Len(s) : t[i] = s[i]
  BY <1>1 DEF t
<1>4. \A i \in 1 .. Len(t) : i \in 1 .. Len(s) \/ i = Len(s) + 1
  BY <1>2, <1>3
<1>5. Len(s) + 1 \in 1 .. Len(t) /\ \A i \in 1 .. Len(s) : i \in 1 .. Len(t)
  BY <1>2, <1>3
<1>6. ASSUME NEW x
      PROVE  Holds(t, x) <=> Holds(s, x) \/ x = e
  <2>1. ASSUME Holds(t, x) PROVE Holds(s, x) \/ x = e
    BY <1>3, <1>4, <2>1 DEF Holds
  <2>2. ASSUME Holds(s, x) \/ x = e PROVE Holds(t, x)
    BY <1>3, <1>5, <2>2 DEF Holds
  <2> QED
    BY <2>1, <2>2
<1>7. ASSUME Distinct(s), ~Holds(s, e)
      PROVE  Distinct(t)
  BY <1>3, <1>4, <1>7 DEF Holds, Distinct
<1> QED
  BY <1>1, <1>6, <1>7 DEF t

\* The head of a queue without repetition is not in the rest.
LEMMA TailDistinct ==
  ASSUME NEW S, NEW s \in Seq(S), s # <<>>, Distinct(s)
  PROVE  /\ Tail(s) \in Seq(S) /\ Head(s) \in S /\ Holds(s, Head(s))
         /\ Distinct(Tail(s))
         /\ \A x : Holds(Tail(s), x) <=> Holds(s, x) /\ x # Head(s)
<1>1. /\ Head(s) \in S /\ Tail(s) \in Seq(S)
      /\ Len(Tail(s)) = Len(s) - 1
      /\ \A i \in 1 .. Len(Tail(s)) : Tail(s)[i] = s[i + 1]
  BY HeadTailProperties
<1>2. Len(s) \in Nat \ {0}
  BY EmptySeq
<1>h. Head(s) = s[1]
  BY <1>2
<1> DEFINE t == Tail(s)
<1> HIDE DEF t
<1>3. Len(t) = Len(s) - 1 /\ \A i \in 1 .. Len(t) : t[i] = s[i + 1]
  BY <1>1 DEF t
<1>4. \A i \in 1 .. Len(t) : i + 1 \in 1 .. Len(s) /\ i + 1 # 1
  BY <1>2, <1>3
<1>5. 1 \in 1 .. Len(s) /\ \A i \in 1 .. Len(s) : i # 1 => i - 1 \in 1 .. Len(t) /\ (i - 1) + 1 = i
  BY <1>2, <1>3
<1>6. Distinct(t)
  <2>1. ASSUME NEW i \in 1 .. Len(t), NEW j \in 1 .. Len(t), t[i] = t[j]
        PROVE  i = j
    <3>1. i + 1 = j + 1
      BY <1>3, <1>4, <2>1 DEF Distinct
    <3> QED
      BY <3>1
  <2> QED
    BY <2>1 DEF Distinct
<1>7. ASSUME NEW x
      PROVE  Holds(t, x) <=> Holds(s, x) /\ x # s[1]
  <2>1. ASSUME Holds(t, x) PROVE Holds(s, x) /\ x # s[1]
    <3>1. PICK i \in 1 .. Len(t) : t[i] = x
      BY <2>1 DEF Holds
    <3>2. s[i + 1] = x /\ i + 1 \in 1 .. Len(s) /\ i + 1 # 1
      BY <1>3, <1>4, <3>1
    <3> QED
      BY <1>5, <3>2 DEF Holds, Distinct
  <2>2. ASSUME Holds(s, x), x # s[1] PROVE Holds(t, x)
    <3>1. PICK i \in 1 .. Len(s) : s[i] = x
      BY <2>2 DEF Holds
    <3>2. i - 1 \in 1 .. Len(t) /\ t[i - 1] = s[(i - 1) + 1] /\ (i - 1) + 1 = i
      BY <1>3, <1>5, <2>2, <3>1
    <3> QED
      BY <3>1, <3>2 DEF Holds
  <2> QED
    BY <2>1, <2>2
<1>8. Holds(s, s[1])
  BY <1>5 DEF Holds
<1> QED
  BY <1>1, <1>h, <1>6, <1>7, <1>8 DEF t

\* A number above all others keeps a queue increasing.
LEMMA AppendIncreasing ==
  ASSUME NEW s \in Seq(Nat), NEW n \in Nat, NEW m \in Int, AtMost(s, m), m < n,
         \A i \in 1 .. Len(s) - 1 : s[i] < s[i + 1]
  PROVE  /\ Append(s, n) \in Seq(Nat)
         /\ AtMost(Append(s, n), n)
         /\ \A i \in 1 .. Len(Append(s, n)) - 1 : Append(s, n)[i] < Append(s, n)[i + 1]
<1>1. /\ Append(s, n) \in Seq(Nat)
      /\ Len(Append(s, n)) = Len(s) + 1
      /\ \A i \in 1 .. Len(s) : Append(s, n)[i] = s[i]
      /\ Append(s, n)[Len(s) + 1] = n
  BY AppendProperties
<1>2. Len(s) \in Nat /\ \A i \in 1 .. Len(s) : s[i] \in Nat
  BY LenProperties, ElementOfSeq
<1> DEFINE t == Append(s, n)
<1> HIDE DEF t
<1>3. /\ Len(t) = Len(s) + 1 /\ t[Len(s) + 1] = n
      /\ \A i \in 1 .. Len(s) : t[i] = s[i]
  BY <1>1 DEF t
<1>4. \A i \in 1 .. Len(s) : s[i] < n
  BY <1>2 DEF AtMost
<1>5. AtMost(t, n)
  BY <1>2, <1>3, <1>4 DEF AtMost
<1>6. ASSUME NEW i \in 1 .. Len(t) - 1
      PROVE  t[i] < t[i + 1]
  <2>1. CASE i = Len(s)
    BY <1>2, <1>3, <1>4, <2>1
  <2>2. CASE i # Len(s)
    <3>1. i \in 1 .. Len(s) - 1 /\ i \in 1 .. Len(s) /\ i + 1 \in 1 .. Len(s)
      BY <1>2, <1>3, <2>2
    <3> QED
      BY <1>3, <3>1
  <2> QED
    BY <2>1, <2>2
<1> QED
  BY <1>1, <1>5, <1>6 DEF t
-----------------------------------------------------------------------------
(* Induction, as a fact about sets of numbers: what the sequences below one *)
(* number grow by.                                                          *)

Less == {p \in Nat \X Nat : p[1] < p[2]}

LEMMA LessIsWellFounded == IsWellFoundedOn(Less, Nat)
BY NatLessThanWellFounded DEF OpToRel, Less

LEMMA SetInduction ==
  ASSUME NEW T, T \subseteq Nat, 0 \in T, \A n \in T : n + 1 \in T
  PROVE  T = Nat
<1> DEFINE B == Nat \ T
<1> SUFFICES ASSUME B # {}
             PROVE  FALSE
  OBVIOUS
<1>1. PICK x \in B : \A y \in B : ~ (<<y, x>> \in Less)
  <2> HIDE DEF B
  <2>1. B \subseteq Nat
    BY DEF B
  <2> QED
    BY ONLY LessIsWellFounded, WFMin, B # {}, <2>1
<1>2. x # 0 /\ x \in Nat /\ x - 1 \in Nat /\ x - 1 < x
  OBVIOUS
<1>3. x - 1 \notin B
  BY <1>1, <1>2 DEF Less
<1>4. x - 1 \in T
  BY <1>2, <1>3
<1>5. (x - 1) + 1 \in T
  BY <1>4
<1> QED
  BY <1>2, <1>5
-----------------------------------------------------------------------------
(* Pieces of what lies in one long sequence. *)

\* s, of elements of S, is what lies in h behind place x up to place y.
LiesIn(S, s, h, x, y) ==
  /\ s \in Seq(S) /\ x \in Nat /\ y \in Nat
  /\ Len(s) = y - x
  /\ \A i \in 1 .. Len(s) : s[i] = h[x + i]

LEMMA PiecesJoin ==
  ASSUME NEW S, NEW s, NEW t, NEW h, NEW x, NEW y, NEW z,
         LiesIn(S, s, h, x, y), LiesIn(S, t, h, y, z)
  PROVE  LiesIn(S, s \o t, h, x, z)
<1>1. PICK w : w = s \o t
  OBVIOUS
<1>2. PICK k : k = Len(s)
  OBVIOUS
<1>3. PICK l : l = Len(t)
  OBVIOUS
<1>4. s \in Seq(S) /\ t \in Seq(S)
  BY DEF LiesIn
<1>5. /\ w \in Seq(S) /\ Len(w) = k + l
      /\ \A i \in 1 .. k + l : w[i] = IF i <= k THEN s[i] ELSE t[i - k]
  BY ONLY <1>1, <1>2, <1>3, <1>4, ConcatProperties
<1>6. /\ x \in Nat /\ y \in Nat /\ z \in Nat /\ k \in Nat /\ l \in Nat
      /\ k = y - x /\ l = z - y
      /\ \A i \in 1 .. k : s[i] = h[x + i]
      /\ \A i \in 1 .. l : t[i] = h[y + i]
  BY <1>2, <1>3 DEF LiesIn
<1>7. k + l = z - x
  BY ONLY <1>6
<1>8. ASSUME NEW i \in 1 .. k + l
      PROVE  w[i] = h[x + i]
  <2>1. CASE i <= k
    <3>1. i \in 1 .. k
      BY ONLY <1>6, <2>1, i \in 1 .. k + l
    <3> QED
      BY ONLY <1>5, <1>6, <2>1, <3>1, i \in 1 .. k + l
  <2>2. CASE ~ (i <= k)
    <3>1. PICK j : j = i - k
      OBVIOUS
    <3>2. j \in 1 .. l /\ y + j = x + i
      BY ONLY <1>6, <2>2, <3>1, i \in 1 .. k + l
    <3>3. w[i] = t[j] /\ t[j] = h[y + j]
      BY ONLY <1>5, <1>6, <2>2, <3>1, <3>2, i \in 1 .. k + l
    <3> QED
      BY ONLY <3>2, <3>3
  <2> QED
    BY <2>1, <2>2
<1> QED
  BY ONLY <1>1, <1>5, <1>6, <1>7, <1>8 DEF LiesIn

LEMMA PieceSplits ==
  ASSUME NEW S, NEW s, NEW h, NEW x, NEW y, LiesIn(S, s, h, x, y), NEW k \in 0 .. Len(s)
  PROVE  /\ LiesIn(S, SubSeq(s, 1, k), h, x, x + k)
         /\ LiesIn(S, SubSeq(s, k + 1, Len(s)), h, x + k, y)
<1>1. PICK l : l = Len(s)
  OBVIOUS
<1>2. /\ s \in Seq(S) /\ x \in Nat /\ y \in Nat /\ l \in Nat /\ l = y - x
      /\ k \in 0 .. l /\ k \in Nat
      /\ \A i \in 1 .. l : s[i] = h[x + i] /\ s[i] \in S
  BY <1>1, LenProperties, ElementOfSeq DEF LiesIn
<1>3. PICK u : u = SubSeq(s, 1, k)
  OBVIOUS
<1>4. PICK v : v = SubSeq(s, k + 1, l)
  OBVIOUS
<1>5. u \in Seq(S) /\ Len(u) = k /\ \A i \in 1 .. k : u[i] = s[i]
  <2>1. /\ 1 \in Int /\ k \in Int /\ \A i \in 1 .. k : i \in 1 .. l
        /\ (IF 1 <= k THEN (k - 1) + 1 ELSE 0) = k /\ (k - 1) + 1 = k
        /\ \A i \in 1 .. k : (1 + i) - 1 = i
    BY ONLY <1>2
  <2>2. \A i \in 1 .. k : s[i] \in S
    BY <1>2, <2>1
  <2> QED
    BY ONLY <1>3, <2>1, <2>2, SubSeqProperties
<1>6. v \in Seq(S) /\ Len(v) = l - k /\ \A i \in 1 .. l - k : v[i] = s[k + i]
  <2>1. PICK m : m = k + 1
    OBVIOUS
  <2>2. /\ m \in Int /\ l \in Int /\ \A i \in m .. l : i \in 1 .. l
        /\ (IF m <= l THEN (l - m) + 1 ELSE 0) = l - k
        /\ (l - m) + 1 = l - k
        /\ \A i \in 1 .. l - k : (m + i) - 1 = k + i
    BY ONLY <1>2, <2>1
  <2>3. \A i \in m .. l : s[i] \in S
    BY ONLY <1>2, <2>2
  <2>4. /\ SubSeq(s, m, l) \in Seq(S)
        /\ Len(SubSeq(s, m, l)) = IF m <= l THEN (l - m) + 1 ELSE 0
        /\ \A i \in 1 .. (l - m) + 1 : SubSeq(s, m, l)[i] = s[(m + i) - 1]
    BY ONLY <2>2, <2>3, SubSeqProperties
  <2>5. v = SubSeq(s, m, l)
    BY ONLY <1>4, <2>1
  <2> QED
    BY ONLY <2>2, <2>4, <2>5
<1>7. LiesIn(S, u, h, x, x + k)
  <2>3. \A i \in 1 .. k : i \in 1 .. l
    BY ONLY <1>2
  <2>1. \A i \in 1 .. k : u[i] = h[x + i]
    BY <1>2, <1>5, <2>3, Zenon
  <2>2. x \in Nat /\ x + k \in Nat /\ k = (x + k) - x
    BY ONLY <1>2
  <2> QED
    BY ONLY <1>5, <2>1, <2>2 DEF LiesIn
<1>8. LiesIn(S, v, h, x + k, y)
  <2>1. \A i \in 1 .. l - k : k + i \in 1 .. l /\ x + (k + i) = (x + k) + i
    BY ONLY <1>2
  <2>2. \A i \in 1 .. l - k : v[i] = h[(x + k) + i]
    BY ONLY <1>2, <1>6, <2>1
  <2>3. x + k \in Nat /\ y \in Nat /\ l - k = y - (x + k)
    BY ONLY <1>2
  <2> QED
    BY ONLY <1>6, <2>2, <2>3 DEF LiesIn
<1> QED
  BY ONLY <1>1, <1>3, <1>4, <1>7, <1>8

LEMMA PieceWithin ==
  ASSUME NEW S, NEW s, NEW h, NEW x, NEW y, LiesIn(S, s, h, x, y), NEW k \in 0 .. Len(s),
         NEW l \in 0 .. Len(s) - k
  PROVE  LiesIn(S, SubSeq(s, k + 1, k + l), h, x + k, (x + k) + l)
<1>1. PICK n : n = Len(s)
  OBVIOUS
<1>2. /\ s \in Seq(S) /\ x \in Nat /\ n \in Nat
      /\ k \in 0 .. n /\ k \in Nat /\ l \in 0 .. n - k /\ l \in Nat
      /\ \A i \in 1 .. n : s[i] = h[x + i] /\ s[i] \in S
  BY <1>1, LenProperties, ElementOfSeq DEF LiesIn
<1>3. PICK u : u = SubSeq(s, 1, k + l)
  OBVIOUS
<1>4. k + l \in 0 .. Len(s) /\ k + l \in Nat
  BY ONLY <1>1, <1>2
<1>5. LiesIn(S, u, h, x, x + (k + l))
  BY ONLY <1>3, <1>4, LiesIn(S, s, h, x, y), PieceSplits
<1>6. Len(u) = k + l
  <2>1. Len(u) = (x + (k + l)) - x
    BY ONLY <1>5 DEF LiesIn
  <2> QED
    BY ONLY <1>2, <2>1
<1>7. LiesIn(S, SubSeq(u, k + 1, Len(u)), h, x + k, x + (k + l))
  <2>1. k \in 0 .. Len(u)
    BY ONLY <1>2, <1>6
  <2> QED
    BY ONLY <1>5, <2>1, PieceSplits
<1>8. SubSeq(u, k + 1, Len(u)) = SubSeq(s, k + 1, k + l)
  <2>1. \A i \in k + 1 .. k + l : i \in 1 .. k + l
    BY ONLY <1>2
  <2>2. \A i \in 1 .. k + l : u[i] = s[i]
    BY ONLY <1>3
  <2> QED
    BY ONLY <1>2, <1>6, <2>1, <2>2
<1>9. x + (k + l) = (x + k) + l
  BY ONLY <1>2
<1> QED
  BY ONLY <1>7, <1>8, <1>9

LEMMA PieceStays ==
  ASSUME NEW S, NEW s, NEW h, NEW g, NEW x, NEW y, NEW z \in Nat, LiesIn(S, s, h, x, y), y <= z,
         \A i \in 0 .. z : g[i] = h[i]
  PROVE  LiesIn(S, s, g, x, y)
<1>1. PICK l : l = Len(s)
  OBVIOUS
<1>2. /\ x \in Nat /\ y \in Nat /\ l \in Nat /\ l = y - x
      /\ \A i \in 1 .. l : s[i] = h[x + i]
  BY <1>1, LenProperties DEF LiesIn
<1>3. \A i \in 1 .. l : x + i \in 0 .. z
  BY <1>2
<1>4. \A i \in 1 .. l : s[i] = g[x + i]
  BY <1>2, <1>3
<1> QED
  BY ONLY <1>1, <1>4, LiesIn(S, s, h, x, y) DEF LiesIn

-----------------------------------------------------------------------------
(* FlattenSeq. *)

\* f concatenates the first n of s, one after the other.
Flattens(f, s, n) == f = [i \in 1 .. n |-> IF i = 1 THEN s[i] ELSE f[i - 1] \o s[i]]

LEMMA SomethingFlattens ==
  ASSUME NEW s, NEW n \in Nat
  PROVE  \E f : Flattens(f, s, n)
<1> DEFINE T == {k \in Nat : \E f : Flattens(f, s, k)}
<1>1. 0 \in T
  <2>1. PICK f : f = [i \in 1 .. 0 |-> s[i]]
    OBVIOUS
  <2>2. f = [i \in 1 .. 0 |-> IF i = 1 THEN s[i] ELSE f[i - 1] \o s[i]]
    BY <2>1
  <2> QED
    BY <2>2 DEF Flattens
<1>2. ASSUME NEW k \in T
      PROVE  k + 1 \in T
  <2>1. PICK f : Flattens(f, s, k)
    OBVIOUS
  <2>2. k \in Nat
    OBVIOUS
  <2>3. PICK x : x = IF k = 0 THEN s[1] ELSE f[k] \o s[k + 1]
    OBVIOUS
  <2> DEFINE g == [i \in 1 .. k + 1 |-> IF i <= k THEN f[i] ELSE x]
  <2>4. \A i \in 1 .. k + 1 : g[i] = IF i <= k THEN f[i] ELSE x
    OBVIOUS
  <2>5. g = [i \in 1 .. k + 1 |-> g[i]]
    OBVIOUS
  <2> HIDE DEF g
  <2>6. \A i \in 1 .. k : f[i] = IF i = 1 THEN s[i] ELSE f[i - 1] \o s[i]
    <3>1. f = [i \in 1 .. k |-> IF i = 1 THEN s[i] ELSE f[i - 1] \o s[i]]
      BY ONLY <2>1 DEF Flattens
    <3> QED
      BY ONLY <3>1
  <2>7. ASSUME NEW i \in 1 .. k + 1
        PROVE  g[i] = IF i = 1 THEN s[i] ELSE g[i - 1] \o s[i]
    <3>1. CASE i <= k
      <4>1. i \in 1 .. k /\ (i # 1 => i - 1 \in 1 .. k + 1 /\ i - 1 <= k)
        BY ONLY <2>2, <3>1, i \in 1 .. k + 1
      <4>2. g[i] = f[i] /\ (i # 1 => g[i - 1] = f[i - 1])
        BY ONLY <2>4, <3>1, <4>1, i \in 1 .. k + 1
      <4> QED
        BY ONLY <2>6, <4>1, <4>2
    <3>2. CASE ~ (i <= k)
      <4>1. i = k + 1 /\ i - 1 = k /\ (k = 0 <=> i = 1)
            /\ (i # 1 => k \in 1 .. k + 1 /\ k <= k)
        BY ONLY <2>2, <3>2, i \in 1 .. k + 1
      <4>2. g[i] = x /\ (i # 1 => g[k] = f[k])
        BY ONLY <2>4, <3>2, <4>1, i \in 1 .. k + 1
      <4> QED
        BY ONLY <2>3, <4>1, <4>2
    <3> QED
      BY ONLY <3>1, <3>2
  <2>8. Flattens(g, s, k + 1)
    BY ONLY <2>5, <2>7 DEF Flattens
  <2> QED
    BY <2>2, <2>8
<1>3. T = Nat
  <2>1. T \subseteq Nat
    OBVIOUS
  <2> HIDE DEF T
  <2> QED
    BY <1>1, <1>2, <2>1, SetInduction
<1> QED
  BY <1>3

LEMMA FlattensAgree ==
  ASSUME NEW s, NEW r, NEW n \in Nat, \A i \in 1 .. n : r[i] = s[i],
         NEW f, Flattens(f, r, n), NEW g, Flattens(g, s, n + 1)
  PROVE  \A k \in 1 .. n : f[k] = g[k]
<1> DEFINE T == {k \in Nat : k \in 1 .. n => f[k] = g[k]}
<1>0. \A k \in Nat : k \in T <=> (k \in 1 .. n => f[k] = g[k])
  OBVIOUS
<1>1. 0 \in T
  OBVIOUS
<1>2. \A i \in 1 .. n : f[i] = IF i = 1 THEN r[i] ELSE f[i - 1] \o r[i]
  <2>1. f = [i \in 1 .. n |-> IF i = 1 THEN r[i] ELSE f[i - 1] \o r[i]]
    BY DEF Flattens
  <2> QED
    BY ONLY <2>1
<1>3. \A i \in 1 .. n : g[i] = IF i = 1 THEN s[i] ELSE g[i - 1] \o s[i]
  <2>1. g = [i \in 1 .. n + 1 |-> IF i = 1 THEN s[i] ELSE g[i - 1] \o s[i]]
    BY DEF Flattens
  <2>2. \A i \in 1 .. n : i \in 1 .. n + 1
    OBVIOUS
  <2> QED
    BY ONLY <2>1, <2>2
<1>t. T \subseteq Nat
  OBVIOUS
<1> HIDE DEF T
<1>4. ASSUME NEW k \in T
      PROVE  k + 1 \in T
  <2>1. k \in Nat /\ k + 1 \in Nat
    BY <1>t
  <2>2. CASE k + 1 \notin 1 .. n
    BY <1>0, <2>1, <2>2
  <2>3. CASE k + 1 \in 1 .. n
    <3>1. PICK j : j = k + 1
      OBVIOUS
    <3>2. j \in 1 .. n /\ j - 1 = k /\ (j # 1 => k \in 1 .. n)
      BY ONLY <2>1, <2>3, <3>1, n \in Nat
    <3>3. j # 1 => f[k] = g[k]
      BY ONLY <1>0, <2>1, <3>2, k \in T
    <3>4. r[j] = s[j]
      BY <3>2
    <3>5. f[j] = g[j]
      BY ONLY <1>2, <1>3, <3>2, <3>3, <3>4
    <3> QED
      BY ONLY <1>0, <2>1, <3>1, <3>5
  <2> QED
    BY <2>2, <2>3
<1>5. T = Nat
  BY ONLY <1>1, <1>t, <1>4, SetInduction
<1>6. \A k \in 1 .. n : k \in Nat
  OBVIOUS
<1> QED
  BY ONLY <1>0, <1>5, <1>6
=============================================================================
