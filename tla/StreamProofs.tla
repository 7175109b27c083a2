---------------------------- MODULE StreamProofs ----------------------------
(***************************************************************************)
(* Proofs about streams on their way to those who play them, for any       *)
(* players, any length of stream, any requests and any file: RtmpSource    *)
(* gives no packet twice, leaves no gap once the live stream has begun,    *)
(* and caches from the latest key frame; HttpFlv sends whole tags that fit *)
(* each other, whichever of two threads writes them, and answers requests  *)
(* that arrive whole once each and in order; FlvReader delivers what the   *)
(* bytes it has decoded hold, once and in order; Rtsp answers in order,    *)
(* and sends packets that make up the units of the file.                   *)
(***************************************************************************)
EXTENDS MCStreams, SeqFacts, FiniteSetTheorems

Places == {"Idle", "Refused", "Gop", "Register", "Live"}

SourceType ==
  /\ packetQueue \in Seq(Nat)
  /\ cacheVideoCount \in Int
  /\ callbackQueue \in Seq(Players)
  /\ pubPc \in {"Idle", "Cache", "Deliver"}
  /\ copy \in Seq(Players)
  /\ pushed \in Nat
  /\ keys \subseteq 1 .. pushed
  /\ playerPc \in [Players -> Places]
  /\ gop \in [Players -> Seq(Nat)]
  /\ delivered \in [Players -> Seq(Nat)]
  /\ joined \in [Players -> Nat]

\* The list of callbacks and PushPacket's copy of it: every player is in it once, when
\* its StartRead has ended, and who is in the copy is in the list.
ListInv ==
  /\ Distinct(callbackQueue) /\ Distinct(copy)
  /\ \A p \in Players : Holds(callbackQueue, p) => playerPc[p] = "Live"
  /\ \A p \in Players : Holds(copy, p) => Holds(callbackQueue, p)
  /\ pubPc = "Idle" => copy = <<>>
  /\ pubPc = "Deliver" => copy # <<>>

\* The latest packet a player can have been given: one more when it has been called.
Newest(p) == IF Holds(copy, p) THEN pushed - 1 ELSE pushed

\* The cache, what a player reads from it and what a player has got are in order, and
\* none is ahead of what has been cached or, for this player, delivered.
OrderInv ==
  /\ Increasing(packetQueue) /\ AtMost(packetQueue, Cached)
  /\ \A p \in Players : Increasing(gop[p]) /\ AtMost(gop[p], Cached)
  /\ \A p \in Players : Increasing(delivered[p]) /\ AtMost(delivered[p], Newest(p))

\* The latest packet a player who has been called must have: LiveIsComplete's `last'.
Last(p) ==
  IF pubPc = "Idle" \/ (pubPc = "Deliver" /\ ~Awaits(p)) THEN pushed ELSE pushed - 1

\* A player with live packets has been called for each since the first; PushPacket's
\* copy has it until it is called for the latest.
LiveInv ==
  \A p \in Players :
    /\ joined[p] <= Len(delivered[p])
    /\ joined[p] < Len(delivered[p]) =>
         /\ Holds(callbackQueue, p)
         /\ pubPc = "Cache" => Holds(copy, p)
         /\ \A i \in joined[p] + 1 .. Len(delivered[p]) :
              delivered[p][i] = Last(p) - Len(delivered[p]) + i

\* GopFromLastKey, with the latest key frame named by what it is.
GopInv ==
  initCount >= 0 =>
    /\ cacheVideoCount >= 0
    /\ CachedKeys # {} =>
         \E first \in CachedKeys :
           /\ \A k \in CachedKeys : k <= first
           /\ packetQueue = [i \in 1 .. Cached - first + 1 |-> first + i - 1]

SourceInv == SourceType /\ ListInv /\ OrderInv /\ LiveInv /\ GopInv

LEMMA AwaitsIsHolds == ASSUME NEW p PROVE Awaits(p) <=> Holds(copy, p)
BY DEF Awaits, Holds

LEMMA CachedType ==
  ASSUME SourceType
  PROVE  Cached \in Int /\ Cached <= pushed
BY DEF SourceType, Cached

\* Nothing is held by an empty queue.
LEMMA EmptyHolds == ASSUME NEW e PROVE ~Holds(<<>>, e) /\ Distinct(<<>>)
BY DEF Holds, Distinct

-----------------------------------------------------------------------------
(* The steps *)

LEMMA SourceInit == Init => SourceInv
<1> SUFFICES ASSUME Init PROVE SourceInv
  OBVIOUS
<1>1. /\ <<>> \in Seq(Nat) /\ <<>> \in Seq(Players) /\ Len(<<>>) = 0
  BY EmptySeq
<1>2. SourceType
  BY <1>1, SourceAssumption DEF Init, SourceType, Places
<1>3. ListInv
  BY EmptyHolds DEF Init, ListInv
<1>4. OrderInv
  BY <1>1 DEF Init, OrderInv, Increasing, AtMost
<1>5. LiveInv
  BY <1>1 DEF Init, LiveInv
<1>6. GopInv
  BY DEF Init, GopInv, CachedKeys
<1> QED
  BY <1>2, <1>3, <1>4, <1>5, <1>6 DEF SourceInv

\* Steps that leave alone what the invariant speaks of.
LEMMA SourceKept ==
  ASSUME SourceInv,
         UNCHANGED <<cacheVars, callbackQueue, pubVars, playerVars, delivered, initCount>>
  PROVE  SourceInv'
<1>1. /\ UNCHANGED <<packetQueue, cacheVideoCount, callbackQueue, pubPc, copy, pushed, keys>>
      /\ UNCHANGED <<playerPc, gop, joined, delivered, initCount>>
  BY DEF cacheVars, pubVars, playerVars
<1>2. SourceType /\ ListInv /\ OrderInv /\ LiveInv /\ GopInv
  BY DEF SourceInv
<1>3. SourceType' /\ ListInv'
  BY <1>1, <1>2 DEF SourceType, ListInv
<1>4. OrderInv'
  BY <1>1, <1>2 DEF OrderInv, Newest, Cached
<1>5. LiveInv'
  BY <1>1, <1>2 DEF LiveInv, Last, Awaits
<1>6. GopInv'
  BY <1>1, <1>2 DEF GopInv, CachedKeys, Cached
<1> QED
  BY <1>3, <1>4, <1>5, <1>6 DEF SourceInv

\* The copy is taken while no packet is on its way: who is registered awaits the next.
LEMMA PushStep ==
  ASSUME SourceInv, NEW isKey \in BOOLEAN, PushPacket(isKey)
  PROVE  SourceInv'
<1>1. /\ pubPc = "Idle" /\ pubPc' = "Cache" /\ copy' = callbackQueue
      /\ pushed' = pushed + 1 /\ keys \subseteq keys' /\ keys' \subseteq keys \union {pushed + 1}
      /\ UNCHANGED <<packetQueue, cacheVideoCount, callbackQueue, playerPc, gop, joined,
                     delivered, initCount>>
  BY DEF PushPacket, cacheVars, playerVars
<1>2. /\ SourceType /\ ListInv /\ OrderInv /\ LiveInv /\ GopInv /\ copy = <<>>
  BY <1>1 DEF SourceInv, ListInv
<1>3. SourceType'
  BY <1>1, <1>2 DEF SourceType
<1>4. ListInv'
  BY <1>1, <1>2 DEF ListInv
<1>5. Cached = pushed /\ Cached' = pushed /\ pushed \in Nat
  BY <1>1, <1>2 DEF Cached, SourceType
<1>6. ASSUME NEW p \in Players
      PROVE  Newest(p) = pushed /\ (Newest(p)' = pushed \/ Newest(p)' = pushed + 1)
  BY <1>1, <1>2, <1>5, EmptyHolds DEF Newest
<1>7. OrderInv'
  <2>1. ASSUME NEW p \in Players
        PROVE  AtMost(delivered[p], Newest(p)')
    <3>1. delivered[p] \in Seq(Nat) /\ AtMost(delivered[p], pushed)
      BY <1>2, <1>6 DEF SourceType, OrderInv
    <3>2. \A i \in 1 .. Len(delivered[p]) : delivered[p][i] \in Nat
      BY <3>1, ElementOfSeq
    <3> QED
      BY <1>5, <1>6, <3>1, <3>2 DEF AtMost
  <2> QED
    BY <1>1, <1>2, <1>5, <2>1 DEF OrderInv
<1>8. LiveInv'
  BY <1>1, <1>2, <1>5 DEF LiveInv, Last, SourceType
<1>9. CachedKeys' = CachedKeys
  BY <1>1, <1>2, <1>5 DEF CachedKeys, SourceType
<1>10. GopInv'
  BY <1>1, <1>2, <1>5, <1>9 DEF GopInv
<1> QED
  BY <1>3, <1>4, <1>7, <1>8, <1>10 DEF SourceInv

\* A run of consecutive numbers continued.
LEMMA AppendRun ==
  ASSUME NEW a \in Nat, NEW n \in Nat
  PROVE  Append([i \in 1 .. n |-> a + i - 1], a + n) = [i \in 1 .. n + 1 |-> a + i - 1]
<1> DEFINE s == [i \in 1 .. n |-> a + i - 1]
           t == [i \in 1 .. n + 1 |-> a + i - 1]
<1>1. s \in [1 .. n -> Int] /\ t \in [1 .. n + 1 -> Int] /\ n + 1 \in Nat
  OBVIOUS
<1>2. s \in Seq(Int) /\ t \in Seq(Int)
  BY <1>1, SeqDef
<1>3. Len(s) = n /\ Len(t) = n + 1
  BY <1>1, <1>2, LenProperties
<1>4. /\ \A i \in 1 .. n : s[i] = a + i - 1
      /\ \A i \in 1 .. n + 1 : t[i] = a + i - 1
  OBVIOUS
<1> HIDE DEF s, t
<1> DEFINE u == Append(s, a + n)
<1>5. /\ u \in Seq(Int) /\ Len(u) = n + 1
      /\ \A i \in 1 .. n : u[i] = s[i]
      /\ u[n + 1] = a + n
  BY <1>2, <1>3, AppendProperties
<1> HIDE DEF u
<1>6. \A i \in 1 .. n + 1 : u[i] = t[i]
  BY <1>4, <1>5
<1>7. u = t
  BY <1>2, <1>3, <1>5, <1>6, SeqEqual
<1> QED
  BY <1>7 DEF s, t, u

\* Cache changes the vector while players read copies of it, and lets the callbacks of
\* the copy be called.
LEMMA CacheStep ==
  ASSUME SourceInv, Cache
  PROVE  SourceInv'
<1>1. /\ pubPc = "Cache" /\ pubPc' = IF copy = <<>> THEN "Idle" ELSE "Deliver"
      /\ UNCHANGED <<callbackQueue, copy, pushed, keys, playerPc, gop, joined, delivered,
                     initCount>>
  BY DEF Cache, playerVars
<1>2. SourceType /\ ListInv /\ OrderInv /\ LiveInv /\ GopInv
  BY DEF SourceInv
<1>3. Cached = pushed - 1 /\ Cached' = pushed /\ pushed \in Nat /\ packetQueue \in Seq(Nat)
  BY <1>1, <1>2 DEF Cached, SourceType
<1> DEFINE kept == IF pushed \in keys THEN <<>> ELSE packetQueue
<1>4. \/ /\ cacheVideoCount + 1 = 0 /\ cacheVideoCount' = 0 /\ packetQueue' = packetQueue
      \/ /\ cacheVideoCount + 1 # 0
         /\ cacheVideoCount' = IF pushed \in keys THEN 1 ELSE cacheVideoCount + 1
         /\ packetQueue' = Append(kept, pushed)
  BY DEF Cache, Restarted
<1>5. ListInv'
  BY <1>1, <1>2 DEF ListInv
<1>6. packetQueue' \in Seq(Nat) /\ Increasing(packetQueue') /\ AtMost(packetQueue', pushed)
  <2>1. CASE packetQueue' = packetQueue
    <3>1. \A i \in 1 .. Len(packetQueue) : packetQueue[i] \in Nat
      BY <1>3, ElementOfSeq
    <3> QED
      BY <1>2, <1>3, <2>1, <3>1 DEF OrderInv, AtMost, Increasing
  <2>2. CASE packetQueue' = Append(kept, pushed)
    <3>1. kept \in Seq(Nat) /\ Increasing(kept) /\ AtMost(kept, pushed - 1)
      <4>1. Len(<<>>) = 0 /\ <<>> \in Seq(Nat)
        BY EmptySeq
      <4> QED
        BY <1>2, <1>3, <4>1 DEF OrderInv, Increasing, AtMost
    <3> HIDE DEF kept
    <3>2. pushed - 1 \in Int /\ pushed - 1 < pushed
      BY <1>3
    <3> QED
      BY <1>3, <2>2, <3>1, <3>2, AppendIncreasing DEF Increasing
  <2> QED
    BY <1>4, <2>1, <2>2
<1>7. SourceType'
  BY <1>1, <1>2, <1>4, <1>6 DEF SourceType
<1>8. OrderInv'
  <2>1. ASSUME NEW p \in Players
        PROVE  Increasing(gop[p]) /\ AtMost(gop[p], pushed)
    <3>1. \A i \in 1 .. Len(gop[p]) : gop[p][i] \in Nat
      BY <1>2, ElementOfSeq DEF SourceType
    <3> QED
      BY <1>2, <1>3, <3>1 DEF OrderInv, AtMost
  <2>2. ASSUME NEW p \in Players
        PROVE  Newest(p)' = Newest(p)
    BY <1>1 DEF Newest
  <2> QED
    BY <1>1, <1>2, <1>3, <1>6, <2>1, <2>2 DEF OrderInv
<1>9. LiveInv'
  <2>1. ASSUME NEW p \in Players, joined[p] < Len(delivered[p])
        PROVE  Last(p)' = Last(p) /\ pubPc' # "Cache"
    <3>1. Holds(copy, p) /\ copy # <<>>
      BY <1>1, <1>2, <2>1, EmptyHolds DEF LiveInv
    <3>2. Awaits(p) /\ Awaits(p)'
      BY <1>1, <3>1 DEF Awaits, Holds
    <3> QED
      BY <1>1, <3>1, <3>2 DEF Last
  <2> QED
    BY <1>1, <1>2, <2>1 DEF LiveInv
<1>10. GopInv'
  <2> SUFFICES ASSUME initCount >= 0
               PROVE  /\ cacheVideoCount' >= 0
                      /\ CachedKeys' # {} =>
                           \E first \in CachedKeys' :
                             /\ \A k \in CachedKeys' : k <= first
                             /\ packetQueue' = [i \in 1 .. Cached' - first + 1 |-> first + i - 1]
    BY <1>1 DEF GopInv
  <2>1. cacheVideoCount \in Int /\ cacheVideoCount >= 0
    BY <1>2 DEF GopInv, SourceType
  <2>2. /\ cacheVideoCount' = IF pushed \in keys THEN 1 ELSE cacheVideoCount + 1
        /\ packetQueue' = Append(kept, pushed)
    BY <1>4, <2>1
  <2>3. cacheVideoCount' >= 0
    BY <2>1, <2>2
  <2>4. CachedKeys' = keys \intersect 1 .. pushed /\ CachedKeys = keys \intersect 1 .. pushed - 1
    BY <1>1, <1>3 DEF CachedKeys
  <2>5. CASE pushed \in keys
    <3>1. pushed \in CachedKeys' /\ \A k \in CachedKeys' : k <= pushed
      BY <1>2, <2>4, <2>5 DEF SourceType
    <3>2. packetQueue' = Append(<<>>, pushed)
      BY <2>2, <2>5
    <3>3. Append([i \in 1 .. 0 |-> pushed + i - 1], pushed + 0)
            = [i \in 1 .. 0 + 1 |-> pushed + i - 1]
      BY <1>3, AppendRun
    <3>4. [i \in 1 .. 0 |-> pushed + i - 1] = <<>>
      OBVIOUS
    <3>5. Cached' - pushed + 1 = 0 + 1 /\ pushed + 0 = pushed
      BY <1>3
    <3>6. packetQueue' = [i \in 1 .. Cached' - pushed + 1 |-> pushed + i - 1]
      BY <3>2, <3>3, <3>4, <3>5
    <3> QED
      BY <2>3, <3>1, <3>6
  <2>6. CASE pushed \notin keys
    <3>1. CachedKeys' = CachedKeys
      BY <1>3, <2>4, <2>6
    <3>2. ASSUME CachedKeys # {}
          PROVE  \E first \in CachedKeys :
                   /\ \A k \in CachedKeys : k <= first
                   /\ packetQueue' = [i \in 1 .. Cached' - first + 1 |-> first + i - 1]
      <4>1. PICK first \in CachedKeys :
              /\ \A k \in CachedKeys : k <= first
              /\ packetQueue = [i \in 1 .. Cached - first + 1 |-> first + i - 1]
        BY <1>2, <3>2 DEF GopInv
      <4>2. first \in Nat /\ first <= pushed - 1
        BY <1>3, <2>4
      <4> DEFINE n == pushed - first
      <4>3. n \in Nat /\ Cached - first + 1 = n /\ Cached' - first + 1 = n + 1 /\ first + n = pushed
        BY <1>3, <4>2
      <4> HIDE DEF n
      <4>4. packetQueue' = Append([i \in 1 .. n |-> first + i - 1], first + n)
        BY <2>2, <2>6, <4>1, <4>3
      <4>5. packetQueue' = [i \in 1 .. n + 1 |-> first + i - 1]
        BY <4>2, <4>3, <4>4, AppendRun
      <4> QED
        BY <4>1, <4>3, <4>5
    <3> QED
      BY <2>3, <3>1, <3>2
  <2> QED
    BY <2>5, <2>6
<1> QED
  BY <1>5, <1>7, <1>8, <1>9, <1>10 DEF SourceInv

\* A callback is called: the player had every packet before this one, if any.
LEMMA DeliverStep ==
  ASSUME SourceInv, Deliver
  PROVE  SourceInv'
<1>0. PICK h : h = Head(copy)
  OBVIOUS
<1> DEFINE d == delivered[h]
<1>1. /\ pubPc = "Deliver" /\ copy' = Tail(copy)
      /\ pubPc' = IF copy' = <<>> THEN "Idle" ELSE "Deliver"
      /\ delivered' = [delivered EXCEPT ![h] = Append(@, pushed)]
      /\ UNCHANGED <<packetQueue, cacheVideoCount, callbackQueue, pushed, keys, playerPc,
                     gop, joined, initCount>>
  BY <1>0 DEF Deliver, Rest, cacheVars, playerVars
<1>2. SourceType /\ ListInv /\ OrderInv /\ LiveInv /\ GopInv
  BY DEF SourceInv
<1>3. /\ copy' \in Seq(Players) /\ h \in Players /\ Holds(copy, h)
      /\ Distinct(copy')
      /\ \A x : Holds(copy', x) <=> Holds(copy, x) /\ x # h
  BY <1>0, <1>1, <1>2, TailDistinct DEF SourceType, ListInv
<1>4. pushed \in Nat /\ d \in Seq(Nat) /\ Len(d) \in Nat /\ joined[h] \in Nat
  BY <1>2, <1>3, LenProperties DEF SourceType
<1>5. /\ d' = Append(d, pushed)
      /\ \A p \in Players : p # h => delivered'[p] = delivered[p]
      /\ delivered' \in [Players -> Seq(Nat)]
  <2>1. Append(d, pushed) \in Seq(Nat)
    BY <1>4, AppendProperties
  <2> QED
    BY <1>1, <1>2, <1>3, <2>1 DEF SourceType
<1>6. SourceType' /\ ListInv'
  BY <1>1, <1>2, <1>3, <1>5 DEF SourceType, ListInv
<1>7. Cached' = Cached /\ CachedKeys' = CachedKeys
  BY <1>1 DEF Cached, CachedKeys
<1>8. GopInv'
  BY <1>1, <1>2, <1>7 DEF GopInv
<1>9. /\ Newest(h) = pushed - 1 /\ Newest(h)' = pushed
      /\ \A p \in Players : p # h => Newest(p)' = Newest(p)
  BY <1>1, <1>3 DEF Newest
<1>10. OrderInv'
  <2>1. Increasing(d) /\ AtMost(d, pushed - 1)
    BY <1>2, <1>3, <1>9 DEF OrderInv
  <2>2. pushed - 1 \in Int /\ pushed - 1 < pushed
    BY <1>4
  <2>3. Increasing(Append(d, pushed)) /\ AtMost(Append(d, pushed), pushed)
    BY <1>4, <2>1, <2>2, AppendIncreasing DEF Increasing
  <2> QED
    BY <1>1, <1>2, <1>5, <1>7, <1>9, <2>3 DEF OrderInv
<1>11. /\ Last(h) = pushed - 1 /\ Last(h)' = pushed
       /\ \A p \in Players : p # h => Last(p)' = Last(p)
  <2>1. ASSUME NEW p \in Players
        PROVE  /\ Awaits(p) <=> Holds(copy, p)
               /\ Awaits(p)' <=> Holds(copy', p)
    BY DEF Awaits, Holds
  <2>2. copy' = <<>> => \A p \in Players : ~Holds(copy', p)
    BY EmptyHolds
  <2> QED
    BY <1>1, <1>3, <2>1, <2>2 DEF Last
<1>12. ASSUME NEW p \in Players
       PROVE  /\ joined'[p] <= Len(delivered'[p])
              /\ joined'[p] < Len(delivered'[p]) =>
                   /\ Holds(callbackQueue', p)
                   /\ pubPc' = "Cache" => Holds(copy', p)
                   /\ \A i \in joined'[p] + 1 .. Len(delivered'[p]) :
                        delivered'[p][i] = Last(p)' - Len(delivered'[p]) + i
  <2>1. CASE p # h
    BY <1>1, <1>2, <1>5, <1>11, <2>1 DEF LiveInv
  <2>2. CASE p = h
    <3>1. /\ Len(d') = Len(d) + 1
          /\ \A i \in 1 .. Len(d) : d'[i] = d[i]
          /\ d'[Len(d) + 1] = pushed
      BY <1>4, <1>5, AppendProperties
    <3>2. joined[h] <= Len(d)
      BY <1>2, <1>3 DEF LiveInv
    <3>3. Holds(callbackQueue', h) /\ pubPc' # "Cache"
      BY <1>1, <1>2, <1>3 DEF ListInv
    <3>4. ASSUME NEW i \in joined[h] + 1 .. Len(d) + 1
          PROVE  d'[i] = pushed - (Len(d) + 1) + i
      <4>1. CASE i = Len(d) + 1
        BY <1>4, <3>1, <4>1
      <4>2. CASE i # Len(d) + 1
        <5>1. i \in joined[h] + 1 .. Len(d) /\ i \in 1 .. Len(d) /\ joined[h] < Len(d)
          BY <1>4, <4>2
        <5>2. d[i] = (pushed - 1) - Len(d) + i
          BY <1>2, <1>3, <1>11, <5>1 DEF LiveInv
        <5>3. (pushed - 1) - Len(d) + i = pushed - (Len(d) + 1) + i
          BY <1>4
        <5>4. d'[i] = d[i]
          BY <3>1, <5>1
        <5> QED
          BY <5>2, <5>3, <5>4, Zenon
      <4> QED
        BY <4>1, <4>2
    <3>5. joined'[h] = joined[h] /\ joined[h] <= Len(d) + 1
      BY <1>1, <1>4, <3>2
    <3>6. \A i \in joined'[h] + 1 .. Len(delivered'[h]) :
            delivered'[h][i] = Last(h)' - Len(delivered'[h]) + i
      BY <1>11, <3>1, <3>4, <3>5
    <3> QED
      BY <2>2, <3>1, <3>3, <3>5, <3>6
  <2> QED
    BY <2>1, <2>2
<1>13. LiveInv'
  BY <1>12 DEF LiveInv
<1> QED
  BY <1>6, <1>8, <1>10, <1>13 DEF SourceInv

\* A player starts to read a copy of the cache.
LEMMA StartReadStep ==
  ASSUME SourceInv, NEW p \in Players, StartRead(p)
  PROVE  SourceInv'
<1>1. /\ playerPc[p] = "Idle"
      /\ \E place \in {"Refused", "Gop"} : playerPc' = [playerPc EXCEPT ![p] = place]
      /\ gop' = gop \/ gop' = [gop EXCEPT ![p] = packetQueue]
      /\ UNCHANGED <<packetQueue, cacheVideoCount, callbackQueue, pubPc, copy, pushed, keys,
                     joined, delivered, initCount>>
  BY DEF StartRead, cacheVars, pubVars
<1>2. SourceType /\ ListInv /\ OrderInv /\ LiveInv /\ GopInv
  BY DEF SourceInv
<1>3. \A q \in Players : gop'[q] = gop[q] \/ gop'[q] = packetQueue
  BY <1>1, <1>2 DEF SourceType
<1>4. SourceType'
  BY <1>1, <1>2 DEF SourceType, Places
<1>5. ListInv'
  BY <1>1, <1>2 DEF ListInv, SourceType
<1>6. OrderInv'
  BY <1>1, <1>2, <1>3 DEF OrderInv, Newest, Cached
<1>7. LiveInv'
  BY <1>1, <1>2 DEF LiveInv, Last, Awaits
<1>8. GopInv'
  BY <1>1, <1>2 DEF GopInv, CachedKeys, Cached
<1> QED
  BY <1>4, <1>5, <1>6, <1>7, <1>8 DEF SourceInv

\* The player is given the cache: it has not been called yet, so nothing else came.
LEMMA GetGopCacheStep ==
  ASSUME SourceInv, NEW p \in Players, GetGopCache(p)
  PROVE  SourceInv'
<1>1. /\ playerPc[p] = "Gop" /\ playerPc' = [playerPc EXCEPT ![p] = "Register"]
      /\ delivered' = [delivered EXCEPT ![p] = gop[p]]
      /\ joined' = [joined EXCEPT ![p] = Len(gop[p])]
      /\ gop' = [gop EXCEPT ![p] = <<>>]
      /\ UNCHANGED <<packetQueue, cacheVideoCount, callbackQueue, pubPc, copy, pushed, keys,
                     initCount>>
  BY DEF GetGopCache, cacheVars, pubVars
<1>2. SourceType /\ ListInv /\ OrderInv /\ LiveInv /\ GopInv
  BY DEF SourceInv
<1>3. gop[p] \in Seq(Nat) /\ Len(gop[p]) \in Nat /\ <<>> \in Seq(Nat) /\ Len(<<>>) = 0
  BY <1>2, LenProperties, EmptySeq DEF SourceType
<1>4. SourceType'
  BY <1>1, <1>2, <1>3 DEF SourceType, Places
<1>5. ListInv'
  BY <1>1, <1>2 DEF ListInv, SourceType
<1>6. ~Holds(copy, p) /\ ~Holds(callbackQueue, p)
  BY <1>1, <1>2 DEF ListInv
<1>7. /\ delivered'[p] = gop[p] /\ gop'[p] = <<>> /\ joined'[p] = Len(gop[p])
      /\ \A q \in Players : q # p =>
           delivered'[q] = delivered[q] /\ gop'[q] = gop[q] /\ joined'[q] = joined[q]
  BY <1>1, <1>2 DEF SourceType
<1>8. Cached' = Cached /\ CachedKeys' = CachedKeys
      /\ \A q \in Players : Newest(q)' = Newest(q) /\ Last(q)' = Last(q)
  BY <1>1 DEF Cached, CachedKeys, Newest, Last, Awaits
<1>9. OrderInv'
  <2>1. Increasing(gop[p]) /\ AtMost(gop[p], pushed)
    <3>1. \A i \in 1 .. Len(gop[p]) : gop[p][i] \in Nat
      BY <1>3, ElementOfSeq
    <3>2. Cached \in Int /\ Cached <= pushed /\ pushed \in Nat
      BY <1>2, CachedType DEF SourceType
    <3> QED
      BY <1>2, <3>1, <3>2 DEF OrderInv, AtMost
  <2>2. Newest(p) = pushed
    BY <1>6 DEF Newest
  <2>3. Increasing(<<>>) /\ AtMost(<<>>, Cached)
    BY <1>3 DEF Increasing, AtMost
  <2> QED
    BY <1>1, <1>2, <1>7, <1>8, <2>1, <2>2, <2>3 DEF OrderInv
<1>10. LiveInv'
  <2>1. ~(joined'[p] < Len(delivered'[p])) /\ joined'[p] <= Len(delivered'[p])
    BY <1>3, <1>7
  <2> QED
    BY <1>1, <1>2, <1>7, <1>8, <2>1 DEF LiveInv
<1>11. GopInv'
  BY <1>1, <1>2, <1>8 DEF GopInv
<1> QED
  BY <1>4, <1>5, <1>9, <1>10, <1>11 DEF SourceInv

\* The player is registered, once: a packet pushed before does not know it.
LEMMA RegisterStep ==
  ASSUME SourceInv, NEW p \in Players, Register(p)
  PROVE  SourceInv'
<1>1. /\ playerPc[p] = "Register" /\ playerPc' = [playerPc EXCEPT ![p] = "Live"]
      /\ callbackQueue' = Append(callbackQueue, p)
      /\ UNCHANGED <<packetQueue, cacheVideoCount, pubPc, copy, pushed, keys, gop, joined,
                     delivered, initCount>>
  BY DEF Register, Registered, cacheVars, pubVars
<1>2. SourceType /\ ListInv /\ OrderInv /\ LiveInv /\ GopInv
  BY DEF SourceInv
<1>3. ~Holds(callbackQueue, p)
  BY <1>1, <1>2 DEF ListInv
<1>4. /\ callbackQueue' \in Seq(Players) /\ Distinct(callbackQueue')
      /\ \A x : Holds(callbackQueue', x) <=> Holds(callbackQueue, x) \/ x = p
  BY <1>1, <1>2, <1>3, AppendDistinct DEF SourceType, ListInv
<1>5. SourceType'
  BY <1>1, <1>2, <1>4 DEF SourceType, Places
<1>6. ListInv'
  BY <1>1, <1>2, <1>4 DEF ListInv, SourceType
<1>7. OrderInv'
  BY <1>1, <1>2 DEF OrderInv, Newest, Cached
<1>8. LiveInv'
  BY <1>1, <1>2, <1>4 DEF LiveInv, Last, Awaits
<1>9. GopInv'
  BY <1>1, <1>2 DEF GopInv, CachedKeys, Cached
<1> QED
  BY <1>5, <1>6, <1>7, <1>8, <1>9 DEF SourceInv

LEMMA SourceStep == SourceInv /\ [Next]_vars => SourceInv'
<1> SUFFICES ASSUME SourceInv, [Next]_vars PROVE SourceInv'
  OBVIOUS
<1>1. CASE PushPacketConfig \/ UNCHANGED vars
  BY <1>1, SourceKept DEF PushPacketConfig, vars
<1>2. ASSUME NEW isKey \in BOOLEAN, PushPacket(isKey)
      PROVE  SourceInv'
  BY <1>2, PushStep
<1>3. CASE Cache
  BY <1>3, CacheStep
<1>4. CASE Deliver
  BY <1>4, DeliverStep
<1>5. ASSUME NEW p \in Players, StartRead(p) \/ GetGopCache(p) \/ Register(p)
      PROVE  SourceInv'
  BY <1>5, StartReadStep, GetGopCacheStep, RegisterStep
<1> QED
  BY <1>1, <1>2, <1>3, <1>4, <1>5 DEF Next

-----------------------------------------------------------------------------
(* The theorems *)

LEMMA SourceInvariant == Spec => []SourceInv
BY SourceInit, SourceStep, PTL DEF Spec

\* No player gets a packet twice or out of order, for any number of players, packets
\* and key frames: the copy PushPacket calls and the cache StartRead reads do not overlap.
THEOREM NoPacketRepeats == Spec => []NoRepeat
<1>1. SourceInv => NoRepeat
  BY DEF SourceInv, OrderInv, NoRepeat
<1> QED
  BY SourceInvariant, <1>1, PTL

\* Once called, a player is called for every packet: it has all of them up to the latest
\* one not on its way, whoever else joins meanwhile.
THEOREM LiveStaysComplete == Spec => []LiveIsComplete
<1>1. ASSUME SourceInv
      PROVE  LiveIsComplete
  <2> SUFFICES ASSUME NEW p \in Players
               PROVE  LET d == delivered[p]
                          live == SubSeq(d, joined[p] + 1, Len(d))
                      IN  live # <<>> =>
                            live = [i \in 1 .. Len(live) |-> Last(p) - Len(live) + i]
    BY DEF LiveIsComplete, Last
  <2> DEFINE d == delivered[p]
             j == joined[p]
             live == SubSeq(d, j + 1, Len(d))
  <2>1. /\ d \in Seq(Nat) /\ Len(d) \in Nat /\ j \in Nat /\ j <= Len(d)
        /\ j < Len(d) => \A i \in j + 1 .. Len(d) : d[i] = Last(p) - Len(d) + i
        /\ Last(p) \in Int
    BY <1>1, LenProperties DEF SourceInv, SourceType, LiveInv, Last
  <2> HIDE DEF d, j
  <2>2. CASE j = Len(d)
    <3>1. live = <<>>
      BY <2>1, <2>2, SubSeqEmpty
    <3> QED
      BY <3>1 DEF d, j
  <2>3. CASE j < Len(d)
    <3>1. j + 1 \in Int /\ Len(d) \in Int /\ \A i \in j + 1 .. Len(d) : i \in 1 .. Len(d)
      BY <2>1
    <3>2. \A i \in j + 1 .. Len(d) : d[i] \in Nat
      BY ONLY <2>1, <3>1, ElementOfSeq
    <3>3. /\ live \in Seq(Nat)
          /\ Len(live) = IF j + 1 <= Len(d) THEN Len(d) - (j + 1) + 1 ELSE 0
          /\ \A i \in 1 .. Len(d) - (j + 1) + 1 : live[i] = d[(j + 1) + i - 1]
      BY ONLY <3>1, <3>2, SubSeqProperties
    <3> HIDE DEF live
    <3>4. Len(live) = Len(d) - j /\ \A i \in 1 .. Len(live) : live[i] = d[j + i]
      BY <2>1, <2>3, <3>3
    <3>5. ASSUME NEW i \in 1 .. Len(live)
          PROVE  live[i] = Last(p) - Len(live) + i
      <4>1. j + i \in j + 1 .. Len(d)
        BY <2>1, <3>4
      <4>2. live[i] = d[j + i]
        BY <3>4
      <4>3. d[j + i] = Last(p) - Len(d) + (j + i)
        BY ONLY <2>1, <2>3, <4>1
      <4>4. Last(p) - Len(d) + (j + i) = Last(p) - Len(live) + i
        BY <2>1, <3>4
      <4> QED
        BY ONLY <4>2, <4>3, <4>4
    <3>6. DOMAIN live = 1 .. Len(live) /\ live \in [1 .. Len(live) -> Nat]
      BY <3>3, LenProperties
    <3>7. live = [i \in 1 .. Len(live) |-> Last(p) - Len(live) + i]
      BY <3>5, <3>6
    <3> QED
      BY <3>7 DEF d, j, live
  <2>4. j = Len(d) \/ j < Len(d)
    BY <2>1
  <2> QED
    BY <2>2, <2>3, <2>4, Zenon
<1> QED
  BY SourceInvariant, <1>1, PTL

\* The cache starts at the latest key frame and has every packet since, for any stream,
\* if the counter nobody initialises did not start below 0.
THEOREM GopStartsAtLastKey == Spec => []GopFromLastKey
<1>1. ASSUME SourceInv
      PROVE  GopFromLastKey
  <2> SUFFICES ASSUME initCount >= 0, CachedKeys # {}
               PROVE  packetQueue
                        = [i \in 1 .. Cached - Max(CachedKeys) + 1 |-> Max(CachedKeys) + i - 1]
    BY DEF GopFromLastKey
  <2>1. PICK first \in CachedKeys :
          /\ \A k \in CachedKeys : k <= first
          /\ packetQueue = [i \in 1 .. Cached - first + 1 |-> first + i - 1]
    BY <1>1 DEF SourceInv, GopInv
  <2>2. CachedKeys \subseteq Int
    BY <1>1 DEF SourceInv, SourceType, CachedKeys
  <2>3. Max(CachedKeys) \in CachedKeys /\ \A k \in CachedKeys : Max(CachedKeys) >= k
    BY <2>1, <2>2 DEF Max
  <2>4. /\ first \in Int /\ Max(CachedKeys) \in Int
        /\ Max(CachedKeys) >= first /\ Max(CachedKeys) <= first
    BY <2>1, <2>2, <2>3
  <2>5. Max(CachedKeys) = first
    BY <2>4
  <2> QED
    BY <2>1, <2>5
<1> QED
  BY SourceInvariant, <1>1, PTL
-----------------------------------------------------------------------------
(* HttpFlv *)

\* The parts of the answer and of its stream.
PartKinds == {"response", "flv", "previous", "header", "data"}
Part == [kind : PartKinds, n : Nat, size : Nat]
Media == [n : Nat, size : Nat]

Answer == <<Http!Item("response", 0, 0), Http!Item("flv", 0, 9)>>

\* Place i of an answer s that is a stream.
IsPlace(s, i) ==
  /\ i % 3 = 0 => /\ s[i].kind = "previous"
                  /\ s[i].size = IF i = 3 THEN 0 ELSE s[i - 1].size + 11
  /\ i % 3 = 1 => s[i].kind = "header"
  /\ i % 3 = 2 => s[i].kind = "data" /\ s[i].n = s[i - 1].n

\* s is an answer with whole tags.
IsStream(s) ==
  /\ s \in Seq(Part)
  /\ Len(s) >= 2
  /\ Len(s) % 3 = 2
  /\ s[1] = Http!Item("response", 0, 0)
  /\ s[2] = Http!Item("flv", 0, 9)
  /\ \A i \in 3 .. Len(s) : IsPlace(s, i)

\* What the next tag has to tell of the one before it.
NextPre(s) == IF Len(s) = 2 THEN 0 ELSE s[Len(s)].size + 11

FlvType ==
  /\ source \in [made : BOOLEAN, config : Seq(Media), gop : Seq(Media)]
  /\ pushing \in [at : {"idle", "cache", "deliver"}, left : Nat, packet : Media]
  /\ registered \in Nat
  /\ published \in Nat
  /\ \E S : answered \in Seq(S)

\* Nothing is sent before the first request is answered, and the publisher calls nobody
\* that is not registered.
BeforeInv ==
  /\ pushing.at = "deliver" => pushing.left > 0
  /\ answered = <<>> =>
       out = <<>> /\ posted = <<>> /\ registered = 0 /\ pushing.left = 0 /\ pc # "register"

\* What has been sent and what is posted are one stream, and the encoder has the size of
\* its last tag, whoever wrote it.
StreamInv ==
  Len(answered) = 1 =>
    /\ out \in Seq(Part) /\ posted \in Seq(Part)
    /\ Len(out) >= 2
    /\ IsStream(out \o posted)
    /\ preTagSize = NextPre(out \o posted)

FlvInv == FlvType /\ BeforeInv /\ StreamInv

-----------------------------------------------------------------------------
(* Tags *)

LEMMA ItemIsPart ==
  ASSUME NEW kind \in PartKinds, NEW n \in Nat, NEW size \in Nat
  PROVE  /\ Http!Item(kind, n, size) \in Part
         /\ Http!Item(kind, n, size).kind = kind
         /\ Http!Item(kind, n, size).n = n
         /\ Http!Item(kind, n, size).size = size
BY DEF Http!Item, Part

\* The three parts of a tag.
TagParts(t, pre, p) ==
  /\ t \in Seq(Part) /\ Len(t) = 3
  /\ t[1].kind = "previous" /\ t[1].size = pre
  /\ t[2].kind = "header" /\ t[2].n = p.n
  /\ t[3].kind = "data" /\ t[3].n = p.n /\ t[3].size = p.size

LEMMA TagHasParts ==
  ASSUME NEW pre \in Nat, NEW p \in Media
  PROVE  TagParts(Http!Tag(pre, p), pre, p)
<1> DEFINE a == Http!Item("previous", 0, pre)
           b == Http!Item("header", p.n, p.size)
           c == Http!Item("data", p.n, p.size)
<1>1. p.n \in Nat /\ p.size \in Nat /\ 0 \in Nat
      /\ "previous" \in PartKinds /\ "header" \in PartKinds /\ "data" \in PartKinds
  BY DEF Media, PartKinds
<1>2. a \in Part /\ a.kind = "previous" /\ a.size = pre
  BY ONLY <1>1, pre \in Nat, ItemIsPart
<1>3. b \in Part /\ b.kind = "header" /\ b.n = p.n
  BY ONLY <1>1, ItemIsPart
<1>4. c \in Part /\ c.kind = "data" /\ c.n = p.n /\ c.size = p.size
  BY ONLY <1>1, ItemIsPart
<1>5. Http!Tag(pre, p) = <<a, b, c>>
  BY DEF Http!Tag
<1> HIDE DEF a, b, c
<1>6. a \in Part /\ b \in Part /\ c \in Part
  BY <1>2, <1>3, <1>4
<1>7. /\ <<a, b, c>> \in Seq(Part) /\ Len(<<a, b, c>>) = 3
      /\ <<a, b, c>>[1] = a /\ <<a, b, c>>[2] = b /\ <<a, b, c>>[3] = c
  BY ONLY <1>6
<1> QED
  BY ONLY <1>2, <1>3, <1>4, <1>5, <1>7 DEF TagParts

\* The place of a part: that of its tag, and its place in it.
LEMMA Thirds ==
  ASSUME NEW i \in Nat
  PROVE  /\ i \div 3 \in Nat /\ i % 3 \in 0 .. 2
         /\ i = 3 * (i \div 3) + (i % 3)
OBVIOUS

\* The places of two sequences joined.
JoinedAt(S, s, t, w, n, l) ==
  /\ w \in Seq(S) /\ Len(w) = n + l
  /\ \A i \in 1 .. n : w[i] = s[i]
  /\ \A k \in 1 .. l : w[n + k] = t[k]

LEMMA JoinPlaces ==
  ASSUME NEW S, NEW s \in Seq(S), NEW t \in Seq(S), NEW n \in Nat, NEW l \in Nat,
         n = Len(s), l = Len(t)
  PROVE  JoinedAt(S, s, t, s \o t, n, l)
<1>1. /\ s \o t \in Seq(S) /\ Len(s \o t) = n + l
      /\ \A i \in 1 .. n + l : (s \o t)[i] = IF i <= n THEN s[i] ELSE t[i - n]
  BY ConcatProperties
<1>2. \A i \in 1 .. n : i \in 1 .. n + l /\ i <= n
  OBVIOUS
<1>3. \A k \in 1 .. l : n + k \in 1 .. n + l /\ ~(n + k <= n) /\ n + k - n = k
  OBVIOUS
<1> QED
  BY ONLY <1>1, <1>2, <1>3 DEF JoinedAt

\* A tag that tells the size of the one before it prolongs a stream.
Prolongs(s, t, p) ==
  IsStream(s \o t) /\ NextPre(s \o t) = p.size + 11

LEMMA TagProlongs ==
  ASSUME NEW s, IsStream(s), NEW p \in Media, NEW t, TagParts(t, NextPre(s), p)
  PROVE  Prolongs(s, t, p)
<1>1. /\ s \in Seq(Part) /\ Len(s) \in Nat /\ Len(s) >= 2 /\ Len(s) % 3 = 2
      /\ t \in Seq(Part) /\ Len(t) = 3
  BY LenProperties DEF IsStream, TagParts
<1>n. PICK n \in Nat : n = Len(s)
  BY <1>1
<1> DEFINE w == s \o t
<1>2. /\ w \in Seq(Part) /\ Len(w) = n + 3
      /\ \A i \in 1 .. n : w[i] = s[i]
      /\ w[n + 1] = t[1] /\ w[n + 2] = t[2] /\ w[n + 3] = t[3]
  <2>1. JoinedAt(Part, s, t, w, n, 3)
    BY <1>1, <1>n, JoinPlaces
  <2>2. 1 \in 1 .. 3 /\ 2 \in 1 .. 3 /\ 3 \in 1 .. 3
    OBVIOUS
  <2> QED
    BY ONLY <2>1, <2>2 DEF JoinedAt
<1> HIDE DEF w
<1>3. w[1] = Http!Item("response", 0, 0) /\ w[2] = Http!Item("flv", 0, 9)
  BY <1>1, <1>n, <1>2 DEF IsStream
<1>4. ASSUME NEW i \in 3 .. n
      PROVE  IsPlace(w, i)
  <2>1. IsPlace(s, i) /\ i \in 1 .. n /\ i - 1 \in 1 .. n
    BY <1>1, <1>n DEF IsStream
  <2>2. w[i] = s[i] /\ w[i - 1] = s[i - 1]
    BY <1>2, <2>1
  <2> QED
    BY ONLY <2>1, <2>2 DEF IsPlace
<1>m. n \in Nat /\ n >= 2
  BY <1>1, <1>n
<1>5. (n + 1) % 3 = 0 /\ (n + 2) % 3 = 1 /\ (n + 3) % 3 = 2
  BY ONLY <1>1, <1>n
<1>6. IsPlace(w, n + 1)
  <2>1. n = 2 <=> n + 1 = 3
    BY ONLY <1>m
  <2>2. n > 2 => w[n] = s[n] /\ n + 1 - 1 = n
    BY <1>2, <1>m
  <2>3. w[n + 1].kind = "previous" /\ w[n + 1].size = NextPre(s)
    BY <1>2 DEF TagParts
  <2>4. w[n + 1].size = IF n + 1 = 3 THEN 0 ELSE w[n + 1 - 1].size + 11
    BY <1>m, <1>n, <2>1, <2>2, <2>3 DEF NextPre
  <2> QED
    BY ONLY <1>5, <2>3, <2>4 DEF IsPlace
<1>7. IsPlace(w, n + 2)
  <2>1. w[n + 2].kind = "header"
    BY <1>2 DEF TagParts
  <2> QED
    BY ONLY <1>5, <2>1 DEF IsPlace
<1>8. IsPlace(w, n + 3)
  <2>1. w[n + 3].kind = "data" /\ w[n + 3].n = w[n + 2].n /\ n + 3 - 1 = n + 2
    BY <1>2, <1>m DEF TagParts
  <2> QED
    BY ONLY <1>5, <2>1 DEF IsPlace
<1>9. \A i \in 3 .. Len(w) : IsPlace(w, i)
  <2>1. \A i \in 3 .. Len(w) : i \in 3 .. n \/ i = n + 1 \/ i = n + 2 \/ i = n + 3
    BY <1>2, <1>m
  <2> QED
    BY <2>1, <1>4, <1>6, <1>7, <1>8
<1>10. IsStream(w)
  <2>1. Len(w) >= 2 /\ Len(w) % 3 = 2
    BY <1>2, <1>m, <1>5
  <2> QED
    BY ONLY <1>2, <1>3, <1>9, <2>1 DEF IsStream
<1>11. NextPre(w) = p.size + 11
  BY <1>2, <1>m DEF NextPre, TagParts
<1> QED
  BY <1>10, <1>11 DEF w, Prolongs

\* An answer without tags is a stream.
LEMMA AnswerIsStream ==
  /\ Answer \in Seq(Part) /\ Len(Answer) = 2
  /\ IsStream(Answer)
  /\ NextPre(Answer) = 0
<1>1. Http!Item("response", 0, 0) \in Part /\ Http!Item("flv", 0, 9) \in Part
  BY ItemIsPart DEF PartKinds
<1>2. /\ Answer \in Seq(Part) /\ Len(Answer) = 2
      /\ Answer[1] = Http!Item("response", 0, 0)
      /\ Answer[2] = Http!Item("flv", 0, 9)
  BY <1>1 DEF Answer
<1>3. 3 .. Len(Answer) = {} /\ Len(Answer) >= 2 /\ Len(Answer) % 3 = 2
  BY <1>2
<1> QED
  BY ONLY <1>2, <1>3 DEF IsStream, NextPre

\* Part j of tag i of the packets m.
TagAt(m, i) == Http!Tag(IF i = 1 THEN 0 ELSE Http!TagSize(m[i - 1].size), m[i])

\* What the tags of m are, part by part: the parts of tag i are at 3i - 2 .. 3i.
LEMMA TagsByParts ==
  ASSUME NEW m \in Seq(Media)
  PROVE  /\ Http!Tags(m) \in Seq(Part)
         /\ Len(Http!Tags(m)) = 3 * Len(m)
         /\ \A i \in 1 .. Len(m) :
              /\ TagParts(TagAt(m, i), IF i = 1 THEN 0 ELSE m[i - 1].size + 11, m[i])
              /\ m[i] \in Media
              /\ Http!Tags(m)[3 * i - 2] = TagAt(m, i)[1]
              /\ Http!Tags(m)[3 * i - 1] = TagAt(m, i)[2]
              /\ Http!Tags(m)[3 * i] = TagAt(m, i)[3]
<1> DEFINE T == Http!Tags(m)
<1>1. Len(m) \in Nat /\ \A i \in 1 .. Len(m) : m[i] \in Media
  BY LenProperties, ElementOfSeq
<1>2. ASSUME NEW i \in 1 .. Len(m)
      PROVE  TagParts(TagAt(m, i), IF i = 1 THEN 0 ELSE m[i - 1].size + 11, m[i])
  <2>1. m[i] \in Media
    BY <1>1
  <2>2. CASE i = 1
    BY <2>1, <2>2, TagHasParts DEF TagAt
  <2>3. CASE i # 1
    <3>1. m[i - 1].size \in Nat
      BY <1>1, <2>3 DEF Media
    <3>2. Http!TagSize(m[i - 1].size) = m[i - 1].size + 11 /\ m[i - 1].size + 11 \in Nat
      BY <3>1 DEF Http!TagSize
    <3> QED
      BY <2>1, <2>3, <3>2, TagHasParts DEF TagAt
  <2> QED
    BY <2>2, <2>3
<1>3. T = [k \in 1 .. 3 * Len(m) |-> TagAt(m, (k + 2) \div 3)[((k + 2) % 3) + 1]]
  BY DEF Http!Tags, TagAt
<1> HIDE DEF T
<1>4. ASSUME NEW k \in 1 .. 3 * Len(m)
      PROVE  T[k] \in Part
  <2> DEFINE i == (k + 2) \div 3
             j == ((k + 2) % 3) + 1
  <2>1. i \in 1 .. Len(m) /\ j \in 1 .. 3
    BY ONLY <1>1, k \in 1 .. 3 * Len(m)
  <2>2. T[k] = TagAt(m, i)[j]
    BY ONLY <1>3, k \in 1 .. 3 * Len(m)
  <2> HIDE DEF i, j
  <2>3. TagAt(m, i) \in Seq(Part) /\ Len(TagAt(m, i)) = 3
    BY <2>1, <1>2 DEF TagParts
  <2>4. TagAt(m, i)[j] \in Part
    BY ONLY <2>1, <2>3, ElementOfSeq
  <2> QED
    BY ONLY <2>2, <2>4
<1>5. T \in Seq(Part) /\ Len(T) = 3 * Len(m)
  <2>1. 3 * Len(m) \in Nat /\ T \in [1 .. 3 * Len(m) -> Part]
    BY <1>1, <1>3, <1>4
  <2> QED
    BY ONLY <2>1, IsASeq, LenProperties
<1>6. ASSUME NEW i \in 1 .. Len(m)
      PROVE  /\ T[3 * i - 2] = TagAt(m, i)[1]
             /\ T[3 * i - 1] = TagAt(m, i)[2]
             /\ T[3 * i] = TagAt(m, i)[3]
  <2>1. /\ 3 * i - 2 \in 1 .. 3 * Len(m)
        /\ 3 * i - 1 \in 1 .. 3 * Len(m)
        /\ 3 * i \in 1 .. 3 * Len(m)
    BY ONLY <1>1, i \in 1 .. Len(m)
  <2>2. /\ (3 * i - 2 + 2) \div 3 = i /\ ((3 * i - 2 + 2) % 3) + 1 = 1
        /\ (3 * i - 1 + 2) \div 3 = i /\ ((3 * i - 1 + 2) % 3) + 1 = 2
        /\ (3 * i + 2) \div 3 = i /\ ((3 * i + 2) % 3) + 1 = 3
    BY ONLY <1>1, i \in 1 .. Len(m)
  <2> QED
    BY ONLY <1>3, <2>1, <2>2
<1> QED
  BY <1>1, <1>2, <1>5, <1>6 DEF T

\* The answer with the tags of the configuration and the cache.
LEMMA MediaIsStream ==
  ASSUME NEW m \in Seq(Media)
  PROVE  /\ Answer \o Http!Tags(m) \in Seq(Part)
         /\ Len(Answer \o Http!Tags(m)) >= 2
         /\ IsStream(Answer \o Http!Tags(m))
         /\ NextPre(Answer \o Http!Tags(m)) =
              IF m = <<>> THEN 0 ELSE m[Len(m)].size + 11
<1> DEFINE T == Http!Tags(m)
           w == Answer \o T
<1>1. /\ T \in Seq(Part) /\ Len(T) = 3 * Len(m)
      /\ \A i \in 1 .. Len(m) :
           /\ TagParts(TagAt(m, i), IF i = 1 THEN 0 ELSE m[i - 1].size + 11, m[i])
           /\ T[3 * i - 2] = TagAt(m, i)[1]
           /\ T[3 * i - 1] = TagAt(m, i)[2]
           /\ T[3 * i] = TagAt(m, i)[3]
  BY TagsByParts
<1>2. Len(m) \in Nat /\ (m = <<>> <=> Len(m) = 0)
  BY LenProperties, EmptySeq
<1> HIDE DEF T
<1>3. JoinedAt(Part, Answer, T, w, 2, 3 * Len(m))
  <2>1. 3 * Len(m) \in Nat
    BY <1>2
  <2> QED
    BY <1>1, <2>1, AnswerIsStream, JoinPlaces
<1> HIDE DEF w
<1>l. Len(w) = 2 + 3 * Len(m)
  BY <1>3 DEF JoinedAt
<1>4. ASSUME NEW i \in 1 .. Len(m)
      PROVE  TagParts(<<w[3 * i], w[3 * i + 1], w[3 * i + 2]>>,
                      IF i = 1 THEN 0 ELSE m[i - 1].size + 11, m[i])
  <2>1. /\ 3 * i - 2 \in 1 .. 3 * Len(m) /\ 2 + (3 * i - 2) = 3 * i
        /\ 3 * i - 1 \in 1 .. 3 * Len(m) /\ 2 + (3 * i - 1) = 3 * i + 1
        /\ 3 * i \in 1 .. 3 * Len(m) /\ 2 + 3 * i = 3 * i + 2
    BY ONLY <1>2, i \in 1 .. Len(m)
  <2>2. w[3 * i] = T[3 * i - 2] /\ w[3 * i + 1] = T[3 * i - 1] /\ w[3 * i + 2] = T[3 * i]
    BY ONLY <1>3, <2>1 DEF JoinedAt
  <2>3. TagAt(m, i) = <<TagAt(m, i)[1], TagAt(m, i)[2], TagAt(m, i)[3]>>
    BY DEF TagAt, Http!Tag
  <2>4. TagAt(m, i) = <<w[3 * i], w[3 * i + 1], w[3 * i + 2]>>
    BY ONLY <1>1, <2>2, <2>3, i \in 1 .. Len(m)
  <2> QED
    BY ONLY <1>1, <2>4, i \in 1 .. Len(m)
<1>5. ASSUME NEW x \in 3 .. Len(w)
      PROVE  IsPlace(w, x)
  <2>1. PICK i \in 1 .. Len(m) : x = 3 * i \/ x = 3 * i + 1 \/ x = 3 * i + 2
    <3>1. /\ x \div 3 \in 1 .. Len(m)
          /\ x = 3 * (x \div 3) \/ x = 3 * (x \div 3) + 1 \/ x = 3 * (x \div 3) + 2
      BY ONLY <1>2, <1>l, x \in 3 .. Len(w)
    <3> QED
      BY ONLY <3>1
  <2>2. /\ w[3 * i].kind = "previous"
        /\ w[3 * i].size = IF i = 1 THEN 0 ELSE m[i - 1].size + 11
        /\ w[3 * i + 1].kind = "header"
        /\ w[3 * i + 2].kind = "data" /\ w[3 * i + 2].n = w[3 * i + 1].n
    BY ONLY <1>4, i \in 1 .. Len(m) DEF TagParts
  <2>3. /\ (3 * i) % 3 = 0 /\ (3 * i + 1) % 3 = 1 /\ (3 * i + 2) % 3 = 2
        /\ 3 * i + 2 - 1 = 3 * i + 1
        /\ (i = 1 <=> 3 * i = 3)
    BY ONLY <1>2, i \in 1 .. Len(m)
  <2>4. CASE x = 3 * i
    <3>1. i # 1 => w[3 * i - 1].size = m[i - 1].size
      <4>1. i # 1 => i - 1 \in 1 .. Len(m) /\ 3 * (i - 1) + 2 = 3 * i - 1
        BY ONLY <1>2, i \in 1 .. Len(m)
      <4>2. i # 1 => w[3 * (i - 1) + 2].size = m[i - 1].size
        BY ONLY <1>4, <4>1 DEF TagParts
      <4> QED
        BY ONLY <4>1, <4>2
    <3>2. i = 1 <=> x = 3
      BY ONLY <2>3, <2>4
    <3>3. x % 3 = 0 /\ x % 3 # 1 /\ x % 3 # 2
      BY ONLY <2>3, <2>4
    <3>4. w[x].kind = "previous" /\ w[x].size = IF x = 3 THEN 0 ELSE w[x - 1].size + 11
      BY ONLY <2>2, <2>4, <3>1, <3>2
    <3> QED
      BY ONLY <3>3, <3>4 DEF IsPlace
  <2>5. CASE x = 3 * i + 1
    BY ONLY <2>2, <2>3, <2>5 DEF IsPlace
  <2>6. CASE x = 3 * i + 2
    BY ONLY <2>2, <2>3, <2>6 DEF IsPlace
  <2> QED
    BY ONLY <2>1, <2>4, <2>5, <2>6
<1>6. Len(w) >= 2 /\ Len(w) % 3 = 2
  BY ONLY <1>2, <1>l
<1>7. IsStream(w)
  <2>1. w \in Seq(Part) /\ w[1] = Answer[1] /\ w[2] = Answer[2]
    BY <1>3 DEF JoinedAt
  <2> QED
    BY <2>1, <1>5, <1>6, AnswerIsStream DEF IsStream
<1>8. NextPre(w) = IF m = <<>> THEN 0 ELSE m[Len(m)].size + 11
  <2>1. CASE m = <<>>
    BY <1>2, <1>l, <2>1 DEF NextPre
  <2>2. CASE m # <<>>
    <3>1. Len(m) \in 1 .. Len(m) /\ Len(w) = 3 * Len(m) + 2 /\ Len(w) # 2
      BY ONLY <1>2, <1>l, <2>2
    <3>2. w[3 * Len(m) + 2].size = m[Len(m)].size
      BY ONLY <1>4, <3>1 DEF TagParts
    <3> QED
      BY <2>2, <3>1, <3>2 DEF NextPre
  <2> QED
    BY <2>1, <2>2
<1> QED
  BY <1>3, <1>6, <1>7, <1>8 DEF w, T, JoinedAt

-----------------------------------------------------------------------------
(* The answer to one request *)

\* Steps that neither send, nor answer, nor touch the source or the publisher.
LEMMA FlvKept ==
  ASSUME FlvInv, pc' = "register" => pc = "register",
         UNCHANGED <<answered, preTagSize, out, posted, source, registered, pushing,
                     published>>
  PROVE  FlvInv'
BY DEF FlvInv, FlvType, BeforeInv, StreamInv

LEMMA FlvInit == Http!Init => FlvInv
<1> SUFFICES ASSUME Http!Init PROVE FlvInv
  OBVIOUS
<1>1. <<>> \in Seq({}) /\ <<>> \in Seq(Media) /\ Len(<<>>) # 1
  BY EmptySeq
<1>2. Http!NoPacket \in Media
  BY DEF Http!NoPacket, Media
<1>3. FlvType
  BY <1>1, <1>2 DEF Http!Init, FlvType
<1>4. BeforeInv /\ StreamInv
  BY <1>1 DEF Http!Init, BeforeInv, StreamInv
<1> QED
  BY <1>3, <1>4 DEF FlvInv

\* A request answered makes the requests answered one more.
LEMMA AnsweredMore ==
  ASSUME NEW S, answered \in Seq(S), answered' = Append(answered, url)
  PROVE  /\ \E R : answered' \in Seq(R)
         /\ Len(answered') = Len(answered) + 1
         /\ answered' # <<>>
<1>1. answered \in Seq(S \union {url}) /\ url \in S \union {url}
  <2>1. Len(answered) \in Nat /\ answered \in [1 .. Len(answered) -> S \union {url}]
    BY LenProperties
  <2> QED
    BY ONLY <2>1, IsASeq
<1>2. answered' \in Seq(S \union {url}) /\ Len(answered') = Len(answered) + 1
  BY <1>1, AppendProperties
<1>3. Len(answered) \in Nat
  BY LenProperties
<1> QED
  BY <1>2, <1>3, EmptySeq

\* The first answer is a stream of its own; a later one begins another in the middle of it.
LEMMA ProcessHttpFlv ==
  ASSUME FlvInv, Http!ProcessHttp
  PROVE  FlvInv'
<1> USE DEF FlvInv
<1>1. /\ answered' = Append(answered, url)
      /\ UNCHANGED <<posted, source, registered, pushing, published>>
  BY DEF Http!ProcessHttp, Http!publisherVars
<1> DEFINE m == IF source.config = <<>> THEN <<>> ELSE source.config \o source.gop
<1>2. /\ out' = (out \o Answer) \o Http!Tags(m)
      /\ preTagSize' = IF m = <<>> THEN 0 ELSE Http!TagSize(Http!Last(m).size)
  BY DEF Http!ProcessHttp, Answer
<1>3. m \in Seq(Media)
  <2>1. source.config \in Seq(Media) /\ source.gop \in Seq(Media) /\ <<>> \in Seq(Media)
    BY EmptySeq DEF FlvType
  <2> QED
    BY <2>1, ConcatProperties
<1> HIDE DEF m
<1>4. PICK S : answered \in Seq(S)
  BY DEF FlvType
<1>5. /\ \E R : answered' \in Seq(R)
      /\ Len(answered') = Len(answered) + 1
      /\ answered' # <<>>
  BY <1>1, <1>4, AnsweredMore
<1>6. FlvType'
  BY <1>1, <1>5 DEF FlvType
<1>n. Len(answered') = Len(answered) + 1
  BY <1>5
<1>7. BeforeInv'
  BY <1>1, <1>5 DEF BeforeInv
<1>8. ASSUME Len(answered') = 1
      PROVE  /\ out' \in Seq(Part) /\ posted' \in Seq(Part)
             /\ Len(out') >= 2
             /\ IsStream(out' \o posted')
             /\ preTagSize' = NextPre(out' \o posted')
  <2>1. out = <<>> /\ posted = <<>>
    <3>1. Len(answered) = 0
      <4>1. Len(answered) \in Nat
        BY <1>4, LenProperties
      <4> DEFINE before == Len(answered)
                 after == Len(answered')
      <4>2. before \in Nat /\ after = before + 1 /\ after = 1
        BY <4>1, <1>n, <1>8
      <4> HIDE DEF before, after
      <4>3. before = 0
        BY ONLY <4>2
      <4> QED
        BY ONLY <4>3 DEF before
    <3> QED
      BY <1>4, <3>1, EmptySeq DEF BeforeInv
  <2>2. out' = Answer \o Http!Tags(m)
    BY <1>2, <2>1, AnswerIsStream, ConcatEmptySeq
  <2>3. out' \in Seq(Part) /\ Len(out') >= 2 /\ IsStream(out')
        /\ NextPre(out') = IF m = <<>> THEN 0 ELSE m[Len(m)].size + 11
    BY <1>3, <2>2, MediaIsStream
  <2>4. out' \o posted' = out' /\ posted' \in Seq(Part)
    BY <1>1, <2>1, <2>3, ConcatEmptySeq, EmptySeq
  <2>5. preTagSize' = NextPre(out')
    BY <1>2, <2>3 DEF Http!TagSize, Http!Last
  <2> QED
    BY <2>3, <2>4, <2>5
<1>9. StreamInv'
  BY <1>8 DEF StreamInv
<1> QED
  BY <1>6, <1>7, <1>9
\* The publisher's steps before it calls anybody.
LEMMA PublisherFlv ==
  ASSUME FlvInv, Http!HttpConstants,
         \/ Http!CreateSource
         \/ \E size \in Sizes : Http!PushPacketConfig(size) \/ Http!PushPacket(size)
         \/ \E isKey \in BOOLEAN : Http!Cache(isKey)
  PROVE  FlvInv'
<1> USE DEF FlvInv
<1>1. UNCHANGED <<pc, answered, preTagSize, out, posted, registered>>
  BY DEF Http!CreateSource, Http!PushPacketConfig, Http!PushPacket, Http!Cache, Http!flvVars
<1>2. StreamInv'
  BY <1>1 DEF StreamInv
<1>3. ASSUME Http!CreateSource
      PROVE  FlvType' /\ BeforeInv'
  BY <1>1, <1>3 DEF Http!CreateSource, Http!publisherVars, FlvType, BeforeInv
<1>4. ASSUME NEW size \in Sizes, Http!PushPacketConfig(size)
      PROVE  FlvType' /\ BeforeInv'
  <2>1. [n |-> published', size |-> size] \in Media /\ published' \in Nat
    BY <1>4 DEF Http!PushPacketConfig, Http!HttpConstants, FlvType, Media
  <2>2. <<[n |-> published', size |-> size]>> \in Seq(Media)
    BY ONLY <2>1
  <2> QED
    BY <1>1, <1>4, <2>1, <2>2 DEF Http!PushPacketConfig, FlvType, BeforeInv
<1>5. ASSUME NEW size \in Sizes, Http!PushPacket(size)
      PROVE  FlvType' /\ BeforeInv'
  <2>1. [n |-> published', size |-> size] \in Media /\ published' \in Nat
    BY <1>5 DEF Http!PushPacket, Http!HttpConstants, FlvType, Media
  <2> QED
    BY <1>1, <1>5, <2>1 DEF Http!PushPacket, FlvType, BeforeInv
<1>6. ASSUME NEW isKey \in BOOLEAN, Http!Cache(isKey)
      PROVE  FlvType' /\ BeforeInv'
  <2>1. pushing.packet \in Media /\ source.gop \in Seq(Media)
    BY DEF FlvType
  <2>2. Append(source.gop, pushing.packet) \in Seq(Media) /\ <<pushing.packet>> \in Seq(Media)
    BY ONLY <2>1
  <2>3. source' \in [made : BOOLEAN, config : Seq(Media), gop : Seq(Media)]
    BY <1>6, <2>2 DEF Http!Cache, FlvType
  <2>4. pushing' = [pushing EXCEPT !.at = IF pushing.left = 0 THEN "idle" ELSE "deliver"]
    BY <1>6 DEF Http!Cache
  <2>5. /\ pushing' \in [at : {"idle", "cache", "deliver"}, left : Nat, packet : Media]
        /\ pushing'.left = pushing.left
        /\ pushing'.at = "deliver" => pushing.left > 0
    BY <2>4 DEF FlvType
  <2> QED
    BY <1>1, <1>6, <2>3, <2>5 DEF Http!Cache, FlvType, BeforeInv
<1> QED
  BY <1>2, <1>3, <1>4, <1>5, <1>6

\* The publisher's thread writes its tag behind whatever the connection's thread has sent,
\* and finds the size that that one has left.
LEMMA DeliverFlv ==
  ASSUME FlvInv, Http!Deliver
  PROVE  FlvInv'
<1> USE DEF FlvInv
<1>1. /\ pushing.at = "deliver"
      /\ posted' = posted \o Http!Tag(preTagSize, pushing.packet)
      /\ preTagSize' = Http!TagSize(pushing.packet.size)
      /\ pushing' = [pushing EXCEPT !.left = @ - 1,
                                    !.at = IF pushing.left = 1 THEN "idle" ELSE "deliver"]
      /\ UNCHANGED <<pc, answered, out, source, registered, published>>
  BY DEF Http!Deliver
<1>2. /\ pushing.left \in Nat /\ pushing.left > 0 /\ answered # <<>>
      /\ pushing.packet \in Media
  BY <1>1 DEF BeforeInv, FlvType
<1>3. /\ pushing' \in [at : {"idle", "cache", "deliver"}, left : Nat, packet : Media]
      /\ pushing'.at = "deliver" => pushing'.left > 0
  <2>1. pushing.left - 1 \in Nat /\ (pushing.left # 1 => pushing.left - 1 > 0)
    BY <1>2
  <2> QED
    BY <1>1, <1>2, <2>1 DEF FlvType
<1>4. FlvType' /\ BeforeInv'
  BY <1>1, <1>2, <1>3 DEF FlvType, BeforeInv
<1>5. ASSUME Len(answered) = 1
      PROVE  /\ out \in Seq(Part) /\ posted' \in Seq(Part)
             /\ Len(out) >= 2
             /\ IsStream(out \o posted')
             /\ preTagSize' = NextPre(out \o posted')
  <2>1. /\ out \in Seq(Part) /\ posted \in Seq(Part) /\ Len(out) >= 2
        /\ IsStream(out \o posted) /\ preTagSize = NextPre(out \o posted)
    BY <1>5 DEF StreamInv
  <2>2. preTagSize \in Nat
    <3>1. /\ out \o posted \in Seq(Part) /\ Len(out \o posted) >= 2
          /\ Len(out \o posted) \in Nat
      BY <2>1, LenProperties DEF IsStream
    <3>2. (out \o posted)[Len(out \o posted)] \in Part
      <4>1. Len(out \o posted) \in 1 .. Len(out \o posted)
        BY <3>1
      <4> QED
        BY ONLY <3>1, <4>1, ElementOfSeq
    <3>3. (out \o posted)[Len(out \o posted)].size \in Nat
      BY <3>2 DEF Part
    <3> QED
      BY ONLY <2>1, <3>3 DEF NextPre
  <2> DEFINE t == Http!Tag(preTagSize, pushing.packet)
  <2>3. TagParts(t, NextPre(out \o posted), pushing.packet) /\ t \in Seq(Part)
    BY <1>2, <2>1, <2>2, TagHasParts DEF TagParts
  <2> HIDE DEF t
  <2>4. Prolongs(out \o posted, t, pushing.packet)
    BY <1>2, <2>1, <2>3, TagProlongs
  <2>5. AreSeqs(Part, out, posted, t)
    BY <2>1, <2>3 DEF AreSeqs
  <2>6. Associates(out, posted, t)
    BY ONLY <2>5, Associative
  <2>7. posted' = posted \o t /\ posted' \in Seq(Part)
    BY <1>1, <2>1, <2>3, ConcatProperties DEF t
  <2> QED
    BY <1>1, <2>1, <2>4, <2>6, <2>7 DEF Prolongs, Associates, Http!TagSize
<1>6. StreamInv'
  BY <1>1, <1>5 DEF StreamInv
<1> QED
  BY <1>4, <1>6

\* The loop sends what is posted: out and posted together stay what they are.
LEMMA RunPostedFlv ==
  ASSUME FlvInv, Http!RunPosted
  PROVE  FlvInv'
<1> USE DEF FlvInv
<1>1. /\ pc = "idle" /\ posted # <<>>
      /\ out' = Append(out, Head(posted)) /\ posted' = Tail(posted)
      /\ UNCHANGED <<pc, answered, preTagSize, source, registered, pushing, published>>
  BY DEF Http!RunPosted, Http!publisherVars
<1>2. FlvType' /\ BeforeInv'
  BY <1>1 DEF FlvType, BeforeInv
<1>3. ASSUME Len(answered) = 1
      PROVE  /\ out' \in Seq(Part) /\ posted' \in Seq(Part)
             /\ Len(out') >= 2
             /\ out' \o posted' = out \o posted
  <2>1. out \in Seq(Part) /\ posted \in Seq(Part) /\ Len(out) >= 2 /\ Len(out) \in Nat
    BY <1>3, LenProperties DEF StreamInv
  <2>2. /\ Head(posted) \in Part /\ Tail(posted) \in Seq(Part)
        /\ posted = <<Head(posted)>> \o Tail(posted)
    <3>1. Head(posted) \in Part /\ Tail(posted) \in Seq(Part)
      BY <1>1, <2>1, HeadTailProperties
    <3>2. posted = <<Head(posted)>> \o Tail(posted)
      BY ONLY <1>1, <2>1, <3>1
    <3> QED
      BY <3>1, <3>2
  <2>3. /\ out' \in Seq(Part) /\ Len(out') = Len(out) + 1
        /\ out' = out \o <<Head(posted)>>
    BY <1>1, <2>1, <2>2, AppendProperties, AppendIsConcat
  <2>4. AreSeqs(Part, out, <<Head(posted)>>, Tail(posted))
    <3>1. <<Head(posted)>> \in Seq(Part)
      BY ONLY <2>2
    <3> QED
      BY <2>1, <2>2, <3>1 DEF AreSeqs
  <2>5. Associates(out, <<Head(posted)>>, Tail(posted))
    BY ONLY <2>4, Associative
  <2> QED
    BY <1>1, <2>1, <2>2, <2>3, <2>5 DEF Associates
<1>4. StreamInv'
  BY <1>1, <1>3 DEF StreamInv
<1> QED
  BY <1>2, <1>4

LEMMA FlvStep == FlvInv /\ Http!HttpConstants /\ [Http!Next]_(Http!vars) => FlvInv'
<1> SUFFICES ASSUME FlvInv, Http!HttpConstants, [Http!Next]_(Http!vars)
             PROVE  FlvInv'
  OBVIOUS
<1> USE DEF Http!vars, Http!clientVars, Http!parserVars, Http!flvVars, Http!publisherVars
<1>1. ASSUME \/ UNCHANGED Http!vars
             \/ \E body \in Bodies : Http!SendRequest(body)
      PROVE  FlvInv'
  <2>1. UNCHANGED <<pc, answered, preTagSize, out, posted, source, registered, pushing,
                    published>>
    BY <1>1 DEF Http!SendRequest
  <2> QED
    BY <2>1, FlvKept
<1>2. ASSUME \/ \E k \in 1 .. Len(coming) : Http!Receive(k)
             \/ Http!WaitingHeader \/ Http!WaitingBody \/ Http!WaitingContentLength
      PROVE  FlvInv'
  <2>1. UNCHANGED <<answered, preTagSize, out, posted, source, registered, pushing,
                    published>>
    BY <1>2 DEF Http!Receive, Http!WaitingHeader, Http!WaitingBody,
                Http!WaitingContentLength
  <2>2. pc' \in {"idle", "parse", pc}
    BY <1>2 DEF Http!Receive, Http!WaitingHeader, Http!WaitingBody,
                Http!WaitingContentLength
  <2> QED
    BY <2>1, <2>2, FlvKept
<1>3. ASSUME Http!Register
      PROVE  FlvInv'
  <2>1. /\ pc = "register" /\ pc' = "parse" /\ registered' = registered + 1
        /\ UNCHANGED <<answered, preTagSize, out, posted, source, pushing, published>>
    BY <1>3 DEF Http!Register
  <2> QED
    BY <2>1 DEF FlvInv, FlvType, BeforeInv, StreamInv
<1> QED
  BY <1>1, <1>2, <1>3, ProcessHttpFlv, PublisherFlv, DeliverFlv, RunPostedFlv
     DEF Http!Next, Http!Running

LEMMA FlvInvariant == Http!Spec => []FlvInv
<1>1. FlvInv /\ [Http!Next]_(Http!vars) => FlvInv'
  BY HttpAssumption, FlvStep
<1> QED
  BY FlvInit, <1>1, PTL DEF Http!Spec

\* The tags that the connection's loop and the publisher's thread send for one request make
\* one FLV stream, for any sizes and any number of packets: each tells the size of the one
\* before it, although the two threads share preTagSize_ without a lock.
THEOREM FlvStaysWellFormed == Http!Spec => []FlvWellFormed
<1>1. FlvInv => FlvWellFormed
  <2> SUFFICES ASSUME FlvInv, Len(answered) = 1
               PROVE  LET tags == SubSeq(out, 3, Len(out))
                          part == [i \in DOMAIN tags |-> tags[i].kind]
                      IN  /\ SubSeq(out, 1, 2) = Answer
                          /\ \A i \in DOMAIN tags :
                               CASE i % 3 = 1 ->
                                      /\ part[i] = "previous"
                                      /\ tags[i].size = IF i = 1 THEN 0
                                                        ELSE tags[i - 1].size + 11
                                 [] i % 3 = 2 -> part[i] = "header"
                                 [] OTHER -> part[i] = "data" /\ tags[i].n = tags[i - 1].n
    BY DEF FlvWellFormed, Http!FlvWellFormed, Answer
  <2> DEFINE s == out \o posted
             tags == SubSeq(out, 3, Len(out))
             part == [i \in DOMAIN tags |-> tags[i].kind]
  <2>1. /\ out \in Seq(Part) /\ posted \in Seq(Part) /\ IsStream(s)
        /\ Len(out) \in Nat /\ Len(posted) \in Nat /\ Len(out) >= 2
    BY LenProperties DEF FlvInv, StreamInv
  <2>2. JoinedAt(Part, out, posted, s, Len(out), Len(posted))
    BY <2>1, JoinPlaces
  <2> HIDE DEF s
  <2>3. /\ out[1] = Http!Item("response", 0, 0) /\ out[2] = Http!Item("flv", 0, 9)
        /\ \A i \in 3 .. Len(out) : IsPlace(out, i)
    <3>1. 1 \in 1 .. Len(out) /\ 2 \in 1 .. Len(out)
      BY <2>1
    <3>2. ASSUME NEW i \in 3 .. Len(out)
          PROVE  IsPlace(out, i)
      <4>1. i \in 1 .. Len(out) /\ i - 1 \in 1 .. Len(out) /\ i \in 3 .. Len(s)
        BY <2>1, <2>2 DEF JoinedAt
      <4>2. s[i] = out[i] /\ s[i - 1] = out[i - 1] /\ IsPlace(s, i)
        BY <2>1, <2>2, <4>1 DEF JoinedAt, IsStream
      <4> QED
        BY ONLY <4>2 DEF IsPlace
    <3> QED
      BY <2>1, <2>2, <3>1, <3>2 DEF JoinedAt, IsStream
  <2>l. out \in Seq(Part) /\ Len(out) \in Nat /\ Len(out) >= 2
    BY <2>1
  <2>4. SubSeq(out, 1, 2) = Answer
    <3> DEFINE start == SubSeq(out, 1, 2)
               answer == <<out[1], out[2]>>
    <3>1. out[1] \in Part /\ out[2] \in Part
      BY ONLY <2>l
    <3>2. start \in Seq(Part) /\ Len(start) = 2 /\ start[1] = out[1] /\ start[2] = out[2]
      <4>1. \A i \in 1 .. 2 : out[i] \in Part
        BY ONLY <2>l
      <4>2. /\ SubSeq(out, 1, 2) \in Seq(Part)
            /\ Len(SubSeq(out, 1, 2)) = 2 - 1 + 1
            /\ \A i \in 1 .. 2 - 1 + 1 : SubSeq(out, 1, 2)[i] = out[1 + i - 1]
        BY ONLY <4>1, 1 \in Int, 2 \in Int, 1 <= 2 + 1, SubSeqProperties
      <4> QED
        BY ONLY <4>2
    <3>3. answer \in Seq(Part) /\ Len(answer) = 2 /\ answer[1] = out[1] /\ answer[2] = out[2]
      BY ONLY <3>1
    <3>4. start = answer
      <4> HIDE DEF start, answer
      <4>1. \A i \in 1 .. Len(start) : start[i] = answer[i]
        BY ONLY <3>2, <3>3
      <4> QED
        BY ONLY <3>2, <3>3, <4>1, SeqEqual
    <3> QED
      BY <2>3, <3>4 DEF Answer
  <2>5. /\ Len(tags) = Len(out) - 2 /\ DOMAIN tags = 1 .. Len(out) - 2
        /\ \A i \in 1 .. Len(out) - 2 : tags[i] = out[i + 2]
    <3> DEFINE n == Len(out)
    <3>1. n \in Nat /\ n >= 2 /\ \A i \in 3 .. n : out[i] \in Part
      BY ONLY <2>l
    <3>2. tags = SubSeq(out, 3, n)
      OBVIOUS
    <3> HIDE DEF tags, n
    <3>3. n \in Int /\ 3 \in Int /\ 3 <= n + 1
      BY ONLY <3>1
    <3>4. /\ tags \in Seq(Part)
          /\ Len(tags) = n - 3 + 1
          /\ \A i \in 1 .. n - 3 + 1 : tags[i] = out[3 + i - 1]
      BY ONLY <3>1, <3>2, <3>3, SubSeqProperties
    <3>5. n - 3 + 1 = n - 2 /\ \A i \in 1 .. n - 2 : 3 + i - 1 = i + 2
      BY ONLY <3>1
    <3>6. DOMAIN tags = 1 .. Len(tags)
      BY ONLY <3>4
    <3> QED
      BY ONLY <3>4, <3>5, <3>6 DEF n
  <2> HIDE DEF tags
  <2>6. ASSUME NEW i \in DOMAIN tags
        PROVE  CASE i % 3 = 1 ->
                      /\ part[i] = "previous"
                      /\ tags[i].size = IF i = 1 THEN 0 ELSE tags[i - 1].size + 11
                 [] i % 3 = 2 -> part[i] = "header"
                 [] OTHER -> part[i] = "data" /\ tags[i].n = tags[i - 1].n
    <3>1. i \in 1 .. Len(out) - 2 /\ i + 2 \in 3 .. Len(out)
      BY <2>1, <2>5
    <3>2. /\ i % 3 = 1 => (i + 2) % 3 = 0
          /\ i % 3 = 2 => (i + 2) % 3 = 1
          /\ i % 3 # 1 /\ i % 3 # 2 => (i + 2) % 3 = 2 /\ i # 1
          /\ (i = 1 <=> i + 2 = 3)
      BY ONLY <2>l, <3>1
    <3> DEFINE j == i + 2
    <3>3. IsPlace(out, j) /\ tags[i] = out[j] /\ part[i] = tags[i].kind
      BY <2>3, <2>5, <3>1
    <3>4. i # 1 => tags[i - 1] = out[j - 1]
      <4>1. i # 1 => i - 1 \in 1 .. Len(out) - 2 /\ (i - 1) + 2 = j - 1
        BY ONLY <2>l, <3>1
      <4>2. i # 1 => tags[i - 1] = out[(i - 1) + 2]
        BY ONLY <2>5, <4>1
      <4> QED
        BY ONLY <4>1, <4>2
    <3> HIDE DEF part
    <3>5. /\ i % 3 = 1 => j % 3 = 0
          /\ i % 3 # 1 /\ i % 3 # 2 => j % 3 = 2 /\ i # 1
          /\ i % 3 = 2 => j % 3 = 1
          /\ i = 1 <=> j = 3
      BY ONLY <3>2
    <3> HIDE DEF j
    <3>6. ASSUME i % 3 = 1
          PROVE  /\ part[i] = "previous"
                 /\ tags[i].size = IF i = 1 THEN 0 ELSE tags[i - 1].size + 11
      <4>1. j % 3 = 0
        BY ONLY <3>5, <3>6
      <4>2. /\ out[j].kind = "previous"
            /\ out[j].size = IF j = 3 THEN 0 ELSE out[j - 1].size + 11
        BY ONLY <3>3, <4>1 DEF IsPlace
      <4>3. CASE i = 1
        BY ONLY <3>3, <3>5, <4>2, <4>3
      <4>4. CASE i # 1
        BY ONLY <3>3, <3>4, <3>5, <4>2, <4>4
      <4> QED
        BY ONLY <4>3, <4>4
    <3>7. ASSUME i % 3 = 2
          PROVE  part[i] = "header"
      BY ONLY <3>3, <3>5, <3>7 DEF IsPlace
    <3>8. ASSUME i % 3 # 1, i % 3 # 2
          PROVE  part[i] = "data" /\ tags[i].n = tags[i - 1].n
      <4>1. j % 3 = 2 /\ i # 1
        BY ONLY <3>5, <3>8
      <4>2. out[j].kind = "data" /\ out[j].n = out[j - 1].n
        BY ONLY <3>3, <4>1 DEF IsPlace
      <4> QED
        BY ONLY <3>3, <3>4, <4>1, <4>2
    <3> QED
      BY ONLY <3>6, <3>7, <3>8
  <2> QED
    BY <2>4, <2>6 DEF tags
<1> QED
  BY <1>1, FlvInvariant, PTL

-----------------------------------------------------------------------------
(* Requests *)

Symbol == [kind : {"first", "length", "half", "byte"}, n : Nat]

\* A request with a body of length b: its symbols, and those of its head.
RequestSize(b) == IF b = 0 THEN 3 ELSE b + 4
HeadSize(b) == IF b = 0 THEN 1 ELSE 2

\* Request i, with a body of length b, lies in h behind place o.
IsRequest(h, o, i, b) ==
  /\ h[o + 1] = Http!First(i)
  /\ b # 0 => h[o + 2] = Http!Length(b)
  /\ h[o + HeadSize(b) + 1] = Http!HalfEnd
  /\ h[o + HeadSize(b) + 2] = Http!HalfEnd
  /\ \A j \in 2 .. RequestSize(b) : h[o + j].kind # "first"

\* In h, all that was ever sent, the requests r lie one behind the other; request i ends
\* at off[i].
Laid(h, off, r) ==
  /\ r \in Seq(Nat)
  /\ off \in [0 .. Len(r) -> Nat]
  /\ \A i \in 1 .. Len(r) :
       /\ off[i] = off[i - 1] + RequestSize(r[i])
       /\ IsRequest(h, off[i - 1], i, r[i])
  /\ \A i, j \in 0 .. Len(r) : i < j => off[i] < off[j]

\* t, a request with a body of length b, is sent behind the requests r: g is all that was
\* ever sent then, and e are the ends.
MoreSent(h, off, r, b, t, g, e) ==
  /\ Laid(h, off, r) /\ b \in Nat /\ IsRequest(t, 0, Len(r) + 1, b)
  /\ g = [x \in Nat |-> IF x <= off[Len(r)] THEN h[x] ELSE t[x - off[Len(r)]]]
  /\ e = [i \in 0 .. Len(r) + 1 |-> IF i <= Len(r) THEN off[i]
                                    ELSE off[Len(r)] + RequestSize(b)]

MoreLaid(h, off, r, b, t, g, e) ==
  /\ Laid(g, e, Append(r, b))
  /\ \A i \in 0 .. Len(r) : e[i] = off[i]
  /\ off[Len(r)] \in Nat /\ e[Len(r) + 1] = off[Len(r)] + RequestSize(b)
  /\ \A x \in 0 .. off[Len(r)] : g[x] = h[x]
  /\ \A x \in 1 .. RequestSize(b) : g[off[Len(r)] + x] = t[x]

LEMMA LaidMore ==
  ASSUME NEW h, NEW off, NEW r, NEW b, NEW t, NEW g, NEW e, MoreSent(h, off, r, b, t, g, e)
  PROVE  MoreLaid(h, off, r, b, t, g, e)
<1>0. /\ Laid(h, off, r) /\ b \in Nat /\ IsRequest(t, 0, Len(r) + 1, b)
      /\ g = [x \in Nat |-> IF x <= off[Len(r)] THEN h[x] ELSE t[x - off[Len(r)]]]
      /\ e = [i \in 0 .. Len(r) + 1 |-> IF i <= Len(r) THEN off[i]
                                        ELSE off[Len(r)] + RequestSize(b)]
  BY DEF MoreSent
<1>1. PICK n : n = Len(r)
  OBVIOUS
<1>2. PICK z : z = off[n]
  OBVIOUS
<1>3. n \in Nat /\ r \in Seq(Nat) /\ off \in [0 .. n -> Nat]
      /\ \A i \in 1 .. n : r[i] \in Nat
  BY <1>0, <1>1, LenProperties, ElementOfSeq DEF Laid
<1>4. z \in Nat /\ n \in 0 .. n
  BY ONLY <1>2, <1>3
<1>5. RequestSize(b) \in Nat \ {0} /\ HeadSize(b) \in 1 .. 2 /\ HeadSize(b) + 2 <= RequestSize(b)
      /\ (b # 0 => HeadSize(b) = 2)
  BY <1>0 DEF RequestSize, HeadSize
<1>6. g = [x \in Nat |-> IF x <= z THEN h[x] ELSE t[x - z]]
  BY <1>0, <1>1, <1>2
<1>7. \A x \in 0 .. z : g[x] = h[x]
  BY ONLY <1>4, <1>6
<1>8. \A x \in 1 .. RequestSize(b) : g[z + x] = t[x]
  <2> SUFFICES ASSUME NEW x \in 1 .. RequestSize(b)
               PROVE  g[z + x] = t[x]
    OBVIOUS
  <2>1. z + x \in Nat /\ ~ (z + x <= z) /\ (z + x) - z = x
    BY ONLY <1>4, <1>5, x \in 1 .. RequestSize(b)
  <2> QED
    BY ONLY <1>6, <2>1
<1>9. e = [i \in 0 .. n + 1 |-> IF i <= n THEN off[i] ELSE z + RequestSize(b)]
  BY <1>0, <1>1, <1>2
<1>10. \A i \in 0 .. n : e[i] = off[i]
  BY ONLY <1>3, <1>9
<1>11. e[n + 1] = z + RequestSize(b)
  BY ONLY <1>3, <1>9
<1>12. PICK q : q = Append(r, b)
  OBVIOUS
<1>13. /\ q \in Seq(Nat) /\ Len(q) = n + 1 /\ q[n + 1] = b
       /\ \A i \in 1 .. n : q[i] = r[i]
  BY ONLY <1>1, <1>3, <1>12, AppendProperties, <1>0
<1>14. e \in [0 .. n + 1 -> Nat]
  <2>1. \A i \in 0 .. n + 1 : e[i] \in Nat
    <3>1. \A i \in 0 .. n + 1 : i \in 0 .. n \/ i = n + 1
      BY ONLY <1>3
    <3>2. z + RequestSize(b) \in Nat
      BY ONLY <1>4, <1>5
    <3> QED
      BY ONLY <1>3, <1>10, <1>11, <3>1, <3>2
  <2>2. e = [i \in 0 .. n + 1 |-> e[i]]
    BY ONLY <1>9
  <2> QED
    BY ONLY <2>1, <2>2
<1>15. \A i, j \in 0 .. n : i < j => off[i] < off[j]
  BY <1>0, <1>1 DEF Laid
<1>16. \A i \in 0 .. n : off[i] <= z /\ off[i] \in Nat
  <2> SUFFICES ASSUME NEW i \in 0 .. n
               PROVE  off[i] <= z /\ off[i] \in Nat
    OBVIOUS
  <2>1. off[i] \in Nat
    BY ONLY <1>3, i \in 0 .. n
  <2>2. CASE i = n
    BY <1>2, <1>4, <2>2
  <2>3. CASE i # n
    <3>1. i < n
      BY ONLY <1>3, <2>3, i \in 0 .. n
    <3>2. off[i] < z
      BY ONLY <1>2, <1>4, <1>15, <3>1, i \in 0 .. n
    <3> QED
      BY ONLY <1>4, <2>1, <3>2
  <2> QED
    BY <2>2, <2>3
<1>17. ASSUME NEW i \in 0 .. n + 1, NEW j \in 0 .. n + 1, i < j
       PROVE  e[i] < e[j]
  <2>1. i \in 0 .. n
    BY ONLY <1>3, <1>17
  <2>2. CASE j = n + 1
    BY ONLY <1>4, <1>5, <1>10, <1>11, <1>16, <2>1, <2>2
  <2>3. CASE j # n + 1
    <3>1. j \in 0 .. n
      BY ONLY <1>3, <2>3, j \in 0 .. n + 1
    <3> QED
      BY ONLY <1>10, <1>15, <1>17, <2>1, <3>1
  <2> QED
    BY <2>2, <2>3
<1>18. ASSUME NEW i \in 1 .. n + 1
       PROVE  /\ e[i] = e[i - 1] + RequestSize(q[i])
              /\ IsRequest(g, e[i - 1], i, q[i])
  <2>1. CASE i = n + 1
    <3>1. e[i] = z + RequestSize(b) /\ e[i - 1] = z /\ q[i] = b
      <4>1. i - 1 = n
        BY ONLY <1>3, <2>1
      <4> QED
        BY ONLY <1>2, <1>4, <1>10, <1>11, <1>13, <2>1, <4>1
    <3>2. /\ 0 + 1 = 1 /\ 0 + 2 = 2
          /\ 0 + HeadSize(b) + 1 = HeadSize(b) + 1 /\ 0 + HeadSize(b) + 2 = HeadSize(b) + 2
          /\ z + HeadSize(b) + 1 = z + (HeadSize(b) + 1)
          /\ z + HeadSize(b) + 2 = z + (HeadSize(b) + 2)
          /\ 1 \in 1 .. RequestSize(b) /\ (b # 0 => 2 \in 1 .. RequestSize(b))
          /\ HeadSize(b) + 1 \in 1 .. RequestSize(b) /\ HeadSize(b) + 2 \in 1 .. RequestSize(b)
          /\ \A j \in 2 .. RequestSize(b) : j \in 1 .. RequestSize(b)
      BY ONLY <1>4, <1>5
    <3>3. /\ t[1] = Http!First(i)
          /\ b # 0 => t[2] = Http!Length(b)
          /\ t[HeadSize(b) + 1] = Http!HalfEnd
          /\ t[HeadSize(b) + 2] = Http!HalfEnd
          /\ \A j \in 2 .. RequestSize(b) : t[j].kind # "first"
      <4>1. \A j \in 2 .. RequestSize(b) : 0 + j = j
        BY ONLY <1>5
      <4> QED
        BY ONLY <4>1, <1>1, <2>1, <3>2, <1>0 DEF IsRequest
    <3>4. IsRequest(g, z, i, b)
      BY ONLY <1>8, <3>2, <3>3 DEF IsRequest
    <3> QED
      BY ONLY <3>1, <3>4
  <2>2. CASE i # n + 1
    <3>1. i \in 1 .. n /\ i \in 0 .. n /\ i - 1 \in 0 .. n
      BY ONLY <1>3, <2>2, i \in 1 .. n + 1
    <3>2. off[i] = off[i - 1] + RequestSize(r[i]) /\ IsRequest(h, off[i - 1], i, r[i])
      BY <1>0, <1>1, <3>1 DEF Laid
    <3>3. e[i] = off[i] /\ e[i - 1] = off[i - 1] /\ q[i] = r[i]
      BY ONLY <1>10, <1>13, <3>1
    <3>4. PICK o : o = off[i - 1]
      OBVIOUS
    <3>5. PICK c : c = r[i]
      OBVIOUS
    <3>6. c \in Nat /\ o \in Nat /\ o + RequestSize(c) <= z
      BY ONLY <1>3, <1>16, <3>1, <3>2, <3>4, <3>5
    <3>7. RequestSize(c) \in Nat \ {0} /\ HeadSize(c) \in 1 .. 2
          /\ HeadSize(c) + 2 <= RequestSize(c) /\ (c # 0 => HeadSize(c) = 2)
      BY ONLY <3>6 DEF RequestSize, HeadSize
    <3>8. /\ o + 1 \in 0 .. z /\ (c # 0 => o + 2 \in 0 .. z)
          /\ o + HeadSize(c) + 1 \in 0 .. z /\ o + HeadSize(c) + 2 \in 0 .. z
          /\ \A j \in 2 .. RequestSize(c) : o + j \in 0 .. z
      BY ONLY <1>4, <3>6, <3>7
    <3>9. IsRequest(g, o, i, c)
      BY ONLY <1>7, <3>2, <3>4, <3>5, <3>8 DEF IsRequest
    <3> QED
      BY ONLY <3>2, <3>3, <3>4, <3>5, <3>9
  <2> QED
    BY <2>1, <2>2
<1>19. Laid(g, e, q)
  BY ONLY <1>13, <1>14, <1>17, <1>18 DEF Laid
<1> QED
  BY ONLY <1>1, <1>2, <1>4, <1>7, <1>8, <1>10, <1>11, <1>12, <1>19 DEF MoreLaid

\* ReadString finds the end of the head of the first request in the buffer.
LEMMA HeadLenIs ==
  ASSUME NEW s, NEW h, NEW x, NEW y, LiesIn(Symbol, s, h, x, y), NEW i, NEW b \in Nat,
         IsRequest(h, x, i, b), x + HeadSize(b) + 2 <= y
  PROVE  Http!HeadLen(s) = HeadSize(b)
<1>1. PICK k : k = HeadSize(b)
  OBVIOUS
<1>2. k \in 1 .. 2 /\ (b # 0 <=> k = 2)
  BY <1>1 DEF HeadSize
<1>3. PICK l : l = Len(s)
  OBVIOUS
<1>4. /\ x \in Nat /\ y \in Nat /\ l \in Nat /\ l = y - x
      /\ \A j \in 1 .. l : s[j] = h[x + j]
  BY <1>3, LenProperties DEF LiesIn
<1>5. k + 2 <= l
  BY <1>1, <1>2, <1>4
<1>6. /\ s[1] = Http!First(i) /\ (k = 2 => s[2] = Http!Length(b))
      /\ s[k + 1] = Http!HalfEnd /\ s[k + 2] = Http!HalfEnd
  <2>1. 1 \in 1 .. l /\ 2 \in 1 .. l /\ k + 1 \in 1 .. l /\ k + 2 \in 1 .. l
    BY ONLY <1>2, <1>4, <1>5
  <2>2. x + k + 1 = x + (k + 1) /\ x + k + 2 = x + (k + 2)
    BY ONLY <1>2, <1>4
  <2>3. /\ h[x + 1] = Http!First(i) /\ (k = 2 => h[x + 2] = Http!Length(b))
        /\ h[x + (k + 1)] = Http!HalfEnd /\ h[x + (k + 2)] = Http!HalfEnd
    BY <1>1, <1>2, <2>2 DEF IsRequest
  <2> QED
    BY ONLY <1>4, <2>1, <2>3
<1>7. s[1] # Http!HalfEnd /\ (k = 2 => s[2] # Http!HalfEnd)
  BY ONLY <1>6 DEF Http!First, Http!Length, Http!HalfEnd
<1> DEFINE ends == {j \in 1 .. l - 1 : s[j] = Http!HalfEnd /\ s[j + 1] = Http!HalfEnd}
<1>8. k + 1 \in ends
  BY <1>2, <1>4, <1>5, <1>6
<1>9. \A j \in ends : k < j
  <2> SUFFICES ASSUME NEW j \in ends, ~ (k < j)
               PROVE  FALSE
    BY <1>2
  <2>1. j = 1 \/ (j = 2 /\ k = 2)
    BY <1>2, <1>4
  <2> QED
    BY <1>7, <2>1
<1>10. Http!HeadLen(s) = CHOOSE m \in 0 .. l : m + 1 \in ends /\ \A j \in ends : m < j
  BY <1>3, <1>8 DEF Http!HeadLen
<1>11. k \in 0 .. l
  BY <1>2, <1>4, <1>5
<1> HIDE DEF ends
<1>12. PICK m \in 0 .. l : /\ m = Http!HeadLen(s)
                           /\ m + 1 \in ends /\ \A j \in ends : m < j
  BY ONLY <1>8, <1>9, <1>10, <1>11
<1>13. k < m + 1 /\ m < k + 1
  BY ONLY <1>8, <1>9, <1>12
<1> QED
  BY ONLY <1>1, <1>2, <1>4, <1>12, <1>13

\* What ParseHead finds in it.
LEMMA HeadSays ==
  ASSUME NEW s, NEW h, NEW x, NEW i, NEW b \in Nat, LiesIn(Symbol, s, h, x, x + HeadSize(b)),
         IsRequest(h, x, i, b)
  PROVE  Http!UrlOf(s) = i /\ Http!FieldOf(s) = IF b = 0 THEN field ELSE b
<1>1. PICK k : k = HeadSize(b)
  OBVIOUS
<1>2. k \in 1 .. 2 /\ (b # 0 <=> k = 2)
  BY <1>1 DEF HeadSize
<1>3. s \in Seq(Symbol) /\ x \in Nat /\ Len(s) = k /\ \A j \in 1 .. k : s[j] = h[x + j]
  BY <1>1, <1>2 DEF LiesIn
<1>4. DOMAIN s = 1 .. k
  BY ONLY <1>3, LenProperties
<1>5. s[1] = Http!First(i) /\ (k = 2 => s[2] = Http!Length(b))
  <2>1. 1 \in 1 .. k /\ (k = 2 => 2 \in 1 .. k)
    BY ONLY <1>2
  <2> QED
    BY <1>2, <1>3, <2>1 DEF IsRequest
<1>6. /\ s[1].kind = "first" /\ s[1].n = i
      /\ (k = 2 => s[2].kind = "length" /\ s[2].n = b)
  BY ONLY <1>5 DEF Http!First, Http!Length
<1>7. ~ Http!ParseHeadFails(s)
  BY ONLY <1>6 DEF Http!ParseHeadFails
<1>8. Http!UrlOf(s) = i
  BY ONLY <1>6, <1>7 DEF Http!UrlOf
<1> DEFINE lengths == {j \in DOMAIN s : s[j].kind = "length"}
<1>9. CASE k = 1
  <2>1. lengths = {}
    BY <1>4, <1>6, <1>9
  <2> QED
    BY <1>2, <1>7, <1>8, <1>9, <2>1 DEF Http!FieldOf
<1>10. CASE k = 2
  <2>1. lengths = {2}
    BY <1>4, <1>6, <1>10
  <2>2. (CHOOSE j \in {2} : \A m \in {2} : m <= j) = 2
    OBVIOUS
  <2>3. Http!FieldOf(s) = s[2].n
    BY <1>7, <2>1, <2>2 DEF Http!FieldOf
  <2> QED
    BY <1>2, <1>6, <1>8, <1>10, <2>3
<1> QED
  BY <1>2, <1>9, <1>10

\* ReadString and AddReadPos take the head and the empty line.
LEMMA AfterHeadIs ==
  ASSUME NEW h, NEW x, NEW y, LiesIn(Symbol, inputBuffer, h, x, y), NEW k \in Nat, x + k + 2 <= y
  PROVE  LiesIn(Symbol, Http!AfterHead(k), h, x + k + 2, y)
<1>1. PICK l : l = SubSeq(inputBuffer, k + 1, Len(inputBuffer))
  OBVIOUS
<1>2. x \in Nat /\ y \in Nat /\ Len(inputBuffer) = y - x
  BY DEF LiesIn
<1>3. k \in 0 .. Len(inputBuffer)
  BY <1>2
<1>4. LiesIn(Symbol, l, h, x + k, y)
  BY ONLY <1>1, <1>3, PieceSplits, LiesIn(Symbol, inputBuffer, h, x, y)
<1>5. Len(l) = y - (x + k)
  BY <1>4 DEF LiesIn
<1>6. 2 \in 0 .. Len(l) /\ ~ (Len(l) < 2) /\ (x + k) + 2 = x + k + 2 /\ 2 + 1 = 3
  BY <1>2, <1>5
<1>7. LiesIn(Symbol, SubSeq(l, 2 + 1, Len(l)), h, (x + k) + 2, y)
  BY ONLY <1>4, <1>6, PieceSplits
<1>8. Http!AfterHead(k) = SubSeq(l, 3, Len(l))
  BY ONLY <1>1, <1>6 DEF Http!AfterHead
<1> QED
  BY <1>6, <1>7, <1>8

-----------------------------------------------------------------------------
(* AnsweredInOrder *)

\* Of request a: what its head told of the length.
BodyOf(a) == IF a = 0 THEN 0 ELSE requests[a]

\* The place up to which Parse has consumed, while request a + 1 is the next.
Consumed(off, a, p) ==
  /\ httpStatus = "kWaitingHeader" => p = off[a]
  /\ httpStatus \in {"kWaitingBody", "kWaitingContentLength"} =>
       p = off[a] + HeadSize(requests[a + 1]) + 2
  /\ httpStatus = "kCompleted" => p = off[a + 1]

\* What Parse knows of the head it read last.
Known(a, b) ==
  /\ IF httpStatus = "kWaitingHeader" THEN url = a /\ field = BodyOf(a)
     ELSE a < b /\ url = a + 1 /\ field = requests[a + 1] /\ pc = "parse"
  /\ httpStatus = "kWaitingContentLength" => field # 0 /\ contentLength = field

\* Requests up to b have been received, those up to a answered, and Parse has consumed up
\* to p.
Parsed(h, off, a, b, p) ==
  /\ Laid(h, off, requests)
  /\ a \in 0 .. b /\ b \in 0 .. Len(requests)
  /\ answered = FirstNumbers(a)
  /\ LiesIn(Symbol, inputBuffer, h, p, off[b])
  /\ LiesIn(Symbol, coming, h, off[b], off[Len(requests)])
  /\ httpStatus \in {"kWaitingHeader", "kWaitingBody", "kWaitingContentLength", "kCompleted"}
  /\ Consumed(off, a, p)
  /\ Known(a, b)
  /\ pc = "idle" => p = off[b]

\* Every piece ended with a request, and none takes over the length of an earlier one.
Unbroken == ~ cut /\ ~ Http!Inherits

RequestInv ==
  /\ requests \in Seq(Nat)
  /\ cut \in BOOLEAN
  /\ Unbroken => \E h, off, a, b, p : Parsed(h, off, a, b, p)

\* The ends of two requests and of the last one.
Ends(off, a, b, n) ==
  /\ a \in Nat /\ b \in Nat /\ n \in Nat /\ a <= b /\ b <= n
  /\ off[a] \in Nat /\ off[b] \in Nat /\ off[n] \in Nat
  /\ off[a] <= off[b] /\ off[b] <= off[n]
  /\ a < b => off[a] < off[b]
  /\ b < n => off[b] < off[n]

LEMMA EndsGrow ==
  ASSUME NEW h, NEW off, NEW r, Laid(h, off, r), NEW b \in 0 .. Len(r), NEW a \in 0 .. b
  PROVE  Ends(off, a, b, Len(r))
<1>1. PICK n : n = Len(r)
  OBVIOUS
<1>2. n \in Nat /\ off \in [0 .. n -> Nat] /\ \A i, j \in 0 .. n : i < j => off[i] < off[j]
  BY <1>1, LenProperties DEF Laid
<1>3. a \in 0 .. n /\ b \in 0 .. n /\ n \in 0 .. n /\ a <= b /\ a \in Nat /\ b \in Nat
  BY ONLY <1>1, <1>2, a \in 0 .. b, b \in 0 .. Len(r)
<1>4. off[a] \in Nat /\ off[b] \in Nat /\ off[n] \in Nat
  BY ONLY <1>2, <1>3
<1>5. (a < b => off[a] < off[b]) /\ (b < n => off[b] < off[n])
  BY ONLY <1>2, <1>3
<1>6. off[a] <= off[b]
  <2>1. CASE a = b
    BY ONLY <1>4, <2>1
  <2>2. CASE a # b
    BY ONLY <1>3, <1>4, <1>5, <2>2
  <2> QED
    BY <2>1, <2>2
<1>7. off[b] <= off[n]
  <2>1. CASE b = n
    BY ONLY <1>4, <2>1
  <2>2. CASE b # n
    BY ONLY <1>3, <1>4, <1>5, <2>2
  <2> QED
    BY <2>1, <2>2
<1> QED
  BY ONLY <1>1, <1>2, <1>3, <1>4, <1>5, <1>6, <1>7 DEF Ends

LEMMA RequestInit == Http!Init => RequestInv
<1> SUFFICES ASSUME Http!Init
             PROVE  RequestInv
  OBVIOUS
<1>1. /\ coming = <<>> /\ requests = <<>> /\ cut = FALSE /\ inputBuffer = <<>>
      /\ httpStatus = "kWaitingHeader" /\ pc = "idle" /\ url = 0 /\ field = 0
      /\ answered = <<>>
  BY DEF Http!Init
<1>2. \A S : <<>> \in Seq(S) /\ Len(<<>>) = 0
  BY EmptySeq
<1>3. PICK off : off = [i \in 0 .. 0 |-> 0]
  OBVIOUS
<1>4. off \in [0 .. 0 -> Nat] /\ off[0] = 0
  BY <1>3
<1>5. Laid(<<>>, off, requests)
  BY <1>1, <1>2, <1>4 DEF Laid
<1>6. FirstNumbers(0) = <<>>
  BY DEF FirstNumbers
<1>7. LiesIn(Symbol, <<>>, <<>>, 0, 0)
  BY <1>2 DEF LiesIn
<1>8. Parsed(<<>>, off, 0, 0, 0)
  BY <1>1, <1>2, <1>4, <1>5, <1>6, <1>7 DEF Parsed, Consumed, Known, BodyOf
<1> QED
  BY <1>1, <1>2, <1>8 DEF RequestInv

LEMMA RequestsAreAnswered == RequestInv => AnsweredInOrder
<1> SUFFICES ASSUME RequestInv, Unbroken
             PROVE  /\ answered = [i \in 1 .. Len(answered) |-> i]
                    /\ pc = "idle" => /\ inputBuffer = <<>>
                                      /\ coming = <<>> => Len(answered) = Len(requests)
  BY DEF AnsweredInOrder, Http!AnsweredInOrder, Unbroken
<1>1. PICK h, off, a, b, p : Parsed(h, off, a, b, p)
  BY DEF RequestInv
<1>2. requests \in Seq(Nat) /\ Len(requests) \in Nat
  BY LenProperties DEF RequestInv
<1>3. a \in 0 .. b /\ b \in 0 .. Len(requests) /\ a \in Nat /\ b \in Nat
  BY <1>1, <1>2 DEF Parsed
<1>4. answered = [i \in 1 .. a |-> i] /\ Len(answered) = a
  <2>1. answered = FirstNumbers(a)
    BY <1>1 DEF Parsed
  <2>2. Len(FirstNumbers(a)) = a
    BY ONLY <1>3 DEF FirstNumbers
  <2> QED
    BY ONLY <2>1, <2>2 DEF FirstNumbers
<1>5. ASSUME pc = "idle"
      PROVE  inputBuffer = <<>> /\ (coming = <<>> => a = Len(requests))
  <2>1. httpStatus = "kWaitingHeader" /\ p = off[a] /\ p = off[b]
    BY <1>1, <1>5 DEF Parsed, Known, Consumed
  <2>2. PICK n : n = Len(requests)
    OBVIOUS
  <2>3. Ends(off, a, b, n)
    BY <1>1, <2>2, EndsGrow DEF Parsed
  <2>4. b = a
    BY ONLY <2>1, <2>3 DEF Ends
  <2>5. inputBuffer = <<>>
    <3>1. inputBuffer \in Seq(Symbol) /\ Len(inputBuffer) = p - p
      BY <1>1, <2>1 DEF Parsed, LiesIn
    <3>2. Len(inputBuffer) = 0
      BY ONLY <2>1, <2>3, <3>1 DEF Ends
    <3> QED
      BY <3>1, <3>2, EmptySeq
  <2>6. ASSUME coming = <<>>
        PROVE  b = n
    <3>1. Len(coming) = off[n] - off[b] /\ Len(coming) = 0
      BY <1>1, <2>2, <2>6, EmptySeq DEF Parsed, LiesIn
    <3> QED
      BY ONLY <2>3, <3>1 DEF Ends
  <2> QED
    BY ONLY <2>2, <2>4, <2>5, <2>6
<1> QED
  BY <1>4, <1>5

LEMMA UnbrokenBefore ==
  ASSUME RequestInv, Unbroken', cut => cut',
         requests' = requests \/ \E b \in Nat : requests' = Append(requests, b)
  PROVE  Unbroken
<1>1. ~ cut
  BY DEF Unbroken
<1>2. CASE requests' = requests
  BY <1>1, <1>2 DEF Unbroken, Http!Inherits
<1>3. ASSUME NEW b \in Nat, requests' = Append(requests, b)
      PROVE  Unbroken
  <2>1. PICK n : n = Len(requests)
    OBVIOUS
  <2>2. /\ requests \in Seq(Nat) /\ n \in Nat
        /\ requests' \in Seq(Nat) /\ Len(requests') = n + 1
        /\ \A i \in 1 .. n : requests'[i] = requests[i]
    BY <1>3, <2>1, AppendProperties, LenProperties DEF RequestInv
  <2>3. DOMAIN requests = 1 .. n /\ DOMAIN requests' = 1 .. n + 1
    BY <2>1, <2>2, LenProperties
  <2>4. \A i \in 1 .. n : i \in 1 .. n + 1
    BY <2>2
  <2>5. ~ Http!Inherits
    BY <2>2, <2>3, <2>4 DEF Unbroken, Http!Inherits
  <2> QED
    BY <1>1, <2>5 DEF Unbroken
<1> QED
  BY <1>2, <1>3

\* A request with a body of length c, as the client sends it, place by place.
Written(k, c) ==
  [x \in Nat |-> IF x = 1 THEN Http!First(k)
                 ELSE IF c # 0 /\ x = 2 THEN Http!Length(c)
                 ELSE IF x <= HeadSize(c) + 2 THEN Http!HalfEnd ELSE Http!Byte]

LEMMA WrittenIsRequest ==
  ASSUME NEW k \in Nat, NEW c \in Nat
  PROVE  IsRequest(Written(k, c), 0, k, c)
<1>1. /\ HeadSize(c) \in 1 .. 2 /\ (c # 0 <=> HeadSize(c) = 2)
  BY DEF HeadSize
<1>2. PICK m : m = HeadSize(c)
  OBVIOUS
<1>3. PICK t : t = Written(k, c)
  OBVIOUS
<1>4. \A x \in Nat : t[x] = IF x = 1 THEN Http!First(k)
                            ELSE IF c # 0 /\ x = 2 THEN Http!Length(c)
                            ELSE IF x <= m + 2 THEN Http!HalfEnd ELSE Http!Byte
  BY <1>2, <1>3 DEF Written
<1>5. /\ 0 + 1 = 1 /\ 0 + 2 = 2 /\ 0 + m + 1 = m + 1 /\ 0 + m + 2 = m + 2
      /\ 1 \in Nat /\ 2 \in Nat /\ m + 1 \in Nat /\ m + 2 \in Nat
      /\ m + 1 # 1 /\ m + 2 # 1 /\ (c # 0 => m + 1 # 2 /\ m + 2 # 2)
      /\ m + 1 <= m + 2 /\ m + 2 <= m + 2
  BY <1>1, <1>2
<1>6. /\ t[1] = Http!First(k) /\ (c # 0 => t[2] = Http!Length(c))
      /\ t[m + 1] = Http!HalfEnd /\ t[m + 2] = Http!HalfEnd
  BY ONLY <1>4, <1>5
<1>7. ASSUME NEW j \in 2 .. RequestSize(c)
      PROVE  t[0 + j].kind # "first"
  <2>1. j \in Nat /\ 0 + j = j /\ j # 1
    BY DEF RequestSize
  <2>2. t[j] \in {Http!Length(c), Http!HalfEnd, Http!Byte}
    BY ONLY <1>4, <2>1
  <2> QED
    BY <2>1, <2>2 DEF Http!Length, Http!HalfEnd, Http!Byte
<1> QED
  BY ONLY <1>2, <1>3, <1>5, <1>6, <1>7 DEF IsRequest

\* What the client writes lies in g as it is written.
LEMMA SentIsPiece ==
  ASSUME NEW q, NEW g, NEW x \in Nat, NEW z \in Nat, LiesIn(Symbol, q, g, x, z),
         NEW k \in Nat, NEW c \in Nat,
         \A i \in 1 .. RequestSize(c) : g[z + i] = Written(k, c)[i]
  PROVE  LiesIn(Symbol, q \o <<Http!First(k)>> \o (IF c = 0 THEN <<>> ELSE <<Http!Length(c)>>)
                 \o <<Http!HalfEnd, Http!HalfEnd>> \o [i \in 1 .. c |-> Http!Byte],
               g, x, z + RequestSize(c))
<1>1. PICK m : m = HeadSize(c)
  OBVIOUS
<1>2. /\ m \in 1 .. 2 /\ (c # 0 <=> m = 2) /\ RequestSize(c) = m + 2 + c
  BY <1>1 DEF HeadSize, RequestSize
<1>3. \A i \in 1 .. m + 2 + c :
        g[z + i] = IF i = 1 THEN Http!First(k)
                   ELSE IF c # 0 /\ i = 2 THEN Http!Length(c)
                   ELSE IF i <= m + 2 THEN Http!HalfEnd ELSE Http!Byte
  <2>1. \A i \in 1 .. m + 2 + c : i \in Nat /\ g[z + i] = Written(k, c)[i]
    BY <1>2
  <2> QED
    BY ONLY <1>1, <2>1 DEF Written
<1>4. /\ Http!First(k) \in Symbol /\ Http!Length(c) \in Symbol /\ Http!HalfEnd \in Symbol
      /\ Http!Byte \in Symbol
  BY DEF Http!First, Http!Length, Http!HalfEnd, Http!Byte, Symbol
<1>5. LiesIn(Symbol, <<Http!First(k)>>, g, z, z + 1)
  <2>1. g[z + 1] = Http!First(k)
    BY <1>2, <1>3
  <2> QED
    BY <1>4, <2>1 DEF LiesIn
<1>6. LiesIn(Symbol, IF c = 0 THEN <<>> ELSE <<Http!Length(c)>>, g, z + 1, z + m)
  <2>1. CASE c = 0
    <3>1. Len(<<>>) = 0 /\ <<>> \in Seq(Symbol)
      BY EmptySeq
    <3>2. m = 1
      BY <1>2, <2>1
    <3> QED
      BY <2>1, <3>1, <3>2 DEF LiesIn
  <2>2. CASE c # 0
    <3>1. g[(z + 1) + 1] = Http!Length(c)
      <4>1. (z + 1) + 1 = z + 2 /\ 2 \in 1 .. m + 2 + c /\ 2 # 1
        BY <1>2
      <4> QED
        BY ONLY <1>3, <2>2, <4>1
    <3>2. m = 2
      BY <1>2, <2>2
    <3> QED
      BY <1>4, <2>2, <3>1, <3>2 DEF LiesIn
  <2> QED
    BY <2>1, <2>2
<1>7. LiesIn(Symbol, <<Http!HalfEnd, Http!HalfEnd>>, g, z + m, z + m + 2)
  <2>1. g[(z + m) + 1] = Http!HalfEnd /\ g[(z + m) + 2] = Http!HalfEnd
    <3>1. /\ (z + m) + 1 = z + (m + 1) /\ (z + m) + 2 = z + (m + 2)
          /\ m + 1 \in 1 .. m + 2 + c /\ m + 2 \in 1 .. m + 2 + c
          /\ m + 1 # 1 /\ m + 2 # 1 /\ (c # 0 => m + 1 # 2 /\ m + 2 # 2)
          /\ m + 1 <= m + 2 /\ m + 2 <= m + 2
      BY <1>2
    <3> QED
      BY ONLY <1>3, <3>1
  <2>2. PICK s : s = <<Http!HalfEnd, Http!HalfEnd>>
    OBVIOUS
  <2>3. s \in Seq(Symbol) /\ Len(s) = 2 /\ s[1] = Http!HalfEnd /\ s[2] = Http!HalfEnd
    BY ONLY <1>4, <2>2
  <2>4. z + m \in Nat /\ z + m + 2 \in Nat /\ 2 = (z + m + 2) - (z + m)
        /\ \A i \in 1 .. 2 : i = 1 \/ i = 2
    BY <1>2
  <2>5. \A i \in 1 .. 2 : s[i] = g[(z + m) + i]
    BY ONLY <2>1, <2>3, <2>4
  <2> QED
    BY ONLY <2>2, <2>3, <2>4, <2>5 DEF LiesIn
<1>8. LiesIn(Symbol, [i \in 1 .. c |-> Http!Byte], g, z + m + 2, z + RequestSize(c))
  <2>1. PICK s : s = [i \in 1 .. c |-> Http!Byte]
    OBVIOUS
  <2>2. s \in Seq(Symbol) /\ Len(s) = c
    BY <1>4, <2>1
  <2>3. PICK y : y = z + m + 2
    OBVIOUS
  <2>4. y \in Nat /\ z + RequestSize(c) \in Nat /\ c = (z + RequestSize(c)) - y
    BY <1>2, <2>3
  <2>5. \A i \in 1 .. c : y + i = z + (m + 2 + i) /\ m + 2 + i \in 1 .. m + 2 + c
                          /\ m + 2 + i # 1 /\ m + 2 + i # 2 /\ ~ (m + 2 + i <= m + 2)
    BY <1>2, <2>3
  <2>6. ASSUME NEW i \in 1 .. c
        PROVE  s[i] = g[y + i]
    <3>1. PICK l : l = m + 2 + i
      OBVIOUS
    <3>2. /\ l \in 1 .. m + 2 + c /\ l # 1 /\ l # 2 /\ ~ (l <= m + 2)
          /\ y + i = z + l
      BY ONLY <2>5, <3>1, i \in 1 .. c
    <3>3. g[z + l] = Http!Byte
      BY ONLY <1>3, <3>2
    <3> QED
      BY ONLY <2>1, <3>2, <3>3, i \in 1 .. c
  <2> QED
    BY ONLY <2>1, <2>2, <2>3, <2>4, <2>6 DEF LiesIn
<1>9. LiesIn(Symbol, q \o <<Http!First(k)>>, g, x, z + 1)
  BY <1>5, PiecesJoin
<1>10. LiesIn(Symbol, q \o <<Http!First(k)>> \o (IF c = 0 THEN <<>> ELSE <<Http!Length(c)>>),
             g, x, z + m)
  BY <1>6, <1>9, PiecesJoin
<1>11. LiesIn(Symbol, q \o <<Http!First(k)>> \o (IF c = 0 THEN <<>> ELSE <<Http!Length(c)>>)
               \o <<Http!HalfEnd, Http!HalfEnd>>, g, x, z + m + 2)
  BY <1>7, <1>10, PiecesJoin
<1> QED
  BY <1>8, <1>11, PiecesJoin

-----------------------------------------------------------------------------

\* Request a + 1 has been received and has a body of length c.
Received(h, off, a, b, c) ==
  /\ a \in Nat /\ b \in Nat /\ a < b /\ a + 1 \in 0 .. b /\ a + 1 \in 1 .. Len(requests)
  /\ c = requests[a + 1] /\ c \in Nat
  /\ off[a] \in Nat /\ off[a + 1] \in Nat /\ off[b] \in Nat
  /\ off[a + 1] = off[a] + RequestSize(c) /\ off[a + 1] <= off[b]
  /\ IsRequest(h, off[a], a + 1, c)

LEMMA NextIsReceived ==
  ASSUME RequestInv, NEW h, NEW off, NEW a, NEW b, NEW p, Parsed(h, off, a, b, p), a < b
  PROVE  Received(h, off, a, b, requests[a + 1])
<1>1. PICK n : n = Len(requests)
  OBVIOUS
<1>2. requests \in Seq(Nat) /\ n \in Nat /\ \A i \in 1 .. n : requests[i] \in Nat
  BY <1>1, LenProperties, ElementOfSeq DEF RequestInv
<1>3. a \in 0 .. b /\ b \in 0 .. n /\ Laid(h, off, requests)
  BY <1>1 DEF Parsed
<1>4. a \in Nat /\ b \in Nat /\ a + 1 \in 0 .. b /\ a + 1 \in 1 .. n /\ (a + 1) - 1 = a
  BY ONLY <1>2, <1>3, a < b
<1>5. Ends(off, a + 1, b, n) /\ Ends(off, a, b, n)
  BY ONLY <1>1, <1>3, <1>4, EndsGrow
<1>6. off[a + 1] = off[a] + RequestSize(requests[a + 1])
      /\ IsRequest(h, off[a], a + 1, requests[a + 1])
  BY ONLY <1>1, <1>3, <1>4 DEF Laid
<1> QED
  BY ONLY <1>1, <1>2, <1>4, <1>5, <1>6, a < b DEF Received, Ends

LEMMA ReceivedHas ==
  ASSUME NEW h, NEW off, NEW a, NEW b, NEW c, Received(h, off, a, b, c)
  PROVE  /\ HeadSize(c) \in 1 .. 2 /\ off[a] + HeadSize(c) + 2 <= off[b]
         /\ off[a + 1] = off[a] + HeadSize(c) + 2 + c
<1>1. /\ c \in Nat /\ off[a] \in Nat /\ off[a + 1] \in Nat /\ off[b] \in Nat
      /\ off[a + 1] = off[a] + RequestSize(c) /\ off[a + 1] <= off[b]
  BY DEF Received
<1>2. PICK x, y, z : x = off[a] /\ y = off[a + 1] /\ z = off[b]
  OBVIOUS
<1>3. PICK m : m = HeadSize(c)
  OBVIOUS
<1>4. m \in 1 .. 2 /\ RequestSize(c) = m + 2 + c
  BY ONLY <1>1, <1>3 DEF HeadSize, RequestSize
<1>5. /\ c \in Nat /\ m \in Nat /\ x \in Nat /\ y \in Nat /\ z \in Nat
      /\ y = x + (m + 2 + c) /\ y <= z
  BY ONLY <1>1, <1>2, <1>4
<1>6. x + m + 2 <= z /\ y = x + m + 2 + c
  BY ONLY <1>5
<1> QED
  BY ONLY <1>2, <1>3, <1>4, <1>6

LEMMA WaitingHeaderParses ==
  ASSUME RequestInv, Unbroken, NEW h, NEW off, NEW a, NEW b, NEW p,
         Parsed(h, off, a, b, p), Http!WaitingHeader
  PROVE  RequestInv'
<1>1. /\ pc = "parse" /\ httpStatus = "kWaitingHeader"
      /\ UNCHANGED <<coming, requests, cut, contentLength, answered>>
  BY DEF Http!WaitingHeader, Http!clientVars
<1>2. p = off[a] /\ url = a /\ field = BodyOf(a)
  BY <1>1 DEF Parsed, Consumed, Known
<1>3. a \in 0 .. b /\ b \in 0 .. Len(requests) /\ Len(requests) \in Nat
      /\ Ends(off, a, b, Len(requests))
  BY EndsGrow, LenProperties DEF Parsed, RequestInv
<1>4. LiesIn(Symbol, inputBuffer, h, p, off[b])
  BY DEF Parsed
<1>5. CASE a = b
  <2>1. Len(inputBuffer) = 0
    BY <1>2, <1>3, <1>4, <1>5 DEF LiesIn, Ends
  <2>2. Http!HeadLen(inputBuffer) = 0
    BY <2>1 DEF Http!HeadLen
  <2>3. pc' = "idle" /\ UNCHANGED <<inputBuffer, httpStatus, url, field>>
    BY <2>2 DEF Http!WaitingHeader
  <2>4. Parsed(h, off, a, b, p)'
    BY <1>1, <1>2, <1>5, <2>3 DEF Parsed, Consumed, Known, BodyOf
  <2> QED
    BY <1>1, <2>4 DEF RequestInv
<1>6. CASE a # b
  <2>1. a < b
    BY <1>3, <1>6
  <2>2. PICK c : c = requests[a + 1]
    OBVIOUS
  <2>3. Received(h, off, a, b, c)
    BY <2>1, <2>2, NextIsReceived
  <2>4. PICK k : k = HeadSize(c)
    OBVIOUS
  <2>5. k \in 1 .. 2 /\ k \in Nat /\ off[a] + k + 2 <= off[b]
    BY <2>3, <2>4, ReceivedHas
  <2>6. c \in Nat /\ IsRequest(h, off[a], a + 1, c) /\ off[a] \in Nat /\ off[b] \in Nat
    BY <2>3 DEF Received
  <2>7. Http!HeadLen(inputBuffer) = k
    BY ONLY <1>2, <1>4, <2>4, <2>5, <2>6, HeadLenIs
  <2>8. /\ url' = Http!UrlOf(SubSeq(inputBuffer, 1, k))
        /\ field' = Http!FieldOf(SubSeq(inputBuffer, 1, k))
        /\ inputBuffer' = Http!AfterHead(k)
        /\ httpStatus' = "kWaitingBody" /\ pc' = "parse"
    BY <1>1, <2>5, <2>7 DEF Http!WaitingHeader
  <2>9. LiesIn(Symbol, SubSeq(inputBuffer, 1, k), h, off[a], off[a] + k)
    <3>1. k \in 0 .. Len(inputBuffer)
      BY <1>2, <1>4, <2>5, <2>6 DEF LiesIn
    <3> QED
      BY ONLY <1>2, <1>4, <3>1, PieceSplits
  <2>10. url' = a + 1 /\ field' = IF c = 0 THEN field ELSE c
    BY ONLY <2>4, <2>6, <2>8, <2>9, HeadSays
  <2>11. field' = c
    <3>1. CASE c # 0
      BY <2>10, <3>1
    <3>2. CASE c = 0 /\ a = 0
      BY <1>2, <2>10, <3>2 DEF BodyOf
    <3>3. CASE c = 0 /\ a # 0
      <4>1. a \in DOMAIN requests /\ a + 1 \in DOMAIN requests /\ a < a + 1
            /\ requests[a] \in Nat
        <5>1. /\ DOMAIN requests = 1 .. Len(requests)
              /\ \A i \in 1 .. Len(requests) : requests[i] \in Nat
          BY LenProperties, ElementOfSeq DEF RequestInv
        <5>2. a \in 1 .. Len(requests) /\ a + 1 \in 1 .. Len(requests)
          BY <1>3, <2>1, <3>3
        <5> QED
          BY <1>3, <5>1, <5>2
      <4>2. ~ (requests[a] > 0)
        BY <2>2, <3>3, <4>1 DEF Unbroken, Http!Inherits
      <4>3. requests[a] = 0
        BY <4>1, <4>2
      <4> QED
        BY <1>2, <2>10, <3>3, <4>3 DEF BodyOf
    <3> QED
      BY <3>1, <3>2, <3>3
  <2>12. PICK q : q = off[a] + k + 2
    OBVIOUS
  <2>13. LiesIn(Symbol, inputBuffer', h, q, off[b])
    BY ONLY <1>2, <1>4, <2>5, <2>8, <2>12, AfterHeadIs
  <2>14. (BodyOf(a))' = BodyOf(a)
    BY <1>1 DEF BodyOf
  <2>15. Parsed(h, off, a, b, q)'
    <3>1. Laid(h, off, requests) /\ answered = FirstNumbers(a)
          /\ LiesIn(Symbol, coming, h, off[b], off[Len(requests)])
      BY DEF Parsed
    <3> QED
      BY <1>1, <1>3, <2>1, <2>2, <2>4, <2>8, <2>10, <2>11, <2>12, <2>13, <3>1
         DEF Parsed, Consumed, Known
  <2> QED
    BY <1>1, <2>15 DEF RequestInv
<1> QED
  BY <1>5, <1>6

LEMMA WaitingBodyParses ==
  ASSUME RequestInv, NEW h, NEW off, NEW a, NEW b, NEW p,
         Parsed(h, off, a, b, p), Http!WaitingBody
  PROVE  RequestInv'
<1>1. /\ pc = "parse" /\ httpStatus = "kWaitingBody"
      /\ UNCHANGED <<coming, requests, cut, answered, inputBuffer, url, field, pc>>
      /\ contentLength' = IF field # 0 THEN field ELSE contentLength
      /\ httpStatus' = IF field # 0 THEN "kWaitingContentLength" ELSE "kCompleted"
  BY DEF Http!WaitingBody, Http!clientVars
<1>2. PICK c : c = requests[a + 1]
  OBVIOUS
<1>3. a < b /\ url = a + 1 /\ field = c /\ p = off[a] + HeadSize(c) + 2
  BY <1>1, <1>2 DEF Parsed, Consumed, Known
<1>4. Received(h, off, a, b, c)
  BY <1>2, <1>3, NextIsReceived
<1>5. c = 0 => off[a + 1] = off[a] + HeadSize(c) + 2
  <2>1. off[a + 1] = off[a] + HeadSize(c) + 2 + c /\ HeadSize(c) \in 1 .. 2
    BY <1>4, ReceivedHas
  <2>2. off[a] \in Nat
    BY <1>4 DEF Received
  <2> QED
    BY ONLY <2>1, <2>2
<1>6. (Consumed(off, a, p))'
  BY <1>1, <1>2, <1>3, <1>5 DEF Consumed
<1>7. (Known(a, b))'
  BY <1>1, <1>2, <1>3 DEF Known
<1>8. Parsed(h, off, a, b, p)'
  BY <1>1, <1>6, <1>7 DEF Parsed
<1> QED
  BY <1>1, <1>8 DEF RequestInv

LEMMA WaitingContentLengthParses ==
  ASSUME RequestInv, NEW h, NEW off, NEW a, NEW b, NEW p,
         Parsed(h, off, a, b, p), Http!WaitingContentLength
  PROVE  RequestInv'
<1>1. /\ pc = "parse" /\ httpStatus = "kWaitingContentLength"
      /\ UNCHANGED <<coming, requests, cut, answered, contentLength, url, field>>
  BY DEF Http!WaitingContentLength, Http!clientVars
<1>2. PICK c : c = requests[a + 1]
  OBVIOUS
<1>3. /\ a < b /\ url = a + 1 /\ field = c /\ p = off[a] + HeadSize(c) + 2
      /\ contentLength = c
  BY <1>1, <1>2 DEF Parsed, Consumed, Known
<1>4. Received(h, off, a, b, c)
  BY <1>2, <1>3, NextIsReceived
<1>5. /\ off[a + 1] = p + c /\ c \in Nat /\ p \in Nat
      /\ off[a + 1] <= off[b] /\ off[b] \in Nat
  <2>1. off[a + 1] = off[a] + HeadSize(c) + 2 + c /\ HeadSize(c) \in 1 .. 2
    BY <1>4, ReceivedHas
  <2>2. off[a] \in Nat /\ c \in Nat /\ off[a + 1] <= off[b] /\ off[b] \in Nat
    BY <1>4 DEF Received
  <2> QED
    BY ONLY <1>3, <2>1, <2>2
<1>6. LiesIn(Symbol, inputBuffer, h, p, off[b])
  BY DEF Parsed
<1>7. c \in 0 .. Len(inputBuffer)
  BY <1>5, <1>6 DEF LiesIn
<1>8. /\ inputBuffer' = SubSeq(inputBuffer, c + 1, Len(inputBuffer))
      /\ httpStatus' = "kCompleted" /\ pc' = pc
  <2>1. ~ (contentLength > Len(inputBuffer))
    BY <1>3, <1>5, <1>7
  <2> QED
    BY <1>3, <2>1 DEF Http!WaitingContentLength
<1>9. LiesIn(Symbol, inputBuffer', h, p + c, off[b])
  BY ONLY <1>6, <1>7, <1>8, PieceSplits
<1>10. PICK q : q = p + c
  OBVIOUS
<1>11. Parsed(h, off, a, b, q)'
  <2>1. (Consumed(off, a, q))'
    BY <1>5, <1>8, <1>10 DEF Consumed
  <2>2. (Known(a, b))'
    BY <1>1, <1>2, <1>3, <1>8 DEF Known
  <2> QED
    BY <1>1, <1>8, <1>9, <1>10, <2>1, <2>2 DEF Parsed
<1> QED
  BY <1>1, <1>11 DEF RequestInv

LEMMA ProcessHttpParses ==
  ASSUME RequestInv, NEW h, NEW off, NEW a, NEW b, NEW p,
         Parsed(h, off, a, b, p), Http!ProcessHttp
  PROVE  RequestInv'
<1>1. /\ pc = "parse" /\ httpStatus = "kCompleted" /\ httpStatus' = "kWaitingHeader"
      /\ UNCHANGED <<coming, requests, cut, inputBuffer, contentLength, url, field>>
      /\ answered' = Append(answered, url) /\ pc' \in {"parse", "register"}
  BY DEF Http!ProcessHttp, Http!clientVars
<1>2. PICK c : c = requests[a + 1]
  OBVIOUS
<1>3. a < b /\ url = a + 1 /\ field = c /\ p = off[a + 1]
  BY <1>1, <1>2 DEF Parsed, Consumed, Known
<1>4. Received(h, off, a, b, c)
  BY <1>2, <1>3, NextIsReceived
<1>5. PICK e : e = a + 1
  OBVIOUS
<1>6. a \in Nat /\ e \in 0 .. b /\ e \in Nat /\ e # 0
  BY <1>4, <1>5 DEF Received
<1>7. answered' = FirstNumbers(e)
  <2>1. answered = FirstNumbers(a)
    BY DEF Parsed
  <2>2. FirstNumbers(a) \in Seq(Nat)
    BY ONLY <1>6, FirstNumbersAreSeq
  <2>3. Append(FirstNumbers(a), e) = FirstNumbers(a) \o <<e>>
    BY ONLY <1>6, <2>2, AppendIsConcat
  <2>4. <<e>> = [i \in 1 .. 1 |-> a + i]
    BY ONLY <1>5, <1>6
  <2>5. FirstNumbers(a) \o [i \in 1 .. 1 |-> a + i] = FirstNumbers(a + 1)
    BY ONLY <1>6, 1 \in Nat, NextNumbers
  <2> QED
    BY ONLY <1>1, <1>3, <1>5, <2>1, <2>3, <2>4, <2>5
<1>8. (Consumed(off, e, p))'
  BY <1>1, <1>3, <1>5 DEF Consumed
<1>9. (Known(e, b))'
  BY <1>1, <1>2, <1>3, <1>5, <1>6 DEF Known, BodyOf
<1>10. Parsed(h, off, e, b, p)'
  BY <1>1, <1>6, <1>7, <1>8, <1>9 DEF Parsed
<1> QED
  BY <1>1, <1>10 DEF RequestInv

LEMMA SendRequestParses ==
  ASSUME RequestInv, NEW h, NEW off, NEW a, NEW b, NEW p, Parsed(h, off, a, b, p),
         NEW c \in Nat, Http!SendRequest(c)
  PROVE  RequestInv'
<1>1. /\ requests' = Append(requests, c)
      /\ coming' = coming \o <<Http!First(Len(requests'))>>
                     \o (IF c = 0 THEN <<>> ELSE <<Http!Length(c)>>)
                     \o <<Http!HalfEnd, Http!HalfEnd>> \o [i \in 1 .. c |-> Http!Byte]
      /\ UNCHANGED <<cut, inputBuffer, httpStatus, contentLength, url, field, pc, answered>>
  BY DEF Http!SendRequest, Http!parserVars
<1>2. PICK n : n = Len(requests)
  OBVIOUS
<1>3. PICK k : k = n + 1
  OBVIOUS
<1>4. requests \in Seq(Nat) /\ n \in Nat /\ k \in Nat
  BY <1>2, <1>3, LenProperties DEF RequestInv
<1>5. requests' \in Seq(Nat) /\ Len(requests') = k /\ \A i \in 1 .. n : requests'[i] = requests[i]
  BY ONLY <1>1, <1>2, <1>3, <1>4, AppendProperties, c \in Nat
<1>6. PICK t : t = Written(k, c)
  OBVIOUS
<1>7. IsRequest(t, 0, k, c)
  BY ONLY <1>4, <1>6, WrittenIsRequest, c \in Nat
<1>8. Laid(h, off, requests) /\ a \in 0 .. b /\ b \in 0 .. n
      /\ LiesIn(Symbol, inputBuffer, h, p, off[b]) /\ LiesIn(Symbol, coming, h, off[b], off[n])
  BY <1>2 DEF Parsed
<1>9. PICK g : g = [x \in Nat |-> IF x <= off[Len(requests)] THEN h[x]
                                  ELSE t[x - off[Len(requests)]]]
  OBVIOUS
<1>10. PICK e : e = [i \in 0 .. Len(requests) + 1 |->
                       IF i <= Len(requests) THEN off[i]
                       ELSE off[Len(requests)] + RequestSize(c)]
  OBVIOUS
<1>11. /\ Laid(g, e, Append(requests, c))
       /\ \A i \in 0 .. n : e[i] = off[i]
       /\ off[n] \in Nat /\ e[k] = off[n] + RequestSize(c)
       /\ \A x \in 0 .. off[n] : g[x] = h[x]
       /\ \A x \in 1 .. RequestSize(c) : g[off[n] + x] = t[x]
  <2>1. IsRequest(t, 0, Len(requests) + 1, c)
    BY ONLY <1>2, <1>3, <1>7
  <2>2. MoreSent(h, off, requests, c, t, g, e)
    BY ONLY <1>8, <1>9, <1>10, <2>1, c \in Nat DEF MoreSent
  <2>3. MoreLaid(h, off, requests, c, t, g, e)
    BY ONLY <2>2, LaidMore
  <2> QED
    BY ONLY <1>2, <1>3, <2>3 DEF MoreLaid
<1>12. Ends(off, a, b, n) /\ off[b] \in Nat /\ off[b] <= off[n]
  <2>1. Ends(off, a, b, n)
    BY ONLY <1>2, <1>8, EndsGrow
  <2> QED
    BY ONLY <2>1 DEF Ends
<1>13. LiesIn(Symbol, inputBuffer, g, p, off[b])
  BY ONLY <1>8, <1>11, <1>12, PieceStays
<1>14. LiesIn(Symbol, coming, g, off[b], off[n])
  <2>1. off[n] <= off[n]
    BY ONLY <1>11
  <2> QED
    BY ONLY <1>8, <1>11, <2>1, PieceStays
<1>15. LiesIn(Symbol, coming', g, off[b], e[k])
  <2>1. \A x \in 1 .. RequestSize(c) : g[off[n] + x] = Written(k, c)[x]
    BY ONLY <1>6, <1>11
  <2> QED
    <3>1. PICK x : x = off[b]
      OBVIOUS
    <3>2. PICK z : z = off[n]
      OBVIOUS
    <3>3. x \in Nat /\ z \in Nat /\ LiesIn(Symbol, coming, g, x, z)
      BY ONLY <1>11, <1>12, <1>14, <3>1, <3>2
    <3>4. \A i \in 1 .. RequestSize(c) : g[z + i] = Written(k, c)[i]
      BY ONLY <2>1, <3>2
    <3>5. LiesIn(Symbol, coming \o <<Http!First(k)>>
                  \o (IF c = 0 THEN <<>> ELSE <<Http!Length(c)>>)
                  \o <<Http!HalfEnd, Http!HalfEnd>> \o [i \in 1 .. c |-> Http!Byte],
                g, x, z + RequestSize(c))
      BY ONLY <1>4, <3>3, <3>4, SentIsPiece, c \in Nat
    <3> QED
      BY ONLY <1>1, <1>5, <1>11, <3>1, <3>2, <3>5
<1>16. a \in 0 .. n /\ b \in 0 .. n /\ b \in 0 .. k
       /\ (a < b => a + 1 \in 0 .. n /\ a + 1 \in 1 .. n) /\ (a # 0 => a \in 1 .. n)
  BY ONLY <1>3, <1>4, <1>8
<1>17. e[a] = off[a] /\ e[b] = off[b]
       /\ (a < b => e[a + 1] = off[a + 1] /\ requests'[a + 1] = requests[a + 1])
       /\ (BodyOf(a))' = BodyOf(a)
  <2>1. e[a] = off[a] /\ e[b] = off[b]
        /\ (a < b => e[a + 1] = off[a + 1] /\ requests'[a + 1] = requests[a + 1])
        /\ (a # 0 => requests'[a] = requests[a])
    BY ONLY <1>5, <1>11, <1>16
  <2> QED
    BY ONLY <2>1 DEF BodyOf
<1>18. (Consumed(e, a, p))' /\ (Known(a, b))'
  <2>1. /\ Consumed(off, a, p) /\ Known(a, b)
        /\ httpStatus \in {"kWaitingHeader", "kWaitingBody", "kWaitingContentLength",
                           "kCompleted"}
    BY DEF Parsed
  <2>2. (Known(a, b))'
    BY ONLY <1>1, <1>17, <2>1 DEF Known
  <2>3. (Consumed(e, a, p))'
    BY ONLY <1>1, <1>17, <2>1 DEF Consumed, Known
  <2> QED
    BY ONLY <2>2, <2>3
<1>19. Parsed(g, e, a, b, p)'
  <2>1. /\ Laid(g, e, requests') /\ b \in 0 .. Len(requests')
        /\ LiesIn(Symbol, inputBuffer, g, p, e[b])
        /\ LiesIn(Symbol, coming', g, e[b], e[Len(requests')])
    BY ONLY <1>1, <1>5, <1>11, <1>13, <1>15, <1>16, <1>17
  <2>2. /\ a \in 0 .. b /\ answered = FirstNumbers(a)
        /\ httpStatus \in {"kWaitingHeader", "kWaitingBody", "kWaitingContentLength",
                           "kCompleted"}
        /\ (pc = "idle" => p = e[b])
    BY <1>17 DEF Parsed
  <2> QED
    BY ONLY <1>1, <1>18, <2>1, <2>2 DEF Parsed
<1>20. cut' \in BOOLEAN
  BY <1>1 DEF RequestInv
<1> QED
  BY ONLY <1>5, <1>19, <1>20 DEF RequestInv

\* A first line in what was sent begins a request.
LEMMA FirstBegins ==
  ASSUME NEW h, NEW off, NEW r, Laid(h, off, r), NEW b \in 0 .. Len(r), NEW x \in Nat,
         off[b] <= x, x < off[Len(r)], h[x + 1].kind = "first"
  PROVE  \E i \in b .. Len(r) : off[i] = x
<1>1. PICK n : n = Len(r)
  OBVIOUS
<1>2. /\ n \in Nat /\ off \in [0 .. n -> Nat]
      /\ \A i \in 0 .. n : \A j \in 0 .. n : i < j => off[i] < off[j]
      /\ \A i \in 1 .. n : off[i] = off[i - 1] + RequestSize(r[i])
                           /\ IsRequest(h, off[i - 1], i, r[i]) /\ r[i] \in Nat
  BY <1>1, LenProperties, ElementOfSeq DEF Laid
<1>3. b \in 0 .. n /\ off[b] <= x /\ x < off[n] /\ n \in 0 .. n /\ off[b] \in Nat
  BY <1>1, <1>2
<1> DEFINE T == {i \in 0 .. n : x < off[i]}
<1>4. n \in T /\ T \subseteq Nat
  BY <1>2, <1>3
<1>5. \A i \in T : i \in 0 .. n /\ x < off[i]
  OBVIOUS
<1>6. \A i \in 0 .. n : i \notin T => ~ (x < off[i])
  OBVIOUS
<1> HIDE DEF T
<1>7. PICK i \in T : \A j \in T : ~ (<<j, i>> \in Less)
  <2>1. T # {}
    BY ONLY <1>4
  <2> QED
    BY ONLY <1>4, <2>1, LessIsWellFounded, WFMin
<1>8. i \in 0 .. n /\ x < off[i] /\ off[i] \in Nat
  BY ONLY <1>2, <1>5, <1>7
<1>9. b < i
  <2>1. CASE i = b
    BY ONLY <1>3, <1>8, <2>1, x \in Nat
  <2>2. CASE i < b
    <3>1. off[i] < off[b]
      BY ONLY <1>2, <1>3, <1>8, <2>2
    <3> QED
      BY ONLY <1>3, <1>8, <3>1, x \in Nat
  <2> QED
    BY ONLY <1>2, <1>3, <1>8, <2>1, <2>2
<1>10. PICK j : j = i - 1
  OBVIOUS
<1>11. j \in 0 .. n /\ i \in 1 .. n /\ j \in Nat /\ i \in Nat /\ j < i /\ j \in b .. n
       /\ off[j] \in Nat
  BY ONLY <1>2, <1>3, <1>8, <1>9, <1>10
<1>12. off[j] <= x
  <2>1. j \notin T
    <3>1. <<j, i>> \in Less
      BY ONLY <1>11 DEF Less
    <3> QED
      BY ONLY <1>7, <3>1
  <2> QED
    BY ONLY <1>6, <1>11, <2>1, x \in Nat
<1>13. off[j] = x
  <2>1. CASE off[j] = x
    BY <2>1
  <2>2. CASE off[j] # x
    <3>1. PICK m : m = (x + 1) - off[j]
      OBVIOUS
    <3>2. off[i] = off[j] + RequestSize(r[i]) /\ IsRequest(h, off[j], i, r[i])
          /\ r[i] \in Nat
      BY ONLY <1>2, <1>10, <1>11
    <3>3. RequestSize(r[i]) \in Nat
      BY ONLY <3>2 DEF RequestSize
    <3>4. m \in 2 .. RequestSize(r[i]) /\ off[j] + m = x + 1
      <4>1. PICK y : y = off[j]
        OBVIOUS
      <4>2. PICK l : l = RequestSize(r[i])
        OBVIOUS
      <4>3. x \in Nat /\ y \in Nat /\ l \in Nat /\ y < x /\ x < y + l /\ m = (x + 1) - y
        <5>1. x < y + l
          BY ONLY <1>8, <3>2, <4>1, <4>2
        <5>2. y \in Nat /\ y <= x /\ y # x
          BY ONLY <1>11, <1>12, <2>2, <4>1
        <5>3. l \in Nat
          BY ONLY <3>3, <4>2
        <5> QED
          BY ONLY <3>1, <4>1, <5>1, <5>2, <5>3, x \in Nat
      <4>4. m \in 2 .. l /\ y + m = x + 1
        BY ONLY <4>3
      <4> QED
        BY ONLY <4>1, <4>2, <4>4
    <3>5. h[off[j] + m].kind # "first"
      BY ONLY <3>2, <3>4 DEF IsRequest
    <3> QED
      BY ONLY <3>4, <3>5, h[x + 1].kind = "first"
  <2> QED
    BY <2>1, <2>2
<1> QED
  BY ONLY <1>1, <1>11, <1>13

LEMMA ReceiveParses ==
  ASSUME RequestInv, Unbroken', NEW h, NEW off, NEW a, NEW b, NEW p, Parsed(h, off, a, b, p),
         NEW k \in 1 .. Len(coming), Http!Receive(k)
  PROVE  RequestInv'
<1>1. /\ pc = "idle" /\ pc' = "parse"
      /\ inputBuffer' = inputBuffer \o SubSeq(coming, 1, k)
      /\ coming' = SubSeq(coming, k + 1, Len(coming))
      /\ cut' = (cut \/ (coming' # <<>> /\ Head(coming').kind # "first"))
      /\ UNCHANGED <<requests, httpStatus, url, field, answered>>
  BY DEF Http!Receive
<1>2. PICK n : n = Len(requests)
  OBVIOUS
<1>3. /\ Laid(h, off, requests) /\ a \in 0 .. b /\ b \in 0 .. n
      /\ answered = FirstNumbers(a)
      /\ LiesIn(Symbol, inputBuffer, h, p, off[b]) /\ LiesIn(Symbol, coming, h, off[b], off[n])
      /\ httpStatus = "kWaitingHeader" /\ p = off[a] /\ url = a /\ field = BodyOf(a)
  BY <1>1, <1>2 DEF Parsed, Known, Consumed
<1>4. n \in Nat /\ requests \in Seq(Nat)
  BY <1>2, LenProperties DEF RequestInv
<1>5. Ends(off, a, b, n) /\ off[b] \in Nat /\ off[n] \in Nat /\ off[b] <= off[n]
  <2>1. Ends(off, a, b, n)
    BY ONLY <1>2, <1>3, EndsGrow
  <2> QED
    BY ONLY <2>1 DEF Ends
<1>6. PICK x : x = off[b] + k
  OBVIOUS
<1>7. k \in 0 .. Len(coming) /\ Len(coming) = off[n] - off[b] /\ x \in Nat
      /\ off[b] <= x /\ x <= off[n]
  <2>1. Len(coming) = off[n] - off[b]
    BY ONLY <1>3 DEF LiesIn
  <2> QED
    BY ONLY <1>5, <1>6, <2>1, k \in 1 .. Len(coming)
<1>8. LiesIn(Symbol, SubSeq(coming, 1, k), h, off[b], x) /\ LiesIn(Symbol, coming', h, x, off[n])
  BY ONLY <1>1, <1>3, <1>6, <1>7, PieceSplits
<1>9. \E i \in b .. n : off[i] = x
  <2>1. CASE x = off[n]
    BY ONLY <1>3, <1>4, <2>1
  <2>2. CASE x # off[n]
    <3>1. x < off[n]
      BY ONLY <1>5, <1>7, <2>2
    <3>2. coming' \in Seq(Symbol) /\ Len(coming') = off[n] - x /\ 1 \in 1 .. Len(coming')
          /\ coming'[1] = h[x + 1]
      <4>1. /\ coming' \in Seq(Symbol) /\ Len(coming') = off[n] - x
            /\ \A i \in 1 .. Len(coming') : coming'[i] = h[x + i]
        BY ONLY <1>8 DEF LiesIn
      <4>2. 1 \in 1 .. Len(coming')
        BY ONLY <1>5, <1>7, <3>1, <4>1
      <4> QED
        BY ONLY <4>1, <4>2
    <3>3. coming' # <<>> /\ Head(coming') = coming'[1]
      BY ONLY <3>2
    <3>4. h[x + 1].kind = "first"
      BY <1>1, <3>2, <3>3 DEF Unbroken
    <3> QED
      BY ONLY <1>2, <1>3, <1>7, <3>1, <3>4, FirstBegins
  <2> QED
    BY <2>1, <2>2
<1>10. PICK e \in b .. n : off[e] = x
  BY <1>9
<1>11. LiesIn(Symbol, inputBuffer', h, p, off[e])
  BY ONLY <1>1, <1>3, <1>8, <1>10, PiecesJoin
<1>12. LiesIn(Symbol, coming', h, off[e], off[n])
  BY ONLY <1>8, <1>10
<1>13. a \in 0 .. e /\ e \in 0 .. n
  BY ONLY <1>3, <1>4
<1>14. (Consumed(off, a, p))' /\ (Known(a, e))'
  BY <1>1, <1>3 DEF Consumed, Known, BodyOf
<1>15. Parsed(h, off, a, e, p)'
  BY ONLY <1>1, <1>2, <1>3, <1>11, <1>12, <1>13, <1>14 DEF Parsed
<1>16. cut' \in BOOLEAN
  BY <1>1 DEF RequestInv
<1> QED
  BY ONLY <1>1, <1>4, <1>15, <1>16 DEF RequestInv

\* Whatever else happens leaves the parser alone.
LEMMA RequestKept ==
  ASSUME RequestInv, pc' \in {pc, "parse"},
         UNCHANGED <<coming, requests, cut, inputBuffer, httpStatus, contentLength, url,
                     field, answered>>
  PROVE  RequestInv'
<1>1. Unbroken' = Unbroken
  BY DEF Unbroken, Http!Inherits
<1>2. ASSUME NEW h, NEW off, NEW a, NEW b, NEW p, Parsed(h, off, a, b, p)
      PROVE  Parsed(h, off, a, b, p)'
  BY <1>2 DEF Parsed, Consumed, Known, BodyOf
<1> QED
  BY <1>1, <1>2 DEF RequestInv

LEMMA RequestStep == RequestInv /\ Http!HttpConstants /\ [Http!Next]_(Http!vars) => RequestInv'
<1> SUFFICES ASSUME RequestInv, Http!HttpConstants, [Http!Next]_(Http!vars)
             PROVE  RequestInv'
  OBVIOUS
<1> USE DEF Http!vars, Http!clientVars, Http!parserVars, Http!flvVars, Http!publisherVars
<1>1. ASSUME NEW body \in Bodies, Http!SendRequest(body)
      PROVE  RequestInv'
  <2>1. /\ body \in Nat /\ requests' = Append(requests, body) /\ cut' = cut
    BY <1>1 DEF Http!SendRequest, Http!HttpConstants
  <2>2. CASE ~ Unbroken'
    <3>1. requests' \in Seq(Nat) /\ cut' \in BOOLEAN
      BY <2>1, AppendProperties DEF RequestInv
    <3> QED
      BY <2>2, <3>1 DEF RequestInv
  <2>3. CASE Unbroken'
    <3>1. Unbroken
      BY <2>1, <2>3, UnbrokenBefore
    <3>2. PICK h, off, a, b, p : Parsed(h, off, a, b, p)
      BY <3>1 DEF RequestInv
    <3> QED
      BY <1>1, <2>1, <3>2, SendRequestParses
  <2> QED
    BY <2>2, <2>3
<1>2. ASSUME \/ \E k \in 1 .. Len(coming) : Http!Receive(k)
             \/ Http!WaitingHeader \/ Http!WaitingBody \/ Http!WaitingContentLength
             \/ Http!ProcessHttp
      PROVE  RequestInv'
  <2>1. requests' = requests /\ (cut => cut') /\ cut' \in BOOLEAN
    BY <1>2 DEF RequestInv, Http!Receive, Http!WaitingHeader, Http!WaitingBody,
                Http!WaitingContentLength, Http!ProcessHttp
  <2>2. CASE ~ Unbroken'
    BY <2>1, <2>2 DEF RequestInv
  <2>3. CASE Unbroken'
    <3>1. Unbroken
      BY <2>1, <2>3, UnbrokenBefore
    <3>2. PICK h, off, a, b, p : Parsed(h, off, a, b, p)
      BY <3>1 DEF RequestInv
    <3> QED
      BY <1>2, <2>3, <3>1, <3>2, ReceiveParses, WaitingHeaderParses, WaitingBodyParses,
         WaitingContentLengthParses, ProcessHttpParses
  <2> QED
    BY <2>2, <2>3
<1>3. ASSUME \/ UNCHANGED Http!vars
             \/ Http!Register \/ Http!CreateSource \/ Http!Deliver \/ Http!RunPosted
             \/ \E size \in Sizes : Http!PushPacketConfig(size) \/ Http!PushPacket(size)
             \/ \E isKey \in BOOLEAN : Http!Cache(isKey)
      PROVE  RequestInv'
  <2>1. /\ pc' \in {pc, "parse"}
        /\ UNCHANGED <<coming, requests, cut, inputBuffer, httpStatus, contentLength, url,
                       field, answered>>
    BY <1>3 DEF Http!Register, Http!CreateSource, Http!Deliver, Http!RunPosted,
                Http!PushPacketConfig, Http!PushPacket, Http!Cache
  <2> QED
    BY <2>1, RequestKept
<1> QED
  BY <1>1, <1>2, <1>3 DEF Http!Next, Http!Running

\* Requests that arrive in pieces of whole requests are answered once each and in order,
\* and Parse leaves nothing of them behind, for any number of requests with bodies of any
\* length, unless one takes over the length of an earlier one: what is left in the buffer
\* begins where Parse has got to among what was sent, and what Parse knows of a length is
\* that of the head it read last.
THEOREM RequestsStayAnswered == Http!Spec => []AnsweredInOrder
<1>1. RequestInv /\ [Http!Next]_(Http!vars) => RequestInv'
  BY HttpAssumption, RequestStep
<1> QED
  BY RequestInit, RequestsAreAnswered, <1>1, PTL DEF Http!Spec

-----------------------------------------------------------------------------
(* FlvReader: the bytes of a file *)

\* The first n sequences in s, joined.
Front(s, n) == Reader!FlattenSeq([i \in 1 .. n |-> s[i]])

LEMMA FrontFlattens ==
  ASSUME NEW s, NEW n \in Nat \ {0}
  PROVE  \E f : Flattens(f, [i \in 1 .. n |-> s[i]], n) /\ Front(s, n) = f[n]
<1>1. PICK r : r = [i \in 1 .. n |-> s[i]]
  OBVIOUS
<1>2. Len(r) = n /\ n # 0 /\ n \in Nat
  BY <1>1
<1> DEFINE h == CHOOSE x : Flattens(x, r, n)
<1>3. Flattens(h, r, n)
  BY <1>2, SomethingFlattens
<1>4. Front(s, n) = h[n]
  BY <1>1, <1>2 DEF Front, Reader!FlattenSeq, Flattens
<1> HIDE DEF h
<1> QED
  BY <1>1, <1>3, <1>4

LEMMA FrontProlongs ==
  ASSUME NEW S, NEW s, NEW n \in Nat, s[n + 1] \in Seq(S)
  PROVE  /\ Front(s, 0) = <<>>
         /\ Front(s, n + 1) = Front(s, n) \o s[n + 1]
<1>1. Front(s, 0) = <<>>
  <2>1. [i \in 1 .. 0 |-> s[i]] = <<>>
    OBVIOUS
  <2> QED
    BY <2>1, EmptySeq DEF Front, Reader!FlattenSeq
<1>2. PICK g : /\ Flattens(g, [i \in 1 .. n + 1 |-> s[i]], n + 1)
               /\ Front(s, n + 1) = g[n + 1]
  <2>1. n + 1 \in Nat \ {0}
    OBVIOUS
  <2> QED
    BY ONLY <2>1, FrontFlattens
<1>3. PICK t : t = [i \in 1 .. n + 1 |-> s[i]]
  OBVIOUS
<1>4. Flattens(g, t, n + 1) /\ t[n + 1] = s[n + 1] /\ \A i \in 1 .. n : t[i] = s[i]
  BY <1>2, <1>3
<1>5. g[n + 1] = IF n + 1 = 1 THEN t[n + 1] ELSE g[(n + 1) - 1] \o t[n + 1]
  <2>1. g = [i \in 1 .. n + 1 |-> IF i = 1 THEN t[i] ELSE g[i - 1] \o t[i]]
    BY ONLY <1>4 DEF Flattens
  <2>2. n + 1 \in 1 .. n + 1
    OBVIOUS
  <2> QED
    BY ONLY <2>1, <2>2
<1>6. CASE n = 0
  <2>1. g[n + 1] = s[n + 1]
    BY <1>4, <1>5, <1>6
  <2>2. <<>> \o s[n + 1] = s[n + 1]
    BY ConcatEmptySeq
  <2> QED
    BY <1>1, <1>2, <1>6, <2>1, <2>2
<1>7. CASE n # 0
  <2>1. n \in Nat \ {0} /\ n + 1 # 1 /\ (n + 1) - 1 = n /\ n \in 1 .. n
    BY <1>7
  <2>2. PICK f : Flattens(f, [i \in 1 .. n |-> s[i]], n) /\ Front(s, n) = f[n]
    BY ONLY <2>1, FrontFlattens
  <2>3. PICK r : r = [i \in 1 .. n |-> s[i]]
    OBVIOUS
  <2>4. Flattens(f, r, n) /\ \A i \in 1 .. n : r[i] = t[i]
    BY <1>4, <2>2, <2>3
  <2>5. f[n] = g[n]
    BY ONLY <1>4, <2>1, <2>4, FlattensAgree, n \in Nat
  <2> QED
    BY ONLY <1>1, <1>2, <1>4, <1>5, <2>1, <2>2, <2>5
<1> QED
  BY <1>6, <1>7

\* A byte of a file, the joined tags of a file, and the packets of each.
Byte == [tag : Nat, at : Nat]
TagByte(f) == [tag : 1 .. Len(f), at : Nat]
Parts(f) == [i \in 1 .. Len(f) |-> Reader!TagBytes(f, i)]
Handed(f) == [i \in 1 .. Len(f) |-> Reader!Packets(f[i], i)]
TagSort == [kind : STRING, size : Nat, nalus : Nat]

\* The tags of f begin in h, its bytes, behind the places off.
FileLaid(f, off, h) ==
  /\ f \in Seq(TagSort)
  /\ off \in [0 .. Len(f) -> Nat]
  /\ off[0] = FileHead
  /\ \A i \in 1 .. Len(f) : off[i] = off[i - 1] + (TagHead + f[i].size)
  /\ h \in Seq(Byte)
  /\ Len(h) = off[Len(f)]
  /\ \A i \in 1 .. Len(f) : h[off[i - 1] + 1].tag = i
  /\ \A i \in FileHead + 1 .. Len(h) : h[i].tag \in 1 .. Len(f)

LEMMA ConstantsOfReader ==
  /\ FileHead \in Nat \ {0} /\ TagHead \in Nat \ {0} /\ HeadPiece \in Nat \ {0}
  /\ Piece \in Nat \ {0} /\ MaxBuffer \in Nat \ {0}
  /\ FileHead < HeadPiece /\ HeadPiece <= Piece /\ Piece <= MaxBuffer
  /\ Files \subseteq Seq(TagSort)
BY ReaderAssumption DEF Reader!ReaderConstants, TagSort

LEMMA TagIsSeq ==
  ASSUME NEW f \in Files, NEW i \in 1 .. Len(f)
  PROVE  /\ f[i] \in TagSort /\ f[i].size \in Nat
         /\ Reader!TagBytes(f, i) \in Seq(TagByte(f))
         /\ Len(Reader!TagBytes(f, i)) = TagHead + f[i].size
         /\ Reader!TagBytes(f, i)[1].tag = i
<1>1. f \in Seq(TagSort)
  BY ConstantsOfReader
<1>2. f[i] \in TagSort /\ f[i].size \in Nat /\ i \in Nat
  <2>1. f[i] \in TagSort
    BY <1>1, ElementOfSeq
  <2>2. i \in Nat
    BY <1>1, LenProperties
  <2> QED
    BY ONLY <2>1, <2>2 DEF TagSort
<1>3. PICK n : n = TagHead + f[i].size
  OBVIOUS
<1>4. n \in Nat /\ 1 \in 1 .. n
  BY <1>2, <1>3, ConstantsOfReader
<1>5. PICK t : t = [j \in 1 .. n |-> [tag |-> i, at |-> j]]
  OBVIOUS
<1>6. t = Reader!TagBytes(f, i)
  BY <1>3, <1>5 DEF Reader!TagBytes
<1>7. t \in [1 .. n -> TagByte(f)]
  <2>1. \A j \in 1 .. n : [tag |-> i, at |-> j] \in TagByte(f)
    BY <1>2, <1>4 DEF TagByte
  <2> QED
    BY ONLY <1>5, <2>1
<1>8. t \in Seq(TagByte(f)) /\ Len(t) = n /\ t[1].tag = i
  BY <1>4, <1>5, <1>7, SeqDef
<1> QED
  BY <1>2, <1>3, <1>6, <1>8

\* One more of the joined sequences: what lies in front of it stays where it is.
JoinedUp(S, s, n, len) ==
  /\ Front(s, n) \in Seq(S)
  /\ len[0] = 0
  /\ \A i \in 0 .. n : len[i] \in Nat
  /\ \A i \in 1 .. n : len[i] = len[i - 1] + Len(s[i])
  /\ Len(Front(s, n)) = len[n]
  /\ \A i \in 0 .. n : len[i] <= len[n]
  /\ \A i \in 1 .. n : \A j \in 1 .. Len(s[i]) : Front(s, n)[len[i - 1] + j] = s[i][j]

LEMMA FrontsAreSeqs ==
  ASSUME NEW S, NEW s, NEW m \in Nat, \A i \in 1 .. m : s[i] \in Seq(S)
  PROVE  JoinedUp(S, s, m, [i \in 0 .. m |-> Len(Front(s, i))])
<1>1. PICK len : len = [i \in 0 .. m |-> Len(Front(s, i))]
  OBVIOUS
<1> DEFINE T == {n \in Nat : n <= m => JoinedUp(S, s, n, len)}
<1>2. \A n \in Nat : n \in T <=> (n <= m => JoinedUp(S, s, n, len))
  OBVIOUS
<1>t. T \subseteq Nat
  OBVIOUS
<1> HIDE DEF T
<1>3. 0 \in T
  <2>1. Front(s, 0) = <<>>
    <3>1. [i \in 1 .. 0 |-> s[i]] = <<>>
      OBVIOUS
    <3> QED
      BY <3>1, EmptySeq DEF Front, Reader!FlattenSeq
  <2>2. Front(s, 0) \in Seq(S) /\ Len(Front(s, 0)) = 0
    BY <2>1, EmptySeq
  <2>3. len[0] = 0
    BY <1>1, <2>2
  <2>4. (\A i \in 0 .. 0 : i = 0) /\ 0 <= 0
    OBVIOUS
  <2> QED
    BY <1>2, <2>2, <2>3, <2>4 DEF JoinedUp
<1>4. ASSUME NEW n \in T
      PROVE  n + 1 \in T
  <2>1. n \in Nat /\ n + 1 \in Nat
    BY <1>t
  <2>2. CASE ~ (n + 1 <= m)
    BY <1>2, <2>1, <2>2
  <2>3. CASE n + 1 <= m
    <3>0. PICK p : p = n + 1
      OBVIOUS
    <3>1. /\ n <= m /\ p \in 1 .. m /\ n \in 0 .. m /\ p \in 0 .. m /\ p - 1 = n
          /\ \A i \in 0 .. p : i \in 0 .. n \/ i = p
          /\ \A i \in 1 .. p : i \in 1 .. n \/ i = p
      BY ONLY <2>1, <2>3, <3>0, m \in Nat
    <3>2. JoinedUp(S, s, n, len)
      BY ONLY <1>2, <2>1, <3>1, n \in T
    <3>3. s[p] \in Seq(S)
      BY <3>1
    <3>4. Front(s, p) = Front(s, n) \o s[p]
      BY ONLY <2>1, <3>0, <3>3, FrontProlongs
    <3>5. PICK a : a = Front(s, n)
      OBVIOUS
    <3>6. PICK b : b = Front(s, p)
      OBVIOUS
    <3>7. PICK t : t = s[p]
      OBVIOUS
    <3>8. /\ a \in Seq(S) /\ t \in Seq(S) /\ b = a \o t
          /\ len[0] = 0 /\ Len(a) = len[n]
          /\ \A i \in 0 .. n : len[i] \in Nat /\ len[i] <= len[n]
          /\ \A i \in 1 .. n : len[i] = len[i - 1] + Len(s[i])
          /\ \A i \in 1 .. n : \A j \in 1 .. Len(s[i]) : a[len[i - 1] + j] = s[i][j]
      BY ONLY <3>2, <3>3, <3>4, <3>5, <3>6, <3>7 DEF JoinedUp
    <3>9. /\ b \in Seq(S) /\ Len(b) = Len(a) + Len(t)
          /\ \A i \in 1 .. Len(a) + Len(t) : b[i] = IF i <= Len(a) THEN a[i] ELSE t[i - Len(a)]
      <4>1. a \in Seq(S) /\ t \in Seq(S) /\ b = a \o t
        BY ONLY <3>8
      <4> QED
        BY ONLY <4>1, ConcatProperties
    <3>10. len[p] = Len(b)
      BY ONLY <1>1, <3>1, <3>6
    <3>11. Len(a) \in Nat /\ Len(t) \in Nat /\ \A i \in 1 .. n : Len(s[i]) \in Nat
      <4>1. \A i \in 1 .. n : s[i] \in Seq(S)
        BY <3>1
      <4> QED
        BY ONLY <3>8, <4>1, LenProperties
    <3>12. len[p] \in Nat /\ len[p] = len[p - 1] + Len(t)
      BY ONLY <3>1, <3>8, <3>9, <3>10, <3>11
    <3>13. ASSUME NEW i \in 1 .. n, NEW j \in 1 .. Len(s[i])
           PROVE  b[len[i - 1] + j] = s[i][j]
      <4>1. PICK k : k = len[i - 1] + j
        OBVIOUS
      <4>2. len[i] <= len[n]
        <5>1. i \in 0 .. n
          BY <2>1
        <5> QED
          BY ONLY <3>8, <5>1
      <4>3. /\ len[i - 1] \in Nat /\ Len(s[i]) \in Nat /\ len[i] = len[i - 1] + Len(s[i])
            /\ len[i] <= len[n] /\ j \in 1 .. Len(s[i]) /\ j \in Nat
        <5>1. i - 1 \in 0 .. n
          BY <2>1
        <5>2. Len(s[i]) \in Nat
          BY <3>11
        <5>3. j \in Nat
          BY <5>2
        <5> QED
          BY <3>8, <4>2, <5>1, <5>2, <5>3
      <4>4. k \in 1 .. Len(a) + Len(t) /\ k <= Len(a)
        <5>1. Len(a) = len[n] /\ Len(a) \in Nat /\ Len(t) \in Nat
          BY ONLY <3>8, <3>11
        <5>2. PICK u : u = len[i - 1]
          OBVIOUS
        <5>3. PICK v : v = len[i]
          OBVIOUS
        <5>4. PICK l : l = Len(s[i])
          OBVIOUS
        <5>5. PICK x : x = Len(a)
          OBVIOUS
        <5>6. k = u + j /\ u \in Nat /\ l \in Nat /\ v = u + l /\ v <= x /\ j \in 1 .. l
              /\ x \in Nat
          BY ONLY <4>1, <4>3, <5>1, <5>2, <5>3, <5>4, <5>5
        <5>7. k \in Nat /\ 1 <= k /\ k <= x
          BY ONLY <5>6
        <5> QED
          BY ONLY <5>1, <5>5, <5>7
      <4>5. b[k] = a[k]
        BY ONLY <3>9, <4>4
      <4>6. a[k] = s[i][j]
        BY <3>8, <4>1
      <4> QED
        BY ONLY <4>1, <4>5, <4>6
    <3>14. ASSUME NEW j \in 1 .. Len(t)
           PROVE  b[len[p - 1] + j] = t[j]
      <4>1. PICK k : k = len[p - 1] + j
        OBVIOUS
      <4>2. k \in 1 .. Len(a) + Len(t) /\ ~ (k <= Len(a)) /\ k - Len(a) = j
        <5>1. len[p - 1] = Len(a)
          BY ONLY <3>1, <3>8
        <5>2. Len(a) \in Nat /\ Len(t) \in Nat
          BY ONLY <3>11
        <5> QED
          BY ONLY <4>1, <5>1, <5>2, j \in 1 .. Len(t)
      <4> QED
        BY ONLY <3>9, <4>1, <4>2
    <3>15. JoinedUp(S, s, p, len)
      <4>1. \A i \in 1 .. p : \A j \in 1 .. Len(s[i]) : b[len[i - 1] + j] = s[i][j]
        BY ONLY <3>1, <3>7, <3>13, <3>14
      <4>2. \A i \in 1 .. p : len[i] = len[i - 1] + Len(s[i])
        BY ONLY <3>1, <3>7, <3>8, <3>12
      <4>3. \A i \in 0 .. p : len[i] \in Nat
        BY ONLY <3>1, <3>8, <3>12
      <4>4. len[n] \in Nat /\ len[p] = len[n] + Len(t)
        BY ONLY <2>1, <3>1, <3>8, <3>12
      <4>5. \A i \in 0 .. p : len[i] <= len[p]
        <5>1. ASSUME NEW i \in 0 .. p
              PROVE  len[i] <= len[p]
          <6>1. len[i] \in Nat /\ (i = p \/ len[i] <= len[n])
            <7>1. i = p \/ i \in 0 .. n
              BY ONLY <3>1, i \in 0 .. p
            <7>2. \A y \in 0 .. n : len[y] <= len[n]
              BY ONLY <3>8
            <7> QED
              BY ONLY <4>3, <7>1, <7>2, i \in 0 .. p
          <6> QED
            BY ONLY <3>11, <3>12, <4>4, <6>1
        <5> QED
          BY <5>1
      <4>6. b \in Seq(S) /\ len[0] = 0 /\ Len(b) = len[p]
        BY ONLY <3>8, <3>9, <3>10
      <4> QED
        BY ONLY <3>6, <4>1, <4>2, <4>3, <4>5, <4>6 DEF JoinedUp
    <3> QED
      BY ONLY <1>2, <2>1, <3>0, <3>15
  <2> QED
    BY <2>2, <2>3
<1>5. T = Nat
  BY ONLY <1>3, <1>4, <1>t, SetInduction
<1> QED
  BY ONLY <1>1, <1>2, <1>5, m \in Nat

\* The bytes of a file are its tags, one behind the other, and End is where they end.
LEMMA BytesAreLaid ==
  ASSUME NEW f \in Files
  PROVE  \E off : /\ FileLaid(f, off, Reader!Bytes(f))
                  /\ \A i \in 0 .. Len(f) :
                       off[i] = FileHead + Len(Reader!FlattenSeq([k \in 1 .. i |->
                                                                   Reader!TagBytes(f, k)]))
<1>1. PICK n : n = Len(f)
  OBVIOUS
<1>2. f \in Seq(TagSort) /\ n \in Nat /\ DOMAIN f = 1 .. n
  BY <1>1, ConstantsOfReader, LenProperties
<1>3. PICK s : s = Parts(f)
  OBVIOUS
<1>4. /\ s = [i \in 1 .. n |-> Reader!TagBytes(f, i)]
      /\ \A i \in 1 .. n : s[i] = Reader!TagBytes(f, i)
  BY <1>1, <1>3 DEF Parts
<1>5. \A i \in 1 .. n : /\ f[i].size \in Nat
                        /\ s[i] \in Seq(TagByte(f)) /\ Len(s[i]) = TagHead + f[i].size
                        /\ s[i][1].tag = i
  BY ONLY <1>1, <1>4, TagIsSeq, f \in Files
<1>6. PICK len : len = [i \in 0 .. n |-> Len(Front(s, i))]
  OBVIOUS
<1>7. JoinedUp(TagByte(f), s, n, len)
  <2>1. \A i \in 1 .. n : s[i] \in Seq(TagByte(f))
    BY ONLY <1>5
  <2> QED
    BY ONLY <1>2, <1>6, <2>1, FrontsAreSeqs
<1>8. PICK tags : tags = Front(s, n)
  OBVIOUS
<1>9. /\ tags \in Seq(TagByte(f)) /\ Len(tags) = len[n]
      /\ len[0] = 0
      /\ \A i \in 0 .. n : len[i] \in Nat
      /\ \A i \in 1 .. n : len[i] = len[i - 1] + Len(s[i])
      /\ \A i \in 1 .. n : \A j \in 1 .. Len(s[i]) : tags[len[i - 1] + j] = s[i][j]
  BY ONLY <1>7, <1>8 DEF JoinedUp
<1>b. tags \in Seq(Byte) /\ \A i \in 1 .. Len(tags) : tags[i].tag \in 1 .. n
  <2>1. \A i \in 1 .. Len(tags) : tags[i] \in TagByte(f)
    BY ONLY <1>9, ElementOfSeq
  <2>2. \A x \in TagByte(f) : x \in Byte /\ x.tag \in 1 .. n
    BY <1>1, <1>2 DEF TagByte, Byte
  <2>3. tags = [i \in 1 .. Len(tags) |-> tags[i]] /\ Len(tags) \in Nat
    BY ONLY <1>9, LenProperties
  <2>4. tags \in [1 .. Len(tags) -> Byte]
    BY ONLY <2>1, <2>2, <2>3
  <2>5. tags \in Seq(Byte)
    BY ONLY <2>3, <2>4, SeqDef
  <2> QED
    BY ONLY <2>1, <2>2, <2>5
<1>10. PICK head : head = [j \in 1 .. FileHead |-> [tag |-> 0, at |-> j]]
  OBVIOUS
<1>11. head \in Seq(Byte) /\ Len(head) = FileHead
  <2>1. FileHead \in Nat
    BY ConstantsOfReader
  <2>2. \A j \in 1 .. FileHead : [tag |-> 0, at |-> j] \in Byte
    BY <2>1 DEF Byte
  <2>3. head \in [1 .. FileHead -> Byte]
    BY ONLY <1>10, <2>2
  <2> QED
    BY <1>10, <2>1, <2>3, SeqDef
<1>12. PICK h : h = Reader!Bytes(f)
  OBVIOUS
<1>13. h = head \o tags
  <2>1. [i \in 1 .. n |-> s[i]] = [i \in DOMAIN f |-> Reader!TagBytes(f, i)]
    BY ONLY <1>2, <1>4
  <2>2. tags = Reader!FlattenSeq([i \in DOMAIN f |-> Reader!TagBytes(f, i)])
    BY <1>8, <2>1 DEF Front
  <2> QED
    BY <1>10, <1>12, <2>2 DEF Reader!Bytes
<1>14. /\ h \in Seq(Byte) /\ Len(h) = Len(head) + Len(tags)
       /\ \A i \in 1 .. Len(head) + Len(tags) :
            h[i] = IF i <= Len(head) THEN head[i] ELSE tags[i - Len(head)]
  <2>1. head \in Seq(Byte) /\ tags \in Seq(Byte) /\ h = head \o tags
    BY ONLY <1>b, <1>11, <1>13
  <2> QED
    BY ONLY <2>1, ConcatProperties
<1>15. PICK off : off = [i \in 0 .. n |-> FileHead + len[i]]
  OBVIOUS
<1>16. FileHead \in Nat /\ TagHead \in Nat \ {0}
  BY ConstantsOfReader
<1>17. \A i \in 0 .. n : off[i] = FileHead + len[i] /\ off[i] \in Nat
  BY ONLY <1>9, <1>15, <1>16
<1>18. off \in [0 .. n -> Nat]
  BY ONLY <1>15, <1>17
<1>19. off[0] = FileHead /\ Len(h) = off[n]
  <2>1. 0 \in 0 .. n /\ n \in 0 .. n
    BY ONLY <1>2
  <2> QED
    BY ONLY <1>9, <1>11, <1>14, <1>16, <1>17, <2>1
<1>20. ASSUME NEW i \in 1 .. n
       PROVE  off[i] = off[i - 1] + (TagHead + f[i].size) /\ h[off[i - 1] + 1].tag = i
  <2>1. i - 1 \in 0 .. n /\ i \in 0 .. n
    BY ONLY <1>2, i \in 1 .. n
  <2>2. PICK z : z = TagHead + f[i].size
    OBVIOUS
  <2>3. z \in Nat /\ 1 \in 1 .. z /\ Len(s[i]) = z
    BY ONLY <1>5, <1>16, <2>2, i \in 1 .. n
  <2>4. PICK u : u = len[i - 1]
    OBVIOUS
  <2>5. /\ u \in Nat /\ len[i] = u + z /\ off[i - 1] = FileHead + u /\ off[i] = FileHead + len[i]
    BY ONLY <1>9, <1>17, <2>1, <2>3, <2>4, i \in 1 .. n
  <2>6. off[i] = off[i - 1] + z
    BY ONLY <1>16, <2>3, <2>5
  <2>7. tags[u + 1] = s[i][1]
    <3>1. \A j \in 1 .. z : tags[len[i - 1] + j] = s[i][j]
      BY ONLY <1>9, <2>3, i \in 1 .. n
    <3> QED
      BY ONLY <2>3, <2>4, <3>1
  <2>8. PICK k : k = off[i - 1] + 1
    OBVIOUS
  <2>9. len[n] \in Nat /\ u + 1 <= len[n]
    <3>1. len[n] \in Nat
      BY ONLY <1>2, <1>9
    <3>2. i \in 0 .. n
      BY ONLY <1>2, i \in 1 .. n
    <3>3. len[i] <= len[n]
      BY ONLY <1>7, <3>2 DEF JoinedUp
    <3> QED
      BY ONLY <2>3, <2>5, <3>1, <3>3
  <2>10. /\ k \in 1 .. Len(head) + Len(tags) /\ ~ (k <= Len(head))
         /\ k - Len(head) = u + 1
    BY ONLY <1>9, <1>11, <1>16, <2>5, <2>8, <2>9
  <2>11. h[k] = tags[u + 1]
    BY ONLY <1>14, <2>10
  <2>12. s[i][1].tag = i
    BY <1>5
  <2>13. h[off[i - 1] + 1].tag = i
    BY ONLY <2>7, <2>8, <2>11, <2>12
  <2> QED
    BY ONLY <2>2, <2>6, <2>13
<1>c. ASSUME NEW i \in FileHead + 1 .. Len(h)
      PROVE  h[i].tag \in 1 .. n
  <2>1. PICK j : j = i - Len(head)
    OBVIOUS
  <2>2. Len(tags) \in Nat /\ Len(head) = FileHead /\ Len(h) = Len(head) + Len(tags)
    BY ONLY <1>b, <1>11, <1>14, LenProperties
  <2>3. j \in 1 .. Len(tags) /\ i \in 1 .. Len(head) + Len(tags) /\ ~ (i <= Len(head))
    BY ONLY <1>16, <2>1, <2>2, i \in FileHead + 1 .. Len(h)
  <2>4. h[i] = tags[j]
    BY ONLY <1>14, <2>1, <2>3
  <2> QED
    BY ONLY <1>b, <2>3, <2>4
<1>21. FileLaid(f, off, h)
  BY ONLY <1>1, <1>2, <1>14, <1>18, <1>19, <1>20, <1>c DEF FileLaid
<1>22. ASSUME NEW i \in 0 .. n
       PROVE  off[i] = FileHead + Len(Reader!FlattenSeq([k \in 1 .. i |->
                                                           Reader!TagBytes(f, k)]))
  <2>1. \A k \in 1 .. i : k \in 1 .. n
    BY ONLY <1>2, i \in 0 .. n
  <2>2. [k \in 1 .. i |-> s[k]] = [k \in 1 .. i |-> Reader!TagBytes(f, k)]
    BY ONLY <1>4, <2>1
  <2>3. len[i] = Len(Reader!FlattenSeq([k \in 1 .. i |-> s[k]]))
    BY <1>6 DEF Front
  <2> QED
    BY ONLY <1>17, <2>2, <2>3, i \in 0 .. n
<1> QED
  BY ONLY <1>1, <1>12, <1>21, <1>22

\* Tags begin behind each other.
LEMMA TagsAscend ==
  ASSUME NEW f, NEW off, NEW h, FileLaid(f, off, h)
  PROVE  /\ \A i \in 0 .. Len(f) : \A j \in 0 .. Len(f) : i < j => off[i] < off[j]
         /\ \A i \in 0 .. Len(f) : off[i] <= Len(h)
<1>1. PICK n : n = Len(f)
  OBVIOUS
<1>2. /\ n \in Nat /\ TagHead \in Nat \ {0} /\ Len(h) = off[n]
      /\ \A i \in 1 .. n : f[i].size \in Nat
      /\ \A i \in 0 .. n : off[i] \in Nat
      /\ \A i \in 1 .. n : off[i] = off[i - 1] + (TagHead + f[i].size)
  <2>1. f \in Seq(TagSort)
    BY DEF FileLaid
  <2>2. \A i \in 1 .. n : f[i] \in TagSort
    BY ONLY <1>1, <2>1, ElementOfSeq
  <2> QED
    BY <1>1, <2>1, <2>2, LenProperties, ConstantsOfReader DEF FileLaid, TagSort
<1> DEFINE T == {x \in Nat : \A i \in 0 .. n : i + (x + 1) <= n => off[i] < off[i + (x + 1)]}
<1>3. \A x \in Nat : x \in T <=> \A i \in 0 .. n : i + (x + 1) <= n => off[i] < off[i + (x + 1)]
  OBVIOUS
<1>t. T \subseteq Nat
  OBVIOUS
<1> HIDE DEF T
<1>4. ASSUME NEW i \in 0 .. n, i + 1 <= n
      PROVE  off[i] < off[i + 1]
  <2>1. PICK j : j = i + 1
    OBVIOUS
  <2>2. j \in 1 .. n /\ j - 1 = i /\ j \in 0 .. n
    BY ONLY <1>2, <1>4, <2>1
  <2>3. off[j] = off[i] + (TagHead + f[j].size) /\ off[i] \in Nat /\ f[j].size \in Nat
    BY ONLY <1>2, <2>2, i \in 0 .. n
  <2>4. off[i] < off[j]
    BY ONLY <1>2, <2>3
  <2> QED
    BY ONLY <2>1, <2>4
<1>5. 0 \in T
  BY ONLY <1>3, <1>4, 0 + 1 = 1
<1>6. ASSUME NEW x \in T
      PROVE  x + 1 \in T
  <2>1. x \in Nat /\ x + 1 \in Nat
    BY <1>t
  <2>2. ASSUME NEW i \in 0 .. n, i + ((x + 1) + 1) <= n
        PROVE  off[i] < off[i + ((x + 1) + 1)]
    <3>1. PICK j : j = i + (x + 1)
      OBVIOUS
    <3>2. j \in 0 .. n /\ j <= n /\ j + 1 <= n /\ j + 1 = i + ((x + 1) + 1) /\ j + 1 \in 0 .. n
      BY ONLY <1>2, <2>1, <2>2, <3>1
    <3>3. off[i] < off[j]
      BY ONLY <1>3, <2>1, <3>1, <3>2, x \in T, i \in 0 .. n
    <3>4. off[j] < off[j + 1]
      BY ONLY <1>4, <3>2
    <3>5. off[i] \in Nat /\ off[j] \in Nat /\ off[j + 1] \in Nat
      BY ONLY <1>2, <3>2, i \in 0 .. n
    <3> QED
      BY ONLY <3>2, <3>3, <3>4, <3>5
  <2> QED
    BY ONLY <1>3, <2>1, <2>2
<1>7. T = Nat
  BY ONLY <1>5, <1>6, <1>t, SetInduction
<1>8. ASSUME NEW i \in 0 .. n, NEW j \in 0 .. n, i < j
      PROVE  off[i] < off[j]
  <2>1. PICK x : x = (j - i) - 1
    OBVIOUS
  <2>2. x \in Nat /\ i + (x + 1) = j /\ j <= n
    BY ONLY <1>2, <1>8, <2>1
  <2> QED
    BY ONLY <1>3, <1>7, <2>2, i \in 0 .. n
<1>9. ASSUME NEW i \in 0 .. n
      PROVE  off[i] <= off[n]
  <2>1. n \in 0 .. n /\ (i = n \/ i < n)
    BY ONLY <1>2, i \in 0 .. n
  <2>2. off[i] \in Nat /\ off[n] \in Nat
    BY ONLY <1>2, <2>1, i \in 0 .. n
  <2> QED
    BY ONLY <1>8, <2>1, <2>2, i \in 0 .. n
<1> QED
  BY ONLY <1>1, <1>2, <1>8, <1>9

\* k tags end within the first e bytes, and no more.
EndedBy(f, off, e, k) ==
  k \in 0 .. Len(f) /\ off[k] <= e /\ (k < Len(f) => e < off[k + 1])

LEMMA SomeHaveEnded ==
  ASSUME NEW f, NEW off, NEW h, FileLaid(f, off, h), NEW e \in Nat, FileHead <= e
  PROVE  \E k : EndedBy(f, off, e, k)
<1>1. PICK n : n = Len(f)
  OBVIOUS
<1>2. n \in Nat /\ off[0] = FileHead /\ \A i \in 0 .. n : off[i] \in Nat
  <2>1. f \in Seq(TagSort)
    BY DEF FileLaid
  <2> QED
    BY <1>1, <2>1, LenProperties DEF FileLaid
<1> DEFINE Upto(x) == \E k \in 0 .. x : off[k] <= e /\ (k < x => e < off[k + 1])
           T == {x \in Nat : x <= n => Upto(x)}
<1>3. \A x \in Nat : x \in T <=> (x <= n => Upto(x))
  OBVIOUS
<1>t. T \subseteq Nat
  OBVIOUS
<1> HIDE DEF T
<1>4. 0 \in T
  <2>1. 0 \in 0 .. 0 /\ ~ (0 < 0)
    OBVIOUS
  <2>2. Upto(0)
    BY <1>2, <2>1
  <2> QED
    BY <1>3, <2>2
<1>5. ASSUME NEW x \in T
      PROVE  x + 1 \in T
  <2>1. x \in Nat /\ x + 1 \in Nat
    BY <1>t
  <2>2. CASE ~ (x + 1 <= n)
    BY <1>3, <2>1, <2>2
  <2>3. CASE x + 1 <= n
    <3>1. x <= n /\ x + 1 \in 0 .. n
      BY ONLY <1>2, <2>1, <2>3
    <3>2. Upto(x)
      BY <1>3, <2>1, <3>1
    <3>3. PICK k \in 0 .. x : off[k] <= e /\ (k < x => e < off[k + 1])
      BY <3>2
    <3>4. CASE off[x + 1] <= e
      <4>1. x + 1 \in 0 .. x + 1 /\ ~ (x + 1 < x + 1)
        BY ONLY <2>1
      <4>2. Upto(x + 1)
        BY <3>4, <4>1
      <4> QED
        BY <1>3, <2>1, <4>2
    <3>5. CASE ~ (off[x + 1] <= e)
      <4>1. off[x + 1] \in Nat
        BY ONLY <1>2, <3>1
      <4>2. e < off[x + 1]
        BY ONLY <3>5, <4>1, e \in Nat
      <4>3. k \in 0 .. x + 1 /\ (k < x + 1 => k < x \/ k = x)
        BY ONLY <2>1, k \in 0 .. x
      <4>4. k < x + 1 => e < off[k + 1]
        BY ONLY <3>3, <4>2, <4>3
      <4>5. Upto(x + 1)
        BY <3>3, <4>3, <4>4
      <4> QED
        BY <1>3, <2>1, <4>5
    <3> QED
      BY <3>4, <3>5
  <2> QED
    BY <2>2, <2>3
<1>6. T = Nat
  BY ONLY <1>4, <1>5, <1>t, SetInduction
<1>7. Upto(n)
  BY ONLY <1>2, <1>3, <1>6, n <= n
<1> QED
  BY <1>1, <1>7 DEF EndedBy

-----------------------------------------------------------------------------
(* FlvReader: decoding *)

\* The loop of Decode at one place, g being the results at the places behind.
DecodeAt(g, b, pos) ==
  IF ~ Reader!TagFits(b, pos) THEN [size |-> pos, packets |-> <<>>, lost |-> FALSE]
  ELSE LET i == b[pos + 1].tag
           end == pos + TagHead + file[i].size
           more == IF Reader!Misread(file[i]) \/ end > Len(b)
                   THEN [size |-> end, packets |-> <<>>, lost |-> TRUE]
                   ELSE g[end]
       IN  [more EXCEPT !.packets = Reader!Packets(file[i], i) \o @]

Decodes(g, b) == g = [pos \in 0 .. Len(b) |-> DecodeAt(g, b, pos)]

\* The bytes of b are of tags that there are.
OfTags(b) ==
  /\ b \in Seq(Byte)
  /\ \A i \in 1 .. Len(b) : b[i].tag \in 1 .. Len(file)
  /\ \A i \in 1 .. Len(file) : file[i].size \in Nat

\* What Decode finds at a place depends on later places alone.
LEMMA DecodesFromBehind ==
  ASSUME NEW b, OfTags(b), NEW pos \in 0 .. Len(b), NEW g, NEW r,
         \A x \in pos + 1 .. Len(b) : g[x] = r[x]
  PROVE  DecodeAt(g, b, pos) = DecodeAt(r, b, pos)
<1>1. CASE ~ Reader!TagFits(b, pos)
  BY <1>1 DEF DecodeAt
<1>2. CASE Reader!TagFits(b, pos)
  <2>1. PICK i : i = b[pos + 1].tag
    OBVIOUS
  <2>2. PICK end : end = pos + TagHead + file[i].size
    OBVIOUS
  <2>3. PICK n : n = Len(b)
    OBVIOUS
  <2>4. n \in Nat /\ pos \in 0 .. n /\ TagHead \in Nat \ {0}
    BY <2>3, LenProperties, ConstantsOfReader DEF OfTags
  <2>5. n - pos >= TagHead
    BY <1>2, <2>3 DEF Reader!TagFits
  <2>6. pos + 1 \in 1 .. n
    BY ONLY <2>4, <2>5
  <2>7. file[i].size \in Nat
    BY <2>1, <2>3, <2>6 DEF OfTags
  <2>8. end \in Nat /\ end > pos
    BY ONLY <2>2, <2>4, <2>7
  <2>9. ~ (end > n) => end \in pos + 1 .. n
    BY ONLY <2>4, <2>8
  <2>10. ~ (end > Len(b)) => g[end] = r[end]
    BY <2>3, <2>9
  <2>11. CASE Reader!Misread(file[i]) \/ end > Len(b)
    BY ONLY <1>2, <2>1, <2>2, <2>11 DEF DecodeAt
  <2>12. CASE ~ (Reader!Misread(file[i]) \/ end > Len(b))
    BY ONLY <1>2, <2>1, <2>2, <2>10, <2>12 DEF DecodeAt
  <2> QED
    BY <2>11, <2>12
<1> QED
  BY <1>1, <1>2

LEMMA SomethingDecodes ==
  ASSUME NEW b, OfTags(b)
  PROVE  \E g : Decodes(g, b)
<1>1. PICK n : n = Len(b)
  OBVIOUS
<1>2. n \in Nat
  BY <1>1, LenProperties DEF OfTags
<1> DEFINE From(k) == \E g : /\ g = [x \in 0 .. n |-> g[x]]
                             /\ \A x \in 0 .. n : x + k >= n => g[x] = DecodeAt(g, b, x)
           T == {k \in Nat : From(k)}
<1>3. \A k \in Nat : k \in T <=> From(k)
  OBVIOUS
<1>t. T \subseteq Nat
  OBVIOUS
<1> HIDE DEF T
<1>4. ASSUME NEW y \in 0 .. n, NEW r, r = [x \in 0 .. n |-> r[x]]
      PROVE  \E g : /\ g = [x \in 0 .. n |-> g[x]]
                    /\ \A x \in y + 1 .. n : g[x] = r[x]
                    /\ g[y] = DecodeAt(g, b, y)
  <2>1. PICK d : d = DecodeAt(r, b, y)
    OBVIOUS
  <2>2. PICK g : g = [x \in 0 .. n |-> IF x = y THEN d ELSE r[x]]
    OBVIOUS
  <2>3. g = [x \in 0 .. n |-> g[x]] /\ g[y] = d
    BY ONLY <2>2, y \in 0 .. n
  <2>4. \A x \in y + 1 .. n : x \in 0 .. n /\ x # y
    BY ONLY <1>2, y \in 0 .. n
  <2>5. \A x \in y + 1 .. n : g[x] = r[x]
    BY ONLY <2>2, <2>4
  <2>6. DecodeAt(g, b, y) = DecodeAt(r, b, y)
    <3>1. y \in 0 .. Len(b) /\ \A x \in y + 1 .. Len(b) : g[x] = r[x]
      BY <1>1, <2>5
    <3> QED
      BY ONLY <3>1, OfTags(b), DecodesFromBehind
  <2> QED
    BY <2>1, <2>3, <2>5, <2>6
<1>5. 0 \in T
  <2>1. PICK r : r = [x \in 0 .. n |-> 0]
    OBVIOUS
  <2>2. r = [x \in 0 .. n |-> r[x]] /\ n \in 0 .. n
    BY ONLY <1>2, <2>1
  <2>3. PICK g : g = [x \in 0 .. n |-> g[x]] /\ g[n] = DecodeAt(g, b, n)
    BY ONLY <1>4, <2>2
  <2>4. \A x \in 0 .. n : x + 0 >= n => x = n
    BY ONLY <1>2
  <2>5. From(0)
    BY <2>3, <2>4
  <2> QED
    BY ONLY <1>3, <2>5, 0 \in Nat
<1>6. ASSUME NEW k \in T
      PROVE  k + 1 \in T
  <2>1. k \in Nat /\ k + 1 \in Nat
    BY <1>t
  <2>2. PICK r : /\ r = [x \in 0 .. n |-> r[x]]
                 /\ \A x \in 0 .. n : x + k >= n => r[x] = DecodeAt(r, b, x)
    BY <1>3, <2>1
  <2>3. CASE k >= n
    <3>1. \A x \in 0 .. n : x + k >= n
      BY ONLY <1>2, <2>1, <2>3
    <3>2. From(k + 1)
      BY ONLY <2>2, <3>1
    <3> QED
      BY ONLY <1>3, <2>1, <3>2
  <2>4. CASE ~ (k >= n)
    <3>1. PICK y : y = n - (k + 1)
      OBVIOUS
    <3>2. /\ y \in 0 .. n
          /\ \A x \in 0 .. n : x + (k + 1) >= n => x = y \/ x \in y + 1 .. n
          /\ \A x \in y + 1 .. n : x \in 0 .. n /\ x + k >= n
          /\ \A x \in y + 1 .. n : \A z \in x + 1 .. n : z \in y + 1 .. n
      BY ONLY <1>2, <2>1, <2>4, <3>1
    <3>3. PICK g : /\ g = [x \in 0 .. n |-> g[x]]
                   /\ \A x \in y + 1 .. n : g[x] = r[x]
                   /\ g[y] = DecodeAt(g, b, y)
      BY ONLY <1>4, <2>2, <3>2
    <3>4. ASSUME NEW x \in y + 1 .. n
          PROVE  g[x] = DecodeAt(g, b, x)
      <4>1. g[x] = r[x] /\ r[x] = DecodeAt(r, b, x)
        BY ONLY <2>2, <3>2, <3>3, x \in y + 1 .. n
      <4>2. x \in 0 .. Len(b) /\ \A z \in x + 1 .. Len(b) : g[z] = r[z]
        BY ONLY <1>1, <3>2, <3>3, x \in y + 1 .. n
      <4>3. DecodeAt(g, b, x) = DecodeAt(r, b, x)
        BY ONLY <4>2, OfTags(b), DecodesFromBehind
      <4> QED
        BY ONLY <4>1, <4>3
    <3>5. \A x \in 0 .. n : x + (k + 1) >= n => g[x] = DecodeAt(g, b, x)
      BY ONLY <3>2, <3>3, <3>4
    <3>6. From(k + 1)
      BY ONLY <3>3, <3>5
    <3> QED
      BY ONLY <1>3, <2>1, <3>6
  <2> QED
    BY ONLY <2>3, <2>4
<1>7. T = Nat
  BY ONLY <1>5, <1>6, <1>t, SetInduction
<1>8. PICK g : /\ g = [x \in 0 .. n |-> g[x]]
               /\ \A x \in 0 .. n : x + n >= n => g[x] = DecodeAt(g, b, x)
  BY ONLY <1>2, <1>3, <1>7
<1>9. \A x \in 0 .. n : x + n >= n
  BY ONLY <1>2
<1>10. g = [x \in 0 .. n |-> DecodeAt(g, b, x)]
  BY ONLY <1>8, <1>9
<1> QED
  BY ONLY <1>1, <1>10 DEF Decodes

LEMMA DecodeIsOne ==
  ASSUME NEW b, OfTags(b)
  PROVE  \E g : /\ \A pos \in 0 .. Len(b) : g[pos] = DecodeAt(g, b, pos)
                /\ Reader!Decode(b) = g[0]
<1> DEFINE h == CHOOSE g : Decodes(g, b)
<1>1. Decodes(h, b)
  BY ONLY SomethingDecodes, OfTags(b)
<1>2. Reader!Decode(b) = h[0]
  BY DEF Reader!Decode, Decodes, DecodeAt
<1> HIDE DEF h
<1>3. \A pos \in 0 .. Len(b) : h[pos] = DecodeAt(h, b, pos)
  <2>1. h = [pos \in 0 .. Len(b) |-> DecodeAt(h, b, pos)]
    BY ONLY <1>1 DEF Decodes
  <2> QED
    BY ONLY <2>1
<1> QED
  BY ONLY <1>2, <1>3

Given == Nat \X Nat

LEMMA PacketsAreSeq ==
  ASSUME NEW tag \in TagSort, NEW i \in Nat
  PROVE  Reader!Packets(tag, i) \in Seq(Given)
<1>1. PICK n : n = CASE tag.kind = "video" -> tag.nalus
                     [] tag.kind = "config" -> 2
                     [] OTHER -> 0
  OBVIOUS
<1>2. tag.nalus \in Nat
  BY DEF TagSort
<1>3. n \in Nat
  <2>1. CASE tag.kind = "video"
    BY <1>1, <1>2, <2>1
  <2>2. CASE tag.kind = "config"
    BY <1>1, <2>2
  <2>3. CASE tag.kind # "video" /\ tag.kind # "config"
    BY <1>1, <2>3
  <2> QED
    BY <2>1, <2>2, <2>3
<1>4. PICK p : p = [k \in 1 .. n |-> <<i, k>>]
  OBVIOUS
<1>5. Reader!Packets(tag, i) = p
  BY <1>1, <1>4 DEF Reader!Packets
<1>6. \A k \in 1 .. n : <<i, k>> \in Given
  BY ONLY <1>3, i \in Nat DEF Given
<1>7. p \in [1 .. n -> Given]
  BY ONLY <1>4, <1>6
<1> QED
  BY ONLY <1>3, <1>5, <1>7, SeqDef

\* The packets of the first tags, one behind the other.
HandedUpto(f, n) == Front(Handed(f), n)

LEMMA HandedGrows ==
  ASSUME NEW f \in Seq(TagSort), NEW n \in Nat, n <= Len(f)
  PROVE  /\ HandedUpto(f, n) \in Seq(Given)
         /\ n < Len(f) => /\ Reader!Packets(f[n + 1], n + 1) \in Seq(Given)
                          /\ HandedUpto(f, n + 1)
                               = HandedUpto(f, n) \o Reader!Packets(f[n + 1], n + 1)
<1>1. PICK m : m = Len(f)
  OBVIOUS
<1>2. PICK s : s = Handed(f)
  OBVIOUS
<1>3. m \in Nat /\ \A i \in 1 .. m : s[i] = Reader!Packets(f[i], i)
  BY <1>1, <1>2, LenProperties DEF Handed
<1>4. \A i \in 1 .. m : s[i] \in Seq(Given)
  <2>1. \A i \in 1 .. m : f[i] \in TagSort /\ i \in Nat
    BY <1>1, <1>3, ElementOfSeq
  <2>2. \A i \in 1 .. m : Reader!Packets(f[i], i) \in Seq(Given)
    BY ONLY <2>1, PacketsAreSeq
  <2> QED
    BY ONLY <1>3, <2>2
<1>5. Front(s, n) \in Seq(Given)
  <2>1. \A i \in 1 .. n : s[i] \in Seq(Given)
    BY <1>1, <1>3, <1>4
  <2>2. JoinedUp(Given, s, n, [i \in 0 .. n |-> Len(Front(s, i))])
    BY ONLY <2>1, FrontsAreSeqs, n \in Nat
  <2> QED
    BY ONLY <2>2 DEF JoinedUp
<1>6. ASSUME n < m
      PROVE  /\ Reader!Packets(f[n + 1], n + 1) \in Seq(Given)
             /\ Front(s, n + 1) = Front(s, n) \o Reader!Packets(f[n + 1], n + 1)
  <2>1. n + 1 \in 1 .. m
    BY ONLY <1>3, <1>6, n \in Nat
  <2>2. s[n + 1] = Reader!Packets(f[n + 1], n + 1) /\ s[n + 1] \in Seq(Given)
    BY ONLY <1>3, <1>4, <2>1
  <2>3. Front(s, n + 1) = Front(s, n) \o s[n + 1]
    BY ONLY <2>2, FrontProlongs, n \in Nat
  <2> QED
    BY ONLY <2>2, <2>3
<1> QED
  BY <1>1, <1>2, <1>5, <1>6 DEF HandedUpto

\* r is what decoding finds behind the first j of k tags that are there in whole, size
\* bytes, or it has lost the boundaries of the tags.
Finds(r, j, k, size) ==
  \E p \in Seq(Given) :
    \/ \E s : r = [size |-> s, packets |-> p, lost |-> TRUE]
    \/ /\ r = [size |-> size, packets |-> p, lost |-> FALSE]
       /\ HandedUpto(file, j) \o p = HandedUpto(file, k)

\* b, from the end of m tags up to place e of the file.
HeldPart(off, h, b, m, e) ==
  /\ FileLaid(file, off, h)
  /\ m \in 0 .. Len(file)
  /\ e \in Nat /\ e <= Len(h)
  /\ LiesIn(Byte, b, h, off[m], e)

LEMMA HeldOfTags ==
  ASSUME NEW off, NEW h, NEW b, NEW m, NEW e, HeldPart(off, h, b, m, e)
  PROVE  /\ OfTags(b)
         /\ FileHead <= off[m]
<1>1. PICK n : n = Len(file)
  OBVIOUS
<1>2. PICK l : l = Len(b)
  OBVIOUS
<1>3. /\ file \in Seq(TagSort) /\ m \in 0 .. n /\ e \in Nat /\ e <= Len(h)
      /\ off[0] = FileHead /\ off \in [0 .. n -> Nat]
      /\ h \in Seq(Byte) /\ \A i \in FileHead + 1 .. Len(h) : h[i].tag \in 1 .. n
      /\ b \in Seq(Byte) /\ l = e - off[m]
      /\ \A i \in 1 .. l : b[i] = h[off[m] + i]
  BY ONLY <1>1, <1>2, HeldPart(off, h, b, m, e) DEF HeldPart, FileLaid, LiesIn
<1>4. n \in Nat /\ Len(h) \in Nat /\ l \in Nat /\ FileHead \in Nat /\ off[m] \in Nat
  <2>1. FileHead \in Nat
    BY ConstantsOfReader
  <2>2. n \in Nat /\ Len(h) \in Nat /\ l \in Nat
    BY ONLY <1>1, <1>2, <1>3, LenProperties
  <2> QED
    BY ONLY <1>3, <2>1, <2>2
<1>5. FileHead <= off[m]
  <2>1. FileLaid(file, off, h)
    BY DEF HeldPart
  <2>2. \A i \in 0 .. n : \A j \in 0 .. n : i < j => off[i] < off[j]
    BY ONLY <1>1, <2>1, TagsAscend
  <2>3. 0 \in 0 .. n /\ (m = 0 \/ 0 < m)
    BY ONLY <1>3, <1>4
  <2>4. m = 0 \/ off[0] < off[m]
    BY ONLY <1>3, <2>2, <2>3
  <2> QED
    BY ONLY <1>3, <1>4, <2>4
<1>6. \A i \in 1 .. l : off[m] + i \in FileHead + 1 .. Len(h)
  <2>1. e \in Nat /\ e <= Len(h) /\ l = e - off[m]
    BY ONLY <1>3
  <2> QED
    BY ONLY <1>4, <1>5, <2>1
<1>7. \A i \in 1 .. l : b[i].tag \in 1 .. n
  BY ONLY <1>3, <1>6
<1>8. \A i \in 1 .. n : file[i].size \in Nat
  <2>1. \A i \in 1 .. n : file[i] \in TagSort
    BY ONLY <1>1, <1>3, ElementOfSeq
  <2> QED
    BY ONLY <2>1 DEF TagSort
<1>9. OfTags(b)
  BY ONLY <1>1, <1>2, <1>3, <1>7, <1>8 DEF OfTags
<1> QED
  BY <1>5, <1>9

\* Decoding at the end of the last tag that is there in whole.
LEMMA FindsNoMore ==
  ASSUME NEW off, NEW h, NEW b, NEW m, NEW e, HeldPart(off, h, b, m, e),
         NEW k, EndedBy(file, off, e, k), m <= k
  PROVE  /\ off[k] - off[m] \in 0 .. Len(b)
         /\ ~ Reader!TagFits(b, off[k] - off[m])
<1>1. PICK n : n = Len(file)
  OBVIOUS
<1>2. PICK l : l = Len(b)
  OBVIOUS
<1>3. PICK pos : pos = off[k] - off[m]
  OBVIOUS
<1>4. /\ n \in Nat /\ m \in 0 .. n /\ k \in 0 .. n /\ e \in Nat /\ l \in Nat
      /\ off[m] \in Nat /\ off[k] \in Nat /\ l = e - off[m] /\ off[k] <= e
      /\ TagHead \in Nat \ {0} /\ e <= Len(h) /\ Len(h) = off[n]
      /\ k < n => e < off[k + 1]
      /\ \A i \in 1 .. l : b[i] = h[off[m] + i]
      /\ \A i \in 1 .. n : h[off[i - 1] + 1].tag = i
      /\ \A i \in 1 .. n : off[i] = off[i - 1] + (TagHead + file[i].size)
  <2>1. /\ file \in Seq(TagSort) /\ off \in [0 .. n -> Nat] /\ b \in Seq(Byte)
        /\ m \in 0 .. n /\ e \in Nat /\ e <= Len(h) /\ Len(h) = off[n] /\ l = e - off[m]
        /\ \A i \in 1 .. l : b[i] = h[off[m] + i]
        /\ \A i \in 1 .. n : h[off[i - 1] + 1].tag = i
        /\ \A i \in 1 .. n : off[i] = off[i - 1] + (TagHead + file[i].size)
    BY ONLY <1>1, <1>2, HeldPart(off, h, b, m, e) DEF HeldPart, FileLaid, LiesIn
  <2>2. k \in 0 .. n /\ off[k] <= e /\ (k < n => e < off[k + 1])
    BY <1>1 DEF EndedBy
  <2>3. n \in Nat /\ l \in Nat
    BY ONLY <1>1, <1>2, <2>1, LenProperties
  <2>4. TagHead \in Nat \ {0}
    BY ConstantsOfReader
  <2> QED
    BY ONLY <2>1, <2>2, <2>3, <2>4
<1>5. off[m] <= off[k]
  <2>1. FileLaid(file, off, h)
    BY DEF HeldPart
  <2>2. \A i \in 0 .. n : \A j \in 0 .. n : i < j => off[i] < off[j]
    BY ONLY <1>1, <2>1, TagsAscend
  <2>3. m = k \/ m < k
    BY ONLY <1>4, m <= k
  <2>4. m = k \/ off[m] < off[k]
    BY ONLY <1>4, <2>2, <2>3
  <2> QED
    BY ONLY <1>4, <2>4
<1>6. pos \in 0 .. l /\ off[m] + pos = off[k] /\ l - pos = e - off[k]
  <2>1. /\ off[m] \in Nat /\ off[k] \in Nat /\ e \in Nat /\ l = e - off[m] /\ off[k] <= e
    BY ONLY <1>4
  <2> QED
    BY ONLY <1>3, <1>5, <2>1
<1>7. ASSUME Reader!TagFits(b, pos)
      PROVE  FALSE
  <2>1. l - pos >= TagHead /\ (l - pos) - TagHead >= file[b[pos + 1].tag].size
    BY <1>2, <1>7 DEF Reader!TagFits
  <2>2. k < n
    <3>1. CASE k = n
      <4>1. e <= off[k] /\ e \in Nat /\ off[k] \in Nat /\ l - pos = e - off[k]
            /\ TagHead \in Nat \ {0}
        BY ONLY <1>4, <1>6, <3>1
      <4>2. l - pos >= TagHead
        BY ONLY <2>1
      <4>3. FALSE
        BY ONLY <4>1, <4>2
      <4> QED
        BY <4>3
    <3> QED
      BY ONLY <1>4, <3>1
  <2>3. PICK i : i = k + 1
    OBVIOUS
  <2>4. i \in 1 .. n /\ i - 1 = k /\ i \in 0 .. n
    BY ONLY <1>4, <2>2, <2>3
  <2>5. off[i] = off[k] + (TagHead + file[i].size) /\ e < off[i]
        /\ h[off[k] + 1].tag = i
    BY ONLY <1>4, <2>2, <2>3, <2>4
  <2>6. pos + 1 \in 1 .. l /\ off[m] + (pos + 1) = off[k] + 1
    <3>1. l - pos >= TagHead /\ l \in Nat /\ TagHead \in Nat \ {0} /\ off[m] \in Nat
      BY ONLY <1>4, <2>1
    <3> QED
      BY ONLY <1>6, <3>1
  <2>7. b[pos + 1].tag = i
    BY ONLY <1>4, <2>5, <2>6
  <2>8. file[i].size \in Nat
    <3>1. OfTags(b)
      BY ONLY HeldOfTags, HeldPart(off, h, b, m, e)
    <3> QED
      BY <1>1, <2>4, <3>1 DEF OfTags
  <2>9. PICK z : z = file[i].size
    OBVIOUS
  <2>10. PICK u : u = off[i]
    OBVIOUS
  <2>11. /\ z \in Nat /\ u = off[k] + (TagHead + z) /\ e < u /\ (l - pos) - TagHead >= z
         /\ l - pos = e - off[k] /\ off[k] \in Nat /\ e \in Nat /\ TagHead \in Nat
    BY ONLY <1>4, <1>6, <2>1, <2>5, <2>7, <2>8, <2>9, <2>10
  <2> QED
    BY ONLY <2>11
<1> QED
  BY <1>2, <1>3, <1>6, <1>7

\* Decoding at the beginning of a tag that is there in whole.
LEMMA FindsTag ==
  ASSUME NEW off, NEW h, NEW b, NEW m, NEW e, HeldPart(off, h, b, m, e),
         NEW j \in m + 1 .. Len(file), off[j] <= e
  PROVE  /\ off[j - 1] - off[m] \in 0 .. Len(b)
         /\ Reader!TagFits(b, off[j - 1] - off[m])
         /\ b[(off[j - 1] - off[m]) + 1].tag = j
         /\ ((off[j - 1] - off[m]) + TagHead) + file[j].size = off[j] - off[m]
         /\ off[j] - off[m] <= Len(b)
<1>1. PICK n : n = Len(file)
  OBVIOUS
<1>2. PICK l : l = Len(b)
  OBVIOUS
<1>3. PICK i : i = j - 1
  OBVIOUS
<1>4. PICK z : z = file[j].size
  OBVIOUS
<1>5. /\ n \in Nat /\ m \in 0 .. n /\ e \in Nat /\ l \in Nat
      /\ off \in [0 .. n -> Nat] /\ l = e - off[m]
      /\ TagHead \in Nat \ {0}
      /\ \A x \in 1 .. l : b[x] = h[off[m] + x]
      /\ \A x \in 1 .. n : h[off[x - 1] + 1].tag = x
      /\ \A x \in 1 .. n : off[x] = off[x - 1] + (TagHead + file[x].size)
  <2>1. /\ file \in Seq(TagSort) /\ off \in [0 .. n -> Nat] /\ b \in Seq(Byte)
        /\ m \in 0 .. n /\ e \in Nat /\ l = e - off[m]
        /\ \A x \in 1 .. l : b[x] = h[off[m] + x]
        /\ \A x \in 1 .. n : h[off[x - 1] + 1].tag = x
        /\ \A x \in 1 .. n : off[x] = off[x - 1] + (TagHead + file[x].size)
    BY ONLY <1>1, <1>2, HeldPart(off, h, b, m, e) DEF HeldPart, FileLaid, LiesIn
  <2>2. n \in Nat /\ l \in Nat
    BY ONLY <1>1, <1>2, <2>1, LenProperties
  <2>3. TagHead \in Nat \ {0}
    BY ConstantsOfReader
  <2> QED
    BY ONLY <2>1, <2>2, <2>3
<1>6. j \in 1 .. n /\ i \in 0 .. n /\ j \in 0 .. n /\ (m = i \/ m < i)
  <2>1. j \in m + 1 .. n /\ n \in Nat /\ m \in 0 .. n
    BY ONLY <1>1, <1>5, j \in m + 1 .. Len(file)
  <2> QED
    BY ONLY <1>3, <2>1
<1>7. /\ off[m] \in Nat /\ off[i] \in Nat /\ off[j] \in Nat /\ off[j] = off[i] + (TagHead + z)
      /\ h[off[i] + 1].tag = j
  BY ONLY <1>3, <1>4, <1>5, <1>6
<1>8. z \in Nat
  <2>1. OfTags(b)
    BY ONLY HeldOfTags, HeldPart(off, h, b, m, e)
  <2> QED
    BY <1>1, <1>4, <1>6, <2>1 DEF OfTags
<1>9. off[m] <= off[i]
  <2>1. FileLaid(file, off, h)
    BY DEF HeldPart
  <2>2. \A x \in 0 .. n : \A y \in 0 .. n : x < y => off[x] < off[y]
    BY ONLY <1>1, <2>1, TagsAscend
  <2>3. m = i \/ off[m] < off[i]
    BY ONLY <1>5, <1>6, <2>2
  <2> QED
    BY ONLY <1>7, <2>3
<1>10. PICK pos : pos = off[i] - off[m]
  OBVIOUS
<1>11. /\ l = e - off[m] /\ l \in Nat /\ TagHead \in Nat \ {0} /\ e \in Nat /\ off[j] <= e
  BY ONLY <1>5, off[j] <= e
<1>12. pos \in 0 .. l /\ pos + 1 \in 1 .. l /\ off[m] + (pos + 1) = off[i] + 1
       /\ (pos + TagHead) + z = off[j] - off[m] /\ off[j] - off[m] <= l
       /\ l - pos >= TagHead /\ (l - pos) - TagHead >= z
  <2>1. PICK u : u = off[m]
    OBVIOUS
  <2>2. PICK v : v = off[i]
    OBVIOUS
  <2>3. PICK w : w = off[j]
    OBVIOUS
  <2>4. /\ u \in Nat /\ v \in Nat /\ w \in Nat /\ w = v + (TagHead + z) /\ u <= v
        /\ pos = v - u /\ l = e - u /\ w <= e
    BY ONLY <1>7, <1>9, <1>10, <1>11, <2>1, <2>2, <2>3
  <2>5. l \in Nat /\ e \in Nat /\ z \in Nat /\ TagHead \in Nat \ {0}
    BY ONLY <1>8, <1>11
  <2>6. pos \in 0 .. l /\ pos + 1 \in 1 .. l /\ u + (pos + 1) = v + 1
    BY ONLY <2>4, <2>5
  <2>7. (pos + TagHead) + z = w - u /\ w - u <= l
    BY ONLY <2>4, <2>5
  <2>8. l - pos >= TagHead /\ (l - pos) - TagHead >= z
    BY ONLY <2>4, <2>5
  <2> QED
    BY ONLY <2>1, <2>2, <2>3, <2>6, <2>7, <2>8
<1>13. b[pos + 1].tag = j
  BY ONLY <1>5, <1>7, <1>12
<1>14. Reader!TagFits(b, pos)
  BY ONLY <1>2, <1>4, <1>12, <1>13 DEF Reader!TagFits
<1> QED
  BY ONLY <1>2, <1>3, <1>4, <1>10, <1>12, <1>13, <1>14

\* Decode, of what begins with a tag, delivers the packets of the tags that are there in
\* whole, and takes these tags; or the reader has lost the boundaries of tags.
LEMMA DecodeFinds ==
  ASSUME NEW off, NEW h, NEW b, NEW m, NEW e, HeldPart(off, h, b, m, e),
         NEW k, EndedBy(file, off, e, k), m <= k
  PROVE  Finds(Reader!Decode(b), m, k, off[k] - off[m])
<1>1. PICK n : n = Len(file)
  OBVIOUS
<1>2. PICK size : size = off[k] - off[m]
  OBVIOUS
<1>3. /\ n \in Nat /\ m \in 0 .. n /\ k \in 0 .. n /\ e \in Nat /\ off[k] <= e
      /\ \A i \in 0 .. n : off[i] \in Nat
      /\ file \in Seq(TagSort)
  <2>1. file \in Seq(TagSort) /\ off \in [0 .. n -> Nat] /\ m \in 0 .. n /\ e \in Nat
    BY ONLY <1>1, HeldPart(off, h, b, m, e) DEF HeldPart, FileLaid
  <2>2. n \in Nat
    BY ONLY <1>1, <2>1, LenProperties
  <2>3. k \in 0 .. n /\ off[k] <= e
    BY <1>1 DEF EndedBy
  <2> QED
    BY ONLY <2>1, <2>2, <2>3
<1>4. PICK g : /\ \A pos \in 0 .. Len(b) : g[pos] = DecodeAt(g, b, pos)
               /\ Reader!Decode(b) = g[0]
  <2>1. OfTags(b)
    BY ONLY HeldOfTags, HeldPart(off, h, b, m, e)
  <2> QED
    BY ONLY <2>1, DecodeIsOne
<1>5. ASSUME NEW i \in 0 .. n
      PROVE  /\ HandedUpto(file, i) \in Seq(Given)
             /\ i < n => /\ Reader!Packets(file[i + 1], i + 1) \in Seq(Given)
                         /\ HandedUpto(file, i + 1)
                              = HandedUpto(file, i) \o Reader!Packets(file[i + 1], i + 1)
  <2>1. i \in Nat /\ i <= Len(file)
    BY ONLY <1>1, <1>3, i \in 0 .. n
  <2> QED
    BY ONLY <1>1, <1>3, <2>1, HandedGrows
<1> DEFINE T == {x \in Nat : x <= k - m => Finds(g[off[k - x] - off[m]], k - x, k, size)}
<1>6. \A x \in Nat :
        x \in T <=> (x <= k - m => Finds(g[off[k - x] - off[m]], k - x, k, size))
  OBVIOUS
<1>t. T \subseteq Nat
  OBVIOUS
<1> HIDE DEF T
<1>7. 0 \in T
  <2>1. size \in 0 .. Len(b) /\ ~ Reader!TagFits(b, size)
    BY ONLY <1>2, FindsNoMore, HeldPart(off, h, b, m, e), EndedBy(file, off, e, k), m <= k
  <2>2. g[size] = [size |-> size, packets |-> <<>>, lost |-> FALSE]
    BY ONLY <1>4, <2>1 DEF DecodeAt
  <2>3. <<>> \in Seq(Given) /\ HandedUpto(file, k) \o <<>> = HandedUpto(file, k)
    <3>1. HandedUpto(file, k) \in Seq(Given)
      BY ONLY <1>3, <1>5
    <3> QED
      BY ONLY <3>1, EmptySeq, ConcatEmptySeq
  <2>4. Finds(g[size], k, k, size)
    BY ONLY <2>2, <2>3 DEF Finds
  <2>5. k - 0 = k
    BY ONLY <1>3
  <2> QED
    BY ONLY <1>2, <1>6, <2>4, <2>5, 0 \in Nat
<1>8. ASSUME NEW x \in T
      PROVE  x + 1 \in T
  <2>1. x \in Nat /\ x + 1 \in Nat
    BY <1>t
  <2>2. CASE ~ (x + 1 <= k - m)
    BY <1>6, <2>1, <2>2
  <2>3. CASE x + 1 <= k - m
    <3>1. PICK j : j = k - x
      OBVIOUS
    <3>2. /\ x <= k - m /\ j \in m + 1 .. n /\ j \in 0 .. n /\ j <= k
          /\ j - 1 = k - (x + 1) /\ j - 1 \in 0 .. n /\ j - 1 < n /\ (j - 1) + 1 = j
      BY ONLY <1>3, <2>1, <2>3, <3>1
    <3>3. Finds(g[off[j] - off[m]], j, k, size)
      BY ONLY <1>6, <2>1, <3>1, <3>2, x \in T
    <3>4. off[j] <= e
      <4>1. FileLaid(file, off, h)
        BY DEF HeldPart
      <4>2. \A a \in 0 .. n : \A c \in 0 .. n : a < c => off[a] < off[c]
        BY ONLY <1>1, <4>1, TagsAscend
      <4>3. j = k \/ j < k
        BY ONLY <1>3, <3>2
      <4>4. j = k \/ off[j] < off[k]
        BY ONLY <1>3, <3>2, <4>2, <4>3
      <4>5. off[j] \in Nat /\ off[k] \in Nat /\ off[k] <= e /\ e \in Nat
        BY ONLY <1>3, <3>2
      <4> QED
        BY ONLY <4>4, <4>5
    <3>5. PICK pos : pos = off[j - 1] - off[m]
      OBVIOUS
    <3>6. PICK end : end = off[j] - off[m]
      OBVIOUS
    <3>7. /\ pos \in 0 .. Len(b) /\ Reader!TagFits(b, pos) /\ b[pos + 1].tag = j
          /\ (pos + TagHead) + file[j].size = end /\ end <= Len(b)
      <4>1. j \in m + 1 .. Len(file)
        BY ONLY <1>1, <3>2
      <4> QED
        BY ONLY <3>4, <3>5, <3>6, <4>1, FindsTag, HeldPart(off, h, b, m, e)
    <3>8. PICK q : q = Reader!Packets(file[j], j)
      OBVIOUS
    <3>9. /\ HandedUpto(file, j - 1) \in Seq(Given) /\ q \in Seq(Given)
          /\ HandedUpto(file, j) = HandedUpto(file, j - 1) \o q
      BY ONLY <1>5, <3>2, <3>8
    <3>10. PICK more : more = IF Reader!Misread(file[j]) \/ end > Len(b)
                              THEN [size |-> end, packets |-> <<>>, lost |-> TRUE]
                              ELSE g[end]
      OBVIOUS
    <3>11. g[pos] = [more EXCEPT !.packets = q \o @]
      BY ONLY <1>4, <3>7, <3>8, <3>10 DEF DecodeAt
    <3>12. Finds(more, j, k, size)
      <4>1. CASE Reader!Misread(file[j]) \/ end > Len(b)
        <5>1. <<>> \in Seq(Given)
          BY EmptySeq
        <5>2. more = [size |-> end, packets |-> <<>>, lost |-> TRUE]
          BY ONLY <3>10, <4>1
        <5> QED
          BY ONLY <5>1, <5>2 DEF Finds
      <4>2. CASE ~ (Reader!Misread(file[j]) \/ end > Len(b))
        BY ONLY <3>3, <3>6, <3>10, <4>2
      <4> QED
        BY ONLY <4>1, <4>2
    <3>13. PICK p \in Seq(Given) :
             \/ \E s : more = [size |-> s, packets |-> p, lost |-> TRUE]
             \/ /\ more = [size |-> size, packets |-> p, lost |-> FALSE]
                /\ HandedUpto(file, j) \o p = HandedUpto(file, k)
      BY ONLY <3>12 DEF Finds
    <3>14. PICK t : t = q \o p
      OBVIOUS
    <3>15. t \in Seq(Given)
      BY ONLY <3>9, <3>14, ConcatProperties, p \in Seq(Given)
    <3>16. HandedUpto(file, j) \o p = HandedUpto(file, j - 1) \o t
      <4>1. AreSeqs(Given, HandedUpto(file, j - 1), q, p)
        BY ONLY <3>9, p \in Seq(Given) DEF AreSeqs
      <4>2. Associates(HandedUpto(file, j - 1), q, p)
        BY ONLY <4>1, Associative
      <4> QED
        BY ONLY <3>9, <3>14, <4>2 DEF Associates
    <3>17. Finds(g[pos], j - 1, k, size)
      <4>1. ASSUME NEW s, more = [size |-> s, packets |-> p, lost |-> TRUE]
            PROVE  Finds(g[pos], j - 1, k, size)
        <5>1. g[pos] = [size |-> s, packets |-> t, lost |-> TRUE]
          BY ONLY <3>11, <3>14, <4>1
        <5> QED
          BY ONLY <3>15, <5>1 DEF Finds
      <4>2. ASSUME more = [size |-> size, packets |-> p, lost |-> FALSE],
                   HandedUpto(file, j) \o p = HandedUpto(file, k)
            PROVE  Finds(g[pos], j - 1, k, size)
        <5>1. g[pos] = [size |-> size, packets |-> t, lost |-> FALSE]
          BY ONLY <3>11, <3>14, <4>2
        <5>2. HandedUpto(file, j - 1) \o t = HandedUpto(file, k)
          BY ONLY <3>16, <4>2
        <5> QED
          BY ONLY <3>15, <5>1, <5>2 DEF Finds
      <4> QED
        BY ONLY <3>13, <4>1, <4>2
    <3> QED
      BY ONLY <1>6, <2>1, <3>2, <3>5, <3>17
  <2> QED
    BY ONLY <2>2, <2>3
<1>9. T = Nat
  BY ONLY <1>7, <1>8, <1>t, SetInduction
<1>10. PICK x : x = k - m
  OBVIOUS
<1>11. x \in Nat /\ x <= k - m /\ k - x = m /\ off[m] - off[m] = 0
  BY ONLY <1>3, <1>10, m <= k
<1>12. Finds(g[off[m] - off[m]], m, k, size)
  BY ONLY <1>6, <1>9, <1>11
<1> QED
  BY ONLY <1>2, <1>4, <1>11, <1>12

-----------------------------------------------------------------------------
(* FlvReader: reading *)

\* Where the tags of a file end, the head of the file being at 0.
TagEnds(f) ==
  [i \in 0 .. Len(f) |->
     FileHead + Len(Reader!FlattenSeq([k \in 1 .. i |-> Reader!TagBytes(f, k)]))]

LEMMA TagEndsLaid ==
  ASSUME NEW f \in Files
  PROVE  FileLaid(f, TagEnds(f), Reader!Bytes(f))
<1>1. PICK off :
        /\ FileLaid(f, off, Reader!Bytes(f))
        /\ \A i \in 0 .. Len(f) :
             off[i] = FileHead + Len(Reader!FlattenSeq([k \in 1 .. i |->
                                                          Reader!TagBytes(f, k)]))
  BY ONLY BytesAreLaid, f \in Files
<1>2. off = [i \in 0 .. Len(f) |-> off[i]]
  BY <1>1 DEF FileLaid
<1>3. off = TagEnds(f)
  BY ONLY <1>1, <1>2 DEF TagEnds
<1> QED
  BY ONLY <1>1, <1>3

\* Of the bytes that DocodeChunk has been through: all m tags that end there have been
\* given away, in packets, and data_buffer_ holds the beginning of the next.
Kept(m) ==
  /\ EndedBy(file, TagEnds(file), FileHead + used, m)
  /\ LiesIn(Byte, dataBuffer, Reader!Bytes(file), TagEnds(file)[m], FileHead + used)
  /\ Len(dataBuffer) <= MaxBuffer
  /\ packets = HandedUpto(file, m)

\* Nothing has been read; ReadHeader is posted or has been taken.
NotBegun ==
  /\ filePos = 0
  /\ used = 0
  /\ dataBuffer = <<>>
  /\ \/ tasks = <<"ReadHeader">> /\ \A w \in Workers : worker[w].at = "idle"
     \/ /\ tasks = <<>>
        /\ \E w \in Workers : /\ worker[w].at = "ReadHeader"
                              /\ \A v \in Workers : v # w => worker[v].at = "idle"

\* What is left of the piece that w goes through lies behind the bytes gone through.
PieceOf(w) ==
  /\ LiesIn(Byte, tempBuffer, Reader!Bytes(file), filePos - Len(tempBuffer), filePos)
  /\ Len(tempBuffer) <= Piece
  /\ worker[w].offset <= Len(tempBuffer)
  /\ FileHead + used = (filePos - Len(tempBuffer)) + worker[w].offset

\* Pieces are read: one task at a time goes through one, and when none does, the next
\* piece begins behind the bytes gone through, unless the file has ended.
Reading ==
  /\ tasks \in Seq({"ReadFile"})
  /\ \A w \in Workers : worker[w].at \in {"idle", "ReadFile", "turn"}
  /\ \A v \in Workers : \A w \in Workers :
       worker[v].at = "turn" /\ worker[w].at = "turn" => v = w
  /\ \A w \in Workers : worker[w].at = "turn" => PieceOf(w)
  /\ (\A w \in Workers : worker[w].at # "turn")
       => FileHead + used = filePos \/ filePos = Len(Reader!Bytes(file))

WorkerSort ==
  [at : {"idle", "ReadHeader", "ReadFile", "turn"}, offset : Nat, posts : Nat]

InOrder ==
  /\ filePos \in Nat /\ filePos <= Len(Reader!Bytes(file))
  /\ used \in Nat
  /\ worker \in [Workers -> WorkerSort]
  /\ \E m : Kept(m)
  /\ NotBegun \/ Reading

ReaderInv == file \in Files /\ (~overlapped /\ ~lost => InOrder)

\* What fread puts into a buffer.
LEMMA FreadLies ==
  ASSUME file \in Files, filePos \in Nat, filePos <= Len(Reader!Bytes(file)), NEW n \in Nat
  PROVE  \E q \in filePos .. Len(Reader!Bytes(file)) :
           /\ LiesIn(Byte, Reader!Fread(n), Reader!Bytes(file), filePos, q)
           /\ Len(Reader!Fread(n)) = q - filePos
           /\ q - filePos <= n
           /\ q - filePos # n => q = Len(Reader!Bytes(file))
<1>1. PICK h : h = Reader!Bytes(file)
  OBVIOUS
<1>2. PICK l : l = Len(h)
  OBVIOUS
<1>3. h \in Seq(Byte)
  <2>1. FileLaid(file, TagEnds(file), h)
    BY <1>1, TagEndsLaid
  <2> QED
    BY ONLY <2>1 DEF FileLaid
<1>4. l \in Nat
  BY ONLY <1>2, <1>3, LenProperties
<1>5. filePos \in Nat /\ filePos <= l
  BY <1>1, <1>2
<1>6. PICK q : q = IF filePos + n < l THEN filePos + n ELSE l
  OBVIOUS
<1>7. /\ q \in filePos .. l /\ q \in Nat /\ q - filePos <= n
      /\ (q - filePos # n => q = l)
  BY ONLY <1>4, <1>5, <1>6, n \in Nat
<1>8. PICK s : s = SubSeq(h, 1, l)
  OBVIOUS
<1>9. s = h
  BY ONLY <1>2, <1>3, <1>8, SubSeqFull
<1>10. PICK t : t = Reader!Fread(n)
  OBVIOUS
<1>11. t = SubSeq(h, filePos + 1, q)
  BY <1>1, <1>2, <1>6, <1>10 DEF Reader!Fread, Reader!Least
<1>12. PICK p : p = filePos + 1
  OBVIOUS
<1>13. /\ p \in Int /\ q \in Int /\ \A i \in p .. q : i \in 1 .. l
       /\ (IF p <= q THEN (q - p) + 1 ELSE 0) = q - filePos
       /\ (q - p) + 1 = q - filePos
       /\ \A i \in 1 .. q - filePos : (p + i) - 1 = filePos + i
  BY ONLY <1>4, <1>5, <1>7, <1>12
<1>14. \A i \in p .. q : h[i] \in Byte
  BY ONLY <1>2, <1>3, <1>13, ElementOfSeq
<1>15. /\ SubSeq(h, p, q) \in Seq(Byte)
       /\ Len(SubSeq(h, p, q)) = IF p <= q THEN (q - p) + 1 ELSE 0
       /\ \A i \in 1 .. (q - p) + 1 : SubSeq(h, p, q)[i] = h[(p + i) - 1]
  <2>1. p \in Int /\ q \in Int
    BY ONLY <1>13
  <2> QED
    BY ONLY <1>14, <2>1, SubSeqProperties
<1>16. t = SubSeq(h, p, q)
  BY ONLY <1>11, <1>12
<1>17. t \in Seq(Byte) /\ Len(t) = q - filePos /\ \A i \in 1 .. q - filePos : t[i] = h[filePos + i]
  BY ONLY <1>13, <1>15, <1>16
<1>18. LiesIn(Byte, t, h, filePos, q)
  BY ONLY <1>5, <1>7, <1>17 DEF LiesIn
<1> QED
  BY <1>1, <1>2, <1>7, <1>10, <1>17, <1>18

LEMMA ReaderStarts == Reader!Init => ReaderInv
<1> SUFFICES ASSUME Reader!Init
             PROVE  ReaderInv
  OBVIOUS
<1>1. /\ file \in Files /\ filePos = 0 /\ used = 0 /\ dataBuffer = <<>> /\ packets = <<>>
      /\ tasks = <<"ReadHeader">> /\ worker = [w \in Workers |-> Reader!Idle]
  BY DEF Reader!Init
<1>2. PICK off : off = TagEnds(file)
  OBVIOUS
<1>3. PICK h : h = Reader!Bytes(file)
  OBVIOUS
<1>4. FileLaid(file, off, h)
  BY ONLY <1>1, <1>2, <1>3, TagEndsLaid
<1>5. PICK n : n = Len(file)
  OBVIOUS
<1>6. /\ file \in Seq(TagSort) /\ off[0] = FileHead /\ h \in Seq(Byte)
      /\ off \in [0 .. n -> Nat] /\ Len(h) = off[n]
  BY ONLY <1>4, <1>5 DEF FileLaid
<1>7. n \in Nat /\ Len(h) \in Nat /\ FileHead \in Nat /\ MaxBuffer \in Nat
  <2>1. FileHead \in Nat /\ MaxBuffer \in Nat
    BY ConstantsOfReader
  <2> QED
    BY ONLY <1>5, <1>6, <2>1, LenProperties
<1>8. EndedBy(file, off, FileHead + used, 0)
  <2>1. \A i \in 0 .. n : \A j \in 0 .. n : i < j => off[i] < off[j]
    BY ONLY <1>4, <1>5, TagsAscend
  <2>2. FileHead + used = FileHead /\ 0 \in 0 .. n /\ (0 < n => 0 + 1 \in 0 .. n /\ 0 < 0 + 1)
    BY ONLY <1>1, <1>7
  <2>3. 0 < n => FileHead < off[0 + 1]
    BY ONLY <1>6, <2>1, <2>2
  <2> QED
    BY ONLY <1>5, <1>6, <1>7, <2>2, <2>3 DEF EndedBy
<1>9. LiesIn(Byte, dataBuffer, h, off[0], FileHead + used)
  <2>1. <<>> \in Seq(Byte) /\ Len(<<>>) = 0
    BY EmptySeq
  <2>2. FileHead + used = FileHead /\ 0 = FileHead - FileHead /\ \A i \in 1 .. 0 : FALSE
    BY ONLY <1>1, <1>7
  <2> QED
    BY ONLY <1>1, <1>6, <1>7, <2>1, <2>2 DEF LiesIn
<1>10. packets = HandedUpto(file, 0)
  <2>1. [i \in 1 .. 0 |-> Handed(file)[i]] = <<>>
    OBVIOUS
  <2>2. Reader!FlattenSeq(<<>>) = <<>>
    BY EmptySeq DEF Reader!FlattenSeq
  <2> QED
    BY <1>1, <2>1, <2>2 DEF HandedUpto, Front
<1>11. Kept(0)
  <2>1. Len(dataBuffer) <= MaxBuffer
    BY <1>1, <1>7, EmptySeq
  <2> QED
    BY ONLY <1>2, <1>3, <1>8, <1>9, <1>10, <2>1 DEF Kept
<1>12. worker \in [Workers -> WorkerSort] /\ \A w \in Workers : worker[w].at = "idle"
  BY <1>1 DEF Reader!Idle, WorkerSort
<1>13. NotBegun
  BY ONLY <1>1, <1>12 DEF NotBegun
<1> QED
  BY <1>1, <1>3, <1>7, <1>11, <1>12, <1>13 DEF ReaderInv, InOrder

LEMMA KeptStays ==
  ASSUME NEW m, Kept(m), file' = file, used' = used, dataBuffer' = dataBuffer,
         packets' = packets
  PROVE  Kept(m)'
BY DEF Kept, HandedUpto

\* A thread that is in no turn is where it was, or goes to at.
Moves(w, place) ==
  /\ worker' \in [Workers -> WorkerSort]
  /\ worker'[w].at = place
  /\ \A v \in Workers : v # w => worker'[v] = worker[v]

LEMMA MovesTo ==
  ASSUME worker \in [Workers -> WorkerSort], NEW w \in Workers, NEW r \in WorkerSort,
         worker' = [worker EXCEPT ![w] = r]
  PROVE  Moves(w, r.at) /\ worker'[w] = r
<1>1. worker'[w] = r /\ \A v \in Workers : v # w => worker'[v] = worker[v]
  OBVIOUS
<1>2. worker' \in [Workers -> WorkerSort]
  OBVIOUS
<1> QED
  BY ONLY <1>1, <1>2 DEF Moves

LEMMA TakeInOrder ==
  ASSUME InOrder, NEW w \in Workers, Reader!Take(w)
  PROVE  InOrder'
<1>1. /\ worker[w].at = "idle" /\ tasks # <<>> /\ tasks' = Tail(tasks)
      /\ worker' = [worker EXCEPT ![w] = [Reader!Idle EXCEPT !.at = Head(tasks)]]
      /\ file' = file /\ filePos' = filePos /\ tempBuffer' = tempBuffer
      /\ dataBuffer' = dataBuffer /\ packets' = packets /\ used' = used
  BY DEF Reader!Take, Reader!bufferVars
<1>2. /\ filePos \in Nat /\ filePos <= Len(Reader!Bytes(file)) /\ used \in Nat
      /\ worker \in [Workers -> WorkerSort] /\ (NotBegun \/ Reading)
  BY DEF InOrder
<1>3. \E m : Kept(m)'
  <2>1. PICK m : Kept(m)
    BY DEF InOrder
  <2> QED
    BY ONLY <1>1, <2>1, KeptStays
<1>4. PICK r : r = [Reader!Idle EXCEPT !.at = Head(tasks)]
  OBVIOUS
<1>5. r = [at |-> Head(tasks), offset |-> 0, posts |-> 0]
  BY <1>4 DEF Reader!Idle
<1>6. ASSUME Head(tasks) \in {"ReadHeader", "ReadFile"}
      PROVE  Moves(w, Head(tasks))
  <2>1. r \in WorkerSort /\ r.at = Head(tasks)
    BY ONLY <1>5, <1>6 DEF WorkerSort
  <2>2. worker' = [worker EXCEPT ![w] = r]
    BY ONLY <1>1, <1>4
  <2>3. Moves(w, r.at)
    BY ONLY <1>2, <2>1, <2>2, MovesTo, w \in Workers
  <2> QED
    BY ONLY <2>1, <2>3
<1>7. CASE NotBegun
  <2>1. filePos = 0 /\ used = 0 /\ dataBuffer = <<>>
    BY <1>7 DEF NotBegun
  <2>2. tasks = <<"ReadHeader">> /\ \A v \in Workers : worker[v].at = "idle"
    BY <1>1, <1>7 DEF NotBegun
  <2>3. Head(tasks) = "ReadHeader" /\ tasks' = <<>>
    <3>1. Head(<<"ReadHeader">>) = "ReadHeader" /\ Tail(<<"ReadHeader">>) = <<>>
      OBVIOUS
    <3> QED
      BY ONLY <1>1, <2>2, <3>1
  <2>4. Moves(w, "ReadHeader")
    BY ONLY <1>6, <2>3
  <2>5. NotBegun'
    BY ONLY <1>1, <2>1, <2>2, <2>3, <2>4, w \in Workers DEF NotBegun, Moves
  <2> QED
    BY ONLY <1>1, <1>2, <1>3, <2>4, <2>5 DEF InOrder, Moves
<1>8. CASE Reading
  <2>1. tasks \in Seq({"ReadFile"})
    BY <1>8 DEF Reading
  <2>2. Head(tasks) = "ReadFile" /\ Tail(tasks) \in Seq({"ReadFile"})
    <3>1. Head(tasks) \in {"ReadFile"} /\ Tail(tasks) \in Seq({"ReadFile"})
      BY ONLY <1>1, <2>1, HeadTailProperties
    <3> QED
      BY ONLY <3>1
  <2>3. Moves(w, "ReadFile")
    BY ONLY <1>6, <2>2
  <2>4. \A v \in Workers : worker'[v].at = "turn"
                             => v # w /\ worker[v].at = "turn" /\ worker'[v] = worker[v]
    BY ONLY <2>3 DEF Moves
  <2>5. \A v \in Workers : worker[v].at = "turn" => worker'[v] = worker[v]
    BY ONLY <1>1, <2>3 DEF Moves
  <2>6. \A v \in Workers : worker'[v].at \in {"idle", "ReadFile", "turn"}
    BY ONLY <1>8, <2>3 DEF Moves, Reading
  <2>7. \A u \in Workers : \A v \in Workers :
          worker'[u].at = "turn" /\ worker'[v].at = "turn" => u = v
    BY ONLY <1>8, <2>4 DEF Reading
  <2>8. ASSUME NEW v \in Workers, worker'[v].at = "turn"
        PROVE  PieceOf(v)'
    <3>1. PieceOf(v) /\ worker'[v] = worker[v]
      BY ONLY <1>8, <2>4, <2>8 DEF Reading
    <3> QED
      BY ONLY <1>1, <3>1 DEF PieceOf
  <2>9. (\A v \in Workers : worker'[v].at # "turn")
          => FileHead + used = filePos \/ filePos = Len(Reader!Bytes(file))
    BY ONLY <1>8, <2>5 DEF Reading
  <2>10. Reading'
    BY ONLY <1>1, <2>2, <2>6, <2>7, <2>8, <2>9 DEF Reading
  <2> QED
    BY ONLY <1>1, <1>2, <1>3, <2>3, <2>10 DEF InOrder, Moves
<1> QED
  BY ONLY <1>2, <1>7, <1>8

LEMMA ReadHeaderInOrder ==
  ASSUME file \in Files, InOrder, NEW w \in Workers, Reader!ReadHeader(w)
  PROVE  InOrder'
<1>1. PICK r : r = [at |-> "turn", offset |-> FileHead, posts |-> 2]
  OBVIOUS
<1>2. /\ worker[w].at = "ReadHeader" /\ tempBuffer' = Reader!Fread(HeadPiece)
      /\ filePos' = filePos + Len(tempBuffer')
      /\ worker' = [worker EXCEPT ![w] = r]
      /\ file' = file /\ dataBuffer' = dataBuffer /\ packets' = packets /\ used' = used
      /\ tasks' = tasks
  BY <1>1 DEF Reader!ReadHeader
<1>3. /\ filePos \in Nat /\ filePos <= Len(Reader!Bytes(file)) /\ used \in Nat
      /\ worker \in [Workers -> WorkerSort] /\ (NotBegun \/ Reading)
  BY DEF InOrder
<1>4. \E m : Kept(m)'
  <2>1. PICK m : Kept(m)
    BY DEF InOrder
  <2> QED
    BY ONLY <1>2, <2>1, KeptStays
<1>5. /\ FileHead \in Nat /\ HeadPiece \in Nat /\ FileHead < HeadPiece
      /\ HeadPiece <= Piece /\ Piece \in Nat
  BY ConstantsOfReader
<1>6. NotBegun
  BY ONLY <1>2, <1>3, w \in Workers DEF Reading
<1>7. filePos = 0 /\ used = 0 /\ tasks = <<>>
      /\ \A v \in Workers : v # w => worker[v].at = "idle"
  BY ONLY <1>2, <1>6, w \in Workers DEF NotBegun
<1>8. Moves(w, "turn") /\ worker'[w] = r
  <2>1. r \in WorkerSort /\ r.at = "turn"
    BY ONLY <1>1, <1>5 DEF WorkerSort
  <2>2. Moves(w, r.at) /\ worker'[w] = r
    BY ONLY <1>2, <1>3, <2>1, MovesTo, w \in Workers
  <2> QED
    BY ONLY <2>1, <2>2
<1>9. PICK h : h = Reader!Bytes(file)
  OBVIOUS
<1>10. PICK t : t = Reader!Fread(HeadPiece)
  OBVIOUS
<1>11. PICK q \in filePos .. Len(h) :
         /\ LiesIn(Byte, t, h, filePos, q) /\ Len(t) = q - filePos
         /\ q - filePos <= HeadPiece /\ (q - filePos # HeadPiece => q = Len(h))
  <2>1. /\ file \in Files /\ filePos \in Nat /\ filePos <= Len(Reader!Bytes(file))
        /\ HeadPiece \in Nat
    BY <1>3, <1>5
  <2> QED
    BY ONLY <1>9, <1>10, <2>1, FreadLies
<1>12. Len(h) \in Nat /\ FileHead <= Len(h)
  <2>1. PICK off : off = TagEnds(file)
    OBVIOUS
  <2>2. FileLaid(file, off, h)
    BY ONLY <1>9, <2>1, TagEndsLaid, file \in Files
  <2>3. h \in Seq(Byte) /\ file \in Seq(TagSort) /\ off[0] = FileHead
    BY ONLY <2>2 DEF FileLaid
  <2>4. Len(h) \in Nat /\ Len(file) \in Nat
    BY ONLY <2>3, LenProperties
  <2>5. \A i \in 0 .. Len(file) : off[i] <= Len(h)
    BY ONLY <2>2, TagsAscend
  <2>6. 0 \in 0 .. Len(file)
    BY ONLY <2>4
  <2> QED
    BY ONLY <2>3, <2>4, <2>5, <2>6
<1>13. PICK l : l = Len(t)
  OBVIOUS
<1>14. /\ l = q /\ l \in Nat /\ l <= Piece /\ FileHead <= l /\ filePos + l = q /\ q <= Len(h)
       /\ q - l = filePos /\ q \in Nat
       /\ FileHead + used = (q - l) + FileHead
  <2>1. /\ q \in 0 .. Len(h) /\ l = q - 0 /\ q - 0 <= HeadPiece
        /\ (q - 0 # HeadPiece => q = Len(h))
    BY ONLY <1>7, <1>11, <1>13
  <2>2. l = q /\ q \in Nat /\ q <= HeadPiece /\ (q # HeadPiece => q = Len(h)) /\ q <= Len(h)
    BY ONLY <1>12, <2>1
  <2> QED
    BY ONLY <1>5, <1>7, <1>12, <2>2
<1>15. filePos' = q /\ tempBuffer' = t /\ worker'[w].offset = FileHead
  BY ONLY <1>1, <1>2, <1>8, <1>10, <1>13, <1>14
<1>16. PieceOf(w)'
  <2>1. LiesIn(Byte, t, h, q - Len(t), q)
    BY ONLY <1>11, <1>13, <1>14
  <2> QED
    BY ONLY <1>2, <1>9, <1>13, <1>14, <1>15, <2>1 DEF PieceOf
<1>17. Reading'
  <2>1. \A v \in Workers : IF v = w THEN worker'[v].at = "turn" ELSE worker'[v].at = "idle"
    BY ONLY <1>7, <1>8 DEF Moves
  <2>2. \A v \in Workers : worker'[v].at = "turn" => v = w
    BY ONLY <2>1
  <2>3. <<>> \in Seq({"ReadFile"})
    BY EmptySeq
  <2>4. \A v \in Workers : worker'[v].at \in {"idle", "ReadFile", "turn"}
    BY ONLY <2>1
  <2>5. ~ \A v \in Workers : worker'[v].at # "turn"
    BY ONLY <2>1, w \in Workers
  <2> QED
    BY ONLY <1>2, <1>7, <1>16, <2>2, <2>3, <2>4, <2>5 DEF Reading
<1> QED
  BY ONLY <1>2, <1>3, <1>4, <1>8, <1>9, <1>14, <1>15, <1>17 DEF InOrder, Moves

LEMMA ReadFileInOrder ==
  ASSUME file \in Files, InOrder, NEW w \in Workers, Reader!ReadFile(w), ~overlapped'
  PROVE  InOrder'
<1>2. /\ worker[w].at = "ReadFile" /\ tempBuffer' = Reader!Fread(Piece)
      /\ filePos' = filePos + Len(tempBuffer')
      /\ worker' = [worker EXCEPT ![w] =
                      IF Reader!IsWhole(tempBuffer')
                      THEN [at |-> "turn", offset |-> 0, posts |-> 1] ELSE Reader!Idle]
      /\ file' = file /\ dataBuffer' = dataBuffer /\ packets' = packets /\ used' = used
      /\ tasks' = tasks
      /\ \A v \in Workers \ {w} : worker[v].at # "turn"
  BY DEF Reader!ReadFile, Reader!Touches, Reader!Busy
<1>3. /\ filePos \in Nat /\ filePos <= Len(Reader!Bytes(file)) /\ used \in Nat
      /\ worker \in [Workers -> WorkerSort] /\ (NotBegun \/ Reading)
  BY DEF InOrder
<1>4. \E m : Kept(m)'
  <2>1. PICK m : Kept(m)
    BY DEF InOrder
  <2> QED
    BY ONLY <1>2, <2>1, KeptStays
<1>5. Piece \in Nat /\ Piece # 0 /\ FileHead \in Nat
  BY ConstantsOfReader
<1>6. Reading
  <2>1. ~ NotBegun
    BY ONLY <1>2, w \in Workers DEF NotBegun
  <2> QED
    BY ONLY <1>3, <2>1
<1>7. \A v \in Workers : worker[v].at # "turn"
  BY <1>2
<1>9. PICK h : h = Reader!Bytes(file)
  OBVIOUS
<1>8. FileHead + used = filePos \/ filePos = Len(h)
  BY ONLY <1>6, <1>7, <1>9 DEF Reading
<1>10. PICK t : t = Reader!Fread(Piece)
  OBVIOUS
<1>11. PICK q \in filePos .. Len(h) :
         /\ LiesIn(Byte, t, h, filePos, q) /\ Len(t) = q - filePos
         /\ q - filePos <= Piece /\ (q - filePos # Piece => q = Len(h))
  <2>1. /\ file \in Files /\ filePos \in Nat /\ filePos <= Len(Reader!Bytes(file))
        /\ Piece \in Nat
    BY <1>3, <1>5
  <2> QED
    BY ONLY <1>9, <1>10, <2>1, FreadLies
<1>12. Len(h) \in Nat
  <2>1. FileLaid(file, TagEnds(file), h)
    BY ONLY <1>9, TagEndsLaid, file \in Files
  <2> QED
    BY ONLY <2>1, LenProperties DEF FileLaid
<1>13. PICK l : l = Len(t)
  OBVIOUS
<1>14. /\ q \in Nat /\ l \in Nat /\ q <= Len(h) /\ l = q - filePos /\ filePos + l = q
       /\ l <= Piece /\ (l # Piece => q = Len(h)) /\ q - l = filePos
  BY ONLY <1>3, <1>9, <1>11, <1>12, <1>13
<1>15. filePos' = q /\ tempBuffer' = t
  BY ONLY <1>2, <1>10, <1>13, <1>14
<1>16. PICK r : r = IF l = Piece THEN [at |-> "turn", offset |-> 0, posts |-> 1]
                    ELSE [at |-> "idle", offset |-> 0, posts |-> 0]
  OBVIOUS
<1>17. Moves(w, r.at) /\ worker'[w] = r
  <2>1. r \in WorkerSort
    BY ONLY <1>16 DEF WorkerSort
  <2>2. worker' = [worker EXCEPT ![w] = r]
    BY ONLY <1>2, <1>13, <1>15, <1>16 DEF Reader!IsWhole, Reader!Idle
  <2> QED
    BY ONLY <1>3, <2>1, <2>2, MovesTo, w \in Workers
<1>18. /\ \A v \in Workers : v # w => worker'[v].at # "turn"
       /\ \A v \in Workers : worker'[v].at \in {"idle", "ReadFile", "turn"}
  <2>1. r.at \in {"idle", "turn"}
    BY ONLY <1>16
  <2> QED
    BY ONLY <1>6, <1>7, <1>17, <2>1 DEF Moves, Reading
<1>19. tasks \in Seq({"ReadFile"})
  BY ONLY <1>6 DEF Reading
<1>20. CASE l = Piece
  <2>1. worker'[w].offset = 0 /\ worker'[w].at = "turn"
    BY ONLY <1>16, <1>17, <1>20
  <2>2. FileHead + used = filePos
    BY ONLY <1>3, <1>5, <1>8, <1>14, <1>20, <1>12
  <2>3. LiesIn(Byte, t, h, q - Len(t), q)
    BY ONLY <1>11, <1>13, <1>14
  <2>4. (q - l) + 0 = filePos /\ 0 <= l
    BY ONLY <1>3, <1>14
  <2>5. PieceOf(w)'
    BY ONLY <1>2, <1>9, <1>13, <1>14, <1>15, <2>1, <2>2, <2>3, <2>4 DEF PieceOf
  <2>6. Reading'
    BY ONLY <1>2, <1>18, <1>19, <2>1, <2>5, w \in Workers DEF Reading
  <2> QED
    BY ONLY <1>2, <1>3, <1>4, <1>9, <1>14, <1>15, <1>17, <2>6 DEF InOrder, Moves
<1>21. CASE l # Piece
  <2>1. worker'[w].at = "idle"
    BY ONLY <1>16, <1>17, <1>21
  <2>2. \A v \in Workers : worker'[v].at # "turn"
    BY ONLY <1>18, <2>1
  <2>3. filePos' = Len(Reader!Bytes(file'))
    BY ONLY <1>2, <1>9, <1>14, <1>15, <1>21
  <2>4. Reading'
    BY ONLY <1>2, <1>18, <1>19, <2>2, <2>3 DEF Reading
  <2> QED
    BY ONLY <1>2, <1>3, <1>4, <1>9, <1>14, <1>15, <1>17, <2>4 DEF InOrder, Moves
<1> QED
  BY ONLY <1>20, <1>21

\* What DocodeChunk has gone through, and the next piece of it.
LEMMA InputLies ==
  ASSUME file \in Files, NEW m, Kept(m), used \in Nat, NEW s, NEW n \in Nat,
         LiesIn(Byte, s, Reader!Bytes(file), FileHead + used, (FileHead + used) + n),
         (FileHead + used) + n <= Len(Reader!Bytes(file)),
         NEW r, r = Reader!Decode(dataBuffer \o s), ~ r.lost,
         Len(dataBuffer) + n <= MaxBuffer,
         used' = used + n, file' = file, packets' = packets \o r.packets,
         dataBuffer' = Reader!Undecoded(dataBuffer \o s, r.size)
  PROVE  \E k : Kept(k)'
<1>1. PICK h : h = Reader!Bytes(file)
  OBVIOUS
<1>2. PICK off : off = TagEnds(file)
  OBVIOUS
<1>3. PICK at : at = FileHead + used
  OBVIOUS
<1>4. PICK e : e = at + n
  OBVIOUS
<1>5. PICK b : b = dataBuffer \o s
  OBVIOUS
<1>6. FileHead \in Nat /\ MaxBuffer \in Nat /\ used \in Nat
  BY ConstantsOfReader
<1>7. at \in Nat /\ e \in Nat /\ FileHead <= e /\ at <= e /\ FileHead + (used + n) = e
  BY ONLY <1>3, <1>4, <1>6, n \in Nat
<1>8. FileLaid(file, off, h)
  BY ONLY <1>1, <1>2, TagEndsLaid, file \in Files
<1>9. /\ EndedBy(file, off, at, m)
      /\ LiesIn(Byte, dataBuffer, h, off[m], at)
      /\ packets = HandedUpto(file, m)
  BY ONLY <1>1, <1>2, <1>3, Kept(m) DEF Kept
<1>10. LiesIn(Byte, s, h, at, e) /\ e <= Len(h)
  BY <1>1, <1>3, <1>4
<1>11. LiesIn(Byte, b, h, off[m], e)
  BY ONLY <1>5, <1>9, <1>10, PiecesJoin
<1>12. PICK l : l = Len(file)
  OBVIOUS
<1>13. /\ l \in Nat /\ file \in Seq(TagSort) /\ \A i \in 0 .. l : off[i] \in Nat
       /\ m \in 0 .. l /\ off[m] <= at
  <2>1. file \in Seq(TagSort) /\ off \in [0 .. l -> Nat]
    BY ONLY <1>8, <1>12 DEF FileLaid
  <2>2. l \in Nat
    BY ONLY <1>12, <2>1, LenProperties
  <2>3. m \in 0 .. l /\ off[m] <= at
    BY ONLY <1>9, <1>12 DEF EndedBy
  <2> QED
    BY ONLY <2>1, <2>2, <2>3
<1>14. HeldPart(off, h, b, m, e)
  BY ONLY <1>7, <1>8, <1>10, <1>11, <1>12, <1>13 DEF HeldPart
<1>15. PICK k : EndedBy(file, off, e, k)
  BY ONLY <1>7, <1>8, SomeHaveEnded
<1>16. k \in 0 .. l /\ off[k] <= e /\ (k < l => e < off[k + 1])
  BY ONLY <1>12, <1>15 DEF EndedBy
<1>17. m <= k
  <2>1. CASE k < m
    <3>1. k < l /\ k + 1 \in 0 .. l /\ (k + 1 = m \/ k + 1 < m)
      BY ONLY <1>13, <1>16, <2>1
    <3>2. \A i \in 0 .. l : \A j \in 0 .. l : i < j => off[i] < off[j]
      BY ONLY <1>8, <1>12, TagsAscend
    <3>3. k + 1 = m \/ off[k + 1] < off[m]
      BY ONLY <1>13, <3>1, <3>2
    <3>4. e < off[k + 1] /\ off[k + 1] \in Nat /\ off[m] \in Nat /\ off[m] <= at
      BY ONLY <1>13, <1>16, <3>1
    <3>5. off[k + 1] <= off[m]
      BY ONLY <3>3, <3>4
    <3>6. FALSE
      BY ONLY <1>7, <3>4, <3>5
    <3> QED
      BY <3>6
  <2> QED
    BY ONLY <1>13, <1>16, <2>1
<1>18. PICK size : size = off[k] - off[m]
  OBVIOUS
<1>19. Finds(r, m, k, size)
  <2>1. Finds(Reader!Decode(b), m, k, off[k] - off[m])
    BY ONLY <1>14, <1>15, <1>17, DecodeFinds
  <2>2. r = Reader!Decode(b)
    BY <1>5
  <2> QED
    BY ONLY <1>18, <2>1, <2>2
<1>20. r.size = size /\ HandedUpto(file, m) \o r.packets = HandedUpto(file, k)
  <2>1. PICK p \in Seq(Given) :
           \/ \E x : r = [size |-> x, packets |-> p, lost |-> TRUE]
           \/ /\ r = [size |-> size, packets |-> p, lost |-> FALSE]
              /\ HandedUpto(file, m) \o p = HandedUpto(file, k)
    BY ONLY <1>19 DEF Finds
  <2>2. ~ \E x : r = [size |-> x, packets |-> p, lost |-> TRUE]
    BY ONLY ~ r.lost
  <2> QED
    BY ONLY <2>1, <2>2
<1>21. packets' = HandedUpto(file, k)
  BY <1>9, <1>20
<1>22. /\ size \in 0 .. Len(b) /\ off[m] + size = off[k] /\ Len(b) = Len(dataBuffer) + n
       /\ e - off[k] <= Len(b)
  <2>1. Len(b) = e - off[m] /\ Len(dataBuffer) = at - off[m]
    BY ONLY <1>9, <1>11 DEF LiesIn
  <2>2. off[m] <= off[k]
    <3>1. \A i \in 0 .. l : \A j \in 0 .. l : i < j => off[i] < off[j]
      BY ONLY <1>8, <1>12, TagsAscend
    <3>2. m = k \/ m < k
      BY ONLY <1>13, <1>16, <1>17
    <3>3. m = k \/ off[m] < off[k]
      BY ONLY <1>13, <1>16, <3>1, <3>2
    <3>4. off[m] \in Nat /\ off[k] \in Nat
      BY ONLY <1>13, <1>16
    <3> QED
      BY ONLY <3>3, <3>4
  <2>3. off[m] \in Nat /\ off[k] \in Nat /\ off[k] <= e /\ off[m] <= at
    BY ONLY <1>13, <1>16
  <2> QED
    BY ONLY <1>4, <1>7, <1>18, <2>1, <2>2, <2>3, n \in Nat
<1>23. PICK d : d = SubSeq(b, size + 1, Len(b))
  OBVIOUS
<1>24. dataBuffer' = d
  BY <1>5, <1>20, <1>23 DEF Reader!Undecoded
<1>25. LiesIn(Byte, d, h, off[k], e)
  BY ONLY <1>11, <1>22, <1>23, PieceSplits
<1>26. Len(d) <= MaxBuffer
  <2>1. Len(d) = e - off[k]
    BY ONLY <1>25 DEF LiesIn
  <2>2. Len(b) <= MaxBuffer
    BY <1>22
  <2>3. Len(b) \in Nat /\ off[k] \in Nat
    <3>1. b \in Seq(Byte)
      BY ONLY <1>11 DEF LiesIn
    <3> QED
      BY ONLY <1>13, <1>16, <3>1, LenProperties
  <2> QED
    BY ONLY <1>6, <1>7, <1>22, <2>1, <2>2, <2>3
<1>27. Kept(k)'
  <2>1. file' = file /\ FileHead + used' = e
    BY <1>7
  <2> QED
    BY ONLY <1>1, <1>2, <1>15, <1>21, <1>24, <1>25, <1>26, <2>1 DEF Kept, HandedUpto
<1> QED
  BY ONLY <1>27

LEMMA TurnInOrder ==
  ASSUME file \in Files, InOrder, NEW w \in Workers, Reader!Turn(w), ~lost'
  PROVE  InOrder'
<1>1. PICK offset : offset = worker[w].offset
  OBVIOUS
<1>2. PICK fill : fill = IF dataBuffer = <<>> THEN Len(tempBuffer) - offset
                         ELSE Reader!Least(MaxBuffer - Len(dataBuffer),
                                           Len(tempBuffer) - offset)
  OBVIOUS
<1>3. PICK s : s = SubSeq(tempBuffer, offset + 1, offset + fill)
  OBVIOUS
<1>4. PICK r : r = Reader!Decode(dataBuffer \o s)
  OBVIOUS
<1>5. /\ worker[w].at = "turn" /\ offset < Len(tempBuffer)
      /\ packets' = packets \o r.packets /\ lost' = (lost \/ r.lost)
      /\ dataBuffer' = Reader!Undecoded(dataBuffer \o s, r.size)
      /\ worker' = [worker EXCEPT ![w].offset = offset + fill]
      /\ used' = used + fill
      /\ file' = file /\ filePos' = filePos /\ tempBuffer' = tempBuffer /\ tasks' = tasks
  BY <1>1, <1>2, <1>3, <1>4 DEF Reader!Turn, Reader!Busy
<1>6. /\ filePos \in Nat /\ filePos <= Len(Reader!Bytes(file)) /\ used \in Nat
      /\ worker \in [Workers -> WorkerSort] /\ (NotBegun \/ Reading)
  BY DEF InOrder
<1>7. FileHead \in Nat /\ Piece \in Nat /\ MaxBuffer \in Nat /\ Piece <= MaxBuffer
  BY ConstantsOfReader
<1>8. Reading
  <2>1. ~ NotBegun
    BY ONLY <1>5, w \in Workers DEF NotBegun
  <2> QED
    BY ONLY <1>6, <2>1
<1>9. PieceOf(w)
  BY ONLY <1>5, <1>8, w \in Workers DEF Reading
<1>10. PICK h : h = Reader!Bytes(file)
  OBVIOUS
<1>11. PICK l : l = Len(tempBuffer)
  OBVIOUS
<1>12. PICK x : x = filePos - l
  OBVIOUS
<1>13. /\ LiesIn(Byte, tempBuffer, h, x, filePos) /\ l <= Piece /\ offset <= l
       /\ FileHead + used = x + offset
  BY ONLY <1>1, <1>9, <1>10, <1>11, <1>12 DEF PieceOf
<1>14. l \in Nat /\ x \in Nat /\ x + l = filePos
  <2>1. tempBuffer \in Seq(Byte) /\ x \in Nat
    BY ONLY <1>13 DEF LiesIn
  <2>2. l \in Nat
    BY ONLY <1>11, <2>1, LenProperties
  <2> QED
    BY ONLY <1>6, <1>12, <2>1, <2>2
<1>15. offset \in Nat
  <2>1. worker[w] \in WorkerSort
    BY ONLY <1>6, w \in Workers
  <2> QED
    BY ONLY <1>1, <2>1 DEF WorkerSort
<1>16. PICK m : Kept(m)
  BY DEF InOrder
<1>17. PICK c : c = Len(dataBuffer)
  OBVIOUS
<1>18. c \in Nat /\ c <= MaxBuffer /\ (dataBuffer = <<>> => c = 0)
  <2>1. dataBuffer \in Seq(Byte) /\ c <= MaxBuffer
    BY ONLY <1>16, <1>17 DEF Kept, LiesIn
  <2> QED
    BY ONLY <1>17, <2>1, LenProperties, EmptySeq
<1>19. fill \in Nat /\ fill \in 0 .. l - offset /\ c + fill <= MaxBuffer
  <2>1. CASE dataBuffer = <<>>
    <3>1. fill = l - offset /\ c = 0
      BY ONLY <1>2, <1>11, <1>18, <2>1
    <3> QED
      BY ONLY <1>7, <1>13, <1>14, <1>15, <3>1
  <2>2. CASE dataBuffer # <<>>
    <3>1. fill = IF MaxBuffer - c < l - offset THEN MaxBuffer - c ELSE l - offset
      BY ONLY <1>2, <1>11, <1>17, <2>2 DEF Reader!Least
    <3> QED
      BY ONLY <1>7, <1>13, <1>14, <1>15, <1>18, <3>1
  <2> QED
    BY ONLY <2>1, <2>2
<1>20. LiesIn(Byte, s, h, x + offset, (x + offset) + fill)
  <2>1. offset \in 0 .. Len(tempBuffer) /\ fill \in 0 .. Len(tempBuffer) - offset
    BY ONLY <1>11, <1>13, <1>14, <1>15, <1>19
  <2> QED
    BY ONLY <1>3, <1>13, <2>1, PieceWithin
<1>21. (x + offset) + fill <= Len(h)
  <2>1. h \in Seq(Byte)
    <3>1. FileLaid(file, TagEnds(file), h)
      BY ONLY <1>10, TagEndsLaid, file \in Files
    <3> QED
      BY ONLY <3>1 DEF FileLaid
  <2>2. Len(h) \in Nat /\ filePos <= Len(h)
    BY ONLY <1>6, <1>10, <2>1, LenProperties
  <2>3. fill <= l - offset
    BY ONLY <1>14, <1>15, <1>19
  <2> QED
    BY ONLY <1>6, <1>14, <1>15, <1>19, <2>2, <2>3
<1>22. \E k : Kept(k)'
  <2>1. ~ r.lost
    BY <1>5
  <2>2. /\ LiesIn(Byte, s, Reader!Bytes(file), FileHead + used, (FileHead + used) + fill)
        /\ (FileHead + used) + fill <= Len(Reader!Bytes(file))
        /\ Len(dataBuffer) + fill <= MaxBuffer
    BY ONLY <1>10, <1>13, <1>17, <1>19, <1>20, <1>21
  <2>3. used \in Nat /\ fill \in Nat
    BY ONLY <1>6, <1>19
  <2>4. /\ used' = used + fill /\ file' = file /\ packets' = packets \o r.packets
        /\ dataBuffer' = Reader!Undecoded(dataBuffer \o s, r.size)
    BY ONLY <1>5
  <2> QED
    BY ONLY <1>4, <1>16, <2>1, <2>2, <2>3, <2>4, InputLies, file \in Files
<1>23. PICK q : q = [worker[w] EXCEPT !.offset = offset + fill]
  OBVIOUS
<1>24. q \in WorkerSort /\ q.at = "turn" /\ q.offset = offset + fill
  <2>1. worker[w] \in WorkerSort
    BY ONLY <1>6, w \in Workers
  <2>2. offset + fill \in Nat
    BY ONLY <1>15, <1>19
  <2> QED
    BY ONLY <1>5, <1>23, <2>1, <2>2 DEF WorkerSort
<1>25. Moves(w, "turn") /\ worker'[w].offset = offset + fill
  <2>1. worker' = [worker EXCEPT ![w] = q]
    BY ONLY <1>5, <1>23
  <2>2. Moves(w, q.at) /\ worker'[w] = q
    BY ONLY <1>6, <1>24, <2>1, MovesTo, w \in Workers
  <2> QED
    BY ONLY <1>24, <2>2
<1>26. PieceOf(w)'
  <2>1. /\ offset + fill <= l /\ FileHead + (used + fill) = x + (offset + fill)
    BY ONLY <1>6, <1>7, <1>13, <1>14, <1>15, <1>19
  <2> QED
    BY ONLY <1>5, <1>10, <1>11, <1>12, <1>13, <1>25, <2>1 DEF PieceOf
<1>27. Reading'
  <2>1. \A v \in Workers : worker[v].at = "turn" => v = w
    BY ONLY <1>5, <1>8, w \in Workers DEF Reading
  <2>2. \A v \in Workers : worker'[v].at = "turn" => v = w
    BY ONLY <1>25, <2>1 DEF Moves
  <2>3. \A v \in Workers : worker'[v].at \in {"idle", "ReadFile", "turn"}
    BY ONLY <1>8, <1>25 DEF Moves, Reading
  <2>4. tasks' \in Seq({"ReadFile"})
    BY ONLY <1>5, <1>8 DEF Reading
  <2>5. ~ \A v \in Workers : worker'[v].at # "turn"
    BY ONLY <1>25, w \in Workers DEF Moves
  <2> QED
    BY ONLY <1>26, <2>2, <2>3, <2>4, <2>5 DEF Reading
<1>28. used' \in Nat
  BY ONLY <1>5, <1>6, <1>19
<1> QED
  BY ONLY <1>5, <1>6, <1>22, <1>25, <1>27, <1>28 DEF InOrder, Moves

LEMMA PostInOrder ==
  ASSUME InOrder, NEW w \in Workers, Reader!Post(w)
  PROVE  InOrder'
<1>1. PICK t : t = [i \in 1 .. worker[w].posts |-> "ReadFile"]
  OBVIOUS
<1>2. /\ worker[w].at = "turn" /\ worker[w].offset = Len(tempBuffer)
      /\ tasks' = tasks \o t
      /\ worker' = [worker EXCEPT ![w] = Reader!Idle]
      /\ file' = file /\ filePos' = filePos /\ tempBuffer' = tempBuffer
      /\ dataBuffer' = dataBuffer /\ packets' = packets /\ used' = used
  BY <1>1 DEF Reader!Post, Reader!Busy, Reader!bufferVars
<1>3. /\ filePos \in Nat /\ filePos <= Len(Reader!Bytes(file)) /\ used \in Nat
      /\ worker \in [Workers -> WorkerSort] /\ (NotBegun \/ Reading)
  BY DEF InOrder
<1>4. \E m : Kept(m)'
  <2>1. PICK m : Kept(m)
    BY DEF InOrder
  <2> QED
    BY ONLY <1>2, <2>1, KeptStays
<1>5. Reading
  <2>1. ~ NotBegun
    BY ONLY <1>2, w \in Workers DEF NotBegun
  <2> QED
    BY ONLY <1>3, <2>1
<1>6. PieceOf(w)
  BY ONLY <1>2, <1>5, w \in Workers DEF Reading
<1>7. FileHead + used = filePos
  <2>1. /\ FileHead + used = (filePos - Len(tempBuffer)) + Len(tempBuffer)
        /\ tempBuffer \in Seq(Byte)
    BY ONLY <1>2, <1>6 DEF PieceOf, LiesIn
  <2>2. Len(tempBuffer) \in Nat
    BY ONLY <2>1, LenProperties
  <2> QED
    BY ONLY <1>3, <2>1, <2>2
<1>8. Moves(w, "idle")
  <2>1. PICK r : r = Reader!Idle
    OBVIOUS
  <2>2. r \in WorkerSort /\ r.at = "idle"
    BY ONLY <2>1 DEF Reader!Idle, WorkerSort
  <2>3. worker' = [worker EXCEPT ![w] = r]
    BY ONLY <1>2, <2>1
  <2>4. Moves(w, r.at)
    BY ONLY <1>3, <2>2, <2>3, MovesTo, w \in Workers
  <2> QED
    BY ONLY <2>2, <2>4
<1>9. tasks' \in Seq({"ReadFile"})
  <2>1. worker[w].posts \in Nat
    <3>1. worker[w] \in WorkerSort
      BY ONLY <1>3, w \in Workers
    <3> QED
      BY ONLY <3>1 DEF WorkerSort
  <2>2. t \in [1 .. worker[w].posts -> {"ReadFile"}]
    BY ONLY <1>1
  <2>3. t \in Seq({"ReadFile"})
    BY ONLY <2>1, <2>2, SeqDef
  <2>4. tasks \in Seq({"ReadFile"})
    BY ONLY <1>5 DEF Reading
  <2> QED
    BY ONLY <1>2, <2>3, <2>4, ConcatProperties
<1>10. Reading'
  <2>1. \A v \in Workers : worker[v].at = "turn" => v = w
    BY ONLY <1>2, <1>5, w \in Workers DEF Reading
  <2>2. \A v \in Workers : worker'[v].at \in {"idle", "ReadFile"}
    BY ONLY <1>5, <1>8, <2>1 DEF Moves, Reading
  <2>3. FileHead + used' = filePos'
    BY ONLY <1>2, <1>7
  <2> QED
    BY ONLY <1>9, <2>2, <2>3 DEF Reading
<1> QED
  BY ONLY <1>2, <1>3, <1>4, <1>8, <1>10 DEF InOrder, Moves

LEMMA ReaderStep ==
  ASSUME ReaderInv, [Reader!Next]_(Reader!vars)
  PROVE  ReaderInv'
<1>1. CASE Reader!Next
  <2>1. PICK w \in Workers : ~overlapped /\ ~lost /\ Reader!Step(w)
    BY <1>1 DEF Reader!Next
  <2>2. file \in Files /\ InOrder
    BY <2>1 DEF ReaderInv
  <2>3. file' = file
    BY <2>1 DEF Reader!Step, Reader!Take, Reader!ReadHeader, Reader!ReadFile, Reader!Turn,
                Reader!Post
  <2>4. ASSUME ~overlapped', ~lost'
        PROVE  InOrder'
    <3>1. CASE Reader!Take(w)
      BY ONLY <2>2, <3>1, TakeInOrder, w \in Workers
    <3>2. CASE Reader!ReadHeader(w)
      BY ONLY <2>2, <3>2, ReadHeaderInOrder, w \in Workers
    <3>3. CASE Reader!ReadFile(w)
      BY ONLY <2>2, <2>4, <3>3, ReadFileInOrder, w \in Workers
    <3>4. CASE Reader!Turn(w)
      BY ONLY <2>2, <2>4, <3>4, TurnInOrder, w \in Workers
    <3>5. CASE Reader!Post(w)
      BY ONLY <2>2, <3>5, PostInOrder, w \in Workers
    <3> QED
      BY <2>1, <3>1, <3>2, <3>3, <3>4, <3>5 DEF Reader!Step
  <2> QED
    BY ONLY <2>2, <2>3, <2>4 DEF ReaderInv
<1>2. CASE UNCHANGED Reader!vars
  <2>1. /\ file' = file /\ filePos' = filePos /\ tempBuffer' = tempBuffer
        /\ dataBuffer' = dataBuffer /\ tasks' = tasks /\ worker' = worker
        /\ packets' = packets /\ used' = used /\ lost' = lost /\ overlapped' = overlapped
    BY <1>2 DEF Reader!vars, Reader!bufferVars
  <2>2. InOrder => InOrder'
    BY ONLY <2>1 DEF InOrder, NotBegun, Reading, PieceOf, Kept, HandedUpto
  <2> QED
    BY <2>1, <2>2 DEF ReaderInv
<1> QED
  BY <1>1, <1>2

\* A file of which so many tags have ended has handed out the packets of those.
LEMMA KeptIsExact ==
  ASSUME file \in Files, NEW m, Kept(m)
  PROVE  packets = Reader!PacketsIn(FileHead + used)
<1>1. PICK off : off = TagEnds(file)
  OBVIOUS
<1>2. PICK n : n = Len(file)
  OBVIOUS
<1>3. PICK e : e = FileHead + used
  OBVIOUS
<1>4. FileLaid(file, off, Reader!Bytes(file))
  BY ONLY <1>1, TagEndsLaid, file \in Files
<1>5. /\ m \in 0 .. n /\ off[m] <= e /\ (m < n => e < off[m + 1])
      /\ packets = HandedUpto(file, m) /\ e \in Nat
  <2>1. EndedBy(file, off, e, m) /\ packets = HandedUpto(file, m)
    BY ONLY <1>1, <1>3, Kept(m) DEF Kept
  <2>2. e \in Nat
    BY ONLY <1>3, Kept(m) DEF Kept, LiesIn
  <2> QED
    BY ONLY <1>2, <2>1, <2>2 DEF EndedBy
<1>6. n \in Nat /\ DOMAIN file = 1 .. n /\ \A i \in 0 .. n : off[i] \in Nat
  <2>1. file \in Seq(TagSort) /\ off \in [0 .. n -> Nat]
    BY ONLY <1>2, <1>4 DEF FileLaid
  <2> QED
    BY ONLY <1>2, <2>1, LenProperties
<1>7. \A j \in 1 .. n : Reader!End(j) = off[j]
  <2>1. \A j \in 1 .. n : j \in 0 .. n
    BY ONLY <1>6
  <2> QED
    BY <1>1, <1>2, <2>1 DEF Reader!End, TagEnds
<1>8. PICK B : B = {j \in DOMAIN file : Reader!End(j) <= e}
  OBVIOUS
<1>9. B = 1 .. m
  <2>1. \A i \in 0 .. n : \A j \in 0 .. n : i < j => off[i] < off[j]
    BY ONLY <1>2, <1>4, TagsAscend
  <2>2. ASSUME NEW j \in 1 .. n
        PROVE  off[j] <= e <=> j <= m
    <3>1. j \in 0 .. n /\ off[j] \in Nat /\ off[m] \in Nat
      BY ONLY <1>5, <1>6, j \in 1 .. n
    <3>2. CASE j <= m
      <4>1. j = m \/ j < m
        BY ONLY <1>5, <1>6, <3>2, j \in 1 .. n
      <4>2. j = m \/ off[j] < off[m]
        BY ONLY <1>5, <2>1, <3>1, <4>1
      <4>3. off[j] <= e
        BY ONLY <1>5, <3>1, <4>2
      <4> QED
        BY <3>2, <4>3
    <3>3. CASE ~ (j <= m)
      <4>1. m < n /\ m + 1 \in 0 .. n /\ (j = m + 1 \/ m + 1 < j)
        BY ONLY <1>5, <1>6, <3>3, j \in 1 .. n
      <4>2. j = m + 1 \/ off[m + 1] < off[j]
        BY ONLY <2>1, <3>1, <4>1
      <4>3. e < off[m + 1] /\ off[m + 1] \in Nat
        BY ONLY <1>5, <1>6, <4>1
      <4>4. ~ (off[j] <= e)
        BY ONLY <1>5, <3>1, <4>2, <4>3
      <4> QED
        BY <3>3, <4>4
    <3> QED
      BY <3>2, <3>3
  <2>3. \A j : j \in 1 .. m <=> j \in 1 .. n /\ j <= m
    BY ONLY <1>5, <1>6
  <2> QED
    BY ONLY <1>6, <1>7, <1>8, <2>2, <2>3
<1>10. Reader!Cardinality(B) = m
  <2>1. Cardinality(1 .. m) = IF 1 > m THEN 0 ELSE (m - 1) + 1
    BY ONLY <1>5, <1>6, FS_Interval
  <2>2. Reader!Cardinality(B) = Cardinality(B)
    BY DEF Reader!Cardinality, Cardinality
  <2> QED
    BY ONLY <1>5, <1>6, <1>9, <2>1, <2>2
<1>11. PICK p : p = [i \in 1 .. m |-> Reader!Packets(file[i], i)]
  OBVIOUS
<1>12. Reader!PacketsIn(e) = Reader!FlattenSeq(p)
  BY ONLY <1>8, <1>10, <1>11 DEF Reader!PacketsIn
<1>13. p = [i \in 1 .. m |-> Handed(file)[i]]
  <2>1. \A i \in 1 .. m : i \in 1 .. Len(file)
    BY ONLY <1>2, <1>5, <1>6
  <2>2. \A i \in 1 .. m : Handed(file)[i] = Reader!Packets(file[i], i)
    BY ONLY <2>1 DEF Handed
  <2> QED
    BY ONLY <1>11, <2>2
<1> QED
  BY ONLY <1>3, <1>5, <1>12, <1>13 DEF HandedUpto, Front

LEMMA ReaderInvariant == Reader!Spec => []ReaderInv
<1>1. ReaderInv /\ [Reader!Next]_(Reader!vars) => ReaderInv'
  BY ReaderStep
<1> QED
  BY ReaderStarts, <1>1, PTL DEF Reader!Spec

\* Every packet of the bytes that DocodeChunk has been through has been delivered, once
\* and in order, for any file, any sizes of the pieces and the buffer and any threads,
\* until two tasks touch the buffers at once or a tag is misread: between two pieces
\* data_buffer_ holds what lies in the file from the end of the last whole tag to the
\* end of the bytes gone through, and the piece at hand lies right behind it.
THEOREM FileStaysDelivered == Reader!Spec => []DeliveredExact
<1>1. ReaderInv => DeliveredExact
  <2>1. ASSUME ReaderInv, ~overlapped, ~lost
        PROVE  packets = Reader!PacketsIn(FileHead + used)
    <3>1. file \in Files /\ InOrder
      BY ONLY <2>1 DEF ReaderInv
    <3>2. PICK m : Kept(m)
      BY ONLY <3>1 DEF InOrder
    <3> QED
      BY ONLY <3>1, <3>2, KeptIsExact
  <2> QED
    BY <2>1 DEF DeliveredExact, Reader!DeliveredExact
<1> QED
  BY ReaderInvariant, <1>1, PTL

-----------------------------------------------------------------------------
(* Rtsp: the replies and the packets *)

Reply == [reply : Rtp!Answered, cseq : Nat]

RtpPacket ==
  [seq : {n % SeqNos : n \in Nat}, unit : Nat, from : Nat, to : Nat, fragment : BOOLEAN,
   start : BOOLEAN, end : BOOLEAN, marker : BOOLEAN]

Sent == Reply \union RtpPacket

LEMMA NamesTell ==
  /\ \A e \in Reply : "reply" \in DOMAIN e /\ "unit" \notin DOMAIN e
  /\ \A e \in RtpPacket : "reply" \notin DOMAIN e /\ "unit" \in DOMAIN e
BY DEF Reply, RtpPacket

\* What one element more adds to those with a name.
Named(name, e) == IF name \in DOMAIN e THEN <<e>> ELSE <<>>

LEMMA SameFlattenSeq == ASSUME NEW s PROVE Rtp!FlattenSeq(s) = Reader!FlattenSeq(s)
BY ONLY DEF Rtp!FlattenSeq, Reader!FlattenSeq

LEMMA HavingMore ==
  ASSUME NEW S, NEW q \in Seq(S), NEW e \in S, NEW name
  PROVE  Rtp!Having(name, Append(q, e)) = Rtp!Having(name, q) \o Named(name, e)
<1>1. PICK n : n = Len(q)
  OBVIOUS
<1>2. PICK t : t = Append(q, e)
  OBVIOUS
<1>3. n \in Nat /\ Len(t) = n + 1 /\ t[n + 1] = e /\ \A i \in 1 .. n : t[i] = q[i]
  BY ONLY <1>1, <1>2, q \in Seq(S), e \in S, AppendProperties, LenProperties
<1>4. PICK r : r = [i \in 1 .. n + 1 |-> Named(name, t[i])]
  OBVIOUS
<1>5. \A i \in 1 .. n + 1 : r[i] = Named(name, t[i])
  BY ONLY <1>4
<1>6. n + 1 \in 1 .. n + 1 /\ \A i \in 1 .. n : i \in 1 .. n + 1
  BY ONLY <1>3
<1>7. r[n + 1] = Named(name, e)
  BY ONLY <1>3, <1>5, <1>6
<1>8. r[n + 1] \in Seq(S)
  BY ONLY <1>7, e \in S, EmptySeq DEF Named
<1>9. Front(r, n + 1) = Front(r, n) \o r[n + 1]
  BY ONLY <1>3, <1>8, FrontProlongs
<1>10. Front(r, n + 1) = Rtp!Having(name, t)
  <2>1. [i \in 1 .. n + 1 |-> r[i]] = r
    BY ONLY <1>4
  <2> QED
    BY ONLY <1>3, <1>4, <2>1, SameFlattenSeq DEF Front, Rtp!Having, Named
<1>11. Front(r, n) = Rtp!Having(name, q)
  <2>1. \A i \in 1 .. n : r[i] = Named(name, q[i])
    BY ONLY <1>3, <1>5, <1>6
  <2>2. [i \in 1 .. n |-> r[i]] = [i \in 1 .. n |-> Named(name, q[i])]
    BY ONLY <2>1
  <2> QED
    BY ONLY <1>1, <2>2, SameFlattenSeq DEF Front, Rtp!Having, Named
<1> QED
  BY ONLY <1>2, <1>7, <1>9, <1>10, <1>11

LEMMA HavingNone == ASSUME NEW name PROVE Rtp!Having(name, <<>>) = <<>>
<1>1. [i \in 1 .. Len(<<>>) |-> Named(name, <<>>[i])] = <<>>
  BY EmptySeq
<1> QED
  BY <1>1, EmptySeq DEF Rtp!Having, Named, Rtp!FlattenSeq

\* The replies to the first n requests.
OneAnswer(method, cseq) ==
  IF method \notin Rtp!Answered THEN <<>> ELSE <<[reply |-> method, cseq |-> cseq]>>

Answers(reqs, n) == Rtp!FlattenSeq([i \in 1 .. n |-> OneAnswer(reqs[i], i)])

LEMMA AnswersMore ==
  ASSUME NEW M, NEW reqs \in Seq(M), NEW batch \in Seq(M), NEW n \in Nat, n <= Len(reqs)
  PROVE  Answers(reqs \o batch, n + 1)
           = Answers(reqs, n) \o OneAnswer((reqs \o batch)[n + 1], n + 1)
<1>1. PICK all : all = reqs \o batch
  OBVIOUS
<1>2. \A i \in 1 .. n : all[i] = reqs[i]
  <2>1. \A i \in 1 .. Len(reqs) : (reqs \o batch)[i] = reqs[i]
    BY ConcatProperties, LenProperties
  <2>2. \A i \in 1 .. n : i \in 1 .. Len(reqs)
    BY LenProperties
  <2> QED
    BY ONLY <1>1, <2>1, <2>2
<1>3. PICK r : r = [i \in 1 .. n + 1 |-> OneAnswer(all[i], i)]
  OBVIOUS
<1>4. n + 1 \in 1 .. n + 1 /\ \A i \in 1 .. n : i \in 1 .. n + 1
  BY ONLY n \in Nat
<1>5. /\ r[n + 1] = OneAnswer(all[n + 1], n + 1)
      /\ \A i \in 1 .. n : r[i] = OneAnswer(reqs[i], i)
  BY ONLY <1>2, <1>3, <1>4
<1>6. r[n + 1] \in Seq(Reply)
  <2>1. ASSUME all[n + 1] \in Rtp!Answered
        PROVE  [reply |-> all[n + 1], cseq |-> n + 1] \in Reply
    BY ONLY <2>1, n \in Nat DEF Reply
  <2> QED
    BY ONLY <1>5, <2>1, EmptySeq DEF OneAnswer
<1>7. Front(r, n + 1) = Front(r, n) \o r[n + 1]
  BY ONLY <1>6, FrontProlongs, n \in Nat
<1>8. Front(r, n + 1) = Answers(all, n + 1)
  <2>1. [i \in 1 .. n + 1 |-> r[i]] = r
    BY ONLY <1>3
  <2> QED
    BY ONLY <1>3, <2>1, SameFlattenSeq DEF Front, Answers
<1>9. Front(r, n) = Answers(reqs, n)
  <2>1. [i \in 1 .. n |-> r[i]] = [i \in 1 .. n |-> OneAnswer(reqs[i], i)]
    BY ONLY <1>5
  <2> QED
    BY ONLY <2>1, SameFlattenSeq DEF Front, Answers
<1> QED
  BY ONLY <1>1, <1>5, <1>7, <1>8, <1>9

LEMMA AnswersNone == ASSUME NEW reqs PROVE Answers(reqs, 0) = <<>>
<1>1. [i \in 1 .. 0 |-> OneAnswer(reqs[i], i)] = <<>>
  OBVIOUS
<1> QED
  BY <1>1, EmptySeq DEF Answers, Rtp!FlattenSeq

-----------------------------------------------------------------------------
(* Rtsp: the units of the file *)

LEMMA ConstantsOfRtsp ==
  /\ Units \in Seq(Nat \ {0}) /\ MaxPayload \in Nat /\ MaxPayload >= 2
  /\ Len(Units) \in Nat
  /\ \A u \in 1 .. Len(Units) : Units[u] \in Nat \ {0}
<1>1. Units \in Seq(Nat \ {0}) /\ MaxPayload \in Nat /\ MaxPayload >= 2
  BY RtspAssumption DEF Rtp!RtspConstants
<1> QED
  BY ONLY <1>1, LenProperties, ElementOfSeq

\* A packet goes on with what a client has got, and is allowed but for the two lengths.
Fits(got, p) ==
  /\ Rtp!Continues(got, p)
  /\ Rtp!Allowed(p) \/ Units[p.unit] \in Rtp!OneFragment

\* A client follows each of the packets, and what it has got with them.
Followed(s) == \A i \in 1 .. Len(s) : Fits(Rtp!Got(s, i - 1), s[i])
Latest(s) == Rtp!Got(s, Len(s))

Complete(got) == got.unit = 0 \/ got.to = Units[got.unit]

\* The packets make up whole files.
Whole(got) ==
  \/ got.unit = 0
  \/ Len(Units) > 0 /\ got.unit = Len(Units) /\ got.to = Units[Len(Units)]

\* n bytes of unit u are sent, and all that comes before.
Upto(got, u, n) ==
  /\ u \in 1 .. Len(Units)
  /\ n \in 0 .. Units[u]
  /\ IF n = 0
     THEN Complete(got) /\ (got.unit % Len(Units)) + 1 = u
     ELSE got = [unit |-> u, to |-> n] /\ (Rtp!Single(Units[u]) => n = Units[u])

\* Where a reader stands, with these packets given away.
Stands(place, u, n, got) ==
  IF place = "reading" /\ u > 0 THEN Upto(got, u, n) ELSE Whole(got)

LEMMA FollowedMore ==
  ASSUME NEW s \in Seq(RtpPacket), NEW p \in RtpPacket, Followed(s),
         Fits(Latest(s), p)
  PROVE  /\ Append(s, p) \in Seq(RtpPacket)
         /\ Followed(Append(s, p))
         /\ Latest(Append(s, p)) = [unit |-> p.unit, to |-> p.to]
<1>1. PICK n : n = Len(s)
  OBVIOUS
<1>2. PICK t : t = Append(s, p)
  OBVIOUS
<1>3. /\ n \in Nat /\ t \in Seq(RtpPacket) /\ Len(t) = n + 1 /\ t[n + 1] = p
      /\ \A i \in 1 .. n : t[i] = s[i]
  BY ONLY <1>1, <1>2, s \in Seq(RtpPacket), p \in RtpPacket, AppendProperties, LenProperties
<1>4. \A i \in 0 .. n : Rtp!Got(t, i) = Rtp!Got(s, i)
  <2>1. ASSUME NEW i \in 0 .. n
        PROVE  Rtp!Got(t, i) = Rtp!Got(s, i)
    <3>1. i = 0 \/ t[i] = s[i]
      BY ONLY <1>3, i \in 0 .. n
    <3> QED
      BY ONLY <3>1 DEF Rtp!Got
  <2> QED
    BY ONLY <2>1
<1>5. ASSUME NEW i \in 1 .. n + 1
      PROVE  Fits(Rtp!Got(t, i - 1), t[i])
  <2>1. i - 1 \in 0 .. n
    BY ONLY <1>3, i \in 1 .. n + 1
  <2>2. Rtp!Got(t, i - 1) = Rtp!Got(s, i - 1)
    BY ONLY <1>4, <2>1
  <2>3. CASE i = n + 1
    <3>1. i - 1 = n
      BY ONLY <1>3, <2>3
    <3> QED
      BY ONLY <1>1, <1>3, <2>2, <2>3, <3>1, Fits(Latest(s), p) DEF Latest
  <2>4. CASE i # n + 1
    <3>1. i \in 1 .. n
      BY ONLY <1>3, <2>4, i \in 1 .. n + 1
    <3> QED
      BY ONLY <1>1, <1>3, <2>2, <3>1, Followed(s) DEF Followed
  <2> QED
    BY ONLY <2>3, <2>4
<1>6. Followed(t)
  BY ONLY <1>3, <1>5 DEF Followed
<1>7. Latest(t) = [unit |-> p.unit, to |-> p.to]
  <2>1. Latest(t) = Rtp!Got(t, n + 1) /\ n + 1 # 0
    BY ONLY <1>3 DEF Latest
  <2> QED
    BY ONLY <1>3, <2>1 DEF Rtp!Got
<1> QED
  BY ONLY <1>2, <1>3, <1>6, <1>7

\* The bytes of the next packet are the next bytes of the unit.
LEMMA PartIsNext ==
  ASSUME NEW size \in Nat \ {0}, NEW n \in Nat, n < size,
         Rtp!Single(size) => n = 0
  PROVE  /\ Rtp!Part(size, n).to \in n + 1 .. size
         /\ Rtp!Part(size, n).from \in Nat
         /\ Rtp!Single(size) => Rtp!Part(size, n) = [from |-> 0, to |-> size]
         /\ ~Rtp!Single(size) => Rtp!Part(size, n).from = IF n = 0 THEN 1 ELSE n
<1>1. MaxPayload \in Nat /\ MaxPayload >= 2
  BY ConstantsOfRtsp
<1>2. CASE Rtp!Single(size)
  <2>1. Rtp!Part(size, n) = [from |-> 0, to |-> size]
    BY ONLY <1>2 DEF Rtp!Part
  <2> QED
    BY ONLY <1>2, <2>1, n \in Nat, size \in Nat \ {0}, n < size
<1>3. CASE ~Rtp!Single(size)
  <2>1. size >= 2
    BY ONLY <1>1, <1>3, size \in Nat \ {0} DEF Rtp!Single
  <2>2. PICK k : k = IF n = 0 THEN 1 ELSE n
    OBVIOUS
  <2>3. Rtp!Part(size, n) = [from |-> k, to |-> Rtp!Least(k + MaxPayload, size)]
    BY ONLY <1>3, <2>2 DEF Rtp!Part
  <2>4. k \in Nat /\ k < size /\ k >= n /\ k > 0
    BY ONLY <2>1, <2>2, n \in Nat, n < size, size \in Nat \ {0}
  <2>5. Rtp!Least(k + MaxPayload, size) \in n + 1 .. size
    BY ONLY <1>1, <2>4, n \in Nat, n < size, size \in Nat \ {0} DEF Rtp!Least
  <2> QED
    BY ONLY <1>3, <2>2, <2>3, <2>4, <2>5
<1> QED
  BY ONLY <1>2, <1>3

\* The first fragment is the last one only of units of the two lengths.
LEMMA PacketAllowed ==
  ASSUME NEW u \in 1 .. Len(Units), NEW n \in Nat, NEW number,
         NEW p, p = Rtp!Packet(u, n, number)
  PROVE  Rtp!Allowed(p) \/ Units[p.unit] \in Rtp!OneFragment
<1>1. PICK size : size = Units[u]
  OBVIOUS
<1>2. size \in Nat \ {0} /\ MaxPayload \in Nat
  BY <1>1, ConstantsOfRtsp
<1>3. /\ p.unit = u /\ (p.fragment <=> ~Rtp!Single(size)) /\ (p.start <=> n = 0)
      /\ (p.end <=> Rtp!Part(size, n).to = size)
  BY ONLY <1>1, p = Rtp!Packet(u, n, number) DEF Rtp!Packet
<1>4. CASE ~Rtp!Single(size) /\ n = 0 /\ Rtp!Part(size, n).to = size
  <2>1. Rtp!Part(size, n).to = Rtp!Least(1 + MaxPayload, size)
    BY ONLY <1>4 DEF Rtp!Part
  <2>2. size <= 1 + MaxPayload /\ size >= MaxPayload
    BY ONLY <1>2, <1>4, <2>1 DEF Rtp!Least, Rtp!Single
  <2> QED
    BY ONLY <1>1, <1>2, <1>3, <2>2 DEF Rtp!OneFragment
<1> QED
  BY ONLY <1>3, <1>4 DEF Rtp!Allowed

LEMMA PacketContinues ==
  ASSUME NEW got, NEW u, NEW n, Upto(got, u, n), n < Units[u], NEW number \in Nat,
         NEW p, p = Rtp!Packet(u, n, number)
  PROVE  /\ p \in RtpPacket
         /\ Fits(got, p)
         /\ p.unit = u /\ p.to = Rtp!Part(Units[u], n).to
         /\ p.seq = number % SeqNos
         /\ Upto([unit |-> p.unit, to |-> p.to], u, p.to)
<1>1. PICK size : size = Units[u]
  OBVIOUS
<1>2. PICK part : part = Rtp!Part(size, n)
  OBVIOUS
<1>3. u \in 1 .. Len(Units) /\ u \in Nat \ {0} /\ size \in Nat \ {0} /\ n \in Nat /\ n < size
  BY <1>1, ConstantsOfRtsp DEF Upto
<1>4. n # 0 => got = [unit |-> u, to |-> n] /\ (Rtp!Single(size) => n = size)
  BY ONLY <1>1, Upto(got, u, n) DEF Upto
<1>5. Rtp!Single(size) => n = 0
  BY ONLY <1>3, <1>4
<1>6. /\ part.to \in n + 1 .. size /\ part.from \in Nat
      /\ (Rtp!Single(size) => part = [from |-> 0, to |-> size])
      /\ (~Rtp!Single(size) => part.from = IF n = 0 THEN 1 ELSE n)
  BY ONLY <1>2, <1>3, <1>5, PartIsNext
<1>7. p = [seq |-> number % SeqNos, unit |-> u, from |-> part.from, to |-> part.to,
           fragment |-> ~Rtp!Single(size), start |-> n = 0, end |-> part.to = size,
           marker |-> part.to = size]
  BY ONLY <1>1, <1>2, p = Rtp!Packet(u, n, number) DEF Rtp!Packet
<1>8. /\ p.seq = number % SeqNos /\ p.unit = u /\ p.from = part.from /\ p.to = part.to
      /\ (p.fragment <=> ~Rtp!Single(size)) /\ (p.start <=> n = 0)
      /\ (p.end <=> part.to = size) /\ (p.marker <=> part.to = size)
  BY ONLY <1>7
<1>9. p \in RtpPacket
  <2>1. number % SeqNos \in {i % SeqNos : i \in Nat} /\ part.to \in Nat
    BY ONLY <1>3, <1>6, number \in Nat
  <2> QED
    BY ONLY <1>3, <1>6, <1>7, <2>1 DEF RtpPacket
<1>10. Upto([unit |-> p.unit, to |-> p.to], u, p.to)
  <2>1. part.to # 0 /\ part.to \in 0 .. size
    BY ONLY <1>3, <1>6
  <2>2. Rtp!Single(size) => part.to = size
    BY ONLY <1>6
  <2> QED
    BY ONLY <1>1, <1>3, <1>8, <2>1, <2>2 DEF Upto
<1>11. Rtp!Continues(got, p)
  <2>1. (p.end <=> p.to = Units[p.unit]) /\ (p.marker <=> p.end)
    BY ONLY <1>1, <1>8
  <2>2. CASE n = 0
    <3>1. Complete(got) /\ (got.unit % Len(Units)) + 1 = u
      BY ONLY <2>2, Upto(got, u, n) DEF Upto
    <3>2. p.from = IF p.fragment THEN 1 ELSE 0
      BY ONLY <1>6, <1>8, <2>2
    <3>3. p.start
      BY ONLY <1>8, <2>2
    <3> QED
      BY ONLY <1>8, <2>1, <3>1, <3>2, <3>3 DEF Rtp!Continues, Complete
  <2>3. CASE n # 0
    <3>1. got.unit = u /\ got.to = n
      BY ONLY <1>4, <2>3
    <3>2. ~Rtp!Single(size) /\ p.fragment /\ ~p.start
      BY ONLY <1>5, <1>8, <2>3
    <3>3. p.from = n
      BY ONLY <1>6, <1>8, <2>3, <3>2
    <3>4. u # 0 /\ n # Units[u]
      BY ONLY <1>1, <1>3
    <3> QED
      BY ONLY <1>8, <2>1, <3>1, <3>2, <3>3, <3>4 DEF Rtp!Continues
  <2> QED
    BY ONLY <2>2, <2>3
<1>12. Fits(got, p)
  <2>1. Rtp!Allowed(p) \/ Units[p.unit] \in Rtp!OneFragment
    BY ONLY <1>3, p = Rtp!Packet(u, n, number), PacketAllowed
  <2> QED
    BY ONLY <1>11, <2>1 DEF Fits
<1> QED
  BY ONLY <1>1, <1>2, <1>8, <1>9, <1>10, <1>12

\* The reader goes on to the next unit, or is at the end of the file.
LEMMA NextStands ==
  ASSUME NEW u \in Nat, NEW n, NEW got, Stands("reading", u, n, got),
         u > 0 => n = Units[u]
  PROVE  /\ u < Len(Units) => Upto(got, u + 1, 0)
         /\ ~(u < Len(Units)) => Whole(got)
<1>1. PICK l : l = Len(Units)
  OBVIOUS
<1>2. l \in Nat /\ \A i \in 1 .. l : Units[i] \in Nat \ {0}
  BY ONLY <1>1, ConstantsOfRtsp
<1>3. ASSUME u < l, Complete(got), (got.unit % l) + 1 = u + 1
      PROVE  Upto(got, u + 1, 0)
  <2>1. u + 1 \in 1 .. l
    BY ONLY <1>2, <1>3, u \in Nat
  <2>2. 0 \in 0 .. Units[u + 1]
    BY ONLY <1>2, <2>1
  <2> QED
    BY ONLY <1>1, <1>3, <2>1, <2>2 DEF Upto
<1>4. CASE u = 0
  <2>1. Whole(got)
    BY ONLY <1>4, Stands("reading", u, n, got), u \in Nat DEF Stands
  <2>2. ASSUME u < l
        PROVE  (got.unit % l) + 1 = u + 1
    <3>1. got.unit = 0 \/ got.unit = l
      BY ONLY <1>1, <2>1 DEF Whole
    <3>2. 0 % l = 0 /\ l % l = 0
      BY ONLY <1>2, <1>4, <2>2
    <3> QED
      BY ONLY <1>4, <3>1, <3>2
  <2>3. Complete(got)
    BY ONLY <2>1 DEF Whole, Complete
  <2> QED
    BY ONLY <1>1, <1>3, <2>1, <2>2, <2>3
<1>5. CASE u # 0
  <2>1. Upto(got, u, n) /\ n = Units[u]
    BY ONLY <1>5, Stands("reading", u, n, got), u > 0 => n = Units[u], u \in Nat DEF Stands
  <2>2. u \in 1 .. l
    BY ONLY <1>1, <2>1 DEF Upto
  <2>3. got.unit = u /\ got.to = Units[u]
    <3>1. n # 0
      BY ONLY <1>2, <2>1, <2>2
    <3> QED
      BY ONLY <2>1, <3>1 DEF Upto
  <2>4. ASSUME u < l
        PROVE  (got.unit % l) + 1 = u + 1
    <3>1. u % l = u
      BY ONLY <1>2, <2>4, u \in Nat
    <3> QED
      BY ONLY <2>3, <3>1
  <2>5. Complete(got)
    BY ONLY <2>3 DEF Complete
  <2>6. ~(u < l) => Whole(got)
    <3>1. ~(u < l) => u = l /\ l > 0
      BY ONLY <1>2, <2>2
    <3> QED
      BY ONLY <1>1, <2>3, <3>1 DEF Whole
  <2> QED
    BY ONLY <1>1, <1>3, <2>4, <2>5, <2>6
<1> QED
  BY ONLY <1>4, <1>5

-----------------------------------------------------------------------------
(* Rtsp: the sessions *)

Counted == {<<>>} \union {<<n>> : n \in Nat}

RtspType ==
  /\ asked \in [Sessions -> Seq(Methods)]
  /\ parsed \in [Sessions -> Nat]
  /\ flvReader \in [Sessions -> {"none", "made", "reading", "read"}]
  /\ unit \in [Sessions -> Nat]
  /\ unitSent \in [Sessions -> Nat]
  /\ seqRead \in [Sessions -> Counted]
  /\ seq \in Nat
  /\ sending \in [Sessions -> Seq(RtpPacket)]
  /\ wire \in [Sessions -> Seq(Sent)]

\* The replies are those to the requests parsed, of those that have come.
Replied(reqs, n, sent) ==
  /\ n <= Len(reqs)
  /\ sent \in Seq(Reply)
  /\ sent = Answers(reqs, n)

\* What has been sent of the file, and what is on its way, is of use to the client, up to
\* where the reader stands.
Streamed(s) ==
  /\ Rtp!Having("unit", wire[s]) \in Seq(RtpPacket)
  /\ Followed(Rtp!Packets(s))
  /\ Stands(flvReader[s], unit[s], unitSent[s], Latest(Rtp!Packets(s)))

\* No other session has sent packets or is about to.
Alone(s) ==
  \A other \in Sessions \ {s} : Rtp!Packets(other) = <<>> /\ seqRead[other] = <<>>

\* The counter is the number of packets then, and each has its own.
Numbered(s) ==
  /\ seq = Len(Rtp!Packets(s))
  /\ seqRead[s] # <<>> => seqRead[s] = <<seq>>
  /\ \A i \in 1 .. Len(Rtp!Packets(s)) : Rtp!Packets(s)[i].seq = (i - 1) % SeqNos

SessionsInv ==
  /\ RtspType
  /\ \A s \in Sessions : /\ Replied(asked[s], parsed[s], Rtp!Replies(s))
                         /\ Streamed(s)
                         /\ Alone(s) => Numbered(s)

RtspInv == ~undefined => SessionsInv

LEMMA SessionPacketsAreSeq ==
  ASSUME RtspType, NEW s \in Sessions, Streamed(s)
  PROVE  Rtp!Packets(s) \in Seq(RtpPacket) /\ Len(Rtp!Packets(s)) \in Nat
<1>1. sending[s] \in Seq(RtpPacket) /\ Rtp!Having("unit", wire[s]) \in Seq(RtpPacket)
  BY DEF RtspType, Streamed
<1>2. Rtp!Packets(s) = Rtp!Having("unit", wire[s]) \o sending[s]
  BY DEF Rtp!Packets
<1> QED
  BY ONLY <1>1, <1>2, ConcatProperties, LenProperties

LEMMA RtspStarts == Rtp!Init => RtspInv
<1> SUFFICES ASSUME Rtp!Init
             PROVE  SessionsInv
  BY DEF RtspInv
<1>1. /\ asked = [s \in Sessions |-> <<>>] /\ parsed = [s \in Sessions |-> 0]
      /\ flvReader = [s \in Sessions |-> "none"] /\ unit = [s \in Sessions |-> 0]
      /\ unitSent = [s \in Sessions |-> 0] /\ seqRead = [s \in Sessions |-> <<>>]
      /\ seq = 0 /\ sending = [s \in Sessions |-> <<>>] /\ wire = [s \in Sessions |-> <<>>]
  BY DEF Rtp!Init
<1>2. \A S : <<>> \in Seq(S) /\ Len(<<>>) = 0
  BY EmptySeq
<1>3. RtspType
  BY ONLY <1>1, <1>2 DEF RtspType, Counted
<1>4. ASSUME NEW s \in Sessions
      PROVE  /\ Replied(asked[s], parsed[s], Rtp!Replies(s))
             /\ Streamed(s)
             /\ Numbered(s)
  <2>1. /\ asked[s] = <<>> /\ parsed[s] = 0 /\ flvReader[s] = "none" /\ unit[s] = 0
        /\ unitSent[s] = 0 /\ seqRead[s] = <<>> /\ sending[s] = <<>> /\ wire[s] = <<>>
    BY ONLY <1>1, s \in Sessions
  <2>2. Rtp!Replies(s) = <<>> /\ Rtp!Having("unit", wire[s]) = <<>>
    BY ONLY <2>1, HavingNone DEF Rtp!Replies
  <2>3. Rtp!Packets(s) = <<>>
    <3>1. <<>> \o <<>> = <<>>
      BY ConcatEmptySeq
    <3> QED
      BY ONLY <2>1, <2>2, <3>1 DEF Rtp!Packets
  <2>4. Replied(asked[s], parsed[s], Rtp!Replies(s))
    <3>1. Answers(asked[s], 0) = <<>>
      BY AnswersNone
    <3> QED
      BY ONLY <1>2, <2>1, <2>2, <3>1 DEF Replied
  <2>5. Streamed(s)
    <3>1. Latest(<<>>) = [unit |-> 0, to |-> 0]
      BY ONLY <1>2 DEF Latest, Rtp!Got
    <3>2. Stands(flvReader[s], unit[s], unitSent[s], Latest(Rtp!Packets(s)))
      BY ONLY <2>1, <2>3, <3>1 DEF Stands, Whole
    <3>3. Followed(<<>>)
      BY ONLY <1>2 DEF Followed
    <3> QED
      BY ONLY <1>2, <2>2, <2>3, <3>2, <3>3 DEF Streamed
  <2>6. Numbered(s)
    BY ONLY <1>1, <1>2, <2>1, <2>3 DEF Numbered
  <2> QED
    BY ONLY <2>4, <2>5, <2>6
<1> QED
  BY ONLY <1>3, <1>4 DEF SessionsInv

LEMMA RtspSays == RtspInv => WireIsRepliesAndUnits
<1> SUFFICES ASSUME RtspInv, ~undefined, NEW s \in Sessions
             PROVE  Rtp!RepliesExact(s) /\ Rtp!UnitsExact(s) /\ Rtp!NumbersExact(s)
  BY DEF WireIsRepliesAndUnits, Rtp!WireIsRepliesAndUnits
<1>1. /\ RtspType /\ Replied(asked[s], parsed[s], Rtp!Replies(s)) /\ Streamed(s)
      /\ (Alone(s) => Numbered(s))
  BY DEF RtspInv, SessionsInv
<1>2. Rtp!Packets(s) \in Seq(RtpPacket)
  BY ONLY <1>1, SessionPacketsAreSeq, s \in Sessions
<1>3. DOMAIN Rtp!Packets(s) = 1 .. Len(Rtp!Packets(s))
  BY ONLY <1>2, LenProperties
<1>4. Rtp!RepliesExact(s)
  BY ONLY <1>1 DEF Replied, Rtp!RepliesExact, Answers, OneAnswer
<1>5. Rtp!UnitsExact(s)
  <2>1. \A i \in DOMAIN Rtp!Packets(s) :
          /\ Rtp!Continues(Rtp!Got(Rtp!Packets(s), i - 1), Rtp!Packets(s)[i])
          /\ \/ Rtp!Allowed(Rtp!Packets(s)[i])
             \/ Units[Rtp!Packets(s)[i].unit] \in Rtp!OneFragment
    BY ONLY <1>1, <1>3 DEF Streamed, Followed, Fits
  <2>2. ASSUME Rtp!Sending(s), unitSent[s] > 0
        PROVE  Rtp!Got(Rtp!Packets(s), Len(Rtp!Packets(s)))
                 = [unit |-> unit[s], to |-> unitSent[s]]
    <3>1. flvReader[s] = "reading" /\ unit[s] > 0 /\ unitSent[s] # 0
      BY ONLY <2>2 DEF Rtp!Sending
    <3>2. Upto(Latest(Rtp!Packets(s)), unit[s], unitSent[s])
      BY ONLY <1>1, <3>1 DEF Streamed, Stands
    <3> QED
      BY ONLY <3>1, <3>2 DEF Upto, Latest
  <2> QED
    BY ONLY <2>1, <2>2 DEF Rtp!UnitsExact
<1>6. Rtp!NumbersExact(s)
  BY ONLY <1>1, <1>3 DEF Rtp!NumbersExact, Alone, Numbered
<1> QED
  BY ONLY <1>4, <1>5, <1>6

-----------------------------------------------------------------------------
(* Rtsp: the steps of a session *)

\* Nothing of session t changes.
Stays(t) ==
  /\ asked'[t] = asked[t] /\ parsed'[t] = parsed[t]
  /\ flvReader'[t] = flvReader[t] /\ unit'[t] = unit[t] /\ unitSent'[t] = unitSent[t]
  /\ wire'[t] = wire[t] /\ sending'[t] = sending[t]

LEMMA SessionStays ==
  ASSUME NEW t, Stays(t), Replied(asked[t], parsed[t], Rtp!Replies(t)), Streamed(t)
  PROVE  /\ Replied(asked[t], parsed[t], Rtp!Replies(t))'
         /\ Streamed(t)'
         /\ Rtp!Packets(t)' = Rtp!Packets(t)
<1>1. Rtp!Packets(t)' = Rtp!Packets(t) /\ Rtp!Replies(t)' = Rtp!Replies(t)
  BY ONLY Stays(t) DEF Stays, Rtp!Packets, Rtp!Replies
<1>2. Replied(asked[t], parsed[t], Rtp!Replies(t))'
  BY ONLY <1>1, Stays(t), Replied(asked[t], parsed[t], Rtp!Replies(t)) DEF Stays, Replied
<1>3. Streamed(t)'
  BY ONLY <1>1, Stays(t), Streamed(t) DEF Stays, Streamed
<1> QED
  BY ONLY <1>1, <1>2, <1>3

\* A step that sends no packet and leaves the counter alone.
LEMMA NumbersStay ==
  ASSUME \A s \in Sessions : Rtp!Packets(s)' = Rtp!Packets(s), seqRead' = seqRead, seq' = seq,
         NEW s \in Sessions, Alone(s) => Numbered(s)
  PROVE  (Alone(s) => Numbered(s))'
<1>1. Alone(s)' <=> Alone(s)
  BY DEF Alone
<1>2. Numbered(s)' <=> Numbered(s)
  BY DEF Numbered
<1> QED
  BY ONLY <1>1, <1>2, Alone(s) => Numbered(s)

\* What a request does to the reader of session s.
Turns(s) ==
  /\ flvReader' \in [Sessions -> {"none", "made", "reading", "read"}]
  /\ unit' \in [Sessions -> Nat]
  /\ unitSent' \in [Sessions -> Nat]
  /\ \A t \in Sessions \ {s} : /\ flvReader'[t] = flvReader[t]
                               /\ unit'[t] = unit[t] /\ unitSent'[t] = unitSent[t]
  /\ \/ flvReader'[s] = flvReader[s] /\ unit'[s] = unit[s] /\ unitSent'[s] = unitSent[s]
     \/ flvReader[s] # "reading" /\ (flvReader'[s] = "reading" => unit'[s] = 0)

\* What it does to the connection.
Writes(s, method, cseq) ==
  IF method \in Rtp!Answered
  THEN wire' = [wire EXCEPT ![s] = Append(@, [reply |-> method, cseq |-> cseq])]
  ELSE wire' = wire

LEMMA TurnsNot ==
  ASSUME RtspType, NEW s \in Sessions,
         flvReader' = flvReader, unit' = unit, unitSent' = unitSent
  PROVE  Turns(s)
BY DEF RtspType, Turns

LEMMA OnReadDoes ==
  ASSUME RtspType, ~undefined', NEW s \in Sessions, NEW batch \in Rtp!Batches,
         Rtp!OnRead(s, batch)
  PROVE  /\ batch \in Seq(Methods) /\ Len(batch) >= 1
         /\ asked' = [asked EXCEPT ![s] = asked[s] \o batch]
         /\ parsed' = [parsed EXCEPT ![s] = @ + 1]
         /\ sending' = sending /\ seqRead' = seqRead /\ seq' = seq
         /\ Turns(s)
         /\ Writes(s, (asked[s] \o batch)[parsed[s] + 1], parsed[s] + 1)
<1>1. batch \in Seq(Methods) /\ Len(batch) >= 1
  <2>1. CASE \E m \in Methods : batch = <<m>>
    BY ONLY <2>1
  <2>2. CASE \E m \in Methods : \E n \in Methods : batch = <<m, n>>
    BY ONLY <2>2
  <2> QED
    BY <2>1, <2>2 DEF Rtp!Batches
<1>2. PICK all : all = asked[s] \o batch
  OBVIOUS
<1>3. PICK cseq : cseq = parsed[s] + 1
  OBVIOUS
<1>4. PICK m : m = all[cseq]
  OBVIOUS
<1>5. /\ asked' = [asked EXCEPT ![s] = all]
      /\ parsed' = [parsed EXCEPT ![s] = @ + 1]
      /\ sending' = sending
  BY <1>2 DEF Rtp!OnRead, Rtp!Parse
<1>6. CASE m = "OPTIONS"
  <2>1. Rtp!ProcessOption(s, cseq)
    BY <1>2, <1>3, <1>4, <1>6 DEF Rtp!OnRead
  <2>2. Turns(s) /\ seqRead' = seqRead /\ seq' = seq
    BY <2>1, TurnsNot DEF Rtp!ProcessOption, Rtp!sendVars
  <2>3. Writes(s, m, cseq)
    BY <1>6, <2>1 DEF Rtp!ProcessOption, Rtp!Answer, Writes, Rtp!Answered
  <2> QED
    BY <1>1, <1>2, <1>3, <1>4, <1>5, <2>2, <2>3
<1>7. CASE m = "DESCRIBE"
  <2>1. Rtp!ProcessDescribe(s, cseq)
    BY <1>2, <1>3, <1>4, <1>7 DEF Rtp!OnRead
  <2>2. seqRead' = seqRead /\ seq' = seq
    BY <2>1 DEF Rtp!ProcessDescribe
  <2>3. Turns(s)
    BY <2>1 DEF Rtp!ProcessDescribe, RtspType, Turns
  <2>4. Writes(s, m, cseq)
    BY <1>7, <2>1 DEF Rtp!ProcessDescribe, Rtp!Answer, Writes, Rtp!Answered
  <2> QED
    BY <1>1, <1>2, <1>3, <1>4, <1>5, <2>2, <2>3, <2>4
<1>8. CASE m \in {"SETUP", "SETUP over UDP"}
  <2>1. Rtp!ProcessSetup(s, m, cseq)
    BY <1>2, <1>3, <1>4, <1>8 DEF Rtp!OnRead
  <2>2. Turns(s) /\ seqRead' = seqRead /\ seq' = seq
    BY <2>1, TurnsNot DEF Rtp!ProcessSetup, Rtp!sendVars
  <2>3. Writes(s, m, cseq)
    BY <1>8, <2>1 DEF Rtp!ProcessSetup, Rtp!Answer, Writes, Rtp!Answered
  <2> QED
    BY <1>1, <1>2, <1>3, <1>4, <1>5, <2>2, <2>3
<1>9. CASE m = "PLAY"
  <2>1. Rtp!ProcessPlay(s, cseq)
    BY <1>2, <1>3, <1>4, <1>9 DEF Rtp!OnRead
  <2>2. seqRead' = seqRead /\ seq' = seq
    BY <2>1 DEF Rtp!ProcessPlay
  <2>3. Turns(s)
    <3>1. CASE flvReader' = flvReader /\ unit' = unit /\ unitSent' = unitSent
      BY <3>1, TurnsNot
    <3>2. CASE /\ Rtp!Opens(s)
               /\ flvReader' = [flvReader EXCEPT ![s] = "reading"]
               /\ unit' = [unit EXCEPT ![s] = 0]
               /\ unitSent' = [unitSent EXCEPT ![s] = 0]
      BY <3>2 DEF Rtp!Opens, RtspType, Turns
    <3> QED
      BY <2>1, <3>1, <3>2 DEF Rtp!ProcessPlay
  <2>4. Writes(s, m, cseq)
    BY <1>9, <2>1 DEF Rtp!ProcessPlay, Rtp!Answer, Writes, Rtp!Answered
  <2> QED
    BY <1>1, <1>2, <1>3, <1>4, <1>5, <2>2, <2>3, <2>4
<1>10. CASE m \notin {"OPTIONS", "DESCRIBE", "SETUP", "SETUP over UDP", "PLAY"}
  <2>1. UNCHANGED <<flvReader, unit, unitSent, seqRead, seq, wire, undefined>>
    BY <1>2, <1>3, <1>4, <1>10 DEF Rtp!OnRead, Rtp!sendVars
  <2>2. Turns(s)
    BY <2>1, TurnsNot
  <2>3. Writes(s, m, cseq)
    BY <1>10, <2>1 DEF Writes, Rtp!Answered
  <2> QED
    BY <1>1, <1>2, <1>3, <1>4, <1>5, <2>1, <2>2, <2>3
<1> QED
  BY ONLY <1>6, <1>7, <1>8, <1>9, <1>10

\* What has been written to session s tells more replies, the packets are the same.
LEMMA WritesReply ==
  ASSUME RtspType, NEW s \in Sessions, NEW m, NEW n \in Nat, Writes(s, m, n),
         Rtp!Having("unit", wire[s]) \in Seq(RtpPacket), Rtp!Replies(s) \in Seq(Reply)
  PROVE  /\ wire' \in [Sessions -> Seq(Sent)]
         /\ \A t \in Sessions \ {s} : wire'[t] = wire[t]
         /\ Rtp!Replies(s)' = Rtp!Replies(s) \o OneAnswer(m, n)
         /\ Rtp!Replies(s)' \in Seq(Reply)
         /\ Rtp!Having("unit", wire'[s]) = Rtp!Having("unit", wire[s])
<1>1. wire \in [Sessions -> Seq(Sent)] /\ wire[s] \in Seq(Sent)
  BY DEF RtspType
<1>2. CASE m \notin Rtp!Answered
  <2>1. wire' = wire /\ OneAnswer(m, n) = <<>>
    BY ONLY <1>2, Writes(s, m, n) DEF Writes, OneAnswer
  <2>2. Rtp!Replies(s) \o <<>> = Rtp!Replies(s)
    BY ONLY Rtp!Replies(s) \in Seq(Reply), ConcatEmptySeq
  <2> QED
    BY ONLY <1>1, <2>1, <2>2, Rtp!Replies(s) \in Seq(Reply) DEF Rtp!Replies
<1>3. CASE m \in Rtp!Answered
  <2>1. PICK e : e = [reply |-> m, cseq |-> n]
    OBVIOUS
  <2>2. wire' = [wire EXCEPT ![s] = Append(@, e)] /\ OneAnswer(m, n) = <<e>>
    BY ONLY <1>3, <2>1, Writes(s, m, n) DEF Writes, OneAnswer
  <2>3. e \in Reply /\ e \in Sent
    BY ONLY <1>3, <2>1, n \in Nat DEF Reply, Sent
  <2>4. Append(wire[s], e) \in Seq(Sent)
    BY ONLY <1>1, <2>3, AppendProperties
  <2>5. /\ wire'[s] = Append(wire[s], e) /\ wire' \in [Sessions -> Seq(Sent)]
        /\ \A t \in Sessions \ {s} : wire'[t] = wire[t]
    BY ONLY <1>1, <2>2, <2>4, s \in Sessions
  <2>6. Named("reply", e) = <<e>> /\ Named("unit", e) = <<>>
    BY ONLY <2>3, NamesTell DEF Named
  <2>7. /\ Rtp!Having("reply", wire'[s]) = Rtp!Having("reply", wire[s]) \o <<e>>
        /\ Rtp!Having("unit", wire'[s]) = Rtp!Having("unit", wire[s]) \o <<>>
    BY ONLY <1>1, <2>3, <2>5, <2>6, HavingMore
  <2>8. Rtp!Having("unit", wire[s]) \o <<>> = Rtp!Having("unit", wire[s])
    BY ONLY Rtp!Having("unit", wire[s]) \in Seq(RtpPacket), ConcatEmptySeq
  <2>9. Rtp!Replies(s) \o <<e>> \in Seq(Reply)
    <3>1. <<e>> \in Seq(Reply)
      BY ONLY <2>3
    <3> QED
      BY ONLY <3>1, Rtp!Replies(s) \in Seq(Reply), ConcatProperties
  <2> QED
    BY ONLY <2>2, <2>5, <2>7, <2>8, <2>9 DEF Rtp!Replies
<1> QED
  BY ONLY <1>2, <1>3

LEMMA OnReadKeeps ==
  ASSUME SessionsInv, ~undefined', NEW s \in Sessions, NEW batch \in Rtp!Batches,
         Rtp!OnRead(s, batch)
  PROVE  SessionsInv'
<1>1. /\ RtspType
      /\ \A t \in Sessions : /\ Replied(asked[t], parsed[t], Rtp!Replies(t))
                             /\ Streamed(t)
                             /\ Alone(t) => Numbered(t)
  BY DEF SessionsInv
<1>2. PICK all : all = asked[s] \o batch
  OBVIOUS
<1>3. PICK n : n = parsed[s] + 1
  OBVIOUS
<1>4. /\ batch \in Seq(Methods) /\ Len(batch) >= 1
      /\ asked' = [asked EXCEPT ![s] = all]
      /\ parsed' = [parsed EXCEPT ![s] = @ + 1]
      /\ sending' = sending /\ seqRead' = seqRead /\ seq' = seq
      /\ Turns(s)
      /\ Writes(s, all[n], n)
  BY <1>1, <1>2, <1>3, OnReadDoes
<1>5. /\ asked \in [Sessions -> Seq(Methods)] /\ parsed \in [Sessions -> Nat]
      /\ asked[s] \in Seq(Methods) /\ parsed[s] \in Nat /\ n \in Nat
  BY ONLY <1>1, <1>3, s \in Sessions DEF RtspType
<1>6. /\ parsed[s] <= Len(asked[s]) /\ Rtp!Replies(s) \in Seq(Reply)
      /\ Rtp!Replies(s) = Answers(asked[s], parsed[s])
      /\ Rtp!Having("unit", wire[s]) \in Seq(RtpPacket)
  BY ONLY <1>1, s \in Sessions DEF Replied, Streamed
<1>7. /\ wire' \in [Sessions -> Seq(Sent)]
      /\ \A t \in Sessions \ {s} : wire'[t] = wire[t]
      /\ Rtp!Replies(s)' = Rtp!Replies(s) \o OneAnswer(all[n], n)
      /\ Rtp!Replies(s)' \in Seq(Reply)
      /\ Rtp!Having("unit", wire'[s]) = Rtp!Having("unit", wire[s])
  BY ONLY <1>1, <1>4, <1>5, <1>6, WritesReply, s \in Sessions
<1>8. all \in Seq(Methods) /\ n <= Len(all)
  <2>1. all \in Seq(Methods) /\ Len(all) = Len(asked[s]) + Len(batch)
    BY ONLY <1>2, <1>4, <1>5, ConcatProperties
  <2>2. Len(asked[s]) \in Nat /\ Len(batch) \in Nat
    BY ONLY <1>4, <1>5, LenProperties
  <2> QED
    BY ONLY <1>3, <1>4, <1>5, <1>6, <2>1, <2>2
<1>9. /\ asked' \in [Sessions -> Seq(Methods)] /\ parsed' \in [Sessions -> Nat]
      /\ asked'[s] = all /\ parsed'[s] = n
      /\ \A t \in Sessions \ {s} : asked'[t] = asked[t] /\ parsed'[t] = parsed[t]
  BY ONLY <1>3, <1>4, <1>5, <1>8, s \in Sessions
<1>10. RtspType'
  BY ONLY <1>1, <1>4, <1>7, <1>9 DEF RtspType, Turns
<1>11. \A t \in Sessions : Rtp!Packets(t)' = Rtp!Packets(t)
  BY ONLY <1>4, <1>7 DEF Rtp!Packets
<1>12. Replied(asked[s], parsed[s], Rtp!Replies(s))'
  <2>1. Answers(all, n) = Answers(asked[s], parsed[s]) \o OneAnswer(all[n], n)
    <3>1. Answers(asked[s] \o batch, parsed[s] + 1)
            = Answers(asked[s], parsed[s])
                \o OneAnswer((asked[s] \o batch)[parsed[s] + 1], parsed[s] + 1)
      BY ONLY <1>4, <1>5, <1>6, AnswersMore
    <3> QED
      BY ONLY <1>2, <1>3, <3>1
  <2> QED
    BY ONLY <1>6, <1>7, <1>8, <1>9, <2>1 DEF Replied
<1>13. Streamed(s)'
  <2>1. Streamed(s) /\ Rtp!Packets(s)' = Rtp!Packets(s)
    BY ONLY <1>1, <1>11, s \in Sessions
  <2>2. PICK got : got = Latest(Rtp!Packets(s))
    OBVIOUS
  <2>3. Stands(flvReader[s], unit[s], unitSent[s], got)
    BY ONLY <2>1, <2>2 DEF Streamed
  <2>4. Stands(flvReader'[s], unit'[s], unitSent'[s], got)
    <3>1. CASE flvReader'[s] = flvReader[s] /\ unit'[s] = unit[s] /\ unitSent'[s] = unitSent[s]
      BY ONLY <2>3, <3>1
    <3>2. CASE flvReader[s] # "reading" /\ (flvReader'[s] = "reading" => unit'[s] = 0)
      BY ONLY <2>3, <3>2 DEF Stands
    <3> QED
      BY ONLY <1>4, <3>1, <3>2 DEF Turns
  <2> QED
    BY ONLY <1>7, <2>1, <2>2, <2>4 DEF Streamed
<1>14. ASSUME NEW t \in Sessions
       PROVE  /\ Replied(asked[t], parsed[t], Rtp!Replies(t))'
              /\ Streamed(t)'
              /\ (Alone(t) => Numbered(t))'
  <2>1. (Alone(t) => Numbered(t))'
    BY ONLY <1>1, <1>4, <1>11, NumbersStay, t \in Sessions
  <2>2. t # s => Stays(t)
    BY ONLY <1>4, <1>7, <1>9, t \in Sessions DEF Stays, Turns
  <2> QED
    BY ONLY <1>1, <1>12, <1>13, <2>1, <2>2, SessionStays, t \in Sessions
<1> QED
  BY ONLY <1>10, <1>14 DEF SessionsInv

LEMMA NextUnitKeeps ==
  ASSUME SessionsInv, NEW s \in Sessions, Rtp!NextUnit(s)
  PROVE  SessionsInv'
<1>1. /\ RtspType
      /\ \A t \in Sessions : /\ Replied(asked[t], parsed[t], Rtp!Replies(t))
                             /\ Streamed(t)
                             /\ Alone(t) => Numbered(t)
  BY DEF SessionsInv
<1>2. /\ flvReader[s] = "reading" /\ (unit[s] > 0 => unitSent[s] = Units[unit[s]])
      /\ asked' = asked /\ parsed' = parsed /\ seqRead' = seqRead /\ seq' = seq
      /\ sending' = sending /\ wire' = wire
  BY DEF Rtp!NextUnit
<1>3. IF unit[s] < Len(Units)
      THEN /\ unit' = [unit EXCEPT ![s] = @ + 1]
           /\ unitSent' = [unitSent EXCEPT ![s] = 0]
           /\ flvReader' = flvReader
      ELSE /\ flvReader' = [flvReader EXCEPT ![s] = "read"]
           /\ unit' = unit /\ unitSent' = unitSent
  BY DEF Rtp!NextUnit
<1>4. RtspType'
  <2>1. /\ flvReader' \in [Sessions -> {"none", "made", "reading", "read"}]
        /\ unit' \in [Sessions -> Nat] /\ unitSent' \in [Sessions -> Nat]
    <3>1. /\ flvReader \in [Sessions -> {"none", "made", "reading", "read"}]
          /\ unit \in [Sessions -> Nat] /\ unitSent \in [Sessions -> Nat]
      BY ONLY <1>1 DEF RtspType
    <3>2. CASE unit[s] < Len(Units)
      BY ONLY <1>3, <3>1, <3>2, s \in Sessions
    <3>3. CASE ~(unit[s] < Len(Units))
      BY ONLY <1>3, <3>1, <3>3, s \in Sessions
    <3> QED
      BY ONLY <3>2, <3>3
  <2> QED
    BY ONLY <1>1, <1>2, <2>1 DEF RtspType
<1>5. \A t \in Sessions : Rtp!Packets(t)' = Rtp!Packets(t) /\ Rtp!Replies(t)' = Rtp!Replies(t)
  BY ONLY <1>2 DEF Rtp!Packets, Rtp!Replies
<1>6. /\ flvReader \in [Sessions -> {"none", "made", "reading", "read"}]
      /\ unit \in [Sessions -> Nat] /\ unitSent \in [Sessions -> Nat]
  BY ONLY <1>1 DEF RtspType
<1>7. Streamed(s)'
  <2>1. Streamed(s) /\ Rtp!Packets(s)' = Rtp!Packets(s)
    BY ONLY <1>1, <1>5, s \in Sessions
  <2>2. PICK got : got = Latest(Rtp!Packets(s))
    OBVIOUS
  <2>3. Stands("reading", unit[s], unitSent[s], got)
    BY ONLY <1>2, <2>1, <2>2 DEF Streamed
  <2>4. /\ unit[s] < Len(Units) => Upto(got, unit[s] + 1, 0)
        /\ ~(unit[s] < Len(Units)) => Whole(got)
    BY ONLY <1>2, <1>6, <2>3, NextStands, s \in Sessions
  <2>5. Stands(flvReader'[s], unit'[s], unitSent'[s], got)
    <3>1. CASE unit[s] < Len(Units)
      <4>1. /\ flvReader'[s] = "reading" /\ unit'[s] = unit[s] + 1 /\ unitSent'[s] = 0
            /\ unit'[s] > 0
        BY ONLY <1>2, <1>3, <1>6, <3>1, s \in Sessions
      <4> QED
        BY ONLY <2>4, <3>1, <4>1 DEF Stands
    <3>2. CASE ~(unit[s] < Len(Units))
      <4>1. flvReader'[s] = "read"
        BY ONLY <1>3, <1>6, <3>2, s \in Sessions
      <4> QED
        BY ONLY <2>4, <3>2, <4>1 DEF Stands
    <3> QED
      BY ONLY <3>1, <3>2
  <2> QED
    BY ONLY <1>2, <2>1, <2>2, <2>5 DEF Streamed
<1>8. ASSUME NEW t \in Sessions
      PROVE  /\ Replied(asked[t], parsed[t], Rtp!Replies(t))'
             /\ Streamed(t)'
             /\ (Alone(t) => Numbered(t))'
  <2>1. (Alone(t) => Numbered(t))'
    BY ONLY <1>1, <1>2, <1>5, NumbersStay, t \in Sessions
  <2>2. Replied(asked[t], parsed[t], Rtp!Replies(t))'
    BY ONLY <1>1, <1>2, <1>5, t \in Sessions
  <2>3. t # s => Stays(t)
    BY ONLY <1>2, <1>3, <1>6, s \in Sessions, t \in Sessions DEF Stays
  <2> QED
    BY ONLY <1>1, <1>7, <2>1, <2>2, <2>3, SessionStays, t \in Sessions
<1> QED
  BY ONLY <1>4, <1>8 DEF SessionsInv

LEMMA ReadSeqKeeps ==
  ASSUME SessionsInv, NEW s \in Sessions, Rtp!ReadSeq(s)
  PROVE  SessionsInv'
<1>1. /\ RtspType
      /\ \A t \in Sessions : /\ Replied(asked[t], parsed[t], Rtp!Replies(t))
                             /\ Streamed(t)
                             /\ Alone(t) => Numbered(t)
  BY DEF SessionsInv
<1>2. /\ seqRead[s] = <<>> /\ seqRead' = [seqRead EXCEPT ![s] = <<seq>>]
      /\ asked' = asked /\ parsed' = parsed /\ flvReader' = flvReader /\ unit' = unit
      /\ unitSent' = unitSent /\ seq' = seq /\ sending' = sending /\ wire' = wire
  BY DEF Rtp!ReadSeq, Rtp!sessionVars
<1>3. seqRead \in [Sessions -> Counted] /\ seq \in Nat
  BY ONLY <1>1 DEF RtspType
<1>4. /\ seqRead'[s] = <<seq>> /\ seqRead' \in [Sessions -> Counted]
      /\ \A t \in Sessions \ {s} : seqRead'[t] = seqRead[t]
  BY ONLY <1>2, <1>3, s \in Sessions DEF Counted
<1>5. RtspType'
  BY ONLY <1>1, <1>2, <1>4 DEF RtspType
<1>6. ASSUME NEW t \in Sessions
      PROVE  Stays(t)
  BY ONLY <1>2 DEF Stays
<1>7. \A t \in Sessions : Rtp!Packets(t)' = Rtp!Packets(t)
  BY ONLY <1>2 DEF Rtp!Packets
<1>8. ASSUME NEW t \in Sessions
      PROVE  (Alone(t) => Numbered(t))'
  <2>1. SUFFICES ASSUME Alone(t)'
                 PROVE  Numbered(t)'
    OBVIOUS
  <2>2. t = s
    <3>1. t # s => seqRead'[s] = <<>>
      BY ONLY <2>1, s \in Sessions DEF Alone
    <3>2. <<seq>> # <<>>
      OBVIOUS
    <3> QED
      BY ONLY <1>4, <3>1, <3>2
  <2>3. Alone(s)
    BY ONLY <1>4, <1>7, <2>1, <2>2 DEF Alone
  <2>4. Numbered(s) /\ Rtp!Packets(s)' = Rtp!Packets(s)
    BY ONLY <1>1, <1>7, <2>3, s \in Sessions
  <2> QED
    BY ONLY <1>2, <1>4, <2>2, <2>4 DEF Numbered
<1>9. ASSUME NEW t \in Sessions
      PROVE  Replied(asked[t], parsed[t], Rtp!Replies(t))' /\ Streamed(t)'
  BY ONLY <1>1, <1>6, SessionStays, t \in Sessions
<1> QED
  BY ONLY <1>5, <1>8, <1>9 DEF SessionsInv

LEMMA HeadTailJoin ==
  ASSUME NEW S, NEW q \in Seq(S), q # <<>>
  PROVE  q = <<Head(q)>> \o Tail(q)
<1>1. Head(q) \in S /\ Tail(q) \in Seq(S) /\ Head(q) = q[1]
      /\ Len(Tail(q)) = Len(q) - 1 /\ \A i \in 1 .. Len(Tail(q)) : Tail(q)[i] = q[i + 1]
  BY HeadTailProperties
<1>2. PICK t : t = <<Head(q)>> \o Tail(q)
  OBVIOUS
<1>3. Len(q) \in Nat /\ Len(q) >= 1
  BY EmptySeq, LenProperties
<1>4. <<Head(q)>> \in Seq(S) /\ Len(<<Head(q)>>) = 1 /\ <<Head(q)>>[1] = Head(q)
  BY ONLY <1>1
<1>5. t \in Seq(S) /\ Len(t) = Len(q)
      /\ \A i \in 1 .. Len(t) : t[i] = IF i <= 1 THEN <<Head(q)>>[i] ELSE Tail(q)[i - 1]
  BY ONLY <1>1, <1>2, <1>3, <1>4, ConcatProperties
<1>6. ASSUME NEW i \in 1 .. Len(q)
      PROVE  t[i] = q[i]
  <2>1. CASE i = 1
    BY ONLY <1>1, <1>3, <1>4, <1>5, <2>1
  <2>2. CASE i # 1
    <3>1. i - 1 \in 1 .. Len(Tail(q)) /\ (i - 1) + 1 = i /\ ~(i <= 1) /\ i \in 1 .. Len(t)
      BY ONLY <1>1, <1>3, <1>5, <2>2, i \in 1 .. Len(q)
    <3> QED
      BY ONLY <1>1, <1>5, <3>1
  <2> QED
    BY ONLY <2>1, <2>2
<1> QED
  BY ONLY <1>2, <1>5, <1>6, q \in Seq(S), SeqEqual

LEMMA SendPacketKeeps ==
  ASSUME SessionsInv, NEW s \in Sessions, Rtp!SendPacket(s)
  PROVE  SessionsInv'
<1>1. /\ RtspType
      /\ \A t \in Sessions : /\ Replied(asked[t], parsed[t], Rtp!Replies(t))
                             /\ Streamed(t)
                             /\ Alone(t) => Numbered(t)
  BY DEF SessionsInv
<1>2. PICK u : u = unit[s]
  OBVIOUS
<1>3. PICK n : n = unitSent[s]
  OBVIOUS
<1>4. PICK number : number = seqRead[s][1]
  OBVIOUS
<1>5. PICK p : p = Rtp!Packet(u, n, number)
  OBVIOUS
<1>6. /\ flvReader[s] = "reading" /\ u > 0 /\ n < Units[u] /\ seqRead[s] # <<>>
      /\ seq' = number + 1 /\ seqRead' = [seqRead EXCEPT ![s] = <<>>]
      /\ sending' = [sending EXCEPT ![s] = Append(@, p)]
      /\ unitSent' = [unitSent EXCEPT ![s] = Rtp!Part(Units[u], @).to]
      /\ asked' = asked /\ parsed' = parsed /\ flvReader' = flvReader /\ unit' = unit
      /\ wire' = wire
  BY <1>2, <1>3, <1>4, <1>5 DEF Rtp!SendPacket, Rtp!Sending, Rtp!sessionVars
<1>7. /\ seqRead \in [Sessions -> Counted] /\ sending \in [Sessions -> Seq(RtpPacket)]
      /\ unitSent \in [Sessions -> Nat] /\ sending[s] \in Seq(RtpPacket)
  BY ONLY <1>1, s \in Sessions DEF RtspType
<1>8. seqRead[s] = <<number>> /\ number \in Nat
  <2>1. seqRead[s] \in Counted
    BY ONLY <1>7, s \in Sessions
  <2>2. PICK k \in Nat : seqRead[s] = <<k>>
    BY ONLY <1>6, <2>1 DEF Counted
  <2> QED
    BY ONLY <1>4, <2>2
<1>9. PICK given : given = Rtp!Packets(s)
  OBVIOUS
<1>10. given \in Seq(RtpPacket) /\ Len(given) \in Nat
  BY ONLY <1>1, <1>9, SessionPacketsAreSeq, s \in Sessions
<1>11. Streamed(s) /\ Rtp!Having("unit", wire[s]) \in Seq(RtpPacket)
  BY ONLY <1>1, s \in Sessions DEF Streamed
<1>12. Upto(Latest(given), u, n)
  BY ONLY <1>2, <1>3, <1>6, <1>9, <1>11 DEF Streamed, Stands
<1>13. /\ p \in RtpPacket /\ Fits(Latest(given), p)
       /\ p.unit = u /\ p.to = Rtp!Part(Units[u], n).to /\ p.seq = number % SeqNos
       /\ Upto([unit |-> p.unit, to |-> p.to], u, p.to)
  BY ONLY <1>5, <1>6, <1>8, <1>12, PacketContinues
<1>14. /\ sending'[s] = Append(sending[s], p) /\ sending' \in [Sessions -> Seq(RtpPacket)]
       /\ \A t \in Sessions \ {s} : sending'[t] = sending[t]
  <2>1. Append(sending[s], p) \in Seq(RtpPacket)
    BY ONLY <1>7, <1>13, AppendProperties
  <2> QED
    BY ONLY <1>6, <1>7, <2>1, s \in Sessions
<1>15. /\ unitSent'[s] = p.to /\ unitSent' \in [Sessions -> Nat]
       /\ \A t \in Sessions \ {s} : unitSent'[t] = unitSent[t]
  <2>1. p.to \in Nat
    BY ONLY <1>13 DEF RtpPacket
  <2>2. unitSent' = [unitSent EXCEPT ![s] = p.to]
    BY ONLY <1>3, <1>6, <1>13
  <2> QED
    BY ONLY <1>7, <2>1, <2>2, s \in Sessions
<1>16. /\ seqRead'[s] = <<>> /\ seqRead' \in [Sessions -> Counted]
       /\ \A t \in Sessions \ {s} : seqRead'[t] = seqRead[t]
  BY ONLY <1>6, <1>7, s \in Sessions DEF Counted
<1>17. RtspType'
  <2>1. number + 1 \in Nat
    BY ONLY <1>8
  <2> QED
    BY ONLY <1>1, <1>6, <1>14, <1>15, <1>16, <2>1 DEF RtspType
<1>18. Rtp!Packets(s)' = Append(given, p)
  <2>1. Rtp!Having("unit", wire[s]) \o Append(sending[s], p)
          = Append(Rtp!Having("unit", wire[s]) \o sending[s], p)
    BY ONLY <1>7, <1>11, <1>13, ConcatAppendsToSecond
  <2> QED
    BY ONLY <1>6, <1>9, <1>14, <2>1 DEF Rtp!Packets
<1>19. /\ Append(given, p) \in Seq(RtpPacket)
       /\ Followed(Append(given, p))
       /\ Latest(Append(given, p)) = [unit |-> p.unit, to |-> p.to]
  <2>1. Followed(given)
    BY ONLY <1>9, <1>11 DEF Streamed
  <2> QED
    BY ONLY <1>10, <1>13, <2>1, FollowedMore
<1>20. Streamed(s)'
  <2>1. Stands(flvReader'[s], unit'[s], unitSent'[s], Latest(Append(given, p)))
    <3>1. flvReader'[s] = "reading" /\ unit'[s] = u /\ u > 0 /\ unitSent'[s] = p.to
      BY ONLY <1>2, <1>6, <1>15
    <3> QED
      BY ONLY <1>13, <1>19, <3>1 DEF Stands
  <2> QED
    BY ONLY <1>6, <1>11, <1>18, <1>19, <2>1 DEF Streamed
<1>21. Replied(asked[s], parsed[s], Rtp!Replies(s))'
  <2>1. Rtp!Replies(s)' = Rtp!Replies(s)
    BY ONLY <1>6 DEF Rtp!Replies
  <2> QED
    BY ONLY <1>1, <1>6, <2>1, s \in Sessions
<1>22. Len(Append(given, p)) = Len(given) + 1
       /\ Append(given, p)[Len(given) + 1] = p
       /\ \A i \in 1 .. Len(given) : Append(given, p)[i] = given[i]
  BY ONLY <1>10, <1>13, AppendProperties
<1>23. \A t \in Sessions \ {s} : Rtp!Packets(t)' = Rtp!Packets(t)
  BY ONLY <1>6, <1>14 DEF Rtp!Packets
<1>24. ASSUME NEW t \in Sessions, Alone(t)'
       PROVE  Numbered(t)'
  <2>1. t = s
    <3>1. t # s => Rtp!Packets(s)' = <<>>
      BY ONLY <1>24, s \in Sessions DEF Alone
    <3>2. Append(given, p) # <<>>
      BY ONLY <1>10, <1>22, EmptySeq
    <3> QED
      BY ONLY <1>18, <3>1, <3>2
  <2>2. Alone(s)
    BY ONLY <1>16, <1>23, <1>24, <2>1 DEF Alone
  <2>3. /\ seq = Len(given) /\ seqRead[s] = <<seq>>
        /\ \A i \in 1 .. Len(given) : given[i].seq = (i - 1) % SeqNos
    BY ONLY <1>1, <1>6, <1>9, <2>2, s \in Sessions DEF Numbered
  <2>4. number = Len(given) /\ seq' = Len(given) + 1
    <3>1. number = seq
      BY ONLY <1>4, <2>3
    <3> QED
      BY ONLY <1>6, <2>3, <3>1
  <2>5. ASSUME NEW i \in 1 .. Len(given) + 1
        PROVE  Append(given, p)[i].seq = (i - 1) % SeqNos
    <3>1. CASE i = Len(given) + 1
      <4>1. i - 1 = number
        BY ONLY <1>10, <2>4, <3>1
      <4> QED
        BY ONLY <1>13, <1>22, <3>1, <4>1
    <3>2. CASE i # Len(given) + 1
      <4>1. i \in 1 .. Len(given)
        BY ONLY <1>10, <3>2, i \in 1 .. Len(given) + 1
      <4> QED
        BY ONLY <1>22, <2>3, <4>1
    <3> QED
      BY ONLY <3>1, <3>2
  <2> QED
    BY ONLY <1>16, <1>18, <1>22, <2>1, <2>4, <2>5 DEF Numbered
<1>25. ASSUME NEW t \in Sessions
       PROVE  /\ Replied(asked[t], parsed[t], Rtp!Replies(t))'
              /\ Streamed(t)'
              /\ (Alone(t) => Numbered(t))'
  <2>1. t # s => Stays(t)
    BY ONLY <1>6, <1>14, <1>15, t \in Sessions DEF Stays
  <2> QED
    BY ONLY <1>1, <1>20, <1>21, <1>24, <2>1, SessionStays, t \in Sessions
<1> QED
  BY ONLY <1>17, <1>25 DEF SessionsInv

LEMMA SendKeeps ==
  ASSUME SessionsInv, NEW s \in Sessions, Rtp!Send(s)
  PROVE  SessionsInv'
<1>1. /\ RtspType
      /\ \A t \in Sessions : /\ Replied(asked[t], parsed[t], Rtp!Replies(t))
                             /\ Streamed(t)
                             /\ Alone(t) => Numbered(t)
  BY DEF SessionsInv
<1>2. PICK p : p = Head(sending[s])
  OBVIOUS
<1>3. PICK rest : rest = Tail(sending[s])
  OBVIOUS
<1>4. /\ sending[s] # <<>>
      /\ wire' = [wire EXCEPT ![s] = Append(@, p)]
      /\ sending' = [sending EXCEPT ![s] = rest]
      /\ asked' = asked /\ parsed' = parsed /\ flvReader' = flvReader /\ unit' = unit
      /\ unitSent' = unitSent /\ seqRead' = seqRead /\ seq' = seq
  BY <1>2, <1>3 DEF Rtp!Send, Rtp!sessionVars, Rtp!sendVars
<1>5. /\ sending \in [Sessions -> Seq(RtpPacket)] /\ wire \in [Sessions -> Seq(Sent)]
      /\ sending[s] \in Seq(RtpPacket) /\ wire[s] \in Seq(Sent)
  BY ONLY <1>1, s \in Sessions DEF RtspType
<1>6. p \in RtpPacket /\ rest \in Seq(RtpPacket) /\ sending[s] = <<p>> \o rest
  <2>1. p \in RtpPacket /\ rest \in Seq(RtpPacket)
    BY ONLY <1>2, <1>3, <1>4, <1>5, HeadTailProperties
  <2>2. sending[s] = <<p>> \o rest
    BY ONLY <1>2, <1>3, <1>4, <1>5, HeadTailJoin
  <2> QED
    BY ONLY <2>1, <2>2
<1>7. /\ sending'[s] = rest /\ sending' \in [Sessions -> Seq(RtpPacket)]
      /\ \A t \in Sessions \ {s} : sending'[t] = sending[t]
  BY ONLY <1>4, <1>5, <1>6, s \in Sessions
<1>8. /\ wire'[s] = Append(wire[s], p) /\ wire' \in [Sessions -> Seq(Sent)]
      /\ \A t \in Sessions \ {s} : wire'[t] = wire[t]
  <2>1. Append(wire[s], p) \in Seq(Sent)
    BY ONLY <1>5, <1>6, AppendProperties DEF Sent
  <2> QED
    BY ONLY <1>4, <1>5, <2>1, s \in Sessions
<1>9. RtspType'
  BY ONLY <1>1, <1>4, <1>7, <1>8 DEF RtspType
<1>10. PICK before : before = Rtp!Having("unit", wire[s])
  OBVIOUS
<1>11. before \in Seq(RtpPacket) /\ Rtp!Replies(s) \in Seq(Reply)
  BY ONLY <1>1, <1>10, s \in Sessions DEF Streamed, Replied
<1>12. /\ Rtp!Having("reply", wire'[s]) = Rtp!Having("reply", wire[s]) \o <<>>
       /\ Rtp!Having("unit", wire'[s]) = before \o <<p>>
  <2>1. Named("reply", p) = <<>> /\ Named("unit", p) = <<p>> /\ p \in Sent
    BY ONLY <1>6, NamesTell DEF Named, Sent
  <2> QED
    BY ONLY <1>5, <1>8, <1>10, <2>1, HavingMore
<1>13. Rtp!Replies(s)' = Rtp!Replies(s)
  BY ONLY <1>11, <1>12, ConcatEmptySeq DEF Rtp!Replies
<1>14. <<p>> \in Seq(RtpPacket)
  BY ONLY <1>6
<1>15. Rtp!Packets(s)' = Rtp!Packets(s)
  <2>1. (before \o <<p>>) \o rest = before \o (<<p>> \o rest)
    BY ONLY <1>6, <1>11, <1>14, ConcatAssociative
  <2> QED
    BY ONLY <1>6, <1>7, <1>10, <1>12, <2>1 DEF Rtp!Packets
<1>16. Rtp!Having("unit", wire'[s]) \in Seq(RtpPacket)
  BY ONLY <1>11, <1>12, <1>14, ConcatProperties
<1>17. \A t \in Sessions : Rtp!Packets(t)' = Rtp!Packets(t)
  <2>1. \A t \in Sessions \ {s} : Rtp!Packets(t)' = Rtp!Packets(t)
    BY ONLY <1>7, <1>8 DEF Rtp!Packets
  <2> QED
    BY ONLY <1>15, <2>1
<1>18. Streamed(s)'
  <2>1. Streamed(s)
    BY ONLY <1>1, s \in Sessions
  <2> QED
    BY ONLY <1>4, <1>15, <1>16, <2>1 DEF Streamed
<1>19. Replied(asked[s], parsed[s], Rtp!Replies(s))'
  BY ONLY <1>1, <1>4, <1>13, s \in Sessions
<1>20. ASSUME NEW t \in Sessions
       PROVE  /\ Replied(asked[t], parsed[t], Rtp!Replies(t))'
              /\ Streamed(t)'
              /\ (Alone(t) => Numbered(t))'
  <2>1. (Alone(t) => Numbered(t))'
    BY ONLY <1>1, <1>4, <1>17, NumbersStay, t \in Sessions
  <2>2. t # s => Stays(t)
    BY ONLY <1>4, <1>7, <1>8, t \in Sessions DEF Stays
  <2> QED
    BY ONLY <1>1, <1>18, <1>19, <2>1, <2>2, SessionStays, t \in Sessions
<1> QED
  BY ONLY <1>9, <1>20 DEF SessionsInv

LEMMA RtspKept ==
  ASSUME RtspInv, UNCHANGED Rtp!vars
  PROVE  RtspInv'
<1>1. /\ asked' = asked /\ parsed' = parsed /\ flvReader' = flvReader /\ unit' = unit
      /\ unitSent' = unitSent /\ seqRead' = seqRead /\ seq' = seq /\ sending' = sending
      /\ wire' = wire /\ undefined' = undefined
  BY DEF Rtp!vars, Rtp!sessionVars, Rtp!sendVars
<1> QED
  BY <1>1 DEF RtspInv, SessionsInv, RtspType, Replied, Streamed, Alone, Numbered, Rtp!Packets,
              Rtp!Replies

LEMMA RtspStep == RtspInv /\ [Rtp!Next]_(Rtp!vars) => RtspInv'
<1> SUFFICES ASSUME RtspInv, [Rtp!Next]_(Rtp!vars)
             PROVE  RtspInv'
  OBVIOUS
<1>1. CASE UNCHANGED Rtp!vars
  BY ONLY <1>1, RtspInv, RtspKept
<1>2. CASE Rtp!Next
  <2>1. SUFFICES ASSUME ~undefined'
                 PROVE  SessionsInv'
    BY DEF RtspInv
  <2>2. SessionsInv
    BY <1>2 DEF Rtp!Next, RtspInv
  <2>3. PICK s \in Sessions :
          \/ \E batch \in Rtp!Batches : Rtp!OnRead(s, batch)
          \/ Rtp!NextUnit(s) \/ Rtp!ReadSeq(s) \/ Rtp!SendPacket(s) \/ Rtp!Send(s)
    BY <1>2 DEF Rtp!Next
  <2>4. CASE \E batch \in Rtp!Batches : Rtp!OnRead(s, batch)
    BY ONLY <2>1, <2>2, <2>4, OnReadKeeps, s \in Sessions
  <2>5. CASE Rtp!NextUnit(s)
    BY ONLY <2>2, <2>5, NextUnitKeeps, s \in Sessions
  <2>6. CASE Rtp!ReadSeq(s)
    BY ONLY <2>2, <2>6, ReadSeqKeeps, s \in Sessions
  <2>7. CASE Rtp!SendPacket(s)
    BY ONLY <2>2, <2>7, SendPacketKeeps, s \in Sessions
  <2>8. CASE Rtp!Send(s)
    BY ONLY <2>2, <2>8, SendKeeps, s \in Sessions
  <2> QED
    BY ONLY <2>3, <2>4, <2>5, <2>6, <2>7, <2>8
<1> QED
  BY ONLY <1>1, <1>2, [Rtp!Next]_(Rtp!vars)

\* Whatever clients ask for and in whichever order the threads of the pool run: each reads
\* the replies to the requests parsed so far, once and in order, and among them packets
\* from which the units of the file come whole and in order, whose numbers have no gap
\* while no other session plays, and which RFC 6184 allows but for those of units of
\* MaxPayload or MaxPayload + 1 bytes, each one fragment with both bits.
THEOREM WireStaysRepliesAndUnits == Rtp!Spec => []WireIsRepliesAndUnits
BY RtspStarts, RtspStep, RtspSays, PTL DEF Rtp!Spec
=============================================================================
