----------------------------- MODULE RtmpSource -----------------------------
(***************************************************************************)
(* base::RtmpSource with its GopCache: a live stream between the session   *)
(* that publishes it and the sessions that play it, each on the thread of  *)
(* its own loop. PushPacket copies the list of callbacks under its mutex,  *)
(* caches the packet and calls the callbacks, the last two without a lock; *)
(* StartRead sends the configuration and the cache, then registers under   *)
(* the mutex. A packet is its number in the stream; a callback sends it on *)
(* the player's connection.                                                *)
(***************************************************************************)
EXTENDS Integers, Sequences, FiniteSets, FiniteSetsExt

CONSTANTS
  Players,       \* sessions that play the stream
  Garbage,       \* values cacheVideoCount, never initialised, may start with
  MaxPackets,    \* bound: packets published
  MaxConfigs     \* bound: configurations published

ASSUME SourceAssumption ==
  /\ Garbage \subseteq Int
  /\ MaxPackets \in Nat
  /\ MaxConfigs \in Nat

VARIABLES
  videoConfig,       \* number of the latest configuration, 0 for none
  packetQueue,       \* GopCache: packets since the last key frame
  cacheVideoCount,
  callbackQueue,     \* players registered
  pubPc,             \* place of the publisher's thread in PushPacket
  copy,              \* local of PushPacket: callbacks still to be called
  pushed,            \* packets published so far: the latest is number `pushed`
  keys,              \* those of them that are key frames
  playerPc,          \* place of each player's thread in StartRead
  gop,               \* per player: what GetGopCache iterates over
  delivered,         \* per player: packets its session has been given
  joined,            \* per player: how many of them came from the cache
  raced,             \* per player: the cache changed under GetGopCache
  initCount          \* what cacheVideoCount started with

cacheVars == <<packetQueue, cacheVideoCount>>
pubVars == <<pubPc, copy, pushed, keys>>
playerVars == <<playerPc, gop, joined>>
vars == <<videoConfig, cacheVars, callbackQueue, pubVars, playerVars, delivered,
          raced, initCount>>

Init ==
  /\ videoConfig = 0
  /\ packetQueue = <<>>
  /\ cacheVideoCount \in Garbage
  /\ initCount = cacheVideoCount
  /\ callbackQueue = <<>>
  /\ pubPc = "Idle"
  /\ copy = <<>>
  /\ pushed = 0
  /\ keys = {}
  /\ playerPc = [p \in Players |-> "Idle"]
  /\ gop = [p \in Players |-> <<>>]
  /\ delivered = [p \in Players |-> <<>>]
  /\ joined = [p \in Players |-> 0]
  /\ raced = [p \in Players |-> FALSE]

-----------------------------------------------------------------------------
(* The publisher *)

\* PushPacketConfig replaces the configuration; players are not told.
PushPacketConfig ==
  /\ pubPc = "Idle"
  /\ videoConfig < MaxConfigs
  /\ videoConfig' = videoConfig + 1
  /\ UNCHANGED <<cacheVars, callbackQueue, pubVars, playerVars, delivered, raced,
                 initCount>>

\* PushPacket: the callbacks are copied under callbackMutex.
PushPacket(isKey) ==
  /\ pubPc = "Idle"
  /\ pushed < MaxPackets
  /\ pushed' = pushed + 1
  /\ keys' = IF isKey THEN keys \union {pushed + 1} ELSE keys
  /\ copy' = callbackQueue
  /\ pubPc' = "Cache"
  /\ UNCHANGED <<videoConfig, cacheVars, callbackQueue, playerVars, delivered,
                 raced, initCount>>

\* Mutant of Restarted: the old group of pictures is kept.
RestartedKept == packetQueue

\* GopCache::clear.
Restarted == <<>>

\* GopCache::Cache, of a video packet. No lock is held: a player inside GetGopCache
\* iterates over the vector being changed.
Cache ==
  /\ pubPc = "Cache"
  /\ IF cacheVideoCount + 1 = 0
     THEN /\ cacheVideoCount' = 0
          /\ UNCHANGED <<packetQueue, raced>>
     ELSE /\ cacheVideoCount' = IF pushed \in keys THEN 1 ELSE cacheVideoCount + 1
          /\ packetQueue' = Append(IF pushed \in keys THEN Restarted ELSE packetQueue,
                                   pushed)
          /\ raced' = [p \in Players |-> raced[p] \/ playerPc[p] = "Gop"]
  /\ pubPc' = IF copy = <<>> THEN "Idle" ELSE "Deliver"
  /\ UNCHANGED <<videoConfig, callbackQueue, copy, pushed, keys, playerVars,
                 delivered, initCount>>

\* Mutant of Rest: the list itself is walked, not the copy.
RestNow ==
  LET at == CHOOSE i \in 1 .. Len(callbackQueue) : callbackQueue[i] = Head(copy)
  IN  SubSeq(callbackQueue, at + 1, Len(callbackQueue))

Rest == Tail(copy)

\* One callback of the copy. It holds its session weakly, but the session lives as
\* long as its connection, whose read callback owns it.
Deliver ==
  /\ pubPc = "Deliver"
  /\ delivered' = [delivered EXCEPT ![Head(copy)] = Append(@, pushed)]
  /\ copy' = Rest
  /\ pubPc' = IF copy' = <<>> THEN "Idle" ELSE "Deliver"
  /\ UNCHANGED <<videoConfig, cacheVars, callbackQueue, pushed, keys, playerVars,
                 raced, initCount>>

-----------------------------------------------------------------------------
(* The players *)

\* A player is one StartRead: a session whose client plays again is a player more, and
\* its connection is given what both are. (Sessions that play again are in RtmpSession.)
\* StartRead without a configuration returns false, which no caller looks at: the
\* player has been told that the stream starts and is not registered. With one, it
\* is sent, and GetGopCache starts.
StartRead(p) ==
  /\ playerPc[p] = "Idle"
  /\ IF videoConfig = 0
     THEN /\ playerPc' = [playerPc EXCEPT ![p] = "Refused"]
          /\ UNCHANGED gop
     ELSE /\ playerPc' = [playerPc EXCEPT ![p] = "Gop"]
          /\ gop' = [gop EXCEPT ![p] = packetQueue]
  /\ UNCHANGED <<videoConfig, cacheVars, callbackQueue, pubVars, delivered, joined,
                 raced, initCount>>

\* GetGopCache ends. If the vector changed meanwhile its behaviour is undefined;
\* what the player got then is judged by no property.
GetGopCache(p) ==
  /\ playerPc[p] = "Gop"
  /\ playerPc' = [playerPc EXCEPT ![p] = "Register"]
  /\ delivered' = [delivered EXCEPT ![p] = gop[p]]
  /\ joined' = [joined EXCEPT ![p] = Len(gop[p])]
  /\ gop' = [gop EXCEPT ![p] = <<>>]
  /\ UNCHANGED <<videoConfig, cacheVars, callbackQueue, pubVars, raced,
                 initCount>>

\* Mutant of Registered: the list is replaced, not extended.
RegisteredAlone(p) == <<p>>

Registered(p) == Append(callbackQueue, p)

\* StartRead registers, under callbackMutex. Nothing unregisters a callback.
Register(p) ==
  /\ playerPc[p] = "Register"
  /\ playerPc' = [playerPc EXCEPT ![p] = "Live"]
  /\ callbackQueue' = Registered(p)
  /\ UNCHANGED <<videoConfig, cacheVars, pubVars, gop, joined, delivered, raced,
                 initCount>>

Next ==
  \/ PushPacketConfig
  \/ \E isKey \in BOOLEAN : PushPacket(isKey)
  \/ Cache
  \/ Deliver
  \/ \E p \in Players : StartRead(p) \/ GetGopCache(p) \/ Register(p)

Spec == Init /\ [][Next]_vars

-----------------------------------------------------------------------------
(* Properties *)

Increasing(s) == \A i \in 1 .. Len(s) - 1 : s[i] < s[i + 1]

\* No player gets a packet twice or a packet from the past, although the cache and
\* the live stream are joined without a lock: PushPacket looks at the list before
\* it caches, StartRead at the cache before it registers.
NoRepeat == \A p \in Players : ~raced[p] => Increasing(delivered[p])

Awaits(p) == \E i \in 1 .. Len(copy) : copy[i] = p

\* Packets can be missed only between the cache and the first live packet. From
\* there a player has every packet, up to the latest one not still on its way.
LiveIsComplete ==
  \A p \in Players :
    LET d == delivered[p]
        live == SubSeq(d, joined[p] + 1, Len(d))
        last == IF pubPc = "Idle" \/ (pubPc = "Deliver" /\ ~Awaits(p)) THEN pushed
                ELSE pushed - 1
    IN  live # <<>> =>
          live = [i \in 1 .. Len(live) |-> last - Len(live) + i]

\* The number of the latest packet that Cache has seen, and the key frames of those.
Cached == IF pubPc = "Cache" THEN pushed - 1 ELSE pushed
CachedKeys == keys \intersect 1 .. Cached

\* Once there has been a key frame, the cache starts at the latest one and has all
\* packets since: a player that joins can decode what the cache gives it. It needs
\* cacheVideoCount to have started at no less than 0, which nothing ensures.
GopFromLastKey ==
  initCount >= 0 /\ CachedKeys # {} =>
    LET first == Max(CachedKeys)
    IN  packetQueue = [i \in 1 .. Cached - first + 1 |-> first + i - 1]
=============================================================================
