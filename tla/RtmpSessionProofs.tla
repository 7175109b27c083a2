------------------------- MODULE RtmpSessionProofs -------------------------
(***************************************************************************)
(* Proofs about the two ends of the chunk codec. Of RtmpSession, for any   *)
(* number of sessions, names and messages and any chunk size: who is sent  *)
(* packets has been introduced to the stream, what has been started can be *)
(* played, and what a peer reads is the messages it was sent. Of           *)
(* RtmpDecoder, for any channels, messages and chunk sizes and however the *)
(* bytes arrive: the messages it hands out.                                *)
(***************************************************************************)
EXTENDS MCRtmp, SeqFacts

Kinds ==
  {"WinAckSize", "PeerWidth", "ConnectStatus", "CreateStream", "Result", "PubOnStatus",
   "StreamBegin0", "StatusReset", "StatusStart", "SampleAccess", "config", "video"}
Message == [name : Kinds, channel : 2 .. 63, n : Nat, size : Nat \ {0}]
Packet == [n : Nat, config : BOOLEAN, key : BOOLEAN, size : Nat \ {0}]
Configs == {p \in Packet : p.config}
Pictures == {p \in Packet : ~p.config}

\* What another thread can have posted: live packets only.
VideoMessages == {m \in Message : m.name = "video"}
Posts == {Buffers(m)[1] : m \in VideoMessages}

\* The part of the state that what a peer is sent depends on.
SessionType ==
  /\ app \in [Sessions -> Names]
  /\ publisherSrc \in [Sessions -> Names \union {"null"}]
  /\ pc \in [Sessions -> {"idle", "register", "cache", "deliver"}]
  /\ at \in [Sessions -> Names]
  /\ rest \in [Sessions -> Seq(Sessions)]
  /\ packet \in [Sessions -> Pictures \union {<<>>}]
  /\ videoConfig \in [Names -> Seq(Configs)]
  /\ gop \in [Names -> Seq(Pictures)]
  /\ players \in [Names -> Seq(Sessions)]
  /\ posted \in [Sessions -> Seq(Posts)]
  /\ sent \in [Sessions -> Seq(Message)]
  /\ count \in [commands : Nat, packets : Nat]

\* A thread that caches or delivers has a packet, and one that delivers a player.
PacketInv ==
  /\ \A s \in Sessions : pc[s] \in {"cache", "deliver"} => packet[s] \in Pictures
  /\ \A s \in Sessions : pc[s] = "deliver" => rest[s] # <<>>

\* Each message called a comes after one called b.
After(q, a, b) ==
  \A i \in 1 .. Len(q) : q[i].name = a => \E j \in 1 .. Len(q) : j < i /\ q[j].name = b

\* PlayIsIntroduced, of the messages to one peer.
Ordered(q) == After(q, "config", "StatusStart") /\ After(q, "video", "config")

\* The peer has been told the configuration.
Told(q) == \E i \in 1 .. Len(q) : q[i].name = "config"

\* A packet may come to the peer: it is in a list of players, in a copy of one, about to
\* enter one, or the packet is on its way.
Joined(s) ==
  \/ pc[s] = "register"
  \/ posted[s] # <<>>
  \/ \E name \in Names : Holds(players[name], s)
  \/ \E t \in Sessions : Holds(rest[t], s)

SentInv == \A s \in Sessions : Ordered(sent[s])
JoinedInv == \A s \in Sessions : Joined(s) => Told(sent[s])

SessionInv == SessionType /\ PacketInv /\ SentInv /\ JoinedInv

-----------------------------------------------------------------------------
(* Messages *)

Plain(q) == \A i \in 1 .. Len(q) : q[i].name # "config" /\ q[i].name # "video"
AllVideo(q) == \A i \in 1 .. Len(q) : q[i].name = "video"

\* Two sequences one behind the other, place by place.
Joins(q, r, w) ==
  /\ w \in Seq(Message)
  /\ Len(q) \in Nat /\ Len(r) \in Nat /\ Len(w) = Len(q) + Len(r)
  /\ \A i \in 1 .. Len(q) : i \in 1 .. Len(w) /\ w[i] = q[i]
  /\ \A i \in 1 .. Len(r) : Len(q) + i \in 1 .. Len(w) /\ w[Len(q) + i] = r[i]
  /\ \A i \in 1 .. Len(w) : i \in 1 .. Len(q) \/ i - Len(q) \in 1 .. Len(r)

LEMMA ConcatJoins ==
  ASSUME NEW q \in Seq(Message), NEW r \in Seq(Message)
  PROVE  Joins(q, r, q \o r)
<1>1. Len(q) \in Nat /\ Len(r) \in Nat
  BY LenProperties
<1> DEFINE w == q \o r
<1>2. /\ w \in Seq(Message) /\ Len(w) = Len(q) + Len(r)
      /\ \A i \in 1 .. Len(q) + Len(r) : w[i] = IF i <= Len(q) THEN q[i] ELSE r[i - Len(q)]
  BY ConcatProperties
<1> HIDE DEF w
<1>3. \A i \in 1 .. Len(q) : i \in 1 .. Len(w) /\ w[i] = q[i]
  BY <1>1, <1>2
<1>4. ASSUME NEW i \in 1 .. Len(r)
      PROVE  Len(q) + i \in 1 .. Len(w) /\ w[Len(q) + i] = r[i]
  <2>1. /\ Len(q) + i \in 1 .. Len(q) + Len(r)
        /\ ~(Len(q) + i <= Len(q)) /\ Len(q) + i - Len(q) = i
    BY <1>1
  <2> QED
    BY <1>2, <2>1
<1>5. \A i \in 1 .. Len(w) : i \in 1 .. Len(q) \/ i - Len(q) \in 1 .. Len(r)
  BY <1>1, <1>2
<1> QED
  BY <1>1, <1>2, <1>3, <1>4, <1>5 DEF Joins, w

\* What has been in order stays in order, whatever ordered messages follow.
LEMMA AfterThenAfter ==
  ASSUME NEW q, NEW r, NEW w, NEW a, NEW b, Joins(q, r, w), After(q, a, b), After(r, a, b)
  PROVE  After(w, a, b)
<1> SUFFICES ASSUME NEW i \in 1 .. Len(w), w[i].name = a
             PROVE  \E j \in 1 .. Len(w) : j < i /\ w[j].name = b
  BY DEF After
<1>1. CASE i \in 1 .. Len(q)
  <2>1. PICK j \in 1 .. Len(q) : j < i /\ q[j].name = b
    BY <1>1 DEF Joins, After
  <2> QED
    BY <2>1 DEF Joins
<1>2. CASE i - Len(q) \in 1 .. Len(r)
  <2>1. PICK k \in 1 .. Len(r) : k = i - Len(q)
    BY <1>2
  <2>2. i = Len(q) + k /\ r[k].name = a
    BY <2>1 DEF Joins
  <2>3. PICK j \in 1 .. Len(r) : j < k /\ r[j].name = b
    BY <2>2 DEF After
  <2>4. Len(q) + j < i /\ Len(q) + j \in 1 .. Len(w) /\ w[Len(q) + j] = r[j]
    BY <2>2, <2>3 DEF Joins
  <2> QED
    BY <2>3, <2>4
<1> QED
  BY <1>1, <1>2 DEF Joins

LEMMA OrderedThenOrdered ==
  ASSUME NEW q, NEW r, NEW w, Joins(q, r, w), Ordered(q), Ordered(r)
  PROVE  Ordered(w)
BY AfterThenAfter DEF Ordered

\* So it does when packets follow and the peer knows the configuration.
LEMMA OrderedThenVideo ==
  ASSUME NEW q, NEW r, NEW w, Joins(q, r, w), Ordered(q), Told(q), AllVideo(r)
  PROVE  Ordered(w)
<1>1. After(r, "config", "StatusStart")
  BY DEF After, AllVideo
<1>2. ASSUME NEW i \in 1 .. Len(w), w[i].name = "video"
      PROVE  \E j \in 1 .. Len(w) : j < i /\ w[j].name = "config"
  <2>1. CASE i \in 1 .. Len(q)
    <3>1. After(q, "video", "config") /\ q[i].name = "video"
      BY <1>2, <2>1 DEF Joins, Ordered
    <3>2. PICK j \in 1 .. Len(q) : j < i /\ q[j].name = "config"
      BY <2>1, <3>1 DEF After
    <3> QED
      BY <3>2 DEF Joins
  <2>2. CASE i - Len(q) \in 1 .. Len(r)
    <3>1. PICK j \in 1 .. Len(q) : q[j].name = "config"
      BY DEF Told
    <3> QED
      BY <2>2, <3>1 DEF Joins
  <2> QED
    BY <2>1, <2>2 DEF Joins
<1>3. After(w, "video", "config")
  BY <1>2 DEF After
<1> QED
  BY <1>1, <1>3, AfterThenAfter DEF Ordered

\* A peer that has been told has been told.
LEMMA ToldStays ==
  ASSUME NEW q, NEW r, NEW w, Joins(q, r, w), Told(q) \/ Told(r)
  PROVE  Told(w)
BY DEF Told, Joins

-----------------------------------------------------------------------------
(* What the operators send *)

LEMMA SizesAreNumbers ==
  /\ ChunkSize \in Nat \ {0} /\ ChunkSize + 1 \in Nat \ {0} /\ VideoChannel \in 2 .. 63
  /\ VideoSizes \subseteq Nat \ {0}
BY SessionAssumption

\* The replies name neither a configuration nor a packet.
LEMMA RepliesArePlain ==
  /\ ConnectReplies \in Seq(Message) /\ Plain(ConnectReplies)
  /\ CreateStreamReplies \in Seq(Message) /\ Plain(CreateStreamReplies)
  /\ ResultReplies \in Seq(Message) /\ Plain(ResultReplies)
  /\ PublishReplies \in Seq(Message) /\ Plain(PublishReplies)
  /\ PlayReplies \in Seq(Message) /\ Plain(PlayReplies)
  /\ Len(PlayReplies) = 4 /\ PlayReplies[3].name = "StatusStart"
<1>1. ASSUME NEW name \in Kinds, NEW channel \in 2 .. 63, NEW long \in BOOLEAN
      PROVE  Reply(name, channel, long) \in Message /\ Reply(name, channel, long).name = name
  BY SizesAreNumbers DEF Reply, Message
<1> DEFINE PlainMessage(m) == m \in Message /\ m.name # "config" /\ m.name # "video"
<1>2. ASSUME NEW a, PlainMessage(a)
      PROVE  <<a>> \in Seq(Message) /\ Plain(<<a>>)
  BY <1>2 DEF Plain
<1>3. ASSUME NEW a, NEW b, NEW c, PlainMessage(a), PlainMessage(b), PlainMessage(c)
      PROVE  <<a, b, c>> \in Seq(Message) /\ Plain(<<a, b, c>>)
  <2>1. DOMAIN <<a, b, c>> = 1 .. 3 /\ Len(<<a, b, c>>) = 3
    OBVIOUS
  <2> QED
    BY <1>3, <2>1 DEF Plain
<1>4. ASSUME NEW a, NEW b, NEW c, NEW d,
             PlainMessage(a), PlainMessage(b), PlainMessage(c), PlainMessage(d)
      PROVE  <<a, b, c, d>> \in Seq(Message) /\ Plain(<<a, b, c, d>>)
  <2>1. DOMAIN <<a, b, c, d>> = 1 .. 4 /\ Len(<<a, b, c, d>>) = 4
    OBVIOUS
  <2> QED
    BY <1>4, <2>1 DEF Plain
<1>p. ASSUME NEW name \in Kinds \ {"config", "video"}, NEW channel \in 2 .. 63,
             NEW long \in BOOLEAN
      PROVE  PlainMessage(Reply(name, channel, long))
  BY <1>1
<1> HIDE DEF PlainMessage
<1>k. /\ {"WinAckSize", "PeerWidth", "ConnectStatus", "CreateStream", "Result",
          "PubOnStatus", "StreamBegin0", "StatusReset", "StatusStart", "SampleAccess"}
           \subseteq Kinds \ {"config", "video"}
      /\ 2 \in 2 .. 63 /\ 3 \in 2 .. 63 /\ 4 \in 2 .. 63
  BY DEF Kinds
<1>5. /\ PlainMessage(Reply("WinAckSize", 2, FALSE))
      /\ PlainMessage(Reply("PeerWidth", 2, FALSE))
      /\ PlainMessage(Reply("ConnectStatus", 3, TRUE))
  BY ONLY <1>p, <1>k
<1>a. /\ PlainMessage(Reply("CreateStream", 3, FALSE))
      /\ PlainMessage(Reply("Result", 3, FALSE))
      /\ PlainMessage(Reply("PubOnStatus", 4, TRUE))
  BY ONLY <1>p, <1>k
<1>b. /\ PlainMessage(Reply("StreamBegin0", 2, FALSE))
      /\ PlainMessage(Reply("StatusReset", 4, TRUE))
      /\ PlainMessage(StatusStart)
      /\ PlainMessage(Reply("SampleAccess", 2, FALSE))
  BY ONLY <1>p, <1>k DEF StatusStart
<1>c. StatusStart.name = "StatusStart"
  BY <1>1, <1>k DEF StatusStart
<1>6. ConnectReplies \in Seq(Message) /\ Plain(ConnectReplies)
  BY <1>3, <1>5 DEF ConnectReplies
<1>7. /\ CreateStreamReplies \in Seq(Message) /\ Plain(CreateStreamReplies)
      /\ ResultReplies \in Seq(Message) /\ Plain(ResultReplies)
  BY <1>2, <1>a DEF CreateStreamReplies, ResultReplies
<1>8. PublishReplies \in Seq(Message) /\ Plain(PublishReplies)
  BY <1>2, <1>a DEF PublishReplies
<1>9. PlayReplies \in Seq(Message) /\ Plain(PlayReplies)
  BY <1>4, <1>b DEF PlayReplies
<1>10. Len(PlayReplies) = 4 /\ PlayReplies[3].name = "StatusStart"
  BY <1>c DEF PlayReplies
<1> QED
  BY <1>6, <1>7, <1>8, <1>9, <1>10

LEMMA PlainIsOrdered ==
  ASSUME NEW q, Plain(q)
  PROVE  Ordered(q)
BY DEF Plain, Ordered, After

\* A video message of a packet.
LEMMA VideoFields ==
  ASSUME NEW p \in Packet
  PROVE  /\ Video(p) \in Message
         /\ Video(p).name = IF p.config THEN "config" ELSE "video"
<1>1. /\ p.n \in Nat /\ p.size \in Nat \ {0} /\ VideoChannel \in 2 .. 63
      /\ (IF p.config THEN "config" ELSE "video") \in Kinds
  BY SizesAreNumbers DEF Packet, Kinds
<1> QED
  BY <1>1 DEF Video, Message

\* What StartRead sends is nothing, or the configuration and then packets.
LEMMA MediaFields ==
  ASSUME SessionType, NEW name \in Names
  PROVE  /\ Media(name) \in Seq(Message)
         /\ Media(name) # <<>> => Media(name)[1].name = "config"
         /\ videoConfig[name] # <<>> => Media(name) # <<>>
<1> DEFINE c == videoConfig[name]
           pictures == IF c = <<>> THEN <<>> ELSE c \o gop[name]
           m == Media(name)
<1>1. c \in Seq(Configs) /\ gop[name] \in Seq(Pictures)
  BY DEF SessionType
<1>2. Configs \subseteq Packet /\ Pictures \subseteq Packet
  BY DEF Configs, Pictures
<1>3. c \in Seq(Packet) /\ gop[name] \in Seq(Packet)
  BY <1>1, <1>2, SeqMonotonic
<1>4. m = [i \in DOMAIN pictures |-> Video(pictures[i])]
  BY DEF Media
<1>5. CASE c = <<>>
  <2>1. m = <<>>
    BY <1>4, <1>5
  <2> QED
    BY <1>5, <2>1
<1>6. CASE c # <<>>
  <2>1. pictures = c \o gop[name]
    BY <1>6
  <2> HIDE DEF pictures, c
  <2>2. Len(c) \in Nat \ {0} /\ Len(gop[name]) \in Nat
    BY <1>3, <1>6, EmptySeq, LenProperties
  <2>3. /\ pictures \in Seq(Packet) /\ Len(pictures) = Len(c) + Len(gop[name])
        /\ \A i \in 1 .. Len(c) + Len(gop[name]) :
             pictures[i] = IF i <= Len(c) THEN c[i] ELSE gop[name][i - Len(c)]
    BY <1>3, <2>1, ConcatProperties
  <2>4. Len(pictures) \in Nat \ {0} /\ pictures[1] = c[1] /\ 1 \in 1 .. Len(pictures)
    BY <2>2, <2>3
  <2>5. /\ DOMAIN pictures = 1 .. Len(pictures)
        /\ \A i \in 1 .. Len(pictures) : pictures[i] \in Packet
    BY <2>3, LenProperties, ElementOfSeq
  <2>6. m = [i \in 1 .. Len(pictures) |-> Video(pictures[i])]
    BY <1>4, <2>5
  <2> HIDE DEF m
  <2>7. \A i \in 1 .. Len(pictures) : Video(pictures[i]) \in Message
    BY <2>5, VideoFields
  <2>8. m \in [1 .. Len(pictures) -> Message]
    BY <2>6, <2>7
  <2>9. m \in Seq(Message) /\ Len(m) = Len(pictures)
    BY <2>4, <2>8
  <2>10. c[1] \in Configs
    BY <1>1, <2>2, ElementOfSeq
  <2>11. m[1].name = "config"
    BY <2>4, <2>5, <2>6, <2>10, VideoFields DEF Configs
  <2> QED
    BY <2>4, <2>9, <2>11, EmptySeq DEF m
<1> QED
  BY <1>5, <1>6

\* An answer to play is in order, and tells the configuration if there is one.
LEMMA PlayIsOrdered ==
  ASSUME SessionType, NEW name \in Names
  PROVE  /\ PlayOrder(PlayReplies, Media(name)) \in Seq(Message)
         /\ Ordered(PlayOrder(PlayReplies, Media(name)))
         /\ videoConfig[name] # <<>> => Told(PlayOrder(PlayReplies, Media(name)))
<1>1. PICK q : q = PlayReplies
  OBVIOUS
<1>2. PICK m : m = Media(name)
  OBVIOUS
<1>3. PICK w : w = q \o m
  OBVIOUS
<1>4. /\ q \in Seq(Message) /\ Plain(q) /\ Len(q) = 4 /\ q[3].name = "StatusStart"
  BY <1>1, RepliesArePlain
<1>5. /\ m \in Seq(Message) /\ (m # <<>> => m[1].name = "config")
      /\ videoConfig[name] # <<>> => m # <<>>
  BY <1>2, MediaFields
<1>6. Joins(q, m, w)
  BY <1>3, <1>4, <1>5, ConcatJoins
<1>7. m # <<>> => 1 \in 1 .. Len(m)
  <2>1. m # <<>> => Len(m) \in Nat \ {0}
    BY <1>5, EmptySeq
  <2> QED
    BY <2>1
<1>8. \A i \in 1 .. Len(m) : m # <<>>
  BY EmptySeq
<1>9. 3 \in 1 .. Len(w) /\ w[3].name = "StatusStart"
  BY <1>4, <1>6 DEF Joins
<1>10. ASSUME m # <<>>
       PROVE  5 \in 1 .. Len(w) /\ w[5].name = "config"
  BY <1>4, <1>5, <1>6, <1>7, <1>10 DEF Joins
<1>11. ASSUME NEW i \in 1 .. Len(w), w[i].name \in {"config", "video"}
       PROVE  i > 4 /\ m # <<>> /\ (w[i].name = "video" => i # 5)
  <2>1. i \notin 1 .. Len(q)
    BY <1>4, <1>6, <1>11 DEF Joins, Plain
  <2>2. i - 4 \in 1 .. Len(m)
    BY <1>4, <1>6, <2>1 DEF Joins
  <2> QED
    BY <1>8, <1>10, <2>2
<1>12. After(w, "config", "StatusStart")
  BY <1>9, <1>11 DEF After
<1>13. After(w, "video", "config")
  BY <1>10, <1>11 DEF After
<1>14. w = PlayOrder(PlayReplies, Media(name))
  BY <1>1, <1>2, <1>3 DEF PlayOrder
<1>15. w \in Seq(Message) /\ Ordered(w)
  BY <1>6, <1>12, <1>13 DEF Joins, Ordered
<1>16. videoConfig[name] # <<>> => Told(w)
  BY <1>5, <1>10 DEF Told
<1> QED
  BY <1>14, <1>15, <1>16

-----------------------------------------------------------------------------
(* The steps *)

\* The peer of p is sent m: nobody else hears anything, and who was told is told.
Hears(p, m) ==
  /\ sent' \in [Sessions -> Seq(Message)]
  /\ SentInv'
  /\ \A s \in Sessions : Told(sent[s]) => Told(sent'[s])
  /\ p \in open /\ Told(m) => Told(sent'[p])

LEMMA PutIsHeard ==
  ASSUME SessionType, SentInv, NEW p \in Sessions, NEW m \in Seq(Message), NEW chunks,
         Put(p, chunks, m), Ordered(m) \/ (Told(sent[p]) /\ AllVideo(m))
  PROVE  Hears(p, m)
<1>1. sent \in [Sessions -> Seq(Message)] /\ sent[p] \in Seq(Message) /\ Ordered(sent[p])
  BY DEF SessionType, SentInv
<1>2. CASE p \in open
  <2>1. PICK w : w = sent[p] \o m
    OBVIOUS
  <2>2. sent' = [sent EXCEPT ![p] = w]
    BY <1>2, <2>1 DEF Put
  <2>3. Joins(sent[p], m, w)
    BY <1>1, <2>1, ConcatJoins
  <2>4. w \in Seq(Message)
    BY <2>3 DEF Joins
  <2>5. Ordered(w)
    BY <1>1, <2>3, OrderedThenOrdered, OrderedThenVideo
  <2>6. Told(sent[p]) \/ Told(m) => Told(w)
    BY <2>3, ToldStays
  <2>7. /\ sent' \in [Sessions -> Seq(Message)] /\ sent'[p] = w
        /\ \A s \in Sessions : s # p => sent'[s] = sent[s]
    BY ONLY <1>1, <2>2, <2>4, p \in Sessions
  <2>8. SentInv'
    BY <2>5, <2>7 DEF SentInv
  <2> QED
    BY <2>6, <2>7, <2>8 DEF Hears
<1>3. CASE p \notin open
  <2>1. sent' = sent
    BY <1>3 DEF Put
  <2> QED
    BY <1>1, <1>3, <2>1 DEF Hears, SentInv
<1> QED
  BY <1>2, <1>3

\* Who has not joined before has been told by now.
LEMMA JoinedStep ==
  ASSUME JoinedInv, NEW p, NEW m, Hears(p, m),
         \A s \in Sessions : Joined(s)' => Joined(s) \/ Told(sent'[s])
  PROVE  JoinedInv'
BY DEF JoinedInv, Hears

LEMMA SessionInit == Init => SessionInv
<1> SUFFICES ASSUME Init PROVE SessionInv
  OBVIOUS
<1> USE DEF Init
<1>1. \A S : <<>> \in Seq(S) /\ Len(<<>>) = 0
  BY EmptySeq
<1>2. NoApp \in Names
  BY DEF Names
<1>3. SessionType
  BY <1>1, <1>2 DEF SessionType
<1>4. PacketInv
  BY DEF PacketInv
<1>5. SentInv
  BY <1>1 DEF SentInv, Ordered, After
<1>6. JoinedInv
  BY <1>1 DEF JoinedInv, Joined, Holds
<1> QED
  BY <1>3, <1>4, <1>5, <1>6 DEF SessionInv

\* A command that is answered, and neither plays nor publishes packets.
LEMMA AnswerStep ==
  ASSUME SessionInv, NEW s \in Sessions, NEW m \in Seq(Message), Plain(m), SendHere(s, m),
         UNCHANGED <<threadVars, videoConfig, gop, players>>,
         app' \in [Sessions -> Names],
         publisherSrc' \in [Sessions -> Names \union {"null"}],
         count' \in [commands : Nat, packets : Nat]
  PROVE  SessionInv'
<1>1. SessionType /\ PacketInv /\ SentInv /\ JoinedInv
  BY DEF SessionInv
<1>2. Hears(s, m) /\ UNCHANGED posted
  BY <1>1, PlainIsOrdered, PutIsHeard DEF SendHere
<1>3. SessionType'
  BY <1>1, <1>2 DEF SessionType, Hears, threadVars
<1>4. PacketInv'
  BY <1>1 DEF PacketInv, threadVars
<1>5. \A p \in Sessions : Joined(p)' => Joined(p)
  BY <1>2 DEF Joined, threadVars
<1>6. JoinedInv'
  BY <1>1, <1>2, <1>5, JoinedStep
<1> QED
  BY <1>2, <1>3, <1>4, <1>6 DEF SessionInv, Hears

LEMMA HandlesCounts ==
  ASSUME SessionType, NEW s \in Sessions, NEW n \in 0 .. 1, Handles(s, n)
  PROVE  /\ pc[s] = "idle" /\ s \in open
         /\ count' \in [commands : Nat, packets : Nat]
         /\ count.packets + 1 \in Nat
<1>1. count.commands \in Nat /\ count.packets \in Nat
  BY DEF SessionType
<1>2. count.commands + 1 \in Nat /\ count.packets + n \in Nat /\ count.packets + 1 \in Nat
  BY <1>1
<1>3. count' = [commands |-> count.commands + 1, packets |-> count.packets + n]
  BY DEF Handles
<1> QED
  BY <1>2, <1>3 DEF Handles

LEMMA ConnectStep ==
  ASSUME SessionInv, NEW s \in Sessions, NEW name \in Names, Connect(s, name)
  PROVE  SessionInv'
<1>1. Handles(s, 0) /\ SendHere(s, ConnectReplies)
  BY DEF Connect
<1>2. /\ app' = [app EXCEPT ![s] = name] /\ UNCHANGED publisherSrc
      /\ UNCHANGED <<threadVars, videoConfig, gop, players>>
  BY DEF Connect, sourceVars
<1>3. SessionType
  BY DEF SessionInv
<1>4. count' \in [commands : Nat, packets : Nat]
  BY <1>1, <1>3, HandlesCounts
<1>5. app' \in [Sessions -> Names] /\ publisherSrc' \in [Sessions -> Names \union {"null"}]
  BY <1>2, <1>3 DEF SessionType
<1> QED
  BY <1>1, <1>2, <1>4, <1>5, RepliesArePlain, AnswerStep

LEMMA ResultStep ==
  ASSUME SessionInv, NEW s \in Sessions,
         NEW replies \in {CreateStreamReplies, ResultReplies}, Answer(s, replies)
  PROVE  SessionInv'
<1>1. Handles(s, 0) /\ SendHere(s, replies)
  BY DEF Answer
<1>2. UNCHANGED <<app, publisherSrc>> /\ UNCHANGED <<threadVars, videoConfig, gop, players>>
  BY DEF Answer, sourceVars, sessionVars
<1>3. SessionType
  BY DEF SessionInv
<1>4. count' \in [commands : Nat, packets : Nat]
  BY <1>1, <1>3, HandlesCounts
<1>5. app' \in [Sessions -> Names] /\ publisherSrc' \in [Sessions -> Names \union {"null"}]
  BY <1>2, <1>3 DEF SessionType
<1>6. replies \in Seq(Message) /\ Plain(replies)
  BY RepliesArePlain
<1> QED
  BY <1>1, <1>2, <1>4, <1>5, <1>6, AnswerStep

LEMMA PublishStep ==
  ASSUME SessionInv, NEW s \in Sessions, Publish(s)
  PROVE  SessionInv'
<1>1. Handles(s, 0) /\ SendHere(s, PublishReplies)
  BY DEF Publish
<1>2. /\ publisherSrc' = [publisherSrc EXCEPT ![s] = app[s]] /\ UNCHANGED app
      /\ UNCHANGED <<threadVars, videoConfig, gop, players>>
  BY DEF Publish
<1>3. SessionType
  BY DEF SessionInv
<1>4. count' \in [commands : Nat, packets : Nat]
  BY <1>1, <1>3, HandlesCounts
<1>5. app' \in [Sessions -> Names] /\ publisherSrc' \in [Sessions -> Names \union {"null"}]
  BY <1>2, <1>3 DEF SessionType
<1> QED
  BY <1>1, <1>2, <1>4, <1>5, RepliesArePlain, AnswerStep

\* Play, of a source there is and of one there is not. A player that goes on to its
\* registration has been sent the configuration, as its connection is open.
LEMMA PlayStep ==
  ASSUME SessionInv, NEW s \in Sessions, NEW stream \in Names, Play(s, stream)
  PROVE  SessionInv'
<1>1. SessionType /\ PacketInv /\ SentInv /\ JoinedInv
  BY DEF SessionInv
<1>2. PICK name \in Names : name = SourceName(s, stream)
  BY <1>1 DEF SessionType, SourceName
<1>3. /\ pc[s] = "idle" /\ s \in open /\ count' \in [commands : Nat, packets : Nat]
  BY <1>1, HandlesCounts DEF Play
<1>4. /\ at' = [at EXCEPT ![s] = name]
      /\ UNCHANGED <<sessionVars, rest, packet, sourceVars>>
  BY <1>2 DEF Play
<1>5. PICK m \in Seq(Message) :
        /\ SendHere(s, m) /\ Ordered(m)
        /\ \/ Told(m) /\ pc' = [pc EXCEPT ![s] = "register"]
           \/ pc' = [pc EXCEPT ![s] = "idle"]
  <2>1. CASE name \in sources
    <3>1. /\ SendHere(s, PlayOrder(PlayReplies, Media(name)))
          /\ pc' = [pc EXCEPT ![s] = IF videoConfig[name] = <<>> THEN "idle" ELSE "register"]
      BY <1>2, <2>1 DEF Play
    <3>2. /\ PlayOrder(PlayReplies, Media(name)) \in Seq(Message)
          /\ Ordered(PlayOrder(PlayReplies, Media(name)))
          /\ videoConfig[name] # <<>> => Told(PlayOrder(PlayReplies, Media(name)))
      BY <1>1, PlayIsOrdered
    <3> QED
      BY <3>1, <3>2
  <2>2. CASE name \notin sources
    <3>1. SendHere(s, PlayReplies) /\ pc' = pc
      BY <1>2, <2>2 DEF Play
    <3>2. pc' = [pc EXCEPT ![s] = "idle"]
      BY <1>1, <1>3, <3>1 DEF SessionType
    <3> QED
      BY <3>1, <3>2, RepliesArePlain, PlainIsOrdered
  <2> QED
    BY <2>1, <2>2
<1>6. Hears(s, m) /\ UNCHANGED posted
  BY <1>1, <1>5, PutIsHeard DEF SendHere
<1>7. pc \in [Sessions -> {"idle", "register", "cache", "deliver"}]
  BY <1>1 DEF SessionType
<1>8. /\ pc' \in [Sessions -> {"idle", "register", "cache", "deliver"}]
      /\ \A p \in Sessions : p # s => pc'[p] = pc[p]
      /\ pc'[s] = "idle" \/ (pc'[s] = "register" /\ Told(m))
  BY <1>5, <1>7
<1>9. SessionType'
  BY <1>1, <1>3, <1>4, <1>6, <1>8 DEF SessionType, Hears, sessionVars, sourceVars
<1>10. PacketInv'
  BY <1>1, <1>4, <1>8 DEF PacketInv
<1>11. \A p \in Sessions : Joined(p)' => Joined(p) \/ Told(sent'[p])
  BY <1>3, <1>4, <1>6, <1>8 DEF Joined, Hears, sourceVars
<1>12. JoinedInv'
  BY <1>1, <1>6, <1>11, JoinedStep
<1> QED
  BY <1>6, <1>9, <1>10, <1>12 DEF SessionInv, Hears

\* Who is in a queue after its head has been taken was in it before.
Taken(S, q) ==
  /\ Tail(q) \in Seq(S) /\ Head(q) \in S /\ Holds(q, Head(q))
  /\ \A e : Holds(Tail(q), e) => Holds(q, e)

LEMMA TailIsTaken ==
  ASSUME NEW S, NEW q, q \in Seq(S), q # <<>>
  PROVE  Taken(S, q)
<1>1. PICK t : t = Tail(q)
  OBVIOUS
<1>2. /\ Head(q) \in S /\ t \in Seq(S) /\ Len(t) = Len(q) - 1
      /\ \A i \in 1 .. Len(t) : t[i] = q[i + 1]
  BY <1>1, HeadTailProperties
<1>3. Len(q) \in Nat \ {0}
  BY EmptySeq
<1>4. Head(q) = q[1] /\ 1 \in 1 .. Len(q)
  BY <1>3
<1>5. ASSUME NEW e, Holds(t, e)
      PROVE  Holds(q, e)
  <2>1. PICK i \in 1 .. Len(t) : t[i] = e
    BY <1>5 DEF Holds
  <2>2. i + 1 \in 1 .. Len(q) /\ q[i + 1] = e
    BY <1>2, <1>3, <2>1
  <2> QED
    BY <2>2 DEF Holds
<1> QED
  BY <1>1, <1>2, <1>4, <1>5 DEF Taken, Holds

\* The one that registers has been told when it was answered.
LEMMA RegisterStep ==
  ASSUME SessionInv, NEW s \in Sessions, Register(s)
  PROVE  SessionInv'
<1>1. SessionType /\ PacketInv /\ SentInv /\ JoinedInv
  BY DEF SessionInv
<1>2. PICK name \in Names : name = at[s]
  BY <1>1 DEF SessionType
<1>3. PICK q : q = Append(players[name], s)
  OBVIOUS
<1>4. players[name] \in Seq(Sessions)
  BY <1>1 DEF SessionType
<1>5. q \in Seq(Sessions) /\ \A p : Holds(q, p) <=> Holds(players[name], p) \/ p = s
  BY <1>3, <1>4, AppendDistinct
<1>6. /\ pc[s] = "register" /\ pc' = [pc EXCEPT ![s] = "idle"]
      /\ players' = [players EXCEPT ![name] = q]
      /\ UNCHANGED <<app, publisherSrc, at, rest, packet, videoConfig, gop, posted, sent,
                     count>>
  BY <1>2, <1>3 DEF Register, sessionVars, wireVars
<1>7. /\ players' \in [Names -> Seq(Sessions)] /\ players'[name] = q
      /\ \A n \in Names : n # name => players'[n] = players[n]
  BY <1>1, <1>5, <1>6 DEF SessionType
<1>8. /\ pc' \in [Sessions -> {"idle", "register", "cache", "deliver"}]
      /\ pc'[s] = "idle" /\ \A p \in Sessions : p # s => pc'[p] = pc[p]
  BY <1>1, <1>6 DEF SessionType
<1>9. SessionType'
  BY <1>1, <1>6, <1>7, <1>8 DEF SessionType
<1>10. PacketInv'
  BY <1>1, <1>6, <1>8 DEF PacketInv
<1>11. SentInv'
  BY <1>1, <1>6 DEF SentInv
<1>12. \A p \in Sessions : Joined(p)' => Joined(p)
  BY <1>5, <1>6, <1>7, <1>8 DEF Joined
<1>13. JoinedInv'
  BY <1>1, <1>6, <1>12 DEF JoinedInv
<1> QED
  BY <1>9, <1>10, <1>11, <1>13 DEF SessionInv

\* A configuration is put in place, or a packet is about to be cached and the players
\* of its source are copied: whoever is in the copy is in the list.
LEMMA HandleVideoStep ==
  ASSUME SessionInv, NEW s \in Sessions, NEW config \in BOOLEAN, NEW key \in BOOLEAN,
         NEW size \in VideoSizes, HandleVideo(s, config, key, size)
  PROVE  SessionInv'
<1>1. SessionType /\ PacketInv /\ SentInv /\ JoinedInv
  BY DEF SessionInv
<1>2. /\ Handles(s, 1)
      /\ UNCHANGED <<app, publisherSrc, gop, players, posted, sent>>
  BY DEF HandleVideo, sessionVars, wireVars
<1>3. /\ pc[s] = "idle" /\ count' \in [commands : Nat, packets : Nat]
      /\ count.packets + 1 \in Nat
  BY <1>1, <1>2, HandlesCounts
<1>4. SentInv'
  BY <1>1, <1>2 DEF SentInv
<1>5. SessionType' /\ PacketInv' /\ \A p \in Sessions : Joined(p)' => Joined(p)
  <2>1. CASE publisherSrc[s] = "null"
    <3>1. UNCHANGED <<videoConfig, at, rest, packet, pc>>
      BY <2>1 DEF HandleVideo
    <3> QED
      BY <1>1, <1>2, <1>3, <3>1 DEF SessionType, PacketInv, Joined
  <2>2. CASE publisherSrc[s] # "null"
    <3>1. PICK name \in Names : name = publisherSrc[s]
      BY <1>1, <2>2 DEF SessionType
    <3>2. PICK p : p = [n |-> count.packets + 1, config |-> config, key |-> key,
                        size |-> size]
      OBVIOUS
    <3>3. p \in Packet /\ p.config = config
      <4>1. size \in Nat \ {0}
        BY SizesAreNumbers
      <4> QED
        BY <1>3, <3>2, <4>1 DEF Packet
    <3>4. CASE config
      <4>1. /\ videoConfig' = [videoConfig EXCEPT ![name] = <<p>>]
            /\ UNCHANGED <<at, rest, packet, pc>>
        BY <2>2, <3>1, <3>2, <3>4 DEF HandleVideo
      <4>c. p \in Configs
        BY <3>3, <3>4 DEF Configs
      <4>2. <<p>> \in Seq(Configs)
        BY ONLY <4>c
      <4>3. videoConfig' \in [Names -> Seq(Configs)]
        BY <1>1, <4>1, <4>2 DEF SessionType
      <4> QED
        BY <1>1, <1>2, <1>3, <4>1, <4>3 DEF SessionType, PacketInv, Joined
    <3>5. CASE ~config
      <4>1. /\ at' = [at EXCEPT ![s] = name]
            /\ rest' = [rest EXCEPT ![s] = players[name]]
            /\ packet' = [packet EXCEPT ![s] = p]
            /\ pc' = [pc EXCEPT ![s] = "cache"]
            /\ UNCHANGED videoConfig
        BY <2>2, <3>1, <3>2, <3>5 DEF HandleVideo
      <4>2. p \in Pictures
        BY <3>3, <3>5 DEF Pictures
      <4>3. /\ at' \in [Sessions -> Names]
            /\ packet' \in [Sessions -> Pictures \union {<<>>}]
            /\ packet'[s] \in Pictures
            /\ \A t \in Sessions : t # s => packet'[t] = packet[t]
        BY <1>1, <4>1, <4>2 DEF SessionType
      <4>4. /\ rest' \in [Sessions -> Seq(Sessions)] /\ rest'[s] = players[name]
            /\ \A t \in Sessions : t # s => rest'[t] = rest[t]
        BY <1>1, <4>1 DEF SessionType
      <4>5. /\ pc' \in [Sessions -> {"idle", "register", "cache", "deliver"}]
            /\ pc'[s] = "cache" /\ \A t \in Sessions : t # s => pc'[t] = pc[t]
        BY <1>1, <4>1 DEF SessionType
      <4>6. SessionType'
        BY <1>1, <1>2, <1>3, <4>1, <4>3, <4>4, <4>5 DEF SessionType
      <4>7. PacketInv'
        BY <1>1, <4>3, <4>4, <4>5 DEF PacketInv
      <4>8. \A t \in Sessions : Joined(t)' => Joined(t)
        BY <1>2, <4>4, <4>5 DEF Joined
      <4> QED
        BY <4>6, <4>7, <4>8
    <3> QED
      BY <3>4, <3>5
  <2> QED
    BY <2>1, <2>2
<1>6. JoinedInv'
  BY <1>1, <1>2, <1>5 DEF JoinedInv
<1> QED
  BY <1>4, <1>5, <1>6 DEF SessionInv

LEMMA CacheStep ==
  ASSUME SessionInv, NEW s \in Sessions, Cache(s)
  PROVE  SessionInv'
<1>1. SessionType /\ PacketInv /\ SentInv /\ JoinedInv
  BY DEF SessionInv
<1>2. PICK name \in Names : name = at[s]
  BY <1>1 DEF SessionType
<1>3. PICK p \in Pictures : p = packet[s]
  BY <1>1 DEF PacketInv, Cache
<1>4. PICK q \in Seq(Pictures) : gop' = [gop EXCEPT ![name] = q]
  <2>1. gop' = [gop EXCEPT ![name] = IF p.key THEN <<p>> ELSE Append(gop[name], p)]
    BY <1>1, <1>2, <1>3 DEF Cache, SessionType
  <2>2. gop[name] \in Seq(Pictures)
    BY <1>1 DEF SessionType
  <2>3. <<p>> \in Seq(Pictures) /\ Append(gop[name], p) \in Seq(Pictures)
    BY <2>2, AppendProperties
  <2> QED
    BY <2>1, <2>3
<1>5. /\ pc[s] = "cache"
      /\ pc' = [pc EXCEPT ![s] = IF rest[s] = <<>> THEN "idle" ELSE "deliver"]
      /\ UNCHANGED <<app, publisherSrc, at, rest, packet, videoConfig, players, posted,
                     sent, count>>
  BY DEF Cache, sessionVars, wireVars
<1>6. /\ pc' \in [Sessions -> {"idle", "register", "cache", "deliver"}]
      /\ pc'[s] = IF rest[s] = <<>> THEN "idle" ELSE "deliver"
      /\ \A t \in Sessions : t # s => pc'[t] = pc[t]
  BY <1>1, <1>5 DEF SessionType
<1>7. gop' \in [Names -> Seq(Pictures)]
  BY <1>1, <1>4 DEF SessionType
<1>8. SessionType'
  BY <1>1, <1>5, <1>6, <1>7 DEF SessionType
<1>9. PacketInv'
  BY <1>1, <1>3, <1>5, <1>6 DEF PacketInv
<1>10. SentInv'
  BY <1>1, <1>5 DEF SentInv
<1>11. \A t \in Sessions : Joined(t)' => Joined(t)
  BY <1>5, <1>6 DEF Joined
<1>12. JoinedInv'
  BY <1>1, <1>5, <1>11 DEF JoinedInv
<1> QED
  BY <1>8, <1>9, <1>10, <1>12 DEF SessionInv

\* A message of a packet, and what is posted for it.
LEMMA PostIsVideo ==
  ASSUME NEW p \in Pictures
  PROVE  /\ Video(p) \in VideoMessages
         /\ <<Video(p)>> \in Seq(Message) /\ AllVideo(<<Video(p)>>)
         /\ Buffers(Video(p)) \in Seq(Posts) /\ Buffers(Video(p)) # <<>>
<1>1. PICK v : v = Video(p)
  OBVIOUS
<1>2. v \in Message /\ v.name = "video"
  BY <1>1, VideoFields DEF Pictures
<1>3. v \in VideoMessages
  BY <1>2 DEF VideoMessages
<1>4. Len(<<v>>) = 1 /\ <<v>>[1] = v /\ <<v>> \in Seq(Message)
  BY ONLY <1>2
<1>5. AllVideo(<<v>>)
  BY <1>2, <1>4 DEF AllVideo
<1>6. PICK b : b = [chunks |-> Chunks(v), messages |-> <<v>>]
  OBVIOUS
<1>7. Buffers(v) = <<b>>
  BY <1>6 DEF Buffers
<1>8. b \in Posts
  <2>1. Buffers(v)[1] = b
    BY ONLY <1>7
  <2> QED
    BY <1>3, <2>1 DEF Posts
<1>9. <<b>> \in Seq(Posts) /\ <<b>> # <<>>
  BY ONLY <1>8
<1> QED
  BY <1>1, <1>3, <1>4, <1>5, <1>7, <1>9

\* The one called is in the copy of the players, so it has been told; a packet is sent
\* to it at once or by a task of its loop.
LEMMA DeliverStep ==
  ASSUME SessionInv, NEW s \in Sessions, Deliver(s)
  PROVE  SessionInv'
<1>1. SessionType /\ PacketInv /\ SentInv /\ JoinedInv
  BY DEF SessionInv
<1>2. /\ pc[s] = "deliver" /\ packet[s] \in Pictures
      /\ rest[s] \in Seq(Sessions) /\ rest[s] # <<>>
  BY <1>1 DEF Deliver, PacketInv, SessionType
<1>3. PICK p : p = Head(rest[s])
  OBVIOUS
<1>4. PICK t : t = Tail(rest[s])
  OBVIOUS
<1>5. /\ p \in Sessions /\ t \in Seq(Sessions) /\ Holds(rest[s], p)
      /\ \A e : Holds(t, e) => Holds(rest[s], e)
  BY <1>2, <1>3, <1>4, TailIsTaken DEF Taken
<1>6. Told(sent[p])
  BY <1>1, <1>5 DEF JoinedInv, Joined
<1>7. PICK v : v = Video(packet[s])
  OBVIOUS
<1>8. /\ <<v>> \in Seq(Message) /\ AllVideo(<<v>>)
      /\ Buffers(v) \in Seq(Posts) /\ Buffers(v) # <<>>
  BY <1>2, <1>7, PostIsVideo
<1>9. /\ rest' = [rest EXCEPT ![s] = t]
      /\ pc' = [pc EXCEPT ![s] = IF rest'[s] = <<>> THEN "idle" ELSE "deliver"]
      /\ UNCHANGED <<app, publisherSrc, at, packet, videoConfig, gop, players, count>>
  BY <1>1, <1>4 DEF Deliver, SessionType, sessionVars, sourceVars
<1>10. IF p = s THEN SendHere(p, <<v>>) ELSE PostSend(p, v)
  BY <1>3, <1>7 DEF Deliver
<1>11. /\ sent' \in [Sessions -> Seq(Message)] /\ SentInv'
       /\ \A e \in Sessions : Told(sent[e]) => Told(sent'[e])
       /\ posted' \in [Sessions -> Seq(Posts)]
       /\ \A e \in Sessions : e # p => posted'[e] = posted[e]
  <2>1. CASE p = s
    <3>1. SendHere(p, <<v>>)
      BY <1>10, <2>1
    <3>2. Hears(p, <<v>>)
      BY <1>1, <1>5, <1>6, <1>8, <3>1, PutIsHeard DEF SendHere
    <3>3. UNCHANGED posted
      BY <3>1 DEF SendHere
    <3> QED
      BY <1>1, <3>2, <3>3 DEF Hears, SessionType
  <2>2. CASE p # s
    <3>1. PICK q : q = posted[p] \o Buffers(v)
      OBVIOUS
    <3>2. posted' = [posted EXCEPT ![p] = q] /\ UNCHANGED sent
      BY <1>10, <2>2, <3>1 DEF PostSend
    <3>3. posted[p] \in Seq(Posts) /\ posted \in [Sessions -> Seq(Posts)]
      BY <1>1, <1>5 DEF SessionType
    <3>4. q \in Seq(Posts)
      BY <1>8, <3>1, <3>3, ConcatProperties
    <3> QED
      BY <1>1, <1>5, <3>2, <3>3, <3>4 DEF SentInv, SessionType
  <2> QED
    BY <2>1, <2>2
<1>12. /\ rest' \in [Sessions -> Seq(Sessions)] /\ rest'[s] = t
       /\ \A e \in Sessions : e # s => rest'[e] = rest[e]
  BY <1>1, <1>5, <1>9 DEF SessionType
<1>13. /\ pc' \in [Sessions -> {"idle", "register", "cache", "deliver"}]
       /\ pc'[s] = IF rest'[s] = <<>> THEN "idle" ELSE "deliver"
       /\ \A e \in Sessions : e # s => pc'[e] = pc[e]
  BY <1>1, <1>9 DEF SessionType
<1>14. SessionType'
  BY <1>1, <1>9, <1>11, <1>12, <1>13 DEF SessionType
<1>15. PacketInv'
  BY <1>1, <1>2, <1>9, <1>12, <1>13 DEF PacketInv
<1>16. \A e \in Sessions : Joined(e)' => Joined(e) \/ e = p
  BY <1>5, <1>9, <1>11, <1>12, <1>13 DEF Joined
<1>17. JoinedInv'
  BY <1>1, <1>6, <1>11, <1>16 DEF JoinedInv
<1> QED
  BY <1>11, <1>14, <1>15, <1>17 DEF SessionInv

\* What has been posted is a packet, and the peer it is for has been told.
LEMMA RunPostedStep ==
  ASSUME SessionInv, NEW s \in Sessions, RunPosted(s)
  PROVE  SessionInv'
<1>1. SessionType /\ PacketInv /\ SentInv /\ JoinedInv
  BY DEF SessionInv
<1>2. posted[s] \in Seq(Posts) /\ posted[s] # <<>>
  BY <1>1 DEF RunPosted, SessionType
<1>3. PICK b : b = Head(posted[s])
  OBVIOUS
<1>4. PICK t : t = Tail(posted[s])
  OBVIOUS
<1>5. b \in Posts /\ t \in Seq(Posts)
  BY <1>2, <1>3, <1>4, TailIsTaken DEF Taken
<1>6. PICK m : m = b.messages
  OBVIOUS
<1>7. m \in Seq(Message) /\ AllVideo(m)
  <2>1. PICK v \in VideoMessages : b = Buffers(v)[1]
    BY <1>5 DEF Posts
  <2>2. m = <<v>>
    BY <1>6, <2>1 DEF Buffers
  <2>3. v \in Message /\ v.name = "video"
    BY <2>1 DEF VideoMessages
  <2>4. Len(<<v>>) = 1 /\ <<v>>[1] = v /\ <<v>> \in Seq(Message)
    BY ONLY <2>3
  <2> QED
    BY <2>2, <2>3, <2>4 DEF AllVideo
<1>8. Told(sent[s])
  BY <1>1, <1>2 DEF JoinedInv, Joined
<1>9. Put(s, b.chunks, m)
  BY <1>3, <1>6 DEF RunPosted
<1>10. Hears(s, m)
  BY <1>1, <1>7, <1>8, <1>9, PutIsHeard
<1>11. /\ posted' = [posted EXCEPT ![s] = t]
       /\ UNCHANGED <<app, publisherSrc, pc, at, rest, packet, videoConfig, gop, players,
                      count>>
  BY <1>1, <1>4 DEF RunPosted, SessionType, sessionVars, threadVars, sourceVars
<1>12. /\ posted' \in [Sessions -> Seq(Posts)]
       /\ \A e \in Sessions : e # s => posted'[e] = posted[e]
  BY <1>1, <1>5, <1>11 DEF SessionType
<1>13. SessionType'
  BY <1>1, <1>10, <1>11, <1>12 DEF SessionType, Hears
<1>14. PacketInv'
  BY <1>1, <1>11 DEF PacketInv
<1>15. \A e \in Sessions : Joined(e)' => Joined(e) \/ e = s
  BY <1>11, <1>12 DEF Joined
<1>16. JoinedInv'
  BY <1>1, <1>8, <1>10, <1>15 DEF JoinedInv, Hears
<1> QED
  BY <1>10, <1>13, <1>14, <1>16 DEF SessionInv, Hears

\* Leaving changes nothing of this, nor does a step of nobody.
LEMMA RestStep ==
  ASSUME SessionInv, UNCHANGED <<sessionVars, threadVars, sourceVars, wireVars, count>>
  PROVE  SessionInv'
<1>1. UNCHANGED <<app, publisherSrc, pc, at, rest, packet, videoConfig, gop, players,
                  posted, sent, count>>
  BY DEF sessionVars, threadVars, sourceVars, wireVars
<1>2. SessionType' /\ PacketInv' /\ SentInv' /\ JoinedInv'
  BY <1>1 DEF SessionInv, SessionType, PacketInv, SentInv, JoinedInv, Joined
<1> QED
  BY <1>2 DEF SessionInv

LEMMA SessionStep == SessionInv /\ [Next]_vars => SessionInv'
<1> SUFFICES ASSUME SessionInv, [Next]_vars
             PROVE  SessionInv'
  OBVIOUS
<1>1. ASSUME NEW s \in Sessions, Step(s)
      PROVE  SessionInv'
  BY <1>1, ConnectStep, ResultStep, PublishStep, PlayStep, RegisterStep, HandleVideoStep,
     CacheStep, DeliverStep, RunPostedStep DEF Step
<1>2. ASSUME NEW s \in Sessions, Leave(s)
      PROVE  SessionInv'
  BY <1>2, RestStep DEF Leave
<1>3. CASE UNCHANGED vars
  BY <1>3, RestStep DEF vars
<1> QED
  BY <1>1, <1>2, <1>3 DEF Next

\* The invariant of RtmpSession, from which PlayIsIntroduced follows.
THEOREM SessionInvariant == Spec => []SessionInv
BY SessionInit, SessionStep, PTL DEF Spec

\* Whatever threads publish, play, deliver and leave at once, and however many: a peer is
\* sent packets (PushPacket's Send, at once or by a task) only after the configuration
\* (StartRead), and that only after the status that starts the stream (RtmpPlay).
THEOREM PlayStaysIntroduced == Spec => []PlayIsIntroduced
<1>1. SessionInv => PlayIsIntroduced
  <2> SUFFICES ASSUME SessionInv, NEW s \in Sessions
               PROVE  /\ \A i \in Positions(s, "config") :
                           \E j \in Positions(s, "StatusStart") : j < i
                      /\ \A i \in Positions(s, "video") :
                           \E j \in Positions(s, "config") : j < i
    BY DEF PlayIsIntroduced
  <2>1. DOMAIN sent[s] = 1 .. Len(sent[s]) /\ Ordered(sent[s])
    BY LenProperties DEF SessionInv, SessionType, SentInv
  <2>2. /\ After(sent[s], "config", "StatusStart")
        /\ After(sent[s], "video", "config")
    BY <2>1 DEF Ordered
  <2> QED
    BY <2>1, <2>2 DEF After, Positions
<1> QED
  BY <1>1, SessionInvariant, PTL

\* What was started is in the map, and play has failed for no name in the map.
PlayableInv ==
  /\ started \subseteq sources
  /\ crashed.by = "play" => crashed.name \notin sources

LEMMA PlayableStep == PlayableInv /\ [Next]_vars => PlayableInv'
<1> SUFFICES ASSUME PlayableInv, [Next]_vars
             PROVE  PlayableInv'
  OBVIOUS
<1>1. CASE UNCHANGED <<sources, crashed, started>>
  BY <1>1 DEF PlayableInv
<1>2. ASSUME NEW s \in Sessions, Publish(s), crashed.by = "nothing"
      PROVE  PlayableInv'
  BY <1>2 DEF Publish, Created, PlayableInv
<1>3. ASSUME NEW s \in Sessions, NEW stream \in Names, Play(s, stream),
             crashed.by = "nothing"
      PROVE  PlayableInv'
  <2>1. UNCHANGED <<sources, started>>
    BY <1>3 DEF Play, sourceVars
  <2>2. crashed' = crashed \/ (crashed'.name = SourceName(s, stream)
                               /\ SourceName(s, stream) \notin sources)
    BY <1>3 DEF Play
  <2> QED
    BY <2>1, <2>2 DEF PlayableInv
<1>4. ASSUME NEW s \in Sessions, NEW config, NEW key, NEW size,
             HandleVideo(s, config, key, size)
      PROVE  PlayableInv'
  <2>1. UNCHANGED <<sources, started>>
    BY <1>4 DEF HandleVideo
  <2>2. crashed' = crashed \/ crashed'.by = "video"
    BY <1>4 DEF HandleVideo
  <2> QED
    BY <2>1, <2>2 DEF PlayableInv
<1>5. ASSUME NEW s \in Sessions, Step(s), crashed.by = "nothing"
      PROVE  PlayableInv'
  BY <1>1, <1>2, <1>3, <1>4, <1>5
     DEF Step, Connect, Answer, Register, Cache, Deliver, RunPosted, sourceVars
<1> QED
  BY <1>1, <1>5 DEF Next, Leave, sourceVars, vars

\* A name whose publisher was told NetStream.Publish.Start is in rtmpSrcMap_ from then on:
\* no play of it, by any session, finds a null source.
THEOREM StartedStaysPlayable == Spec => []StartedIsPlayable
<1>1. Init => PlayableInv
  BY DEF Init, PlayableInv
<1>2. PlayableInv => StartedIsPlayable
  BY DEF PlayableInv, StartedIsPlayable
<1> QED
  BY <1>1, <1>2, PlayableStep, PTL DEF Spec

-----------------------------------------------------------------------------
(* The reader of a connection, over the chunks it was sent *)

\* A chunk. Later chunks of a message do not carry its size.
WireChunk ==
  [channel : 2 .. 63, first : BOOLEAN, len : Int,
   of : [name : Kinds, channel : 2 .. 63, n : Nat, size : Nat]]

NumChunks(m) == (m.size + ChunkSize - 1) \div ChunkSize

\* What is to come of m when j of its chunks have been read.
Left(m, j) == m.size - j * ChunkSize

LEMMA CountOfChunks ==
  ASSUME NEW size \in Nat \ {0}, NEW cs \in Nat \ {0}, NEW k, k = (size + cs - 1) \div cs
  PROVE  k \in Nat \ {0} /\ (k - 1) * cs < size /\ size <= k * cs
BY SMTT(30)

LEMMA Products ==
  ASSUME NEW cs \in Nat \ {0}, NEW k \in Nat, NEW j \in 1 .. k
  PROVE  /\ j * cs \in Nat /\ (j - 1) * cs \in Nat /\ (j - 1) * cs + cs = j * cs
         /\ j < k => j * cs <= (k - 1) * cs
         /\ j <= k => (j - 1) * cs <= (k - 1) * cs
BY SMTT(30)

\* The chunks of a message: how many, what is in each, and what is left before and after.
AreChunks(m, w, k) ==
  /\ k \in Nat \ {0} /\ w \in Seq(WireChunk) /\ Len(w) = k
  /\ \A j \in 1 .. k :
       /\ w[j].channel = m.channel
       /\ w[j].first <=> j = 1
       /\ j = 1 => w[j].of = m
       /\ w[j].len = IF Left(m, j - 1) < ChunkSize THEN Left(m, j - 1) ELSE ChunkSize
       /\ Left(m, j - 1) \in Nat \ {0}
       /\ IF j = k THEN Left(m, j - 1) - w[j].len = 0
          ELSE Left(m, j - 1) - w[j].len = Left(m, j) /\ w[j].len # Left(m, j - 1)
  /\ Left(m, 0) = m.size

LEMMA ChunksOfMessage ==
  ASSUME NEW m \in Message
  PROVE  AreChunks(m, Chunks(m), NumChunks(m))
<1>1. PICK k : k = NumChunks(m)
  OBVIOUS
<1>2. PICK w : w = Chunks(m)
  OBVIOUS
<1>3. m.size \in Nat \ {0} /\ ChunkSize \in Nat \ {0} /\ m.channel \in 2 .. 63
  BY SizesAreNumbers DEF Message
<1>4. k \in Nat \ {0} /\ (k - 1) * ChunkSize < m.size /\ m.size <= k * ChunkSize
  BY ONLY <1>1, <1>3, CountOfChunks DEF NumChunks
<1>5. w = [i \in 1 .. k |->
            [channel |-> m.channel, first |-> i = 1, len |-> ChunkLen(m, i),
             of |-> IF i = 1 THEN m ELSE [m EXCEPT !.size = 0]]]
  BY <1>1, <1>2 DEF Chunks, NumChunks
<1>6. ASSUME NEW j \in 1 .. k
      PROVE  /\ w[j] \in WireChunk
             /\ w[j].channel = m.channel
             /\ w[j].first <=> j = 1
             /\ j = 1 => w[j].of = m
             /\ w[j].len = IF Left(m, j - 1) < ChunkSize THEN Left(m, j - 1) ELSE ChunkSize
             /\ Left(m, j - 1) \in Nat \ {0}
             /\ IF j = k THEN Left(m, j - 1) - w[j].len = 0
                ELSE Left(m, j - 1) - w[j].len = Left(m, j) /\ w[j].len # Left(m, j - 1)
  <2>1. PICK a : a = (j - 1) * ChunkSize
    OBVIOUS
  <2>2. PICK b : b = j * ChunkSize
    OBVIOUS
  <2>3. a \in Nat /\ b \in Nat /\ a + ChunkSize = b /\ a <= (k - 1) * ChunkSize
    BY ONLY <1>3, <1>4, <2>1, <2>2, j \in 1 .. k, Products
  <2>4. j < k => b <= (k - 1) * ChunkSize
    BY ONLY <1>3, <1>4, <2>2, j \in 1 .. k, Products
  <2>5. (k - 1) * ChunkSize \in Int
    BY ONLY <1>3, <1>4
  <2>6. a < m.size /\ (j < k => b < m.size) /\ (j = k => m.size <= b)
    BY ONLY <1>3, <1>4, <2>2, <2>3, <2>4, <2>5, j \in 1 .. k
  <2>7. Left(m, j - 1) = m.size - a /\ Left(m, j) = m.size - b
    BY ONLY <2>1, <2>2 DEF Left
  <2>8. ChunkLen(m, j) = IF b <= m.size THEN ChunkSize ELSE m.size - a
    BY ONLY <2>1, <2>2 DEF ChunkLen
  <2>9. PICK l : l = ChunkLen(m, j)
    OBVIOUS
  <2>10. PICK o : o = IF j = 1 THEN m ELSE [m EXCEPT !.size = 0]
    OBVIOUS
  <2>f. PICK f \in BOOLEAN : f = (j = 1)
    OBVIOUS
  <2>11. w[j] = [channel |-> m.channel, first |-> f, len |-> l, of |-> o]
    BY ONLY <1>5, <2>9, <2>10, <2>f, j \in 1 .. k
  <2>12. o \in [name : Kinds, channel : 2 .. 63, n : Nat, size : Nat] /\ (j = 1 => o = m)
    BY ONLY <2>10, m \in Message DEF Message
  <2>13. l \in Int /\ l = IF m.size - a < ChunkSize THEN m.size - a ELSE ChunkSize
    BY ONLY <1>3, <2>3, <2>8, <2>9
  <2>14. /\ m.size - a \in Nat \ {0}
         /\ IF j = k THEN (m.size - a) - l = 0
            ELSE (m.size - a) - l = m.size - b /\ l # m.size - a
    BY ONLY <1>3, <1>4, <2>3, <2>6, <2>13, j \in 1 .. k
  <2>15. w[j] \in WireChunk
    BY ONLY <1>3, <2>11, <2>12, <2>13 DEF WireChunk
  <2>16. w[j].channel = m.channel /\ w[j].first = f /\ w[j].of = o /\ w[j].len = l
    BY ONLY <2>11
  <2> QED
    BY ONLY <2>f, <2>7, <2>12, <2>13, <2>14, <2>15, <2>16
<1>7. w \in Seq(WireChunk) /\ Len(w) = k
  <2>1. \A j \in 1 .. k : w[j] \in WireChunk
    BY ONLY <1>6
  <2>2. w = [j \in 1 .. k |-> w[j]]
    BY ONLY <1>5
  <2>3. w \in [1 .. k -> WireChunk]
    BY ONLY <2>1, <2>2
  <2> QED
    BY ONLY <1>4, <2>3
<1>8. Left(m, 0) = m.size
  BY <1>3 DEF Left
<1> QED
  BY ONLY <1>1, <1>2, <1>4, <1>6, <1>7, <1>8 DEF AreChunks

\* g is what the reader goes through over w.
Start == [lost |-> FALSE, open |-> [c \in 2 .. 63 |-> Quiet], done |-> <<>>]
Reader(w, g) ==
  g = [i \in 0 .. Len(w) |-> IF i = 0 THEN Start ELSE Read(g[i - 1], w[i])]

\* Between messages, with those of q read.
AtRest(r, q) ==
  /\ ~ r.lost /\ r.done = q /\ DOMAIN r.open = 2 .. 63
  /\ \A c \in 2 .. 63 : r.open[c].missing = 0

Reads(w, q) == \E g : Reader(w, g) /\ AtRest(g[Len(w)], q)

LEMMA ReadAllIsRead ==
  ASSUME NEW w \in Seq(WireChunk), NEW q, Reads(w, q)
  PROVE  ~ ReadAll(w).lost /\ ReadAll(w).done = q
<1>1. PICK g : Reader(w, g) /\ AtRest(g[Len(w)], q)
  BY DEF Reads
<1> DEFINE h == CHOOSE x : Reader(w, x)
<1>2. Reader(w, h)
  BY <1>1
<1>3. ReadAll(w) = h[Len(w)]
  BY DEF ReadAll, Reader, Start
<1> HIDE DEF h
<1>4. PICK n : n = Len(w)
  OBVIOUS
<1>5. n \in Nat
  BY <1>4
<1> DEFINE T == {i \in Nat : i <= n => g[i] = h[i]}
<1>6. /\ g[0] = Start /\ \A i \in 1 .. n : g[i] = Read(g[i - 1], w[i])
      /\ h[0] = Start /\ \A i \in 1 .. n : h[i] = Read(h[i - 1], w[i])
  <2>1. ASSUME NEW f, Reader(w, f)
        PROVE  f[0] = Start /\ \A i \in 1 .. n : f[i] = Read(f[i - 1], w[i])
    <3>1. f = [i \in 0 .. n |-> IF i = 0 THEN Start ELSE Read(f[i - 1], w[i])]
      BY ONLY <1>4, <2>1 DEF Reader
    <3>2. 0 \in 0 .. n /\ \A i \in 1 .. n : i \in 0 .. n /\ i # 0
      BY ONLY <1>5
    <3> QED
      BY ONLY <3>1, <3>2
  <2> QED
    BY <1>1, <1>2, <2>1
<1>7. 0 \in T
  BY <1>6
<1>8. ASSUME NEW i \in T
      PROVE  i + 1 \in T
  <2>1. i \in Nat /\ (i <= n => g[i] = h[i])
    OBVIOUS
  <2>2. CASE i + 1 <= n
    <3>1. i + 1 \in 1 .. n /\ (i + 1) - 1 = i /\ i <= n
      BY <1>5, <2>1, <2>2
    <3>2. g[i + 1] = Read(g[i], w[i + 1]) /\ h[i + 1] = Read(h[i], w[i + 1])
      BY <1>6, <3>1
    <3> QED
      BY <2>1, <3>1, <3>2
  <2>3. CASE ~ (i + 1 <= n)
    BY <2>1, <2>3
  <2> QED
    BY <2>2, <2>3
<1>9. T \subseteq Nat
  OBVIOUS
<1>10. T = Nat
  <2> HIDE DEF T
  <2> QED
    BY <1>7, <1>8, <1>9, SetInduction
<1>11. n \in T
  BY <1>5, <1>10
<1>12. g[n] = h[n]
  BY <1>5, <1>11
<1> QED
  BY <1>1, <1>3, <1>4, <1>12 DEF AtRest

\* Where the reader is after the first j of the k chunks of m, having read q before it.
Stage(o, m, q, j, k) ==
  [lost |-> FALSE,
   open |-> [o EXCEPT ![m.channel] = [missing |-> IF j = k THEN 0 ELSE Left(m, j),
                                      of |-> m]],
   done |-> IF j = k THEN Append(q, m) ELSE q]

\* The reader takes a chunk x of c, of which a was missing and l of it comes now.
InStep(r, x, c, a, m, l, q) ==
  /\ ~ r.lost /\ r.done = q
  /\ x.channel = c /\ x.len = l
  /\ a = IF x.first THEN x.of.size ELSE r.open[c].missing
  /\ m = IF x.first THEN x.of ELSE r.open[c].of
  /\ x.first <=> r.open[c].missing = 0
  /\ l = IF a < ChunkSize THEN a ELSE ChunkSize

LEMMA ReadInStep ==
  ASSUME NEW r, NEW x, NEW c, NEW a, NEW m, NEW l, NEW q, InStep(r, x, c, a, m, l, q)
  PROVE  Read(r, x) =
           [lost |-> FALSE,
            open |-> [r.open EXCEPT ![c] = [missing |-> a - l, of |-> m]],
            done |-> IF l = a THEN Append(q, m) ELSE q]
BY DEF Read, InStep

LEMMA ReadFirst ==
  ASSUME NEW m \in Message, NEW w, NEW k, AreChunks(m, w, k), NEW r, NEW q, AtRest(r, q)
  PROVE  Read(r, w[1]) = Stage(r.open, m, q, 1, k)
<1>1. PICK x : x = w[1]
  OBVIOUS
<1>2. m.channel \in 2 .. 63
  BY DEF Message
<1>3. PICK l : l = x.len
  OBVIOUS
<1>4. PICK c : c = m.channel
  OBVIOUS
<1>5. /\ k \in Nat \ {0} /\ x.channel = c /\ x.first /\ x.of = m /\ m.size = Left(m, 0)
      /\ l = IF m.size < ChunkSize THEN m.size ELSE ChunkSize
      /\ m.size \in Nat \ {0}
      /\ IF 1 = k THEN m.size - l = 0 ELSE m.size - l = Left(m, 1) /\ l # m.size
  <2>1. 1 \in 1 .. k /\ 1 - 1 = 0
    BY DEF AreChunks
  <2> QED
    BY <1>1, <1>3, <1>4, <2>1 DEF AreChunks
<1>6. ~ r.lost /\ r.done = q /\ r.open[c].missing = 0
  BY <1>2, <1>4 DEF AtRest
<1>7. Read(r, x) =
        [lost |-> FALSE,
         open |-> [r.open EXCEPT ![c] = [missing |-> m.size - l, of |-> m]],
         done |-> IF l = m.size THEN Append(q, m) ELSE q]
  <2>1. InStep(r, x, c, m.size, m, l, q)
    BY ONLY <1>3, <1>5, <1>6 DEF InStep
  <2> QED
    BY ONLY <2>1, ReadInStep
<1>8. CASE 1 = k
  <2>1. m.size - l = 0 /\ l = m.size
    BY <1>5, <1>8, SizesAreNumbers
  <2> QED
    BY <1>1, <1>4, <1>7, <1>8, <2>1 DEF Stage
<1>9. CASE 1 # k
  <2>1. m.size - l = Left(m, 1) /\ l # m.size
    BY <1>5, <1>9
  <2> QED
    BY <1>1, <1>4, <1>7, <1>9, <2>1 DEF Stage
<1> QED
  BY <1>8, <1>9

LEMMA ReadLater ==
  ASSUME NEW m \in Message, NEW w, NEW k, AreChunks(m, w, k), NEW o, NEW q,
         DOMAIN o = 2 .. 63, NEW j \in 2 .. k
  PROVE  Read(Stage(o, m, q, j - 1, k), w[j]) = Stage(o, m, q, j, k)
<1>1. PICK x : x = w[j]
  OBVIOUS
<1>2. PICK r : r = Stage(o, m, q, j - 1, k)
  OBVIOUS
<1>3. PICK l : l = x.len
  OBVIOUS
<1>4. PICK c : c = m.channel
  OBVIOUS
<1>5. PICK a : a = Left(m, j - 1)
  OBVIOUS
<1>6. c \in 2 .. 63
  BY <1>4 DEF Message
<1>7. /\ k \in Nat \ {0} /\ x.channel = c /\ ~ x.first
      /\ l = IF a < ChunkSize THEN a ELSE ChunkSize
      /\ a \in Nat \ {0}
      /\ IF j = k THEN a - l = 0 ELSE a - l = Left(m, j) /\ l # a
  <2>1. j \in 1 .. k /\ j # 1
    BY DEF AreChunks
  <2> QED
    BY <1>1, <1>3, <1>4, <1>5, <2>1 DEF AreChunks
<1>8. j - 1 # k
  BY <1>7
<1>9. r = [lost |-> FALSE, open |-> [o EXCEPT ![c] = [missing |-> a, of |-> m]], done |-> q]
  BY ONLY <1>2, <1>4, <1>5, <1>8 DEF Stage
<1>10. /\ ~ r.lost /\ r.done = q /\ r.open = [o EXCEPT ![c] = [missing |-> a, of |-> m]]
  BY ONLY <1>9
<1>11. r.open[c] = [missing |-> a, of |-> m]
  BY ONLY <1>6, <1>10, DOMAIN o = 2 .. 63
<1>12. r.open[c].missing = a /\ r.open[c].of = m
  BY ONLY <1>11
<1>13. Read(r, x) =
         [lost |-> FALSE,
          open |-> [r.open EXCEPT ![c] = [missing |-> a - l, of |-> m]],
          done |-> IF l = a THEN Append(q, m) ELSE q]
  <2>1. InStep(r, x, c, a, m, l, q)
    BY ONLY <1>3, <1>7, <1>10, <1>12 DEF InStep
  <2> QED
    BY ONLY <2>1, ReadInStep
<1>14. [r.open EXCEPT ![c] = [missing |-> a - l, of |-> m]] =
         [o EXCEPT ![c] = [missing |-> a - l, of |-> m]]
  BY ONLY <1>10
<1>15. CASE j = k
  <2>1. a - l = 0 /\ l = a
    BY <1>7, <1>15, SizesAreNumbers
  <2> QED
    BY <1>1, <1>2, <1>4, <1>13, <1>14, <1>15, <2>1 DEF Stage
<1>16. CASE j # k
  <2>1. a - l = Left(m, j) /\ l # a
    BY <1>7, <1>16
  <2> QED
    BY <1>1, <1>2, <1>4, <1>13, <1>14, <1>16, <2>1 DEF Stage
<1> QED
  BY <1>15, <1>16

\* After a message has been read the reader is between messages again.
LEMMA ReadsMore ==
  ASSUME NEW w \in Seq(WireChunk), NEW q, Reads(w, q), NEW m \in Message
  PROVE  Reads(w \o Chunks(m), Append(q, m))
<1>1. PICK g : Reader(w, g) /\ AtRest(g[Len(w)], q)
  BY DEF Reads
<1>2. PICK v : v = Chunks(m)
  OBVIOUS
<1>3. PICK k : AreChunks(m, v, k)
  BY <1>2, ChunksOfMessage
<1>4. PICK n : n = Len(w)
  OBVIOUS
<1>5. PICK o : o = g[n].open
  OBVIOUS
<1>6. PICK u : u = w \o v
  OBVIOUS
<1>7. k \in Nat \ {0} /\ n \in Nat /\ v \in Seq(WireChunk) /\ Len(v) = k
  BY <1>3, <1>4 DEF AreChunks
<1>8. Len(u) = n + k /\ \A i \in 1 .. n + k : u[i] = IF i <= n THEN w[i] ELSE v[i - n]
  BY ONLY <1>4, <1>6, <1>7, w \in Seq(WireChunk), ConcatProperties
<1>9. AtRest(g[n], q) /\ DOMAIN o = 2 .. 63
  BY <1>1, <1>4, <1>5 DEF AtRest
<1> DEFINE h == [i \in 0 .. n + k |-> IF i <= n THEN g[i] ELSE Stage(o, m, q, i - n, k)]
<1>10. \A i \in 0 .. n + k : h[i] = IF i <= n THEN g[i] ELSE Stage(o, m, q, i - n, k)
  OBVIOUS
<1>11. DOMAIN h = 0 .. n + k
  OBVIOUS
<1> HIDE DEF h
<1>12. g[0] = Start /\ \A i \in 1 .. n : g[i] = Read(g[i - 1], w[i])
  <2>1. g = [i \in 0 .. n |-> IF i = 0 THEN Start ELSE Read(g[i - 1], w[i])]
    BY ONLY <1>1, <1>4 DEF Reader
  <2>2. 0 \in 0 .. n /\ \A i \in 1 .. n : i \in 0 .. n /\ i # 0
    BY ONLY <1>7
  <2> QED
    BY ONLY <2>1, <2>2
<1>13. h[0] = Start
  <2>1. 0 \in 0 .. n + k /\ 0 <= n
    BY ONLY <1>7
  <2> QED
    BY ONLY <1>10, <1>12, <2>1
<1>14. ASSUME NEW i \in 1 .. n + k
       PROVE  h[i] = Read(h[i - 1], u[i])
  <2>1. i \in 0 .. n + k /\ i - 1 \in 0 .. n + k /\ i \in Nat
    BY <1>7
  <2>2. CASE i <= n
    <3>1. i \in 1 .. n /\ i - 1 <= n
      BY <1>7, <2>1, <2>2
    <3>2. h[i] = g[i] /\ h[i - 1] = g[i - 1] /\ u[i] = w[i]
      BY ONLY <1>8, <1>10, <2>1, <2>2, <3>1, i \in 1 .. n + k
    <3> QED
      BY ONLY <1>12, <3>1, <3>2
  <2>3. CASE i = n + 1
    <3>1. i - 1 = n /\ i - n = 1 /\ ~ (i <= n) /\ n <= n
      BY <1>7, <2>3
    <3>2. h[i] = Stage(o, m, q, 1, k) /\ h[i - 1] = g[n] /\ u[i] = v[1]
      BY ONLY <1>8, <1>10, <2>1, <3>1, i \in 1 .. n + k
    <3> QED
      BY ONLY <1>3, <1>5, <1>9, <3>2, ReadFirst, m \in Message
  <2>4. CASE i > n + 1
    <3>1. PICK j : j = i - n
      OBVIOUS
    <3>2. j \in 2 .. k /\ (i - 1) - n = j - 1 /\ ~ (i <= n) /\ ~ (i - 1 <= n)
      BY <1>7, <2>1, <2>4, <3>1
    <3>3. h[i] = Stage(o, m, q, j, k) /\ h[i - 1] = Stage(o, m, q, j - 1, k) /\ u[i] = v[j]
      BY ONLY <1>8, <1>10, <2>1, <3>1, <3>2, i \in 1 .. n + k
    <3> QED
      BY ONLY <1>3, <1>9, <3>2, <3>3, ReadLater, m \in Message
  <2> QED
    BY <1>7, <2>1, <2>2, <2>3, <2>4
<1>15. Reader(u, h)
  <2>1. h = [i \in 0 .. n + k |-> h[i]]
    BY <1>10 DEF h
  <2>2. \A i \in 0 .. n + k : h[i] = IF i = 0 THEN Start ELSE Read(h[i - 1], u[i])
    BY <1>7, <1>13, <1>14
  <2>3. h = [i \in 0 .. n + k |-> IF i = 0 THEN Start ELSE Read(h[i - 1], u[i])]
    BY ONLY <2>1, <2>2
  <2> QED
    BY ONLY <1>8, <2>3 DEF Reader
<1>16. AtRest(h[n + k], Append(q, m))
  <2>1. n + k \in 0 .. n + k /\ ~ (n + k <= n) /\ (n + k) - n = k
    BY <1>7
  <2>2. h[n + k] = Stage(o, m, q, k, k)
    BY ONLY <1>10, <2>1
  <2>3. PICK p : p = [o EXCEPT ![m.channel] = [missing |-> 0, of |-> m]]
    OBVIOUS
  <2>4. h[n + k] = [lost |-> FALSE, open |-> p, done |-> Append(q, m)]
    BY <2>2, <2>3 DEF Stage
  <2>5. \A c \in 2 .. 63 : o[c].missing = 0
    BY ONLY <1>5, <1>9 DEF AtRest
  <2>6. DOMAIN p = 2 .. 63 /\ \A c \in 2 .. 63 : p[c].missing = 0
    BY <1>9, <2>3, <2>5
  <2> QED
    BY ONLY <2>4, <2>6 DEF AtRest
<1> QED
  BY <1>6, <1>2, <1>8, <1>15, <1>16 DEF Reads

\* What SendHere writes, message by message, after what has been read.
MessagesRead(w, q, m, k, f) ==
  f[k] \in Seq(WireChunk) /\ Reads(w \o f[k], q \o SubSeq(m, 1, k))

LEMMA FrontGrows ==
  ASSUME NEW q \in Seq(Message), NEW m \in Seq(Message), NEW k \in 1 .. Len(m)
  PROVE  /\ q \o SubSeq(m, 1, k - 1) \in Seq(Message)
         /\ q \o SubSeq(m, 1, k) = Append(q \o SubSeq(m, 1, k - 1), m[k])
<1>1. PICK c : c = SubSeq(m, 1, k - 1)
  OBVIOUS
<1>2. PICK e : e = m[k]
  OBVIOUS
<1>3. Len(m) \in Nat /\ m[k] \in Message
  BY LenProperties, ElementOfSeq
<1>4. 1 \in 1 .. Len(m) /\ k \in 1 .. Len(m)
  BY <1>3
<1>5. SubSeq(m, 1, k) = c \o <<e>>
  BY ONLY <1>1, <1>2, <1>4, SubSeqRecursiveSecond, m \in Seq(Message)
<1>6. c \in Seq(Message)
  <2>1. 1 \in Int /\ k - 1 \in Int /\ \A i \in 1 .. k - 1 : i \in 1 .. Len(m)
    BY <1>3, <1>4
  <2>2. \A i \in 1 .. k - 1 : m[i] \in Message
    BY <2>1, ElementOfSeq
  <2> QED
    BY ONLY <1>1, <2>1, <2>2, SubSeqProperties
<1>7. AreSeqs(Message, q, c, <<e>>)
  BY <1>2, <1>3, <1>6 DEF AreSeqs
<1>8. q \o (c \o <<e>>) = (q \o c) \o <<e>>
  BY <1>7, Associative DEF Associates
<1>9. q \o c \in Seq(Message)
  BY <1>6, ConcatProperties
<1>10. Append(q \o c, e) = (q \o c) \o <<e>>
  BY <1>2, <1>3, <1>9, AppendIsConcat
<1> QED
  BY ONLY <1>1, <1>2, <1>5, <1>8, <1>9, <1>10

LEMMA FlattenReads ==
  ASSUME NEW w \in Seq(WireChunk), NEW q \in Seq(Message), Reads(w, q),
         NEW m \in Seq(Message), m # <<>>,
         NEW f, Flattens(f, [i \in DOMAIN m |-> Chunks(m[i])], Len(m))
  PROVE  MessagesRead(w, q, m, Len(m), f)
<1>1. PICK n : n = Len(m)
  OBVIOUS
<1>2. PICK s : s = [i \in DOMAIN m |-> Chunks(m[i])]
  OBVIOUS
<1>3. n \in Nat \ {0} /\ DOMAIN m = 1 .. n /\ \A i \in 1 .. n : m[i] \in Message
  BY <1>1, EmptySeq, LenProperties, ElementOfSeq
<1>4. \A i \in 1 .. n : s[i] = Chunks(m[i]) /\ s[i] \in Seq(WireChunk)
  <2>1. ASSUME NEW i \in 1 .. n
        PROVE  s[i] = Chunks(m[i]) /\ s[i] \in Seq(WireChunk)
    <3>1. s[i] = Chunks(m[i])
      BY ONLY <1>2, <1>3, i \in 1 .. n
    <3>2. Chunks(m[i]) \in Seq(WireChunk)
      BY <1>3, ChunksOfMessage DEF AreChunks
    <3> QED
      BY <3>1, <3>2
  <2> QED
    BY <2>1
<1>5. \A i \in 1 .. n : f[i] = IF i = 1 THEN s[i] ELSE f[i - 1] \o s[i]
  <2>1. f = [i \in 1 .. n |-> IF i = 1 THEN s[i] ELSE f[i - 1] \o s[i]]
    BY <1>1, <1>2 DEF Flattens
  <2> QED
    BY ONLY <2>1
<1>6. \A k \in 1 .. n : /\ q \o SubSeq(m, 1, k - 1) \in Seq(Message)
                        /\ q \o SubSeq(m, 1, k) = Append(q \o SubSeq(m, 1, k - 1), m[k])
  BY <1>1, FrontGrows
<1> DEFINE T == {k \in Nat : k + 1 <= n => MessagesRead(w, q, m, k + 1, f)}
<1>7. 0 \in T
  <2>1. 1 \in 1 .. n /\ 1 - 1 = 0
    BY <1>3
  <2>2. f[1] = Chunks(m[1]) /\ f[1] \in Seq(WireChunk) /\ m[1] \in Message
    BY <1>3, <1>4, <1>5, <2>1
  <2>3. Reads(w \o f[1], Append(q, m[1]))
    BY <2>2, ReadsMore
  <2>4. Append(q, m[1]) = q \o SubSeq(m, 1, 1)
    <3>1. SubSeq(m, 1, 0) = <<>>
      BY SubSeqEmpty
    <3>2. q \o <<>> = q
      BY ConcatEmptySeq
    <3> QED
      BY ONLY <1>6, <2>1, <3>1, <3>2
  <2>5. MessagesRead(w, q, m, 1, f)
    BY <2>2, <2>3, <2>4 DEF MessagesRead
  <2> QED
    BY <2>5
<1>8. ASSUME NEW k \in T
      PROVE  k + 1 \in T
  <2>1. k \in Nat /\ (k + 1 <= n => MessagesRead(w, q, m, k + 1, f))
    OBVIOUS
  <2>2. ASSUME k + 2 <= n
        PROVE  MessagesRead(w, q, m, k + 2, f)
    <3>1. k + 1 \in 1 .. n /\ k + 2 \in 1 .. n /\ (k + 2) - 1 = k + 1 /\ k + 2 # 1
      BY <1>3, <2>1, <2>2
    <3>2. PICK a : a = f[k + 1]
      OBVIOUS
    <3>3. PICK b : b = Chunks(m[k + 2])
      OBVIOUS
    <3>4. PICK p : p = q \o SubSeq(m, 1, k + 1)
      OBVIOUS
    <3>5. a \in Seq(WireChunk) /\ Reads(w \o a, p)
      BY <2>1, <3>1, <3>2, <3>4 DEF MessagesRead
    <3>6. f[k + 2] = a \o b /\ b \in Seq(WireChunk) /\ m[k + 2] \in Message
      BY <1>3, <1>4, <1>5, <3>1, <3>2, <3>3
    <3>7. w \o a \in Seq(WireChunk) /\ a \o b \in Seq(WireChunk)
      BY <3>5, <3>6, ConcatProperties
    <3>8. Reads((w \o a) \o b, Append(p, m[k + 2]))
      BY <3>3, <3>5, <3>6, <3>7, ReadsMore
    <3>9. (w \o a) \o b = w \o f[k + 2]
      <4>1. AreSeqs(WireChunk, w, a, b)
        BY ONLY <3>5, <3>6, w \in Seq(WireChunk) DEF AreSeqs
      <4>2. (w \o a) \o b = w \o (a \o b)
        BY ONLY <4>1, Associative DEF Associates
      <4> QED
        BY ONLY <3>6, <4>2
    <3>10. q \o SubSeq(m, 1, k + 2) = Append(p, m[k + 2])
      BY ONLY <1>6, <3>1, <3>4
    <3> QED
      BY <3>6, <3>7, <3>8, <3>9, <3>10 DEF MessagesRead
  <2>3. (k + 1) + 1 = k + 2 /\ k + 1 \in Nat
    BY <2>1
  <2> QED
    BY <2>2, <2>3
<1>9. T = Nat
  <2>1. T \subseteq Nat
    OBVIOUS
  <2> HIDE DEF T
  <2> QED
    BY <1>7, <1>8, <2>1, SetInduction
<1>10. n - 1 \in T
  <2> HIDE DEF T
  <2> QED
    BY ONLY <1>3, <1>9
<1>11. (n - 1) + 1 = n /\ n <= n
  BY <1>3
<1> QED
  BY <1>1, <1>10, <1>11

\* What SendHere puts on the wire is read as the messages it was given.
Flat(m) == FlattenSeq([i \in DOMAIN m |-> Chunks(m[i])])

LEMMA FlatIsRead ==
  ASSUME NEW w \in Seq(WireChunk), NEW q \in Seq(Message), Reads(w, q),
         NEW m \in Seq(Message)
  PROVE  w \o Flat(m) \in Seq(WireChunk) /\ Reads(w \o Flat(m), q \o m)
<1>1. PICK s : s = [i \in DOMAIN m |-> Chunks(m[i])]
  OBVIOUS
<1>2. Len(m) \in Nat /\ DOMAIN m = 1 .. Len(m)
  BY LenProperties
<1>3. Len(s) = Len(m)
  BY <1>1, <1>2
<1>4. CASE m = <<>>
  <2>1. Len(s) = 0 /\ s = <<>>
    BY <1>1, <1>3, <1>4
  <2>2. Flat(m) = <<>>
    BY <1>1, <2>1 DEF Flat, FlattenSeq
  <2>3. w \o <<>> = w /\ q \o <<>> = q
    BY ConcatEmptySeq
  <2> QED
    BY ONLY <1>4, <2>2, <2>3, w \in Seq(WireChunk), Reads(w, q)
<1>5. CASE m # <<>>
  <2>1. PICK n : n = Len(m)
    OBVIOUS
  <2>2. n \in Nat \ {0} /\ Len(s) = n
    BY <1>3, <1>5, <2>1, EmptySeq
  <2> DEFINE h == CHOOSE x : Flattens(x, s, n)
  <2>3. Flattens(h, s, n)
    BY <2>2, SomethingFlattens
  <2>4. Flat(m) = h[n]
    BY <1>1, <2>2 DEF Flat, FlattenSeq, Flattens
  <2> HIDE DEF h
  <2>5. MessagesRead(w, q, m, n, h)
    BY <1>1, <1>5, <2>1, <2>3, FlattenReads
  <2>6. SubSeq(m, 1, n) = m
    BY <2>1, SubSeqFull
  <2>7. h[n] \in Seq(WireChunk) /\ Reads(w \o h[n], q \o m)
    BY <2>5, <2>6 DEF MessagesRead
  <2> QED
    BY <2>4, <2>7, ConcatProperties
<1> QED
  BY <1>4, <1>5

\* A peer that reads all it was sent is between messages, and has those that were sent.
WireInv ==
  /\ wire \in [Sessions -> Seq(WireChunk)]
  /\ \A s \in Sessions : Reads(wire[s], sent[s])

\* Chunks that are read as messages, after those of any session.
ReadAs(x, m) ==
  \A w \in Seq(WireChunk), q \in Seq(Message) :
    Reads(w, q) => w \o x \in Seq(WireChunk) /\ Reads(w \o x, q \o m)

LEMMA PutIsRead ==
  ASSUME SessionType, WireInv, NEW p \in Sessions, NEW x, NEW m, ReadAs(x, m), Put(p, x, m)
  PROVE  WireInv'
<1>1. CASE p \in open
  <2>1. PICK w : w = wire[p] \o x
    OBVIOUS
  <2>2. PICK q : q = sent[p] \o m
    OBVIOUS
  <2>3. wire' = [wire EXCEPT ![p] = w] /\ sent' = [sent EXCEPT ![p] = q]
    BY <1>1, <2>1, <2>2 DEF Put
  <2>4. /\ wire[p] \in Seq(WireChunk) /\ sent[p] \in Seq(Message) /\ Reads(wire[p], sent[p])
    BY DEF SessionType, WireInv
  <2>5. w \in Seq(WireChunk) /\ Reads(w, q)
    BY <2>1, <2>2, <2>4 DEF ReadAs
  <2>6. wire \in [Sessions -> Seq(WireChunk)] /\ sent \in [Sessions -> Seq(Message)]
    BY DEF SessionType, WireInv
  <2>7. /\ wire' \in [Sessions -> Seq(WireChunk)]
        /\ wire'[p] = w /\ sent'[p] = q
        /\ \A s \in Sessions : s # p => wire'[s] = wire[s] /\ sent'[s] = sent[s]
    BY ONLY <2>3, <2>5, <2>6, p \in Sessions
  <2> QED
    BY <2>5, <2>7 DEF WireInv
<1>2. CASE p \notin open
  <2>1. UNCHANGED <<wire, sent>>
    BY <1>2 DEF Put
  <2> QED
    BY <2>1 DEF WireInv
<1> QED
  BY <1>1, <1>2

LEMMA SendHereIsRead ==
  ASSUME SessionType, WireInv, NEW s \in Sessions, NEW m \in Seq(Message), SendHere(s, m)
  PROVE  WireInv'
<1>1. Put(s, Flat(m), m)
  BY DEF SendHere, Flat
<1>2. ReadAs(Flat(m), m)
  BY FlatIsRead DEF ReadAs
<1> QED
  BY <1>1, <1>2, PutIsRead

\* A packet that was posted comes as one buffer.
LEMMA RunPostedIsRead ==
  ASSUME SessionType, WireInv, NEW s \in Sessions, RunPosted(s)
  PROVE  WireInv'
<1>1. PICK b : b = Head(posted[s])
  OBVIOUS
<1>2. b \in Posts
  <2>1. posted[s] \in Seq(Posts) /\ posted[s] # <<>>
    BY DEF RunPosted, SessionType
  <2> QED
    BY <1>1, <2>1, TailIsTaken DEF Taken
<1>3. PICK v \in VideoMessages : b = Buffers(v)[1]
  BY <1>2 DEF Posts
<1>4. PICK x : x = Chunks(v)
  OBVIOUS
<1>5. b.chunks = x /\ b.messages = <<v>>
  BY ONLY <1>3, <1>4 DEF Buffers
<1>6. v \in Message
  BY DEF VideoMessages
<1>7. x \in Seq(WireChunk)
  BY <1>4, <1>6, ChunksOfMessage DEF AreChunks
<1>8. ReadAs(x, <<v>>)
  <2> SUFFICES ASSUME NEW w \in Seq(WireChunk), NEW q \in Seq(Message), Reads(w, q)
               PROVE  w \o x \in Seq(WireChunk) /\ Reads(w \o x, q \o <<v>>)
    BY DEF ReadAs
  <2>1. w \o x \in Seq(WireChunk)
    BY <1>7, ConcatProperties
  <2>2. Reads(w \o x, Append(q, v))
    BY <1>4, <1>6, ReadsMore
  <2>3. Append(q, v) = q \o <<v>>
    BY <1>6, AppendIsConcat
  <2> QED
    BY ONLY <2>1, <2>2, <2>3
<1>9. Put(s, x, <<v>>)
  BY <1>1, <1>5 DEF RunPosted
<1> QED
  BY <1>8, <1>9, PutIsRead

LEMMA PlayIsRead ==
  ASSUME SessionType, WireInv, NEW s \in Sessions, NEW stream \in Names, Play(s, stream)
  PROVE  WireInv'
<1>1. PICK name \in Names : name = SourceName(s, stream)
  BY DEF SessionType, SourceName
<1>2. \/ SendHere(s, PlayOrder(PlayReplies, Media(name)))
      \/ SendHere(s, PlayReplies)
  BY <1>1 DEF Play
<1>3. PlayOrder(PlayReplies, Media(name)) \in Seq(Message) /\ PlayReplies \in Seq(Message)
  BY PlayIsOrdered, RepliesArePlain
<1> QED
  BY <1>2, <1>3, SendHereIsRead

\* The publisher's own loop sends at once, for another it posts.
LEMMA DeliverIsRead ==
  ASSUME SessionType, PacketInv, WireInv, NEW s \in Sessions, Deliver(s)
  PROVE  WireInv'
<1>1. PICK v : v = Video(packet[s])
  OBVIOUS
<1>2. packet[s] \in Pictures
  BY DEF Deliver, PacketInv
<1>3. v \in Message
  BY <1>1, <1>2, VideoFields DEF Pictures
<1>4. SendHere(s, <<v>>) \/ UNCHANGED <<wire, sent>>
  BY <1>1 DEF Deliver, PostSend
<1>5. CASE SendHere(s, <<v>>)
  <2>1. <<v>> \in Seq(Message)
    BY <1>3
  <2> QED
    BY <1>5, <2>1, SendHereIsRead
<1>6. CASE UNCHANGED <<wire, sent>>
  BY <1>6 DEF WireInv
<1> QED
  BY <1>4, <1>5, <1>6

LEMMA WireInit == Init => WireInv
<1> SUFFICES ASSUME Init
             PROVE  WireInv
  OBVIOUS
<1>1. wire = [s \in Sessions |-> <<>>] /\ sent = [s \in Sessions |-> <<>>]
  BY DEF Init
<1>2. <<>> \in Seq(WireChunk) /\ Len(<<>>) = 0
  BY EmptySeq
<1>3. wire \in [Sessions -> Seq(WireChunk)]
  BY <1>1, <1>2
<1>4. Reads(<<>>, <<>>)
  <2>1. PICK g : g = [i \in 0 .. 0 |-> Start]
    OBVIOUS
  <2>2. g = [i \in 0 .. 0 |-> IF i = 0 THEN Start ELSE Read(g[i - 1], <<>>[i])]
    BY <2>1
  <2>3. Reader(<<>>, g)
    BY <1>2, <2>2 DEF Reader
  <2>4. g[0] = Start
    BY <2>1
  <2>5. AtRest(Start, <<>>)
    BY DEF AtRest, Start, Quiet
  <2> QED
    BY <1>2, <2>3, <2>4, <2>5 DEF Reads
<1> QED
  BY <1>1, <1>3, <1>4 DEF WireInv

LEMMA WireStep == SessionInv /\ WireInv /\ [Next]_vars => WireInv'
<1> SUFFICES ASSUME SessionInv, WireInv, [Next]_vars
             PROVE  WireInv'
  OBVIOUS
<1>1. SessionType /\ PacketInv
  BY DEF SessionInv
<1>2. CASE UNCHANGED <<wire, sent>>
  BY <1>2 DEF WireInv
<1>3. ASSUME NEW s \in Sessions, Step(s)
      PROVE  WireInv'
  <2>1. ASSUME NEW m \in Seq(Message), SendHere(s, m)
        PROVE  WireInv'
    BY <1>1, <2>1, SendHereIsRead
  <2>2. ASSUME NEW name \in Names, Connect(s, name)
        PROVE  WireInv'
    BY <2>1, <2>2, RepliesArePlain DEF Connect
  <2>3. ASSUME NEW replies \in {CreateStreamReplies, ResultReplies}, Answer(s, replies)
        PROVE  WireInv'
    BY <2>1, <2>3, RepliesArePlain DEF Answer
  <2>4. ASSUME Publish(s)
        PROVE  WireInv'
    BY <2>1, <2>4, RepliesArePlain DEF Publish
  <2>5. ASSUME NEW stream \in Names, Play(s, stream)
        PROVE  WireInv'
    BY <1>1, <2>5, PlayIsRead
  <2>6. CASE Deliver(s)
    BY <1>1, <2>6, DeliverIsRead
  <2>7. CASE RunPosted(s)
    BY <1>1, <2>7, RunPostedIsRead
  <2>8. CASE Register(s) \/ Cache(s)
    BY <1>2, <2>8 DEF Register, Cache, wireVars
  <2>9. ASSUME NEW config, NEW key, NEW size, HandleVideo(s, config, key, size)
        PROVE  WireInv'
    BY <1>2, <2>9 DEF HandleVideo, wireVars
  <2> QED
    BY <1>3, <2>2, <2>3, <2>4, <2>5, <2>6, <2>7, <2>8, <2>9 DEF Step
<1>4. ASSUME NEW s \in Sessions, Leave(s)
      PROVE  WireInv'
  BY <1>2, <1>4 DEF Leave, wireVars
<1> QED
  BY <1>2, <1>3, <1>4 DEF Next, vars, wireVars

\* However the loop of a connection and the publisher's share it, and however long the
\* messages are for the chunk size: what the peer reads is the messages SendRtmpProtol was
\* called with, whole and in the order of the calls.
THEOREM WireStaysMessages == Spec => []WireIsMessages
<1>1. SessionInv /\ WireInv => WireIsMessages
  <2> SUFFICES ASSUME SessionInv, WireInv, NEW s \in Sessions
               PROVE  ~ ReadAll(wire[s]).lost /\ ReadAll(wire[s]).done = sent[s]
    BY DEF WireIsMessages
  <2> QED
    BY ReadAllIsRead DEF WireInv
<1> QED
  BY <1>1, SessionInit, SessionStep, WireInit, WireStep, PTL DEF Spec

-----------------------------------------------------------------------------
(* RtmpDecoder. Its invariant speaks of everything sent so far: the bytes     *)
(* (hist), cut into the chunks 1 .. n (chunk) that end at the places off[2],  *)
(* off[3], ..., and what the peer knew before each (st). The decoder has read *)
(* the first d - 1 of them and knows what the peer knew then: that is all a   *)
(* header may leave out.                                                      *)

MessageTypes == {"media", "chunk size", "ack"}
PeerMessage == [type : MessageTypes, size : Nat, value : Nat, time : Nat, field : Nat]
ByteParts == {"version", "shake", "head", "time", "size and type", "stream", "body", "none"}
ByteValues == BOOLEAN \union Nat \union ((0 .. 3) \X Channels) \union (Nat \X MessageTypes)
                \union (Nat \X Nat)
Bytes == [part : ByteParts, value : ByteValues]
Kept == [time : Nat, absoluteTime : Nat, bodySize : Nat, type : MessageTypes \union {"empty"},
         iobuf : Seq(Bytes)]

\* What the peer knows before a chunk: the decoder gets to know it by reading what was
\* sent before.
PeerState == [partial : [Channels -> [message : Nat, sent : Nat]],
              latest : [Channels -> Nat], chunk : Nat \ {0}, done : Nat]
\* A chunk of message i: the bytes after `from` up to `upto`.
PeerChunk == [fmt : 0 .. 3, c : Channels, i : Nat, from : Nat, upto : Nat]

Now == [partial |-> partial, latest |-> latest, chunk |-> peerChunk, done |-> Len(finished)]

C1End == 1 + Shake
C2End == 1 + Shake + Shake

MessagesOK(ms) ==
  /\ ms \in Seq(PeerMessage)
  /\ \A i \in 1 .. Len(ms) : ms[i].type = "chunk size" => ms[i].size # 0 /\ ms[i].value # 0

DecoderType ==
  /\ MessagesOK(messages)
  /\ finished \in Seq(Nat)
  /\ \A j \in 1 .. Len(finished) : finished[j] \in 1 .. Len(messages)
  /\ Now \in PeerState
  /\ c2Sent \in BOOLEAN
  /\ net \in Seq(Bytes) /\ buffer \in Seq(Bytes)
  /\ state \in {"C0C1", "C2", "Done"}
  /\ chunkSize \in Nat \ {0}
  /\ channels \in [Channels -> Kept]
  /\ packets \in Seq(Kept) /\ delivered \in Seq(Kept)
  /\ decodePc = "Idle" => packets = <<>>

\* The bytes sent so far: `used` have been consumed, the next are in the buffer b, the
\* others on their way, in w.
BytesOK(hist, used, b, w) ==
  /\ hist \in Seq(Bytes) /\ used \in Nat
  /\ b \in Seq(Bytes) /\ w \in Seq(Bytes)
  /\ used + Len(b) + Len(w) = Len(hist)
  /\ \A j \in 1 .. Len(b) : b[j] = hist[used + j]
  /\ \A j \in 1 .. Len(w) : w[j] = hist[used + Len(b) + j]

StateOK(ms, f, s) ==
  /\ s \in PeerState
  /\ s.done <= Len(f)
  /\ \A c \in Channels :
       /\ s.latest[c] <= Len(ms)
       /\ s.partial[c] # Decoder!Whole =>
            /\ s.latest[c] # 0 /\ s.partial[c].message = s.latest[c]
            /\ s.partial[c].sent # 0
            /\ s.partial[c].sent < ms[s.latest[c]].size

\* Chunk k begins a message, with what it may leave out.
Begins(ms, s, k) ==
  LET m == ms[k.i]
      p == ms[s.latest[k.c]]
  IN  /\ s.partial[k.c] = Decoder!Whole
      /\ k.from = 0
      /\ k.fmt = 0 => m.time = m.field
      /\ k.fmt # 0 => s.latest[k.c] # 0 /\ m.time = m.field + p.time
      /\ k.fmt >= 2 => m.size = p.size /\ m.type = p.type
      /\ k.fmt = 3 => m.field = p.field

Continues(s, k) ==
  /\ s.partial[k.c] # Decoder!Whole
  /\ s.partial[k.c].message = k.i
  /\ s.partial[k.c].sent = k.from
  /\ k.fmt = 3

IsLast(ms, k) == k.upto = ms[k.i].size

\* What the peer knows behind chunk k.
Behind(ms, s, k) ==
  [partial |-> [s.partial EXCEPT ![k.c] = IF IsLast(ms, k) THEN Decoder!Whole
                                          ELSE [message |-> k.i, sent |-> k.upto]],
   latest |-> [s.latest EXCEPT ![k.c] = k.i],
   chunk |-> IF IsLast(ms, k) /\ ms[k.i].type = "chunk size" THEN ms[k.i].value ELSE s.chunk,
   done |-> IF IsLast(ms, k) /\ ms[k.i].type = "media" THEN s.done + 1 ELSE s.done]

ChunkOK(ms, f, s, k, t) ==
  /\ k \in PeerChunk
  /\ k.i \in 1 .. Len(ms)
  /\ Begins(ms, s, k) \/ Continues(s, k)
  /\ k.upto = Decoder!Lesser(ms[k.i].size, k.from + s.chunk)
  /\ t = Behind(ms, s, k)
  /\ t.done # s.done => f[t.done] = k.i

\* Chunk k is in the bytes behind place o, and ends at place e.
OnWire(ms, hist, o, k, e) ==
  /\ e = o + (4 - k.fmt) + (k.upto - k.from)
  /\ hist[o + 1] = Decoder!Byte("head", <<k.fmt, k.c>>)
  /\ k.fmt <= 2 => hist[o + 2] = Decoder!Byte("time", ms[k.i].field)
  /\ k.fmt <= 1 => hist[o + 3] = Decoder!Byte("size and type", <<ms[k.i].size, ms[k.i].type>>)
  /\ \A j \in 1 .. k.upto - k.from :
       hist[o + (4 - k.fmt) + j] = Decoder!Byte("body", <<k.i, k.from + j>>)

\* The chunks sent so far, what the peer knew before each, and where each is.
LogOK(ms, f, now, hist, n, chunk, st, off) ==
  /\ n \in Nat
  /\ off \in [1 .. n + 1 -> Nat]
  /\ off[1] = C2End
  /\ off[n + 1] = Len(hist)
  /\ st[n + 1] = now
  /\ \A j \in 1 .. n + 1 : StateOK(ms, f, st[j]) /\ off[j] <= off[n + 1]
  /\ \A j \in 1 .. n : /\ ChunkOK(ms, f, st[j], chunk[j], st[j + 1])
                       /\ OnWire(ms, hist, off[j], chunk[j], off[j + 1])

\* Before the peer has answered S1 there is only what it opened with, and no message.
Opening(hist, n, st) ==
  /\ n = 0 /\ Len(hist) = C1End /\ st[1] = Now /\ StateOK(messages, finished, Now)
  /\ partial = [c \in Channels |-> Decoder!Whole]

LogInv(hist, n, chunk, st, off) ==
  IF c2Sent THEN LogOK(messages, finished, Now, hist, n, chunk, st, off)
  ELSE Opening(hist, n, st)

\* What decode keeps of a channel, at the end of a chunk.
Matches(ms, ch, s, c) ==
  IF s.latest[c] = 0 THEN ch = Decoder!NewChannel
  ELSE /\ ch.time = ms[s.latest[c]].field /\ ch.absoluteTime = ms[s.latest[c]].time
       /\ ch.bodySize = ms[s.latest[c]].size /\ ch.type = ms[s.latest[c]].type
       /\ ch.iobuf = IF s.partial[c] = Decoder!Whole THEN Decoder!NoBuffer
                     ELSE Decoder!Payload(s.latest[c], 0, s.partial[c].sent)

\* And when it has looked at the header of chunk k.
Opened(ms, ch, k) ==
  /\ ch.time = ms[k.i].field /\ ch.absoluteTime = ms[k.i].time
  /\ ch.bodySize = ms[k.i].size /\ ch.type = ms[k.i].type
  /\ ch.iobuf = Decoder!Payload(k.i, 0, k.from)

\* The decoder has got to the end of a chunk, or has looked at the header of the next.
Follows(ms, chs, s, n, chunk, d) ==
  \A c \in Channels : \/ Matches(ms, chs[c], s, c)
                      \/ d <= n /\ chunk[d].c = c /\ Opened(ms, chs[c], chunk[d])

SentOf(ms, i) == [time |-> ms[i].time, body |-> Decoder!Payload(i, 0, ms[i].size)]

\* The packets handed out are the first `done` messages finished.
HandedOut(ms, f, got, done) ==
  /\ Len(got) = done
  /\ \A j \in 1 .. done : Decoder!Shown(got[j]) = SentOf(ms, f[j])

\* The decoder has read d - 1 chunks, and knows what the peer knew then.
ReadInv(used, n, chunk, st, off, d) ==
  /\ d \in 1 .. n + 1
  /\ state = "C0C1" => ~c2Sent /\ used \in {0, 1}
  /\ state = "C2" => used = C1End
  /\ state # "Done" => d = 1
  /\ state = "Done" => c2Sent /\ used = off[d]
  /\ chunkSize = st[d].chunk
  /\ Follows(messages, channels, st[d], n, chunk, d)
  /\ HandedOut(messages, finished, delivered \o packets, st[d].done)
  /\ decodePc = "Idle" /\ state = "Done" =>
       \/ buffer = <<>>
       \/ d <= n /\ Len(buffer) < off[d + 1] - off[d]

DecoderInv ==
  /\ DecoderType
  /\ \E hist, used, n, chunk, st, off, d :
       /\ BytesOK(hist, used, buffer, net)
       /\ LogInv(hist, n, chunk, st, off)
       /\ ReadInv(used, n, chunk, st, off, d)

-----------------------------------------------------------------------------
(* Bytes *)

LEMMA ByteIsByte ==
  ASSUME NEW p \in ByteParts, NEW v \in ByteValues
  PROVE  Decoder!Byte(p, v) \in Bytes
BY DEF Decoder!Byte, Bytes

LEMMA PayloadIs ==
  ASSUME NEW i \in Nat, NEW a \in Nat, NEW b \in Nat, a <= b
  PROVE  /\ Decoder!Payload(i, a, b) \in Seq(Bytes)
         /\ Len(Decoder!Payload(i, a, b)) = b - a
         /\ \A j \in 1 .. b - a : Decoder!Payload(i, a, b)[j] = Decoder!Byte("body", <<i, a + j>>)
<1> DEFINE P == Decoder!Payload(i, a, b)
           n == b - a
<1>1. n \in Nat
  OBVIOUS
<1>2. P = [j \in 1 .. n |-> Decoder!Byte("body", <<i, a + j>>)]
  BY DEF Decoder!Payload
<1>3. ASSUME NEW j \in 1 .. n
      PROVE  Decoder!Byte("body", <<i, a + j>>) \in Bytes
  <2>1. "body" \in ByteParts /\ <<i, a + j>> \in ByteValues
    BY DEF ByteParts, ByteValues
  <2> QED
    BY <2>1, ByteIsByte
<1> HIDE DEF P, n
<1>4. P \in [1 .. n -> Bytes]
  BY ONLY <1>2, <1>3
<1>5. P \in Seq(Bytes) /\ Len(P) = n
  BY ONLY <1>1, <1>4
<1>6. \A j \in 1 .. n : P[j] = Decoder!Byte("body", <<i, a + j>>)
  BY ONLY <1>2
<1> QED
  BY <1>5, <1>6 DEF P, n

LEMMA PayloadFromStart ==
  ASSUME NEW i \in Nat, NEW b \in Nat
  PROVE  /\ Decoder!Payload(i, 0, b) \in Seq(Bytes)
         /\ Len(Decoder!Payload(i, 0, b)) = b
         /\ \A j \in 1 .. b : Decoder!Payload(i, 0, b)[j] = Decoder!Byte("body", <<i, j>>)
         /\ Decoder!Payload(i, 0, b) # Decoder!NoBuffer
<1>1. 0 \in Nat /\ 0 <= b
  OBVIOUS
<1>2. /\ Decoder!Payload(i, 0, b) \in Seq(Bytes)
      /\ Len(Decoder!Payload(i, 0, b)) = b - 0
      /\ \A j \in 1 .. b - 0 : Decoder!Payload(i, 0, b)[j] = Decoder!Byte("body", <<i, 0 + j>>)
  BY ONLY <1>1, PayloadIs, i \in Nat, b \in Nat
<1>3. b - 0 = b /\ \A j \in 1 .. b : 0 + j = j
  OBVIOUS
<1>4. \A j \in 1 .. b : Decoder!Payload(i, 0, b)[j] = Decoder!Byte("body", <<i, j>>)
  <2> SUFFICES ASSUME NEW j \in 1 .. b
               PROVE  Decoder!Payload(i, 0, b)[j] = Decoder!Byte("body", <<i, j>>)
    OBVIOUS
  <2>1. j \in 1 .. b - 0 /\ 0 + j = j
    BY <1>3
  <2> QED
    BY ONLY <1>2, <2>1
<1>5. Decoder!Payload(i, 0, b) # Decoder!NoBuffer
  <2> SUFFICES ASSUME Decoder!Payload(i, 0, b) = Decoder!NoBuffer
               PROVE  FALSE
    OBVIOUS
  <2>1. Len(Decoder!NoBuffer) = 1 /\ Decoder!NoBuffer[1] = Decoder!Byte("none", <<0, 0>>)
    BY ONLY DEF Decoder!NoBuffer
  <2>2. b = 1
    BY <1>2, <1>3, <2>1
  <2>3. 1 \in 1 .. b
    BY <2>2
  <2>4. Decoder!NoBuffer[1] = Decoder!Byte("body", <<i, 1>>)
    BY ONLY <1>4, <2>3, Decoder!Payload(i, 0, b) = Decoder!NoBuffer
  <2>5. Decoder!Byte("none", <<0, 0>>).part = "none" /\ Decoder!Byte("body", <<i, 1>>).part = "body"
    BY ONLY DEF Decoder!Byte
  <2> QED
    BY ONLY <2>1, <2>4, <2>5
<1> QED
  BY ONLY <1>2, <1>3, <1>4, <1>5

LEMMA EmptyPayload ==
  ASSUME NEW i \in Nat
  PROVE  Decoder!Payload(i, 0, 0) = <<>>
<1>1. Decoder!Payload(i, 0, 0) \in Seq(Bytes) /\ Len(Decoder!Payload(i, 0, 0)) = 0
  BY PayloadFromStart
<1> QED
  BY <1>1, EmptySeq

\* More bytes of the same message.
NextBytes(i, a, b, x) ==
  /\ x \in Seq(Bytes) /\ Len(x) = b - a
  /\ \A j \in 1 .. b - a : x[j] = Decoder!Byte("body", <<i, a + j>>)
Grown(i, a, b, x) == Decoder!Payload(i, 0, a) \o x = Decoder!Payload(i, 0, b)

LEMMA PayloadGrows ==
  ASSUME NEW i \in Nat, NEW a \in Nat, NEW b \in Nat, a <= b, NEW s, NextBytes(i, a, b, s)
  PROVE  Grown(i, a, b, s)
<1>0. /\ s \in Seq(Bytes) /\ Len(s) = b - a
      /\ \A j \in 1 .. b - a : s[j] = Decoder!Byte("body", <<i, a + j>>)
  BY DEF NextBytes
<1> DEFINE P == Decoder!Payload(i, 0, a)
           Q == Decoder!Payload(i, 0, b)
           R == P \o s
<1>1. /\ P \in Seq(Bytes) /\ Len(P) = a
      /\ \A j \in 1 .. a : P[j] = Decoder!Byte("body", <<i, j>>)
  BY PayloadFromStart
<1>2. /\ Q \in Seq(Bytes) /\ Len(Q) = b
      /\ \A j \in 1 .. b : Q[j] = Decoder!Byte("body", <<i, j>>)
  BY PayloadFromStart
<1> HIDE DEF P, Q
<1>3. /\ R \in Seq(Bytes) /\ Len(R) = Len(P) + Len(s)
      /\ \A j \in 1 .. Len(P) + Len(s) : R[j] = IF j <= Len(P) THEN P[j] ELSE s[j - Len(P)]
  BY <1>0, <1>1, ConcatProperties
<1>4. Len(P) + Len(s) = b
  BY <1>0, <1>1
<1> HIDE DEF R
<1>5. ASSUME NEW j \in 1 .. b
      PROVE  R[j] = Q[j]
  <2>1. CASE j <= a
    <3>1. j \in 1 .. a
      BY <2>1
    <3>2. R[j] = P[j]
      BY <1>1, <1>3, <1>4, <2>1
    <3> QED
      BY <1>1, <1>2, <3>1, <3>2
  <2>2. CASE ~ j <= a
    <3>1. j - a \in 1 .. b - a /\ a + (j - a) = j
      BY <2>2
    <3>2. R[j] = s[j - a]
      BY <1>1, <1>3, <1>4, <2>2
    <3> QED
      BY <1>0, <1>2, <3>1, <3>2
  <2> QED
    BY <2>1, <2>2
<1>6. R = Q
  BY ONLY <1>2, <1>3, <1>4, <1>5, SeqEqual
<1> QED
  BY <1>6 DEF Grown, R, P, Q

-----------------------------------------------------------------------------
(* The log *)

\* Sequence t is s with more behind it.
Extends(s, t) ==
  /\ Len(s) \in Nat /\ Len(t) \in Nat /\ Len(s) <= Len(t)
  /\ \A j \in 1 .. Len(s) : t[j] = s[j]

LEMMA ExtendsItself == ASSUME NEW S, NEW s \in Seq(S) PROVE Extends(s, s)
BY LenProperties DEF Extends

LEMMA AppendExtends ==
  ASSUME NEW S, NEW s \in Seq(S), NEW e \in S
  PROVE  Extends(s, Append(s, e))
<1>1. /\ Append(s, e) \in Seq(S)
      /\ Len(Append(s, e)) = Len(s) + 1
      /\ \A i \in 1 .. Len(s) : Append(s, e)[i] = s[i]
  BY AppendProperties
<1> QED
  BY ONLY <1>1, s \in Seq(S), LenProperties DEF Extends

LEMMA ConcatExtends ==
  ASSUME NEW S, NEW s \in Seq(S), NEW t \in Seq(S)
  PROVE  Extends(s, s \o t)
<1>1. /\ Len(s \o t) = Len(s) + Len(t)
      /\ \A i \in 1 .. Len(s) + Len(t) :
           (s \o t)[i] = IF i <= Len(s) THEN s[i] ELSE t[i - Len(s)]
  BY ConcatProperties
<1>2. Len(s) \in Nat /\ Len(t) \in Nat
  BY LenProperties
<1> QED
  BY ONLY <1>1, <1>2 DEF Extends

\* What is true of the messages begun so far stays so when one more is begun.
StateStays(ms, f, ms2, f2, s) == StateOK(ms, f, s) => StateOK(ms2, f2, s)

LEMMA StateOfMore ==
  ASSUME NEW ms, NEW f, NEW ms2, NEW f2, NEW s, Extends(ms, ms2), Extends(f, f2)
  PROVE  StateStays(ms, f, ms2, f2, s)
<1> SUFFICES ASSUME StateOK(ms, f, s)
             PROVE  StateOK(ms2, f2, s)
  BY DEF StateStays
<1>1. s \in PeerState /\ s.done <= Len(f)
  BY DEF StateOK
<1>2. s.done <= Len(f2)
  BY <1>1 DEF Extends, PeerState
<1>3. ASSUME NEW c \in Channels
      PROVE  /\ s.latest[c] <= Len(ms2)
             /\ s.partial[c] # Decoder!Whole =>
                  /\ s.latest[c] # 0 /\ s.partial[c].message = s.latest[c]
                  /\ s.partial[c].sent # 0
                  /\ s.partial[c].sent < ms2[s.latest[c]].size
  <2>1. s.latest[c] \in Nat
    BY <1>1 DEF PeerState
  <2>2. /\ s.latest[c] <= Len(ms)
        /\ s.partial[c] # Decoder!Whole =>
             /\ s.latest[c] # 0 /\ s.partial[c].message = s.latest[c]
             /\ s.partial[c].sent # 0
             /\ s.partial[c].sent < ms[s.latest[c]].size
    BY DEF StateOK
  <2>3. s.latest[c] # 0 => ms2[s.latest[c]] = ms[s.latest[c]]
    BY <2>1, <2>2 DEF Extends
  <2>4. s.latest[c] <= Len(ms2)
    BY <2>1, <2>2 DEF Extends
  <2> QED
    BY <2>2, <2>3, <2>4
<1> QED
  BY <1>1, <1>2, <1>3 DEF StateOK

ChunkStays(ms, f, ms2, f2, s, k, t) == ChunkOK(ms, f, s, k, t) => ChunkOK(ms2, f2, s, k, t)

LEMMA ChunkOfMore ==
  ASSUME NEW ms, NEW f, NEW ms2, NEW f2, NEW s, NEW k, NEW t, Extends(ms, ms2),
         Extends(f, f2), StateOK(ms, f, s), StateOK(ms, f, t)
  PROVE  ChunkStays(ms, f, ms2, f2, s, k, t)
<1> SUFFICES ASSUME ChunkOK(ms, f, s, k, t)
             PROVE  ChunkOK(ms2, f2, s, k, t)
  BY DEF ChunkStays
<1>1. /\ k \in PeerChunk /\ k.i \in 1 .. Len(ms)
      /\ Begins(ms, s, k) \/ Continues(s, k)
      /\ k.upto = Decoder!Lesser(ms[k.i].size, k.from + s.chunk)
      /\ t = Behind(ms, s, k)
      /\ t.done # s.done => f[t.done] = k.i
  BY DEF ChunkOK
<1>2. k.i \in 1 .. Len(ms2) /\ ms2[k.i] = ms[k.i]
  BY <1>1 DEF Extends
<1>3. /\ s.latest[k.c] \in Nat /\ s.latest[k.c] <= Len(ms)
      /\ s.done \in Nat /\ t.done \in Nat /\ t.done <= Len(f)
  BY <1>1 DEF StateOK, PeerState, PeerChunk
<1>4. s.latest[k.c] # 0 => ms2[s.latest[k.c]] = ms[s.latest[k.c]]
  BY <1>3 DEF Extends
<1>5. Begins(ms, s, k) => Begins(ms2, s, k)
  <2> SUFFICES ASSUME Begins(ms, s, k)
               PROVE  Begins(ms2, s, k)
    OBVIOUS
  <2>1. k.fmt \in 0 .. 3
    BY <1>1 DEF PeerChunk
  <2>2. k.fmt >= 2 => k.fmt # 0
    BY <2>1
  <2>3. k.fmt = 3 => k.fmt # 0
    OBVIOUS
  <2> QED
    BY <1>2, <1>4, <2>2, <2>3 DEF Begins
<1>6. IsLast(ms2, k) <=> IsLast(ms, k)
  BY <1>2 DEF IsLast
<1>7. t = Behind(ms2, s, k)
  BY <1>1, <1>2, <1>6 DEF Behind
<1>8. t.done # s.done => t.done \in 1 .. Len(f)
  <2>1. t.done = s.done + 1 \/ t.done = s.done
    BY <1>1 DEF Behind
  <2> QED
    BY <1>3, <2>1 DEF Extends
<1>9. t.done # s.done => f2[t.done] = k.i
  BY <1>1, <1>8 DEF Extends
<1> QED
  BY <1>1, <1>2, <1>5, <1>7, <1>9 DEF ChunkOK

WireStays(ms, hist, ms2, hist2, o, k, e) == OnWire(ms, hist, o, k, e) => OnWire(ms2, hist2, o, k, e)

LEMMA WireOfMore ==
  ASSUME NEW ms, NEW ms2, NEW hist, NEW hist2, NEW o \in Nat, NEW k \in PeerChunk, NEW e \in Nat,
         Extends(ms, ms2), Extends(hist, hist2), k.i \in 1 .. Len(ms), e <= Len(hist),
         k.from <= k.upto
  PROVE  WireStays(ms, hist, ms2, hist2, o, k, e)
<1> SUFFICES ASSUME OnWire(ms, hist, o, k, e)
             PROVE  OnWire(ms2, hist2, o, k, e)
  BY DEF WireStays
<1>1. k.fmt \in 0 .. 3 /\ k.from \in Nat /\ k.upto \in Nat
  BY DEF PeerChunk
<1>2. ms2[k.i] = ms[k.i]
  BY DEF Extends
<1>3. e = o + (4 - k.fmt) + (k.upto - k.from)
  BY DEF OnWire
<1> DEFINE h == 4 - k.fmt
           b == k.upto - k.from
<1>h. h \in 1 .. 4 /\ b \in Nat
  BY <1>1
<1>l. Len(hist) \in Nat
  BY DEF Extends
<1>4. \A j \in 1 .. h + b : hist2[o + j] = hist[o + j]
  <2> HIDE DEF h, b
  <2> SUFFICES ASSUME NEW j \in 1 .. h + b
               PROVE  hist2[o + j] = hist[o + j]
    OBVIOUS
  <2>0. e = o + h + b
    BY <1>3 DEF h, b
  <2>1. o + j \in 1 .. Len(hist)
    BY ONLY <1>h, <1>l, <2>0, o \in Nat, e \in Nat, e <= Len(hist), j \in 1 .. h + b
  <2> QED
    BY <2>1 DEF Extends
<1>5. hist2[o + 1] = Decoder!Byte("head", <<k.fmt, k.c>>)
  <2>1. 1 \in 1 .. h + b
    BY <1>h
  <2> QED
    BY <1>4, <2>1 DEF OnWire
<1>6. k.fmt <= 2 => hist2[o + 2] = Decoder!Byte("time", ms2[k.i].field)
  <2>1. k.fmt <= 2 => 2 \in 1 .. h + b
    BY <1>1, <1>h
  <2> QED
    BY <1>2, <1>4, <2>1 DEF OnWire
<1>7. k.fmt <= 1 => hist2[o + 3] = Decoder!Byte("size and type", <<ms2[k.i].size, ms2[k.i].type>>)
  <2>1. k.fmt <= 1 => 3 \in 1 .. h + b
    BY <1>1, <1>h
  <2> QED
    BY <1>2, <1>4, <2>1 DEF OnWire
<1>8. ASSUME NEW j \in 1 .. k.upto - k.from
      PROVE  hist2[o + (4 - k.fmt) + j] = Decoder!Byte("body", <<k.i, k.from + j>>)
  <2>3. hist[o + (4 - k.fmt) + j] = Decoder!Byte("body", <<k.i, k.from + j>>)
    BY DEF OnWire
  <2> HIDE DEF h, b
  <2>0. j \in 1 .. b
    BY DEF b
  <2>1. h + j \in 1 .. h + b
    BY ONLY <1>h, <2>0
  <2>2. o + (h + j) = o + h + j
    BY ONLY <1>h, <2>0, o \in Nat
  <2>4. hist2[o + h + j] = hist[o + h + j]
    BY ONLY <1>4, <2>1, <2>2
  <2> QED
    BY <2>3, <2>4 DEF h
<1> QED
  BY <1>3, <1>5, <1>6, <1>7, <1>8 DEF OnWire

\* A chunk does not go back, and is within its message.
LEMMA ForwardChunk ==
  ASSUME NEW ms, NEW f, NEW s, NEW k, NEW t, StateOK(ms, f, s), ChunkOK(ms, f, s, k, t),
         MessagesOK(ms)
  PROVE  /\ k.from <= k.upto /\ k.upto <= ms[k.i].size
         /\ k.upto = ms[k.i].size \/ k.upto = k.from + s.chunk
<1>1. /\ k \in PeerChunk /\ k.i \in 1 .. Len(ms)
      /\ Begins(ms, s, k) \/ Continues(s, k)
      /\ k.upto = Decoder!Lesser(ms[k.i].size, k.from + s.chunk)
  BY DEF ChunkOK
<1>2. s \in PeerState
  BY DEF StateOK
<1>3. s.chunk \in Nat /\ k.from \in Nat /\ ms[k.i].size \in Nat
  <2>1. ms \in Seq(PeerMessage)
    BY DEF MessagesOK
  <2>2. ms[k.i] \in PeerMessage
    BY ONLY <1>1, <2>1, ElementOfSeq
  <2>3. ms[k.i].size \in Nat
    BY ONLY <2>2 DEF PeerMessage
  <2>4. k.from \in Nat
    BY ONLY <1>1 DEF PeerChunk
  <2>5. s.chunk \in Nat
    BY ONLY <1>2 DEF PeerState
  <2> QED
    BY ONLY <2>3, <2>4, <2>5
<1>4. k.from <= ms[k.i].size
  <2>1. CASE Begins(ms, s, k)
    BY <1>3, <2>1 DEF Begins
  <2>2. CASE Continues(s, k)
    <3>1. /\ s.partial[k.c] # Decoder!Whole
          /\ s.partial[k.c].message = k.i /\ s.partial[k.c].sent = k.from
      BY <2>2 DEF Continues
    <3>2. s.partial[k.c].message = s.latest[k.c] /\ s.partial[k.c].sent < ms[s.latest[k.c]].size
      BY <1>1, <3>1 DEF StateOK, PeerChunk
    <3> QED
      BY <1>3, <3>1, <3>2
  <2> QED
    BY <1>1, <2>1, <2>2
<1> QED
  BY <1>1, <1>3, <1>4 DEF Decoder!Lesser

\* One more chunk.
More(f, n, x) == [j \in 1 .. n + 1 |-> IF j <= n THEN f[j] ELSE x]

LEMMA MoreIs ==
  ASSUME NEW f, NEW n \in Nat, NEW x
  PROVE  /\ \A j \in 1 .. n : More(f, n, x)[j] = f[j]
         /\ More(f, n, x)[n + 1] = x
BY DEF More

\* The log behind a chunk that the peer has sent.
ChunkSent(ms, f, now, hist, ms2, f2, now2, hist2, k) ==
  /\ Extends(ms, ms2) /\ Extends(f, f2) /\ Extends(hist, hist2)
  /\ StateOK(ms2, f2, now2)
  /\ ChunkOK(ms2, f2, now, k, now2)
  /\ OnWire(ms2, hist2, Len(hist), k, Len(hist2))

LogBehind(ms, f, now, hist, n, chunk, st, off, k) ==
  LogOK(ms, f, now, hist, n + 1, More(chunk, n, k), More(st, n + 1, now),
        More(off, n + 1, Len(hist)))

LEMMA LogGrows ==
  ASSUME NEW ms, NEW f, NEW now, NEW hist, NEW n, NEW chunk, NEW st, NEW off,
         NEW ms2, NEW f2, NEW now2, NEW hist2, NEW k,
         MessagesOK(ms), LogOK(ms, f, now, hist, n, chunk, st, off),
         ChunkSent(ms, f, now, hist, ms2, f2, now2, hist2, k)
  PROVE  LogBehind(ms2, f2, now2, hist2, n, chunk, st, off, k)
<1> DEFINE chunk2 == More(chunk, n, k)
           st2 == More(st, n + 1, now2)
           off2 == More(off, n + 1, Len(hist2))
<1>1. /\ Extends(ms, ms2) /\ Extends(f, f2) /\ Extends(hist, hist2)
      /\ StateOK(ms2, f2, now2)
      /\ ChunkOK(ms2, f2, now, k, now2)
      /\ OnWire(ms2, hist2, Len(hist), k, Len(hist2))
  BY ONLY ChunkSent(ms, f, now, hist, ms2, f2, now2, hist2, k) DEF ChunkSent
<1>2. /\ n \in Nat
      /\ off \in [1 .. n + 1 -> Nat]
      /\ off[1] = C2End
      /\ off[n + 1] = Len(hist)
      /\ st[n + 1] = now
      /\ \A j \in 1 .. n + 1 : StateOK(ms, f, st[j]) /\ off[j] <= off[n + 1]
      /\ \A j \in 1 .. n : /\ ChunkOK(ms, f, st[j], chunk[j], st[j + 1])
                           /\ OnWire(ms, hist, off[j], chunk[j], off[j + 1])
  BY ONLY LogOK(ms, f, now, hist, n, chunk, st, off) DEF LogOK
<1>n. n \in Nat
  BY ONLY <1>2
<1>3. /\ \A j \in 1 .. n : chunk2[j] = chunk[j]
      /\ chunk2[n + 1] = k
  BY ONLY <1>n, MoreIs
<1>4. n + 1 \in Nat
  BY ONLY <1>n
<1>5. /\ \A j \in 1 .. n + 1 : st2[j] = st[j]
      /\ st2[n + 1 + 1] = now2
  BY ONLY <1>4, MoreIs
<1>6. /\ \A j \in 1 .. n + 1 : off2[j] = off[j]
      /\ off2[n + 1 + 1] = Len(hist2)
  BY ONLY <1>4, MoreIs
<1>7. Len(hist) \in Nat /\ Len(hist2) \in Nat /\ Len(hist) <= Len(hist2)
  BY ONLY <1>1 DEF Extends
<1>8. off2 = [j \in 1 .. n + 1 + 1 |-> IF j <= n + 1 THEN off[j] ELSE Len(hist2)]
  BY DEF More
<1> HIDE DEF chunk2, st2, off2
<1>9. off2 \in [1 .. n + 1 + 1 -> Nat]
  <2>1. \A j \in 1 .. n + 1 + 1 : j <= n + 1 => j \in 1 .. n + 1
    BY ONLY <1>n
  <2> QED
    BY ONLY <1>2, <1>7, <1>8, <2>1
<1>10. /\ 1 \in 1 .. n + 1 /\ n + 1 \in 1 .. n + 1
       /\ \A j \in 1 .. n : j \in 1 .. n + 1 /\ j + 1 \in 1 .. n + 1
  BY ONLY <1>n
<1>11. \A j \in 1 .. n + 1 + 1 : j \in 1 .. n + 1 \/ j = n + 1 + 1
  BY ONLY <1>2
<1>12. \A j \in 1 .. n + 1 : j \in 1 .. n \/ j = n + 1
  BY ONLY <1>2
<1>13. ASSUME NEW j \in 1 .. n + 1 + 1
       PROVE  StateOK(ms2, f2, st2[j]) /\ off2[j] <= off2[n + 1 + 1]
  <2>1. CASE j \in 1 .. n + 1
    <3>1. StateOK(ms2, f2, st[j])
      BY ONLY <1>1, <1>2, <2>1, StateOfMore DEF StateStays
    <3>2. off[j] <= Len(hist) /\ off[j] \in Nat
      BY ONLY <1>2, <2>1
    <3>3. off[j] <= Len(hist2)
      BY ONLY <1>7, <3>2
    <3> QED
      BY ONLY <1>5, <1>6, <2>1, <3>1, <3>3
  <2>2. CASE j = n + 1 + 1
    BY ONLY <1>1, <1>5, <1>6, <1>7, <2>2
  <2> QED
    BY ONLY <1>11, <2>1, <2>2
<1>14. ASSUME NEW j \in 1 .. n + 1
       PROVE  /\ ChunkOK(ms2, f2, st2[j], chunk2[j], st2[j + 1])
              /\ OnWire(ms2, hist2, off2[j], chunk2[j], off2[j + 1])
  <2>1. CASE j \in 1 .. n
    <3>0. j \in 1 .. n + 1 /\ j + 1 \in 1 .. n + 1
      BY ONLY <1>10, <2>1
    <3>1. /\ ChunkOK(ms, f, st[j], chunk[j], st[j + 1])
          /\ OnWire(ms, hist, off[j], chunk[j], off[j + 1])
      BY ONLY <1>2, <2>1
    <3>2. StateOK(ms, f, st[j]) /\ StateOK(ms, f, st[j + 1])
      BY ONLY <1>2, <3>0
    <3>3. ChunkOK(ms2, f2, st[j], chunk[j], st[j + 1])
      BY ONLY <1>1, <3>1, <3>2, ChunkOfMore DEF ChunkStays
    <3>4. chunk[j] \in PeerChunk /\ chunk[j].i \in 1 .. Len(ms)
      BY ONLY <3>1 DEF ChunkOK
    <3>5. off[j] \in Nat /\ off[j + 1] \in Nat /\ off[j + 1] <= Len(hist)
      BY ONLY <1>2, <3>0
    <3>6. chunk[j].from <= chunk[j].upto
      BY ONLY <3>1, <3>2, MessagesOK(ms), ForwardChunk
    <3>7. OnWire(ms2, hist2, off[j], chunk[j], off[j + 1])
      BY ONLY <1>1, <3>1, <3>4, <3>5, <3>6, WireOfMore DEF WireStays
    <3> QED
      BY ONLY <1>3, <1>5, <1>6, <2>1, <3>0, <3>3, <3>7
  <2>2. CASE j = n + 1
    <3>1. st2[n + 1] = now /\ off2[n + 1] = Len(hist)
      BY ONLY <1>2, <1>5, <1>6, <1>10
    <3> QED
      BY ONLY <1>1, <1>3, <1>5, <1>6, <2>2, <3>1
  <2> QED
    BY ONLY <1>12, <2>1, <2>2
<1>15. off2[1] = C2End
  BY ONLY <1>2, <1>6, <1>10
<1>16. LogOK(ms2, f2, now2, hist2, n + 1, chunk2, st2, off2)
  BY ONLY <1>4, <1>5, <1>6, <1>9, <1>13, <1>14, <1>15 DEF LogOK
<1> QED
  BY <1>16 DEF LogBehind, chunk2, st2, off2

-----------------------------------------------------------------------------
(* The peer sends a chunk *)

IsHeader(h, fmt, c, m) ==
  /\ h \in Seq(Bytes) /\ Len(h) = 4 - fmt
  /\ h[1] = Decoder!Byte("head", <<fmt, c>>)
  /\ fmt <= 2 => h[2] = Decoder!Byte("time", m.field)
  /\ fmt <= 1 => h[3] = Decoder!Byte("size and type", <<m.size, m.type>>)

LEMMA HeaderIs ==
  ASSUME NEW fmt \in 0 .. 3, NEW c \in Channels, NEW m \in PeerMessage
  PROVE  IsHeader(Decoder!Header(fmt, c, m), fmt, c, m)
<1> DEFINE b1 == Decoder!Byte("head", <<fmt, c>>)
           b2 == Decoder!Byte("time", m.field)
           b3 == Decoder!Byte("size and type", <<m.size, m.type>>)
           b4 == Decoder!Byte("stream", 0)
           all == <<b1, b2, b3, b4>>
           h == Decoder!Header(fmt, c, m)
<1>1. b1 \in Bytes /\ b2 \in Bytes /\ b3 \in Bytes /\ b4 \in Bytes
  <2>1. "head" \in ByteParts /\ <<fmt, c>> \in ByteValues
    BY DEF ByteParts, ByteValues
  <2>2. "time" \in ByteParts /\ m.field \in ByteValues
    BY DEF ByteParts, ByteValues, PeerMessage
  <2>3. "size and type" \in ByteParts /\ <<m.size, m.type>> \in ByteValues
    BY DEF ByteParts, ByteValues, PeerMessage
  <2>4. "stream" \in ByteParts /\ 0 \in ByteValues
    BY DEF ByteParts, ByteValues
  <2> QED
    BY <2>1, <2>2, <2>3, <2>4, ByteIsByte
<1>2. h = SubSeq(all, 1, 4 - fmt)
  BY DEF Decoder!Header
<1> HIDE DEF b1, b2, b3, b4, h
<1>3. Len(all) = 4 /\ all[1] = b1 /\ all[2] = b2 /\ all[3] = b3 /\ all[4] = b4
  OBVIOUS
<1>4. all \in Seq(Bytes)
  BY ONLY <1>1
<1> HIDE DEF all
<1>5. /\ 1 \in Int /\ 4 - fmt \in Int /\ 4 - fmt >= 1 /\ 4 - fmt <= 4
      /\ \A i \in 1 .. 4 - fmt : i \in 1 .. 4
  OBVIOUS
<1>6. \A i \in 1 .. 4 - fmt : all[i] \in Bytes
  BY ONLY <1>3, <1>4, <1>5, ElementOfSeq
<1>7. /\ h \in Seq(Bytes)
      /\ Len(h) = (IF 1 <= 4 - fmt THEN (4 - fmt) - 1 + 1 ELSE 0)
      /\ \A i \in 1 .. (4 - fmt) - 1 + 1 : h[i] = all[1 + i - 1]
  BY ONLY <1>2, <1>5, <1>6, SubSeqProperties
<1>8. Len(h) = 4 - fmt
  BY ONLY <1>5, <1>7
<1>9. ASSUME NEW i \in 1 .. 4 - fmt
      PROVE  h[i] = all[i]
  <2>1. i \in 1 .. (4 - fmt) - 1 + 1 /\ 1 + i - 1 = i
    BY <1>5
  <2> QED
    BY ONLY <1>7, <2>1
<1>10. 1 \in 1 .. 4 - fmt /\ (fmt <= 2 => 2 \in 1 .. 4 - fmt) /\ (fmt <= 1 => 3 \in 1 .. 4 - fmt)
  OBVIOUS
<1>11. h[1] = b1 /\ (fmt <= 2 => h[2] = b2) /\ (fmt <= 1 => h[3] = b3)
  BY ONLY <1>3, <1>9, <1>10
<1> QED
  BY <1>7, <1>8, <1>11 DEF IsHeader, h, b1, b2, b3

\* The bytes of a chunk, at the end of those sent before.
ChunkBytes(k, m) == Decoder!Header(k.fmt, k.c, m) \o Decoder!Payload(k.i, k.from, k.upto)
Written(ms, hist, k) ==
  LET hist2 == hist \o ChunkBytes(k, ms[k.i])
  IN  /\ ChunkBytes(k, ms[k.i]) \in Seq(Bytes)
      /\ hist2 \in Seq(Bytes)
      /\ Extends(hist, hist2)
      /\ OnWire(ms, hist2, Len(hist), k, Len(hist2))

LEMMA ChunkIsWritten ==
  ASSUME NEW ms, NEW hist \in Seq(Bytes), NEW k \in PeerChunk, k.i \in 1 .. Len(ms),
         ms \in Seq(PeerMessage), k.from <= k.upto
  PROVE  Written(ms, hist, k)
<1> DEFINE m == ms[k.i]
           h == Decoder!Header(k.fmt, k.c, m)
           p == Decoder!Payload(k.i, k.from, k.upto)
           w == h \o p
           hist2 == hist \o w
           a == k.from
           b == k.upto - k.from
           l == 4 - k.fmt
           o == Len(hist)
<1>1. k.fmt \in 0 .. 3 /\ k.c \in Channels /\ k.i \in Nat /\ k.from \in Nat /\ k.upto \in Nat
  BY DEF PeerChunk
<1>2. m \in PeerMessage
  BY ElementOfSeq
<1>3. IsHeader(h, k.fmt, k.c, m)
  BY ONLY <1>1, <1>2, HeaderIs
<1>4. /\ p \in Seq(Bytes)
      /\ Len(p) = b
      /\ \A j \in 1 .. b : p[j] = Decoder!Byte("body", <<k.i, a + j>>)
  BY ONLY <1>1, k.from <= k.upto, PayloadIs
<1>5. l \in 1 .. 4 /\ b \in Nat
  BY <1>1
<1>6. h \in Seq(Bytes) /\ Len(h) = l
  BY <1>3 DEF IsHeader
<1>7. w = ChunkBytes(k, m)
  BY DEF ChunkBytes
<1> HIDE DEF h, p
<1>8. /\ w \in Seq(Bytes)
      /\ Len(w) = Len(h) + Len(p)
      /\ \A i \in 1 .. Len(h) + Len(p) : w[i] = IF i <= Len(h) THEN h[i] ELSE p[i - Len(h)]
  BY ONLY <1>4, <1>6, ConcatProperties
<1> HIDE DEF w
<1>9. /\ hist2 \in Seq(Bytes)
      /\ Len(hist2) = o + Len(w)
      /\ \A i \in 1 .. o + Len(w) : hist2[i] = IF i <= o THEN hist[i] ELSE w[i - o]
  <2>1. w \in Seq(Bytes)
    BY ONLY <1>8
  <2> QED
    BY ONLY <2>1, hist \in Seq(Bytes), ConcatProperties
<1>10. Extends(hist, hist2)
  BY ONLY <1>8, hist \in Seq(Bytes), ConcatExtends
<1>11. o \in Nat
  BY LenProperties
<1>12. Len(w) = l + b
  BY ONLY <1>4, <1>6, <1>8
<1> HIDE DEF hist2, o, l, b
<1>13. ASSUME NEW i \in 1 .. l + b
       PROVE  hist2[o + i] = w[i]
  <2>1. o + i \in 1 .. o + Len(w) /\ ~ (o + i <= o) /\ (o + i) - o = i
    BY ONLY <1>5, <1>11, <1>12, i \in 1 .. l + b
  <2> QED
    BY ONLY <1>9, <2>1
<1>14. ASSUME NEW i \in 1 .. l
       PROVE  hist2[o + i] = h[i]
  <2>1. i \in 1 .. l + b /\ i <= l
    BY ONLY <1>5, i \in 1 .. l
  <2>2. w[i] = h[i]
    BY ONLY <1>4, <1>6, <1>8, <2>1
  <2> QED
    BY ONLY <1>13, <2>1, <2>2
<1>15. ASSUME NEW j \in 1 .. b
       PROVE  hist2[o + l + j] = Decoder!Byte("body", <<k.i, a + j>>)
  <2>1. l + j \in 1 .. l + b /\ ~ (l + j <= l) /\ (l + j) - l = j /\ o + (l + j) = o + l + j
    BY ONLY <1>5, <1>11, j \in 1 .. b
  <2>2. w[l + j] = p[j]
    BY ONLY <1>4, <1>6, <1>8, <2>1
  <2> QED
    BY ONLY <1>4, <1>13, <2>1, <2>2
<1>16. /\ 1 \in 1 .. l
       /\ k.fmt <= 2 => 2 \in 1 .. l
       /\ k.fmt <= 1 => 3 \in 1 .. l
  BY ONLY <1>1 DEF l
<1>17. /\ hist2[o + 1] = Decoder!Byte("head", <<k.fmt, k.c>>)
       /\ k.fmt <= 2 => hist2[o + 2] = Decoder!Byte("time", m.field)
       /\ k.fmt <= 1 => hist2[o + 3] = Decoder!Byte("size and type", <<m.size, m.type>>)
  BY ONLY <1>3, <1>14, <1>16 DEF IsHeader
<1>18. Len(hist2) = o + l + b
  BY ONLY <1>5, <1>9, <1>11, <1>12
<1>19. OnWire(ms, hist2, o, k, Len(hist2))
  BY ONLY <1>15, <1>17, <1>18 DEF OnWire, l, b
<1> QED
  BY <1>7, <1>8, <1>9, <1>10, <1>19 DEF Written, hist2, o

-----------------------------------------------------------------------------
(* Bytes on their way and in the buffer *)

\* The first n elements of a sequence, and the others.
SplitAt(S, s, n) ==
  /\ SubSeq(s, 1, n) \in Seq(S) /\ Len(SubSeq(s, 1, n)) = n
  /\ \A j \in 1 .. n : SubSeq(s, 1, n)[j] = s[j]
  /\ SubSeq(s, n + 1, Len(s)) \in Seq(S) /\ Len(SubSeq(s, n + 1, Len(s))) = Len(s) - n
  /\ \A j \in 1 .. Len(s) - n : SubSeq(s, n + 1, Len(s))[j] = s[n + j]

LEMMA SplitParts ==
  ASSUME NEW S, NEW s \in Seq(S), NEW n \in 0 .. Len(s)
  PROVE  SplitAt(S, s, n)
<1> DEFINE l == Len(s)
           p == SubSeq(s, 1, n)
           r == SubSeq(s, n + 1, l)
<1>1. l \in Nat
  BY LenProperties
<1>2. n \in 0 .. l
  OBVIOUS
<1>3. \A i \in 1 .. l : s[i] \in S
  BY ElementOfSeq
<1> HIDE DEF p, r, l
<1>4. \A i \in 1 .. n : i \in 1 .. l
  BY ONLY <1>1, <1>2
<1>5. \A i \in n + 1 .. l : i \in 1 .. l
  BY ONLY <1>1, <1>2
<1>6. /\ 1 \in Int /\ n \in Int /\ n + 1 \in Int /\ l \in Int
  BY ONLY <1>1, <1>2
<1>7. /\ p \in Seq(S)
      /\ Len(p) = (IF 1 <= n THEN n - 1 + 1 ELSE 0)
      /\ \A i \in 1 .. n - 1 + 1 : p[i] = s[1 + i - 1]
  BY ONLY <1>3, <1>4, <1>6, SubSeqProperties DEF p
<1>8. /\ r \in Seq(S)
      /\ Len(r) = (IF n + 1 <= l THEN l - (n + 1) + 1 ELSE 0)
      /\ \A i \in 1 .. l - (n + 1) + 1 : r[i] = s[n + 1 + i - 1]
  BY ONLY <1>3, <1>5, <1>6, SubSeqProperties DEF r
<1>9. Len(p) = n /\ Len(r) = l - n
  BY ONLY <1>1, <1>2, <1>7, <1>8
<1>10. ASSUME NEW j \in 1 .. n
       PROVE  p[j] = s[j]
  <2>1. j \in 1 .. n - 1 + 1 /\ 1 + j - 1 = j
    BY ONLY <1>2, j \in 1 .. n
  <2> QED
    BY ONLY <1>7, <2>1
<1>11. ASSUME NEW j \in 1 .. l - n
       PROVE  r[j] = s[n + j]
  <2>1. j \in 1 .. l - (n + 1) + 1 /\ n + 1 + j - 1 = n + j
    BY ONLY <1>1, <1>2, j \in 1 .. l - n
  <2> QED
    BY ONLY <1>8, <2>1
<1> QED
  BY <1>7, <1>8, <1>9, <1>10, <1>11 DEF SplitAt, p, r, l

BytesAdded(hist, used, b, w, x) == BytesOK(hist \o x, used, b, w \o x)

LEMMA BytesMore ==
  ASSUME NEW hist, NEW used, NEW b, NEW w, NEW x \in Seq(Bytes), BytesOK(hist, used, b, w)
  PROVE  BytesAdded(hist, used, b, w, x)
<1> DEFINE h2 == hist \o x
           w2 == w \o x
           a == Len(b)
           l == Len(w)
           n == Len(hist)
           e == Len(x)
<1>1. /\ hist \in Seq(Bytes) /\ used \in Nat
      /\ b \in Seq(Bytes) /\ w \in Seq(Bytes)
      /\ used + a + l = n
      /\ \A j \in 1 .. a : b[j] = hist[used + j]
      /\ \A j \in 1 .. l : w[j] = hist[used + a + j]
  BY DEF BytesOK
<1>2. a \in Nat /\ l \in Nat /\ n \in Nat /\ e \in Nat
  BY <1>1, LenProperties
<1>3. /\ h2 \in Seq(Bytes) /\ Len(h2) = n + e
      /\ \A i \in 1 .. n + e : h2[i] = IF i <= n THEN hist[i] ELSE x[i - n]
  BY <1>1, ConcatProperties
<1>4. /\ w2 \in Seq(Bytes) /\ Len(w2) = l + e
      /\ \A i \in 1 .. l + e : w2[i] = IF i <= l THEN w[i] ELSE x[i - l]
  BY <1>1, ConcatProperties
<1> HIDE DEF h2, w2
<1>5. used + a + Len(w2) = Len(h2)
  <2> HIDE DEF a, l, n, e
  <2> QED
    BY ONLY <1>1, <1>2, <1>3, <1>4
<1>6. ASSUME NEW j \in 1 .. a
      PROVE  b[j] = h2[used + j]
  <2>1. b[j] = hist[used + j]
    BY <1>1
  <2> HIDE DEF a, l, n, e
  <2>2. used + j \in 1 .. n + e /\ used + j <= n
    BY ONLY <1>1, <1>2, j \in 1 .. a
  <2>3. h2[used + j] = hist[used + j]
    BY ONLY <1>3, <2>2
  <2> QED
    BY ONLY <2>1, <2>3
<1>7. ASSUME NEW j \in 1 .. l + e
      PROVE  w2[j] = h2[used + a + j]
  <2> HIDE DEF a, l, n, e
  <2>1. CASE j <= l
    <3>1. j \in 1 .. l /\ used + a + j \in 1 .. n + e /\ used + a + j <= n
      BY ONLY <1>1, <1>2, <2>1, j \in 1 .. l + e
    <3>2. w2[j] = w[j]
      BY ONLY <1>4, <2>1, j \in 1 .. l + e
    <3>3. h2[used + a + j] = hist[used + a + j]
      BY ONLY <1>3, <3>1
    <3> QED
      BY ONLY <1>1, <3>1, <3>2, <3>3
  <2>2. CASE ~ (j <= l)
    <3>1. used + a + j \in 1 .. n + e /\ ~ (used + a + j <= n) /\ (used + a + j) - n = j - l
      BY ONLY <1>1, <1>2, <2>2, j \in 1 .. l + e
    <3>2. w2[j] = x[j - l]
      BY ONLY <1>4, <2>2, j \in 1 .. l + e
    <3>3. h2[used + a + j] = x[(used + a + j) - n]
      BY ONLY <1>3, <3>1
    <3> QED
      BY ONLY <3>1, <3>2, <3>3
  <2> QED
    BY <2>1, <2>2
<1>8. BytesOK(h2, used, b, w2)
  BY ONLY <1>1, <1>3, <1>4, <1>5, <1>6, <1>7 DEF BytesOK
<1> QED
  BY <1>8 DEF BytesAdded, h2, w2

BytesArrived(hist, used, b, w, n) ==
  BytesOK(hist, used, b \o SubSeq(w, 1, n), SubSeq(w, n + 1, Len(w)))

LEMMA BytesArrive ==
  ASSUME NEW hist, NEW used, NEW b, NEW w, NEW n \in 1 .. Len(w), BytesOK(hist, used, b, w)
  PROVE  BytesArrived(hist, used, b, w, n)
<1> DEFINE p == SubSeq(w, 1, n)
           r == SubSeq(w, n + 1, Len(w))
           b2 == b \o p
           a == Len(b)
           l == Len(w)
           h == Len(hist)
<1>1. /\ hist \in Seq(Bytes) /\ used \in Nat
      /\ b \in Seq(Bytes) /\ w \in Seq(Bytes)
      /\ used + a + l = h
      /\ \A j \in 1 .. a : b[j] = hist[used + j]
      /\ \A j \in 1 .. l : w[j] = hist[used + a + j]
  BY DEF BytesOK
<1>2. a \in Nat /\ l \in Nat /\ h \in Nat
  BY <1>1, LenProperties
<1>3. n \in 0 .. Len(w)
  BY <1>2
<1>4. SplitAt(Bytes, w, n)
  BY ONLY <1>1, <1>3, SplitParts
<1>5. /\ p \in Seq(Bytes) /\ Len(p) = n
      /\ \A j \in 1 .. n : p[j] = w[j]
      /\ r \in Seq(Bytes) /\ Len(r) = l - n
      /\ \A j \in 1 .. l - n : r[j] = w[n + j]
  BY ONLY <1>4 DEF SplitAt
<1> HIDE DEF p, r
<1>6. /\ b2 \in Seq(Bytes) /\ Len(b2) = a + n
      /\ \A i \in 1 .. a + n : b2[i] = IF i <= a THEN b[i] ELSE p[i - a]
  <2>1. b \in Seq(Bytes) /\ p \in Seq(Bytes) /\ Len(p) = n
    BY ONLY <1>1, <1>5
  <2> QED
    BY ONLY <2>1, ConcatProperties
<1> HIDE DEF b2
<1>7. n \in 1 .. l
  OBVIOUS
<1> HIDE DEF a, l, h
<1>8. used + Len(b2) + Len(r) = h
  BY ONLY <1>1, <1>2, <1>5, <1>6, <1>7
<1>9. ASSUME NEW j \in 1 .. a + n
      PROVE  b2[j] = hist[used + j]
  <2>1. CASE j <= a
    <3>1. j \in 1 .. a
      BY ONLY <2>1, <1>2, <1>7, j \in 1 .. a + n
    <3> QED
      BY ONLY <1>1, <1>6, <2>1, <3>1, j \in 1 .. a + n
  <2>2. CASE ~ (j <= a)
    <3>1. j - a \in 1 .. n /\ j - a \in 1 .. l /\ used + a + (j - a) = used + j
      BY ONLY <1>1, <1>2, <1>7, <2>2, j \in 1 .. a + n
    <3>2. b2[j] = p[j - a]
      BY ONLY <1>6, <2>2, j \in 1 .. a + n
    <3>3. p[j - a] = w[j - a]
      BY ONLY <1>5, <3>1
    <3>4. w[j - a] = hist[used + a + (j - a)]
      BY ONLY <1>1, <3>1
    <3> QED
      BY ONLY <3>1, <3>2, <3>3, <3>4
  <2> QED
    BY <2>1, <2>2
<1>10. ASSUME NEW j \in 1 .. l - n
       PROVE  r[j] = hist[used + (a + n) + j]
  <2>1. n + j \in 1 .. l /\ used + a + (n + j) = used + (a + n) + j
    BY ONLY <1>1, <1>2, <1>7, j \in 1 .. l - n
  <2>2. r[j] = w[n + j]
    BY ONLY <1>5
  <2>3. w[n + j] = hist[used + a + (n + j)]
    BY ONLY <1>1, <2>1
  <2> QED
    BY ONLY <2>1, <2>2, <2>3
<1>11. BytesOK(hist, used, b2, r)
  BY ONLY <1>1, <1>5, <1>6, <1>8, <1>9, <1>10 DEF BytesOK, h
<1> QED
  BY <1>11 DEF BytesArrived, b2, p, r

BytesUsed(hist, used, b, w, n) == BytesOK(hist, used + n, SubSeq(b, n + 1, Len(b)), w)

LEMMA BytesConsumed ==
  ASSUME NEW hist, NEW used, NEW b, NEW w, NEW n \in 0 .. Len(b), BytesOK(hist, used, b, w)
  PROVE  BytesUsed(hist, used, b, w, n)
<1> DEFINE r == SubSeq(b, n + 1, Len(b))
           a == Len(b)
           l == Len(w)
           h == Len(hist)
<1>1. /\ hist \in Seq(Bytes) /\ used \in Nat
      /\ b \in Seq(Bytes) /\ w \in Seq(Bytes)
      /\ used + a + l = h
      /\ \A j \in 1 .. a : b[j] = hist[used + j]
      /\ \A j \in 1 .. l : w[j] = hist[used + a + j]
  BY DEF BytesOK
<1>2. a \in Nat /\ l \in Nat /\ h \in Nat
  BY <1>1, LenProperties
<1>3. SplitAt(Bytes, b, n)
  BY ONLY <1>1, n \in 0 .. Len(b), SplitParts
<1>4. /\ r \in Seq(Bytes) /\ Len(r) = a - n
      /\ \A j \in 1 .. a - n : r[j] = b[n + j]
  BY ONLY <1>3 DEF SplitAt
<1>5. n \in 0 .. a
  OBVIOUS
<1> HIDE DEF r, a, l, h
<1>6. used + n + Len(r) + l = h /\ used + n \in Nat
  BY ONLY <1>1, <1>2, <1>4, <1>5
<1>7. ASSUME NEW j \in 1 .. a - n
      PROVE  r[j] = hist[used + n + j]
  <2>1. n + j \in 1 .. a /\ used + (n + j) = used + n + j
    BY ONLY <1>1, <1>2, <1>5, j \in 1 .. a - n
  <2> QED
    BY ONLY <1>1, <1>4, <2>1
<1>8. ASSUME NEW j \in 1 .. l
      PROVE  w[j] = hist[used + n + Len(r) + j]
  <2>1. used + n + Len(r) + j = used + a + j
    BY ONLY <1>1, <1>2, <1>4, <1>5, j \in 1 .. l
  <2> QED
    BY ONLY <1>1, <2>1
<1>9. BytesOK(hist, used + n, r, w)
  BY ONLY <1>1, <1>4, <1>6, <1>7, <1>8 DEF BytesOK, h, l
<1> QED
  BY <1>9 DEF BytesUsed, r

-----------------------------------------------------------------------------
(* What the decoder knows stays so when the peer goes on *)

FollowsStays(ms, chs, s, n, chunk, d, ms2, k) ==
  Follows(ms, chs, s, n, chunk, d) => Follows(ms2, chs, s, n + 1, More(chunk, n, k), d)

LEMMA FollowsMore ==
  ASSUME NEW ms, NEW f, NEW chs, NEW s, NEW n \in Nat, NEW chunk, NEW d \in 1 .. n + 1, NEW ms2,
         NEW k, Extends(ms, ms2), StateOK(ms, f, s), \A j \in 1 .. n : chunk[j].i \in 1 .. Len(ms)
  PROVE  FollowsStays(ms, chs, s, n, chunk, d, ms2, k)
<1> SUFFICES ASSUME Follows(ms, chs, s, n, chunk, d), NEW c \in Channels
             PROVE  \/ Matches(ms2, chs[c], s, c)
                    \/ /\ d <= n + 1 /\ More(chunk, n, k)[d].c = c
                       /\ Opened(ms2, chs[c], More(chunk, n, k)[d])
  BY DEF FollowsStays, Follows
<1>1. \/ Matches(ms, chs[c], s, c)
      \/ d <= n /\ chunk[d].c = c /\ Opened(ms, chs[c], chunk[d])
  BY DEF Follows
<1>2. CASE Matches(ms, chs[c], s, c)
  <2>1. s.latest[c] \in Nat /\ s.latest[c] <= Len(ms)
    BY DEF StateOK, PeerState
  <2>2. s.latest[c] # 0 => ms2[s.latest[c]] = ms[s.latest[c]]
    BY <2>1 DEF Extends
  <2>3. Matches(ms2, chs[c], s, c)
    BY ONLY <1>2, <2>2 DEF Matches
  <2> QED
    BY <2>3
<1>3. CASE d <= n /\ chunk[d].c = c /\ Opened(ms, chs[c], chunk[d])
  <2>1. d \in 1 .. n /\ d <= n + 1
    BY <1>3
  <2>2. More(chunk, n, k)[d] = chunk[d]
    BY ONLY <2>1, n \in Nat, MoreIs
  <2>3. ms2[chunk[d].i] = ms[chunk[d].i]
    BY <2>1 DEF Extends
  <2>4. Opened(ms2, chs[c], chunk[d])
    BY ONLY <1>3, <2>3 DEF Opened
  <2> QED
    BY ONLY <1>3, <2>1, <2>2, <2>4
<1> QED
  BY ONLY <1>1, <1>2, <1>3

HandedStays(ms, f, got, done, ms2, f2) ==
  HandedOut(ms, f, got, done) => HandedOut(ms2, f2, got, done)

LEMMA HandedMore ==
  ASSUME NEW ms, NEW f, NEW got, NEW done \in Nat, NEW ms2, NEW f2, Extends(ms, ms2),
         Extends(f, f2), done <= Len(f), \A j \in 1 .. Len(f) : f[j] \in 1 .. Len(ms)
  PROVE  HandedStays(ms, f, got, done, ms2, f2)
<1> SUFFICES ASSUME HandedOut(ms, f, got, done), NEW j \in 1 .. done
             PROVE  Decoder!Shown(got[j]) = SentOf(ms2, f2[j])
  BY DEF HandedStays, HandedOut
<1>1. j \in 1 .. Len(f)
  BY DEF Extends
<1>2. f2[j] = f[j] /\ ms2[f[j]] = ms[f[j]]
  BY <1>1 DEF Extends
<1>3. Decoder!Shown(got[j]) = SentOf(ms, f[j])
  BY DEF HandedOut
<1> QED
  BY <1>2, <1>3 DEF SentOf

LEMMA PeerGoesOn ==
  ASSUME DecoderInv, DecoderType', c2Sent, UNCHANGED <<c2Sent, Decoder!decoderVars>>,
         NEW k \in PeerChunk, Extends(messages, messages'), Extends(finished, finished'),
         StateOK(messages', finished', Now'), ChunkOK(messages', finished', Now, k, Now'),
         net' = net \o ChunkBytes(k, messages'[k.i])
  PROVE  DecoderInv'
<1>1. PICK hist, used, n, chunk, st, off, d :
        /\ BytesOK(hist, used, buffer, net)
        /\ LogInv(hist, n, chunk, st, off)
        /\ ReadInv(used, n, chunk, st, off, d)
  BY DEF DecoderInv
<1>w. PICK w, hist2, chunk2, st2, off2 :
        /\ w = ChunkBytes(k, messages'[k.i])
        /\ hist2 = hist \o w
        /\ chunk2 = More(chunk, n, k)
        /\ st2 = More(st, n + 1, Now')
        /\ off2 = More(off, n + 1, Len(hist2))
  OBVIOUS
<1>2. LogOK(messages, finished, Now, hist, n, chunk, st, off)
  BY <1>1 DEF LogInv
<1>3. /\ MessagesOK(messages) /\ MessagesOK(messages') /\ messages' \in Seq(PeerMessage)
      /\ \A j \in 1 .. Len(finished) : finished[j] \in 1 .. Len(messages)
  BY DEF DecoderInv, DecoderType, MessagesOK
<1>4. k.i \in 1 .. Len(messages')
  BY DEF ChunkOK
<1>5. /\ n \in Nat /\ st[n + 1] = Now /\ off[n + 1] = Len(hist)
      /\ \A j \in 1 .. n + 1 : StateOK(messages, finished, st[j])
      /\ \A j \in 1 .. n : ChunkOK(messages, finished, st[j], chunk[j], st[j + 1])
  BY ONLY <1>2 DEF LogOK
<1>6. k.from <= k.upto
  <2>1. n + 1 \in 1 .. n + 1
    BY <1>5
  <2>2. StateOK(messages, finished, Now)
    BY ONLY <1>5, <2>1
  <2>3. StateOK(messages', finished', Now)
    BY ONLY <2>2, Extends(messages, messages'), Extends(finished, finished'), StateOfMore
       DEF StateStays
  <2> QED
    BY ONLY <1>3, <2>3, ChunkOK(messages', finished', Now, k, Now'), ForwardChunk
<1>7. Written(messages', hist, k)
  <2>1. hist \in Seq(Bytes)
    BY ONLY <1>1 DEF BytesOK
  <2> QED
    BY ONLY <1>3, <1>4, <1>6, <2>1, k \in PeerChunk, ChunkIsWritten
<1>8. w \in Seq(Bytes) /\ Extends(hist, hist2) /\ OnWire(messages', hist2, Len(hist), k, Len(hist2))
  BY ONLY <1>7, <1>w DEF Written
<1>9. BytesOK(hist2, used, buffer, net \o w)
  BY ONLY <1>1, <1>8, <1>w, BytesMore DEF BytesAdded
<1>10. LogOK(messages', finished', Now', hist2, n + 1, chunk2, st2, off2)
  <2>1. ChunkSent(messages, finished, Now, hist, messages', finished', Now', hist2, k)
    BY ONLY <1>8, Extends(messages, messages'), Extends(finished, finished'),
         StateOK(messages', finished', Now'), ChunkOK(messages', finished', Now, k, Now')
       DEF ChunkSent
  <2>2. LogBehind(messages', finished', Now', hist2, n, chunk, st, off, k)
    BY ONLY <1>2, <1>3, <2>1, LogGrows
  <2> QED
    BY ONLY <1>w, <2>2 DEF LogBehind
<1>11. /\ \A j \in 1 .. n + 1 : st2[j] = st[j] /\ off2[j] = off[j]
  <2>1. n + 1 \in Nat
    BY ONLY <1>5
  <2> QED
    BY ONLY <1>w, <2>1, MoreIs
<1>12. /\ d \in 1 .. n + 1
       /\ state = "C0C1" => ~c2Sent /\ used \in {0, 1}
       /\ state = "C2" => used = C1End
       /\ state # "Done" => d = 1
       /\ state = "Done" => c2Sent /\ used = off[d]
       /\ chunkSize = st[d].chunk
       /\ Follows(messages, channels, st[d], n, chunk, d)
       /\ HandedOut(messages, finished, delivered \o packets, st[d].done)
       /\ decodePc = "Idle" /\ state = "Done" =>
            \/ buffer = <<>>
            \/ d <= n /\ Len(buffer) < off[d + 1] - off[d]
  BY ONLY <1>1 DEF ReadInv
<1>13. StateOK(messages, finished, st[d])
  BY ONLY <1>5, <1>12
<1>14. Follows(messages', channels, st[d], n + 1, chunk2, d)
  <2>1. \A j \in 1 .. n : chunk[j].i \in 1 .. Len(messages)
    BY ONLY <1>5 DEF ChunkOK
  <2>2. FollowsStays(messages, channels, st[d], n, chunk, d, messages', k)
    BY ONLY <1>5, <1>12, <1>13, <2>1, Extends(messages, messages'), FollowsMore
  <2> QED
    BY ONLY <1>w, <1>12, <2>2 DEF FollowsStays
<1>15. HandedOut(messages', finished', delivered \o packets, st[d].done)
  <2>1. st[d].done \in Nat /\ st[d].done <= Len(finished)
    BY ONLY <1>13 DEF StateOK, PeerState
  <2>2. HandedStays(messages, finished, delivered \o packets, st[d].done, messages', finished')
    BY ONLY <1>3, <2>1, Extends(messages, messages'), Extends(finished, finished'), HandedMore
  <2> QED
    BY ONLY <1>12, <2>2 DEF HandedStays
<1>16. d \in 1 .. n + 1 + 1 /\ (d <= n => d <= n + 1 /\ d + 1 \in 1 .. n + 1)
  BY ONLY <1>5, <1>12
<1>17. /\ st2[d] = st[d] /\ off2[d] = off[d]
       /\ d <= n => off2[d + 1] = off[d + 1]
  BY ONLY <1>11, <1>12, <1>16
<1>18. /\ state' = state /\ chunkSize' = chunkSize /\ channels' = channels
       /\ delivered' = delivered /\ packets' = packets /\ decodePc' = decodePc /\ buffer' = buffer
       /\ c2Sent' = c2Sent
  BY DEF Decoder!decoderVars
<1>19. ReadInv(used, n + 1, chunk2, st2, off2, d)'
  <2>1. ~ (state = "C0C1")
    BY <1>12
  <2>2. /\ state' = "C0C1" => ~c2Sent' /\ used \in {0, 1}
        /\ state' = "C2" => used = C1End
        /\ state' # "Done" => d = 1
        /\ state' = "Done" => c2Sent' /\ used = off2[d]
        /\ chunkSize' = st2[d].chunk
    BY ONLY <1>12, <1>17, <1>18
  <2>3. Follows(messages', channels', st2[d], n + 1, chunk2, d)
    BY ONLY <1>14, <1>17, <1>18
  <2>4. HandedOut(messages', finished', delivered' \o packets', st2[d].done)
    BY ONLY <1>15, <1>17, <1>18
  <2>5. decodePc' = "Idle" /\ state' = "Done" =>
          \/ buffer' = <<>>
          \/ d <= n + 1 /\ Len(buffer') < off2[d + 1] - off2[d]
    BY ONLY <1>12, <1>16, <1>17, <1>18
  <2> QED
    BY ONLY <1>16, <2>2, <2>3, <2>4, <2>5 DEF ReadInv
<1>20. LogInv(hist2, n + 1, chunk2, st2, off2)'
  BY ONLY <1>10, <1>18, c2Sent DEF LogInv
<1>21. BytesOK(hist2, used, buffer, net)'
  <2>1. net' = net \o w
    BY <1>w
  <2> QED
    BY ONLY <1>9, <1>18, <2>1
<1> QED
  BY ONLY <1>19, <1>20, <1>21, DecoderType' DEF DecoderInv

\* The state that a chunk leaves is one the peer can be in.
LEMMA StateBehind ==
  ASSUME NEW ms, NEW f, NEW s, NEW k \in PeerChunk, MessagesOK(ms), StateOK(ms, f, s),
         k.i \in 1 .. Len(ms), Begins(ms, s, k) \/ Continues(s, k),
         k.upto = Decoder!Lesser(ms[k.i].size, k.from + s.chunk),
         NEW f2, Behind(ms, s, k).done <= Len(f2)
  PROVE  StateOK(ms, f2, Behind(ms, s, k))
<1> DEFINE t == Behind(ms, s, k)
           m == ms[k.i]
<1>1. /\ s \in PeerState
      /\ \A c \in Channels :
           /\ s.latest[c] <= Len(ms)
           /\ s.partial[c] # Decoder!Whole =>
                /\ s.latest[c] # 0 /\ s.partial[c].message = s.latest[c]
                /\ s.partial[c].sent # 0
                /\ s.partial[c].sent < ms[s.latest[c]].size
  BY DEF StateOK
<1>2. k.i \in Nat /\ k.c \in Channels /\ k.from \in Nat /\ k.upto \in Nat
  BY DEF PeerChunk
<1>3. m \in PeerMessage /\ (m.type = "chunk size" => m.value # 0)
  BY ElementOfSeq DEF MessagesOK
<1>4. m.size \in Nat /\ m.value \in Nat
  BY <1>3 DEF PeerMessage
<1>5. /\ s.partial \in [Channels -> [message : Nat, sent : Nat]]
      /\ s.latest \in [Channels -> Nat]
      /\ s.chunk \in Nat \ {0} /\ s.done \in Nat
  BY <1>1 DEF PeerState
<1>6. /\ t.partial = [s.partial EXCEPT ![k.c] = IF IsLast(ms, k) THEN Decoder!Whole
                                               ELSE [message |-> k.i, sent |-> k.upto]]
      /\ t.latest = [s.latest EXCEPT ![k.c] = k.i]
      /\ t.chunk = IF IsLast(ms, k) /\ m.type = "chunk size" THEN m.value ELSE s.chunk
      /\ t.done = IF IsLast(ms, k) /\ m.type = "media" THEN s.done + 1 ELSE s.done
      /\ t = [partial |-> t.partial, latest |-> t.latest, chunk |-> t.chunk, done |-> t.done]
  BY DEF Behind
<1> HIDE DEF t, m
<1>7. t \in PeerState
  <2>1. [message |-> k.i, sent |-> k.upto] \in [message : Nat, sent : Nat]
    BY ONLY <1>2
  <2>2. Decoder!Whole \in [message : Nat, sent : Nat]
    BY ONLY DEF Decoder!Whole
  <2>3. t.partial \in [Channels -> [message : Nat, sent : Nat]]
    BY ONLY <1>5, <1>6, <2>1, <2>2
  <2>4. t.latest \in [Channels -> Nat]
    BY ONLY <1>2, <1>5, <1>6
  <2>5. t.chunk \in Nat \ {0}
    BY ONLY <1>3, <1>4, <1>5, <1>6
  <2>6. t.done \in Nat
    <3>1. s.done \in Nat /\ s.done + 1 \in Nat
      BY ONLY <1>5
    <3>2. t.done = s.done + 1 \/ t.done = s.done
      BY ONLY <1>6
    <3> QED
      BY ONLY <3>1, <3>2
  <2> QED
    BY ONLY <1>6, <2>3, <2>4, <2>5, <2>6 DEF PeerState
<1>8. ASSUME NEW c \in Channels
      PROVE  /\ t.latest[c] <= Len(ms)
             /\ t.partial[c] # Decoder!Whole =>
                  /\ t.latest[c] # 0 /\ t.partial[c].message = t.latest[c]
                  /\ t.partial[c].sent # 0
                  /\ t.partial[c].sent < ms[t.latest[c]].size
  <2>1. CASE c = k.c
    <3>1. /\ t.latest[c] = k.i
          /\ t.partial[c] = IF IsLast(ms, k) THEN Decoder!Whole
                            ELSE [message |-> k.i, sent |-> k.upto]
      BY ONLY <1>2, <1>5, <1>6, <2>1
    <3>2. CASE IsLast(ms, k)
      BY <1>2, <3>1, <3>2
    <3>3. CASE ~ IsLast(ms, k)
      <4>1. k.upto # m.size
        BY <3>3 DEF IsLast, m
      <4>2. k.upto = Decoder!Lesser(m.size, k.from + s.chunk)
        BY DEF m
      <4>3. k.upto # 0 /\ k.upto < m.size
        BY ONLY <1>2, <1>4, <1>5, <4>1, <4>2 DEF Decoder!Lesser
      <4>4. t.partial[c].message = k.i /\ t.partial[c].sent = k.upto
        BY ONLY <3>1, <3>3
      <4> QED
        BY <1>2, <3>1, <4>3, <4>4 DEF m
    <3> QED
      BY <3>2, <3>3
  <2>2. CASE c # k.c
    <3>1. t.latest[c] = s.latest[c] /\ t.partial[c] = s.partial[c]
      BY ONLY <1>5, <1>6, <2>2, c \in Channels
    <3> QED
      BY ONLY <1>1, <3>1, c \in Channels
  <2> QED
    BY <2>1, <2>2
<1>9. t.done <= Len(f2)
  BY DEF t
<1>10. StateOK(ms, f2, t)
  BY ONLY <1>7, <1>8, <1>9 DEF StateOK
<1> QED
  BY <1>10 DEF t

LEMMA NowIsOK == ASSUME DecoderInv PROVE StateOK(messages, finished, Now)
<1>1. PICK hist, n, chunk, st, off : LogInv(hist, n, chunk, st, off)
  BY DEF DecoderInv
<1>2. CASE c2Sent
  <2>1. n \in Nat /\ st[n + 1] = Now
        /\ \A j \in 1 .. n + 1 : StateOK(messages, finished, st[j])
    BY ONLY <1>1, <1>2 DEF LogInv, LogOK
  <2>2. n + 1 \in 1 .. n + 1
    BY ONLY <2>1
  <2> QED
    BY ONLY <2>1, <2>2
<1>3. CASE ~c2Sent
  BY ONLY <1>1, <1>3 DEF LogInv, Opening
<1> QED
  BY <1>2, <1>3

ChunkOf(fmt, c, m, i, from, size) ==
  [fmt |-> fmt, c |-> c, i |-> i, from |-> from, upto |-> Decoder!Lesser(m.size, from + size)]

LEMMA SendChunkLeaves ==
  ASSUME DecoderInv, c2Sent, UNCHANGED <<c2Sent, Decoder!decoderVars>>,
         NEW fmt \in 0 .. 3, NEW c \in Channels, NEW i \in 1 .. Len(messages'), NEW from \in Nat,
         Decoder!SendChunk(fmt, c, messages'[i], i, from),
         MessagesOK(messages'), Extends(messages, messages'),
         latest' = [latest EXCEPT ![c] = i],
         LET k == ChunkOf(fmt, c, messages'[i], i, from, peerChunk)
         IN  Begins(messages', Now, k) \/ Continues(Now, k)
  PROVE  DecoderInv'
<1>k. PICK k : k = ChunkOf(fmt, c, messages'[i], i, from, peerChunk)
  OBVIOUS
<1> DEFINE m == messages'[i]
           upto == Decoder!Lesser(m.size, from + peerChunk)
           last == upto = m.size
<1>1. /\ net' = net \o (Decoder!Header(fmt, c, m) \o Decoder!Payload(i, from, upto))
      /\ partial' = [partial EXCEPT ![c] =
                       IF last THEN Decoder!Whole ELSE [message |-> i, sent |-> upto]]
      /\ finished' = IF last /\ m.type = "media" THEN Append(finished, i) ELSE finished
      /\ peerChunk' = IF last /\ m.type = "chunk size" THEN m.value ELSE peerChunk
  BY DEF Decoder!SendChunk
<1>2. Len(messages') \in Nat /\ Len(messages) \in Nat /\ Len(messages) <= Len(messages')
  BY DEF Extends
<1>3. m \in PeerMessage
  BY ElementOfSeq DEF MessagesOK
<1>4. m.size \in Nat
  BY <1>3 DEF PeerMessage
<1>5. /\ Now \in PeerState /\ finished \in Seq(Nat)
      /\ \A j \in 1 .. Len(finished) : finished[j] \in 1 .. Len(messages)
      /\ net \in Seq(Bytes)
  BY DEF DecoderInv, DecoderType
<1>6. peerChunk \in Nat \ {0}
  BY <1>5 DEF Now, PeerState
<1>7. upto \in Nat
  BY <1>4, <1>6 DEF Decoder!Lesser
<1>8. /\ k.fmt = fmt /\ k.c = c /\ k.i = i /\ k.from = from /\ k.upto = upto
      /\ k = [fmt |-> fmt, c |-> c, i |-> i, from |-> from, upto |-> upto]
  BY <1>k DEF ChunkOf
<1>i. i \in Nat
  BY <1>2
<1> HIDE DEF upto, last
<1>9. k \in PeerChunk
  BY ONLY <1>7, <1>8, <1>i, fmt \in 0 .. 3, c \in Channels, from \in Nat DEF PeerChunk
<1>10. IsLast(messages', k) <=> last
  BY <1>8 DEF IsLast, last
<1>11. net' = net \o ChunkBytes(k, messages'[k.i])
  BY ONLY <1>1, <1>8 DEF ChunkBytes
<1>12. Len(finished') = IF last /\ m.type = "media" THEN Len(finished) + 1 ELSE Len(finished)
  <2>1. Len(Append(finished, i)) = Len(finished) + 1
    BY ONLY <1>5, <1>i, AppendProperties
  <2> QED
    BY ONLY <1>1, <2>1
<1>13. Now' = Behind(messages', Now, k)
  <2>1. /\ Now.partial = partial /\ Now.latest = latest /\ Now.chunk = peerChunk
        /\ Now.done = Len(finished)
    BY DEF Now
  <2>2. Now' = [partial |-> partial', latest |-> latest', chunk |-> peerChunk',
                done |-> Len(finished')]
    BY DEF Now
  <2> QED
    BY ONLY <1>1, <1>8, <1>10, <1>12, <2>1, <2>2, latest' = [latest EXCEPT ![c] = i] DEF Behind
<1>14. Begins(messages', Now, k) \/ Continues(Now, k)
  BY <1>k
<1>15. /\ k.upto = Decoder!Lesser(messages'[k.i].size, k.from + Now.chunk)
       /\ k.i \in 1 .. Len(messages')
  BY <1>8 DEF Now, upto
<1>16. /\ finished' \in Seq(Nat) /\ Extends(finished, finished')
       /\ \A j \in 1 .. Len(finished') : finished'[j] \in 1 .. Len(messages')
  <2>1. CASE last /\ m.type = "media"
    <3>1. finished' = Append(finished, i)
      BY ONLY <1>1, <2>1
    <3>2. /\ Append(finished, i) \in Seq(Nat)
          /\ Len(Append(finished, i)) = Len(finished) + 1
          /\ \A j \in 1 .. Len(finished) : Append(finished, i)[j] = finished[j]
          /\ Append(finished, i)[Len(finished) + 1] = i
      BY ONLY <1>5, <1>i, AppendProperties
    <3>3. Extends(finished, Append(finished, i))
      BY ONLY <1>5, <1>i, AppendExtends
    <3>4. ASSUME NEW j \in 1 .. Len(finished) + 1
          PROVE  Append(finished, i)[j] \in 1 .. Len(messages')
      <4>1. Len(finished) \in Nat
        BY ONLY <1>5, LenProperties
      <4>2. CASE j = Len(finished) + 1
        BY ONLY <3>2, <4>2, i \in 1 .. Len(messages')
      <4>3. CASE j # Len(finished) + 1
        <5>1. j \in 1 .. Len(finished)
          BY ONLY <4>1, <4>3, j \in 1 .. Len(finished) + 1
        <5>2. finished[j] \in 1 .. Len(messages)
          BY ONLY <1>5, <5>1
        <5>3. finished[j] \in 1 .. Len(messages')
          BY ONLY <1>2, <5>2
        <5> QED
          BY ONLY <3>2, <5>1, <5>3
      <4> QED
        BY ONLY <4>2, <4>3
    <3> QED
      BY ONLY <3>1, <3>2, <3>3, <3>4
  <2>2. CASE ~ (last /\ m.type = "media")
    <3>1. finished' = finished
      BY ONLY <1>1, <2>2
    <3>2. Extends(finished, finished)
      BY ONLY <1>5, ExtendsItself
    <3>3. ASSUME NEW j \in 1 .. Len(finished)
          PROVE  finished[j] \in 1 .. Len(messages')
      <4>1. finished[j] \in 1 .. Len(messages)
        BY ONLY <1>5, j \in 1 .. Len(finished)
      <4> QED
        BY ONLY <1>2, <4>1
    <3> QED
      BY ONLY <1>5, <3>1, <3>2, <3>3
  <2> QED
    BY ONLY <2>1, <2>2
<1>17. StateOK(messages', finished', Now)
  <2>1. StateOK(messages, finished, Now)
    BY NowIsOK
  <2> QED
    BY ONLY <1>16, <2>1, Extends(messages, messages'), StateOfMore DEF StateStays
<1>18. Behind(messages', Now, k).done <= Len(finished')
  <2>1. Now.done = Len(finished) /\ Len(finished) \in Nat
    BY <1>5, LenProperties DEF Now
  <2> QED
    BY ONLY <1>8, <1>10, <1>12, <2>1 DEF Behind
<1>19. StateOK(messages', finished', Now')
  <2>1. StateOK(messages', finished', Behind(messages', Now, k))
    BY ONLY <1>9, <1>14, <1>15, <1>17, <1>18, MessagesOK(messages'), StateBehind
  <2> QED
    BY ONLY <1>13, <2>1
<1>20. Now'.done # Now.done => finished'[Now'.done] = k.i
  <2>1. Now'.done = Len(finished') /\ Now.done = Len(finished) /\ Len(finished) \in Nat
    BY <1>5, LenProperties DEF Now
  <2>2. Len(finished') # Len(finished) =>
          finished' = Append(finished, i) /\ Len(finished') = Len(finished) + 1
    BY ONLY <1>1, <1>12
  <2>3. Append(finished, i)[Len(finished) + 1] = i
    BY ONLY <1>5, <1>i, AppendProperties
  <2> QED
    BY ONLY <1>8, <2>1, <2>2, <2>3
<1>21. ChunkOK(messages', finished', Now, k, Now')
  BY ONLY <1>9, <1>13, <1>14, <1>15, <1>20 DEF ChunkOK
<1>22. DecoderType'
  <2>1. Now' \in PeerState
    BY ONLY <1>19 DEF StateOK
  <2>2. net' \in Seq(Bytes)
    <3>1. k.from <= k.upto
      BY ONLY <1>17, <1>21, MessagesOK(messages'), ForwardChunk
    <3>2. IsHeader(Decoder!Header(fmt, c, m), fmt, c, m)
      BY ONLY <1>3, fmt \in 0 .. 3, c \in Channels, HeaderIs
    <3>3. Decoder!Header(fmt, c, m) \in Seq(Bytes)
      BY ONLY <3>2 DEF IsHeader
    <3>4. Decoder!Payload(i, from, upto) \in Seq(Bytes)
      BY ONLY <1>7, <1>8, <1>i, <3>1, from \in Nat, PayloadIs
    <3>5. Decoder!Header(fmt, c, m) \o Decoder!Payload(i, from, upto) \in Seq(Bytes)
      BY ONLY <3>3, <3>4, ConcatProperties
    <3> QED
      BY ONLY <1>1, <1>5, <3>5, ConcatProperties
  <2>3. UNCHANGED <<c2Sent, Decoder!decoderVars>>
    OBVIOUS
  <2>4. DecoderType
    BY DEF DecoderInv
  <2>5. MessagesOK(messages')
    OBVIOUS
  <2> QED
    BY ONLY <1>16, <2>1, <2>2, <2>3, <2>4, <2>5 DEF DecoderType, Decoder!decoderVars
<1> QED
  BY ONLY <1>9, <1>11, <1>16, <1>19, <1>21, <1>22, DecoderInv, c2Sent,
          UNCHANGED <<c2Sent, Decoder!decoderVars>>,
       Extends(messages, messages'), PeerGoesOn

-----------------------------------------------------------------------------
(* The actions of the peer *)

AppendsTo(S, s, e) ==
  /\ Append(s, e) \in Seq(S)
  /\ Len(Append(s, e)) = Len(s) + 1
  /\ \A j \in 1 .. Len(s) : Append(s, e)[j] = s[j]
  /\ Append(s, e)[Len(s) + 1] = e

LEMMA AppendIs ==
  ASSUME NEW S, NEW s \in Seq(S), NEW e \in S
  PROVE  AppendsTo(S, s, e)
BY AppendProperties DEF AppendsTo

LEMMA SendMessageStep ==
  ASSUME DecoderInv, NEW c \in Channels, Decoder!SendMessage(c)
  PROVE  DecoderInv'
<1>1. /\ c2Sent /\ partial[c] = Decoder!Whole
      /\ UNCHANGED <<c2Sent, Decoder!decoderVars>>
  BY DEF Decoder!SendMessage
<1>2. PICK fmt \in 0 .. 3, kind \in Decoder!Kinds, delta \in Deltas :
        /\ Decoder!MayOmit(fmt, c, kind, delta)
        /\ LET i == Len(messages) + 1
               time == delta + IF latest[c] = 0 THEN 0 ELSE messages[latest[c]].time
               m == [type |-> kind.type, size |-> kind.size, value |-> kind.value,
                     time |-> time, field |-> IF fmt = 0 THEN time ELSE delta]
           IN  /\ messages' = Append(messages, m)
               /\ Decoder!SendChunk(fmt, c, m, i, 0)
               /\ latest' = [latest EXCEPT ![c] = i]
  BY DEF Decoder!SendMessage
<1>3. PICK i, time, m :
        /\ i = Len(messages) + 1
        /\ time = delta + IF latest[c] = 0 THEN 0 ELSE messages[latest[c]].time
        /\ m = [type |-> kind.type, size |-> kind.size, value |-> kind.value,
                time |-> time, field |-> IF fmt = 0 THEN time ELSE delta]
  OBVIOUS
<1>4. /\ messages' = Append(messages, m) /\ Decoder!SendChunk(fmt, c, m, i, 0)
      /\ latest' = [latest EXCEPT ![c] = i]
  BY ONLY <1>2, <1>3
<1>5. /\ messages \in Seq(PeerMessage)
      /\ \A j \in 1 .. Len(messages) :
           messages[j].type = "chunk size" => messages[j].size # 0 /\ messages[j].value # 0
      /\ MessagesOK(messages)
  BY DEF DecoderInv, DecoderType, MessagesOK
<1>6. StateOK(messages, finished, Now)
  BY NowIsOK
<1>7. latest[c] \in Nat /\ latest[c] <= Len(messages) /\ Len(messages) \in Nat
  <2>1. Now.latest[c] <= Len(messages) /\ Now \in PeerState
    BY ONLY <1>6, c \in Channels DEF StateOK
  <2>2. Now.latest = latest
    BY DEF Now
  <2>3. latest \in [Channels -> Nat]
    BY ONLY <2>1, <2>2 DEF PeerState
  <2> QED
    BY ONLY <1>5, <2>1, <2>2, <2>3, LenProperties, c \in Channels
<1>8. /\ kind.type \in MessageTypes /\ kind.size \in Nat /\ kind.value \in Nat
      /\ kind.type = "chunk size" => kind.size # 0 /\ kind.value # 0
  <2>0. \A x \in Sizes : x \in Nat
    BY DecoderAssumption DEF Decoder!DecoderConstants
  <2>1. \A x \in ChunkSizes : x \in Nat /\ x # 0
    BY DecoderAssumption DEF Decoder!DecoderConstants
  <2>2. CASE kind \in [type : {"media"}, size : Sizes, value : {0}]
    <3>1. kind.type = "media"
      BY ONLY <2>2
    <3>2. kind.size \in Sizes
      BY ONLY <2>2
    <3>3. kind.value \in {0}
      BY ONLY <2>2
    <3>4. kind.size \in Nat
      BY ONLY <2>0, <3>2
    <3>5. kind.value \in Nat
      BY ONLY <3>3
    <3> QED
      BY ONLY <3>1, <3>4, <3>5 DEF MessageTypes
  <2>3. CASE kind \in [type : {"chunk size"}, size : {2}, value : ChunkSizes]
    <3>1. kind.type = "chunk size"
      BY ONLY <2>3
    <3>2. kind.size \in {2}
      BY ONLY <2>3
    <3>3. kind.value \in ChunkSizes
      BY ONLY <2>3
    <3>4. kind.size \in Nat /\ kind.size # 0
      BY ONLY <3>2
    <3>5. kind.value \in Nat /\ kind.value # 0
      BY ONLY <2>1, <3>3
    <3>6. kind.type \in MessageTypes
      BY ONLY <3>1 DEF MessageTypes
    <3> QED
      BY ONLY <3>4, <3>5, <3>6
  <2>4. CASE kind \in [type : {"ack"}, size : {1}, value : {0}]
    <3>1. kind.type = "ack"
      BY ONLY <2>4
    <3>2. kind.size \in {1}
      BY ONLY <2>4
    <3>3. kind.value \in {0}
      BY ONLY <2>4
    <3>4. kind.size \in Nat
      BY ONLY <3>2
    <3>5. kind.value \in Nat
      BY ONLY <3>3
    <3> QED
      BY ONLY <3>1, <3>4, <3>5 DEF MessageTypes
  <2> QED
    BY <2>2, <2>3, <2>4 DEF Decoder!Kinds
<1>9. delta \in Nat
  BY DecoderAssumption DEF Decoder!DecoderConstants
<1>10. latest[c] # 0 => messages[latest[c]] \in PeerMessage
  <2>1. latest[c] # 0 => latest[c] \in 1 .. Len(messages)
    BY ONLY <1>7
  <2> QED
    BY ONLY <1>5, <2>1, ElementOfSeq
<1>11. time \in Nat
  <2>1. latest[c] # 0 => messages[latest[c]].time \in Nat
    BY ONLY <1>10 DEF PeerMessage
  <2>2. CASE latest[c] = 0
    BY ONLY <1>3, <1>9, <2>2
  <2>3. CASE latest[c] # 0
    BY ONLY <1>3, <1>9, <2>1, <2>3
  <2> QED
    BY <2>2, <2>3
<1>12. /\ m.type = kind.type /\ m.size = kind.size /\ m.value = kind.value /\ m.time = time
       /\ m.field = IF fmt = 0 THEN time ELSE delta
  BY ONLY <1>3
<1>13. m \in PeerMessage
  BY ONLY <1>3, <1>8, <1>9, <1>11 DEF PeerMessage
<1>14. /\ messages' \in Seq(PeerMessage)
       /\ Len(messages') = i
       /\ \A j \in 1 .. Len(messages) : messages'[j] = messages[j]
       /\ messages'[i] = m
  <2>1. /\ Append(messages, m) \in Seq(PeerMessage)
        /\ Len(Append(messages, m)) = Len(messages) + 1
        /\ \A j \in 1 .. Len(messages) : Append(messages, m)[j] = messages[j]
        /\ Append(messages, m)[Len(messages) + 1] = m
    <3>1. AppendsTo(PeerMessage, messages, m)
      BY ONLY <1>5, <1>13, AppendIs
    <3> QED
      BY ONLY <3>1 DEF AppendsTo
  <2>2. i = Len(messages) + 1
    BY ONLY <1>3
  <2> QED
    BY ONLY <1>4, <2>1, <2>2
<1>15. Extends(messages, messages')
  BY ONLY <1>4, <1>5, <1>13, AppendExtends
<1>16. i \in 1 .. Len(messages') /\ 0 \in Nat
  BY ONLY <1>3, <1>7, <1>14
<1>17. MessagesOK(messages')
  <2>1. ASSUME NEW j \in 1 .. Len(messages')
        PROVE  messages'[j].type = "chunk size" => messages'[j].size # 0 /\ messages'[j].value # 0
    <3>1. j = i \/ j \in 1 .. Len(messages)
      BY ONLY <1>3, <1>7, <1>14, j \in 1 .. Len(messages')
    <3>2. CASE j = i
      BY ONLY <1>8, <1>12, <1>14, <3>2
    <3>3. CASE j \in 1 .. Len(messages)
      BY ONLY <1>5, <1>14, <3>3
    <3> QED
      BY ONLY <3>1, <3>2, <3>3
  <2> QED
    BY ONLY <1>14, <2>1 DEF MessagesOK
<1>18. ASSUME NEW k, k = ChunkOf(fmt, c, m, i, 0, peerChunk)
       PROVE  Begins(messages', Now, k)
  <2>1. k.fmt = fmt /\ k.c = c /\ k.i = i /\ k.from = 0
    BY ONLY <1>18 DEF ChunkOf
  <2>2. Now.partial = partial /\ Now.latest = latest
    BY DEF Now
  <2>3. \/ fmt = 0
        \/ /\ latest[c] # 0
           /\ fmt >= 2 => /\ kind.size = messages[latest[c]].size
                          /\ kind.type = messages[latest[c]].type
           /\ fmt = 3 => delta = messages[latest[c]].field
    BY ONLY <1>2 DEF Decoder!MayOmit
  <2>4. latest[c] # 0 => messages'[latest[c]] = messages[latest[c]]
    <3>1. latest[c] # 0 => latest[c] \in 1 .. Len(messages)
      BY ONLY <1>7
    <3> QED
      BY ONLY <1>14, <3>1
  <2>5. CASE fmt = 0
    BY ONLY <1>1, <1>12, <1>14, <2>1, <2>2, <2>5 DEF Begins
  <2>6. CASE fmt # 0
    <3>1. /\ latest[c] # 0
          /\ fmt >= 2 => m.size = messages'[latest[c]].size /\ m.type = messages'[latest[c]].type
          /\ fmt = 3 => m.field = messages'[latest[c]].field
      BY ONLY <1>12, <2>3, <2>4, <2>6
    <3>2. m.time = m.field + messages'[latest[c]].time
      BY ONLY <1>3, <1>12, <2>4, <2>6, <3>1
    <3> QED
      BY ONLY <1>1, <1>14, <2>1, <2>2, <2>6, <3>1, <3>2 DEF Begins
  <2> QED
    BY <2>5, <2>6
<1>19. LET k == ChunkOf(fmt, c, messages'[i], i, 0, peerChunk)
       IN  Begins(messages', Now, k) \/ Continues(Now, k)
  BY ONLY <1>14, <1>18
<1>20. Decoder!SendChunk(fmt, c, messages'[i], i, 0)
  BY ONLY <1>4, <1>14
<1> QED
  BY ONLY <1>1, <1>4, <1>15, <1>16, <1>17, <1>19, <1>20, DecoderInv, fmt \in 0 .. 3, c \in Channels,
       SendChunkLeaves

LEMMA ContinueMessageStep ==
  ASSUME DecoderInv, NEW c \in Channels, Decoder!ContinueMessage(c)
  PROVE  DecoderInv'
<1>i. PICK i, from : i = partial[c].message /\ from = partial[c].sent
  OBVIOUS
<1>1. /\ partial[c] # Decoder!Whole
      /\ Decoder!SendChunk(3, c, messages[i], i, from)
      /\ messages' = messages /\ latest' = latest
      /\ UNCHANGED <<c2Sent, Decoder!decoderVars>>
  BY <1>i DEF Decoder!ContinueMessage
<1>2. StateOK(messages, finished, Now)
  BY NowIsOK
<1>3. /\ latest[c] <= Len(messages) /\ latest[c] # 0 /\ i = latest[c]
      /\ Now \in PeerState
  <2>1. Now.partial = partial /\ Now.latest = latest
    BY DEF Now
  <2> QED
    BY ONLY <1>1, <1>2, <1>i, <2>1, c \in Channels DEF StateOK
<1>4. latest \in [Channels -> Nat] /\ partial \in [Channels -> [message : Nat, sent : Nat]]
  <2>1. Now.partial = partial /\ Now.latest = latest
    BY DEF Now
  <2> QED
    BY ONLY <1>3, <2>1 DEF PeerState
<1>5. MessagesOK(messages) /\ messages \in Seq(PeerMessage)
  BY DEF DecoderInv, DecoderType, MessagesOK
<1>6. i \in 1 .. Len(messages) /\ from \in Nat
  BY ONLY <1>3, <1>4, <1>i, c \in Channels
<1>7. latest' = [latest EXCEPT ![c] = i]
  BY ONLY <1>1, <1>3, <1>4, c \in Channels
<1>8. Extends(messages, messages')
  BY ONLY <1>1, <1>5, ExtendsItself
<1>9. LET k == ChunkOf(3, c, messages'[i], i, from, peerChunk)
      IN  Begins(messages', Now, k) \/ Continues(Now, k)
  <2>1. ASSUME NEW k, k = ChunkOf(3, c, messages'[i], i, from, peerChunk)
        PROVE  Continues(Now, k)
    <3>1. k.fmt = 3 /\ k.c = c /\ k.i = i /\ k.from = from
      BY ONLY <2>1 DEF ChunkOf
    <3>2. Now.partial = partial
      BY DEF Now
    <3> QED
      BY ONLY <1>1, <1>i, <3>1, <3>2 DEF Continues
  <2> QED
    BY ONLY <2>1
<1>10. c2Sent
  <2>1. PICK hist, n, chunk, st, off : LogInv(hist, n, chunk, st, off)
    BY DEF DecoderInv
  <2> SUFFICES ASSUME ~c2Sent
               PROVE  FALSE
    OBVIOUS
  <2> QED
    BY ONLY <1>1, <2>1, ~c2Sent, c \in Channels DEF LogInv, Opening
<1>11. 3 \in 0 .. 3
  OBVIOUS
<1> QED
  BY ONLY <1>1, <1>5, <1>6, <1>7, <1>8, <1>9, <1>10, <1>11, DecoderInv, c \in Channels,
       SendChunkLeaves

LEMMA ShakesAre ==
  ASSUME NEW n \in Nat
  PROVE  Decoder!Shakes(n) \in Seq(Bytes) /\ Len(Decoder!Shakes(n)) = n
<1>1. Decoder!Byte("shake", TRUE) \in Bytes
  <2>1. "shake" \in ByteParts /\ TRUE \in ByteValues
    BY DEF ByteParts, ByteValues
  <2> QED
    BY <2>1, ByteIsByte
<1>2. Decoder!Shakes(n) = [i \in 1 .. n |-> Decoder!Byte("shake", TRUE)]
  BY DEF Decoder!Shakes
<1>3. Decoder!Shakes(n) \in [1 .. n -> Bytes]
  BY ONLY <1>1, <1>2
<1> QED
  BY ONLY <1>3, n \in Nat

LEMMA SendC2Step ==
  ASSUME DecoderInv, Decoder!SendC2
  PROVE  DecoderInv'
<1>1. /\ state # "C0C1" /\ ~c2Sent /\ c2Sent' = TRUE
      /\ net' = net \o Decoder!Shakes(Shake)
      /\ messages' = messages /\ finished' = finished /\ partial' = partial /\ latest' = latest
      /\ peerChunk' = peerChunk
      /\ state' = state /\ buffer' = buffer /\ chunkSize' = chunkSize /\ channels' = channels
      /\ packets' = packets /\ decodePc' = decodePc /\ delivered' = delivered
  BY DEF Decoder!SendC2, Decoder!decoderVars
<1>2. PICK hist, used, n, chunk, st, off, d :
        /\ BytesOK(hist, used, buffer, net)
        /\ LogInv(hist, n, chunk, st, off)
        /\ ReadInv(used, n, chunk, st, off, d)
  BY DEF DecoderInv
<1>3. PICK hist2, off2 :
        /\ hist2 = hist \o Decoder!Shakes(Shake)
        /\ off2 = [j \in 1 .. n + 1 |-> C2End]
  OBVIOUS
<1>4. /\ n = 0 /\ Len(hist) = C1End /\ st[1] = Now /\ StateOK(messages, finished, Now)
  BY ONLY <1>1, <1>2 DEF LogInv, Opening
<1>5. Shake \in Nat
  BY DecoderAssumption DEF Decoder!DecoderConstants
<1>6. Decoder!Shakes(Shake) \in Seq(Bytes) /\ Len(Decoder!Shakes(Shake)) = Shake
  BY ONLY <1>5, ShakesAre
<1>7. BytesOK(hist2, used, buffer, net')
  BY ONLY <1>1, <1>2, <1>3, <1>6, BytesMore DEF BytesAdded
<1>8. Len(hist2) = C2End
  <2>1. hist \in Seq(Bytes)
    BY ONLY <1>2 DEF BytesOK
  <2>2. Len(hist2) = Len(hist) + Shake
    BY ONLY <1>3, <1>6, <2>1, ConcatProperties
  <2> QED
    BY ONLY <1>4, <1>5, <2>2 DEF C1End, C2End
<1>9. Now' = Now
  BY ONLY <1>1 DEF Now
<1>10. LogOK(messages, finished, Now, hist2, n, chunk, st, off2)
  <2>1. C2End \in Nat
    BY ONLY <1>5 DEF C2End
  <2>2. 1 .. n + 1 = {1} /\ n \in Nat /\ n + 1 = 1 /\ 1 .. n = {}
    BY ONLY <1>4
  <2>3. off2 \in [1 .. n + 1 -> Nat] /\ off2[1] = C2End
    BY ONLY <1>3, <2>1, <2>2
  <2>4. \A j \in 1 .. n + 1 : StateOK(messages, finished, st[j]) /\ off2[j] <= off2[n + 1]
    BY ONLY <1>4, <2>1, <2>2, <2>3
  <2>5. off2[n + 1] = Len(hist2) /\ st[n + 1] = Now
    BY ONLY <1>4, <1>8, <2>2, <2>3
  <2> QED
    BY ONLY <2>2, <2>3, <2>4, <2>5 DEF LogOK
<1>11. LogInv(hist2, n, chunk, st, off2)'
  <2>1. LogOK(messages', finished', Now', hist2, n, chunk, st, off2)
    BY ONLY <1>1, <1>9, <1>10
  <2> QED
    BY ONLY <1>1, <2>1 DEF LogInv
<1>12. ReadInv(used, n, chunk, st, off2, d)'
  <2>1. /\ d \in 1 .. n + 1
        /\ state = "C0C1" => ~c2Sent /\ used \in {0, 1}
        /\ state = "C2" => used = C1End
        /\ state # "Done" => d = 1
        /\ state = "Done" => c2Sent /\ used = off[d]
        /\ chunkSize = st[d].chunk
        /\ Follows(messages, channels, st[d], n, chunk, d)
        /\ HandedOut(messages, finished, delivered \o packets, st[d].done)
    BY ONLY <1>2 DEF ReadInv
  <2>2. state # "Done"
    BY ONLY <1>1, <2>1
  <2>3. /\ Follows(messages', channels', st[d], n, chunk, d)
        /\ HandedOut(messages', finished', delivered' \o packets', st[d].done)
    BY ONLY <1>1, <2>1
  <2>4. /\ state' # "C0C1" /\ state' # "Done"
        /\ state' = "C2" => used = C1End
        /\ d = 1 /\ chunkSize' = st[d].chunk
    BY ONLY <1>1, <2>1, <2>2
  <2> QED
    BY ONLY <2>1, <2>3, <2>4 DEF ReadInv
<1>13. DecoderType'
  <2>1. DecoderType
    BY DEF DecoderInv
  <2>2. net' \in Seq(Bytes)
    BY ONLY <1>7 DEF BytesOK
  <2> QED
    BY ONLY <1>1, <1>9, <2>1, <2>2 DEF DecoderType
<1>14. BytesOK(hist2, used, buffer, net)'
  BY ONLY <1>1, <1>7
<1> QED
  BY ONLY <1>11, <1>12, <1>13, <1>14 DEF DecoderInv

-----------------------------------------------------------------------------
(* The handshake, and returning for lack of bytes *)

LEMMA LogUnchanged ==
  ASSUME UNCHANGED Decoder!peerVars, NEW hist, NEW n, NEW chunk, NEW st, NEW off,
         LogInv(hist, n, chunk, st, off)
  PROVE  LogInv(hist, n, chunk, st, off)'
<1>1. /\ messages' = messages /\ finished' = finished /\ partial' = partial /\ latest' = latest
      /\ peerChunk' = peerChunk /\ c2Sent' = c2Sent
  BY DEF Decoder!peerVars
<1>2. Now' = Now
  BY ONLY <1>1 DEF Now
<1> QED
  BY ONLY <1>1, <1>2, LogInv(hist, n, chunk, st, off) DEF LogInv, Opening

\* Returning hands out what is in packets.
LEMMA ReturnKeeps ==
  ASSUME DecoderType, Decoder!Return
  PROVE  /\ delivered' \o packets' = delivered \o packets
         /\ delivered' \in Seq(Kept) /\ packets' \in Seq(Kept)
         /\ packets' = <<>> /\ decodePc' = "Idle"
<1>1. packets' = <<>> /\ delivered' = delivered \o packets /\ decodePc' = "Idle"
  BY DEF Decoder!Return
<1>2. delivered \in Seq(Kept) /\ packets \in Seq(Kept)
  BY DEF DecoderType
<1>3. delivered' \in Seq(Kept)
  BY ONLY <1>1, <1>2, ConcatProperties
<1>4. delivered' \o <<>> = delivered'
  BY ONLY <1>3, ConcatEmptySeq
<1>5. <<>> \in Seq(Kept)
  BY ONLY EmptySeq
<1> QED
  BY ONLY <1>1, <1>3, <1>4, <1>5

\* What ReadInv says of the state.
ReadParts(used, n, chunk, st, off, d) ==
  /\ d \in 1 .. n + 1
  /\ state = "C0C1" => ~c2Sent /\ used \in {0, 1}
  /\ state = "C2" => used = C1End
  /\ state # "Done" => d = 1
  /\ state = "Done" => c2Sent /\ used = off[d]
  /\ chunkSize = st[d].chunk
  /\ Follows(messages, channels, st[d], n, chunk, d)
  /\ HandedOut(messages, finished, delivered \o packets, st[d].done)

LEMMA NothingToDecodeStep ==
  ASSUME DecoderInv, Decoder!NothingToDecode
  PROVE  DecoderInv'
<1>1. /\ buffer = <<>> \/ state = "C2"
      /\ Decoder!Return /\ UNCHANGED Decoder!peerVars
      /\ net' = net /\ state' = state /\ buffer' = buffer /\ chunkSize' = chunkSize
      /\ channels' = channels
  BY DEF Decoder!NothingToDecode
<1>2. PICK hist, used, n, chunk, st, off, d :
        /\ BytesOK(hist, used, buffer, net)
        /\ LogInv(hist, n, chunk, st, off)
        /\ ReadInv(used, n, chunk, st, off, d)
  BY DEF DecoderInv
<1>3. DecoderType
  BY DEF DecoderInv
<1>4. /\ delivered' \o packets' = delivered \o packets
      /\ delivered' \in Seq(Kept) /\ packets' \in Seq(Kept)
      /\ packets' = <<>> /\ decodePc' = "Idle"
  BY ONLY <1>1, <1>3, ReturnKeeps
<1>5. /\ messages' = messages /\ finished' = finished /\ c2Sent' = c2Sent /\ Now' = Now
  BY <1>1 DEF Decoder!peerVars, Now
<1>6. DecoderType'
  BY ONLY <1>1, <1>3, <1>4, <1>5 DEF DecoderType
<1>7. LogInv(hist, n, chunk, st, off)'
  BY ONLY <1>1, <1>2, LogUnchanged
<1>8. ReadParts(used, n, chunk, st, off, d)
  BY ONLY <1>2 DEF ReadInv, ReadParts
<1>9. ReadParts(used, n, chunk, st, off, d)'
  BY ONLY <1>1, <1>4, <1>5, <1>8 DEF ReadParts
<1>10. ReadInv(used, n, chunk, st, off, d)'
  <2>1. decodePc' = "Idle" /\ state' = "Done" => buffer' = <<>>
    BY ONLY <1>1
  <2> QED
    BY ONLY <1>9, <2>1 DEF ReadInv, ReadParts
<1>11. BytesOK(hist, used, buffer, net)'
  BY ONLY <1>1, <1>2
<1> QED
  BY ONLY <1>6, <1>7, <1>10, <1>11 DEF DecoderInv

LEMMA ReceiveStep ==
  ASSUME DecoderInv, NEW m \in 1 .. Len(net), Decoder!Receive(m)
  PROVE  DecoderInv'
<1>1. /\ buffer' = buffer \o SubSeq(net, 1, m)
      /\ net' = SubSeq(net, m + 1, Len(net))
      /\ decodePc' = "Decode" /\ UNCHANGED Decoder!peerVars
      /\ state' = state /\ chunkSize' = chunkSize /\ channels' = channels
      /\ delivered' = delivered /\ packets' = packets
  BY DEF Decoder!Receive
<1>2. PICK hist, used, n, chunk, st, off, d :
        /\ BytesOK(hist, used, buffer, net)
        /\ LogInv(hist, n, chunk, st, off)
        /\ ReadInv(used, n, chunk, st, off, d)
  BY DEF DecoderInv
<1>3. DecoderType
  BY DEF DecoderInv
<1>4. BytesOK(hist, used, buffer', net')
  BY ONLY <1>1, <1>2, m \in 1 .. Len(net), BytesArrive DEF BytesArrived
<1>5. /\ messages' = messages /\ finished' = finished /\ c2Sent' = c2Sent /\ Now' = Now
  BY <1>1 DEF Decoder!peerVars, Now
<1>6. DecoderType'
  <2>1. buffer' \in Seq(Bytes) /\ net' \in Seq(Bytes)
    BY ONLY <1>4 DEF BytesOK
  <2>2. decodePc' # "Idle"
    BY ONLY <1>1
  <2> QED
    BY ONLY <1>1, <1>3, <1>5, <2>1, <2>2 DEF DecoderType
<1>7. LogInv(hist, n, chunk, st, off)'
  BY ONLY <1>1, <1>2, LogUnchanged
<1>8. ReadParts(used, n, chunk, st, off, d)
  BY ONLY <1>2 DEF ReadInv, ReadParts
<1>9. ReadParts(used, n, chunk, st, off, d)'
  BY ONLY <1>1, <1>5, <1>8 DEF ReadParts
<1>10. ReadInv(used, n, chunk, st, off, d)'
  <2>1. decodePc' # "Idle"
    BY ONLY <1>1
  <2> QED
    BY ONLY <1>9, <2>1 DEF ReadInv, ReadParts
<1>11. BytesOK(hist, used, buffer, net)'
  BY ONLY <1>4
<1> QED
  BY ONLY <1>6, <1>7, <1>10, <1>11 DEF DecoderInv

LEMMA DecodeC0C1Step ==
  ASSUME DecoderInv, Decoder!DecodeC0C1
  PROVE  DecoderInv'
<1>1. /\ state = "C0C1" /\ Decoder!Return /\ UNCHANGED Decoder!peerVars
      /\ net' = net /\ chunkSize' = chunkSize /\ channels' = channels
      /\ \/ buffer' = buffer /\ state' = state
         \/ /\ Len(buffer) = 1 + Shake
            /\ \/ Decoder!Consumed(1 + Shake) /\ state' = "C2"
               \/ Decoder!Consumed(1) /\ state' = state
  BY DEF Decoder!DecodeC0C1
<1>2. PICK hist, used, n, chunk, st, off, d :
        /\ BytesOK(hist, used, buffer, net)
        /\ LogInv(hist, n, chunk, st, off)
        /\ ReadInv(used, n, chunk, st, off, d)
  BY DEF DecoderInv
<1>3. DecoderType
  BY DEF DecoderInv
<1>4. /\ delivered' \o packets' = delivered \o packets
      /\ delivered' \in Seq(Kept) /\ packets' \in Seq(Kept)
      /\ packets' = <<>> /\ decodePc' = "Idle"
  BY ONLY <1>1, <1>3, ReturnKeeps
<1>5. /\ messages' = messages /\ finished' = finished /\ c2Sent' = c2Sent /\ Now' = Now
  BY <1>1 DEF Decoder!peerVars, Now
<1>6. ReadParts(used, n, chunk, st, off, d)
  BY ONLY <1>2 DEF ReadInv, ReadParts
<1>7. ~c2Sent /\ used \in {0, 1} /\ d = 1
  BY ONLY <1>1, <1>6 DEF ReadParts
<1>8. Len(hist) = 1 + Shake /\ Shake \in Nat
  BY ONLY <1>2, <1>7, DecoderAssumption DEF Decoder!DecoderConstants, LogInv, Opening, C1End
<1>9. /\ used + Len(buffer) + Len(net) = Len(hist)
      /\ Len(buffer) \in Nat /\ Len(net) \in Nat
  BY ONLY <1>2, LenProperties DEF BytesOK
<1>10. Len(buffer) = 1 + Shake => used = 0
  BY ONLY <1>7, <1>8, <1>9
\* The decoder has consumed C0 and C1, C0 alone, or nothing.
<1>11. \E used2 :
         /\ BytesOK(hist, used2, buffer', net)
         /\ \/ state' = "C0C1" /\ used2 \in {0, 1}
            \/ state' = "C2" /\ used2 = C1End
  <2>1. CASE buffer' = buffer /\ state' = state
    BY ONLY <1>1, <1>2, <1>7, <2>1
  <2>2. CASE Len(buffer) = 1 + Shake /\ Decoder!Consumed(1 + Shake) /\ state' = "C2"
    <3>1. 1 + Shake \in 0 .. Len(buffer)
      BY ONLY <1>8, <2>2
    <3>2. BytesOK(hist, used + (1 + Shake), buffer', net)
      BY ONLY <1>2, <2>2, <3>1, BytesConsumed DEF BytesUsed, Decoder!Consumed
    <3>3. used + (1 + Shake) = C1End
      BY ONLY <1>8, <1>10, <2>2 DEF C1End
    <3> QED
      BY ONLY <2>2, <3>2, <3>3
  <2>3. CASE Len(buffer) = 1 + Shake /\ Decoder!Consumed(1) /\ state' = state
    <3>1. 1 \in 0 .. Len(buffer)
      BY ONLY <1>8, <2>3
    <3>2. BytesOK(hist, used + 1, buffer', net)
      BY ONLY <1>2, <2>3, <3>1, BytesConsumed DEF BytesUsed, Decoder!Consumed
    <3>3. used + 1 = 1
      BY ONLY <1>10, <2>3
    <3> QED
      BY ONLY <1>1, <2>3, <3>2, <3>3
  <2> QED
    BY ONLY <1>1, <2>1, <2>2, <2>3
<1>12. PICK used2 :
         /\ BytesOK(hist, used2, buffer', net)
         /\ \/ state' = "C0C1" /\ used2 \in {0, 1}
            \/ state' = "C2" /\ used2 = C1End
  BY ONLY <1>11
<1>13. DecoderType'
  <2>1. buffer' \in Seq(Bytes)
    BY ONLY <1>12 DEF BytesOK
  <2>2. state' \in {"C0C1", "C2", "Done"}
    BY ONLY <1>12
  <2> QED
    BY ONLY <1>1, <1>3, <1>4, <1>5, <2>1, <2>2 DEF DecoderType
<1>14. LogInv(hist, n, chunk, st, off)'
  BY ONLY <1>1, <1>2, LogUnchanged
<1>15. ReadInv(used2, n, chunk, st, off, d)'
  <2>1. /\ state' = "C0C1" => ~c2Sent' /\ used2 \in {0, 1}
        /\ state' = "C2" => used2 = C1End
        /\ state' # "Done"
    BY ONLY <1>5, <1>7, <1>12
  <2>2. /\ d \in 1 .. n + 1
        /\ chunkSize' = st[d].chunk
        /\ Follows(messages', channels', st[d], n, chunk, d)
        /\ HandedOut(messages', finished', delivered' \o packets', st[d].done)
    BY ONLY <1>1, <1>4, <1>5, <1>6 DEF ReadParts
  <2> QED
    BY ONLY <1>7, <2>1, <2>2 DEF ReadInv
<1>16. BytesOK(hist, used2, buffer, net)'
  BY ONLY <1>1, <1>12
<1> QED
  BY ONLY <1>13, <1>14, <1>15, <1>16 DEF DecoderInv

LEMMA DecodeC2Step ==
  ASSUME DecoderInv, Decoder!DecodeC2
  PROVE  DecoderInv'
<1>1. /\ decodePc = "Decode" /\ state = "C2" /\ Len(buffer) >= Shake /\ Decoder!Consumed(Shake)
      /\ state' = "Done" /\ UNCHANGED Decoder!peerVars
      /\ net' = net /\ chunkSize' = chunkSize /\ channels' = channels /\ packets' = packets
      /\ decodePc' = decodePc /\ delivered' = delivered
  BY DEF Decoder!DecodeC2
<1>2. PICK hist, used, n, chunk, st, off, d :
        /\ BytesOK(hist, used, buffer, net)
        /\ LogInv(hist, n, chunk, st, off)
        /\ ReadInv(used, n, chunk, st, off, d)
  BY DEF DecoderInv
<1>3. DecoderType
  BY DEF DecoderInv
<1>4. /\ messages' = messages /\ finished' = finished /\ c2Sent' = c2Sent /\ Now' = Now
  BY <1>1 DEF Decoder!peerVars, Now
<1>5. ReadParts(used, n, chunk, st, off, d)
  BY ONLY <1>2 DEF ReadInv, ReadParts
<1>6. used = C1End /\ d = 1
  BY ONLY <1>1, <1>5 DEF ReadParts
<1>7. Shake \in Nat /\ Shake # 0
  BY DecoderAssumption DEF Decoder!DecoderConstants
<1>8. /\ used + Len(buffer) + Len(net) = Len(hist)
      /\ Len(buffer) \in Nat /\ Len(net) \in Nat
  BY ONLY <1>2, LenProperties DEF BytesOK
<1>9. c2Sent
  <2>1. Len(hist) # C1End
    BY ONLY <1>1, <1>6, <1>7, <1>8 DEF C1End
  <2> QED
    BY ONLY <1>2, <2>1 DEF LogInv, Opening
<1>10. BytesOK(hist, used + Shake, buffer', net)
  <2>1. Shake \in 0 .. Len(buffer)
    BY ONLY <1>1, <1>7, <1>8
  <2> QED
    BY ONLY <1>1, <1>2, <2>1, BytesConsumed DEF BytesUsed, Decoder!Consumed
<1>11. used + Shake = off[d]
  <2>1. off[1] = C2End
    BY ONLY <1>2, <1>9 DEF LogInv, LogOK
  <2> QED
    BY ONLY <1>6, <1>7, <2>1 DEF C1End, C2End
<1>12. DecoderType'
  <2>1. buffer' \in Seq(Bytes)
    BY ONLY <1>10 DEF BytesOK
  <2>2. state' \in {"C0C1", "C2", "Done"}
    BY ONLY <1>1
  <2> QED
    BY ONLY <1>1, <1>3, <1>4, <2>1, <2>2 DEF DecoderType
<1>13. LogInv(hist, n, chunk, st, off)'
  BY ONLY <1>1, <1>2, LogUnchanged
<1>14. ReadInv(used + Shake, n, chunk, st, off, d)'
  <2>1. /\ state' = "Done" /\ decodePc' # "Idle" /\ c2Sent' /\ used + Shake = off[d]
    BY ONLY <1>1, <1>4, <1>9, <1>11
  <2>2. /\ d \in 1 .. n + 1
        /\ chunkSize' = st[d].chunk
        /\ Follows(messages', channels', st[d], n, chunk, d)
        /\ HandedOut(messages', finished', delivered' \o packets', st[d].done)
    BY ONLY <1>1, <1>4, <1>5 DEF ReadParts
  <2> QED
    BY ONLY <2>1, <2>2 DEF ReadInv
<1>15. BytesOK(hist, used + Shake, buffer, net)'
  BY ONLY <1>1, <1>10
<1> QED
  BY ONLY <1>12, <1>13, <1>14, <1>15 DEF DecoderInv

-----------------------------------------------------------------------------
(* A chunk *)

\* Chunk k, between what the peer knew before it and behind it, is the next to be read.
Ahead(hist, o, k, s, t, e) ==
  /\ hist \in Seq(Bytes) /\ o \in Nat /\ e \in Nat
  /\ StateOK(messages, finished, s) /\ StateOK(messages, finished, t)
  /\ ChunkOK(messages, finished, s, k, t)
  /\ OnWire(messages, hist, o, k, e)
  /\ Len(buffer) \in Nat \ {0}
  /\ buffer[1] = Decoder!Byte("head", <<k.fmt, k.c>>)
  /\ \A j \in 1 .. Len(buffer) : buffer[j] = hist[o + j]

LEMMA ChunkAhead ==
  ASSUME Decoder!AtChunk, NEW hist, NEW used, NEW n, NEW chunk, NEW st, NEW off, NEW d,
         BytesOK(hist, used, buffer, net), LogInv(hist, n, chunk, st, off),
         ReadInv(used, n, chunk, st, off, d)
  PROVE  /\ n \in Nat /\ d \in 1 .. n /\ used = off[d]
         /\ \A j \in 1 .. n + 1 : off[j] \in Nat /\ off[j] <= off[n + 1]
         /\ Ahead(hist, off[d], chunk[d], st[d], st[d + 1], off[d + 1])
<1>1. state = "Done" /\ buffer # <<>>
  BY DEF Decoder!AtChunk
<1>2. d \in 1 .. n + 1 /\ c2Sent /\ used = off[d]
  BY ONLY <1>1, ReadInv(used, n, chunk, st, off, d) DEF ReadInv
<1>3. LogOK(messages, finished, Now, hist, n, chunk, st, off)
  BY ONLY <1>2, LogInv(hist, n, chunk, st, off) DEF LogInv
<1>4. /\ n \in Nat
      /\ off \in [1 .. n + 1 -> Nat]
      /\ off[n + 1] = Len(hist)
      /\ \A j \in 1 .. n + 1 : StateOK(messages, finished, st[j]) /\ off[j] <= off[n + 1]
      /\ \A j \in 1 .. n : /\ ChunkOK(messages, finished, st[j], chunk[j], st[j + 1])
                           /\ OnWire(messages, hist, off[j], chunk[j], off[j + 1])
  BY ONLY <1>3 DEF LogOK
<1>5. /\ used + Len(buffer) + Len(net) = Len(hist)
      /\ buffer \in Seq(Bytes) /\ net \in Seq(Bytes) /\ hist \in Seq(Bytes) /\ used \in Nat
      /\ \A j \in 1 .. Len(buffer) : buffer[j] = hist[used + j]
  BY ONLY BytesOK(hist, used, buffer, net) DEF BytesOK
<1>6. Len(buffer) \in Nat \ {0} /\ Len(net) \in Nat /\ Len(hist) \in Nat
  BY ONLY <1>1, <1>5, LenProperties, EmptySeq
<1>7. d # n + 1
  BY ONLY <1>2, <1>4, <1>5, <1>6
<1>8. d \in 1 .. n
  BY ONLY <1>2, <1>4, <1>7
<1>9. d + 1 \in 1 .. n + 1
  BY ONLY <1>4, <1>8
<1>10. /\ ChunkOK(messages, finished, st[d], chunk[d], st[d + 1])
       /\ OnWire(messages, hist, off[d], chunk[d], off[d + 1])
  BY ONLY <1>4, <1>8
<1>11. 1 \in 1 .. Len(buffer)
  BY ONLY <1>6
<1>12. buffer[1] = hist[off[d] + 1]
  BY ONLY <1>2, <1>5, <1>11
<1>13. buffer[1] = Decoder!Byte("head", <<chunk[d].fmt, chunk[d].c>>)
  BY ONLY <1>10, <1>12 DEF OnWire
<1>14. \A j \in 1 .. n + 1 : off[j] \in Nat /\ off[j] <= off[n + 1]
  BY ONLY <1>4
<1>15. StateOK(messages, finished, st[d]) /\ StateOK(messages, finished, st[d + 1])
  BY ONLY <1>2, <1>4, <1>9
<1>16. Ahead(hist, off[d], chunk[d], st[d], st[d + 1], off[d + 1])
  BY ONLY <1>2, <1>5, <1>6, <1>9, <1>10, <1>13, <1>14, <1>15 DEF Ahead
<1> QED
  BY ONLY <1>2, <1>4, <1>8, <1>14, <1>16

\* What the decoder reads in the first byte.
LEMMA HeadRead ==
  ASSUME NEW hist, NEW o, NEW k, NEW s, NEW t, NEW e, Ahead(hist, o, k, s, t, e)
  PROVE  /\ k.fmt \in 0 .. 3 /\ k.c \in Channels
         /\ Decoder!Fmt = k.fmt /\ Decoder!HeadLen = 4 - k.fmt /\ Head(buffer).value[2] = k.c
<1>1. Head(buffer) = Decoder!Byte("head", <<k.fmt, k.c>>) /\ k \in PeerChunk
  BY DEF Ahead, ChunkOK
<1>2. Head(buffer).value = <<k.fmt, k.c>>
  BY ONLY <1>1 DEF Decoder!Byte
<1>3. Head(buffer).value[1] = k.fmt /\ Head(buffer).value[2] = k.c
  BY ONLY <1>2
<1>4. Decoder!Fmt = k.fmt
  BY ONLY <1>3 DEF Decoder!Fmt
<1> QED
  BY ONLY <1>1, <1>3, <1>4 DEF Decoder!HeadLen, PeerChunk

\* The fields that WithHeader and WithBuffer set.
HeaderFields(ch, h, fmt, m) ==
  /\ h \in Kept
  /\ h.time = IF fmt <= 2 THEN m.field ELSE ch.time
  /\ h.bodySize = IF fmt <= 1 THEN m.size ELSE ch.bodySize
  /\ h.type = IF fmt <= 1 THEN m.type ELSE ch.type
  /\ h.absoluteTime = ch.absoluteTime /\ h.iobuf = ch.iobuf

LEMMA WithHeaderSets ==
  ASSUME NEW ch \in Kept, NEW fmt \in 0 .. 3, Decoder!Fmt = fmt, NEW m \in PeerMessage,
         fmt <= 2 => buffer[2].value = m.field,
         fmt <= 1 => buffer[3].value[1] = m.size /\ buffer[3].value[2] = m.type
  PROVE  HeaderFields(ch, Decoder!WithHeader(ch), fmt, m)
<1>1. PICK x, y, z, h : /\ x = m.field /\ y = m.size /\ z = m.type
                        /\ h = Decoder!WithHeader(ch)
  OBVIOUS
<1>2. x \in Nat /\ y \in Nat /\ z \in MessageTypes
  BY ONLY <1>1, m \in PeerMessage DEF PeerMessage
<1>3. CASE fmt <= 1
  <2>1. h = [ch EXCEPT !.time = x, !.bodySize = y, !.type = z]
    <3>1. Decoder!Fmt <= 2 /\ Decoder!Fmt <= 1
      BY <1>3
    <3>2. buffer[2].value = x /\ buffer[3].value[1] = y /\ buffer[3].value[2] = z
      BY <1>1, <1>3
    <3> QED
      BY ONLY <1>1, <3>1, <3>2 DEF Decoder!WithHeader
  <2>2. /\ h \in Kept /\ h.time = x /\ h.bodySize = y /\ h.type = z
        /\ h.absoluteTime = ch.absoluteTime /\ h.iobuf = ch.iobuf
    BY ONLY <1>2, <2>1, ch \in Kept DEF Kept
  <2> QED
    BY <1>1, <1>3, <2>2 DEF HeaderFields
<1>4. CASE fmt = 2
  <2>1. h = [ch EXCEPT !.time = x, !.bodySize = @, !.type = @]
    <3>1. Decoder!Fmt <= 2 /\ ~ (Decoder!Fmt <= 1)
      BY <1>4
    <3>2. buffer[2].value = x
      BY <1>1, <1>4
    <3> QED
      BY ONLY <1>1, <3>1, <3>2 DEF Decoder!WithHeader
  <2>2. /\ h \in Kept /\ h.time = x /\ h.bodySize = ch.bodySize /\ h.type = ch.type
        /\ h.absoluteTime = ch.absoluteTime /\ h.iobuf = ch.iobuf
    BY ONLY <1>2, <2>1, ch \in Kept DEF Kept
  <2> QED
    BY <1>1, <1>4, <2>2 DEF HeaderFields
<1>5. CASE fmt = 3
  <2>1. h = [ch EXCEPT !.time = @, !.bodySize = @, !.type = @]
    <3>1. ~ (Decoder!Fmt <= 2) /\ ~ (Decoder!Fmt <= 1)
      BY <1>5
    <3> QED
      BY ONLY <1>1, <3>1 DEF Decoder!WithHeader
  <2>2. /\ h \in Kept /\ h.time = ch.time /\ h.bodySize = ch.bodySize /\ h.type = ch.type
        /\ h.absoluteTime = ch.absoluteTime /\ h.iobuf = ch.iobuf
    BY ONLY <2>1, ch \in Kept DEF Kept
  <2> QED
    BY <1>1, <1>5, <2>2 DEF HeaderFields
<1> QED
  BY <1>3, <1>4, <1>5

BufferFields(h, b, fmt) ==
  /\ b \in Kept
  /\ b.time = h.time /\ b.bodySize = h.bodySize /\ b.type = h.type
  /\ b.iobuf = IF h.iobuf # Decoder!NoBuffer THEN h.iobuf ELSE <<>>
  /\ b.absoluteTime = IF h.iobuf # Decoder!NoBuffer THEN h.absoluteTime
                      ELSE IF fmt = 0 THEN h.time ELSE h.absoluteTime + h.time

LEMMA WithBufferSets ==
  ASSUME NEW h \in Kept, NEW fmt, Decoder!Fmt = fmt
  PROVE  BufferFields(h, Decoder!WithBuffer(h), fmt)
<1>1. CASE h.iobuf # Decoder!NoBuffer
  BY <1>1 DEF Decoder!WithBuffer, BufferFields
<1>2. CASE h.iobuf = Decoder!NoBuffer
  <2>1. PICK x, b : /\ x = IF fmt = 0 THEN h.time ELSE h.absoluteTime + h.time
                    /\ b = Decoder!WithBuffer(h)
    OBVIOUS
  <2>2. x \in Nat /\ <<>> \in Seq(Bytes)
    BY ONLY <2>1, h \in Kept, EmptySeq DEF Kept
  <2>3. b = [h EXCEPT !.iobuf = <<>>, !.absoluteTime = x]
    BY <1>2, <2>1 DEF Decoder!WithBuffer
  <2>4. /\ b \in Kept /\ b.time = h.time /\ b.bodySize = h.bodySize /\ b.type = h.type
        /\ b.iobuf = <<>> /\ b.absoluteTime = x
    BY ONLY <2>2, <2>3, h \in Kept DEF Kept
  <2> QED
    BY ONLY <1>2, <2>1, <2>4 DEF BufferFields
<1> QED
  BY <1>1, <1>2

\* The channel when the header has been looked at.
LookedAt(ch, k) ==
  /\ Opened(messages, Decoder!WithBuffer(Decoder!WithHeader(ch)), k)
  /\ Decoder!WithBuffer(Decoder!WithHeader(ch)) \in Kept

LEMMA HeaderRead ==
  ASSUME NEW hist, NEW o, NEW k, NEW s, NEW t, NEW e, Ahead(hist, o, k, s, t, e),
         MessagesOK(messages), NEW ch \in Kept,
         Matches(messages, ch, s, k.c) \/ Opened(messages, ch, k), ~Decoder!HeaderShort
  PROVE  LookedAt(ch, k)
<1> DEFINE m == messages[k.i]
           p == messages[s.latest[k.c]]
           c == k.c
           h == Decoder!WithHeader(ch)
           b == Decoder!WithBuffer(h)
<1>1. /\ k \in PeerChunk
      /\ k.i \in 1 .. Len(messages)
      /\ Begins(messages, s, k) \/ Continues(s, k)
      /\ StateOK(messages, finished, s)
  BY DEF Ahead, ChunkOK
<1>2. Decoder!Fmt = k.fmt /\ k.fmt \in 0 .. 3 /\ Decoder!HeadLen = 4 - k.fmt /\ c \in Channels
  BY ONLY Ahead(hist, o, k, s, t, e), HeadRead
<1>3. m \in PeerMessage /\ messages \in Seq(PeerMessage)
  BY <1>1, ElementOfSeq DEF MessagesOK
<1>4. Len(buffer) \in Nat /\ Len(buffer) >= 4 - k.fmt
  BY <1>2 DEF Ahead, Decoder!HeaderShort
<1>5. k.fmt <= 2 => buffer[2].value = m.field
  <2>1. k.fmt <= 2 => 2 \in 1 .. Len(buffer)
    BY ONLY <1>2, <1>4
  <2>2. k.fmt <= 2 => hist[o + 2] = Decoder!Byte("time", m.field)
    BY DEF Ahead, OnWire
  <2>3. k.fmt <= 2 => buffer[2] = hist[o + 2]
    BY <2>1 DEF Ahead
  <2> QED
    BY ONLY <2>2, <2>3 DEF Decoder!Byte
<1>6. k.fmt <= 1 => buffer[3].value = <<m.size, m.type>>
  <2>1. k.fmt <= 1 => 3 \in 1 .. Len(buffer)
    BY ONLY <1>2, <1>4
  <2>2. k.fmt <= 1 => hist[o + 3] = Decoder!Byte("size and type", <<m.size, m.type>>)
    BY DEF Ahead, OnWire
  <2>3. k.fmt <= 1 => buffer[3] = hist[o + 3]
    BY <2>1 DEF Ahead
  <2>4. k.fmt <= 1 => buffer[3] = Decoder!Byte("size and type", <<m.size, m.type>>)
    BY ONLY <2>2, <2>3
  <2>5. Decoder!Byte("size and type", <<m.size, m.type>>).value = <<m.size, m.type>>
    BY ONLY DEF Decoder!Byte
  <2> QED
    BY ONLY <2>4, <2>5
<1>7. k.fmt <= 1 => buffer[3].value[1] = m.size /\ buffer[3].value[2] = m.type
  BY ONLY <1>6
<1>8. HeaderFields(ch, h, k.fmt, m)
  BY ONLY <1>2, <1>3, <1>5, <1>7, ch \in Kept, WithHeaderSets
<1>9. BufferFields(h, b, k.fmt)
  <2> HIDE DEF h
  <2>1. h \in Kept
    BY ONLY <1>8 DEF HeaderFields
  <2> QED
    BY ONLY <1>2, <2>1, WithBufferSets
<1> HIDE DEF h, b
<1>f. k.i \in Nat /\ k.from \in Nat
  BY <1>1 DEF PeerChunk
<1>10. ASSUME Opened(messages, ch, k)
       PROVE  Opened(messages, b, k)
  <2>1. /\ ch.time = m.field /\ ch.absoluteTime = m.time
        /\ ch.bodySize = m.size /\ ch.type = m.type
        /\ ch.iobuf = Decoder!Payload(k.i, 0, k.from)
    BY ONLY <1>10 DEF Opened
  <2>2. ch.iobuf # Decoder!NoBuffer
    BY ONLY <1>f, <2>1, PayloadFromStart
  <2>3. /\ b.time = m.field /\ b.absoluteTime = m.time
        /\ b.bodySize = m.size /\ b.type = m.type
        /\ b.iobuf = Decoder!Payload(k.i, 0, k.from)
    <3>1. /\ h.time = m.field /\ h.absoluteTime = m.time
          /\ h.bodySize = m.size /\ h.type = m.type /\ h.iobuf = ch.iobuf
      BY ONLY <1>8, <2>1 DEF HeaderFields
    <3>2. h.iobuf # Decoder!NoBuffer
      BY ONLY <2>2, <3>1
    <3> QED
      BY ONLY <1>9, <2>1, <3>1, <3>2 DEF BufferFields
  <2> QED
    BY ONLY <2>3 DEF Opened
<1>11. ASSUME Matches(messages, ch, s, c) /\ Continues(s, k)
       PROVE  Opened(messages, b, k)
  <2>1. /\ s.partial[c] # Decoder!Whole /\ s.partial[c].message = k.i
        /\ s.partial[c].sent = k.from /\ k.fmt = 3
    BY ONLY <1>11 DEF Continues
  <2>2. s.latest[c] # 0 /\ s.latest[c] = k.i
    BY ONLY <1>1, <1>2, <2>1 DEF StateOK
  <2>3. /\ ch.time = m.field /\ ch.absoluteTime = m.time
        /\ ch.bodySize = m.size /\ ch.type = m.type
        /\ ch.iobuf = Decoder!Payload(k.i, 0, k.from)
    BY ONLY <1>11, <2>1, <2>2 DEF Matches
  <2>4. ch.iobuf # Decoder!NoBuffer
    BY ONLY <1>f, <2>3, PayloadFromStart
  <2>5. /\ b.time = m.field /\ b.absoluteTime = m.time
        /\ b.bodySize = m.size /\ b.type = m.type
        /\ b.iobuf = Decoder!Payload(k.i, 0, k.from)
    <3>1. /\ h.time = m.field /\ h.absoluteTime = m.time
          /\ h.bodySize = m.size /\ h.type = m.type /\ h.iobuf = ch.iobuf
      BY ONLY <1>8, <2>3 DEF HeaderFields
    <3>2. h.iobuf # Decoder!NoBuffer
      BY ONLY <2>4, <3>1
    <3> QED
      BY ONLY <1>9, <2>3, <3>1, <3>2 DEF BufferFields
  <2> QED
    BY ONLY <2>5 DEF Opened
<1>12. ASSUME Matches(messages, ch, s, c) /\ Begins(messages, s, k)
       PROVE  Opened(messages, b, k)
  <2>1. /\ s.partial[c] = Decoder!Whole
        /\ k.from = 0
        /\ k.fmt = 0 => m.time = m.field
        /\ k.fmt # 0 => s.latest[c] # 0 /\ m.time = m.field + p.time
        /\ k.fmt >= 2 => m.size = p.size /\ m.type = p.type
        /\ k.fmt = 3 => m.field = p.field
    BY ONLY <1>12 DEF Begins
  <2>2. ch.iobuf = Decoder!NoBuffer
    BY ONLY <1>12, <2>1 DEF Matches, Decoder!NewChannel
  <2>3. s.latest[c] # 0 =>
          /\ ch.time = p.field /\ ch.absoluteTime = p.time
          /\ ch.bodySize = p.size /\ ch.type = p.type
    BY ONLY <1>12 DEF Matches
  <2>4. b.iobuf = Decoder!Payload(k.i, 0, k.from)
    <3>1. b.iobuf = <<>>
      BY ONLY <1>8, <1>9, <2>2 DEF HeaderFields, BufferFields
    <3> QED
      BY ONLY <1>f, <2>1, <3>1, EmptyPayload
  <2>5. b.time = m.field
    BY ONLY <1>2, <1>8, <1>9, <2>1, <2>3 DEF HeaderFields, BufferFields
  <2>6. b.bodySize = m.size /\ b.type = m.type
    BY ONLY <1>2, <1>8, <1>9, <2>1, <2>3 DEF HeaderFields, BufferFields
  <2>7. b.absoluteTime = m.time
    <3>1. b.absoluteTime = IF k.fmt = 0 THEN m.field ELSE ch.absoluteTime + m.field
      BY ONLY <1>8, <1>9, <2>2, <2>5 DEF HeaderFields, BufferFields
    <3>2. CASE k.fmt = 0
      BY ONLY <2>1, <3>1, <3>2
    <3>3. CASE k.fmt # 0
      <4>1. m.field \in Nat /\ p.time \in Nat
        <5>1. s.latest[c] \in 1 .. Len(messages)
          BY ONLY <1>1, <1>2, <2>1, <3>3 DEF StateOK, PeerState
        <5>2. p \in PeerMessage
          BY ONLY <1>3, <5>1, ElementOfSeq
        <5> QED
          BY ONLY <1>3, <5>2 DEF PeerMessage
      <4>2. m.time = m.field + p.time /\ ch.absoluteTime = p.time
        BY ONLY <2>1, <2>3, <3>3
      <4>3. b.absoluteTime = ch.absoluteTime + m.field
        BY ONLY <3>1, <3>3
      <4> QED
        BY ONLY <4>1, <4>2, <4>3
    <3> QED
      BY <3>2, <3>3
  <2> QED
    BY ONLY <2>4, <2>5, <2>6, <2>7 DEF Opened
<1>13. Opened(messages, b, k)
  <2>1. Matches(messages, ch, s, c) \/ Opened(messages, ch, k)
    OBVIOUS
  <2> QED
    BY ONLY <1>1, <1>10, <1>11, <1>12, <2>1
<1>14. b \in Kept
  BY ONLY <1>9 DEF BufferFields
<1> QED
  BY ONLY <1>13, <1>14 DEF LookedAt, b, h

\* The length of the chunk is what the decoder takes it to be.
LenFacts(ch, k, o, e) ==
  /\ Decoder!ChunkLen(ch) = k.upto - k.from
  /\ Decoder!HeadLen + Decoder!ChunkLen(ch) = e - o
  /\ Decoder!PayloadShort(ch) <=> Len(buffer) < e - o
  /\ k.i \in 1 .. Len(messages) /\ k.i \in Nat /\ k.from \in Nat /\ k.upto \in Nat
  /\ k.from <= k.upto
  /\ Len(buffer) \in Nat

LEMMA ChunkLenIs ==
  ASSUME NEW hist, NEW o, NEW k, NEW s, NEW t, NEW e, Ahead(hist, o, k, s, t, e),
         MessagesOK(messages), NEW ch, Opened(messages, ch, k), chunkSize = s.chunk
  PROVE  LenFacts(ch, k, o, e)
<1>1. /\ k \in PeerChunk /\ k.i \in 1 .. Len(messages)
      /\ k.upto = Decoder!Lesser(messages[k.i].size, k.from + s.chunk)
      /\ StateOK(messages, finished, s)
      /\ ChunkOK(messages, finished, s, k, t)
  BY DEF Ahead, ChunkOK
<1>2. k.i \in Nat /\ k.from \in Nat /\ k.upto \in Nat
  BY ONLY <1>1 DEF PeerChunk
<1>3. k.from <= k.upto /\ k.upto <= messages[k.i].size
  BY ONLY <1>1, MessagesOK(messages), ForwardChunk
<1>4. messages[k.i].size \in Nat
  <2>1. messages[k.i] \in PeerMessage
    BY <1>1, ElementOfSeq DEF MessagesOK
  <2> QED
    BY ONLY <2>1 DEF PeerMessage
<1>5. ch.bodySize = messages[k.i].size /\ ch.iobuf = Decoder!Payload(k.i, 0, k.from)
  BY DEF Opened
<1>6. Len(ch.iobuf) = k.from
  BY ONLY <1>2, <1>5, PayloadFromStart
<1>7. s.chunk \in Nat
  BY ONLY <1>1 DEF StateOK, PeerState
<1>8. Decoder!ChunkLen(ch) = k.upto - k.from
  <2>1. Decoder!ChunkLen(ch) = Decoder!Lesser(messages[k.i].size - k.from, s.chunk)
    BY ONLY <1>5, <1>6, chunkSize = s.chunk DEF Decoder!ChunkLen
  <2> QED
    BY ONLY <1>1, <1>2, <1>3, <1>4, <1>7, <2>1 DEF Decoder!Lesser
<1>9. Decoder!HeadLen = 4 - k.fmt /\ k.fmt \in 0 .. 3
  BY ONLY Ahead(hist, o, k, s, t, e), HeadRead
<1>10. e = o + (4 - k.fmt) + (k.upto - k.from) /\ o \in Nat /\ e \in Nat /\ Len(buffer) \in Nat
  BY DEF Ahead, OnWire
<1>11. Decoder!HeadLen + Decoder!ChunkLen(ch) = e - o
  BY ONLY <1>2, <1>3, <1>8, <1>9, <1>10
<1>12. ~ (Len(ch.iobuf) > ch.bodySize)
  BY ONLY <1>2, <1>3, <1>4, <1>5, <1>6
<1>13. Decoder!PayloadShort(ch) <=> Len(buffer) < e - o
  BY ONLY <1>11, <1>12 DEF Decoder!PayloadShort
<1> QED
  BY ONLY <1>1, <1>2, <1>3, <1>8, <1>10, <1>11, <1>13 DEF LenFacts

LEMMA HeaderWaitsStep ==
  ASSUME DecoderInv, Decoder!HeaderWaits
  PROVE  DecoderInv'
<1>1. /\ Decoder!AtChunk /\ Decoder!HeaderShort /\ Decoder!Return /\ UNCHANGED Decoder!peerVars
      /\ net' = net /\ state' = state /\ buffer' = buffer /\ chunkSize' = chunkSize
      /\ channels' = channels
  BY DEF Decoder!HeaderWaits
<1>2. PICK hist, used, n, chunk, st, off, d :
        /\ BytesOK(hist, used, buffer, net)
        /\ LogInv(hist, n, chunk, st, off)
        /\ ReadInv(used, n, chunk, st, off, d)
  BY DEF DecoderInv
<1>3. DecoderType
  BY DEF DecoderInv
<1>4. /\ delivered' \o packets' = delivered \o packets
      /\ delivered' \in Seq(Kept) /\ packets' \in Seq(Kept)
      /\ packets' = <<>> /\ decodePc' = "Idle"
  BY ONLY <1>1, <1>3, ReturnKeeps
<1>5. /\ messages' = messages /\ finished' = finished /\ c2Sent' = c2Sent /\ Now' = Now
  BY <1>1 DEF Decoder!peerVars, Now
<1>6. DecoderType'
  BY ONLY <1>1, <1>3, <1>4, <1>5 DEF DecoderType
<1>7. LogInv(hist, n, chunk, st, off)'
  BY ONLY <1>1, <1>2, LogUnchanged
<1>8. ReadParts(used, n, chunk, st, off, d)
  BY ONLY <1>2 DEF ReadInv, ReadParts
<1>9. ReadParts(used, n, chunk, st, off, d)'
  BY ONLY <1>1, <1>4, <1>5, <1>8 DEF ReadParts
<1>10. /\ n \in Nat /\ d \in 1 .. n
       /\ Ahead(hist, off[d], chunk[d], st[d], st[d + 1], off[d + 1])
  BY ONLY <1>1, <1>2, ChunkAhead
<1>11. Len(buffer) < off[d + 1] - off[d]
  <2>1. Decoder!HeadLen = 4 - chunk[d].fmt /\ chunk[d].fmt \in 0 .. 3
    BY ONLY <1>10, HeadRead
  <2>2. /\ off[d + 1] = off[d] + (4 - chunk[d].fmt) + (chunk[d].upto - chunk[d].from)
        /\ off[d] \in Nat /\ off[d + 1] \in Nat /\ Len(buffer) \in Nat
        /\ chunk[d] \in PeerChunk
    BY ONLY <1>10 DEF Ahead, OnWire, ChunkOK
  <2>3. chunk[d].from \in Nat /\ chunk[d].upto \in Nat
    BY ONLY <2>2 DEF PeerChunk
  <2>4. chunk[d].from <= chunk[d].upto
    <3>1. MessagesOK(messages)
      BY ONLY <1>3 DEF DecoderType
    <3>2. /\ StateOK(messages, finished, st[d])
          /\ ChunkOK(messages, finished, st[d], chunk[d], st[d + 1])
      BY ONLY <1>10 DEF Ahead
    <3> QED
      BY ONLY <3>1, <3>2, ForwardChunk
  <2>5. Len(buffer) < 4 - chunk[d].fmt
    BY ONLY <1>1, <2>1 DEF Decoder!HeaderShort
  <2>6. PICK h, b : h = 4 - chunk[d].fmt /\ b = chunk[d].upto - chunk[d].from
    OBVIOUS
  <2>7. h \in Nat /\ b \in Nat
    BY ONLY <2>1, <2>3, <2>4, <2>6
  <2>8. off[d + 1] = off[d] + h + b /\ Len(buffer) < h
    BY ONLY <2>2, <2>5, <2>6
  <2>9. off[d] \in Nat /\ off[d + 1] \in Nat /\ Len(buffer) \in Nat
    BY ONLY <2>2
  <2> QED
    BY ONLY <2>7, <2>8, <2>9
<1>12. ReadInv(used, n, chunk, st, off, d)'
  <2>1. d <= n /\ Len(buffer') < off[d + 1] - off[d]
    BY ONLY <1>1, <1>10, <1>11
  <2> QED
    BY ONLY <1>9, <2>1 DEF ReadInv, ReadParts
<1>13. BytesOK(hist, used, buffer, net)'
  BY ONLY <1>1, <1>2
<1> QED
  BY ONLY <1>6, <1>7, <1>12, <1>13 DEF DecoderInv

\* The channel of the chunk at hand: opened, or not yet.
AtHand(ch, s, k) == Matches(messages, ch, s, k.c) \/ Opened(messages, ch, k)

LEMMA ChannelAtHand ==
  ASSUME NEW used, NEW n, NEW chunk, NEW st, NEW off, NEW d, NEW k, NEW s,
         k = chunk[d], s = st[d], k.c \in Channels, ReadParts(used, n, chunk, st, off, d)
  PROVE  AtHand(channels[k.c], s, k)
<1>1. Follows(messages, channels, s, n, chunk, d)
  BY DEF ReadParts
<1> QED
  BY <1>1 DEF Follows, AtHand

LEMMA PayloadWaitsStep ==
  ASSUME DecoderInv, Decoder!PayloadWaits
  PROVE  DecoderInv'
<1>c. PICK c, ch : /\ c = Head(buffer).value[2]
                   /\ ch = Decoder!WithBuffer(Decoder!WithHeader(channels[c]))
  OBVIOUS
<1>1. /\ Decoder!AtChunk /\ ~Decoder!HeaderShort /\ Decoder!PayloadShort(ch)
      /\ Decoder!Return /\ UNCHANGED Decoder!peerVars
      /\ net' = net /\ state' = state /\ buffer' = buffer /\ chunkSize' = chunkSize
      /\ channels' = [channels EXCEPT ![c] = ch]
  BY <1>c DEF Decoder!PayloadWaits
<1>2. PICK hist, used, n, chunk, st, off, d :
        /\ BytesOK(hist, used, buffer, net)
        /\ LogInv(hist, n, chunk, st, off)
        /\ ReadInv(used, n, chunk, st, off, d)
  BY DEF DecoderInv
<1>3. DecoderType
  BY DEF DecoderInv
<1>4. /\ delivered' \o packets' = delivered \o packets
      /\ delivered' \in Seq(Kept) /\ packets' \in Seq(Kept)
      /\ packets' = <<>> /\ decodePc' = "Idle"
  BY ONLY <1>1, <1>3, ReturnKeeps
<1>5. /\ messages' = messages /\ finished' = finished /\ c2Sent' = c2Sent /\ Now' = Now
  BY <1>1 DEF Decoder!peerVars, Now
<1>6. LogInv(hist, n, chunk, st, off)'
  BY ONLY <1>1, <1>2, LogUnchanged
<1>7. ReadParts(used, n, chunk, st, off, d)
  BY ONLY <1>2 DEF ReadInv, ReadParts
<1>8. /\ n \in Nat /\ d \in 1 .. n
      /\ Ahead(hist, off[d], chunk[d], st[d], st[d + 1], off[d + 1])
  BY ONLY <1>1, <1>2, ChunkAhead
<1>9. c = chunk[d].c /\ c \in Channels
  BY ONLY <1>c, <1>8, HeadRead
<1>10. MessagesOK(messages) /\ channels \in [Channels -> Kept]
  BY ONLY <1>3 DEF DecoderType
<1>11. channels[c] \in Kept
  BY ONLY <1>9, <1>10
<1>12. Opened(messages, ch, chunk[d]) /\ ch \in Kept
  <2>1. PICK k, s, t, o, e :
          /\ k = chunk[d] /\ s = st[d] /\ t = st[d + 1]
          /\ o = off[d] /\ e = off[d + 1]
    OBVIOUS
  <2>2. k.c \in Channels /\ c = k.c
    BY ONLY <1>9, <2>1
  <2>3. AtHand(channels[c], s, k)
    BY ONLY <1>7, <2>1, <2>2, ChannelAtHand
  <2>4. Ahead(hist, o, k, s, t, e)
    BY ONLY <1>8, <2>1
  <2>5. LookedAt(channels[c], k)
    BY ONLY <1>1, <1>10, <1>11, <2>2, <2>3, <2>4, HeaderRead DEF AtHand
  <2> QED
    BY ONLY <1>c, <2>1, <2>5 DEF LookedAt
<1>13. DecoderType'
  <2>1. channels' \in [Channels -> Kept]
    BY ONLY <1>1, <1>9, <1>10, <1>12
  <2> QED
    BY ONLY <1>1, <1>3, <1>4, <1>5, <2>1 DEF DecoderType
<1>14. Len(buffer) < off[d + 1] - off[d]
  <2>1. chunkSize = st[d].chunk
    BY ONLY <1>7 DEF ReadParts
  <2>2. LenFacts(ch, chunk[d], off[d], off[d + 1])
    BY ONLY <1>8, <1>10, <1>12, <2>1, ChunkLenIs
  <2> QED
    BY ONLY <1>1, <2>2 DEF LenFacts
<1>15. Follows(messages', channels', st[d], n, chunk, d)
  <2> SUFFICES ASSUME NEW b \in Channels
               PROVE  \/ Matches(messages', channels'[b], st[d], b)
                      \/ d <= n /\ chunk[d].c = b /\ Opened(messages', channels'[b], chunk[d])
    BY DEF Follows
  <2>1. CASE b = c
    <3>1. channels'[b] = ch
      BY ONLY <1>1, <1>9, <1>10, <2>1
    <3>2. d <= n
      BY ONLY <1>8
    <3> QED
      BY ONLY <1>5, <1>9, <1>12, <2>1, <3>1, <3>2
  <2>2. CASE b # c
    <3>1. channels'[b] = channels[b]
      BY ONLY <1>1, <1>10, <2>2, b \in Channels
    <3>2. \/ Matches(messages, channels[b], st[d], b)
          \/ d <= n /\ chunk[d].c = b /\ Opened(messages, channels[b], chunk[d])
      BY ONLY <1>7, b \in Channels DEF ReadParts, Follows
    <3> QED
      BY ONLY <1>5, <3>1, <3>2
  <2> QED
    BY <2>1, <2>2
<1>16. ReadInv(used, n, chunk, st, off, d)'
  <2>1. d <= n /\ Len(buffer') < off[d + 1] - off[d]
    BY ONLY <1>1, <1>8, <1>14
  <2>2. /\ d \in 1 .. n + 1
        /\ state' = "C0C1" => ~c2Sent' /\ used \in {0, 1}
        /\ state' = "C2" => used = C1End
        /\ state' # "Done" => d = 1
        /\ state' = "Done" => c2Sent' /\ used = off[d]
        /\ chunkSize' = st[d].chunk
        /\ HandedOut(messages', finished', delivered' \o packets', st[d].done)
    BY ONLY <1>1, <1>4, <1>5, <1>7 DEF ReadParts
  <2> QED
    BY ONLY <1>15, <2>1, <2>2 DEF ReadInv
<1>17. BytesOK(hist, used, buffer, net)'
  BY ONLY <1>1, <1>2
<1> QED
  BY ONLY <1>6, <1>13, <1>16, <1>17 DEF DecoderInv

\* b elements of a sequence, behind the first h.
PieceOf(S, s, h, b) ==
  LET x == SubSeq(s, h + 1, h + b)
  IN  /\ x \in Seq(S) /\ Len(x) = b
      /\ \A j \in 1 .. b : x[j] = s[h + j]

LEMMA PieceIs ==
  ASSUME NEW S, NEW s \in Seq(S), NEW h \in 0 .. Len(s), NEW b \in 0 .. Len(s) - h
  PROVE  PieceOf(S, s, h, b)
<1> DEFINE x == SubSeq(s, h + 1, h + b)
           l == Len(s)
<1>1. l \in Nat /\ \A i \in 1 .. l : s[i] \in S
  BY LenProperties, ElementOfSeq
<1>2. h \in 0 .. l /\ b \in 0 .. l - h
  OBVIOUS
<1> HIDE DEF l, x
<1>3. h + 1 \in Int /\ h + b \in Int /\ \A i \in h + 1 .. h + b : i \in 1 .. l
  BY ONLY <1>1, <1>2
<1>4. \A i \in h + 1 .. h + b : s[i] \in S
  BY ONLY <1>1, <1>3
<1>5. /\ x \in Seq(S)
      /\ Len(x) = (IF h + 1 <= h + b THEN (h + b) - (h + 1) + 1 ELSE 0)
      /\ \A i \in 1 .. (h + b) - (h + 1) + 1 : x[i] = s[(h + 1) + i - 1]
  BY ONLY <1>3, <1>4, SubSeqProperties DEF x
<1>6. Len(x) = b
  BY ONLY <1>1, <1>2, <1>5
<1>7. ASSUME NEW j \in 1 .. b
      PROVE  x[j] = s[h + j]
  <2>1. j \in 1 .. (h + b) - (h + 1) + 1 /\ (h + 1) + j - 1 = h + j
    BY ONLY <1>1, <1>2, j \in 1 .. b
  <2> QED
    BY ONLY <1>5, <2>1
<1> QED
  BY <1>5, <1>6, <1>7 DEF PieceOf, x

LEMMA NoBufferIs == Decoder!NoBuffer \in Seq(Bytes)
<1>1. Decoder!Byte("none", <<0, 0>>) \in Bytes
  <2>1. "none" \in ByteParts /\ <<0, 0>> \in ByteValues
    BY DEF ByteParts, ByteValues
  <2> QED
    BY <2>1, ByteIsByte
<1> QED
  BY <1>1 DEF Decoder!NoBuffer

\* One packet more.
HandedMoreOne(ms, f, got, done, p) == HandedOut(ms, f, Append(got, p), done + 1)

LEMMA HandedOne ==
  ASSUME NEW ms, NEW f, NEW got \in Seq(Kept), NEW done \in Nat, NEW p \in Kept,
         HandedOut(ms, f, got, done), Decoder!Shown(p) = SentOf(ms, f[done + 1])
  PROVE  HandedMoreOne(ms, f, got, done, p)
<1>1. AppendsTo(Kept, got, p)
  BY AppendIs
<1>2. Len(got) = done /\ \A j \in 1 .. done : Decoder!Shown(got[j]) = SentOf(ms, f[j])
  BY DEF HandedOut
<1>3. /\ Len(Append(got, p)) = done + 1
      /\ \A j \in 1 .. done : Append(got, p)[j] = got[j]
      /\ Append(got, p)[done + 1] = p
  BY ONLY <1>1, <1>2 DEF AppendsTo
<1>4. ASSUME NEW j \in 1 .. done + 1
      PROVE  Decoder!Shown(Append(got, p)[j]) = SentOf(ms, f[j])
  <2>1. j \in 1 .. done \/ j = done + 1
    OBVIOUS
  <2>2. CASE j \in 1 .. done
    BY ONLY <1>2, <1>3, <2>2
  <2>3. CASE j = done + 1
    BY <1>3, <2>3
  <2> QED
    BY <2>1, <2>2, <2>3
<1> QED
  BY <1>3, <1>4 DEF HandedMoreOne, HandedOut

\* A taken chunk: what the decoder knows behind it.
Filled(ch, ch2, k) ==
  /\ ch2 \in Kept
  /\ ch2.time = ch.time /\ ch2.absoluteTime = ch.absoluteTime /\ ch2.bodySize = ch.bodySize
  /\ ch2.type = ch.type /\ ch2.iobuf = Decoder!Payload(k.i, 0, k.upto)

LEMMA ChunkTaken ==
  ASSUME NEW hist, NEW o, NEW k, NEW s, NEW t, NEW e, Ahead(hist, o, k, s, t, e),
         MessagesOK(messages), buffer \in Seq(Bytes), NEW ch \in Kept, Opened(messages, ch, k),
         chunkSize = s.chunk, ~Decoder!PayloadShort(ch)
  PROVE  Filled(ch, [ch EXCEPT !.iobuf =
                      @ \o SubSeq(buffer, Decoder!HeadLen + 1,
                                  Decoder!HeadLen + Decoder!ChunkLen(ch))], k)
<1>1. /\ Decoder!ChunkLen(ch) = k.upto - k.from
      /\ Decoder!HeadLen + Decoder!ChunkLen(ch) = e - o
      /\ ~ (Len(buffer) < e - o)
      /\ k.i \in Nat /\ k.from \in Nat /\ k.upto \in Nat
      /\ k.from <= k.upto
      /\ Len(buffer) \in Nat
  <2>1. LenFacts(ch, k, o, e)
    BY ONLY Ahead(hist, o, k, s, t, e), MessagesOK(messages), Opened(messages, ch, k),
         chunkSize = s.chunk, ChunkLenIs
  <2> QED
    BY ONLY <2>1, ~Decoder!PayloadShort(ch) DEF LenFacts
<1>2. Decoder!HeadLen = 4 - k.fmt /\ k.fmt \in 0 .. 3
  BY ONLY Ahead(hist, o, k, s, t, e), HeadRead
<1>3. PICK h, b, x : /\ h = 4 - k.fmt /\ b = k.upto - k.from
                     /\ x = SubSeq(buffer, Decoder!HeadLen + 1,
                                     Decoder!HeadLen + Decoder!ChunkLen(ch))
  OBVIOUS
<1>4. h \in Nat /\ b \in Nat
  <2>1. h \in Nat
    BY ONLY <1>2, <1>3
  <2>2. k.from \in Nat /\ k.upto \in Nat /\ k.from <= k.upto
    BY ONLY <1>1
  <2>3. k.upto - k.from \in Nat
    BY ONLY <2>2
  <2> QED
    BY ONLY <1>3, <2>1, <2>3
<1>5. x = SubSeq(buffer, h + 1, h + b) /\ h + b = e - o
  BY ONLY <1>1, <1>2, <1>3
<1>6. h + b <= Len(buffer) /\ h \in 0 .. Len(buffer) /\ b \in 0 .. Len(buffer) - h
  <2>1. o \in Nat /\ e \in Nat
    BY DEF Ahead
  <2> QED
    BY ONLY <1>1, <1>4, <1>5, <2>1
<1>7. PieceOf(Bytes, buffer, h, b)
  BY ONLY <1>6, buffer \in Seq(Bytes), PieceIs
<1>8. /\ x \in Seq(Bytes) /\ Len(x) = b
      /\ \A j \in 1 .. b : x[j] = buffer[h + j]
  BY ONLY <1>5, <1>7 DEF PieceOf
<1>9. ASSUME NEW j \in 1 .. b
      PROVE  x[j] = Decoder!Byte("body", <<k.i, k.from + j>>)
  <2>1. h + j \in 1 .. Len(buffer)
    BY ONLY <1>1, <1>4, <1>6, j \in 1 .. b
  <2>2. buffer[h + j] = hist[o + (h + j)]
    BY <2>1 DEF Ahead
  <2>3. o + (h + j) = o + h + j
    <3>1. o \in Nat
      BY DEF Ahead
    <3> QED
      BY ONLY <1>4, <3>1, j \in 1 .. b
  <2>4. hist[o + h + j] = Decoder!Byte("body", <<k.i, k.from + j>>)
    <3>1. \A l \in 1 .. k.upto - k.from :
            hist[o + (4 - k.fmt) + l] = Decoder!Byte("body", <<k.i, k.from + l>>)
      BY DEF Ahead, OnWire
    <3> QED
      BY ONLY <1>3, <3>1, j \in 1 .. b
  <2> QED
    BY ONLY <1>8, <2>2, <2>3, <2>4
<1>10. Decoder!Payload(k.i, 0, k.from) \o x = Decoder!Payload(k.i, 0, k.upto)
  <2>1. NextBytes(k.i, k.from, k.upto, x)
    BY ONLY <1>3, <1>8, <1>9 DEF NextBytes
  <2>2. k.i \in Nat /\ k.from \in Nat /\ k.upto \in Nat /\ k.from <= k.upto
    BY ONLY <1>1
  <2>3. Grown(k.i, k.from, k.upto, x)
    BY ONLY <2>1, <2>2, PayloadGrows
  <2> QED
    BY ONLY <2>3 DEF Grown
<1>11. ch.iobuf = Decoder!Payload(k.i, 0, k.from)
  BY DEF Opened
<1>12. PICK y, ch2 : y = ch.iobuf \o x /\ ch2 = [ch EXCEPT !.iobuf = y]
  OBVIOUS
<1>13. y = Decoder!Payload(k.i, 0, k.upto)
  BY ONLY <1>10, <1>11, <1>12
<1>14. y \in Seq(Bytes)
  BY ONLY <1>1, <1>13, PayloadFromStart
<1>15. /\ ch2 \in Kept
       /\ ch2.time = ch.time /\ ch2.absoluteTime = ch.absoluteTime /\ ch2.bodySize = ch.bodySize
       /\ ch2.type = ch.type /\ ch2.iobuf = y
  BY ONLY <1>12, <1>14, ch \in Kept DEF Kept
<1>16. ch2 = [ch EXCEPT !.iobuf =
                @ \o SubSeq(buffer, Decoder!HeadLen + 1, Decoder!HeadLen + Decoder!ChunkLen(ch))]
  BY ONLY <1>3, <1>12
<1> QED
  BY ONLY <1>13, <1>15, <1>16 DEF Filled

LEMMA DecodeChunkStep ==
  ASSUME DecoderInv, Decoder!DecodeChunk
  PROVE  DecoderInv'
<1>h. PICK c : c = Head(buffer).value[2]
  OBVIOUS
<1>w. PICK ch : ch = Decoder!WithBuffer(Decoder!WithHeader(channels[c]))
  OBVIOUS
<1>l. PICK l : l = Decoder!ChunkLen(ch)
  OBVIOUS
<1>f. PICK ch2 :
        ch2 = [ch EXCEPT !.iobuf = @ \o SubSeq(buffer, Decoder!HeadLen + 1, Decoder!HeadLen + l)]
  BY Zenon
<1>1. /\ Decoder!AtChunk /\ ~Decoder!HeaderShort /\ ~Decoder!PayloadShort(ch)
      /\ UNCHANGED Decoder!peerVars
      /\ net' = net /\ state' = state /\ decodePc' = decodePc /\ delivered' = delivered
  BY <1>h, <1>w, <1>l, <1>f, Zenon DEF Decoder!DecodeChunk
<1>b. Decoder!Consumed(Decoder!HeadLen + l)
  BY <1>h, <1>w, <1>l, <1>f, Zenon DEF Decoder!DecodeChunk
<1>p. IF Len(ch2.iobuf) = ch2.bodySize THEN Decoder!Complete(c, ch2)
      ELSE /\ channels' = [channels EXCEPT ![c] = ch2]
           /\ chunkSize' = chunkSize /\ packets' = packets
  BY <1>h, <1>w, <1>l, <1>f, Zenon DEF Decoder!DecodeChunk
<1>2. PICK hist, used, n, chunk, st, off, d :
        /\ BytesOK(hist, used, buffer, net)
        /\ LogInv(hist, n, chunk, st, off)
        /\ ReadInv(used, n, chunk, st, off, d)
  BY DEF DecoderInv
<1>3. DecoderType
  BY DEF DecoderInv
<1>4. /\ messages' = messages /\ finished' = finished /\ c2Sent' = c2Sent /\ Now' = Now
  BY <1>1 DEF Decoder!peerVars, Now
<1>5. LogInv(hist, n, chunk, st, off)'
  BY ONLY <1>1, <1>2, LogUnchanged
<1>6. ReadParts(used, n, chunk, st, off, d)
  BY ONLY <1>2 DEF ReadInv, ReadParts
<1>k. PICK k, s, t, o, e :
        /\ k = chunk[d] /\ s = st[d] /\ t = st[d + 1]
        /\ o = off[d] /\ e = off[d + 1]
  OBVIOUS
<1>7. /\ n \in Nat /\ d \in 1 .. n /\ used = off[d]
      /\ Ahead(hist, o, k, s, t, e)
  BY ONLY <1>1, <1>2, <1>k, ChunkAhead
<1>8. c = k.c /\ c \in Channels
  BY ONLY <1>h, <1>7, HeadRead
<1>9. /\ MessagesOK(messages) /\ channels \in [Channels -> Kept] /\ buffer \in Seq(Bytes)
      /\ packets \in Seq(Kept) /\ delivered \in Seq(Kept)
  BY ONLY <1>3 DEF DecoderType
<1>10. channels[c] \in Kept
  BY ONLY <1>8, <1>9
<1>11. Opened(messages, ch, k) /\ ch \in Kept
  <2>1. k = chunk[d] /\ s = st[d] /\ k.c \in Channels /\ c = k.c
    BY ONLY <1>8, <1>k
  <2>2. AtHand(channels[c], s, k)
    BY ONLY <1>6, <2>1, ChannelAtHand
  <2>3. ~Decoder!HeaderShort /\ Ahead(hist, o, k, s, t, e) /\ MessagesOK(messages)
    BY ONLY <1>1, <1>7, <1>9
  <2>4. LookedAt(channels[c], k)
    BY ONLY <1>10, <2>1, <2>2, <2>3, HeaderRead DEF AtHand
  <2> QED
    BY ONLY <1>w, <2>4 DEF LookedAt
<1>12. chunkSize = s.chunk
  BY ONLY <1>6, <1>k DEF ReadParts
<1>13. Filled(ch, ch2, k)
  <2>1. Ahead(hist, o, k, s, t, e) /\ MessagesOK(messages) /\ buffer \in Seq(Bytes)
    BY ONLY <1>7, <1>9
  <2>1a. ch \in Kept /\ Opened(messages, ch, k) /\ chunkSize = s.chunk /\ ~Decoder!PayloadShort(ch)
    BY ONLY <1>1, <1>11, <1>12
  <2>2. Filled(ch, [ch EXCEPT !.iobuf =
                     @ \o SubSeq(buffer, Decoder!HeadLen + 1,
                                 Decoder!HeadLen + Decoder!ChunkLen(ch))], k)
    BY ONLY <2>1, <2>1a, ChunkTaken
  <2> QED
    BY ONLY <1>l, <1>f, <2>2
<1>14. /\ Decoder!HeadLen + l = e - o /\ ~ (Len(buffer) < e - o)
       /\ k.i \in 1 .. Len(messages) /\ k.i \in Nat /\ k.upto \in Nat
       /\ k.from \in Nat /\ k.from <= k.upto /\ l = k.upto - k.from
  <2>1. Ahead(hist, o, k, s, t, e) /\ MessagesOK(messages)
    BY ONLY <1>7, <1>9
  <2>1a. Opened(messages, ch, k) /\ chunkSize = s.chunk
    BY ONLY <1>11, <1>12
  <2>2. LenFacts(ch, k, o, e)
    BY ONLY <2>1, <2>1a, ChunkLenIs
  <2>3. ~Decoder!PayloadShort(ch) /\ l = Decoder!ChunkLen(ch)
    BY ONLY <1>1, <1>l
  <2> QED
    BY ONLY <2>2, <2>3 DEF LenFacts
<1> DEFINE m == messages[k.i]
<1>15. /\ ch2 \in Kept
       /\ ch2.time = m.field /\ ch2.absoluteTime = m.time /\ ch2.bodySize = m.size
       /\ ch2.type = m.type /\ ch2.iobuf = Decoder!Payload(k.i, 0, k.upto)
  BY ONLY <1>11, <1>13 DEF Filled, Opened
<1>16. Len(ch2.iobuf) = k.upto
  <2>1. k.i \in Nat /\ k.upto \in Nat
    BY ONLY <1>14
  <2>2. Len(Decoder!Payload(k.i, 0, k.upto)) = k.upto
    BY ONLY <2>1, PayloadFromStart
  <2> QED
    BY ONLY <1>15, <2>2
<1>17. m \in PeerMessage /\ (m.type = "chunk size" => m.size # 0)
  BY <1>9, <1>14, ElementOfSeq DEF MessagesOK
<1>18. /\ t = Behind(messages, s, k)
       /\ t.done # s.done => finished[t.done] = k.i
       /\ s \in PeerState /\ t \in PeerState
  BY ONLY <1>7 DEF Ahead, ChunkOK, StateOK
<1>19. /\ t.latest = [s.latest EXCEPT ![c] = k.i]
       /\ t.partial = [s.partial EXCEPT ![c] = IF IsLast(messages, k) THEN Decoder!Whole
                                             ELSE [message |-> k.i, sent |-> k.upto]]
       /\ t.chunk = IF IsLast(messages, k) /\ m.type = "chunk size" THEN m.value ELSE s.chunk
       /\ t.done = IF IsLast(messages, k) /\ m.type = "media" THEN s.done + 1 ELSE s.done
  BY ONLY <1>8, <1>18 DEF Behind
<1>20. /\ s.latest \in [Channels -> Nat]
       /\ s.partial \in [Channels -> [message : Nat, sent : Nat]]
       /\ s.done \in Nat
  BY ONLY <1>18 DEF PeerState
<1>21. HandedOut(messages, finished, delivered \o packets, s.done)
  BY ONLY <1>6, <1>k DEF ReadParts
\* What the chunk does to the channel, to the chunk size and to the packets.
<1>22. \E ch3 :
         /\ ch3 \in Kept /\ channels' = [channels EXCEPT ![c] = ch3]
         /\ Matches(messages, ch3, t, c)
         /\ chunkSize' = t.chunk
         /\ packets' \in Seq(Kept)
         /\ HandedOut(messages, finished, delivered \o packets', t.done)
  <2>1. CASE k.upto = m.size
    <3>1. IsLast(messages, k)
      BY <2>1 DEF IsLast
    <3>2. Decoder!Complete(c, ch2)
      BY ONLY <1>p, <1>15, <1>16, <2>1
    <3>3. PICK ch3 : ch3 = [ch2 EXCEPT !.iobuf = Decoder!NoBuffer]
      OBVIOUS
    <3>4. /\ channels' = [channels EXCEPT ![c] = ch3]
          /\ chunkSize' = IF ch2.type = "chunk size" THEN Decoder!Announced(ch2.iobuf)
                           ELSE chunkSize
          /\ packets' = IF ch2.type = "media" THEN Append(packets, ch2) ELSE packets
      BY ONLY <3>2, <3>3 DEF Decoder!Complete
    <3>5. Decoder!NoBuffer \in Seq(Bytes)
      BY NoBufferIs
    <3>6. /\ ch3 \in Kept
          /\ ch3.time = ch2.time /\ ch3.absoluteTime = ch2.absoluteTime
          /\ ch3.bodySize = ch2.bodySize /\ ch3.type = ch2.type /\ ch3.iobuf = Decoder!NoBuffer
      BY ONLY <1>15, <3>3, <3>5 DEF Kept
    <3>7. t.latest[c] = k.i /\ t.partial[c] = Decoder!Whole /\ k.i # 0
      <4>1. k.i # 0
        BY ONLY <1>14
      <4>2. t.latest[c] = k.i
        BY ONLY <1>8, <1>19, <1>20
      <4>3. t.partial = [s.partial EXCEPT ![c] = Decoder!Whole]
        BY ONLY <1>19, <3>1
      <4>4. t.partial[c] = Decoder!Whole
        BY ONLY <1>8, <1>20, <4>3
      <4> QED
        BY ONLY <4>1, <4>2, <4>4
    <3>8. Matches(messages, ch3, t, c)
      BY ONLY <1>15, <3>6, <3>7 DEF Matches
    <3>9. chunkSize' = t.chunk
      <4>1. CASE m.type = "chunk size"
        <5>1. k.upto # 0
          BY ONLY <1>17, <2>1, <4>1
        <5>2. 1 \in 1 .. k.upto
          BY ONLY <1>14, <5>1
        <5>3. Decoder!Payload(k.i, 0, k.upto)[1] = Decoder!Byte("body", <<k.i, 1>>)
          BY ONLY <1>14, <5>2, PayloadFromStart
        <5>4. Head(ch2.iobuf) = Decoder!Byte("body", <<k.i, 1>>)
          <6>1. Head(ch2.iobuf) = ch2.iobuf[1]
            BY ONLY DEF Head
          <6> QED
            BY ONLY <1>15, <5>3, <6>1
        <5>5. Head(ch2.iobuf).value[1] = k.i
          <6>1. Decoder!Byte("body", <<k.i, 1>>).value = <<k.i, 1>>
            BY ONLY DEF Decoder!Byte
          <6> QED
            BY ONLY <5>4, <6>1
        <5>6. Decoder!Announced(ch2.iobuf) = m.value
          BY ONLY <5>5 DEF Decoder!Announced
        <5> QED
          BY ONLY <1>15, <1>19, <3>1, <3>4, <4>1, <5>6
      <4>2. CASE m.type # "chunk size"
        BY ONLY <1>12, <1>15, <1>19, <3>4, <4>2
      <4> QED
        BY ONLY <4>1, <4>2
    <3>10. packets' \in Seq(Kept) /\ HandedOut(messages, finished, delivered \o packets', t.done)
      <4>1. CASE m.type = "media"
        <5>1. packets' = Append(packets, ch2) /\ t.done = s.done + 1
          BY ONLY <1>15, <1>19, <3>1, <3>4, <4>1
        <5>2. delivered \o packets' = Append(delivered \o packets, ch2)
          BY ONLY <1>9, <1>15, <5>1, ConcatAppendsToSecond
        <5>3. finished[s.done + 1] = k.i
          BY ONLY <1>18, <1>20, <5>1
        <5>4. Decoder!Shown(ch2) = SentOf(messages, k.i)
          BY ONLY <1>15, <2>1 DEF Decoder!Shown, SentOf
        <5>5. delivered \o packets \in Seq(Kept)
          BY ONLY <1>9, ConcatProperties
        <5>6. HandedMoreOne(messages, finished, delivered \o packets, s.done, ch2)
          BY ONLY <1>15, <1>20, <1>21, <5>3, <5>4, <5>5, HandedOne
        <5>7. Append(packets, ch2) \in Seq(Kept)
          BY ONLY <1>9, <1>15, AppendProperties
        <5> QED
          BY ONLY <5>1, <5>2, <5>6, <5>7 DEF HandedMoreOne
      <4>2. CASE m.type # "media"
        BY ONLY <1>9, <1>15, <1>19, <1>21, <3>4, <4>2
      <4> QED
        BY ONLY <4>1, <4>2
    <3> QED
      BY ONLY <3>4, <3>6, <3>8, <3>9, <3>10
  <2>2. CASE k.upto # m.size
    <3>1. ~IsLast(messages, k)
      BY <2>2 DEF IsLast
    <3>2. channels' = [channels EXCEPT ![c] = ch2] /\ chunkSize' = chunkSize /\ packets' = packets
      BY ONLY <1>p, <1>15, <1>16, <2>2
    <3>3. t.latest[c] = k.i /\ t.partial[c] = [message |-> k.i, sent |-> k.upto] /\ k.i # 0
      BY ONLY <1>8, <1>14, <1>19, <1>20, <3>1
    <3>4. t.partial[c] # Decoder!Whole /\ t.partial[c].sent = k.upto
      <4>1. t.partial[c].message = k.i /\ t.partial[c].sent = k.upto
        BY ONLY <3>3
      <4>2. Decoder!Whole.message = 0
        BY ONLY DEF Decoder!Whole
      <4> QED
        BY ONLY <3>3, <4>1, <4>2
    <3>5. Matches(messages, ch2, t, c)
      BY ONLY <1>15, <3>3, <3>4 DEF Matches
    <3>6. t.chunk = s.chunk /\ t.done = s.done
      BY ONLY <1>19, <3>1
    <3> QED
      BY ONLY <1>9, <1>12, <1>15, <1>21, <3>2, <3>5, <3>6
  <2> QED
    BY ONLY <2>1, <2>2
<1>23. PICK ch3 :
         /\ ch3 \in Kept /\ channels' = [channels EXCEPT ![c] = ch3]
         /\ Matches(messages, ch3, t, c)
         /\ chunkSize' = t.chunk
         /\ packets' \in Seq(Kept)
         /\ HandedOut(messages, finished, delivered \o packets', t.done)
  BY ONLY <1>22
<1>24. BytesOK(hist, e, buffer', net)
  <2>1. o \in Nat /\ e \in Nat /\ Len(buffer) \in Nat
    BY ONLY <1>7 DEF Ahead
  <2>2. e - o \in 0 .. Len(buffer)
    <3>1. o <= e
      <4>1. Decoder!HeadLen = 4 - k.fmt /\ k.fmt \in 0 .. 3
        BY ONLY <1>7, HeadRead
      <4>2. l \in Nat
        <5>1. l = k.upto - k.from /\ k.from <= k.upto /\ k.from \in Nat /\ k.upto \in Nat
          BY ONLY <1>14
        <5> QED
          BY ONLY <5>1
      <4>3. Decoder!HeadLen \in Nat
        BY ONLY <4>1
      <4> QED
        BY ONLY <1>14, <2>1, <4>2, <4>3
    <3> QED
      BY ONLY <1>14, <2>1, <3>1
  <2>3. BytesOK(hist, o + (e - o), buffer', net)
    <3>1. used = o
      BY ONLY <1>7, <1>k
    <3>2. buffer' = SubSeq(buffer, (e - o) + 1, Len(buffer))
      BY ONLY <1>b, <1>14 DEF Decoder!Consumed
    <3>3. BytesOK(hist, o, buffer, net)
      BY ONLY <1>2, <3>1
    <3>4. BytesUsed(hist, o, buffer, net, e - o)
      BY ONLY <2>2, <3>3, BytesConsumed
    <3> QED
      BY ONLY <3>2, <3>4 DEF BytesUsed
  <2>4. o + (e - o) = e
    BY ONLY <2>1
  <2> QED
    BY ONLY <2>3, <2>4
<1>25. Follows(messages, channels', t, n, chunk, d + 1)
  <2> SUFFICES ASSUME NEW b \in Channels
               PROVE  Matches(messages, channels'[b], t, b)
    BY DEF Follows
  <2>1. CASE b = c
    BY ONLY <1>8, <1>9, <1>23, <2>1
  <2>2. CASE b # c
    <3>1. channels'[b] = channels[b]
      BY ONLY <1>9, <1>23, <2>2, b \in Channels
    <3>2. Matches(messages, channels[b], s, b)
      BY ONLY <1>6, <1>8, <1>k, <2>2, b \in Channels DEF ReadParts, Follows
    <3>3. t.latest[b] = s.latest[b] /\ t.partial[b] = s.partial[b]
      BY ONLY <1>19, <1>20, <2>2, b \in Channels
    <3> QED
      BY ONLY <3>1, <3>2, <3>3 DEF Matches
  <2> QED
    BY ONLY <2>1, <2>2
<1>26. state = "Done" /\ decodePc = "Decode" /\ c2Sent
  BY ONLY <1>1, <1>6 DEF Decoder!AtChunk, ReadParts
<1>27. DecoderType'
  <2>1. channels' \in [Channels -> Kept]
    BY ONLY <1>8, <1>9, <1>23
  <2>2. chunkSize' \in Nat \ {0}
    BY ONLY <1>18, <1>23 DEF PeerState
  <2>3. buffer' \in Seq(Bytes)
    BY ONLY <1>24 DEF BytesOK
  <2>4. decodePc' # "Idle"
    BY ONLY <1>1, <1>26
  <2>5. delivered' \in Seq(Kept) /\ packets' \in Seq(Kept)
    BY ONLY <1>1, <1>9, <1>23
  <2> QED
    BY ONLY <1>1, <1>3, <1>4, <2>1, <2>2, <2>3, <2>4, <2>5 DEF DecoderType
<1>28. ReadInv(e, n, chunk, st, off, d + 1)'
  <2>1. /\ d + 1 \in 1 .. n + 1
        /\ state' = "Done" /\ decodePc' # "Idle" /\ c2Sent' /\ e = off[d + 1]
        /\ st[d + 1] = t
    BY ONLY <1>1, <1>4, <1>7, <1>26, <1>k
  <2>2. /\ chunkSize' = st[d + 1].chunk
        /\ Follows(messages', channels', st[d + 1], n, chunk, d + 1)
        /\ HandedOut(messages', finished', delivered' \o packets', st[d + 1].done)
    BY ONLY <1>1, <1>4, <1>23, <1>25, <2>1
  <2> QED
    BY ONLY <2>1, <2>2 DEF ReadInv
<1>29. BytesOK(hist, e, buffer, net)'
  BY ONLY <1>1, <1>24
<1> QED
  BY ONLY <1>5, <1>27, <1>28, <1>29 DEF DecoderInv
-----------------------------------------------------------------------------
(* The invariant holds, and what follows from it. *)

LEMMA InitHolds ==
  ASSUME Decoder!Init
  PROVE  DecoderInv
<1>1. PICK known \in BOOLEAN : net = <<Decoder!Byte("version", known)>> \o Decoder!Shakes(Shake)
  BY DEF Decoder!Init
<1>2. /\ messages = <<>> /\ finished = <<>> /\ partial = [c \in Channels |-> Decoder!Whole]
      /\ latest = [c \in Channels |-> 0] /\ peerChunk = DefaultChunk /\ c2Sent = FALSE
      /\ state = "C0C1" /\ buffer = <<>> /\ chunkSize = DefaultChunk
      /\ channels = [c \in Channels |-> Decoder!NewChannel] /\ packets = <<>> /\ decodePc = "Idle"
      /\ delivered = <<>>
  BY DEF Decoder!Init
<1>3. Shake \in Nat /\ DefaultChunk \in Nat \ {0}
  BY DecoderAssumption DEF Decoder!DecoderConstants
<1> DEFINE s == [partial |-> partial, latest |-> latest, chunk |-> peerChunk, done |-> 0]
<1>4. Now = s
  BY <1>2 DEF Now
<1>5. s.partial = partial /\ s.latest = latest /\ s.chunk = DefaultChunk /\ s.done = 0
  BY <1>2
<1>6. Decoder!Whole \in [message : Nat, sent : Nat]
  BY DEF Decoder!Whole
<1>7. s \in PeerState
  <2>1. partial \in [Channels -> [message : Nat, sent : Nat]]
    BY ONLY <1>2, <1>6
  <2>2. latest \in [Channels -> Nat]
    BY ONLY <1>2
  <2>3. peerChunk \in Nat \ {0}
    BY ONLY <1>2, <1>3
  <2> QED
    BY ONLY <2>1, <2>2, <2>3 DEF PeerState
<1> HIDE DEF s
<1>8. StateOK(messages, finished, s)
  <2>1. s.done <= Len(finished)
    BY ONLY <1>2, <1>5
  <2>2. Len(messages) = 0
    BY ONLY <1>2
  <2>3. \A c \in Channels : s.latest[c] = 0 /\ s.partial[c] = Decoder!Whole
    BY ONLY <1>2, <1>5
  <2> QED
    BY ONLY <1>7, <2>1, <2>2, <2>3 DEF StateOK
<1>9. net \in Seq(Bytes) /\ Len(net) = C1End
  <2>1. Decoder!Byte("version", known) \in Bytes
    <3>1. "version" \in ByteParts /\ known \in ByteValues
      BY DEF ByteParts, ByteValues
    <3> QED
      BY ONLY <3>1, ByteIsByte
  <2>2. PICK b : b = <<Decoder!Byte("version", known)>>
    OBVIOUS
  <2>3. b \in Seq(Bytes) /\ Len(b) = 1
    BY ONLY <2>1, <2>2
  <2>4. Decoder!Shakes(Shake) \in Seq(Bytes) /\ Len(Decoder!Shakes(Shake)) = Shake
    BY ONLY <1>3, ShakesAre
  <2>5. net = b \o Decoder!Shakes(Shake)
    BY ONLY <1>1, <2>2
  <2>6. net \in Seq(Bytes) /\ Len(net) = Len(b) + Len(Decoder!Shakes(Shake))
    BY ONLY <2>3, <2>4, <2>5, ConcatProperties
  <2> QED
    BY ONLY <2>3, <2>4, <2>6 DEF C1End
<1>10. BytesOK(net, 0, buffer, net)
  <2>1. Len(buffer) = 0 /\ buffer \in Seq(Bytes)
    BY ONLY <1>2
  <2>2. Len(net) \in Nat
    BY ONLY <1>9, LenProperties
  <2>3. 0 + Len(buffer) + Len(net) = Len(net)
    BY ONLY <2>1, <2>2
  <2>4. \A j \in 1 .. Len(net) : net[j] = net[0 + Len(buffer) + j]
    <3> SUFFICES ASSUME NEW j \in 1 .. Len(net)
                 PROVE  net[j] = net[0 + Len(buffer) + j]
      OBVIOUS
    <3>1. 0 + Len(buffer) + j = j
      BY ONLY <2>1, <2>2, j \in 1 .. Len(net)
    <3> QED
      BY ONLY <3>1
  <2>5. 1 .. Len(buffer) = {}
    BY ONLY <2>1
  <2> QED
    BY ONLY <1>9, <2>1, <2>3, <2>4, <2>5 DEF BytesOK
<1>11. PICK st : st = <<s>>
  OBVIOUS
<1>12. LogInv(net, 0, <<>>, st, <<>>)
  <2>1. st[1] = Now
    BY ONLY <1>4, <1>11
  <2>2. Opening(net, 0, st)
    BY ONLY <1>2, <1>4, <1>8, <1>9, <2>1 DEF Opening
  <2> QED
    BY ONLY <1>2, <2>2 DEF LogInv
<1>13. ReadInv(0, 0, <<>>, st, <<>>, 1)
  <2>1. st[1] = s
    BY ONLY <1>11
  <2>2. Follows(messages, channels, s, 0, <<>>, 1)
    <3> SUFFICES ASSUME NEW c \in Channels
                 PROVE  Matches(messages, channels[c], s, c)
      BY DEF Follows
    <3>1. s.latest[c] = 0 /\ channels[c] = Decoder!NewChannel
      BY ONLY <1>2, <1>5, c \in Channels
    <3> QED
      BY ONLY <3>1 DEF Matches
  <2>3. HandedOut(messages, finished, delivered \o packets, 0)
    <3>1. Len(delivered \o packets) = 0
      BY ONLY <1>2
    <3>2. 1 .. 0 = {}
      OBVIOUS
    <3> QED
      BY ONLY <3>1, <3>2 DEF HandedOut
  <2>4. 1 \in 1 .. 0 + 1
    OBVIOUS
  <2> QED
    BY ONLY <1>2, <1>5, <2>1, <2>2, <2>3, <2>4 DEF ReadInv
<1>14. DecoderType
  <2>1. MessagesOK(messages)
    <3>1. messages \in Seq(PeerMessage) /\ 1 .. Len(messages) = {}
      BY ONLY <1>2
    <3> QED
      BY ONLY <3>1 DEF MessagesOK
  <2>2. Decoder!NewChannel \in Kept
    <3>1. Decoder!NoBuffer \in Seq(Bytes)
      BY NoBufferIs
    <3>2. "empty" \in MessageTypes \union {"empty"}
      OBVIOUS
    <3> QED
      BY ONLY <3>1, <3>2 DEF Decoder!NewChannel, Kept
  <2>3. channels \in [Channels -> Kept]
    BY ONLY <1>2, <2>2
  <2>4. finished \in Seq(Nat) /\ 1 .. Len(finished) = {}
    BY ONLY <1>2
  <2>5. Now \in PeerState
    BY ONLY <1>4, <1>7
  <2>6. buffer \in Seq(Bytes) /\ packets \in Seq(Kept) /\ delivered \in Seq(Kept)
    BY ONLY <1>2
  <2> QED
    BY ONLY <1>2, <1>3, <1>9, <2>1, <2>3, <2>4, <2>5, <2>6 DEF DecoderType
<1> QED
  BY ONLY <1>10, <1>12, <1>13, <1>14 DEF DecoderInv

LEMMA NothingChanges ==
  ASSUME DecoderInv, UNCHANGED Decoder!vars
  PROVE  DecoderInv'
<1>1. /\ messages' = messages /\ finished' = finished /\ partial' = partial /\ latest' = latest
      /\ peerChunk' = peerChunk /\ c2Sent' = c2Sent /\ net' = net /\ state' = state
      /\ buffer' = buffer /\ chunkSize' = chunkSize /\ channels' = channels
      /\ packets' = packets /\ decodePc' = decodePc /\ delivered' = delivered
  BY DEF Decoder!vars, Decoder!peerVars, Decoder!decoderVars
<1>2. PICK hist, used, n, chunk, st, off, d :
        /\ BytesOK(hist, used, buffer, net)
        /\ LogInv(hist, n, chunk, st, off)
        /\ ReadInv(used, n, chunk, st, off, d)
  BY DEF DecoderInv
<1>3. DecoderType
  BY DEF DecoderInv
<1>4. Now' = Now
  BY ONLY <1>1 DEF Now
<1>5. LogInv(hist, n, chunk, st, off)'
  BY ONLY <1>1, <1>2, <1>4 DEF LogInv, Opening
<1>6. ReadInv(used, n, chunk, st, off, d)'
  BY ONLY <1>1, <1>2 DEF ReadInv
<1>7. DecoderType'
  BY ONLY <1>1, <1>3, <1>4 DEF DecoderType
<1>8. BytesOK(hist, used, buffer, net)'
  BY ONLY <1>1, <1>2
<1> QED
  BY ONLY <1>5, <1>6, <1>7, <1>8 DEF DecoderInv

\* In every reachable state the decoder's channels, chunk size and packets are what the
\* peer meant by the chunks read so far, and what decode has not read is still in the
\* buffer or on its way.
THEOREM DecoderHolds == Decoder!Spec => []DecoderInv
<1>1. Decoder!Init => DecoderInv
  BY InitHolds
<1>2. DecoderInv /\ [Decoder!Next]_(Decoder!vars) => DecoderInv'
  <2> SUFFICES ASSUME DecoderInv, [Decoder!Next]_(Decoder!vars)
               PROVE  DecoderInv'
    OBVIOUS
  <2>1. CASE Decoder!SendC2
    BY ONLY DecoderInv, <2>1, SendC2Step
  <2>2. ASSUME NEW c \in Channels, Decoder!SendMessage(c)
        PROVE  DecoderInv'
    BY ONLY DecoderInv, <2>2, SendMessageStep
  <2>3. ASSUME NEW c \in Channels, Decoder!ContinueMessage(c)
        PROVE  DecoderInv'
    BY ONLY DecoderInv, <2>3, ContinueMessageStep
  <2>4. ASSUME NEW m \in 1 .. Len(net), Decoder!Receive(m)
        PROVE  DecoderInv'
    BY ONLY DecoderInv, <2>4, ReceiveStep
  <2>5. CASE Decoder!DecodeC0C1
    BY ONLY DecoderInv, <2>5, DecodeC0C1Step
  <2>6. CASE Decoder!DecodeC2
    BY ONLY DecoderInv, <2>6, DecodeC2Step
  <2>7. CASE Decoder!DecodeChunk
    BY ONLY DecoderInv, <2>7, DecodeChunkStep
  <2>8. CASE Decoder!HeaderWaits
    BY ONLY DecoderInv, <2>8, HeaderWaitsStep
  <2>9. CASE Decoder!PayloadWaits
    BY ONLY DecoderInv, <2>9, PayloadWaitsStep
  <2>10. CASE Decoder!NothingToDecode
    BY ONLY DecoderInv, <2>10, NothingToDecodeStep
  <2>11. CASE UNCHANGED Decoder!vars
    BY ONLY DecoderInv, <2>11, NothingChanges
  <2> QED
    BY ONLY [Decoder!Next]_(Decoder!vars), <2>1, <2>2, <2>3, <2>4, <2>5, <2>6,
            <2>7, <2>8, <2>9, <2>10, <2>11
       DEF Decoder!Next
<1> QED
  BY <1>1, <1>2, PTL DEF Decoder!Spec

\* However the chunks of several channels are mixed and cut, and whichever header fields
\* are left out, decode hands out the completed media messages in order, each once, with
\* its own bytes and its time.
THEOREM DecoderDeliversExactly == Decoder!Spec => []DeliveredExact
<1>1. DecoderInv => DeliveredExact
  <2> SUFFICES ASSUME DecoderInv
               PROVE  DeliveredExact
    OBVIOUS
  <2>1. PICK hist, used, n, chunk, st, off, d :
          /\ BytesOK(hist, used, buffer, net)
          /\ LogInv(hist, n, chunk, st, off)
          /\ ReadInv(used, n, chunk, st, off, d)
    BY DEF DecoderInv
  <2>2. /\ HandedOut(messages, finished, delivered \o packets, st[d].done)
        /\ d \in 1 .. n + 1
    BY ONLY <2>1 DEF ReadInv
  <2>3. StateOK(messages, finished, st[d])
    <3>1. CASE c2Sent
      BY ONLY <2>1, <2>2, <3>1 DEF LogInv, LogOK
    <3>2. CASE ~c2Sent
      <4>1. n = 0 /\ st[1] = Now /\ StateOK(messages, finished, Now)
        BY ONLY <2>1, <3>2 DEF LogInv, Opening
      <4>2. d = 1
        BY ONLY <2>2, <4>1
      <4> QED
        BY ONLY <4>1, <4>2
    <3> QED
      BY ONLY <3>1, <3>2
  <2>4. st[d].done \in Nat /\ st[d].done <= Len(finished)
    BY ONLY <2>3 DEF StateOK, PeerState
  <2>5. \A j : Decoder!Sent(j) = SentOf(messages, j)
    BY ONLY DEF Decoder!Sent, SentOf
  <2> QED
    BY ONLY <2>2, <2>4, <2>5 DEF HandedOut, DeliveredExact, Decoder!DeliveredExact
<1> QED
  BY <1>1, DecoderHolds, PTL

\* When all bytes have arrived and decode has returned, its buffer is empty and every
\* completed media message has been handed out: it never waits for bytes it has.
THEOREM DecoderHoldsNothingBack == Decoder!Spec => []NothingHeldBack
<1>1. DecoderInv => NothingHeldBack
  <2> SUFFICES ASSUME DecoderInv, decodePc = "Idle", net = <<>>, state = "Done"
               PROVE  buffer = <<>> /\ Len(delivered) = Len(finished)
    BY DEF NothingHeldBack, Decoder!NothingHeldBack
  <2>1. PICK hist, used, n, chunk, st, off, d :
          /\ BytesOK(hist, used, buffer, net)
          /\ LogInv(hist, n, chunk, st, off)
          /\ ReadInv(used, n, chunk, st, off, d)
    BY DEF DecoderInv
  <2>2. /\ d \in 1 .. n + 1 /\ c2Sent /\ used = off[d]
        /\ HandedOut(messages, finished, delivered \o packets, st[d].done)
        /\ buffer = <<>> \/ (d <= n /\ Len(buffer) < off[d + 1] - off[d])
    BY ONLY <2>1, decodePc = "Idle", state = "Done" DEF ReadInv
  <2>3. LogOK(messages, finished, Now, hist, n, chunk, st, off)
    BY ONLY <2>1, <2>2 DEF LogInv
  <2>4. /\ packets = <<>> /\ buffer \in Seq(Bytes) /\ delivered \in Seq(Kept)
    BY ONLY DecoderInv, decodePc = "Idle" DEF DecoderInv, DecoderType
  <2>5. used + Len(buffer) = Len(hist) /\ Len(hist) \in Nat /\ Len(buffer) \in Nat
    <3>1. /\ used \in Nat /\ hist \in Seq(Bytes)
          /\ used + Len(buffer) + Len(net) = Len(hist)
      BY ONLY <2>1 DEF BytesOK
    <3>2. Len(net) = 0 /\ Len(buffer) \in Nat /\ Len(hist) \in Nat
      BY ONLY <2>4, <3>1, LenProperties, net = <<>>
    <3> QED
      BY ONLY <3>1, <3>2
  <2>6. n \in Nat /\ off[n + 1] = Len(hist) /\ off \in [1 .. n + 1 -> Nat] /\ st[n + 1] = Now
    BY ONLY <2>3 DEF LogOK
  <2>7. off[d] \in Nat
    BY ONLY <2>2, <2>6
  \* A chunk that has not been read has arrived, and decode would not have returned.
  <2>8. ASSUME d <= n
        PROVE  FALSE
    <3>1. d \in 1 .. n /\ d + 1 \in 1 .. n + 1
      BY ONLY <2>2, <2>6, <2>8
    <3>2. off[d + 1] \in Nat /\ off[d + 1] <= off[n + 1]
      BY ONLY <2>3, <2>6, <3>1 DEF LogOK
    <3>3. off[d] < off[d + 1]
      <4>1. /\ chunk[d].fmt \in 0 .. 3 /\ chunk[d].from \in Nat /\ chunk[d].upto \in Nat
            /\ off[d + 1] = off[d] + (4 - chunk[d].fmt) + (chunk[d].upto - chunk[d].from)
        BY ONLY <2>3, <3>1 DEF LogOK, ChunkOK, PeerChunk, OnWire
      <4>2. chunk[d].from <= chunk[d].upto
        <5>1. /\ StateOK(messages, finished, st[d])
              /\ ChunkOK(messages, finished, st[d], chunk[d], st[d + 1])
          BY ONLY <2>3, <2>6, <3>1 DEF LogOK
        <5>2. MessagesOK(messages)
          BY ONLY DecoderInv DEF DecoderInv, DecoderType
        <5> QED
          BY ONLY <5>1, <5>2, ForwardChunk
      <4>3. PICK a, b : a = 4 - chunk[d].fmt /\ b = chunk[d].upto - chunk[d].from
        OBVIOUS
      <4>4. a \in Nat /\ a # 0
        BY ONLY <4>1, <4>3
      <4>5. b \in Nat
        BY ONLY <4>1, <4>2, <4>3
      <4>6. off[d + 1] = off[d] + a + b
        BY ONLY <4>1, <4>3
      <4> QED
        BY ONLY <2>7, <4>4, <4>5, <4>6
    <3>4. PICK l, o, e, end :
            l = Len(buffer) /\ o = off[d] /\ e = off[d + 1] /\ end = off[n + 1]
      OBVIOUS
    <3>4a. o + l = end /\ l \in Nat
      BY ONLY <2>2, <2>5, <2>6, <3>4
    <3>4b. o \in Nat /\ e \in Nat /\ end \in Nat /\ e <= end /\ o < e
      BY ONLY <2>5, <2>6, <2>7, <3>2, <3>3, <3>4
    <3>4c. ~ (l < e - o) /\ l # 0
      BY ONLY <3>4a, <3>4b
    <3>5. ~ (Len(buffer) < off[d + 1] - off[d])
      BY ONLY <3>4, <3>4c
    <3>6. buffer # <<>>
      <4>1. Len(buffer) # 0
        BY ONLY <3>4, <3>4c
      <4> QED
        BY ONLY <4>1
    <3> QED
      BY ONLY <2>2, <3>5, <3>6
  <2>9. d = n + 1
    BY ONLY <2>2, <2>6, <2>8
  <2>10. buffer = <<>>
    BY ONLY <2>2, <2>8
  <2>11. Len(delivered \o packets) = Len(finished)
    <3>1. Now.done = Len(finished)
      BY ONLY DEF Now
    <3>2. st[d] = Now
      BY ONLY <2>6, <2>9
    <3> QED
      BY ONLY <2>2, <3>1, <3>2 DEF HandedOut
  <2>12. delivered \o packets = delivered
    BY ONLY <2>4
  <2> QED
    BY ONLY <2>10, <2>11, <2>12
<1> QED
  BY <1>1, DecoderHolds, PTL
=============================================================================
