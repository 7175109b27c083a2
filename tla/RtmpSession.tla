----------------------------- MODULE RtmpSession -----------------------------
(***************************************************************************)
(* base::RtmpSession: the commands of several connections, each handled on *)
(* the thread of its connection's loop, around the sources they publish    *)
(* and play; and the writing half of base::RtmpDecoder, which cuts replies *)
(* and video into chunks. A packet is sent to its players by the thread of *)
(* its publisher, so that two threads write to one connection: its own     *)
(* loop at once, others by a task for that loop. A source is known by its  *)
(* name, a packet by its number.                                           *)
(***************************************************************************)
EXTENDS Naturals, Sequences, FiniteSets, SequencesExt

CONSTANTS
  Sessions,      \* connections, each on a loop of its own
  Apps,          \* names of applications
  NoApp,         \* the empty name
  ChunkSize,     \* _localchunkSize
  VideoSizes,    \* lengths of video messages
  VideoChannel,  \* the channel a publisher sends video on
  MaxCommands,   \* bound: messages handled
  MaxPackets     \* bound: those of them that carry video

ASSUME SessionAssumption ==
  /\ NoApp \notin Apps
  /\ ChunkSize \in Nat \ {0}
  /\ VideoSizes \subseteq Nat \ {0}
  /\ VideoChannel \in 3 .. 63
  /\ MaxCommands \in Nat
  /\ MaxPackets \in Nat

Names == Apps \union {NoApp}

VARIABLES
  app,           \* per session: app
  publisherSrc,  \* per session: the name of m_pPublisherSrc, or "null"
  pc,            \* per session: place of its thread in Run
  at,            \* per session: the source StartRead or PushPacket is about
  rest,          \* per session: in PushPacket, players still to be called
  packet,        \* per session: in PushPacket, the packet
  sources,       \* rtmpSrcMap_: the names in it
  videoConfig,   \* per name: its configuration, of length 0 or 1
  gop,           \* per name: GopCache, packets since the last key frame
  players,       \* per name: callbackQueue_
  posted,        \* per session: Send tasks of other threads for its loop
  wire,          \* per session: the chunks its peer has been sent
  sent,          \* per session: the messages they were cut from
  open,          \* sessions whose connection is open
  crashed,       \* what a null source was used for, and its name
  started,       \* names whose publisher was told NetStream.Publish.Start
  count          \* messages handled and packets published so far

sessionVars == <<app, publisherSrc>>
threadVars == <<pc, at, rest, packet>>
sourceVars == <<sources, videoConfig, gop, players>>
wireVars == <<posted, wire, sent>>
vars == <<sessionVars, threadVars, sourceVars, wireVars, open, crashed, started, count>>

Init ==
  /\ app = [s \in Sessions |-> NoApp]
  /\ publisherSrc = [s \in Sessions |-> "null"]
  /\ pc = [s \in Sessions |-> "idle"]
  /\ at = [s \in Sessions |-> NoApp]
  /\ rest = [s \in Sessions |-> <<>>]
  /\ packet = [s \in Sessions |-> <<>>]
  /\ sources = {}
  /\ videoConfig = [n \in Names |-> <<>>]
  /\ gop = [n \in Names |-> <<>>]
  /\ players = [n \in Names |-> <<>>]
  /\ posted = [s \in Sessions |-> <<>>]
  /\ wire = [s \in Sessions |-> <<>>]
  /\ sent = [s \in Sessions |-> <<>>]
  /\ open = Sessions
  /\ crashed = [by |-> "nothing", name |-> NoApp]
  /\ started = {}
  /\ count = [commands |-> 0, packets |-> 0]

-----------------------------------------------------------------------------
(* The writer *)

\* The replies: their channels (CHUNK_AGREEMENT, CHUNK_CLIENT_CONTROL_STREAM1 and 2),
\* and whether their text is longer than a chunk.
Reply(name, channel, long) ==
  [name |-> name, channel |-> channel, n |-> 0,
   size |-> IF long THEN ChunkSize + 1 ELSE 1]

ConnectReplies ==
  <<Reply("WinAckSize", 2, FALSE), Reply("PeerWidth", 2, FALSE),
    Reply("ConnectStatus", 3, TRUE)>>
CreateStreamReplies == <<Reply("CreateStream", 3, FALSE)>>
\* SendResult, for _checkbw, releaseStream, FCSubscribe and FCPublish.
ResultReplies == <<Reply("Result", 3, FALSE)>>
\* Always of success.
PublishReplies == <<Reply("PubOnStatus", 4, TRUE)>>
StatusStart == Reply("StatusStart", 4, TRUE)
\* Sent before the source is looked at.
PlayReplies ==
  <<Reply("StreamBegin0", 2, FALSE), Reply("StatusReset", 4, TRUE), StatusStart,
    Reply("SampleAccess", 2, FALSE)>>

\* SendVideo: the channel is the publisher's.
Video(p) ==
  [name |-> IF p.config THEN "config" ELSE "video", channel |-> VideoChannel,
   n |-> p.n, size |-> p.size]

\* min(_localchunkSize, datasize - pos), for the chunk number i.
ChunkLen(m, i) == IF i * ChunkSize <= m.size THEN ChunkSize
                  ELSE m.size - (i - 1) * ChunkSize

\* SendRtmpProtol: a chunk with a full header, which says how long the message is,
\* and then chunks with one byte of header until the data has been used up.
Chunks(m) ==
  [i \in 1 .. (m.size + ChunkSize - 1) \div ChunkSize |->
     [channel |-> m.channel, first |-> i = 1, len |-> ChunkLen(m, i),
      of |-> IF i = 1 THEN m ELSE [m EXCEPT !.size = 0]]]

\* Mutant of Buffers: a Send for each chunk.
BuffersPerChunk(m) ==
  [i \in 1 .. Len(Chunks(m)) |-> [chunks |-> SubSeq(Chunks(m), i, i),
                                  messages |-> IF i = 1 THEN <<m>> ELSE <<>>]]

\* The buffers given to TcpConnection::Send, and the messages that begin in each: all
\* chunks of a message are one.
Buffers(m) == <<[chunks |-> Chunks(m), messages |-> <<m>>]>>

\* What arrives at the peer is recorded by chunk (wire) and by message (sent).
Put(s, chunks, messages) ==
  IF s \in open
  THEN /\ wire' = [wire EXCEPT ![s] = @ \o chunks]
       /\ sent' = [sent EXCEPT ![s] = @ \o messages]
  ELSE UNCHANGED <<wire, sent>>

\* Send by the connection's own thread, at once, and by another.
SendHere(s, messages) ==
  /\ Put(s, FlattenSeq([i \in DOMAIN messages |-> Chunks(messages[i])]), messages)
  /\ UNCHANGED posted

PostSend(s, m) ==
  /\ posted' = [posted EXCEPT ![s] = @ \o Buffers(m)]
  /\ UNCHANGED <<wire, sent>>

-----------------------------------------------------------------------------
(* Commands: the cases of Run and the handlers of g_mapCmd. A thread that is     *)
(* idle goes on with the next message or with a task of its loop: where a call   *)
(* of OnRecv ends is left open.                                                  *)

Handles(s, packets) ==
  /\ pc[s] = "idle"
  /\ s \in open
  /\ count.commands < MaxCommands
  /\ count.packets + packets <= MaxPackets
  /\ count' = [commands |-> count.commands + 1, packets |-> count.packets + packets]

Connect(s, name) ==
  /\ Handles(s, 0)
  /\ app' = [app EXCEPT ![s] = name]
  /\ SendHere(s, ConnectReplies)
  /\ UNCHANGED <<publisherSrc, threadVars, sourceVars, crashed, started>>

Answer(s, replies) ==
  /\ Handles(s, 0)
  /\ SendHere(s, replies)
  /\ UNCHANGED <<sessionVars, threadVars, sourceVars, crashed, started>>

\* Mutant of Created: the map is not told of the new source.
CreatedUnlisted(name) == sources

\* CreateMediaSource: the source of that name, made if need be.
Created(name) == sources \union {name}

\* The name of the stream is read and not used; a source somebody else publishes is
\* taken over.
Publish(s) ==
  /\ Handles(s, 0)
  /\ sources' = Created(app[s])
  /\ publisherSrc' = [publisherSrc EXCEPT ![s] = app[s]]
  /\ started' = started \union {app[s]}
  /\ SendHere(s, PublishReplies)
  /\ UNCHANGED <<app, threadVars, videoConfig, gop, players, crashed>>

\* Mutant of PlayOrder: the source is read before the replies are sent.
PlayOrderSwapped(replies, media) == media \o replies

PlayOrder(replies, media) == replies \o media

SourceName(s, stream) == IF app[s] # NoApp THEN app[s] ELSE stream

\* What StartRead sends: the configuration and the cache.
Media(name) ==
  LET packets == IF videoConfig[name] = <<>> THEN <<>>
                 ELSE videoConfig[name] \o gop[name]
  IN  [i \in DOMAIN packets |-> Video(packets[i])]

\* RtmpPlay up to the registration. A source that is not there is noticed and read
\* all the same; one without a configuration refuses, which is not noticed.
Play(s, stream) ==
  LET name == SourceName(s, stream)
  IN  /\ Handles(s, 0)
      /\ IF name \in sources
         THEN /\ SendHere(s, PlayOrder(PlayReplies, Media(name)))
              /\ pc' = [pc EXCEPT ![s] = IF videoConfig[name] = <<>> THEN "idle"
                                         ELSE "register"]
              /\ UNCHANGED crashed
         ELSE /\ SendHere(s, PlayReplies)
              /\ crashed' = [by |-> "play", name |-> name]
              /\ UNCHANGED pc
      /\ at' = [at EXCEPT ![s] = name]
      /\ UNCHANGED <<sessionVars, rest, packet, sourceVars, started>>

Register(s) ==
  /\ pc[s] = "register"
  /\ players' = [players EXCEPT ![at[s]] = Append(@, s)]
  /\ pc' = [pc EXCEPT ![s] = "idle"]
  /\ UNCHANGED <<sessionVars, at, rest, packet, sources, videoConfig, gop, wireVars,
                 crashed, started, count>>

\* Video of the codec H.264; other codecs and audio are dropped. A configuration is
\* put in place, a packet goes through PushPacket, which copies the callbacks, caches
\* and calls. GopCache is exact here only for one publisher of a source.
HandleVideo(s, config, key, size) ==
  /\ Handles(s, 1)
  /\ IF publisherSrc[s] = "null"
     THEN /\ crashed' = [by |-> "video", name |-> NoApp]
          /\ UNCHANGED <<videoConfig, at, rest, packet, pc>>
     ELSE LET p == [n |-> count.packets + 1, config |-> config, key |-> key,
                    size |-> size]
          IN  /\ IF config
                 THEN /\ videoConfig' = [videoConfig EXCEPT ![publisherSrc[s]] = <<p>>]
                      /\ UNCHANGED <<at, rest, packet, pc>>
                 ELSE /\ at' = [at EXCEPT ![s] = publisherSrc[s]]
                      /\ rest' = [rest EXCEPT ![s] = players[publisherSrc[s]]]
                      /\ packet' = [packet EXCEPT ![s] = p]
                      /\ pc' = [pc EXCEPT ![s] = "cache"]
                      /\ UNCHANGED videoConfig
              /\ UNCHANGED crashed
  /\ UNCHANGED <<sessionVars, sources, gop, players, wireVars, started>>

Cache(s) ==
  /\ pc[s] = "cache"
  /\ gop' = [gop EXCEPT ![at[s]] = IF packet[s].key THEN <<packet[s]>>
                                   ELSE Append(@, packet[s])]
  /\ pc' = [pc EXCEPT ![s] = IF rest[s] = <<>> THEN "idle" ELSE "deliver"]
  /\ UNCHANGED <<sessionVars, at, rest, packet, sources, videoConfig, players, wireVars,
                 crashed, started, count>>

Deliver(s) ==
  LET p == Head(rest[s])
  IN  /\ pc[s] = "deliver"
      /\ IF p = s THEN SendHere(p, <<Video(packet[s])>>)
         ELSE PostSend(p, Video(packet[s]))
      /\ rest' = [rest EXCEPT ![s] = Tail(@)]
      /\ pc' = [pc EXCEPT ![s] = IF rest'[s] = <<>> THEN "idle" ELSE "deliver"]
      /\ UNCHANGED <<sessionVars, at, packet, sourceVars, crashed, started, count>>

\* The loop of a connection runs a task that another thread posted.
RunPosted(s) ==
  /\ pc[s] = "idle"
  /\ posted[s] # <<>>
  /\ Put(s, Head(posted[s]).chunks, Head(posted[s]).messages)
  /\ posted' = [posted EXCEPT ![s] = Tail(@)]
  /\ UNCHANGED <<sessionVars, threadVars, sourceVars, crashed, started, count>>

\* The peer leaves. The session stays: it and its connection own each other, and no
\* callback is ever taken from a source.
Leave(s) ==
  /\ pc[s] = "idle"
  /\ s \in open
  /\ open' = open \ {s}
  /\ UNCHANGED <<sessionVars, threadVars, sourceVars, wireVars, crashed, started, count>>

Step(s) ==
  /\ \/ \E name \in Names : Connect(s, name)
     \/ \E replies \in {CreateStreamReplies, ResultReplies} : Answer(s, replies)
     \/ Publish(s)
     \/ \E stream \in Names : Play(s, stream)
     \/ Register(s)
     \/ \E config, key \in BOOLEAN, size \in VideoSizes : HandleVideo(s, config, key, size)
     \/ Cache(s)
     \/ Deliver(s)
     \/ RunPosted(s)
  /\ UNCHANGED open

Next == crashed.by = "nothing" /\ \E s \in Sessions : Step(s) \/ Leave(s)

Spec == Init /\ [][Next]_vars

-----------------------------------------------------------------------------
(* Properties *)

\* A reader of chunks that knows the protocol: per channel, the message it is putting
\* together and how much of it is missing. A first chunk inside a message, or a later
\* one outside, puts it out of step.
Quiet == [missing |-> 0, of |-> <<>>]

Read(state, chunk) ==
  LET c == chunk.channel
      missing == IF chunk.first THEN chunk.of.size ELSE state.open[c].missing
      of == IF chunk.first THEN chunk.of ELSE state.open[c].of
      inStep == /\ chunk.first <=> state.open[c].missing = 0
                /\ chunk.len = IF missing < ChunkSize THEN missing ELSE ChunkSize
  IN  IF ~inStep \/ state.lost THEN [state EXCEPT !.lost = TRUE]
      ELSE [lost |-> FALSE,
            open |-> [state.open EXCEPT
                        ![c] = [missing |-> missing - chunk.len, of |-> of]],
            done |-> IF chunk.len = missing THEN Append(state.done, of)
                     ELSE state.done]

ReadAll(chunks) ==
  LET after[i \in 0 .. Len(chunks)] ==
        IF i = 0 THEN [lost |-> FALSE, open |-> [c \in 2 .. 63 |-> Quiet], done |-> <<>>]
        ELSE Read(after[i - 1], chunks[i])
  IN  after[Len(chunks)]

\* Whatever two threads write to one connection, its peer reads exactly the messages
\* that were sent, whole and in order: SendRtmpProtol gives Send a message at a time.
WireIsMessages ==
  \A s \in Sessions : LET r == ReadAll(wire[s]) IN ~r.lost /\ r.done = sent[s]

Positions(s, name) == {i \in DOMAIN sent[s] : sent[s][i].name = name}

\* A player is told that the stream starts, then gets the configuration, and only then
\* packets, although the packets may come from another thread than the rest.
PlayIsIntroduced ==
  \A s \in Sessions :
    /\ \A i \in Positions(s, "config") :
         \E j \in Positions(s, "StatusStart") : j < i
    /\ \A i \in Positions(s, "video") :
         \E j \in Positions(s, "config") : j < i

\* A null source is dereferenced only for video of a session that never published and
\* for a name that nobody was told to have published: a client that plays what a
\* publisher was answered for finds it, from any thread and at any time after.
StartedIsPlayable ==
  crashed.by = "play" => crashed.name \notin started
=============================================================================
