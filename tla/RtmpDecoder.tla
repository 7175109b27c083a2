---------------------------- MODULE RtmpDecoder ----------------------------
(***************************************************************************)
(* base::RtmpDecoder::decode (src/stream/RtmpDecoder.cpp): the handshake,  *)
(* and messages put together from chunks that arrive in pieces of any      *)
(* length, several channels interleaved. The peer is a client that keeps   *)
(* the protocol: it cuts each message into chunks of its current chunk     *)
(* size and may leave out header fields that repeat. A byte of the model   *)
(* is a whole header field or one unit of payload; the input buffer is the *)
(* byte queue that RingBuffer implements. Channel numbers outside 2..63    *)
(* and times beyond 24 bits, which decode does not know, are not sent.     *)
(***************************************************************************)
EXTENDS Naturals, Sequences

CONSTANTS
  Channels,      \* chunk streams the peer uses
  ChunkSizes,    \* chunk sizes it may announce
  DefaultChunk,  \* RTMP_DEFAULT_CHUNKSIZE
  Shake,         \* HANDSHAKE_C1_LEN, HANDSHAKE_C2_LEN
  Sizes,         \* payload lengths of media messages
  Deltas,        \* times between two messages of a channel
  MaxMessages,   \* bound: messages begun
  MaxNet         \* bound: no chunk is sent while more bytes are on their way

DecoderConstants ==
  /\ ChunkSizes \subseteq Nat \ {0}
  /\ DefaultChunk \in Nat \ {0}
  /\ Shake \in Nat \ {0}
  /\ Sizes \subseteq Nat
  /\ Deltas \subseteq Nat
  /\ MaxMessages \in Nat
  /\ MaxNet \in Nat

VARIABLES
  messages,      \* messages the peer has begun; a message is known by its position
  finished,      \* the media messages it has sent to the end, in that order
  partial,       \* per channel: the unfinished message and its bytes sent
  latest,        \* per channel: the latest message, 0 before the first
  peerChunk,     \* the peer's chunk size
  c2Sent,        \* the peer has answered S1
  net,           \* bytes on their way
  state,         \* _state
  buffer,        \* the connection's inputBuffer_
  chunkSize,     \* _chunkSize
  channels,      \* channels_: what decode keeps of each channel
  packets,       \* _packets
  pc,            \* "Idle", or "Decode": at the head of decode's loop
  delivered      \* packets handed to Run so far

peerVars == <<messages, finished, partial, latest, peerChunk, c2Sent>>
decoderVars == <<state, buffer, chunkSize, channels, packets, pc, delivered>>
vars == <<peerVars, net, decoderVars>>

Byte(part, value) == [part |-> part, value |-> value]
Shakes(n) == [i \in 1 .. n |-> Byte("shake", TRUE)]

Whole == [message |-> 0, sent |-> 0]
NoBuffer == <<Byte("none", <<0, 0>>)>>
NewChannel == [time |-> 0, absoluteTime |-> 0, bodySize |-> 0, type |-> "empty",
               iobuf |-> NoBuffer]

\* The peer has sent C0, with RTMP's version or another, and C1.
Init ==
  /\ messages = <<>>
  /\ finished = <<>>
  /\ partial = [c \in Channels |-> Whole]
  /\ latest = [c \in Channels |-> 0]
  /\ peerChunk = DefaultChunk
  /\ c2Sent = FALSE
  /\ \E known \in BOOLEAN : net = <<Byte("version", known)>> \o Shakes(Shake)
  /\ state = "C0C1"
  /\ buffer = <<>>
  /\ chunkSize = DefaultChunk
  /\ channels = [c \in Channels |-> NewChannel]
  /\ packets = <<>>
  /\ pc = "Idle"
  /\ delivered = <<>>

-----------------------------------------------------------------------------
(* The peer *)

\* C2 answers S1, which decode sends as it leaves the first state.
SendC2 ==
  /\ state # "C0C1" /\ ~c2Sent
  /\ c2Sent' = TRUE
  /\ net' = net \o Shakes(Shake)
  /\ UNCHANGED <<messages, finished, partial, latest, peerChunk, decoderVars>>

Lesser(a, b) == IF a < b THEN a ELSE b

\* Format 0 carries all fields, 1 to 3 each one fewer; the first byte is always there.
Header(fmt, c, m) ==
  SubSeq(<<Byte("head", <<fmt, c>>), Byte("time", m.field),
           Byte("size and type", <<m.size, m.type>>), Byte("stream", 0)>>, 1, 4 - fmt)

\* The bytes of message i behind the first `from` ones.
Payload(i, from, upto) == [k \in 1 .. upto - from |-> Byte("body", <<i, from + k>>)]

\* One chunk of m, the i-th message, of which `sent` bytes have been sent.
SendChunk(fmt, c, m, i, sent) ==
  LET upto == Lesser(m.size, sent + peerChunk)
      last == upto = m.size
  IN  /\ Len(net) <= MaxNet
      /\ net' = net \o (Header(fmt, c, m) \o Payload(i, sent, upto))
      /\ partial' = [partial EXCEPT ![c] =
                       IF last THEN Whole ELSE [message |-> i, sent |-> upto]]
      /\ finished' = IF last /\ m.type = "media" THEN Append(finished, i) ELSE finished
      /\ peerChunk' = IF last /\ m.type = "chunk size" THEN m.value ELSE peerChunk

\* A chunk size takes two bytes, so that it can itself be cut in two.
Kinds ==
  [type : {"media"}, size : Sizes, value : {0}]
    \union [type : {"chunk size"}, size : {2}, value : ChunkSizes]
    \union [type : {"ack"}, size : {1}, value : {0}]

\* Format 0 gives the time; 1 the time since the latest message of the channel; 2
\* leaves out size and type if they are the same; 3 also repeats the time field.
MayOmit(fmt, c, kind, delta) ==
  \/ fmt = 0
  \/ /\ latest[c] # 0
     /\ LET m == messages[latest[c]]
        IN  /\ fmt >= 2 => kind.size = m.size /\ kind.type = m.type
            /\ fmt = 3 => delta = m.field

SendMessage(c) ==
  /\ c2Sent
  /\ partial[c] = Whole
  /\ Len(messages) < MaxMessages
  /\ \E fmt \in 0 .. 3, kind \in Kinds, delta \in Deltas :
       /\ MayOmit(fmt, c, kind, delta)
       /\ LET i == Len(messages) + 1
              time == delta + IF latest[c] = 0 THEN 0 ELSE messages[latest[c]].time
              m == [type |-> kind.type, size |-> kind.size, value |-> kind.value,
                    time |-> time, field |-> IF fmt = 0 THEN time ELSE delta]
          IN  /\ messages' = Append(messages, m)
              /\ SendChunk(fmt, c, m, i, 0)
              /\ latest' = [latest EXCEPT ![c] = i]
  /\ UNCHANGED <<c2Sent, decoderVars>>

ContinueMessage(c) ==
  /\ partial[c] # Whole
  /\ SendChunk(3, c, messages[partial[c].message], partial[c].message, partial[c].sent)
  /\ UNCHANGED <<messages, latest, c2Sent, decoderVars>>

-----------------------------------------------------------------------------
(* decode *)

\* HandleRead has appended n more bytes to inputBuffer_ and shows it to OnRecv.
Receive(n) ==
  /\ pc = "Idle"
  /\ buffer' = buffer \o SubSeq(net, 1, n)
  /\ net' = SubSeq(net, n + 1, Len(net))
  /\ pc' = "Decode"
  /\ UNCHANGED <<peerVars, state, chunkSize, channels, packets, delivered>>

\* RtmpSession::OnRecv after decode returned: Run takes the packets, and clears them.
Return ==
  /\ pc' = "Idle"
  /\ delivered' = delivered \o packets
  /\ packets' = <<>>

Consumed(n) == buffer' = SubSeq(buffer, n + 1, Len(buffer))

\* C0 and C1 in one piece, or nothing: a longer buffer is left alone for ever, an
\* unknown version is consumed and not answered.
DecodeC0C1 ==
  /\ pc = "Decode" /\ state = "C0C1" /\ buffer # <<>>
  /\ \/ Len(buffer) # 1 + Shake
        /\ UNCHANGED <<buffer, state>>
     \/ Len(buffer) = 1 + Shake
        /\ IF Head(buffer).value THEN Consumed(1 + Shake) /\ state' = "C2"
           ELSE Consumed(1) /\ UNCHANGED state
  /\ Return
  /\ UNCHANGED <<peerVars, net, chunkSize, channels>>

\* C2; what follows it is decoded at once.
DecodeC2 ==
  /\ pc = "Decode" /\ state = "C2" /\ Len(buffer) >= Shake
  /\ Consumed(Shake)
  /\ state' = "Done"
  /\ UNCHANGED <<peerVars, net, chunkSize, channels, packets, pc, delivered>>

Fmt == Head(buffer).value[1]
HeadLen == 4 - Fmt

\* The channel after the fields of the header have been copied into it.
WithHeader(ch) ==
  [ch EXCEPT !.time = IF Fmt <= 2 THEN buffer[2].value ELSE @,
             !.bodySize = IF Fmt <= 1 THEN buffer[3].value[1] ELSE @,
             !.type = IF Fmt <= 1 THEN buffer[3].value[2] ELSE @]

\* Mutant of WithBuffer: a time is added whenever the header is looked at.
WithBufferAlways(ch) ==
  [ch EXCEPT !.iobuf = IF ch.iobuf = NoBuffer THEN <<>> ELSE @,
             !.absoluteTime = IF Fmt = 0 THEN ch.time ELSE @ + ch.time]

\* The channel with a buffer for the message; a message that begins sets its time,
\* also when its first chunk is not complete yet and its header is looked at again.
WithBuffer(ch) ==
  IF ch.iobuf # NoBuffer THEN ch
  ELSE [ch EXCEPT !.iobuf = <<>>,
                  !.absoluteTime = IF Fmt = 0 THEN ch.time ELSE @ + ch.time]

ChunkLen(ch) == Lesser(ch.bodySize - Len(ch.iobuf), chunkSize)

\* The number in the payload of a chunk size message.
Announced(iobuf) == messages[Head(iobuf).value[1]].value

\* The message of channel c is complete: control messages are absorbed, others go to
\* _packets together with their buffer.
Complete(c, ch) ==
  /\ channels' = [channels EXCEPT ![c] = [ch EXCEPT !.iobuf = NoBuffer]]
  /\ chunkSize' = IF ch.type = "chunk size" THEN Announced(ch.iobuf) ELSE chunkSize
  /\ packets' = IF ch.type = "media" THEN Append(packets, ch) ELSE packets

\* The header has not arrived.
HeaderShort == Len(buffer) < HeadLen

\* Mutant of PayloadShort: a chunk that is exactly there is not taken.
PayloadShortLate(ch) ==
  Len(ch.iobuf) > ch.bodySize \/ Len(buffer) <= HeadLen + ChunkLen(ch)

\* The payload behind it has not, or the message is longer than announced.
PayloadShort(ch) ==
  Len(ch.iobuf) > ch.bodySize \/ Len(buffer) < HeadLen + ChunkLen(ch)

AtChunk ==
  pc = "Decode" /\ state = "Done" /\ buffer # <<>> /\ Head(buffer).part = "head"

DecodeChunk ==
  /\ AtChunk
  /\ ~HeaderShort
  /\ LET c == Head(buffer).value[2]
         ch == WithBuffer(WithHeader(channels[c]))
         n == ChunkLen(ch)
         filled == [ch EXCEPT !.iobuf = @ \o SubSeq(buffer, HeadLen + 1, HeadLen + n)]
     IN  /\ ~PayloadShort(ch)
         /\ Consumed(HeadLen + n)
         /\ IF Len(filled.iobuf) = filled.bodySize THEN Complete(c, filled)
            ELSE /\ channels' = [channels EXCEPT ![c] = filled]
                 /\ UNCHANGED <<chunkSize, packets>>
  /\ UNCHANGED <<peerVars, net, state, pc, delivered>>

\* decode returns for lack of bytes.
HeaderWaits ==
  /\ AtChunk
  /\ HeaderShort
  /\ Return
  /\ UNCHANGED <<peerVars, net, state, buffer, chunkSize, channels>>

\* The same with a header that is there: the channel keeps what it took from it.
PayloadWaits ==
  /\ AtChunk
  /\ ~HeaderShort
  /\ LET c == Head(buffer).value[2]
         ch == WithBuffer(WithHeader(channels[c]))
     IN  /\ PayloadShort(ch)
         /\ channels' = [channels EXCEPT ![c] = ch]
  /\ Return
  /\ UNCHANGED <<peerVars, net, state, buffer, chunkSize>>

\* The loop ends at an empty buffer, or waits for the rest of C2.
NothingToDecode ==
  /\ pc = "Decode"
  /\ buffer = <<>> \/ (state = "C2" /\ Len(buffer) < Shake)
  /\ Return
  /\ UNCHANGED <<peerVars, net, state, buffer, chunkSize, channels>>

Next ==
  \/ SendC2
  \/ \E c \in Channels : SendMessage(c) \/ ContinueMessage(c)
  \/ \E n \in 1 .. Len(net) : Receive(n)
  \/ DecodeC0C1 \/ DecodeC2 \/ DecodeChunk
  \/ HeaderWaits \/ PayloadWaits \/ NothingToDecode

Spec == Init /\ [][Next]_vars

-----------------------------------------------------------------------------
(* Properties *)

Sent(i) ==
  [time |-> messages[i].time, body |-> Payload(i, 0, messages[i].size)]
Shown(p) == [time |-> p.absoluteTime, body |-> p.iobuf]

\* However messages of different channels are mixed and cut, on the way and by the
\* peer, decode hands out the media messages in the order in which they were
\* completed, none twice, each with its own bytes and with the absolute time its
\* sender meant, whichever header fields were left out.
DeliveredExact ==
  LET got == delivered \o packets
  IN  /\ Len(got) <= Len(finished)
      /\ \A k \in 1 .. Len(got) : Shown(got[k]) = Sent(finished[k])

\* A decoder that returned waits for bytes it does not have: when everything sent
\* has arrived, every completed media message has been handed out.
NothingHeldBack ==
  pc = "Idle" /\ net = <<>> /\ state = "Done" =>
    /\ buffer = <<>>
    /\ Len(delivered) = Len(finished)
=============================================================================
