------------------------------- MODULE MCRtmp -------------------------------
(* TLC instance of the two ends of the chunk codec: the sessions, which write *)
(* chunks, and the decoder, which reads those of a client. A behaviour is one *)
(* of either, and the other stays as it was made.                             *)
EXTENDS RtmpSession, TLC

CONSTANTS Channels, ChunkSizes, DefaultChunk, Shake, Sizes, Deltas, MaxMessages, MaxNet

VARIABLES inUse, messages, finished, partial, latest, peerChunk, c2Sent, net, state, buffer,
          chunkSize, channels, packets, decodePc, delivered

peer == <<messages, finished, partial, latest, peerChunk, c2Sent, net>>
decodeVars == <<peer, state, buffer, chunkSize, channels, packets, decodePc, delivered>>

Decoder == INSTANCE RtmpDecoder WITH pc <- decodePc

ASSUME DecoderAssumption == Decoder!DecoderConstants

\* No property of the run names a session.
SessionSymmetry == Permutations(Sessions)

RtmpInit ==
  /\ Init
  /\ Decoder!Init
  /\ inUse \in {"sessions", "decoder"}
  /\ inUse = "sessions" => Head(net).value

UseSessions ==
  /\ inUse = "sessions"
  /\ Next
  /\ UNCHANGED <<inUse, decodeVars>>

UseDecoder ==
  /\ inUse = "decoder"
  /\ Decoder!Next
  /\ UNCHANGED <<inUse, vars>>

RtmpNext == UseSessions \/ UseDecoder

RtmpSpec == RtmpInit /\ [][RtmpNext]_<<inUse, vars, decodeVars>>

\* The decoder hands out exactly the messages its peer completed (see RtmpDecoder).
DeliveredExact == Decoder!DeliveredExact

\* A decoder that returned waits for bytes it does not have (see RtmpDecoder).
NothingHeldBack == Decoder!NothingHeldBack
=============================================================================
