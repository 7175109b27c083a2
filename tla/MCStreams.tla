------------------------------ MODULE MCStreams ------------------------------
(* TLC instance of streams on their way to those who play them: a live one   *)
(* between its publisher and its players; one HTTP-FLV session of such a     *)
(* player with its requests; the reading of a file; and the RTSP sessions    *)
(* that send a file's units. A behaviour is one of them, and the others stay *)
(* as they were made.                                                        *)
EXTENDS RtmpSource

CONSTANTS Bodies, Sizes, Limits,
          Workers, Files, FileHead, TagHead, HeadPiece, Piece, MaxBuffer,
          Sessions, Methods, Units, MaxPayload, SeqNos, MaxRequests,
          MaxUnits

VARIABLES inUse, coming, requests, cut, inputBuffer, httpStatus, pc, contentLength, url,
          field, answered, preTagSize, out, posted, source, registered, pushing, published,
          crashed, file, filePos, tempBuffer, dataBuffer, tasks, worker, packets, used,
          lost, overlapped,
          asked, parsed, flvReader, unit, unitSent, seqRead, seq, sending, wire, undefined

httpVars == <<coming, requests, cut, inputBuffer, httpStatus, pc, contentLength, url, field,
              answered, preTagSize, out, posted, source, registered, pushing, published,
              crashed>>
readerVars == <<file, filePos, tempBuffer, dataBuffer, tasks, worker, packets, used, lost,
                overlapped>>
rtspVars == <<asked, parsed, flvReader, unit, unitSent, seqRead, seq, sending, wire,
              undefined>>

Http == INSTANCE HttpFlv
Reader == INSTANCE FlvReader WITH delivered <- packets, raced <- overlapped
Rtp == INSTANCE Rtsp WITH requests <- asked, at <- unitSent, tasks <- sending

ASSUME HttpAssumption == Http!HttpConstants
ASSUME ReaderAssumption == Reader!ReaderConstants
ASSUME RtspAssumption == Rtp!RtspConstants

\* 0, what a zeroed heap gives, a positive value, and one that reaches 0 at the
\* second packet.
IndeterminateCounts == {-2, 0, 1}
\* Three requests and no stream; one request at any moment of a stream, with a body if the
\* stream is short.
ManyRequestsOrPackets == {<<3, 0, 1>>, <<1, 2, 1>>, <<1, 3, 0>>}

Tag(kind, size, nalus) == [kind |-> kind, size |-> size, nalus |-> nalus]

\* Tags shorter than a piece, as long as one, and as long as the buffer; the tag that
\* is misread; and, alone, one that is longer than the buffer.
Tags == {Tag("config", 1, 0), Tag("video", 3, 2), Tag("video", 6, 1),
         Tag("skip", 2, 0), Tag("other", 1, 0)}
ManyFiles ==
  UNION {[1 .. n -> Tags] : n \in 0 .. 4}
    \union {<<Tag("video", 7, 1)>>, <<Tag("skip", 9, 0), Tag("skip", 2, 0)>>}

\* A unit of two fragments of which the first is full, the two lengths of which one
\* fragment is made, and a unit of one packet.
ShortFile == <<4, 3, 2, 1>>

\* What it takes to play the file; for one session one request more, and the file to its
\* end, where the other gets the first unit.
First == CHOOSE s \in Sessions : TRUE
Requests == [s \in Sessions |-> IF s = First THEN 3 ELSE 2]
UnitsToRead == [s \in Sessions |-> IF s = First THEN Len(ShortFile) + 1 ELSE 1]

StreamsInit ==
  /\ Init
  /\ Http!Init
  /\ Reader!Init
  /\ Rtp!Init
  /\ inUse \in {"source", "http", "reader", "rtsp"}
  /\ inUse # "source" => initCount = 0
  /\ inUse # "reader" => file = <<>>

UseSource ==
  /\ inUse = "source"
  /\ Next
  /\ UNCHANGED <<inUse, httpVars, readerVars, rtspVars>>

UseHttp ==
  /\ inUse = "http"
  /\ Http!Next
  /\ UNCHANGED <<inUse, vars, readerVars, rtspVars>>

UseReader ==
  /\ inUse = "reader"
  /\ Reader!Next
  /\ UNCHANGED <<inUse, vars, httpVars, rtspVars>>

UseRtsp ==
  /\ inUse = "rtsp"
  /\ Rtp!Next
  /\ UNCHANGED <<inUse, vars, httpVars, readerVars>>

StreamsNext == UseSource \/ UseHttp \/ UseReader \/ UseRtsp

\* The threads of the pool run, as in FlvReader.
StreamsSpec ==
  /\ StreamsInit
  /\ [][StreamsNext]_<<inUse, vars, httpVars, readerVars, rtspVars>>
  /\ \A w \in Workers : WF_readerVars(inUse = "reader" /\ ~overlapped /\ ~lost /\ Reader!Step(w))

\* Requests that arrive whole are answered once each and in order (see HttpFlv).
AnsweredInOrder == Http!AnsweredInOrder

\* The answer to one request is an FLV stream, whichever thread sends its tags (see
\* HttpFlv).
FlvWellFormed == Http!FlvWellFormed

\* Every packet of the bytes decoded so far has been delivered, once and in order (see
\* FlvReader).
DeliveredExact == Reader!DeliveredExact

\* A client of RTSP reads the replies to its requests, each once and in order, and packets
\* from which the units of the file come whole and in order, allowed by RFC 6184 but for
\* units of two lengths (see Rtsp).
WireIsRepliesAndUnits == Rtp!WireIsRepliesAndUnits

\* Reading comes to its end, unless a tag is longer than the buffer: DocodeChunk, with
\* the buffer full, then goes round for ever.
ReaderEnds == inUse = "reader" => Reader!ReadingEnds
=============================================================================
