\* Two players join at any moment of a stream of four packets, key frames anywhere. Up to
\* three requests, with and without bodies, that arrive in any pieces; up to three
\* packets and configurations, published at any moment of a request. Two threads read
\* every file of up to four tags; heads, pieces and the buffer are scaled down from 9, 15,
\* 200, 4096 and 4194304 bytes. Two RTSP sessions, requests sent one by one or two at once;
\* one plays a file of units of each length around those of one fragment, one its first
\* unit; numbers go round after two packets.
SPECIFICATION StreamsSpec
CONSTANTS
  Players = {p1, p2}
  Garbage <- IndeterminateCounts
  MaxPackets = 4
  MaxConfigs = 2
  Bodies = {0, 1}
  Sizes = {5, 6}
  Limits <- ManyRequestsOrPackets
  Workers = {w1, w2}
  Files <- ManyFiles
  FileHead = 1
  TagHead = 2
  HeadPiece = 4
  Piece = 5
  MaxBuffer = 8
  Sessions = {s1, s2}
  Methods = {"OPTIONS", "DESCRIBE", "SETUP over UDP", "SETUP", "PLAY"}
  Units <- ShortFile
  MaxPayload = 2
  SeqNos = 2
  MaxRequests <- Requests
  MaxUnits <- UnitsToRead
INVARIANTS
  NoRepeat
  LiveIsComplete
  GopFromLastKey
  AnsweredInOrder
  FlvWellFormed
  DeliveredExact
  WireIsRepliesAndUnits
PROPERTIES
  ReaderEnds
\* The stream ends; the client and the publisher stop, or the program has used a null
\* source; the end of the file; clients may have asked for all they ask for.
CHECK_DEADLOCK FALSE
