------------------------------- MODULE HttpFlv -------------------------------
(***************************************************************************)
(* base::HttpFlvSession: a connection whose requests HttpRequest::Parse    *)
(* takes from the input buffer, and whose answer is the live stream "ss"   *)
(* as FLV, written by FlvEncoder; and the publisher of that stream, on     *)
(* another thread. A request is a sequence of symbols: its first line      *)
(* with the fields nobody asks for, a field with the length of its body,   *)
(* the two halves of the empty line that ends the head, the bytes of the   *)
(* body. The ring is taken to be in one piece: PeekString finds nothing in *)
(* one that is wrapped.                                                    *)
(***************************************************************************)
EXTENDS Naturals, Sequences, FiniteSets, SequencesExt

CONSTANTS
  Bodies,        \* lengths of bodies; 0: no such field
  Sizes,         \* lengths of packets
  Limits         \* bounds: how many requests, beside how many packets and configurations,
                 \* with bodies of at most which length

\* Assumed where the constants get their values (MCStreams).
HttpConstants ==
  /\ Bodies \subseteq Nat
  /\ Sizes \subseteq Nat
  /\ Limits \subseteq Nat \X Nat \X Nat

VARIABLES
  coming,        \* symbols the client has sent and the connection not received
  requests,      \* the lengths of the bodies of the requests sent
  cut,           \* a piece has ended inside a request
  inputBuffer,
  httpStatus,
  pc,            \* place of the connection's thread: "idle" outside Parse
  contentLength, \* local of Parse
  url,           \* _url: the number of the request it came from
  field,         \* _filedmap["Content-Length"], 0 if it is empty
  answered,      \* requests that ProcessHttp was called for
  preTagSize,    \* preTagSize_ of the encoder
  out,           \* what the connection has been sent
  posted,        \* Send tasks of the publisher's thread for the connection's loop
  source,        \* the source "ss": [made, config, gop]
  registered,    \* how often the session is in callbackQueue_
  pushing,       \* local of PushPacket: [at, left, packet]
  published,     \* packets and configurations so far
  crashed        \* a null source has been used

clientVars == <<coming, requests, cut>>
parserVars == <<inputBuffer, httpStatus, contentLength, url, field>>
flvVars == <<preTagSize, out, posted>>
publisherVars == <<pushing, published>>
vars == <<clientVars, parserVars, pc, answered, flvVars, source, registered,
          publisherVars, crashed>>

Allowed(r, p) ==
  \E limit \in Limits :
    Len(r) <= limit[1] /\ p <= limit[2] /\ \A i \in DOMAIN r : r[i] <= limit[3]

First(i) == [kind |-> "first", n |-> i]
Length(l) == [kind |-> "length", n |-> l]
Byte == [kind |-> "byte", n |-> 0]
HalfEnd == [kind |-> "half", n |-> 0]

NoPacket == [n |-> 0, size |-> 0]

Init ==
  /\ coming = <<>>
  /\ requests = <<>>
  /\ cut = FALSE
  /\ inputBuffer = <<>>
  /\ httpStatus = "kWaitingHeader"
  /\ pc = "idle"
  /\ contentLength = 0
  /\ url = 0
  /\ field = 0
  /\ answered = <<>>
  /\ preTagSize = 0
  /\ out = <<>>
  /\ posted = <<>>
  /\ source = [made |-> FALSE, config |-> <<>>, gop |-> <<>>]
  /\ registered = 0
  /\ pushing = [at |-> "idle", left |-> 0, packet |-> NoPacket]
  /\ published = 0
  /\ crashed = FALSE

-----------------------------------------------------------------------------
(* The client and the network *)

SendRequest(body) ==
  /\ Allowed(Append(requests, body), published)
  /\ requests' = Append(requests, body)
  /\ coming' = coming \o <<First(Len(requests'))>>
                 \o (IF body = 0 THEN <<>> ELSE <<Length(body)>>)
                 \o <<HalfEnd, HalfEnd>>
                 \o [i \in 1 .. body |-> Byte]
  /\ UNCHANGED <<cut, parserVars, pc, answered, flvVars, source, registered,
                 publisherVars, crashed>>

\* Any number of symbols arrives, and OnRecv calls Parse.
Receive(k) ==
  /\ pc = "idle"
  /\ k \in 1 .. Len(coming)
  /\ inputBuffer' = inputBuffer \o SubSeq(coming, 1, k)
  /\ coming' = SubSeq(coming, k + 1, Len(coming))
  /\ cut' = (cut \/ (coming' # <<>> /\ Head(coming').kind # "first"))
  /\ contentLength' = 0
  /\ pc' = "parse"
  /\ UNCHANGED <<requests, httpStatus, url, field, answered, flvVars, source, registered,
                 publisherVars, crashed>>

-----------------------------------------------------------------------------
(* HttpRequest::Parse, a turn of its loop at a time *)

\* RingBuffer::ReadString of the end of a head: what is before it, or everything if it
\* is not there.
HeadLen(buffer) ==
  LET ends == {i \in 1 .. Len(buffer) - 1 : /\ buffer[i] = HalfEnd
                                            /\ buffer[i + 1] = HalfEnd}
  IN  IF ends = {} THEN Len(buffer)
      ELSE CHOOSE l \in 0 .. Len(buffer) : l + 1 \in ends /\ \A e \in ends : l < e

ParseHeadFails(head) == head[1].kind # "first"

\* ParseHead, ParseFirstLine and ParseLine: a head that begins with something else
\* than a first line changes nothing.
UrlOf(head) == IF ParseHeadFails(head) THEN url ELSE head[1].n

\* The latest length there is. ParseLine keeps what find() returns in an unsigned int and
\* compares that with npos: it finds that a line is the last one only where size_t has 32
\* bits, as in Debug|Win32, the configuration with the project's include path.
FieldOf(head) ==
  LET lengths == {i \in DOMAIN head : head[i].kind = "length"}
      latest == CHOOSE i \in lengths : \A j \in lengths : j <= i
  IN  IF ParseHeadFails(head) \/ lengths = {} THEN field ELSE head[latest].n

\* Mutant of AfterHead: the empty line is left in the buffer.
AfterHeadKept(l) == SubSeq(inputBuffer, l + 1, Len(inputBuffer))

\* ReadString consumes the head; AddReadPos the empty line, if there is as much.
AfterHead(l) ==
  LET left == SubSeq(inputBuffer, l + 1, Len(inputBuffer))
  IN  IF Len(left) < 2 THEN left ELSE SubSeq(left, 3, Len(left))

WaitingHeader ==
  /\ pc = "parse"
  /\ httpStatus = "kWaitingHeader"
  /\ LET l == HeadLen(inputBuffer)
     IN  IF l = 0
         THEN /\ pc' = "idle"
              /\ UNCHANGED <<inputBuffer, httpStatus, url, field>>
         ELSE /\ url' = UrlOf(SubSeq(inputBuffer, 1, l))
              /\ field' = FieldOf(SubSeq(inputBuffer, 1, l))
              /\ inputBuffer' = AfterHead(l)
              /\ httpStatus' = "kWaitingBody"
              /\ UNCHANGED pc
  /\ UNCHANGED <<clientVars, contentLength, answered, flvVars, source, registered,
                 publisherVars, crashed>>

\* The test for "chunked" compares two constants: the chunked states are not reached.
WaitingBody ==
  /\ pc = "parse"
  /\ httpStatus = "kWaitingBody"
  /\ contentLength' = IF field # 0 THEN field ELSE contentLength
  /\ httpStatus' = IF field # 0 THEN "kWaitingContentLength" ELSE "kCompleted"
  /\ UNCHANGED <<clientVars, inputBuffer, url, field, pc, answered, flvVars, source,
                 registered, publisherVars, crashed>>

\* contentLength is 0 if Parse has returned since the head was read.
WaitingContentLength ==
  /\ pc = "parse"
  /\ httpStatus = "kWaitingContentLength"
  /\ IF contentLength > Len(inputBuffer)
     THEN /\ pc' = "idle"
          /\ UNCHANGED <<inputBuffer, httpStatus>>
     ELSE /\ inputBuffer' = SubSeq(inputBuffer, contentLength + 1, Len(inputBuffer))
          /\ httpStatus' = "kCompleted"
          /\ UNCHANGED pc
  /\ UNCHANGED <<clientVars, contentLength, url, field, answered, flvVars, source,
                 registered, publisherVars, crashed>>

-----------------------------------------------------------------------------
(* kCompleted: ProcessHttp and FlvEncoder *)

Item(kind, n, size) == [kind |-> kind, n |-> n, size |-> size]

\* Mutant of TagSize: the header of the tag is not counted.
TagSizeData(size) == size

TagSize(size) == size + 11

\* WriteFlvTag: three calls of Send for a packet.
Tag(pre, p) ==
  <<Item("previous", 0, pre), Item("header", p.n, p.size), Item("data", p.n, p.size)>>

\* The tags of several packets in a row: part k of them is of packet (k + 2) \div 3.
Tags(packets) ==
  LET TagOf(i) == Tag(IF i = 1 THEN 0 ELSE TagSize(packets[i - 1].size), packets[i])
  IN  [k \in 1 .. 3 * Len(packets) |-> TagOf((k + 2) \div 3)[((k + 2) % 3) + 1]]

\* StartRead: the configuration and the cache by the connection's thread, as they are at
\* one moment. Nothing locks them: PushPacketConfig and Cache may come in between, and what
\* is read then is undefined (RtmpSource marks it as raced); here that is left out.
ProcessHttp ==
  /\ pc = "parse"
  /\ httpStatus = "kCompleted"
  /\ answered' = Append(answered, url)
  /\ LET media == IF source.config = <<>> THEN <<>> ELSE source.config \o source.gop
     IN  /\ out' = out \o <<Item("response", 0, 0), Item("flv", 0, 9)>> \o Tags(media)
         /\ preTagSize' = IF media = <<>> THEN 0 ELSE TagSize(Last(media).size)
         /\ pc' = IF media = <<>> THEN "parse" ELSE "register"
  /\ crashed' = ~source.made
  /\ httpStatus' = "kWaitingHeader"
  /\ UNCHANGED <<clientVars, inputBuffer, contentLength, url, field, posted, source,
                 registered, publisherVars>>

Register ==
  /\ pc = "register"
  /\ registered' = registered + 1
  /\ pc' = "parse"
  /\ UNCHANGED <<clientVars, parserVars, answered, flvVars, source, publisherVars,
                 crashed>>

-----------------------------------------------------------------------------
(* The publisher of "ss", one: RtmpSession and RtmpSource on another thread *)

CreateSource ==
  /\ ~source.made
  /\ source' = [source EXCEPT !.made = TRUE]
  /\ UNCHANGED <<clientVars, parserVars, pc, answered, flvVars, registered, publisherVars,
                 crashed>>

PushPacketConfig(size) ==
  /\ source.made
  /\ pushing.at = "idle"
  /\ Allowed(requests, published + 1)
  /\ published' = published + 1
  /\ source' = [source EXCEPT !.config = <<[n |-> published', size |-> size]>>]
  /\ UNCHANGED <<clientVars, parserVars, pc, answered, flvVars, registered, pushing,
                 crashed>>

PushPacket(size) ==
  /\ source.made
  /\ pushing.at = "idle"
  /\ Allowed(requests, published + 1)
  /\ published' = published + 1
  /\ pushing' = [at |-> "cache", left |-> registered,
                 packet |-> [n |-> published', size |-> size]]
  /\ UNCHANGED <<clientVars, parserVars, pc, answered, flvVars, source, registered,
                 crashed>>

Cache(isKey) ==
  /\ pushing.at = "cache"
  /\ source' = [source EXCEPT !.gop = IF isKey THEN <<pushing.packet>>
                                      ELSE Append(@, pushing.packet)]
  /\ pushing' = [pushing EXCEPT !.at = IF pushing.left = 0 THEN "idle" ELSE "deliver"]
  /\ UNCHANGED <<clientVars, parserVars, pc, answered, flvVars, registered, published,
                 crashed>>

\* ReadFromSource and SendTag on the publisher's thread: three tasks for the loop.
Deliver ==
  /\ pushing.at = "deliver"
  /\ posted' = posted \o Tag(preTagSize, pushing.packet)
  /\ preTagSize' = TagSize(pushing.packet.size)
  /\ pushing' = [pushing EXCEPT !.left = @ - 1,
                                !.at = IF pushing.left = 1 THEN "idle" ELSE "deliver"]
  /\ UNCHANGED <<clientVars, parserVars, pc, answered, out, source, registered, published,
                 crashed>>

\* The loop of the connection, between its events.
RunPosted ==
  /\ pc = "idle"
  /\ posted # <<>>
  /\ out' = Append(out, Head(posted))
  /\ posted' = Tail(posted)
  /\ UNCHANGED <<clientVars, parserVars, pc, answered, preTagSize, source, registered,
                 publisherVars, crashed>>

Running ==
  \/ \E body \in Bodies : SendRequest(body)
  \/ \E k \in 1 .. Len(coming) : Receive(k)
  \/ WaitingHeader \/ WaitingBody \/ WaitingContentLength \/ ProcessHttp \/ Register
  \/ CreateSource
  \/ \E size \in Sizes : PushPacketConfig(size) \/ PushPacket(size)
  \/ \E isKey \in BOOLEAN : Cache(isKey)
  \/ Deliver \/ RunPosted

Next == ~crashed /\ Running

Spec == Init /\ [][Next]_vars

-----------------------------------------------------------------------------
(* Properties *)

\* A request without a body after one with a body takes over its length: ParseLine
\* enters what it finds, and nothing empties the map.
Inherits == \E i, j \in DOMAIN requests : i < j /\ requests[i] > 0 /\ requests[j] = 0

\* Requests that arrive in whole, any number of them at once, with or without bodies,
\* are answered once each, in order, and nothing is left over when Parse returns;
\* unless one inherits a length.
AnsweredInOrder ==
  ~cut /\ ~Inherits =>
    /\ answered = [i \in 1 .. Len(answered) |-> i]
    /\ pc = "idle" => /\ inputBuffer = <<>>
                      /\ coming = <<>> => Len(answered) = Len(requests)

\* The answer to one request is an FLV stream from its first byte on, whichever thread
\* sends the tags: after the header, tags of three parts of one packet, each telling
\* the length of the tag before it. (A second request on the connection starts a second
\* stream in the middle of the first.)
FlvWellFormed ==
  Len(answered) = 1 =>
    LET tags == SubSeq(out, 3, Len(out))
        part == [i \in DOMAIN tags |-> tags[i].kind]
    IN  /\ SubSeq(out, 1, 2) = <<Item("response", 0, 0), Item("flv", 0, 9)>>
        /\ \A i \in DOMAIN tags :
             CASE i % 3 = 1 -> /\ part[i] = "previous"
                               /\ tags[i].size = IF i = 1 THEN 0 ELSE tags[i - 1].size + 11
               [] i % 3 = 2 -> part[i] = "header"
               [] OTHER -> part[i] = "data" /\ tags[i].n = tags[i - 1].n
=============================================================================
