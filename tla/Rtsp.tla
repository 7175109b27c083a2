-------------------------------- MODULE Rtsp --------------------------------
(***************************************************************************)
(* base::RtspSession, RtspRequest and RTP: each session answers requests   *)
(* on its io thread; PLAY opens its FlvReader, whose tasks on the pool     *)
(* send the units of the file as RTP packets of the same connection, cut   *)
(* in fragments where they are long. The sessions share the counter of the *)
(* packets. The reader is taken for what it promises (FlvReader): units    *)
(* one after the other, from one task at a time.                           *)
(***************************************************************************)
EXTENDS Naturals, Sequences, SequencesExt

CONSTANTS
  Sessions,
  Methods,       \* of the requests clients send
  Units,         \* lengths of the units in the file, none of them empty
  MaxPayload,    \* 1350; at least 2
  SeqNos,        \* 2^16
  MaxRequests,   \* bound, per session: how many requests it gets
  MaxUnits       \* bound, per session: units the reader is called for, the end counted

\* Assumed where the constants get their values (MCStreams).
RtspConstants ==
  /\ Units \in Seq(Nat \ {0})
  /\ MaxPayload \in Nat \ {0, 1}
  /\ SeqNos \in Nat \ {0}

VARIABLES
  requests,      \* per session: the requests the client has sent
  parsed,        \* how many of them have left inputBuffer_
  flvReader,     \* "none", "made", "reading" or "read": flvReader and its tasks
  unit,          \* the unit the reader delivers, or has delivered
  at,            \* bytes of the unit that have been sent
  seqRead,       \* SendNaluPacket between the two halves of seq++: <<value>>, or <<>>
  seq,           \* shared by the sessions
  tasks,         \* Sends of the pool's threads on their way to the io thread
  wire,          \* what the connection has sent: replies and packets
  undefined      \* a null or destroyed reader has been used

sessionVars == <<requests, parsed, flvReader>>
sendVars == <<unit, at, seqRead, seq>>
vars == <<sessionVars, sendVars, tasks, wire, undefined>>

Init ==
  /\ requests = [s \in Sessions |-> <<>>]
  /\ parsed = [s \in Sessions |-> 0]
  /\ flvReader = [s \in Sessions |-> "none"]
  /\ unit = [s \in Sessions |-> 0]
  /\ at = [s \in Sessions |-> 0]
  /\ seqRead = [s \in Sessions |-> <<>>]
  /\ seq = 0
  /\ tasks = [s \in Sessions |-> <<>>]
  /\ wire = [s \in Sessions |-> <<>>]
  /\ undefined = FALSE

-----------------------------------------------------------------------------
(* Requests *)

\* Each reply carries the CSeq of its request.
Answer(s, method, cseq) ==
  wire' = [wire EXCEPT ![s] = Append(@, [reply |-> method, cseq |-> cseq])]

ProcessOption(s, cseq) ==
  /\ Answer(s, "OPTIONS", cseq)
  /\ UNCHANGED <<flvReader, sendVars, undefined>>

\* Another transport than TCP is not answered.
ProcessSetup(s, method, cseq) ==
  /\ IF method = "SETUP" THEN Answer(s, method, cseq) ELSE UNCHANGED wire
  /\ UNCHANGED <<flvReader, sendVars, undefined>>

\* The reader is replaced; one whose tasks are on the pool is destroyed under them. The
\* description is the same for every file.
ProcessDescribe(s, cseq) ==
  /\ flvReader' = [flvReader EXCEPT ![s] = "made"]
  /\ undefined' = (flvReader[s] = "reading")
  /\ unit' = [unit EXCEPT ![s] = 0]
  /\ Answer(s, "DESCRIBE", cseq)
  /\ UNCHANGED <<at, seqRead, seq>>

\* File::Open refuses a file that is open.
Opens(s) == flvReader[s] = "made"

\* PLAY opens the reader, if there is such a file; without DESCRIBE there is no reader.
ProcessPlay(s, cseq) ==
  /\ Answer(s, "PLAY", cseq)
  /\ undefined' = (flvReader[s] = "none")
  /\ \/ /\ Opens(s)
        /\ flvReader' = [flvReader EXCEPT ![s] = "reading"]
        /\ unit' = [unit EXCEPT ![s] = 0]
        /\ at' = [at EXCEPT ![s] = 0]
     \/ UNCHANGED <<flvReader, unit, at>>
  /\ UNCHANGED <<seqRead, seq>>

\* RtspRequest::Parse takes the oldest request there is.
Parse(s, all) ==
  /\ parsed' = [parsed EXCEPT ![s] = @ + 1]
  /\ requests' = [requests EXCEPT ![s] = all]

\* Bytes arrive, with one request or two in them; OnRead parses one of those there are,
\* and is not called for the others until more arrives.
OnRead(s, batch) ==
  LET all == requests[s] \o batch
      cseq == parsed[s] + 1
      method == all[cseq]
  IN  /\ Len(all) <= MaxRequests[s]
      /\ Parse(s, all)
      /\ CASE method = "OPTIONS" -> ProcessOption(s, cseq)
           [] method = "DESCRIBE" -> ProcessDescribe(s, cseq)
           [] method \in {"SETUP", "SETUP over UDP"} -> ProcessSetup(s, method, cseq)
           [] method = "PLAY" -> ProcessPlay(s, cseq)
           [] OTHER -> UNCHANGED <<flvReader, sendVars, wire, undefined>>
      /\ UNCHANGED tasks

-----------------------------------------------------------------------------
(* RTP *)

\* ReadFromSource is called for the next unit, or the file is at its end.
NextUnit(s) ==
  /\ flvReader[s] = "reading"
  /\ unit[s] < MaxUnits[s]
  /\ unit[s] > 0 => at[s] = Units[unit[s]]
  /\ IF unit[s] < Len(Units)
     THEN /\ unit' = [unit EXCEPT ![s] = @ + 1]
          /\ at' = [at EXCEPT ![s] = 0]
          /\ UNCHANGED flvReader
     ELSE /\ flvReader' = [flvReader EXCEPT ![s] = "read"]
          /\ UNCHANGED <<unit, at>>
  /\ UNCHANGED <<requests, parsed, seqRead, seq, tasks, wire, undefined>>

Sending(s) == flvReader[s] = "reading" /\ unit[s] > 0 /\ at[s] < Units[unit[s]]

\* seq++ reads the counter.
ReadSeq(s) ==
  /\ Sending(s)
  /\ seqRead[s] = <<>>
  /\ seqRead' = [seqRead EXCEPT ![s] = <<seq>>]
  /\ UNCHANGED <<sessionVars, unit, at, seq, tasks, wire, undefined>>

Single(n) == n < MaxPayload

Least(m, n) == IF m < n THEN m ELSE n

\* Mutant of Part: the header of the unit, which each fragment carries, is sent as data too.
PartWithHeader(n, sent) ==
  IF Single(n) THEN [from |-> 0, to |-> n] ELSE [from |-> sent, to |-> Least(sent + MaxPayload, n)]

\* The bytes of the next packet of a unit of n bytes, after the first sent ones: all, or
\* a fragment of what follows the header.
Part(n, sent) ==
  IF Single(n) THEN [from |-> 0, to |-> n]
  ELSE LET from == IF sent = 0 THEN 1 ELSE sent
       IN  [from |-> from, to |-> Least(from + MaxPayload, n)]

\* The packet, with the start and end bits of a fragment.
Packet(u, sent, number) ==
  LET part == Part(Units[u], sent)
  IN  [seq |-> number % SeqNos, unit |-> u, from |-> part.from, to |-> part.to,
       fragment |-> ~Single(Units[u]), start |-> sent = 0, end |-> part.to = Units[u],
       marker |-> part.to = Units[u]]

\* seq++ writes the counter, and the packet goes to the io thread in a task.
SendPacket(s) ==
  /\ Sending(s)
  /\ seqRead[s] # <<>>
  /\ seq' = seqRead[s][1] + 1
  /\ seqRead' = [seqRead EXCEPT ![s] = <<>>]
  /\ tasks' = [tasks EXCEPT ![s] = Append(@, Packet(unit[s], at[s], seqRead[s][1]))]
  /\ at' = [at EXCEPT ![s] = Part(Units[unit[s]], @).to]
  /\ UNCHANGED <<sessionVars, unit, wire, undefined>>

\* TcpConnection::Send, on the io thread.
Send(s) ==
  /\ tasks[s] # <<>>
  /\ wire' = [wire EXCEPT ![s] = Append(@, Head(tasks[s]))]
  /\ tasks' = [tasks EXCEPT ![s] = Tail(@)]
  /\ UNCHANGED <<sessionVars, sendVars, undefined>>

Batches == {<<m>> : m \in Methods} \union {<<m, n>> : m, n \in Methods}

\* A session that has used a null or destroyed reader is not followed further.
Next ==
  /\ ~undefined
  /\ \E s \in Sessions :
       \/ \E batch \in Batches : OnRead(s, batch)
       \/ NextUnit(s) \/ ReadSeq(s) \/ SendPacket(s) \/ Send(s)

Spec == Init /\ [][Next]_vars

-----------------------------------------------------------------------------
(* Properties *)

\* The elements of a queue that have a field of this name.
Having(name, queue) ==
  FlattenSeq([i \in 1 .. Len(queue) |->
                IF name \in DOMAIN queue[i] THEN <<queue[i]>> ELSE <<>>])

Replies(s) == Having("reply", wire[s])

\* Packets that have been sent, and those on their way.
Packets(s) == Having("unit", wire[s]) \o tasks[s]

Answered == {"OPTIONS", "DESCRIBE", "SETUP", "PLAY"}

RepliesExact(s) ==
  Replies(s) = FlattenSeq([i \in 1 .. parsed[s] |->
                             IF requests[s][i] \notin Answered THEN <<>>
                             ELSE <<[reply |-> requests[s][i], cseq |-> i]>>])

\* What a client has got with the first n packets: a unit, in whole or in part, and the
\* bytes it has of it.
Got(packets, n) == IF n = 0 THEN [unit |-> 0, to |-> 0]
                   ELSE [unit |-> packets[n].unit, to |-> packets[n].to]

\* p is what it waits for then: p begins the next unit, or goes on with this one.
Continues(got, p) ==
  LET complete == got.unit = 0 \/ got.to = Units[got.unit]
      next == (got.unit % Len(Units)) + 1
  IN  /\ IF p.start
         THEN complete /\ p.unit = next /\ p.from = IF p.fragment THEN 1 ELSE 0
         ELSE p.fragment /\ ~complete /\ p.unit = got.unit /\ p.from = got.to
      /\ p.end <=> p.to = Units[p.unit]
      /\ p.marker <=> p.end

\* RFC 6184, 5.8: no fragment has both the start and the end bit.
Allowed(p) == ~(p.fragment /\ p.start /\ p.end)

\* The lengths of the units that are too long for a packet of their own and, without
\* their header, fit one fragment.
OneFragment == {MaxPayload, MaxPayload + 1}

UnitsExact(s) ==
  LET packets == Packets(s)
  IN  /\ \A i \in DOMAIN packets :
           /\ Continues(Got(packets, i - 1), packets[i])
           /\ Allowed(packets[i]) \/ Units[packets[i].unit] \in OneFragment
      /\ Sending(s) /\ at[s] > 0
           => Got(packets, Len(packets)) = [unit |-> unit[s], to |-> at[s]]

NumbersExact(s) ==
  (\A other \in Sessions \ {s} : Packets(other) = <<>> /\ seqRead[other] = <<>>)
    => \A i \in DOMAIN Packets(s) : Packets(s)[i].seq = (i - 1) % SeqNos

\* Requests are answered on the io thread while the pool sends units of the file: what
\* the client reads is the replies to the requests parsed so far, each once, in order and
\* with its CSeq, and among them packets from which the units of the file come whole and
\* in order, however often PLAY is asked for; while no other session plays, their
\* numbers have no gap; and they are packets as RFC 6184 allows them, except those of the
\* units of two lengths, 1350 and 1351 bytes, which leave as one fragment with both bits:
\* a client that follows the RFC need not take them.
WireIsRepliesAndUnits ==
  ~undefined => \A s \in Sessions : RepliesExact(s) /\ UnitsExact(s) /\ NumbersExact(s)
=============================================================================
