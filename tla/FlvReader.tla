------------------------------ MODULE FlvReader ------------------------------
(***************************************************************************)
(* base::FlvReader: reads an FLV file piece by piece in tasks of the       *)
(* WorkPool and puts its tags together across the pieces. ReadHeader and   *)
(* the decoding it calls each post a ReadFile, and each ReadFile the next: *)
(* two chains of tasks share the file and the buffers. A byte of the file  *)
(* is the tag it belongs to and its place in it; lengths are small, the    *)
(* head of a tag being TagHead bytes instead of 15.                        *)
(***************************************************************************)
EXTENDS Naturals, Sequences, FiniteSets, SequencesExt

CONSTANTS
  Workers,       \* threads of the pool
  Files,         \* files: sequences of tags [kind, size, nalus]
  FileHead,      \* length of the head of a file
  TagHead,       \* length of the head of a tag, the size of the last tag included
  HeadPiece,     \* bytes ReadHeader reads
  Piece,         \* bytes ReadFile reads
  MaxBuffer      \* kMaxBufferSizeBytes

\* Assumed where the constants get their values (MCStreams).
ReaderConstants ==
  /\ {FileHead, TagHead, HeadPiece, Piece, MaxBuffer} \subseteq Nat \ {0}
  /\ FileHead < HeadPiece
  /\ HeadPiece <= Piece
  /\ Piece <= MaxBuffer
  /\ Files \subseteq Seq([kind : STRING, size : Nat, nalus : Nat])

VARIABLES
  file,          \* the file: never changes
  filePos,       \* bytes of it read
  tempBuffer,    \* temp_buffer_: what the latest read put there
  dataBuffer,    \* data_buffer_: the beginning of a tag that is not complete
  tasks,         \* the queue of the pool
  worker,        \* per thread: [at, offset, posts], its place in a task
  delivered,     \* packets given to readCallback_
  used,          \* bytes of the file that DocodeChunk has been through
  lost,          \* the reader has left the boundaries of tags
  raced          \* two tasks have touched the buffers at once

bufferVars == <<tempBuffer, dataBuffer>>
vars == <<file, filePos, bufferVars, tasks, worker, delivered, used, lost, raced>>

\* The bytes of a file, without the size of its last tag, which begins no tag.
TagBytes(f, i) == [j \in 1 .. TagHead + f[i].size |-> [tag |-> i, at |-> j]]
Bytes(f) == [j \in 1 .. FileHead |-> [tag |-> 0, at |-> j]]
              \o FlattenSeq([i \in DOMAIN f |-> TagBytes(f, i)])

Idle == [at |-> "idle", offset |-> 0, posts |-> 0]

\* Open posts ReadHeader.
Init ==
  /\ file \in Files
  /\ filePos = 0
  /\ tempBuffer = <<>>
  /\ dataBuffer = <<>>
  /\ tasks = <<"ReadHeader">>
  /\ worker = [w \in Workers |-> Idle]
  /\ delivered = <<>>
  /\ used = 0
  /\ lost = FALSE
  /\ raced = FALSE

-----------------------------------------------------------------------------
(* DecodeChunkInternal *)

\* The packets of a tag: one for each unit of H.264 video, two for its parameter sets,
\* none for sound and data.
Packets(tag, i) ==
  [k \in 1 .. CASE tag.kind = "video" -> tag.nalus
                [] tag.kind = "config" -> 2
                [] OTHER -> 0 |-> <<i, k>>]

\* Tags of other codecs and types: the reader is not moved to the end of the tag.
Misread(tag) == tag.kind = "other"

TagFits(buffer, pos) ==
  /\ Len(buffer) - pos >= TagHead
  /\ Len(buffer) - pos - TagHead >= file[buffer[pos + 1].tag].size

\* The tags that are there in whole, and the bytes they take.
Decode(buffer) ==
  LET from[pos \in 0 .. Len(buffer)] ==
        IF ~TagFits(buffer, pos) THEN [size |-> pos, packets |-> <<>>, lost |-> FALSE]
        ELSE LET i == buffer[pos + 1].tag
                 end == pos + TagHead + file[i].size
                 more == IF Misread(file[i]) \/ end > Len(buffer)
                         THEN [size |-> end, packets |-> <<>>, lost |-> TRUE]
                         ELSE from[end]
             IN  [more EXCEPT !.packets = Packets(file[i], i) \o @]
  IN  from[0]

-----------------------------------------------------------------------------
(* The tasks *)

Busy(w) == worker[w].at = "turn"

Take(w) ==
  /\ worker[w].at = "idle"
  /\ tasks # <<>>
  /\ worker' = [worker EXCEPT ![w] = [Idle EXCEPT !.at = Head(tasks)]]
  /\ tasks' = Tail(tasks)
  /\ UNCHANGED <<file, filePos, bufferVars, delivered, used, lost, raced>>

Least(m, n) == IF m < n THEN m ELSE n

\* fread: as much as there is, up to n bytes.
Fread(n) == SubSeq(Bytes(file), filePos + 1, Least(filePos + n, Len(Bytes(file))))

\* Whatever reads or decodes next to another task finds the buffers in no known state.
Touches(w) == raced' = (raced \/ \E v \in Workers \ {w} : Busy(v))

\* ReadHeader and DecodeHead, of a file that is at least as long as its head. posts is
\* how often ReadFile is posted at the end: by DocodeChunk, and by ReadHeader.
ReadHeader(w) ==
  /\ worker[w].at = "ReadHeader"
  /\ tempBuffer' = Fread(HeadPiece)
  /\ filePos' = filePos + Len(tempBuffer')
  /\ worker' = [worker EXCEPT ![w] = [at |-> "turn", offset |-> FileHead, posts |-> 2]]
  /\ Touches(w)
  /\ UNCHANGED <<file, dataBuffer, tasks, delivered, used, lost>>

\* Mutant of IsWhole: the end of the file is not noticed.
IsWholeAlways(piece) == TRUE

IsWhole(piece) == Len(piece) = Piece

\* ReadFile: a piece that is not whole is the end, and is dropped.
ReadFile(w) ==
  /\ worker[w].at = "ReadFile"
  /\ tempBuffer' = Fread(Piece)
  /\ filePos' = filePos + Len(tempBuffer')
  /\ worker' = [worker EXCEPT ![w] =
                  IF IsWhole(tempBuffer') THEN [at |-> "turn", offset |-> 0, posts |-> 1]
                  ELSE Idle]
  /\ Touches(w)
  /\ UNCHANGED <<file, dataBuffer, tasks, delivered, used, lost>>

\* Mutant of Undecoded: a tag that is not complete is forgotten.
UndecodedDropped(input, size) == <<>>

Undecoded(input, size) == SubSeq(input, size + 1, Len(input))

\* A turn of DocodeChunk: the rest of the piece, behind what the buffer holds, as far
\* as the buffer has room for it.
Turn(w) ==
  LET offset == worker[w].offset
      fill == IF dataBuffer = <<>> THEN Len(tempBuffer) - offset
              ELSE Least(MaxBuffer - Len(dataBuffer), Len(tempBuffer) - offset)
      input == dataBuffer \o SubSeq(tempBuffer, offset + 1, offset + fill)
      decoded == Decode(input)
  IN  /\ Busy(w)
      /\ offset < Len(tempBuffer)
      /\ delivered' = delivered \o decoded.packets
      /\ lost' = (lost \/ decoded.lost)
      /\ dataBuffer' = Undecoded(input, decoded.size)
      /\ worker' = [worker EXCEPT ![w].offset = offset + fill]
      /\ used' = used + fill
      /\ Touches(w)
      /\ UNCHANGED <<file, filePos, tempBuffer, tasks>>

\* ReadNextChunk.
Post(w) ==
  /\ Busy(w)
  /\ worker[w].offset = Len(tempBuffer)
  /\ tasks' = tasks \o [i \in 1 .. worker[w].posts |-> "ReadFile"]
  /\ worker' = [worker EXCEPT ![w] = Idle]
  /\ UNCHANGED <<file, filePos, bufferVars, delivered, used, lost, raced>>

Step(w) == Take(w) \/ ReadHeader(w) \/ ReadFile(w) \/ Turn(w) \/ Post(w)

\* What follows a race, or a reader that takes bytes of a body for a head, is not
\* followed further.
Next == ~raced /\ ~lost /\ \E w \in Workers : Step(w)

\* The threads of the pool run.
Spec == Init /\ [][Next]_vars /\ \A w \in Workers : WF_vars(~raced /\ ~lost /\ Step(w))

-----------------------------------------------------------------------------
(* Properties *)

\* The length of the file up to the end of a tag.
End(i) == FileHead + Len(FlattenSeq([k \in 1 .. i |-> TagBytes(file, k)]))

\* The packets of the tags that end within the first n bytes.
PacketsIn(n) == FlattenSeq([i \in 1 .. Cardinality({j \in DOMAIN file : End(j) <= n}) |->
                              Packets(file[i], i)])

\* However the pieces cut the tags, and whichever of the two chains of tasks comes
\* next, as long as their tasks do not run at once: every packet of the bytes decoded so
\* far has been delivered, once and in order.
DeliveredExact ==
  ~raced /\ ~lost => delivered = PacketsIn(FileHead + used)

\* Reading comes to its end, unless a tag is longer than the buffer: DocodeChunk, with
\* the buffer full, then goes round for ever.
ReadingEnds ==
  (\A i \in DOMAIN file : TagHead + file[i].size <= MaxBuffer)
     => <>(raced \/ lost \/ (tasks = <<>> /\ \A w \in Workers : worker[w] = Idle))
=============================================================================
