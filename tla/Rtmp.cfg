\* Two sessions that may publish and play one stream or play themselves; a video
\* channel that the replies use as well. And a decoder with two channels, chunks of 2
\* bytes until another size is announced.
SPECIFICATION RtmpSpec
CONSTANTS
  Sessions = {s1, s2}
  Apps = {"live"}
  NoApp = ""
  ChunkSize = 2
  VideoSizes = {2, 3}
  VideoChannel = 4
  MaxCommands = 5
  MaxPackets = 3
  Channels = {2, 4}
  ChunkSizes = {1, 3}
  DefaultChunk = 2
  Shake = 2
  Sizes = {0, 3}
  Deltas = {1, 2}
  MaxMessages = 3
  MaxNet = 2
SYMMETRY SessionSymmetry
INVARIANTS
  WireIsMessages
  PlayIsIntroduced
  StartedIsPlayable
  DeliveredExact
  NothingHeldBack
\* The clients fall silent, or the program has used a null source.
CHECK_DEADLOCK FALSE
