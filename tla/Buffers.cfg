\* Rings of 1 to 3 bytes that grow to at most 6, chunks of up to 3 bytes: every wrap
\* position, growth by doubling (from a full, a wrapped and an empty ring) and growth
\* to the exact size occur. Messages of up to four bytes, filled in every way, with
\* every content of the memory before.
SPECIFICATION BuffersSpec
CONSTANTS
  a = a
  sep = sep
  junk = junk
  Byte = {a, sep}
  Separator = sep
  Junk = junk
  Capacities = {1, 2, 3}
  MaxCapacity = 6
  MaxChunk = 3
  MaxMessage = 4
INVARIANTS
  PositionsAgree
  PeekIsExact
PROPERTIES
  ImplementsByteQueue
  MessageImplementsByteQueue
