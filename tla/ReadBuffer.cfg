SPECIFICATION Spec
CONSTANTS
  HEADER_SIZE = 2
  WORD_SIZE = 2
  max_message_size = 6
  COMPACT_THRESHOLD = 2
  StreamLen = 14
  Streams <- MCStreams
  LaterStreams <- MCLaterStreams
  Chunks <- MCChunks
  RawReads <- MCRawReads
INVARIANTS
  TypeOK
  Coherent
  HandedInOrder
  SkipIsArmed
  MemoryBound
  NoWedge
PROPERTIES
  DeadUntilReset
  ImplementsFrameStream
