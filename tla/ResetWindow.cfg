SPECIFICATION ResetWindowSpec
CONSTANTS
  HEADER_SIZE = 2
  WORD_SIZE = 2
  max_message_size = 6
  COMPACT_THRESHOLD = 2
  StreamLen = 16
  Streams <- ShortStreams
  LaterStreams <- MCLaterStreams
  Chunks <- MCChunks
  RawReads <- MCRawReads
INVARIANT
  Coherent
