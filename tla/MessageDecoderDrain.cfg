SPECIFICATION DrainSpec
CONSTANTS
  HEADER_SIZE = 1
  WORD_SIZE = 1
  max_message_size = 3
  COMPACT_THRESHOLD = 1
  StreamLen = 5
  Streams <- DrainStreams
  LaterStreams <- ClientLaterStreams
  Chunks <- SmallChunks
  RawReads <- NoRawReads
  max_rows = 5
  max_continuation_frames = None
  max_total_rows = 3
  HANDSHAKE_SIZE = 1
  SUPPORTED_VERSIONS <- Versions
  ClientVersions <- OneVersion
  None = None
PROPERTY
  DrainEnds
