SPECIFICATION Spec
CONSTANTS
  WORD_SIZE = 3
  MAX_TEXT_VALUE_SIZE = 5
  MAX_BLOB_SIZE = 4
  TEXT_SHORT_PROBE = 1
  TEXT_ONE_SHOT_MAX = 2
  TEXT_SCAN_CHUNK = 2
  IsoTexts <- MCIsoTexts
  MAX_PARAM_COUNT = 4
  V0_MAX_PARAMS = 2
  UINT32_SIZE = 2
  MAX_COLUMN_COUNT = 7
  MAX_COLUMN_NAME_SIZE = 4
  MAX_FAILURE_MESSAGE_SIZE = 7
  MAX_FILE_COUNT = 2
  MAX_FILENAME_SIZE = 4
  MAX_FILE_CONTENT_SIZE = 6
  MAX_NODE_COUNT = 2
  MAX_ADDRESS_SIZE = 4
  MAX_DUMP_FILENAME_SIZE = 3
  MAX_TAIL_OFFSET = 6
  MAX_ROWS_AFFECTED = 8
  HEADER_SIZE = 5
  max_message_size = 38
  PROTOCOL_VERSION = 1
  PROTOCOL_VERSION_LEGACY = 131072
  max_rows = 4
  unknown_role_policy = "reject"
  None = None
  Messages <- MCMessages
INVARIANTS
  RoundTrip
  Reencodes
  TornRefused
  CutsDetected
  Stable
  HeaderObeyed
