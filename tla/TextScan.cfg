SPECIFICATION Spec
CONSTANTS
  WORD_SIZE = 3
  MAX_TEXT_VALUE_SIZE = 20
  MAX_BLOB_SIZE = 4
  TEXT_SHORT_PROBE = 2
  TEXT_ONE_SHOT_MAX = 4
  TEXT_SCAN_CHUNK = 2
  IsoTexts <- NoIsoTexts
  Inputs <- MCInputs
  Caps <- MCCaps
PROPERTY
  TextMatchesReference
