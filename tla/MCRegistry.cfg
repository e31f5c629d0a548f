SPECIFICATION Spec
CONSTANTS
  UINT8_MAX = 255
  UINT31_MAX = 32767
  UINT32_MAX = 65535
  INT64_MAX = 1073741823
  KEY_DATA_LEN = 33
  CHAIN_CODE_LEN = 32
  PRIVATE_KEY_LEN = 32
  COMPRESSED_KEY_LEN = 33
  UNCOMPRESSED_KEY_LEN = 65
  HASH_LEN = 20
  MAX_PAYLOAD = 64
  SECONDS_PER_DAY = 86400
  F64_EXACT = 1048576
  DATE_MIN <- MCDateMin
  DATE_MAX = 1036799
  Made <- MCMade
  Setters <- MCSetters
  MaxSets = 2
  MaxEdited = 1
  FieldKeys <- MCFieldKeys
  Foreign <- MCForeign
  FieldTerms <- MCFieldTerms
INVARIANTS
  RoundTrips
  ReadsOnlyBuildable
  LosesNothing
  ScriptFaithful
  DoorsAgree
CHECK_DEADLOCK FALSE
