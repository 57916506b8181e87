SPECIFICATION Spec
CONSTANTS
  UINT16_MAX = 3
  INT32_MAX <- MCINT32
  LP_HDR_NUMELE_UNKNOWN = 4
  optimization_level <- MCLevels
  SIZE_SAFETY_LIMIT = 8192
  MIN_COMPRESS_BYTES = 48
  Noise <- MCNoise
  ByteOrder <- MCOrder
  zset_max_ziplist_entries = 2
  zset_max_ziplist_value = 64
  set_max_intset_entries = 3
  hash_max_ziplist_entries = 2
  hash_max_ziplist_value = 64
  MaxLevel = 2
  Kinds <- MCKinds
  Scores <- MCScores
  Ranges <- MCRanges
  LexRanges <- MCLexRanges
  RaxKeys <- MCRaxKeys
  orig_commands <- MCCommandTable
  ACLCommandCategories <- MCCategories
  acl_pubsub_default = FALSE
  ACL_LOG_GROUPING_MAX_TIME_DELTA = 1
  toscan = 2
  acllog_max_len = 3
  sds_limits <- MCSdsLimits
  SDS_MAX_PREALLOC = 4
  ZIPMAP_BIGLEN = 3
  ZIPMAP_VALUE_MAX_FREE = 4
  LZF_BYTE = 8
  MAX_LIT = 2
  LZF_UNROLLED = 4
  pqsort_small = 3
  pqsort_large = 4
  pqsort_parts = 3
  EVPOOL_SIZE = 3
  EVPOOL_CACHED_SDS_SIZE = 4
  LRU_CLOCK_MAX = 4
  LFU_TIME_MAX = 4
  LFU_COUNTER_MAX = 5
  LATENCY_TS_LEN = 2
  Operate <- structureOps
  Answers <- structureAnswers
INVARIANT StandsForItsValue
CHECK_DEADLOCK FALSE
