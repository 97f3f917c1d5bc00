SPECIFICATION Spec
CONSTANTS
  Methods = {"tag", "zwbin", "zwc", "simhash"}
  TOTAL_SHARDS = 3
  SYMBOLS_PER_SHARD = 2
  PARITY_SHARDS = 1
  MaxHops = 2
  Hosts <- MCHosts
  Payloads <- MCPayloads
INVARIANTS
  WrongOnlyByWholeBytes
  TruncatedIsPrefix
  CodedCountsShards
  LostStaysLost
  CategoricalTable
CHECK_DEADLOCK FALSE
