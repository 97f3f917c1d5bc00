SPECIFICATION Spec
CONSTANTS
  Key = {k1}
  Pointer <- TwoPointers
  HostChar <- MCHostChar
  Hosts <- FourWordHosts
  POINTER_LEN = 1
  TAG_LEN = 1
  PARITY_SHARDS = 2
  TOTAL_SHARDS = 4
  SYMBOLS_PER_SHARD = 1
  MaxMarks = 1
  MaxLosses = 2
INVARIANTS
  VerifiedWasEmbedded
  SurvivesPartialLoss
