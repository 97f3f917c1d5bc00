SPECIFICATION Spec
CONSTANTS
  Key = {k1, k2}
  Pointer <- OnePointer
  HostChar <- MCHostChar
  Hosts <- ShortHosts
  POINTER_LEN = 1
  TAG_LEN = 1
  PARITY_SHARDS = 1
  TOTAL_SHARDS = 3
  SYMBOLS_PER_SHARD = 2
  MaxMarks = 2
  MaxLosses = 1
SYMMETRY KeySymmetry
INVARIANTS
  VerifiedWasEmbedded
  SecondMarkIsRefused
