SPECIFICATION Spec
CONSTANTS
  Key = {k1}
  Pointer <- OnePointer
  HostChar <- MCHostChar
  Hosts <- JoinedHosts
  POINTER_LEN = 1
  TAG_LEN = 1
  PARITY_SHARDS = 1
  TOTAL_SHARDS = 3
  SYMBOLS_PER_SHARD = 2
  MaxMarks = 1
  MaxLosses = 0
INVARIANT UntouchedIsReadBack
