SPECIFICATION FairSpec
CONSTANTS
  MaxLen = 5
  TOTAL_SHARDS = 2
  SYMBOLS_PER_SHARD = 2
  Char <- MCChar
  Texts <- MCTexts
INVARIANTS
  TypeOK
  GapsEnumerateWords
  StableUnlessSplit
  Permutation
  LeftoversBelongAtEnd
  ReturnsWoven
  VisibleTextKept
  RunsAreComplete
  RanksAgreeWithGaps
  EveryRunReadBack
PROPERTIES
  PassedIsFinal
  EveryCallReturns
  ImplementsCalls
CHECK_DEADLOCK FALSE
