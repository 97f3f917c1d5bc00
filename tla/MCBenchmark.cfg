SPECIFICATION Spec
CONSTANTS
  MaxLength = 3
  MaxCore = 4
  MaxAttacks = 2
  NUM_PERM = 4
  BANDS = 2
  ROWS = 2
  SHINGLE_K = 2
  MERSENNE = 16381
  Steps = {1, 2}
  Alnum <- MCAlnum
  Space <- MCSpace
  ZeroWidth <- MCZeroWidth
  Lower <- MCLower
  Upper <- MCUpper
  PunctuationClass <- MCPunctuationClass
  FUNCTION_WORDS <- MCFunctionWords
  Synonyms <- MCSynonyms
  QZX <- MCQzx
  Texts <- MCTexts
  Value <- MCValue
INVARIANTS
  SentencesPartition
  AbsorbsReformatting
  ReadsStructureOnly
  OverlapEstimated
CHECK_DEADLOCK FALSE
