SPECIFICATION Spec
CONSTANTS
  MaxLength = 3
  MaxCore = 4
  Edits = {"spacing", "punctuation", "injection", "decomposition", "case", "canonical", "letter added", "letter replaced"}
  Texts <- MCTexts
  Alnum <- MCAlnum
  ZeroWidth <- MCZeroWidth
  Space <- MCSpace
  Punct <- MCPunct
  Marks <- MCMarks
  Composite <- MCComposite
  Lower <- MCLower
  Upper <- MCUpper
INVARIANTS
  OneBlankBetweenWords
  SurvivesReformatting
  NoticesWords
CHECK_DEADLOCK FALSE
