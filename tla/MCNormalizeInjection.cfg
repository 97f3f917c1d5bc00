SPECIFICATION Spec
CONSTANTS
  MaxLength = 3
  MaxCore = 4
  Edits = {"any injection"}
  Texts <- MCTexts
  Alnum <- MCAlnum
  ZeroWidth <- MCZeroWidth
  Space <- MCSpace
  Punct <- MCPunct
  Marks <- MCMarks
  Composite <- MCComposite
  Lower <- MCLower
  Upper <- MCUpper
INVARIANT SurvivesInjection
CHECK_DEADLOCK FALSE
