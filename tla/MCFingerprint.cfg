SPECIFICATION SpecCompute
CONSTANTS
  MaxLength = 9
  WINDOW_CHARS = 4
  WINDOW_STEP = 2
  FP_BITS = 3
  GRAM = 2
  Lengths <- MCLengths
  Texts <- MCTexts
  Digest <- MCDigest
INVARIANTS
  EveryExcerptCovered
  NoStubs
  HashesReproducible
PROPERTY Terminates
CHECK_DEADLOCK FALSE
