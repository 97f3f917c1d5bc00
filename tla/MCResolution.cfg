SPECIFICATION Spec
SYMMETRY Places
CONSTANTS
  MAX_USIZE = 7
  MAX_I32 = 3
  FP_BITS = 5
  NUM_PERM = 4
  BANDS = 2
  ROWS = 2
  SHINGLE_K = 2
  MERSENNE = 13
  BYTE = 4
  MATCH_SURFACE = 1
  MATCH_STRUCTURE = 1
  MaxPublished = 2
  Signers = {"issuer", "stranger"}
  TRUSTED = "issuer"
  m1 = m1
  m2 = m2
  Repos <- MCRepos
  Issued <- MCIssued
  Docs <- MCDocs
  Canonical <- MCCanonical
  Surface <- MCSurface
  Structure <- MCStructure
  Words <- MCWords
  Pointers <- MCPointers
  Value <- MCValue
INVARIANTS
  AnsweredWasSigned
  BoundIsReproduced
  SameContentIsBound
  ExcerptIsRecognized
