SPECIFICATION Spec
CONSTANTS
  MAX_USIZE = 7
  MAX_I32 = 3
  MaxWindows = 2
  MaxPushes = 1
  Garbage = Garbage
  Values <- MCValues
  Fingerprints <- MCFingerprints
  CallerAlgs <- MCCallerAlgs
  CallerWindows <- MCCallerWindows
  Foreign <- MCForeign
INVARIANTS
  OffsetsFaithful
  AllOrNothing
  OwnIsAccepted
