SPECIFICATION MCSpec
CONSTANTS
  MaxPoints = 4
  MaxRoots = 4
  Offsets = {0, 8, 16}
  FrameSize = 40
  MaxBytes = 6
  SomeBytes = {0, 1, 64, 127, 128, 129, 136, 192, 255}
  Encodings = {1, 3, 9}
  TableEncodings = {0, 255}
  Starts = {0, 150}
  Sizes = {60, 150}
  Chains <- MCChains
  PcOffsets = {0, 59, 60, 149, 150}
INVARIANTS
  FoundSafepointIsRight
  OddRootsFound
  UnsignedExact
  SignedExact
  LookupAgrees
  SitesEndWithTable
CHECK_DEADLOCK FALSE
