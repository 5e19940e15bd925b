CONSTANTS
  Begins <- ThreeBegins
  MaxDepth = 3
  MaxNest = 2
SPECIFICATION FairSpec
INVARIANTS
  PhasesAgree
  AbortOutsideAllBegins
PROPERTIES
  RaiseEnds
  ImplementsRescue
CHECK_DEADLOCK FALSE
