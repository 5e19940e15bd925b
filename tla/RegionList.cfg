CONSTANTS
  Threads = {main, t1}
  Main = main
  Regions = {r1, r2, r3, r4}
  Null = null
  RegionSize = 3
  MaxAlloc = 1
  Header = 1
  Sizes = {1, 2}
  Limit = 2
SPECIFICATION FairSpec
INVARIANTS
  TypeOK
  ListIsChain
  SingleOwner
  StealIsCurrent
  AbortNeedsContention
  DestroyFreesTheRest
PROPERTIES
  PushEnds
  ImplementsPool
CHECK_DEADLOCK FALSE
