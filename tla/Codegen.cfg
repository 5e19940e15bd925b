SPECIFICATION Spec
CONSTANTS
  Locals = {x}
  MaxBlocks = 10
  MaxMethods = 1
  MaxDepth = 3
INVARIANTS
  BrokenExactlyBy
  CallsUnwindToTheirBegin
  LoopsPoll
CHECK_DEADLOCK FALSE
