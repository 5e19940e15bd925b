SPECIFICATION Spec
INVARIANTS
  CrashWindows
  HandlerReady
PROPERTIES
  ProgramEndsProcess
  DestroyEnds
CHECK_DEADLOCK FALSE
