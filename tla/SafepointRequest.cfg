CONSTANTS
  Threads = {main, t1, t2}
  Main = main
  Pollers = {t1, t2}
  Collector = collector
  Null = null
SPECIFICATION Spec
INVARIANT
  RequestNotForgotten
CHECK_DEADLOCK FALSE
