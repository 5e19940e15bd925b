CONSTANTS
  Threads = {main, t1, t2}
  Main = main
  Pollers = {t1, t2}
  Collector = collector
  Null = null
SPECIFICATION FairSpec
INVARIANTS
  TypeOK
  BarrierPairsCollectorWithTarget
  ConvergedThreadsScanned
PROPERTIES
  MarkFlipsOnlyBetweenRequests
  MutatorReleased
CHECK_DEADLOCK FALSE
