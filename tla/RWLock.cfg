CONSTANTS
  t1 = t1
  t2 = t2
  t3 = t3
  Threads <- Three
  NoThread = NoThread
  IntMax = 4
  RebaseMayTimeOut = FALSE
SPECIFICATION FairSpec
INVARIANTS
  Counted
  Excluded
PROPERTIES
  SharedSpec
  WriterWaitEnds
