CONSTANTS
  t1 = t1
  t2 = t2
  t3 = t3
  Threads <- Three
  NoThread = NoThread
  Kinds <- Normal
  MaxCount = 2
  Ops <- LockOnly
  TimedKinds <- None
SPECIFICATION FairSpec
PROPERTIES
  WaitersToldOfLoss
