CONSTANTS
  t1 = t1
  t2 = t2
  t3 = t3
  Threads <- Two
  NoThread = NoThread
  Kinds <- Normal
  MaxCount = 2
  Ops <- LockOnly
  TimedKinds <- Normal
SPECIFICATION Spec
INVARIANTS
  OwnershipRecorded
