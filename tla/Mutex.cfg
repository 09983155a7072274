CONSTANTS
  t1 = t1
  t2 = t2
  t3 = t3
  Threads <- Three
  NoThread = NoThread
  Kinds <- EveryKind
  MaxCount = 3
SPECIFICATION MutexesSpec
INVARIANTS
  Ownership
  NoLostWakeup
PROPERTIES
  OwnedSpec
  SleepersGoOn
