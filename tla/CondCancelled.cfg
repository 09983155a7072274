CONSTANTS
  t1 = t1
  t2 = t2
  t3 = t3
  t4 = t4
  Threads <- Four
  NoThread = NoThread
  GoneLimit = 3
SPECIFICATION CancelSpec
INVARIANTS
  GateKept
