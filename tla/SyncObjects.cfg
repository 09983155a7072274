CONSTANTS
  t1 = t1
  t2 = t2
  t3 = t3
  t4 = t4
  c1 = c1
  c2 = c2
  c3 = c3
  k = k
  NoThread = NoThread
  Proxy = Proxy
  Null = Null
  Threads <- Four
  Initial = 1
  MaxValue = 3
  MaxPost = 3
  Ops <- Legal
  Cancels = "timed"
  Users <- Three
  Walkers <- Two
  Conds <- Vars
  Heights = {1, 2, 3}
  DestroyEarly = FALSE
SPECIFICATION ObjectsSpec
INVARIANTS
  PermitsKept
  BarrierSound
  SpinSound
  OnceSound
  ListSound
PROPERTIES
  PermitSpec
  QueueLive
  WaitsEnd
