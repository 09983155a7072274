CONSTANTS
  t1 = t1
  t2 = t2
  t3 = t3
  t4 = t4
  Threads <- Two
  Initial = 0
  MaxValue = 1
  MaxPost = 1
  Ops <- Untimed
  Cancels = "all"
SPECIFICATION Spec
INVARIANTS
  Accounting
