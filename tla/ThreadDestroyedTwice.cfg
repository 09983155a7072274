CONSTANTS
  Main = Main
  a = a
  b = b
  Threads <- MCThreads
  Structs = {s1, s2, s3}
  NoThread = NoThread
  Null = Null
  End = End
  Calls <- MCCalls
  MaxReuse = 1
  DetachMeetsExit = TRUE
  CancelMeetsStart = FALSE
  AsyncMeetsCall = FALSE
  AffinityFails = FALSE
SPECIFICATION Spec
INVARIANT FreeListSound
CHECK_DEADLOCK FALSE
