CONSTANTS
  Main = Main
  a = a
  b = b
  Threads <- MCThreads
  Structs = {s1, s2, s3}
  NoThread = NoThread
  Null = Null
  End = End
  Calls <- MCCalls
  MaxReuse = 1
  DetachMeetsExit = FALSE
  CancelMeetsStart = FALSE
  AsyncMeetsCall = FALSE
  AffinityFails = FALSE
SPECIFICATION FairSpec
INVARIANTS
  StructuresSound
  JoinSound
  CancelSound
PROPERTIES
  EndsReached
CHECK_DEADLOCK FALSE
