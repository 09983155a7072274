CONSTANTS
  a = a
  b = b
  c = c
  h1 = h1
  h2 = h2
  h3 = h3
  b1 = b1
  b2 = b2
  b3 = b3
  Null = Null
  Throw = Throw
  Threads <- Two
  Keys <- MCKeys
  Plain = {"p"}
  Iterations = 1
  Does <- MCDoes
  Handlers = {h1, h2, h3}
  Exits = {h2, h3}
  First = a
  CPUs = {1, 2}
  Priorities <- MCPriorities
  Idle <- MCIdle
  Lowest <- MCLowest
  Normal = 0
  Highest = 1
  TimeCritical = 3
  MaxDirect = 1
  AffinityFails = FALSE
  Users <- Two
  Targets = {c, h1}
  Buffers = {b1, b2, b3}
  MaxCopied = 1
  Main = a
  Structs = {h1, h2, h3}
  MaxAttached = 2
  NsPerTick = 2
  TicksPerMs = 2
  MsPerSec = 3
  DwordValues = 8
  IntValues = 8
  Offset = 5
  Horizon = 40
  Lag = 3
  MaxSec = 4
SPECIFICATION FairSpec
INVARIANTS
  ChainsSound
  SchedulingKept
  HandlersRun
  NamesOwned
  TimesAccurate
  ProcessSound
PROPERTIES
  DataEnds
  AttributesTell
CHECK_DEADLOCK FALSE
