CONSTANTS
  t1 = t1
  t2 = t2
  t3 = t3
  k = k
  Starved = {e1, e2}
  Users = {t1, t2, t3}
  Kinds = {"normal", "errorcheck", "recursive"}
  MaxCount = 2
  Ops = {"lock", "trylock", "destroy"}
  TimedKinds = {"errorcheck", "recursive"}
  NoThread = NoThread
  Threads <- Three
  Keepers <- Keeper
  Proxy = Proxy
  NULL = NULL
  EventExhaustion = FALSE
SPECIFICATION ScenesSpec
INVARIANTS
  TypeOK
  MutualExclusion
  NodesLive
  EventsClosed
  RobustSound
PROPERTIES
  FifoSpec
  TakeoverSpec
CONSTRAINT MaxQueue
SYMMETRY Symmetry
