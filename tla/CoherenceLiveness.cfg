SPECIFICATION FairSpec
CONSTANTS
  t1 = t1
  t2 = t2
  t3 = t3
  A = A
  B = B
  C = C
  Nodes = {A, B}
  Threads = {t1, t2}
  NodeOf <- OneEach
  ParentOf <- NoChildren
  Lines = {x, y}
  Atomics = {a}
  Mutexes = {}
  SharedMutexes = {}
  TableSize = 2
  SearchIters = 1
  LogCapacity = 1
  LOG_MAX_BATCH = 2
  Builds <- HelpInOrder
  ReleaseOps = {"store"}
  ReadersRelease = FALSE
  MaxOps <- ThreeEach
INVARIANTS NoStaleRead ClockIsLastRelease
PROPERTIES AcquireEnds ReleaseEnds
CHECK_DEADLOCK FALSE
