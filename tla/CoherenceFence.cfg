SPECIFICATION Spec
CONSTANTS
  t1 = t1
  t2 = t2
  t3 = t3
  A = A
  B = B
  C = C
  Nodes = {A, B}
  Threads = {t1, t2}
  NodeOf <- OneEach
  ParentOf <- NoChildren
  Lines = {x}
  Atomics = {a}
  Mutexes = {}
  SharedMutexes = {}
  TableSize = 1
  SearchIters = 1
  LogCapacity = 2
  LOG_MAX_BATCH = 2
  Builds <- Default
  ReleaseOps = {"store"}
  ReadersRelease = FALSE
  MaxOps <- FourEach
INVARIANT NoStaleRead
CHECK_DEADLOCK FALSE
