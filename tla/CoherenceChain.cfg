SPECIFICATION Spec
CONSTANTS
  t1 = t1
  t2 = t2
  t3 = t3
  A = A
  B = B
  C = C
  Nodes = {A, B, C}
  Threads = {t1, t2, t3}
  NodeOf <- ThreeNodes
  ParentOf <- NoChildren
  Lines = {x}
  Atomics = {}
  Mutexes = {}
  SharedMutexes = {s}
  TableSize = 1
  SearchIters = 1
  LogCapacity = 2
  LOG_MAX_BATCH = 2
  Builds <- AgentOnly
  ReleaseOps = {"store"}
  ReadersRelease = FALSE
  MaxOps <- ChainOps
INVARIANTS NoStaleRead ClockNamesRelease
CHECK_DEADLOCK FALSE
