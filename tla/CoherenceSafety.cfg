SPECIFICATION Spec
CONSTANTS
  t1 = t1
  t2 = t2
  t3 = t3
  A = A
  B = B
  C = C
  Nodes = {A, B}
  Threads = {t1, t2, t3}
  NodeOf <- TwoShare
  ParentOf <- ThirdIsChild
  Lines = {x}
  Atomics = {a}
  Mutexes = {m}
  SharedMutexes = {}
  TableSize = 1
  SearchIters = 1
  LogCapacity = 2
  LOG_MAX_BATCH = 1
  Builds <- HelpBoth
  ReleaseOps = {"fetch_add_rel", "fetch_add"}
  ReadersRelease = FALSE
  MaxOps <- ShareOps
INVARIANTS TypeOK NoStaleRead
PROPERTIES MemoryForward ClockForward
CHECK_DEADLOCK FALSE
