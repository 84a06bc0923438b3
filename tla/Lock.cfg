SPECIFICATION SharedFairSpec
CONSTANTS
  Threads = {t1, t2, t3}
  Pool = {n1, n2, n3}
INVARIANTS SharedTypeOK MutualExclusion NodesAlive WriterAlone
PROPERTIES Fifo LockObtained
