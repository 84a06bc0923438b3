SPECIFICATION FairSpec
CONSTANTS
  S = 2
  Buffers = {b1, b2}
  Consumers = {c1, c2, c3}
  MaxPos = 5
INVARIANTS TypeOK EmptyMeansEmpty NoneLost EnqueuerAlone
PROPERTIES Fifo EnqueueEnds
