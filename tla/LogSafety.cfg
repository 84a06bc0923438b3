SPECIFICATION Spec
CONSTANTS
  NODE_COUNT = 3
  node_id = 0
  LOG_COUNT = 2
  IdxMod = 64
  Producers = {p1, p2}
  Pinned = {1}
  MaxOps = 2
SYMMETRY Symmetry
INVARIANTS TypeOK ReadsPublished OneOwner NoBufferLost NoLap
PROPERTY Broadcast
CHECK_DEADLOCK FALSE
