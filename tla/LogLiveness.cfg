SPECIFICATION FairSpec
CONSTANTS
  NODE_COUNT = 2
  node_id = 0
  LOG_COUNT = 2
  IdxMod = 64
  Producers = {p1, p2}
  Pinned = {1}
  MaxOps = 2
PROPERTIES LogProgress FairBroadcast
CHECK_DEADLOCK FALSE
