SPECIFICATION SubscribeSpec
CONSTANTS
  NODE_COUNT = 2
  node_id = 0
  LOG_COUNT = 2
  IdxMod = 64
  Producers = {p1}
  Pinned = {}
  MaxOps = 5
INVARIANT TailBehindNewHead
CHECK_DEADLOCK FALSE
