SPECIFICATION Spec
CONSTANTS
  GROUP_SIZE = 4
  TABLE_SIZE = 2
  SEARCH_ITERS = 2
  GROUP_LEN_MIN = 2
  GROUP_LEN_MAX = 7
  StoreLines = {5}
  Ranges <- PartialRange
INVARIANT AllPublished
