SPECIFICATION FairSpec
CONSTANTS
  GROUP_SIZE = 4
  TABLE_SIZE = 4
  SEARCH_ITERS = 2
  GROUP_LEN_MIN = 2
  GROUP_LEN_MAX = 7
  StoreLines = {5, 9, 13, 21, 25, 29}
  Ranges <- MixedRanges
INVARIANTS TypeOK ReleasePublishesAll
PROPERTY RangeEnds
