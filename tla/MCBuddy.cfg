CONSTANTS
  MAX_ORDER = 3
  BlockSize <- MCBlockSizes
  ZoneOffset = 4
  ZoneSize = 7
  max_mapnr = 11
  FreeOrders = {0, 1, 2}
  MaxStalePuts = 1
SPECIFICATION Spec
INVARIANTS TypeOK NoBug BitTellsPairState BlocksDisjoint FreePagesExact LargestBlocks
PROPERTY PoolSpec
CHECK_DEADLOCK FALSE
