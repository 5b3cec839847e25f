CONSTANTS
  PTRS_PER_PTE = 8
  PTRS_PER_PGD = 8
  USER_PTRS_PER_PGD = 2
  Text <- MCText
  swapper_pg_dir = 2
  pg0 = 3
  pg1 = 4
  bitmap = 5
  Machines <- MCMachines
  max_dma = 12
  zone_balance_ratio <- MCRatio
  zone_balance_min <- MCMin
  zone_balance_max <- MCMax
  NR_GFPINDEX = 4
  GFP_DMA = 2
  GFP_HIGHMEM = 0
SPECIFICATION Spec
CHECK_DEADLOCK FALSE
INVARIANTS KernelReachable MappingExact ZonesRight
