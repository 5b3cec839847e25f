CONSTANTS
  E820MAX = 3
  PAGE_SIZE = 4
  max_low_pfn = 33
  MAXMEM_PFN = 40
  HIGH_MEMORY = 12
  KernelEnd = 18
  SMP_CACHE_BYTES = 4
  LongSize = 2
  PageStructSize = 1
  ResourceSize = 5
  PTRS_PER_PTE = 12
  FixmapTables = 1
  AddressLimit = 200
  E820Maps <- MCLargeMaps
  MAX_ORDER = 3
  BlockSize <- MCBlockSizes
SPECIFICATION Spec
INVARIANT OnlyOwnedKept
CHECK_DEADLOCK FALSE
