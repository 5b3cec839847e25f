CONSTANTS
  E820MAX = 6
  LowEnd = 17
  HIGH_MEMORY = 24
  ULLMax = 256
  LOWMEMSIZE = 16
  Maps <- MCMaps
  LowerSizes = {0, 17}
  UpperSizes = {166}
  PAGE_SIZE = 8
  max_low_pfn = 23
  MAXMEM_PFN = 23
  KernelEnd = 35
  SMP_CACHE_BYTES = 4
  LongSize = 4
  PageStructSize = 1
  ResourceSize = 5
  PTRS_PER_PTE = 24
  FixmapTables = 1
  AddressLimit = 200
  E820Maps <- MCTables
  MAX_ORDER = 3
  BlockSize <- MCBlockSizes
SPECIFICATION BootMemorySpec
INVARIANTS NoRamInHole RamKnown KeepsDisjoint PoolNeverOwned RestReleased MemoryAccounted BitmapsFit
PROPERTIES BootSpec BootFinishes
CHECK_DEADLOCK FALSE
