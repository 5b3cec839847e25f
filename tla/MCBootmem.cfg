CONSTANTS
  PAGE_SIZE = 4
  node_low_pfn = 6
  FreeCalls <- MCFreeCalls
  ReserveCalls <- MCReserveCalls
  AllocCalls <- MCAllocCalls
  MaxAllocs = 6
SPECIFICATION Spec
INVARIANTS AllocsDisjoint AllocsInFreeRam MapExact TailUnused
PROPERTY FailsOnlyWhenFull
CHECK_DEADLOCK FALSE
