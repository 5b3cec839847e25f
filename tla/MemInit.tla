------------------------------ MODULE MemInit -------------------------------
(***************************************************************************)
(* How memory changes hands at boot: setup_arch feeds the boot allocator   *)
(* from the BIOS memory map and reserves what is occupied, paging_init and *)
(* the resource code allocate from it, and mem_init releases what is left, *)
(* and the allocator's own bitmap, to the buddy system.                    *)
(*                                                                         *)
(* One thread runs all this with interrupts off.  `at' is the call it has  *)
(* reached and i the counter of the loop it is in; the two allocators are  *)
(* instances of their modules on the variables declared here.  The machine *)
(* is one with less than 16 MB: a single zone, all of it DMA memory.       *)
(***************************************************************************)
EXTENDS E820Table, Integers, FiniteSets, Sequences

CONSTANTS
  PAGE_SIZE,
  max_low_pfn,        \* what setup_arch computes from the memory map
  MAXMEM_PFN,         \* the most it takes, however much RAM there is
  KernelEnd,          \* address of _end, where the kernel image ends
  SMP_CACHE_BYTES, LongSize, PageStructSize, ResourceSize,   \* sizeof
  PTRS_PER_PTE,       \* page table entries per page table
  FixmapTables,       \* page tables of the fixed mappings
  AddressLimit,       \* 4 GB
  E820Maps,           \* the memory maps considered: sequences of [addr, size, type]
  MAX_ORDER, BlockSize

VARIABLES
  node_bootmem_map, last_pos, last_offset, halted, ram, taken, allocs,   \* Bootmem
  reserved, count, free_list, map, free_pages, memory_pressure,          \* Buddy
  pc, area, blk, held,
  at, i,              \* the call in progress and the counter of its loop
  totalram_pages,     \* number of pages released
  reservedpages       \* RAM pages that mem_init finds still reserved

bootVars  == <<node_bootmem_map, last_pos, last_offset, halted, ram, taken, allocs>>
zoneVars  == <<reserved, count, free_list, map, free_pages, memory_pressure,
               pc, area, blk, held>>
vars      == <<bootVars, zoneVars, e820, at, i, totalram_pages, reservedpages>>
----------------------------------------------------------------------------
(* What the calls below are given *)

PFN_UP(x)   == (x + PAGE_SIZE - 1) \div PAGE_SIZE
PFN_DOWN(x) == x \div PAGE_SIZE
RoundUp(x, n) == ((x + n - 1) \div n) * n
Smaller(x, y) == IF x < y THEN x ELSE y

start_pfn == PFN_UP(KernelEnd)

(* init_bootmem_core: a bit per page, rounded up to whole longs. *)
bootmap_size == RoundUp((max_low_pfn + 7) \div 8, LongSize)

(* setup_arch: where RAM ends, as far as the kernel maps it. *)
RamEnds(m) ==
  {PFN_DOWN(m[k].addr + m[k].size) :
     k \in {j \in DOMAIN m : /\ m[j].type = "RAM"
                             /\ PFN_UP(m[j].addr) < PFN_DOWN(m[j].addr + m[j].size)}}
LowPfn(m) == Smaller(MAXMEM_PFN, CHOOSE p \in RamEnds(m) : \A q \in RamEnds(m) : q <= p)

(* Fault: the page that the RAM begins in counts as RAM. *)
RamPartRoundedDown(entry) ==
  LET curr_pfn == PFN_DOWN(entry.addr)
      last_pfn == Smaller(PFN_DOWN(entry.addr + entry.size), max_low_pfn)
  IN  [addr |-> curr_pfn * PAGE_SIZE, size |-> (last_pfn - curr_pfn) * PAGE_SIZE]

(* setup_arch: the part of an entry that goes to the boot allocator. *)
RamPart(entry) ==
  LET curr_pfn == PFN_UP(entry.addr)
      last_pfn == Smaller(PFN_DOWN(entry.addr + entry.size), max_low_pfn)
  IN  [addr |-> curr_pfn * PAGE_SIZE, size |-> (last_pfn - curr_pfn) * PAGE_SIZE]
IsUsable(entry) == entry.type = "RAM" /\ RamPart(entry).size > 0

ImageAndBitmap ==
  [addr |-> HIGH_MEMORY,
   size |-> start_pfn * PAGE_SIZE + bootmap_size + PAGE_SIZE - 1 - HIGH_MEMORY]
PageZero == [addr |-> 0, size |-> PAGE_SIZE]

(* alloc_bootmem_low_pages, alloc_bootmem_low and alloc_bootmem_node, the  *)
(* last with a goal past the end of a machine this small.                  *)
LowPages(size) == [size |-> size, align |-> PAGE_SIZE, goal |-> 0]
Low(size)      == [size |-> size, align |-> SMP_CACHE_BYTES, goal |-> 0]
Node(size)     == [size |-> size, align |-> SMP_CACHE_BYTES,
                   goal |-> max_low_pfn * PAGE_SIZE]

(* pagetable_init: a table for each PTRS_PER_PTE pages, then fixrange_init. *)
PageTables == (max_low_pfn + PTRS_PER_PTE - 1) \div PTRS_PER_PTE + FixmapTables

MemMapCall == Node((max_low_pfn + 1) * PageStructSize)

(* Fault: the size is counted in longs, but taken for bytes. *)
OrderMapInLongs(o) ==
  LET blocks == RoundUp(max_low_pfn, 2 * BlockSize[o]) \div BlockSize[o]
  IN  Node((blocks + 8 * LongSize - 1) \div (8 * LongSize))

(* free_area_init_core: the bitmap of order o.  The zone's size is rounded *)
(* up to an even number of blocks, and a bit is kept for each block.       *)
OrderMapCall(o) ==
  LET blocks == RoundUp(max_low_pfn, 2 * BlockSize[o]) \div BlockSize[o]
  IN  Node(RoundUp((blocks + 7) \div 8, LongSize))

(* Fault: the division that counts the bitmap's pages rounds down. *)
WholeBitmapPages == (max_low_pfn \div 8) \div PAGE_SIZE

(* free_all_bootmem_core: the pages of the bitmap that it releases. *)
BitmapPages == (max_low_pfn \div 8 + PAGE_SIZE - 1) \div PAGE_SIZE

page_is_ram(p) ==
  \E k \in DOMAIN e820 : /\ e820[k].type = "RAM"
                         /\ p >= PFN_UP(e820[k].addr)
                         /\ p < PFN_DOWN(e820[k].addr + e820[k].size)

(* Sizes, powers of two where alignments are, and BIOS maps.  The loader   *)
(* puts the kernel into RAM; that the bitmap behind it is in RAM too       *)
(* setup_arch takes for granted. *)
ASSUME MemInitAssumption ==
  /\ {PAGE_SIZE, max_low_pfn, KernelEnd, SMP_CACHE_BYTES, LongSize, PageStructSize,
      ResourceSize, PTRS_PER_PTE, MAX_ORDER} \subseteq Nat \ {0}
  /\ {E820MAX, MAXMEM_PFN, HIGH_MEMORY, FixmapTables, AddressLimit} \subseteq Nat
  /\ HIGH_MEMORY <= KernelEnd
  /\ PAGE_SIZE % SMP_CACHE_BYTES = 0
  /\ \A m \in E820Maps :
       /\ m \in Seq([addr : Nat, size : Nat, type : STRING]) /\ Len(m) <= E820MAX
       /\ \A p \in start_pfn .. start_pfn + BitmapPages - 1 :
            \E k \in DOMAIN m : /\ m[k].type = "RAM"
                               /\ p >= PFN_UP(m[k].addr)
                               /\ p < PFN_DOWN(m[k].addr + m[k].size)

(* 1 << o, as in Buddy. *)
ASSUME OrderSizes ==
  /\ BlockSize \in [0 .. MAX_ORDER - 1 -> Nat \ {0}]
  /\ BlockSize[0] = 1
  /\ \A o \in 0 .. MAX_ORDER - 2 : BlockSize[o + 1] = 2 * BlockSize[o]
  /\ \A j, k \in 0 .. MAX_ORDER - 1 :
       j + k < MAX_ORDER => BlockSize[j + k] = BlockSize[j] * BlockSize[k]
----------------------------------------------------------------------------
(* All the calls of the boot allocator, whichever map there is.            *)
FreeCalls ==
  UNION {{RamPart(m[k]) : k \in {j \in DOMAIN m : IsUsable(m[j])}} : m \in E820Maps}
ReserveCalls == {ImageAndBitmap, PageZero}
AllocCalls ==
  {LowPages(PAGE_SIZE), MemMapCall, Low(ResourceSize)}
    \cup {OrderMapCall(o) : o \in 0 .. MAX_ORDER - 1}
MaxAllocs == PageTables + 1 + MAX_ORDER + E820MAX

Boot == INSTANCE Bootmem WITH node_low_pfn <- max_low_pfn

Zone == INSTANCE Buddy WITH
  ZoneOffset <- 0, ZoneSize <- max_low_pfn, max_mapnr <- max_low_pfn,
  FreeOrders <- {0}, MaxStalePuts <- 0

(* Where the thread is, with the loop's counter at its start. *)
Goto(call) == at' = call /\ i' = 0

Alloc(call) ==
  /\ Boot!AllocBootmem(call.size, call.align, call.goal)
  /\ UNCHANGED <<zoneVars, e820, totalram_pages, reservedpages>>

(* No memory has been handed out. *)
Allocators ==
  /\ Boot!Init
  /\ Zone!Init
  /\ at = "free_bootmem" /\ i = 0
  /\ totalram_pages = 0
  /\ reservedpages = 0

Init ==
  /\ Allocators
  /\ e820 \in {m \in E820Maps : LowPfn(m) = max_low_pfn}
----------------------------------------------------------------------------
(* setup_arch *)

(* One entry of the memory map; whether its RAM overlaps an earlier        *)
(* entry's is not looked at here.                                          *)
FreeRam ==
  /\ at = "free_bootmem" /\ ~halted
  /\ i < Len(e820)
  /\ IF IsUsable(e820[i + 1])
       THEN LET part == RamPart(e820[i + 1]) IN Boot!FreeBootmem(part.addr, part.size)
       ELSE UNCHANGED bootVars
  /\ i' = i + 1
  /\ UNCHANGED <<zoneVars, e820, at, totalram_pages, reservedpages>>

(* The kernel and the bitmap behind it. *)
ReserveImage ==
  /\ at = "free_bootmem"
  /\ i = Len(e820)
  /\ Boot!ReserveBootmem(ImageAndBitmap.addr, ImageAndBitmap.size)
  /\ Goto("reserve_page0")
  /\ UNCHANGED <<zoneVars, e820, totalram_pages, reservedpages>>

(* Fault: page 0 is left to the allocator. *)
SkipPageZero ==
  /\ at = "reserve_page0" /\ ~halted
  /\ Goto("pagetable_init")
  /\ UNCHANGED <<bootVars, zoneVars, e820, totalram_pages, reservedpages>>

ReservePageZero ==
  /\ at = "reserve_page0"
  /\ Boot!ReserveBootmem(PageZero.addr, PageZero.size)
  /\ Goto("pagetable_init")
  /\ UNCHANGED <<zoneVars, e820, totalram_pages, reservedpages>>

(* paging_init *)
AllocPageTable ==
  /\ at = "pagetable_init"
  /\ Alloc(LowPages(PAGE_SIZE))
  /\ IF i + 1 < PageTables THEN i' = i + 1 /\ UNCHANGED at ELSE Goto("mem_map")

(* free_area_init_core: mem_map, whose pages start out as in Zone!Init. *)
AllocMemMap ==
  /\ at = "mem_map"
  /\ Alloc(MemMapCall)
  /\ Goto("free_area")

AllocOrderMap ==
  /\ at = "free_area"
  /\ Alloc(OrderMapCall(i))
  /\ IF i + 1 < MAX_ORDER THEN i' = i + 1 /\ UNCHANGED at ELSE Goto("resources")

(* A struct resource for each entry that ends within 4 GB. *)
AllocResource ==
  /\ at = "resources" /\ ~halted
  /\ i < Len(e820)
  /\ IF e820[i + 1].addr + e820[i + 1].size > AddressLimit
       THEN UNCHANGED <<bootVars, zoneVars, e820, totalram_pages, reservedpages>>
       ELSE Alloc(Low(ResourceSize))
  /\ i' = i + 1
  /\ UNCHANGED at
----------------------------------------------------------------------------
(* mem_init and free_all_bootmem_core.  `at' names the loop over the pages *)
(* of the node, then the loop over the pages of the bitmap; within a turn  *)
(* the page is prepared, put, and merged into the buddy system.            *)

Releasing == at \in {"pages", "bitmap"}
ThePage == IF at = "pages" THEN i ELSE start_pfn + i
InLoop  == IF at = "pages" THEN i < max_low_pfn ELSE i < BitmapPages

(* Inside a turn: the page is no longer reserved, nor on a list. *)
Prepared == ThePage \in Zone!PageIdx /\ ThePage \notin reserved /\ count[ThePage] = 1

StartRelease ==
  /\ at = "resources" /\ ~halted
  /\ i = Len(e820)
  /\ Goto("pages")
  /\ UNCHANGED <<bootVars, zoneVars, e820, totalram_pages, reservedpages>>

SkipPage ==
  /\ at = "pages"
  /\ i < max_low_pfn
  /\ i \in node_bootmem_map
  /\ i' = i + 1
  /\ UNCHANGED <<bootVars, zoneVars, e820, at, totalram_pages, reservedpages>>

PreparePage ==
  /\ Releasing /\ InLoop
  /\ at = "pages" => i \notin node_bootmem_map
  /\ ~Prepared
  /\ Zone!PreparePage(ThePage)
  /\ UNCHANGED <<bootVars, e820, at, i, totalram_pages, reservedpages>>

PutPage ==
  /\ Releasing /\ InLoop /\ Prepared
  /\ Zone!FreePages(0, ThePage)
  /\ UNCHANGED <<bootVars, e820, at, i, totalram_pages, reservedpages>>

MergePage ==
  /\ Releasing
  /\ Zone!Merge
  /\ UNCHANGED <<bootVars, e820, at, i, totalram_pages, reservedpages>>

(* Fault: the second loop's count is not added to the total. *)
ListPageOfBitmap ==
  /\ Releasing
  /\ Zone!StopAtBuddyInUse \/ Zone!StopAtTopOrder
  /\ i' = i + 1
  /\ totalram_pages' = IF at = "pages" THEN totalram_pages + 1 ELSE totalram_pages
  /\ UNCHANGED <<bootVars, e820, at, reservedpages>>

(* __free_page returns and the loop counts the page. *)
ListPage ==
  /\ Releasing
  /\ Zone!StopAtBuddyInUse \/ Zone!StopAtTopOrder
  /\ i' = i + 1
  /\ totalram_pages' = totalram_pages + 1
  /\ UNCHANGED <<bootVars, e820, at, reservedpages>>

(* Fault: the counter goes on from the first loop. *)
StartBitmapWithoutReset ==
  /\ at = "pages"
  /\ i = max_low_pfn
  /\ at' = "bitmap" /\ UNCHANGED i
  /\ UNCHANGED <<bootVars, zoneVars, e820, totalram_pages, reservedpages>>

StartBitmap ==
  /\ at = "pages"
  /\ i = max_low_pfn
  /\ Goto("bitmap")
  /\ UNCHANGED <<bootVars, zoneVars, e820, totalram_pages, reservedpages>>

(* The bitmap is no more: node_bootmem_map is NULL.  mem_init counts. *)
CountReserved ==
  /\ at = "bitmap"
  /\ i = BitmapPages
  /\ Goto("done")
  /\ reservedpages' = Cardinality({p \in reserved : page_is_ram(p)})
  /\ UNCHANGED <<bootVars, zoneVars, e820, totalram_pages>>

Next ==
  \/ FreeRam \/ ReserveImage \/ ReservePageZero
  \/ AllocPageTable \/ AllocMemMap \/ AllocOrderMap \/ AllocResource
  \/ StartRelease \/ SkipPage \/ PreparePage \/ PutPage \/ MergePage \/ ListPage
  \/ StartBitmap \/ CountReserved

Spec == Init /\ [][Next]_vars

(* A single thread with interrupts off and nothing to wait for. *)
FairSpec == Spec /\ WF_vars(Next)
----------------------------------------------------------------------------
Pool == Zone!ListedPages \cup Zone!MovingPages

ImagePages  == PFN_DOWN(HIGH_MEMORY) .. start_pfn - 1
BitmapRange == start_pfn .. start_pfn + PFN_UP(bootmap_size) - 1
Allocated   == UNION {Boot!PagesTouched(a.addr, a.size) : a \in allocs}
RamPages    == {p \in Boot!Pages : page_is_ram(p)}

(* Two RAM entries of the memory map share a page. *)
Overlapping ==
  \E j, k \in DOMAIN e820 :
    /\ j # k /\ IsUsable(e820[j]) /\ IsUsable(e820[k])
    /\ LET a == RamPart(e820[j])  b == RamPart(e820[k])
       IN  Boot!PagesCovered(a.addr, a.size) \cap Boot!PagesCovered(b.addr, b.size) # {}

(* The buddy system never holds, not even for a moment, a page of the      *)
(* kernel, page 0, a page in which something was allocated at boot (page   *)
(* tables, mem_map, resources), or one that is not RAM.                    *)
PoolNeverOwned ==
  Pool \cap (ImagePages \cup {0} \cup Allocated \cup (Boot!Pages \ RamPages)) = {}

(* In the end every page that the bitmap calls free is in the pool, and    *)
(* with them all of the bitmap's own (bootmem.c:276, 322).                 *)
RestReleased ==
  at = "done" => Pool = (Boot!Pages \ node_bootmem_map) \cup BitmapRange

(* The numbers that mem_init prints and keeps agree: totalram_pages is     *)
(* what the zone counts as free, and with the reserved pages it makes up   *)
(* all RAM there is.                                                       *)
MemoryAccounted ==
  at = "done" => /\ totalram_pages = free_pages
                 /\ totalram_pages + reservedpages = Cardinality(RamPages)

(* The buddy system never sets a bit behind the end of the bitmap that     *)
(* free_area_init_core got for the order from the boot allocator           *)
(* (page_alloc.c:256-262): what lies there is mem_map, another bitmap or a *)
(* struct resource, and __change_bit does not look.  The size is computed  *)
(* from the zone's, the bit from the page's place (page_alloc.c:334); the  *)
(* bitmap of the top order is never touched.                               *)
BitmapsFit ==
  \A o \in Zone!Orders \ {Zone!Top} : \A bit \in map[o] : bit \div 8 < OrderMapCall(o).size

(* Every call made here of the boot allocator is one its module assumes,   *)
(* and the thread reaches none of those its code does not check            *)
(* (bootmem.c:53, 82, 122): what Bootmem shows holds in this composition.  *)
BootSpec == Boot!Spec

(* The boot gets through mem_init, unless RAM that the BIOS listed twice   *)
(* is freed twice: no page is released that somebody released before, and  *)
(* the loops end.                                                          *)
BootFinishes == <>(at = "done" \/ Overlapping)

(* The comments say that the image and the bitmap are what is reserved     *)
(* (setup.c:434), and that all the memory the boot allocator has, with its *)
(* bitmap, is released in the end (bootmem.c:276, 322): what is not an     *)
(* allocation, the image or page 0 is then in the pool.                    *)
OnlyOwnedKept == at = "done" => RamPages \subseteq Pool \cup ImagePages \cup {0} \cup Allocated
=============================================================================
