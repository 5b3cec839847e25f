-------------------------------- MODULE Buddy --------------------------------
(***************************************************************************)
(* The buddy system of one memory zone: mm/page_alloc.c.                   *)
(*                                                                         *)
(* A block of order o is written by its block number b: it is the          *)
(* 2^o pages whose index in the zone (the C code's page_idx) is b * 2^o    *)
(* or more and less than (b+1) * 2^o.  So page_idx ^ -mask is the block    *)
(* number next to b in its pair, and page_idx >> (1 + order), the index    *)
(* into the bitmap, is b \div 2.                                           *)
(*                                                                         *)
(* __free_pages_ok runs with the zone's lock held and interrupts off; its  *)
(* loop is modelled iteration by iteration.  Nothing in this kernel takes  *)
(* blocks out of the buddy system yet: pages only flow in.                 *)
(***************************************************************************)
EXTENDS Integers, FiniteSets

CONSTANTS
  MAX_ORDER,          \* number of orders (10 in mmzone.h)
  BlockSize,          \* BlockSize[o] is 1 << o
  ZoneOffset,         \* zone->offset: page number of the zone's first page
  ZoneSize,           \* zone->size, a multiple of nothing in particular
  max_mapnr,          \* the bound of VALID_PAGE when pages are released
  FreeOrders,         \* the orders callers pass to __free_pages
  MaxStalePuts        \* bound of the model: puts of a page already free

Orders  == 0 .. MAX_ORDER - 1
Top     == MAX_ORDER - 1
PageIdx == 0 .. ZoneSize - 1
NR_CPUS == 1

ASSUME OrderAssumption ==
  /\ MAX_ORDER \in Nat \ {0}
  /\ FreeOrders \subseteq Orders

(* The values of 1 << o, which the C code shifts out of ~0UL. *)
ASSUME BlockSizeAssumption ==
  /\ BlockSize \in [Orders -> Nat \ {0}]
  /\ BlockSize[0] = 1
  /\ \A o \in Orders : o # Top => BlockSize[o + 1] = 2 * BlockSize[o]
  /\ \A i, j \in Orders :
       i + j \in Orders => BlockSize[i + j] = BlockSize[i] * BlockSize[j]

(* free_area_init_core skips empty zones; mem_init sets max_mapnr to        *)
(* max_low_pfn, the sum of the zones' sizes.                               *)
ASSUME ZoneAssumption ==
  /\ ZoneSize \in Nat \ {0} /\ ZoneOffset \in Nat /\ max_mapnr \in Nat
  /\ ZoneOffset + ZoneSize <= max_mapnr
  /\ MaxStalePuts \in Nat

VARIABLES
  reserved,           \* pages whose PG_reserved flag is set
  count,              \* page->count of every page
  free_list,          \* free_list[o]: numbers of the blocks on free_area[o].free_list
  map,                \* map[o]: indices of the bits of free_area[o].map that are 1
  free_pages,         \* zone->free_pages
  memory_pressure,
  pc,                 \* "idle", inside __free_pages_ok's loop ("merge"), or "BUG"
  area, blk,          \* the loop's free_area (as an order) and block number
  held                \* auxiliary: pages that no __free_pages has released yet

vars == <<reserved, count, free_list, map, free_pages, memory_pressure,
          pc, area, blk, held>>

----------------------------------------------------------------------------
(* Blocks *)

BlockPages(o, b) == b * BlockSize[o] .. (b + 1) * BlockSize[o] - 1
FirstPage(o, b)  == b * BlockSize[o]
BuddyOf(b)       == IF b % 2 = 0 THEN b + 1 ELSE b - 1

(* The pages of the blocks that are on a list. *)
ListedPages ==
  {p \in PageIdx : \E o \in Orders : \E b \in free_list[o] : p \in BlockPages(o, b)}

(* The pages of the block that __free_pages_ok is still merging. *)
MovingPages == IF pc = "merge" THEN BlockPages(area, blk) ELSE {}

(* BAD_RANGE: the block's first page is not one of the zone's. *)
BadRange(o, b) == FirstPage(o, b) \notin PageIdx

(* Fault: the last page is not valid. *)
BelowLastPage(p) == ZoneOffset + p < max_mapnr - 1

VALID_PAGE(p) == ZoneOffset + p < max_mapnr
----------------------------------------------------------------------------
(* The definitions marked as faults are slips the code could have; each    *)
(* stands before the definition it distorts, and no other refers to it.    *)

(* free_area_init_core leaves every page reserved with a zero count, the   *)
(* lists empty and the bitmaps, fresh from the boot allocator, zero.       *)
Init ==
  /\ reserved = PageIdx
  /\ count = [p \in PageIdx |-> 0]
  /\ free_list = [o \in Orders |-> {}]
  /\ map = [o \in Orders |-> {}]
  /\ free_pages = 0
  /\ memory_pressure = 0
  /\ pc = "idle"
  /\ area = 0
  /\ blk = 0
  /\ held = PageIdx

(* The owner of a page readies it for release, as free_all_bootmem_core    *)
(* does: ClearPageReserved, then set_page_count(page, 1).                  *)
PreparePage(p) ==
  /\ pc = "idle"
  /\ p \in held
  /\ reserved' = reserved \ {p}
  /\ count' = [count EXCEPT ![p] = 1]
  /\ UNCHANGED <<free_list, map, free_pages, memory_pressure, pc, area, blk, held>>

(* What a caller of __free_pages(page, order) vouches for: a block of      *)
(* several pages is wholly its own and only its first page is counted.  A  *)
(* single page may be put by anyone, once too often included.              *)
CallerMayPut(o, b) ==
  \/ o = 0
  \/ /\ BlockPages(o, b) \subseteq held
     /\ \A p \in BlockPages(o, b) \ {FirstPage(o, b)} : p \in reserved \/ count[p] <= 0

(* Fault: the mask, a negative number, is added to free_pages. *)
FreePagesAddingMask(o, b) ==
  LET page == FirstPage(o, b)
      last == count[page] = 1
  IN
  /\ pc = "idle"
  /\ page \in PageIdx \ reserved
  /\ CallerMayPut(o, b)
  /\ count[page] > -MaxStalePuts
  /\ count' = [count EXCEPT ![page] = @ - 1]
  /\ pc' = IF last THEN "merge" ELSE "idle"
  /\ area' = IF last THEN o ELSE area
  /\ blk' = IF last THEN b ELSE blk
  /\ free_pages' = IF last THEN free_pages - BlockSize[o] ELSE free_pages
  /\ held' = IF last THEN held \ BlockPages(o, b) ELSE held
  /\ UNCHANGED <<reserved, free_list, map, memory_pressure>>

(* __free_pages up to the first test of the loop in __free_pages_ok: a     *)
(* reserved page is left alone, any other loses a reference, and the put   *)
(* that takes the last one adds the block to free_pages.  The flags other  *)
(* than PG_reserved that are tested on entry are set nowhere in src.       *)
FreePages(o, b) ==
  LET page == FirstPage(o, b)
      last == count[page] = 1
  IN
  /\ pc = "idle"
  /\ page \in PageIdx \ reserved
  /\ CallerMayPut(o, b)
  /\ count[page] > -MaxStalePuts
  /\ count' = [count EXCEPT ![page] = @ - 1]
  /\ pc' = IF ~last THEN "idle" ELSE IF VALID_PAGE(page) THEN "merge" ELSE "BUG"
  /\ area' = IF last THEN o ELSE area
  /\ blk' = IF last THEN b ELSE blk
  /\ free_pages' = IF last THEN free_pages + BlockSize[o] ELSE free_pages
  /\ held' = IF last THEN held \ BlockPages(o, b) ELSE held
  /\ UNCHANGED <<reserved, free_list, map, memory_pressure>>

(* Fault: the buddy stays on its list. *)
MergeWithoutUnlink ==
  /\ pc = "merge"
  /\ area # Top
  /\ blk \div 2 \in map[area]
  /\ map' = [map EXCEPT ![area] = @ \ {blk \div 2}]
  /\ area' = area + 1
  /\ blk' = blk \div 2
  /\ UNCHANGED <<reserved, count, free_list, free_pages, memory_pressure, pc, held>>

(* One turn of the loop whose test_and_change_bit finds a one: the buddy   *)
(* leaves its list and the pair goes on as a block of the next order.      *)
Merge ==
  LET buddy == BuddyOf(blk)
  IN
  /\ pc = "merge"
  /\ area # Top
  /\ blk \div 2 \in map[area]
  /\ map' = [map EXCEPT ![area] = @ \ {blk \div 2}]
  /\ IF BadRange(area, buddy) \/ BadRange(area, blk)
       THEN pc' = "BUG" /\ UNCHANGED <<free_list, area, blk>>
       ELSE /\ free_list' = [free_list EXCEPT ![area] = @ \ {buddy}]
            /\ area' = area + 1
            /\ blk' = blk \div 2
            /\ UNCHANGED pc
  /\ UNCHANGED <<reserved, count, free_pages, memory_pressure, held>>

(* Fault: the block goes on the list of single pages. *)
AddToFirstList ==
  /\ free_list' = [free_list EXCEPT ![0] = @ \cup {blk}]
  /\ pc' = "idle"
  /\ UNCHANGED <<reserved, count, free_pages, memory_pressure, area, blk, held>>

(* memlist_add_head, and what follows the loop. *)
AddToList ==
  /\ free_list' = [free_list EXCEPT ![area] = @ \cup {blk}]
  /\ memory_pressure' = IF memory_pressure > NR_CPUS THEN memory_pressure - 1
                                                     ELSE memory_pressure
  /\ pc' = "idle"
  /\ UNCHANGED <<reserved, count, free_pages, area, blk, held>>

(* Fault: the bit is tested but not changed. *)
StopLeavingBit ==
  /\ pc = "merge"
  /\ area # Top
  /\ blk \div 2 \notin map[area]
  /\ UNCHANGED map
  /\ AddToList

(* The loop ends where test_and_change_bit finds a zero and makes it one. *)
StopAtBuddyInUse ==
  /\ pc = "merge"
  /\ area # Top
  /\ blk \div 2 \notin map[area]
  /\ map' = [map EXCEPT ![area] = @ \cup {blk \div 2}]
  /\ AddToList

(* The loop ends at the largest order, whose bitmap it never looks at. *)
StopAtTopOrder ==
  /\ pc = "merge"
  /\ area = Top
  /\ UNCHANGED map
  /\ AddToList

Next ==
  \/ \E p \in PageIdx : PreparePage(p)
  \/ \E o \in FreeOrders, b \in PageIdx : FreePages(o, b)
  \/ Merge
  \/ StopAtBuddyInUse
  \/ StopAtTopOrder

Spec == Init /\ [][Next]_vars

(* The loop is straight-line code with interrupts off: it keeps running. *)
FairSpec == Spec /\ WF_vars(Merge \/ StopAtBuddyInUse \/ StopAtTopOrder)
----------------------------------------------------------------------------
(* Every variable keeps its type (the domains of the fields of zone_t,     *)
(* free_area_t and struct page that the calls above touch).                *)
TypeOK ==
  /\ reserved \subseteq PageIdx
  /\ count \in [PageIdx -> Int]
  /\ free_list \in [Orders -> SUBSET PageIdx]
  /\ map \in [Orders -> SUBSET PageIdx]
  /\ free_pages \in Nat
  /\ memory_pressure \in Int
  /\ pc \in {"idle", "merge", "BUG"}
  /\ area \in Orders
  /\ blk \in PageIdx
  /\ held \subseteq PageIdx

(* No BUG() of the free path is reached: the buddy that a merge takes off  *)
(* its list is always a block of this zone, also where the zone ends in    *)
(* the middle of a pair.                                                   *)
NoBug == pc # "BUG"

(* The single bit of a pair of blocks below the top order is 1 exactly     *)
(* when one block of the pair is on the order's free list: the comment     *)
(* above test_and_change_bit (page_alloc.c:337-340).                       *)
BitTellsPairState ==
  \A o \in Orders \ {Top} : \A k \in PageIdx :
    k \in map[o] <=> (2 * k \in free_list[o]) # (2 * k + 1 \in free_list[o])

(* No page is in two free blocks, and none of a listed block is in the     *)
(* block being merged, however often and by whomever pages are put.        *)
BlocksDisjoint ==
  /\ \A o1, o2 \in Orders : \A b1 \in free_list[o1], b2 \in free_list[o2] :
       BlockPages(o1, b1) \cap BlockPages(o2, b2) # {} => o1 = o2 /\ b1 = b2
  /\ ListedPages \cap MovingPages = {}

(* zone->free_pages, what nr_free_pages adds up, counts the pages in free  *)
(* blocks, the one in transit included.                                    *)
FreePagesExact == free_pages = Cardinality(ListedPages \cup MovingPages)

(* Between calls the lists hold exactly the largest aligned blocks that    *)
(* are entirely free, so they depend on which pages are free and not on    *)
(* the order in which they were released: merging is never missed.         *)
LargestBlocks ==
  LET free == ListedPages
      Whole(o, b) == BlockPages(o, b) \subseteq free
  IN  pc = "idle" =>
        \A o \in Orders, b \in PageIdx :
          b \in free_list[o] <=>
            /\ Whole(o, b)
            /\ o # Top => ~Whole(o + 1, b \div 2)

(* The buddy system implements the plain pool of free pages: a put adds a  *)
(* block that was not free, merging and listing add and lose nothing.      *)
Pool == INSTANCE PagePool WITH pool <- ListedPages \cup MovingPages,
                               nr_free <- free_pages
PoolSpec == Pool!Spec
=============================================================================
