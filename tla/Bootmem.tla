------------------------------- MODULE Bootmem -------------------------------
(***************************************************************************)
(* The boot-time memory allocator: mm/bootmem.c.  One node that starts at  *)
(* physical address 0, a bitmap with one bit per page frame, and the pair  *)
(* last_pos, last_offset that lets an allocation begin in the unused tail  *)
(* of the page where the previous one ended.                               *)
(*                                                                         *)
(* The calls run in the single thread of start_kernel with interrupts off, *)
(* so each is one step.  BUG() stops the machine: halted.                  *)
(***************************************************************************)
EXTENDS Integers, FiniteSets

CONSTANTS
  PAGE_SIZE,
  node_low_pfn,       \* number of page frames of the node
  FreeCalls,          \* arguments of free_bootmem: records [addr, size]
  ReserveCalls,       \* arguments of reserve_bootmem: records [addr, size]
  AllocCalls,         \* arguments of __alloc_bootmem: [size, align, goal]
  MaxAllocs           \* bound of the model: number of allocations

(* Callers align to powers of two, as PAGE_SIZE is one: SMP_CACHE_BYTES    *)
(* divides it and so does PAGE_SIZE itself.                                *)
ASSUME BootmemAssumption ==
  /\ PAGE_SIZE \in Nat \ {0} /\ node_low_pfn \in Nat \ {0} /\ MaxAllocs \in Nat
  /\ FreeCalls \cup ReserveCalls \subseteq [addr : Nat, size : Nat]
  /\ AllocCalls \subseteq [size : Nat, align : Nat \ {0}, goal : Nat]
  /\ \A c \in AllocCalls : PAGE_SIZE % c.align = 0 \/ c.align % PAGE_SIZE = 0

VARIABLES
  node_bootmem_map,   \* page frames whose bit is 1: not to be handed out
  last_pos,           \* page frame in which the last allocation ended
  last_offset,        \* where in that page it ended; 0 if it filled the page
  halted,             \* a BUG() was reached
  ram,                \* auxiliary: page frames given to free_bootmem
  taken,              \* auxiliary: page frames given to reserve_bootmem
  allocs              \* auxiliary: the memory handed out, [addr, size, align]

vars == <<node_bootmem_map, last_pos, last_offset, halted, ram, taken, allocs>>

Pages == 0 .. node_low_pfn - 1

----------------------------------------------------------------------------
(* Arithmetic on addresses *)

PFN_UP(x)   == (x + PAGE_SIZE - 1) \div PAGE_SIZE
PFN_DOWN(x) == x \div PAGE_SIZE

(* (x + align - 1) & ~(align - 1) for a power of two. *)
AlignUp(x, align) == ((x + align - 1) \div align) * align

(* The page frames a range of bytes touches, and those it covers. *)
PagesTouched(addr, size) == PFN_DOWN(addr) .. PFN_UP(addr + size) - 1
PagesCovered(addr, size) == PFN_UP(addr) .. PFN_DOWN(addr + size) - 1

Least(S) == CHOOSE i \in S : \A j \in S : i <= j
----------------------------------------------------------------------------
(* init_bootmem: every bit is 1. *)
Init ==
  /\ node_bootmem_map = Pages
  /\ last_pos = 0
  /\ last_offset = 0
  /\ halted = FALSE
  /\ ram = {}
  /\ taken = {}
  /\ allocs = {}

(* free_bootmem clears the bits of the pages that the range covers, up to  *)
(* the first that is clear already: a BUG, as are an empty range and one   *)
(* that ends past the node.                                                *)
FreeBootmem(addr, size) ==
  LET covered == PagesCovered(addr, size)
      wrong   == size = 0 \/ PFN_DOWN(addr + size) > node_low_pfn
      cleared == IF wrong THEN {}
                 ELSE {i \in covered : \A j \in covered : j <= i => j \in node_bootmem_map}
  IN
  /\ ~halted
  /\ node_bootmem_map' = node_bootmem_map \ cleared
  /\ ram' = ram \cup cleared
  /\ halted' = (wrong \/ cleared # covered)
  /\ UNCHANGED <<last_pos, last_offset, taken, allocs>>

(* Fault: only the pages that the range covers are reserved. *)
ReserveCovered(addr, size) ==
  LET wrong == size = 0 \/ PFN_UP(addr + size) > node_low_pfn
  IN
  /\ ~halted
  /\ node_bootmem_map' = IF wrong THEN node_bootmem_map
                         ELSE node_bootmem_map \cup PagesCovered(addr, size)
  /\ taken' = IF wrong THEN taken ELSE taken \cup PagesTouched(addr, size)
  /\ halted' = wrong
  /\ UNCHANGED <<last_pos, last_offset, ram, allocs>>

(* reserve_bootmem sets the bits of all pages the range touches; a page    *)
(* reserved twice is only worth a message.                                 *)
ReserveBootmem(addr, size) ==
  LET wrong   == size = 0 \/ PFN_UP(addr + size) > node_low_pfn
      touched == IF wrong THEN {} ELSE PagesTouched(addr, size)
  IN
  /\ ~halted
  /\ node_bootmem_map' = node_bootmem_map \cup touched
  /\ taken' = taken \cup touched
  /\ halted' = wrong
  /\ UNCHANGED <<last_pos, last_offset, ram, allocs>>
----------------------------------------------------------------------------
(* __alloc_bootmem_core *)

(* The page frames that the scan from frame `from' finds good: each incr   *)
(* frames one, if areasize frames with a clear bit begin there.            *)
GoodStarts(from, incr, areasize) ==
  {i \in Pages : /\ i >= from
                 /\ (i - from) % incr = 0
                 /\ i .. i + areasize - 1 \subseteq Pages \ node_bootmem_map}

(* Fault: a goal that cannot be met is not given up. *)
StartPageAtGoal(size, align, goal) ==
  LET wanted    == IF PFN_DOWN(goal) < node_low_pfn THEN goal ELSE 0
      preferred == PFN_DOWN(AlignUp(wanted, align))
      incr      == IF PFN_DOWN(align) = 0 THEN 1 ELSE PFN_DOWN(align)
      found     == GoodStarts(preferred, incr, PFN_UP(size))
  IN  IF found # {} THEN Least(found) ELSE 0

(* The first good one at or after the goal, or else the first at all.  If  *)
(* there is none, start keeps the 0 it was initialised with.               *)
StartPage(size, align, goal) ==
  LET wanted    == IF PFN_DOWN(goal) < node_low_pfn THEN goal ELSE 0
      preferred == PFN_DOWN(AlignUp(wanted, align))
      incr      == IF PFN_DOWN(align) = 0 THEN 1 ELSE PFN_DOWN(align)
      Found(from) == GoodStarts(from, incr, PFN_UP(size))
  IN  IF Found(preferred) # {} THEN Least(Found(preferred))
      ELSE IF Found(0) # {} THEN Least(Found(0))
      ELSE 0

(* Fault: an allocation that filled its page is joined as well. *)
JoinsAny(start, align) == align <= PAGE_SIZE /\ last_pos + 1 = start

(* The last allocation left a tail in the page before the start page. *)
JoinsLast(start, align) ==
  align <= PAGE_SIZE /\ last_offset # 0 /\ last_pos + 1 = start

(* Faults: the tail is used unaligned; what the tail has room for is       *)
(* allocated once more; the end of a long allocation is not masked.        *)
TailUnaligned(align)     == last_offset
AllPages(size, room)     == IF size < room THEN 0 ELSE PFN_UP(size)
UnmaskedOffset(x)        == x

(* Where in the tail an allocation begins, the pages it needs beyond a     *)
(* tail of the given room, and an offset without the page's address.       *)
TailOffset(align)        == AlignUp(last_offset, align)
PagesBeyond(size, room)  == IF size < room THEN 0 ELSE PFN_UP(size - room)
OffsetInPage(x)          == x % PAGE_SIZE

(* What the allocation gets and where it ends: at the start page, or in    *)
(* the tail of the page before and then on from the start page if the tail *)
(* is too small.  Its last page is start + pages - 1, with no new pages    *)
(* the last page of before.                                                *)
Placement(size, align, start) ==
  LET offset == TailOffset(align)
      room   == PAGE_SIZE - offset
  IN  IF JoinsLast(start, align)
        THEN [addr  |-> last_pos * PAGE_SIZE + offset,
              pages |-> PagesBeyond(size, room),
              off   |-> OffsetInPage(IF size < room THEN offset + size ELSE size - room)]
        ELSE [addr  |-> start * PAGE_SIZE,
              pages |-> PFN_UP(size),
              off   |-> OffsetInPage(size)]

(* The allocation marks its new pages; one that is marked already (page 0, *)
(* when the scan found nothing) is a BUG, as is an empty request.  What a  *)
(* BUG leaves half marked nobody sees.                                     *)
AllocBootmem(size, align, goal) ==
  LET start == StartPage(size, align, goal)
      place == Placement(size, align, start)
      new   == start .. start + place.pages - 1
      fails == size = 0 \/ ~(new \subseteq Pages \ node_bootmem_map)
  IN
  /\ ~halted
  /\ halted' = fails
  /\ IF fails
       THEN UNCHANGED <<node_bootmem_map, last_pos, last_offset, allocs>>
       ELSE /\ node_bootmem_map' = node_bootmem_map \cup new
            /\ last_pos' = start + place.pages - 1
            /\ last_offset' = place.off
            /\ allocs' = allocs \cup {[addr |-> place.addr, size |-> size, align |-> align]}
  /\ UNCHANGED <<ram, taken>>
----------------------------------------------------------------------------
(* setup_arch makes its calls in this order: the RAM is freed, then what   *)
(* is occupied is reserved (page 0 always), and only then does anybody     *)
(* allocate.                                                               *)
Next ==
  \/ /\ taken = {} /\ allocs = {}
     /\ \E c \in FreeCalls : FreeBootmem(c.addr, c.size)
  \/ /\ allocs = {}
     /\ \E c \in ReserveCalls : ReserveBootmem(c.addr, c.size)
  \/ /\ 0 \in taken /\ Cardinality(allocs) < MaxAllocs
     /\ \E c \in AllocCalls : AllocBootmem(c.size, c.align, c.goal)

Spec == Init /\ [][Next]_vars
----------------------------------------------------------------------------
Bytes(a) == a.addr .. a.addr + a.size - 1

(* No byte is handed out twice, although an allocation may begin in a page *)
(* that an earlier one has marked (bootmem.c:199-222).                     *)
AllocsDisjoint ==
  \A a, b \in allocs : a # b => Bytes(a) \cap Bytes(b) = {}

(* Whatever is handed out lies in RAM that was freed to the allocator and  *)
(* that nobody reserved: not in page 0, which the failed scan falls back   *)
(* to, nor in a hole, nor past the end of the node.  It begins where its   *)
(* caller's alignment wants it, be it below a page (in a tail) or above    *)
(* (the scan's stride).                                                    *)
AllocsInFreeRam ==
  \A a \in allocs : /\ PagesTouched(a.addr, a.size) \subseteq ram \ taken
                    /\ a.addr % a.align = 0

(* The bitmap marks what it must and nothing else: no page that could be   *)
(* released at the end of the boot is lost to the page count of a merge.   *)
MapExact ==
  node_bootmem_map =
    (Pages \ ram) \cup taken \cup UNION {PagesTouched(a.addr, a.size) : a \in allocs}

(* last_pos and last_offset describe memory that may be handed out: the    *)
(* page is an allocation's own, and from the offset on nobody has it.      *)
TailUnused ==
  last_offset # 0 =>
    /\ last_offset < PAGE_SIZE
    /\ last_pos \in node_bootmem_map \cap ram
    /\ \A a \in allocs :
         Bytes(a) \cap (last_pos * PAGE_SIZE + last_offset .. (last_pos + 1) * PAGE_SIZE - 1) = {}

(* An allocation of something fails only if no suitably aligned run of     *)
(* clear bits is long enough for it, wherever the goal made the scan begin. *)
FailsOnlyWhenFull ==
  [][\A c \in AllocCalls :
       c.size # 0 /\ 0 \in taken /\ AllocBootmem(c.size, c.align, c.goal) /\ halted' =>
         \A i \in Pages :
           (i * PAGE_SIZE) % c.align = 0 =>
             ~(PagesTouched(i * PAGE_SIZE, c.size) \subseteq Pages \ node_bootmem_map)]_vars
=============================================================================
