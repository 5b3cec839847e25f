---------------------------- MODULE MemInitProofs ----------------------------
(***************************************************************************)
(* Theorems about MemInit, for every memory map and every size of what is  *)
(* allocated at boot.  Its steps are steps of the two allocators, so that  *)
(* what BootmemProofs and BuddyProofs show of these holds here.  The       *)
(* invariant adds what the thread has done so far: what is reserved, which *)
(* pages have been released, and what the flags of the others are.         *)
(***************************************************************************)
EXTENDS MemInit, FiniteSetTheorems, TLAPS

(* Quotient and remainder. *)
LEMMA DivMod ==
  ASSUME NEW n \in Nat \ {0}, NEW x \in Nat
  PROVE  /\ x \div n \in Nat /\ x % n \in 0 .. n - 1
         /\ x = (x \div n) * n + (x % n)
OBVIOUS

(* They are determined by that. *)
LEMMA DivUnique ==
  ASSUME NEW n \in Nat \ {0}, NEW q \in Nat, NEW r \in 0 .. n - 1
  PROVE  (q * n + r) \div n = q /\ ((q * n) + r) % n = r
OBVIOUS

(* Multiples show the order. *)
LEMMA MulCancel ==
  ASSUME NEW n \in Nat \ {0}, NEW x \in Int, NEW y \in Int, x * n < y * n
  PROVE  x < y
OBVIOUS
----------------------------------------------------------------------------
BP == INSTANCE BootmemProofs WITH node_low_pfn <- max_low_pfn

ZP == INSTANCE BuddyProofs WITH
  ZoneOffset <- 0, ZoneSize <- max_low_pfn, max_mapnr <- max_low_pfn,
  FreeOrders <- {0}, MaxStalePuts <- 0

Pages == 0 .. max_low_pfn - 1

(* The page behind what is reserved for image and bitmap. *)
ImageEnd  == PFN_UP(ImageAndBitmap.addr + ImageAndBitmap.size)
ImageUsed == PFN_DOWN(HIGH_MEMORY) .. ImageEnd - 1

Setup == {"free_bootmem", "reserve_page0", "pagetable_init", "mem_map", "free_area",
          "resources"}
Calls == Setup \cup {"pages", "bitmap", "done"}

Thread ==
  /\ e820 \in E820Maps /\ at \in Calls /\ i \in Nat /\ totalram_pages \in Nat
  /\ at \in {"free_bootmem", "resources"} => i <= Len(e820)
  /\ at = "pagetable_init" => i < PageTables
  /\ at = "free_area" => i < MAX_ORDER
  /\ at = "pages" => i <= max_low_pfn
  /\ at = "bitmap" => i <= BitmapPages

(* What has been reserved, once there are allocations.                     *)
Reservations ==
  /\ at = "free_bootmem" => taken = {}
  /\ at \in {"free_bootmem", "reserve_page0"} => allocs = {}
  /\ at = "reserve_page0" /\ ~halted => taken = ImageUsed /\ ImageEnd <= max_low_pfn
  /\ at \notin {"free_bootmem", "reserve_page0"} =>
       taken = ImageUsed \cup {0} /\ ImageEnd <= max_low_pfn

(* The allocations made so far. *)
Budget ==
  /\ IsFiniteSet(allocs)
  /\ at = "pagetable_init" => Cardinality(allocs) <= i
  /\ at = "mem_map"        => Cardinality(allocs) <= PageTables
  /\ at = "free_area"      => Cardinality(allocs) <= PageTables + 1 + i
  /\ at = "resources"      => Cardinality(allocs) <= PageTables + 1 + MAX_ORDER + i

RamOnly == \A p \in ram : p \in Pages /\ page_is_ram(p)

(* The pages that the loops have released, and the one they are about.     *)
BitmapUpTo(n) == start_pfn .. start_pfn + n - 1
Released ==
  CASE at = "pages"  -> (0 .. i - 1) \ node_bootmem_map
    [] at = "bitmap" -> (Pages \ node_bootmem_map) \cup BitmapUpTo(i)
    [] at = "done"   -> (Pages \ node_bootmem_map) \cup BitmapUpTo(BitmapPages)
    [] OTHER         -> {}
Due == Releasing /\ InLoop /\ (at = "pages" => i \notin node_bootmem_map)

Pools ==
  /\ pc = "merge" => Due
  /\ ZP!FreeSet = IF pc = "merge" THEN Released \cup {ThePage} ELSE Released
  /\ held = Pages \ ZP!FreeSet
  /\ free_pages = IF pc = "merge" THEN totalram_pages + 1 ELSE totalram_pages

(* A page that is not reserved is free, or about to be.                    *)
Flags ==
  \A p \in Pages :
    \/ p \in reserved /\ count[p] = 0 /\ p \notin ZP!FreeSet
    \/ p \notin reserved /\ count[p] = 0 /\ p \in ZP!FreeSet
    \/ p \notin reserved /\ count[p] = 1 /\ p \notin ZP!FreeSet /\ Due /\ p = ThePage

Counted == at = "done" => reservedpages = Cardinality({p \in reserved : page_is_ram(p)})

IInv ==
  /\ BP!IInv /\ ZP!IInv /\ ZP!FreePagesExact
  /\ Thread /\ Reservations /\ Budget /\ RamOnly
  /\ Pools /\ Flags /\ Counted
----------------------------------------------------------------------------
(* Sizes, and the assumptions of the two allocators *)

LEMMA Sizes ==
  /\ PAGE_SIZE \in Nat \ {0} /\ max_low_pfn \in Nat \ {0} /\ KernelEnd \in Nat \ {0}
  /\ LongSize \in Nat \ {0} /\ PageStructSize \in Nat \ {0} /\ ResourceSize \in Nat \ {0}
  /\ PTRS_PER_PTE \in Nat \ {0} /\ MAX_ORDER \in Nat \ {0} /\ SMP_CACHE_BYTES \in Nat \ {0}
  /\ FixmapTables \in Nat /\ HIGH_MEMORY \in Nat /\ HIGH_MEMORY <= KernelEnd /\ E820MAX \in Nat
  /\ PAGE_SIZE % SMP_CACHE_BYTES = 0
  /\ Pages \subseteq Nat
BY MemInitAssumption DEF Pages

LEMMA Entries ==
  ASSUME NEW m \in E820Maps
  PROVE  /\ Len(m) \in Nat /\ Len(m) <= E820MAX
         /\ \A k \in DOMAIN m : m[k].addr \in Nat /\ m[k].size \in Nat
         /\ DOMAIN m = 1 .. Len(m)
<1>1. m \in Seq([addr : Nat, size : Nat, type : STRING]) /\ Len(m) <= E820MAX
  BY MemInitAssumption
<1>2. Len(m) \in Nat /\ DOMAIN m = 1 .. Len(m)
  BY <1>1
<1>3. ASSUME NEW k \in 1 .. Len(m)
      PROVE  m[k].addr \in Nat /\ m[k].size \in Nat
  <2> DEFINE E == [addr : Nat, size : Nat, type : STRING]
  <2>1. \A e \in E : e.addr \in Nat /\ e.size \in Nat
    OBVIOUS
  <2> HIDE DEF E
  <2>2. m \in Seq(E)
    BY <1>1 DEF E
  <2>3. m[k] \in E
    BY <2>2
  <2> QED
    BY <2>1, <2>3
<1> QED
  BY <1>1, <1>2, <1>3

LEMMA Rounded ==
  ASSUME NEW x \in Nat, NEW n \in Nat \ {0}
  PROVE  RoundUp(x, n) \in Nat /\ x <= RoundUp(x, n)
<1>1. x + n - 1 \in Nat
  OBVIOUS
<1>2. PICK q \in Nat, r \in 0 .. n - 1 : q = (x + n - 1) \div n /\ x + n - 1 = q * n + r
  BY <1>1, DivMod
<1>3. PICK qn \in Nat : qn = q * n
  BY <1>2
<1> QED
  BY <1>2, <1>3 DEF RoundUp

(* PFN_UP(x) is the number of pages that x bytes take.                     *)
LEMMA Up ==
  ASSUME NEW x \in Nat
  PROVE  /\ PFN_UP(x) \in Nat
         /\ x <= PFN_UP(x) * PAGE_SIZE /\ PFN_UP(x) * PAGE_SIZE < x + PAGE_SIZE
<1>1. x + PAGE_SIZE - 1 \in Nat
  BY Sizes
<1>2. PICK q \in Nat, r \in 0 .. PAGE_SIZE - 1 :
        q = (x + PAGE_SIZE - 1) \div PAGE_SIZE /\ x + PAGE_SIZE - 1 = q * PAGE_SIZE + r
  BY <1>1, DivMod, Sizes
<1>3. PICK qn \in Nat : qn = q * PAGE_SIZE
  BY <1>2, Sizes
<1> QED
  BY <1>2, <1>3, Sizes DEF PFN_UP

LEMMA UpMono ==
  ASSUME NEW x \in Nat, NEW y \in Nat, x <= y
  PROVE  PFN_UP(x) <= PFN_UP(y)
<1>1. PICK u \in Nat, v \in Nat : u = PFN_UP(x) /\ v = PFN_UP(y)
  BY Up
<1>2. u * PAGE_SIZE < x + PAGE_SIZE /\ y <= v * PAGE_SIZE
  BY <1>1, Up
<1>3. (v + 1) * PAGE_SIZE = v * PAGE_SIZE + PAGE_SIZE /\ v * PAGE_SIZE \in Nat
      /\ u * PAGE_SIZE \in Nat
  BY Sizes
<1>4. u * PAGE_SIZE < (v + 1) * PAGE_SIZE
  BY <1>2, <1>3, Sizes
<1>5. u < v + 1
  BY <1>4, Sizes, MulCancel
<1> QED
  BY <1>1, <1>5

LEMMA UpOfPages ==
  ASSUME NEW k \in Nat, NEW x \in Nat
  PROVE  PFN_UP(k * PAGE_SIZE + x) = k + PFN_UP(x)
<1>0. PICK ks \in Nat : ks = k * PAGE_SIZE
  BY Sizes
<1>1. PICK u \in Nat, v \in Nat : u = PFN_UP(x) /\ v = PFN_UP(ks + x)
  BY Up
<1>2. PICK us \in Nat, vs \in Nat : us = u * PAGE_SIZE /\ vs = v * PAGE_SIZE
  BY Sizes
<1>3. x <= us /\ us < x + PAGE_SIZE /\ ks + x <= vs /\ vs < ks + x + PAGE_SIZE
  <2>1. x <= us /\ us < x + PAGE_SIZE
    BY <1>1, <1>2, Up
  <2>2. ks + x \in Nat
    OBVIOUS
  <2>3. ks + x <= vs /\ vs < ks + x + PAGE_SIZE
    BY <1>1, <1>2, <2>2, Up
  <2> QED
    BY <2>1, <2>3
<1>4. /\ (k + u + 1) * PAGE_SIZE = ks + us + PAGE_SIZE
      /\ (k + u) * PAGE_SIZE = ks + us
      /\ (v + 1) * PAGE_SIZE = vs + PAGE_SIZE
  BY <1>0, <1>2, Sizes
<1>5. v < k + u + 1
  <2>1. v * PAGE_SIZE < (k + u + 1) * PAGE_SIZE
    BY <1>2, <1>3, <1>4, Sizes
  <2> QED
    BY <2>1, Sizes, MulCancel
<1>6. k + u < v + 1
  <2>1. (k + u) * PAGE_SIZE < (v + 1) * PAGE_SIZE
    BY <1>3, <1>4, Sizes
  <2> QED
    BY <2>1, Sizes, MulCancel
<1> QED
  BY <1>0, <1>1, <1>5, <1>6

LEMMA Zero == PFN_UP(0) = 0 /\ PFN_DOWN(0) = 0 /\ PFN_UP(PAGE_SIZE) = 1
<1>1. PICK u \in Nat : u = PFN_UP(0) /\ u * PAGE_SIZE < 0 + PAGE_SIZE
  BY Up
<1>2. u < 1
  <2>1. u * PAGE_SIZE < 1 * PAGE_SIZE
    BY <1>1, Sizes
  <2> QED
    BY <2>1, Sizes, MulCancel
<1>3. PFN_UP(1 * PAGE_SIZE + 0) = 1 + PFN_UP(0)
  BY UpOfPages
<1>4. 1 * PAGE_SIZE + 0 = PAGE_SIZE
  BY Sizes
<1>5. (0 * PAGE_SIZE + 0) \div PAGE_SIZE = 0 /\ 0 * PAGE_SIZE + 0 = 0
  BY Sizes, DivUnique
<1> QED
  BY <1>1, <1>2, <1>3, <1>4, <1>5 DEF PFN_DOWN

LEMMA ImageSizes ==
  /\ start_pfn \in Nat \ {0} /\ KernelEnd <= start_pfn * PAGE_SIZE
  /\ bootmap_size \in Nat /\ max_low_pfn \div 8 <= bootmap_size
  /\ max_low_pfn \div 8 \in Nat
  /\ ImageAndBitmap.addr = HIGH_MEMORY
  /\ ImageAndBitmap.size \in Nat \ {0}
  /\ ImageAndBitmap.addr + ImageAndBitmap.size
       = start_pfn * PAGE_SIZE + (bootmap_size + PAGE_SIZE - 1)
<1>1. start_pfn \in Nat /\ KernelEnd <= start_pfn * PAGE_SIZE
  BY Up, Sizes DEF start_pfn
<1>2. start_pfn # 0
  <2> SUFFICES ASSUME start_pfn = 0 PROVE FALSE
    OBVIOUS
  <2>1. start_pfn * PAGE_SIZE = 0
    BY Sizes
  <2> QED
    BY <1>1, <2>1, Sizes
<1>3. max_low_pfn \div 8 \in Nat /\ (max_low_pfn + 7) \div 8 \in Nat
      /\ max_low_pfn \div 8 <= (max_low_pfn + 7) \div 8
  BY Sizes
<1>4. bootmap_size \in Nat /\ (max_low_pfn + 7) \div 8 <= bootmap_size
  BY <1>3, Sizes, Rounded DEF bootmap_size
<1>5. PICK s \in Nat : s = start_pfn * PAGE_SIZE
  BY <1>1, Sizes
<1>6. /\ ImageAndBitmap.addr = HIGH_MEMORY
      /\ ImageAndBitmap.size = s + bootmap_size + PAGE_SIZE - 1 - HIGH_MEMORY
  BY <1>5 DEF ImageAndBitmap
<1>7. bootmap_size # 0
  <2>1. (max_low_pfn + 7) \div 8 # 0
    BY Sizes
  <2> QED
    BY <1>3, <1>4, <2>1
<1>8. ImageAndBitmap.size \in Nat \ {0}
  BY <1>1, <1>4, <1>5, <1>6, <1>7, Sizes
<1>9. ImageAndBitmap.addr + ImageAndBitmap.size
       = start_pfn * PAGE_SIZE + (bootmap_size + PAGE_SIZE - 1)
  BY <1>4, <1>5, <1>6, Sizes
<1>10. max_low_pfn \div 8 <= bootmap_size
  BY <1>3, <1>4
<1> QED
  BY <1>1, <1>2, <1>3, <1>4, <1>6, <1>8, <1>9, <1>10

(* The RAM of an entry that setup_arch frees.                              *)
LEMMA PartOfRam ==
  ASSUME NEW m \in E820Maps, NEW k \in DOMAIN m, IsUsable(m[k])
  PROVE  /\ m[k].type = "RAM"
         /\ RamPart(m[k]).addr \in Nat /\ RamPart(m[k]).size \in Nat \ {0}
         /\ PFN_UP(RamPart(m[k]).addr) = PFN_UP(m[k].addr)
         /\ PFN_DOWN(RamPart(m[k]).addr + RamPart(m[k]).size)
              <= PFN_DOWN(m[k].addr + m[k].size)
         /\ PFN_DOWN(RamPart(m[k]).addr + RamPart(m[k]).size) <= max_low_pfn
<1>1. m[k].addr \in Nat /\ m[k].addr + m[k].size \in Nat
  BY Entries
<1>2. PICK u \in Nat, d \in Nat : u = PFN_UP(m[k].addr) /\ d = PFN_DOWN(m[k].addr + m[k].size)
  BY <1>1, Up, DivMod, Sizes DEF PFN_DOWN
<1>3. PICK l \in Nat : l = Smaller(d, max_low_pfn)
  BY Sizes DEF Smaller
<1>4. l <= d /\ l <= max_low_pfn
  BY <1>3, Sizes DEF Smaller
<1>5. RamPart(m[k]).addr = u * PAGE_SIZE /\ RamPart(m[k]).size = (l - u) * PAGE_SIZE
  BY <1>2, <1>3 DEF RamPart
<1>6. m[k].type = "RAM" /\ (l - u) * PAGE_SIZE > 0
  BY <1>5 DEF IsUsable
<1>7. PICK us \in Nat, ls \in Nat : us = u * PAGE_SIZE /\ ls = l * PAGE_SIZE
  BY Sizes
<1>8. (l - u) * PAGE_SIZE = ls - us
  BY <1>7, Sizes
<1>9. RamPart(m[k]).addr + RamPart(m[k]).size = l * PAGE_SIZE + 0
  BY <1>5, <1>7, <1>8
<1>10. PFN_DOWN(RamPart(m[k]).addr + RamPart(m[k]).size) = l
  BY <1>9, Sizes, DivUnique DEF PFN_DOWN
<1>11. PFN_UP(u * PAGE_SIZE + 0) = u + PFN_UP(0) /\ u * PAGE_SIZE + 0 = us
  BY <1>7, UpOfPages
<1> QED
  BY <1>2, <1>4, <1>5, <1>6, <1>7, <1>8, <1>10, <1>11, Zero

LEMMA BootAssumed == BP!BootmemAssumption
<1>1. MaxAllocs \in Nat
  <2>1. (max_low_pfn + PTRS_PER_PTE - 1) \div PTRS_PER_PTE \in Nat
    BY Sizes, DivMod
  <2> QED
    BY <2>1, Sizes DEF MaxAllocs, PageTables
<1>2. FreeCalls \subseteq [addr : Nat, size : Nat]
  <2>1. ASSUME NEW m \in E820Maps, NEW k \in DOMAIN m, IsUsable(m[k])
        PROVE  RamPart(m[k]) \in [addr : Nat, size : Nat]
    <3>1. RamPart(m[k]).addr \in Nat /\ RamPart(m[k]).size \in Nat
      BY <2>1, PartOfRam
    <3>2. RamPart(m[k]) = [addr |-> RamPart(m[k]).addr, size |-> RamPart(m[k]).size]
      BY DEF RamPart
    <3> QED
      BY <3>1, <3>2
  <2> QED
    BY <2>1 DEF FreeCalls
<1>3. ReserveCalls \subseteq [addr : Nat, size : Nat]
  <2>1. ImageAndBitmap \in [addr : Nat, size : Nat]
    <3>1. ImageAndBitmap = [addr |-> ImageAndBitmap.addr, size |-> ImageAndBitmap.size]
      BY DEF ImageAndBitmap
    <3> QED
      BY <3>1, ImageSizes, Sizes
  <2>2. PageZero \in [addr : Nat, size : Nat]
    BY Sizes DEF PageZero
  <2> QED
    BY <2>1, <2>2 DEF ReserveCalls
<1>4. PAGE_SIZE % PAGE_SIZE = 0 /\ max_low_pfn * PAGE_SIZE \in Nat
  <2>1. (1 * PAGE_SIZE + 0) % PAGE_SIZE = 0
    BY Sizes, DivUnique
  <2> QED
    BY <2>1, Sizes
<1>5. ASSUME NEW size \in Nat
      PROVE  /\ LowPages(size) \in [size : Nat, align : Nat \ {0}, goal : Nat]
             /\ Low(size) \in [size : Nat, align : Nat \ {0}, goal : Nat]
             /\ Node(size) \in [size : Nat, align : Nat \ {0}, goal : Nat]
             /\ PAGE_SIZE % LowPages(size).align = 0
             /\ PAGE_SIZE % Low(size).align = 0
             /\ PAGE_SIZE % Node(size).align = 0
  BY <1>4, Sizes DEF LowPages, Low, Node
<1>6. (max_low_pfn + 1) * PageStructSize \in Nat
  BY Sizes
<1>7. ASSUME NEW o \in 0 .. MAX_ORDER - 1
      PROVE  RoundUp((RoundUp(max_low_pfn, 2 * BlockSize[o]) \div BlockSize[o] + 7) \div 8, LongSize)
               \in Nat
  <2>1. PICK b \in Nat \ {0} : b = BlockSize[o]
    BY OrderSizes
  <2>2. PICK r \in Nat : r = RoundUp(max_low_pfn, 2 * b)
    BY Rounded, Sizes
  <2>3. r \div b \in Nat
    BY DivMod
  <2>4. (r \div b + 7) \div 8 \in Nat
    BY <2>3
  <2> QED
    BY <2>1, <2>2, <2>4, Rounded, Sizes
<1>8. \A c \in AllocCalls : /\ c \in [size : Nat, align : Nat \ {0}, goal : Nat]
                            /\ PAGE_SIZE % c.align = 0
  <2>1. \A o \in 0 .. MAX_ORDER - 1 :
          /\ OrderMapCall(o) \in [size : Nat, align : Nat \ {0}, goal : Nat]
          /\ PAGE_SIZE % OrderMapCall(o).align = 0
    BY <1>5, <1>7 DEF OrderMapCall
  <2>2. /\ MemMapCall \in [size : Nat, align : Nat \ {0}, goal : Nat]
        /\ PAGE_SIZE % MemMapCall.align = 0
    BY <1>5, <1>6 DEF MemMapCall
  <2>3. /\ LowPages(PAGE_SIZE) \in [size : Nat, align : Nat \ {0}, goal : Nat]
        /\ PAGE_SIZE % LowPages(PAGE_SIZE).align = 0
        /\ Low(ResourceSize) \in [size : Nat, align : Nat \ {0}, goal : Nat]
        /\ PAGE_SIZE % Low(ResourceSize).align = 0
    BY <1>5, Sizes
  <2> QED
    BY <2>1, <2>2, <2>3 DEF AllocCalls
<1> QED
  BY <1>1, <1>2, <1>3, <1>8, Sizes DEF BP!BootmemAssumption

LEMMA ZoneAssumed == ZP!OrderAssumption /\ ZP!BlockSizeAssumption /\ ZP!ZoneAssumption
<1>1. MAX_ORDER \in Nat \ {0} /\ ZP!Orders = 0 .. MAX_ORDER - 1 /\ ZP!Top = MAX_ORDER - 1
  BY Sizes DEF ZP!Orders, ZP!Top
<1>2. ZP!OrderAssumption
  BY <1>1 DEF ZP!OrderAssumption
<1>3. ZP!BlockSizeAssumption
  <2>1. \A o \in ZP!Orders : o # ZP!Top => BlockSize[o + 1] = 2 * BlockSize[o]
    <3> SUFFICES ASSUME NEW o \in ZP!Orders, o # ZP!Top
                 PROVE  BlockSize[o + 1] = 2 * BlockSize[o]
      OBVIOUS
    <3>1. o \in 0 .. MAX_ORDER - 2
      BY <1>1
    <3> QED
      BY <3>1, OrderSizes
  <2>2. \A j, k \in ZP!Orders :
          j + k \in ZP!Orders => BlockSize[j + k] = BlockSize[j] * BlockSize[k]
    <3> SUFFICES ASSUME NEW j \in ZP!Orders, NEW k \in ZP!Orders, j + k \in ZP!Orders
                 PROVE  BlockSize[j + k] = BlockSize[j] * BlockSize[k]
      OBVIOUS
    <3>1. j \in 0 .. MAX_ORDER - 1 /\ k \in 0 .. MAX_ORDER - 1 /\ j + k < MAX_ORDER
      BY <1>1
    <3> QED
      BY <3>1, OrderSizes
  <2>3. BlockSize \in [ZP!Orders -> Nat \ {0}] /\ BlockSize[0] = 1
    BY <1>1, OrderSizes
  <2> QED
    BY <2>1, <2>2, <2>3 DEF ZP!BlockSizeAssumption
<1>4. ZP!ZoneAssumption
  BY Sizes DEF ZP!ZoneAssumption
<1> QED
  BY <1>2, <1>3, <1>4
----------------------------------------------------------------------------
(* MemInit's instances of the allocators and the ones of their proofs      *)
(* define the same.                                                        *)

LEMMA SamePages ==
  /\ Boot!Pages = Pages /\ BP!Pages = Pages
  /\ \A x : PFN_UP(x) = BP!PFN_UP(x) /\ PFN_DOWN(x) = BP!PFN_DOWN(x)
  /\ \A x : PFN_UP(x) = Boot!PFN_UP(x) /\ PFN_DOWN(x) = Boot!PFN_DOWN(x)
  /\ \A a, s : /\ Boot!PagesTouched(a, s) = BP!PagesTouched(a, s)
               /\ Boot!PagesCovered(a, s) = BP!PagesCovered(a, s)
BY DEF Boot!Pages, BP!Pages, Pages, PFN_UP, PFN_DOWN, BP!PFN_UP, BP!PFN_DOWN,
       Boot!PFN_UP, Boot!PFN_DOWN, Boot!PagesTouched, BP!PagesTouched,
       Boot!PagesCovered, BP!PagesCovered

LEMMA SameCardinality ==
  \A S : /\ Boot!Cardinality(S) = Cardinality(S) /\ BP!Cardinality(S) = Cardinality(S)
         /\ ZP!Cardinality(S) = Cardinality(S)
BY DEF Boot!Cardinality, BP!Cardinality, ZP!Cardinality, Cardinality

LEMMA SameFree ==
  ASSUME NEW a, NEW s
  PROVE  Boot!FreeBootmem(a, s) <=> BP!FreeBootmem(a, s)
BY SamePages DEF Boot!FreeBootmem, BP!FreeBootmem

LEMMA SameReserve ==
  ASSUME NEW a, NEW s
  PROVE  Boot!ReserveBootmem(a, s) <=> BP!ReserveBootmem(a, s)
BY SamePages DEF Boot!ReserveBootmem, BP!ReserveBootmem

LEMMA SameStart ==
  ASSUME NEW s, NEW al, NEW g
  PROVE  Boot!StartPage(s, al, g) = BP!StartPage(s, al, g)
<1>1. \A f, n, z : Boot!GoodStarts(f, n, z) = BP!GoodStarts(f, n, z)
  BY SamePages DEF Boot!GoodStarts, BP!GoodStarts
<1>2. \A x : Boot!AlignUp(x, al) = BP!AlignUp(x, al)
  BY DEF Boot!AlignUp, BP!AlignUp
<1>3. \A S : Boot!Least(S) = BP!Least(S)
  BY DEF Boot!Least, BP!Least
<1> QED
  BY <1>1, <1>2, <1>3, SamePages DEF Boot!StartPage, BP!StartPage

LEMMA SamePlacement ==
  ASSUME NEW s, NEW al, NEW p
  PROVE  Boot!Placement(s, al, p) = BP!Placement(s, al, p)
<1>1. Boot!TailOffset(al) = BP!TailOffset(al)
  BY DEF Boot!TailOffset, BP!TailOffset, Boot!AlignUp, BP!AlignUp
<1>2. \A r : Boot!PagesBeyond(s, r) = BP!PagesBeyond(s, r)
  BY SamePages DEF Boot!PagesBeyond, BP!PagesBeyond
<1>3. \A x : Boot!OffsetInPage(x) = BP!OffsetInPage(x)
  BY DEF Boot!OffsetInPage, BP!OffsetInPage
<1>4. Boot!JoinsLast(p, al) = BP!JoinsLast(p, al)
  BY DEF Boot!JoinsLast, BP!JoinsLast
<1> QED
  BY <1>1, <1>2, <1>3, <1>4, SamePages DEF Boot!Placement, BP!Placement

LEMMA SameAlloc ==
  ASSUME NEW s, NEW al, NEW g
  PROVE  Boot!AllocBootmem(s, al, g) <=> BP!AllocBootmem(s, al, g)
BY SamePages, SameStart, SamePlacement DEF Boot!AllocBootmem, BP!AllocBootmem

LEMMA SameBoot ==
  /\ Boot!Init <=> BP!Init
  /\ [Boot!Next]_(Boot!vars) <=> [BP!Next]_(BP!vars)
<1>1. Boot!Init <=> BP!Init
  BY SamePages DEF Boot!Init, BP!Init
<1>2. (UNCHANGED Boot!vars) <=> (UNCHANGED BP!vars)
  BY DEF Boot!vars, BP!vars
<1>3. Boot!Next <=> BP!Next
  <2>1. \A S : Boot!Cardinality(S) = BP!Cardinality(S)
    BY SameCardinality
  <2> QED
    BY <2>1, SameFree, SameReserve, SameAlloc DEF Boot!Next, BP!Next
<1> QED
  BY <1>1, <1>2, <1>3

LEMMA SameZone ==
  /\ Zone!Init <=> ZP!Init
  /\ Zone!PageIdx = Pages /\ ZP!PageIdx = Pages
  /\ \A p : Zone!PreparePage(p) <=> ZP!PreparePage(p)
  /\ \A o, b : Zone!FreePages(o, b) <=> ZP!FreePages(o, b)
  /\ Zone!Merge <=> ZP!Merge
  /\ Zone!StopAtBuddyInUse <=> ZP!StopAtBuddyInUse
  /\ Zone!StopAtTopOrder <=> ZP!StopAtTopOrder
<1>1. /\ Zone!PageIdx = Pages /\ ZP!PageIdx = Pages
      /\ Zone!Orders = ZP!Orders /\ Zone!Top = ZP!Top /\ Zone!NR_CPUS = ZP!NR_CPUS
  BY DEF Zone!PageIdx, ZP!PageIdx, Pages, Zone!Orders, ZP!Orders, Zone!Top, ZP!Top,
         Zone!NR_CPUS, ZP!NR_CPUS
<1>2. /\ \A o, b : /\ Zone!BlockPages(o, b) = ZP!BlockPages(o, b)
                   /\ Zone!FirstPage(o, b) = ZP!FirstPage(o, b)
      /\ \A b : Zone!BuddyOf(b) = ZP!BuddyOf(b)
      /\ \A p : Zone!VALID_PAGE(p) <=> ZP!VALID_PAGE(p)
  BY DEF Zone!BlockPages, ZP!BlockPages, Zone!FirstPage, ZP!FirstPage, Zone!BuddyOf,
         ZP!BuddyOf, Zone!VALID_PAGE, ZP!VALID_PAGE
<1>3. \A o, b : /\ Zone!BadRange(o, b) <=> ZP!BadRange(o, b)
                /\ Zone!CallerMayPut(o, b) <=> ZP!CallerMayPut(o, b)
  BY <1>1, <1>2 DEF Zone!BadRange, ZP!BadRange, Zone!CallerMayPut, ZP!CallerMayPut
<1>4. Zone!Init <=> ZP!Init
  BY <1>1 DEF Zone!Init, ZP!Init
<1>5. \A p : Zone!PreparePage(p) <=> ZP!PreparePage(p)
  BY DEF Zone!PreparePage, ZP!PreparePage
<1>6. \A o, b : Zone!FreePages(o, b) <=> ZP!FreePages(o, b)
  BY <1>1, <1>2, <1>3 DEF Zone!FreePages, ZP!FreePages
<1>7. Zone!Merge <=> ZP!Merge
  BY <1>1, <1>2, <1>3 DEF Zone!Merge, ZP!Merge
<1>8. Zone!AddToList <=> ZP!AddToList
  BY <1>1 DEF Zone!AddToList, ZP!AddToList
<1>9. /\ Zone!StopAtBuddyInUse <=> ZP!StopAtBuddyInUse
      /\ Zone!StopAtTopOrder <=> ZP!StopAtTopOrder
  BY <1>1, <1>8 DEF Zone!StopAtBuddyInUse, ZP!StopAtBuddyInUse,
                    Zone!StopAtTopOrder, ZP!StopAtTopOrder
<1> QED
  BY <1>1, <1>4, <1>5, <1>6, <1>7, <1>9

LEMMA SameZoneNext == [Zone!Next]_(Zone!vars) <=> [ZP!Next]_(ZP!vars)
<1>1. (UNCHANGED Zone!vars) <=> (UNCHANGED ZP!vars)
  BY DEF Zone!vars, ZP!vars
<1>2. Zone!Next <=> ZP!Next
  BY SameZone DEF Zone!Next, ZP!Next
<1> QED
  BY <1>1, <1>2

LEMMA SamePool == Pool = ZP!FreeSet
<1>1. \A o, b : Zone!BlockPages(o, b) = ZP!BlockPages(o, b)
  BY DEF Zone!BlockPages, ZP!BlockPages
<1>2. Zone!PageIdx = ZP!PageIdx /\ Zone!Orders = ZP!Orders
  BY DEF Zone!PageIdx, ZP!PageIdx, Zone!Orders, ZP!Orders
<1>3. Zone!ListedPages = ZP!ListedPages /\ Zone!MovingPages = ZP!MovingPages
  BY <1>1, <1>2 DEF Zone!ListedPages, ZP!ListedPages, Zone!MovingPages, ZP!MovingPages
<1> QED
  BY <1>3 DEF Pool, ZP!FreeSet
----------------------------------------------------------------------------
(* Where things are *)

(* The image and the bitmap are what is reserved, and behind the image the *)
(* pages of the bitmap that mem_init gives back.                           *)
LEMMA ImageRight ==
  /\ ImageEnd \in Nat /\ ImageUsed \subseteq Nat
  /\ BP!PagesTouched(ImageAndBitmap.addr, ImageAndBitmap.size) = ImageUsed
  /\ BP!PagesTouched(PageZero.addr, PageZero.size) = {0}
  /\ BitmapPages \in Nat /\ BitmapPages <= PFN_UP(bootmap_size)
  /\ PFN_UP(bootmap_size) \in Nat
  /\ start_pfn + PFN_UP(bootmap_size) <= ImageEnd
  /\ PFN_DOWN(HIGH_MEMORY) \in Nat /\ PFN_DOWN(HIGH_MEMORY) <= start_pfn
<1>1. PICK s \in Nat \ {0}, z \in Nat : s = start_pfn /\ z = bootmap_size
  BY ImageSizes
<1>2. z + PAGE_SIZE - 1 \in Nat /\ z <= z + PAGE_SIZE - 1
  BY Sizes
<1>3. ImageEnd = s + PFN_UP(z + PAGE_SIZE - 1)
  <2>1. ImageAndBitmap.addr + ImageAndBitmap.size = s * PAGE_SIZE + (z + PAGE_SIZE - 1)
    BY <1>1, ImageSizes
  <2> QED
    BY <1>2, <2>1, UpOfPages DEF ImageEnd
<1>4. PFN_UP(z) \in Nat /\ PFN_UP(z + PAGE_SIZE - 1) \in Nat /\ PFN_UP(z) <= PFN_UP(z + PAGE_SIZE - 1)
  BY <1>2, Up, UpMono
<1>5. BitmapPages \in Nat /\ BitmapPages <= PFN_UP(z)
  <2>1. BitmapPages = PFN_UP(max_low_pfn \div 8)
    BY DEF BitmapPages, PFN_UP
  <2> QED
    BY <1>1, <2>1, Up, UpMono, ImageSizes
<1>6. PFN_DOWN(HIGH_MEMORY) \in Nat /\ PFN_DOWN(HIGH_MEMORY) <= s
  <2>1. PICK d \in Nat, r \in 0 .. PAGE_SIZE - 1 :
          d = HIGH_MEMORY \div PAGE_SIZE /\ HIGH_MEMORY = d * PAGE_SIZE + r
    <3>1. HIGH_MEMORY \in Nat /\ PAGE_SIZE \in Nat \ {0}
      BY Sizes
    <3> QED
      BY <3>1, DivMod
  <2>2. PICK ds \in Nat, ss \in Nat : ds = d * PAGE_SIZE /\ ss = s * PAGE_SIZE
    BY Sizes
  <2>3. (s + 1) * PAGE_SIZE = ss + PAGE_SIZE
    BY <2>2, Sizes
  <2>4. ds <= ss
    BY <1>1, <2>1, <2>2, ImageSizes, Sizes
  <2>5. d * PAGE_SIZE < (s + 1) * PAGE_SIZE
    BY <2>2, <2>3, <2>4, Sizes
  <2>6. d < s + 1
    BY <2>5, MulCancel, Sizes
  <2> QED
    BY <2>1, <2>6 DEF PFN_DOWN
<1>7. ImageEnd \in Nat /\ ImageUsed \subseteq Nat
  BY <1>3, <1>4, <1>6 DEF ImageUsed
<1>8. BP!PagesTouched(ImageAndBitmap.addr, ImageAndBitmap.size) = ImageUsed
  BY SamePages, ImageSizes DEF BP!PagesTouched, ImageUsed, ImageEnd
<1>9. BP!PagesTouched(PageZero.addr, PageZero.size) = {0}
  <2>1. BP!PagesTouched(PageZero.addr, PageZero.size) = PFN_DOWN(0) .. PFN_UP(PAGE_SIZE) - 1
    BY SamePages, Sizes DEF BP!PagesTouched, PageZero
  <2> QED
    BY <2>1, Zero
<1> QED
  BY <1>1, <1>3, <1>4, <1>5, <1>6, <1>7, <1>8, <1>9

LEMMA BitmapPlace ==
  ASSUME NEW n \in Nat, n <= BitmapPages
  PROVE  /\ BitmapUpTo(n) \subseteq ImageUsed
         /\ BitmapUpTo(n) \cap ImagePages = {}
         /\ 0 \notin BitmapUpTo(n)
BY ImageRight, ImageSizes DEF BitmapUpTo, ImageUsed, ImagePages

LEMMA BitmapIsRam ==
  ASSUME e820 \in E820Maps, NEW n \in Nat, n <= BitmapPages, NEW p \in BitmapUpTo(n)
  PROVE  page_is_ram(p)
<1>1. p \in start_pfn .. start_pfn + BitmapPages - 1
  BY ImageRight, ImageSizes DEF BitmapUpTo
<1> QED
  BY <1>1, MemInitAssumption DEF page_is_ram
----------------------------------------------------------------------------
(* Every step is a step of the two allocators, or leaves them alone *)

LEMMA FreeRamPart ==
  ASSUME IInv, FreeRam
  PROVE  \/ UNCHANGED bootVars
         \/ /\ IsUsable(e820[i + 1])
            /\ BP!FreeBootmem(RamPart(e820[i + 1]).addr, RamPart(e820[i + 1]).size)
BY SameFree DEF FreeRam

LEMMA EntryHere ==
  ASSUME Thread, i < Len(e820)
  PROVE  e820 \in E820Maps /\ i + 1 \in DOMAIN e820
BY Entries DEF Thread

LEMMA TablesNeeded == PageTables \in Nat \ {0}
<1>1. max_low_pfn + PTRS_PER_PTE - 1 \in Nat
  BY Sizes
<1>2. PICK q \in Nat, r \in 0 .. PTRS_PER_PTE - 1 :
        /\ q = (max_low_pfn + PTRS_PER_PTE - 1) \div PTRS_PER_PTE
        /\ max_low_pfn + PTRS_PER_PTE - 1 = q * PTRS_PER_PTE + r
  BY <1>1, DivMod, Sizes
<1>3. q # 0
  <2> SUFFICES ASSUME q = 0 PROVE FALSE
    OBVIOUS
  <2>1. q * PTRS_PER_PTE = 0
    BY Sizes
  <2> QED
    BY <1>2, <2>1, Sizes
<1> QED
  BY <1>2, <1>3, Sizes DEF PageTables

(* An allocation, while there are fewer of them than the model provides    *)
(* for. *)
LEMMA AllocStep ==
  ASSUME IInv, NEW c \in AllocCalls, Alloc(c),
         at \notin {"free_bootmem", "reserve_page0"}, Cardinality(allocs) < MaxAllocs
  PROVE  BP!Next
<1>1. BP!AllocBootmem(c.size, c.align, c.goal)
  BY SameAlloc DEF Alloc
<1>2. 0 \in taken
  BY DEF IInv, Reservations
<1> QED
  BY <1>1, <1>2, SameCardinality DEF BP!Next

LEMMA BootStep == IInv /\ [Next]_vars => [BP!Next]_(BP!vars)
<1> SUFFICES ASSUME IInv, [Next]_vars PROVE [BP!Next]_(BP!vars)
  OBVIOUS
<1> USE DEF IInv
<1>0. UNCHANGED bootVars => UNCHANGED BP!vars
  BY DEF bootVars, BP!vars
<1>1. CASE FreeRam
  <2>1. ASSUME IsUsable(e820[i + 1]) PROVE RamPart(e820[i + 1]) \in FreeCalls
    BY <1>1, <2>1, EntryHere DEF FreeRam, FreeCalls
  <2>2. taken = {} /\ allocs = {}
    BY <1>1 DEF FreeRam, Reservations
  <2> QED
    BY <1>0, <1>1, <2>1, <2>2, FreeRamPart DEF BP!Next
<1>2. CASE ReserveImage
  <2>1. BP!ReserveBootmem(ImageAndBitmap.addr, ImageAndBitmap.size) /\ allocs = {}
    BY <1>2, SameReserve DEF ReserveImage, Reservations
  <2> QED
    BY <2>1 DEF BP!Next, ReserveCalls
<1>3. CASE ReservePageZero
  <2>1. BP!ReserveBootmem(PageZero.addr, PageZero.size) /\ allocs = {}
    BY <1>3, SameReserve DEF ReservePageZero, Reservations
  <2> QED
    BY <2>1 DEF BP!Next, ReserveCalls
<1>4. IsFiniteSet(allocs) /\ Cardinality(allocs) \in Nat
  BY FS_CardinalityType DEF Budget
<1>5. CASE AllocPageTable
  <2>1. at = "pagetable_init" /\ LowPages(PAGE_SIZE) \in AllocCalls /\ Alloc(LowPages(PAGE_SIZE))
    BY <1>5 DEF AllocPageTable, AllocCalls
  <2>2. Cardinality(allocs) < MaxAllocs
    BY <1>4, <2>1, TablesNeeded, Sizes DEF Budget, Thread, MaxAllocs
  <2> QED
    BY <2>1, <2>2, AllocStep
<1>6. CASE AllocMemMap
  <2>1. at = "mem_map" /\ MemMapCall \in AllocCalls /\ Alloc(MemMapCall)
    BY <1>6 DEF AllocMemMap, AllocCalls
  <2>2. Cardinality(allocs) < MaxAllocs
    BY <1>4, <2>1, TablesNeeded, Sizes DEF Budget, Thread, MaxAllocs
  <2> QED
    BY <2>1, <2>2, AllocStep
<1>7. CASE AllocOrderMap
  <2>1. at = "free_area" /\ i < MAX_ORDER /\ i \in Nat
    BY <1>7 DEF AllocOrderMap, Thread
  <2>2. OrderMapCall(i) \in AllocCalls /\ Alloc(OrderMapCall(i))
    BY <1>7, <2>1, Sizes DEF AllocOrderMap, AllocCalls
  <2>3. Cardinality(allocs) < MaxAllocs
    BY <1>4, <2>1, TablesNeeded, Sizes DEF Budget, MaxAllocs
  <2> QED
    BY <2>1, <2>2, <2>3, AllocStep
<1>8. CASE AllocResource
  <2>1. at = "resources" /\ i < Len(e820) /\ i \in Nat /\ Len(e820) \in Nat /\ Len(e820) <= E820MAX
    BY <1>8, Entries DEF AllocResource, Thread
  <2>2. CASE UNCHANGED bootVars
    BY <1>0, <2>2
  <2>3. CASE Alloc(Low(ResourceSize))
    <3>1. Low(ResourceSize) \in AllocCalls
      BY DEF AllocCalls
    <3>2. Cardinality(allocs) < MaxAllocs
      BY <1>4, <2>1, TablesNeeded, Sizes DEF Budget, MaxAllocs
    <3> QED
      BY <2>1, <2>3, <3>1, <3>2, AllocStep
  <2> QED
    BY <1>8, <2>2, <2>3 DEF AllocResource
<1>9. CASE \/ StartRelease \/ SkipPage \/ PreparePage \/ PutPage \/ MergePage \/ ListPage
           \/ StartBitmap \/ CountReserved \/ UNCHANGED vars
  BY <1>0, <1>9 DEF StartRelease, SkipPage, PreparePage, PutPage, MergePage, ListPage,
                    StartBitmap, CountReserved, vars
<1> QED
  BY <1>1, <1>2, <1>3, <1>5, <1>6, <1>7, <1>8, <1>9 DEF Next

LEMMA ZoneStep == IInv /\ [Next]_vars => [ZP!Next]_(ZP!vars)
<1> SUFFICES ASSUME IInv, [Next]_vars PROVE [ZP!Next]_(ZP!vars)
  OBVIOUS
<1>0. UNCHANGED zoneVars => UNCHANGED ZP!vars
  BY DEF zoneVars, ZP!vars
<1>1. CASE PreparePage
  <2>1. ZP!PreparePage(ThePage) /\ ThePage \in held
    BY <1>1, SameZone DEF PreparePage, Zone!PreparePage
  <2>2. ThePage \in ZP!PageIdx
    BY <2>1 DEF IInv, ZP!IInv, ZP!TypeOK
  <2> QED
    BY <2>1, <2>2 DEF ZP!Next
<1>2. CASE PutPage
  <2>1. ZP!FreePages(0, ThePage) /\ ThePage \in ZP!PageIdx
    BY <1>2, SameZone DEF PutPage, Prepared
  <2> QED
    BY <2>1 DEF ZP!Next
<1>3. CASE MergePage
  BY <1>3, SameZone DEF MergePage, ZP!Next
<1>4. CASE ListPage
  BY <1>4, SameZone DEF ListPage, ZP!Next
<1>5. CASE FreeRam \/ ReserveImage \/ ReservePageZero \/ AllocPageTable \/ AllocMemMap
           \/ AllocOrderMap \/ AllocResource
  BY <1>0, <1>5 DEF FreeRam, ReserveImage, ReservePageZero, AllocPageTable, AllocMemMap,
                    AllocOrderMap, AllocResource, Alloc
<1>6. CASE StartRelease \/ SkipPage \/ StartBitmap \/ CountReserved \/ UNCHANGED vars
  BY <1>0, <1>6 DEF StartRelease, SkipPage, StartBitmap, CountReserved, vars
<1> QED
  BY <1>1, <1>2, <1>3, <1>4, <1>5, <1>6 DEF Next

(* So the allocators' own invariants go on holding. *)
LEMMA AllocatorsKept ==
  ASSUME IInv, [Next]_vars
  PROVE  BP!IInv' /\ ZP!IInv' /\ ZP!FreePagesExact'
<1>1. BP!IInv'
  BY BootStep, BootAssumed, BP!NextIInv DEF IInv
<1>2. ZP!IInv'
  BY ZoneStep, ZoneAssumed, ZP!NextIInv DEF IInv
<1>3. ZP!FreePagesExact'
  BY ZoneStep, ZoneAssumed, ZP!NextExact DEF IInv
<1> QED
  BY <1>1, <1>2, <1>3
----------------------------------------------------------------------------
(* The inductive invariant, part by part *)

LEMMA MergeIsDue ==
  ASSUME IInv, MergePage \/ ListPage
  PROVE  Due /\ Releasing /\ InLoop /\ pc = "merge"
<1>1. pc = "merge"
  BY DEF MergePage, ListPage, Zone!Merge, Zone!StopAtBuddyInUse, Zone!StopAtTopOrder
<1> QED
  BY <1>1 DEF IInv, Pools, Due

LEMMA ThreadKept == IInv /\ [Next]_vars => Thread'
<1> SUFFICES ASSUME IInv, [Next]_vars PROVE Thread'
  OBVIOUS
<1> USE DEF Thread, Calls, Setup
<1>0. Thread /\ max_low_pfn \in Nat \ {0} /\ MAX_ORDER \in Nat \ {0} /\ BitmapPages \in Nat
      /\ PageTables \in Nat \ {0} /\ Len(e820) \in Nat
  BY Sizes, ImageRight, TablesNeeded, Entries DEF IInv
<1>1. CASE FreeRam \/ ReserveImage \/ ReservePageZero
  BY <1>0, <1>1 DEF FreeRam, ReserveImage, ReservePageZero, Goto
<1>2. CASE AllocPageTable \/ AllocMemMap \/ AllocOrderMap \/ AllocResource
  BY <1>0, <1>2 DEF AllocPageTable, AllocMemMap, AllocOrderMap, AllocResource, Alloc, Goto
<1>3. CASE StartRelease \/ SkipPage \/ PreparePage \/ PutPage \/ StartBitmap \/ CountReserved
  BY <1>0, <1>3 DEF StartRelease, SkipPage, PreparePage, PutPage, StartBitmap, CountReserved, Goto
<1>4. CASE MergePage \/ ListPage
  <2>1. Releasing /\ InLoop
    BY <1>4, MergeIsDue
  <2> QED
    BY <1>0, <1>4, <2>1 DEF MergePage, ListPage, Releasing, InLoop
<1>5. CASE UNCHANGED vars
  BY <1>0, <1>5 DEF vars
<1> QED
  BY <1>1, <1>2, <1>3, <1>4, <1>5 DEF Next

LEMMA ReservationsKept == IInv /\ [Next]_vars => Reservations'
<1> SUFFICES ASSUME IInv, [Next]_vars PROVE Reservations'
  OBVIOUS
<1> USE DEF Reservations
<1>0. Reservations /\ max_low_pfn \in Nat \ {0} /\ ImageEnd \in Nat
  BY Sizes, ImageRight DEF IInv
<1>1. CASE FreeRam
  BY <1>0, <1>1, FreeRamPart DEF FreeRam, bootVars, BP!FreeBootmem
<1>2. CASE ReserveImage
  <2>1. BP!ReserveBootmem(ImageAndBitmap.addr, ImageAndBitmap.size)
        /\ at = "free_bootmem" /\ at' = "reserve_page0"
    BY <1>2, SameReserve DEF ReserveImage, Goto
  <2>2. ImageAndBitmap.size # 0
    BY ImageSizes
  <2>3. BP!PFN_UP(ImageAndBitmap.addr + ImageAndBitmap.size) = ImageEnd
    BY SamePages DEF ImageEnd
  <2>4. ASSUME ~halted' PROVE taken' = ImageUsed /\ ImageEnd <= max_low_pfn
    <3>1. ~(ImageEnd > max_low_pfn) /\ taken' = taken \cup ImageUsed
      BY <2>1, <2>2, <2>3, <2>4, ImageRight DEF BP!ReserveBootmem
    <3> QED
      BY <1>0, <2>1, <3>1
  <2> QED
    BY <1>0, <2>1, <2>4 DEF BP!ReserveBootmem
<1>3. CASE ReservePageZero
  <2>1. BP!ReserveBootmem(PageZero.addr, PageZero.size)
        /\ at = "reserve_page0" /\ at' = "pagetable_init" /\ ~halted
    BY <1>3, SameReserve DEF ReservePageZero, Goto, BP!ReserveBootmem
  <2>2. PageZero.size # 0 /\ BP!PFN_UP(PageZero.addr + PageZero.size) = 1
    BY SamePages, Sizes, Zero DEF PageZero
  <2>3. taken' = taken \cup {0}
    BY <1>0, <2>1, <2>2, ImageRight DEF BP!ReserveBootmem
  <2> QED
    BY <1>0, <2>1, <2>3
<1>4. CASE AllocPageTable \/ AllocMemMap \/ AllocOrderMap \/ AllocResource
  <2>1. UNCHANGED taken
    BY <1>4 DEF AllocPageTable, AllocMemMap, AllocOrderMap, AllocResource, Alloc, bootVars,
                Boot!AllocBootmem
  <2>2. at \notin {"free_bootmem", "reserve_page0"} /\ at' \notin {"free_bootmem", "reserve_page0"}
    BY <1>4 DEF AllocPageTable, AllocMemMap, AllocOrderMap, AllocResource, Goto
  <2> QED
    BY <1>0, <2>1, <2>2
<1>5. CASE StartRelease \/ SkipPage \/ PreparePage \/ PutPage \/ StartBitmap \/ CountReserved
           \/ MergePage \/ ListPage
  <2>1. UNCHANGED bootVars
    BY <1>5 DEF StartRelease, SkipPage, PreparePage, PutPage, StartBitmap, CountReserved,
                MergePage, ListPage
  <2>2. at \notin {"free_bootmem", "reserve_page0"} /\ at' \notin {"free_bootmem", "reserve_page0"}
    BY <1>5 DEF StartRelease, SkipPage, PreparePage, PutPage, StartBitmap, CountReserved,
                MergePage, ListPage, Goto, Releasing
  <2> QED
    BY <1>0, <2>1, <2>2 DEF bootVars
<1>6. CASE UNCHANGED vars
  BY <1>0, <1>6 DEF vars, bootVars
<1> QED
  BY <1>1, <1>2, <1>3, <1>4, <1>5, <1>6 DEF Next

(* A call of the boot allocator adds one allocation at most. *)
LEMMA OneMore ==
  ASSUME IsFiniteSet(allocs), NEW call, Alloc(call)
  PROVE  IsFiniteSet(allocs') /\ Cardinality(allocs) \in Nat /\ Cardinality(allocs') \in Nat
         /\ Cardinality(allocs') <= Cardinality(allocs) + 1
<1>1. allocs' = allocs \/ \E x : allocs' = allocs \cup {x}
  BY DEF Alloc, Boot!AllocBootmem
<1>2. Cardinality(allocs) \in Nat
  BY FS_CardinalityType
<1>3. CASE allocs' = allocs
  BY <1>2, <1>3
<1>4. ASSUME NEW x, allocs' = allocs \cup {x}
      PROVE  /\ IsFiniteSet(allocs') /\ Cardinality(allocs') \in Nat
             /\ Cardinality(allocs') <= Cardinality(allocs) + 1
  <2>1. /\ IsFiniteSet(allocs \cup {x})
        /\ \/ Cardinality(allocs \cup {x}) = Cardinality(allocs)
           \/ Cardinality(allocs \cup {x}) = Cardinality(allocs) + 1
    BY FS_AddElement
  <2> QED
    BY <1>2, <1>4, <2>1
<1> QED
  BY <1>1, <1>2, <1>3, <1>4

LEMMA BudgetKept == IInv /\ [Next]_vars => Budget'
<1> SUFFICES ASSUME IInv, [Next]_vars PROVE Budget'
  OBVIOUS
<1> USE DEF Budget
<1>0. /\ Budget /\ i \in Nat /\ Cardinality(allocs) \in Nat
      /\ MAX_ORDER \in Nat /\ PageTables \in Nat
  BY Sizes, TablesNeeded, FS_CardinalityType DEF IInv, Thread
<1>1. CASE FreeRam \/ ReserveImage \/ ReservePageZero
  <2>1. at \in {"free_bootmem", "reserve_page0"}
    BY <1>1 DEF FreeRam, ReserveImage, ReservePageZero
  <2>2. UNCHANGED allocs
    BY <1>1, FreeRamPart
       DEF ReserveImage, ReservePageZero, Boot!ReserveBootmem, BP!FreeBootmem, bootVars
  <2>3. Cardinality(allocs) = 0
    BY <2>1, FS_EmptySet DEF IInv, Reservations
  <2>4. at' \in {"free_bootmem", "reserve_page0"} \/ (at' = "pagetable_init" /\ i' = 0)
    BY <1>1 DEF FreeRam, ReserveImage, ReservePageZero, Goto
  <2> QED
    BY <1>0, <2>2, <2>3, <2>4
<1>2. CASE AllocPageTable
  BY <1>0, <1>2, OneMore DEF AllocPageTable, Goto, IInv, Thread
<1>3. CASE AllocMemMap
  BY <1>0, <1>3, OneMore DEF AllocMemMap, Goto
<1>4. CASE AllocOrderMap
  BY <1>0, <1>4, OneMore DEF AllocOrderMap, Goto, IInv, Thread
<1>5. CASE AllocResource
  <2>1. at = "resources" /\ at' = at /\ i' = i + 1
    BY <1>5 DEF AllocResource
  <2>2. UNCHANGED allocs \/ Alloc(Low(ResourceSize))
    BY <1>5 DEF AllocResource, bootVars
  <2> QED
    BY <1>0, <2>1, <2>2, OneMore
<1>6. CASE StartRelease \/ SkipPage \/ PreparePage \/ PutPage \/ StartBitmap \/ CountReserved
           \/ MergePage \/ ListPage
  <2>1. UNCHANGED allocs
    BY <1>6 DEF StartRelease, SkipPage, PreparePage, PutPage, StartBitmap, CountReserved,
                MergePage, ListPage, bootVars
  <2>2. at' \in {"pages", "bitmap", "done"}
    BY <1>6 DEF StartRelease, SkipPage, PreparePage, PutPage, StartBitmap, CountReserved,
                MergePage, ListPage, Goto, Releasing
  <2> QED
    BY <1>0, <2>1, <2>2
<1>7. CASE UNCHANGED vars
  BY <1>0, <1>7 DEF vars, bootVars
<1> QED
  BY <1>1, <1>2, <1>3, <1>4, <1>5, <1>6, <1>7 DEF Next

(* Only the pages that lie in a RAM entry of the map as wholes are freed.  *)
LEMMA RamOnlyKept == IInv /\ [Next]_vars => RamOnly'
<1> SUFFICES ASSUME IInv, [Next]_vars PROVE RamOnly'
  OBVIOUS
<1>0. RamOnly
  BY DEF IInv
<1>1. UNCHANGED e820
  BY DEF Next, FreeRam, ReserveImage, ReservePageZero, AllocPageTable, AllocMemMap,
         AllocOrderMap, AllocResource, Alloc, StartRelease, SkipPage, PreparePage, PutPage,
         StartBitmap, CountReserved, MergePage, ListPage, vars
<1>2. CASE UNCHANGED ram
  BY <1>0, <1>1, <1>2 DEF RamOnly, page_is_ram
<1>3. CASE FreeRam /\ ~(UNCHANGED ram)
  <2> DEFINE k == i + 1
             part == RamPart(e820[k])
  <2>1. IsUsable(e820[k]) /\ BP!FreeBootmem(part.addr, part.size)
    BY <1>3, FreeRamPart DEF bootVars
  <2>2. e820 \in E820Maps /\ k \in DOMAIN e820
    BY <1>3, EntryHere DEF FreeRam, IInv
  <2>3. \A p \in ram' : p \in ram \/ p \in BP!PagesCovered(part.addr, part.size)
    BY <2>1 DEF BP!FreeBootmem
  <2>4. ASSUME NEW p \in BP!PagesCovered(part.addr, part.size)
        PROVE  p \in Pages /\ page_is_ram(p)
    <3>1. p \in PFN_UP(part.addr) .. PFN_DOWN(part.addr + part.size) - 1
      BY SamePages DEF BP!PagesCovered
    <3>2. PFN_UP(part.addr) \in Nat /\ part.addr + part.size \in Nat
      BY <2>1, <2>2, PartOfRam, Up
    <3>3. PFN_DOWN(part.addr + part.size) \in Nat
      BY <3>2, DivMod, Sizes DEF PFN_DOWN
    <3>4. e820[k].addr + e820[k].size \in Nat
      BY <2>2, Entries
    <3>5. PFN_DOWN(e820[k].addr + e820[k].size) \in Nat
      BY <3>4, DivMod, Sizes DEF PFN_DOWN
    <3>6. /\ e820[k].type = "RAM"
          /\ PFN_UP(part.addr) = PFN_UP(e820[k].addr)
          /\ PFN_DOWN(part.addr + part.size) <= PFN_DOWN(e820[k].addr + e820[k].size)
          /\ PFN_DOWN(part.addr + part.size) <= max_low_pfn
      BY <2>1, <2>2, PartOfRam
    <3>7. p \in Nat /\ p < max_low_pfn /\ p >= PFN_UP(e820[k].addr)
          /\ p < PFN_DOWN(e820[k].addr + e820[k].size)
      BY <3>1, <3>2, <3>3, <3>5, <3>6, Sizes
    <3> QED
      BY <2>2, <3>6, <3>7, Sizes DEF Pages, page_is_ram
  <2> HIDE DEF part, k
  <2> QED
    BY <1>0, <1>1, <2>3, <2>4 DEF RamOnly, page_is_ram
<1>4. FreeRam \/ UNCHANGED ram
  BY DEF Next, FreeRam, ReserveImage, ReservePageZero, AllocPageTable, AllocMemMap,
         AllocOrderMap, AllocResource, Alloc, StartRelease, SkipPage, PreparePage, PutPage,
         StartBitmap, CountReserved, MergePage, ListPage, vars, bootVars,
         Boot!ReserveBootmem, Boot!AllocBootmem
<1> QED
  BY <1>2, <1>3, <1>4
----------------------------------------------------------------------------
(* The zone, and what has been released so far *)

(* Where the bitmap says that a page is not free. *)
LEMMA MapHolds ==
  ASSUME IInv, at \notin {"free_bootmem", "reserve_page0"}
  PROVE  /\ ImageUsed \cup {0} \subseteq node_bootmem_map
         /\ node_bootmem_map \subseteq Pages /\ ImageUsed \subseteq Pages
         /\ Pages \ node_bootmem_map \subseteq ram \ (ImageUsed \cup {0})
<1>1. taken = ImageUsed \cup {0}
  BY DEF IInv, Reservations
<1>2. BP!MapExact /\ node_bootmem_map \subseteq Pages /\ taken \subseteq Pages
  BY SamePages DEF IInv, BP!IInv, BP!Types
<1> QED
  BY <1>1, <1>2, SamePages DEF BP!MapExact

LEMMA PageDue ==
  ASSUME IInv, Due
  PROVE  /\ ThePage \in Pages /\ ThePage \notin Released
         /\ at = "pages" => i < max_low_pfn /\ i \notin node_bootmem_map
         /\ at = "bitmap" => i < BitmapPages /\ ThePage \in ImageUsed
<1>1. i \in Nat /\ max_low_pfn \in Nat /\ start_pfn \in Nat /\ BitmapPages \in Nat
  BY Sizes, ImageSizes, ImageRight DEF IInv, Thread
<1>2. CASE at = "pages"
  BY <1>1, <1>2 DEF Due, InLoop, ThePage, Released, Pages
<1>3. CASE at = "bitmap"
  <2>1. ThePage = start_pfn + i /\ i < BitmapPages
    BY <1>3 DEF Due, InLoop, ThePage
  <2>2. ThePage \in BitmapUpTo(i + 1) /\ i + 1 \in Nat /\ i + 1 <= BitmapPages
        /\ ThePage \notin BitmapUpTo(i)
    BY <1>1, <2>1 DEF BitmapUpTo
  <2>3. ThePage \in ImageUsed
    BY <2>2, BitmapPlace
  <2> QED
    BY <1>3, <2>1, <2>2, <2>3, MapHolds DEF Released
<1> QED
  BY <1>2, <1>3 DEF Due, Releasing

(* A turn of a loop ends: its page is one of those released. *)
LEMMA ReleasedGrows ==
  ASSUME IInv, Due, i' = i + 1, UNCHANGED <<at, node_bootmem_map>>
  PROVE  Released' = Released \cup {ThePage}
<1>1. i \in Nat /\ start_pfn \in Nat
  BY ImageSizes DEF IInv, Thread
<1>2. CASE at = "pages"
  <2>1. 0 .. i + 1 - 1 = (0 .. i - 1) \cup {i}
    BY <1>1
  <2> QED
    BY <1>2, <2>1, PageDue DEF Released, ThePage
<1>3. CASE at = "bitmap"
  <2>1. start_pfn .. start_pfn + (i + 1) - 1 = (start_pfn .. start_pfn + i - 1) \cup {start_pfn + i}
    BY <1>1
  <2>2. BitmapUpTo(i + 1) = BitmapUpTo(i) \cup {ThePage}
    BY <1>3, <2>1 DEF BitmapUpTo, ThePage
  <2>3. Released' = (Pages \ node_bootmem_map) \cup BitmapUpTo(i + 1)
    BY <1>3 DEF Released, BitmapUpTo, Pages
  <2> QED
    BY <1>3, <2>2, <2>3 DEF Released
<1> QED
  BY <1>2, <1>3 DEF Due, Releasing

(* What the allocators' actions do to the set of free pages. *)
LEMMA PutAdds ==
  ASSUME IInv, PutPage
  PROVE  /\ ZP!FreeSet' = ZP!FreeSet \cup {ThePage} /\ free_pages' = free_pages + 1
         /\ pc = "idle" /\ pc' = "merge" /\ held' = held \ {ThePage}
         /\ count' = [count EXCEPT ![ThePage] = 0] /\ UNCHANGED reserved
<1>1. ZP!FreePages(0, ThePage) /\ ThePage \in Pages /\ count[ThePage] = 1
  BY SameZone DEF PutPage, Prepared
<1>2. BlockSize[0] = 1 /\ ThePage \in Nat
  BY <1>1, OrderSizes, Sizes
<1>3. ZP!FirstPage(0, ThePage) = ThePage /\ ZP!BlockPages(0, ThePage) = {ThePage}
  BY <1>2 DEF ZP!FirstPage, ZP!BlockPages
<1>4. ZP!VALID_PAGE(ThePage)
  BY <1>1, Sizes DEF ZP!VALID_PAGE, Pages
<1>5. /\ free_pages' = free_pages + 1 /\ held' = held \ {ThePage} /\ UNCHANGED reserved
      /\ pc = "idle" /\ pc' = "merge" /\ blk' = ThePage
      /\ count' = [count EXCEPT ![ThePage] = @ - 1]
  BY <1>1, <1>2, <1>3, <1>4 DEF ZP!FreePages
<1>6. count' = [count EXCEPT ![ThePage] = 0]
  BY <1>1, <1>5
<1>7. free_pages \in Nat
  BY DEF IInv, ZP!IInv, ZP!TypeOK
<1>8. ZP!IInv /\ [ZP!Next]_(ZP!vars)
  BY ZoneStep DEF IInv, Next
<1>9. \E o \in {0}, b \in ZP!PageIdx :
        blk' = b /\ ZP!FreeSet' = ZP!FreeSet \cup ZP!BlockPages(o, b)
  BY <1>5, <1>7, <1>8, ZoneAssumed, ZP!FreeSetSteps
<1> QED
  BY <1>3, <1>5, <1>6, <1>9

LEMMA OthersKeep ==
  ASSUME IInv, PreparePage \/ MergePage \/ ListPage
  PROVE  ZP!FreeSet' = ZP!FreeSet /\ UNCHANGED <<free_pages, held>>
<1>1. UNCHANGED <<free_pages, held>>
  BY DEF PreparePage, MergePage, ListPage, Zone!PreparePage, Zone!Merge,
         Zone!StopAtBuddyInUse, Zone!StopAtTopOrder, Zone!AddToList
<1>2. ZP!IInv /\ [ZP!Next]_(ZP!vars)
  BY ZoneStep DEF IInv, Next
<1>3. free_pages \in Nat /\ BlockSize[0] = 1
  BY OrderSizes DEF IInv, ZP!IInv, ZP!TypeOK
<1>4. ~(\E o \in {0} : free_pages' = free_pages + BlockSize[o])
  BY <1>1, <1>3
<1>5. ZP!FreeSet' = ZP!FreeSet
  BY <1>2, <1>4, ZoneAssumed, ZP!FreeSetSteps
<1> QED
  BY <1>1, <1>5

LEMMA PoolUnchanged ==
  ASSUME UNCHANGED zoneVars
  PROVE  ZP!FreeSet' = ZP!FreeSet
BY DEF zoneVars, ZP!FreeSet, ZP!ListedPages, ZP!MovingPages

(* The steps of setup_arch and of what follows it before mem_init. *)
LEMMA SetupKeeps ==
  ASSUME IInv, UNCHANGED <<zoneVars, totalram_pages>>, at \in Setup,
         at' \in Setup \cup {"pages"}, at' = "pages" => i' = 0
  PROVE  Pools' /\ Flags' /\ Counted'
<1>1. Released = {} /\ ~Due
  BY DEF Setup, Released, Due, Releasing
<1>2. Released' = {}
  BY DEF Setup, Released
<1>3. pc # "merge" /\ pc' # "merge" /\ ZP!FreeSet = {} /\ ZP!FreeSet' = {}
  BY <1>1, PoolUnchanged DEF IInv, Pools, zoneVars
<1>4. Pools'
  BY <1>2, <1>3 DEF IInv, Pools, zoneVars, Pages
<1>5. Flags'
  BY <1>1, <1>3 DEF IInv, Flags, zoneVars, Pages
<1> QED
  BY <1>4, <1>5 DEF Counted, Setup

(* A turn that has nothing to release, or the end of a loop. *)
LEMMA TurnKeeps ==
  ASSUME IInv, ~Due, UNCHANGED <<zoneVars, totalram_pages>>, Released' = Released,
         at' = "done" => reservedpages' = Cardinality({p \in reserved : page_is_ram(p)}),
         UNCHANGED e820
  PROVE  Pools' /\ Flags' /\ Counted'
<1>1. pc # "merge" /\ pc' # "merge" /\ ZP!FreeSet' = ZP!FreeSet
  BY PoolUnchanged DEF IInv, Pools, zoneVars
<1>2. Pools'
  BY <1>1 DEF IInv, Pools, zoneVars, Pages
<1>3. Flags'
  BY <1>1 DEF IInv, Flags, zoneVars, Pages
<1> QED
  BY <1>2, <1>3 DEF Counted, zoneVars, page_is_ram

LEMMA ReleaseKept == IInv /\ [Next]_vars => Pools' /\ Flags' /\ Counted'
<1> SUFFICES ASSUME IInv, [Next]_vars PROVE Pools' /\ Flags' /\ Counted'
  OBVIOUS
<1>0. i \in Nat /\ max_low_pfn \in Nat \ {0} /\ Pools /\ Flags
  BY Sizes DEF IInv, Thread
<1>1. CASE FreeRam \/ ReserveImage \/ ReservePageZero \/ AllocPageTable \/ AllocMemMap
           \/ AllocOrderMap \/ AllocResource \/ StartRelease
  BY <1>1, SetupKeeps DEF FreeRam, ReserveImage, ReservePageZero, AllocPageTable, AllocMemMap,
                AllocOrderMap, AllocResource, StartRelease, Alloc, Goto, Setup
<1>2. CASE SkipPage
  <2>1. ~Due /\ at = "pages" /\ i \in node_bootmem_map
    BY <1>2 DEF SkipPage, Due
  <2>2. 0 .. i + 1 - 1 = (0 .. i - 1) \cup {i}
    BY <1>0
  <2>3. Released' = (0 .. i + 1 - 1) \ node_bootmem_map
    <3>1. at' = "pages" /\ i' = i + 1 /\ UNCHANGED node_bootmem_map
      BY <1>2, <2>1 DEF SkipPage, bootVars
    <3>2. Released' = (0 .. i' - 1) \ node_bootmem_map'
      BY <3>1 DEF Released
    <3> QED
      BY <1>0, <3>1, <3>2
  <2>4. Released' = Released
    BY <2>1, <2>2, <2>3 DEF Released
  <2> QED
    BY <1>2, <2>1, <2>4, TurnKeeps DEF SkipPage
<1>3. CASE StartBitmap
  <2>1. ~Due /\ at = "pages" /\ i = max_low_pfn /\ at' = "bitmap" /\ i' = 0
    BY <1>0, <1>3 DEF StartBitmap, Due, InLoop, Goto
  <2>2. Released = Pages \ node_bootmem_map
    BY <2>1 DEF Released, Pages
  <2>3. BitmapUpTo(0) = {}
    BY ImageSizes DEF BitmapUpTo
  <2>4. Released' = (Pages \ node_bootmem_map) \cup BitmapUpTo(0)
    BY <1>3, <2>1 DEF StartBitmap, bootVars, Released, Pages, BitmapUpTo
  <2> QED
    BY <1>3, <2>1, <2>2, <2>3, <2>4, TurnKeeps DEF StartBitmap
<1>4. CASE CountReserved
  <2>1. ~Due /\ at = "bitmap" /\ i = BitmapPages /\ at' = "done"
    BY <1>0, <1>4, ImageRight DEF CountReserved, Due, InLoop, Goto
  <2>2. Released' = (Pages \ node_bootmem_map) \cup BitmapUpTo(BitmapPages)
    BY <1>4, <2>1 DEF CountReserved, bootVars, Released, Pages, BitmapUpTo
  <2>3. Released' = Released
    BY <2>1, <2>2 DEF Released
  <2> QED
    BY <1>4, <2>1, <2>3, TurnKeeps DEF CountReserved
<1>5. CASE PreparePage
  <2>1. /\ pc = "idle" /\ pc' = "idle" /\ ThePage \in held
        /\ reserved' = reserved \ {ThePage} /\ count' = [count EXCEPT ![ThePage] = 1]
    BY <1>5 DEF PreparePage, Zone!PreparePage
  <2>2. Due /\ Releasing
    BY <1>5 DEF PreparePage, Due
  <2>3. /\ ZP!FreeSet' = ZP!FreeSet /\ UNCHANGED <<free_pages, held>>
        /\ UNCHANGED <<at, i, totalram_pages, node_bootmem_map>>
    BY <1>5, OthersKeep DEF PreparePage, bootVars
  <2>4. Released' = Released /\ Due' = Due /\ ThePage' = ThePage
    BY <2>3 DEF Released, Due, Releasing, InLoop, ThePage, Pages
  <2>5. Pools'
    BY <1>0, <2>1, <2>3, <2>4 DEF Pools, Pages
  <2>6. count \in [Pages -> Int]
    BY SameZone DEF IInv, ZP!IInv, ZP!TypeOK
  <2>7. Flags'
    BY <1>0, <2>1, <2>2, <2>3, <2>4, <2>6 DEF Flags, Pools, Pages
  <2> QED
    BY <2>2, <2>3, <2>5, <2>7 DEF Counted, Releasing
<1>6. CASE PutPage
  <2>1. /\ ZP!FreeSet' = ZP!FreeSet \cup {ThePage} /\ free_pages' = free_pages + 1
        /\ pc = "idle" /\ pc' = "merge" /\ held' = held \ {ThePage}
        /\ count' = [count EXCEPT ![ThePage] = 0] /\ UNCHANGED reserved
    BY <1>6, PutAdds
  <2>2. UNCHANGED <<at, i, totalram_pages, node_bootmem_map>> /\ Releasing
    BY <1>6 DEF PutPage, bootVars
  <2>3. Released' = Released /\ Due' = Due /\ ThePage' = ThePage
    BY <2>2 DEF Released, Due, Releasing, InLoop, ThePage, Pages
  <2>4. ThePage \in Pages /\ ThePage \notin reserved /\ count[ThePage] = 1
    BY <1>6, SameZone DEF PutPage, Prepared
  <2>5. Due
    BY <1>0, <2>4 DEF Flags
  <2>6. Pools'
    BY <1>0, <2>1, <2>2, <2>3, <2>5 DEF Pools, Pages
  <2>7. count \in [Pages -> Int]
    BY SameZone DEF IInv, ZP!IInv, ZP!TypeOK
  <2>8. Flags'
    BY <1>0, <2>1, <2>3, <2>4, <2>7 DEF Flags, Pages
  <2> QED
    BY <2>2, <2>6, <2>8 DEF Counted, Releasing
<1>7. CASE MergePage
  <2>1. Due /\ Releasing /\ pc = "merge"
    BY <1>7, MergeIsDue
  <2>2. /\ ZP!FreeSet' = ZP!FreeSet /\ UNCHANGED <<free_pages, held>>
        /\ UNCHANGED <<at, i, totalram_pages, node_bootmem_map, reserved, count>>
    BY <1>7, OthersKeep DEF MergePage, bootVars, Zone!Merge
  <2>3. pc' = "merge"
    <3>1. ZP!IInv'
      BY <1>7, AllocatorsKept DEF Next
    <3>2. pc' # "BUG"
      BY <3>1 DEF ZP!IInv, ZP!NoBug
    <3> QED
      BY <1>7, <2>1, <3>2 DEF MergePage, Zone!Merge
  <2>4. Released' = Released /\ Due' = Due /\ ThePage' = ThePage
    BY <2>2 DEF Released, Due, Releasing, InLoop, ThePage, Pages
  <2>5. Pools' /\ Flags'
    BY <1>0, <2>1, <2>2, <2>3, <2>4 DEF Pools, Flags, Pages
  <2> QED
    BY <2>1, <2>2, <2>5 DEF Counted, Releasing
<1>8. CASE ListPage
  <2>1. Due /\ Releasing /\ pc = "merge"
    BY <1>8, MergeIsDue
  <2>2. /\ ZP!FreeSet' = ZP!FreeSet /\ UNCHANGED <<free_pages, held>>
        /\ UNCHANGED <<at, node_bootmem_map>> /\ i' = i + 1
        /\ totalram_pages' = totalram_pages + 1
    BY <1>8, OthersKeep DEF ListPage, bootVars
  <2>3. pc' = "idle" /\ UNCHANGED <<reserved, count>>
    BY <1>8 DEF ListPage, Zone!StopAtBuddyInUse, Zone!StopAtTopOrder, Zone!AddToList
  <2>4. Released' = Released \cup {ThePage}
    BY <2>1, <2>2, ReleasedGrows
  <2>5. Pools'
    BY <1>0, <2>1, <2>2, <2>3, <2>4 DEF Pools, Pages
  <2>6. ThePage \in ZP!FreeSet
    BY <1>0, <2>1 DEF Pools
  <2>7. Flags'
    BY <1>0, <2>2, <2>3, <2>6 DEF Flags, Pages
  <2> QED
    BY <2>1, <2>2, <2>5, <2>7 DEF Counted, Releasing
<1>9. CASE UNCHANGED vars
  <2>1. ZP!FreeSet' = ZP!FreeSet
    BY <1>9, PoolUnchanged DEF vars
  <2>2. Released' = Released /\ Due' = Due /\ ThePage' = ThePage
    BY <1>9 DEF vars, bootVars, Released, Due, Releasing, InLoop, ThePage, Pages
  <2> QED
    BY <1>0, <1>9, <2>1, <2>2 DEF Pools, Flags, Counted, vars, zoneVars, Pages, page_is_ram, IInv
<1> QED
  BY <1>1, <1>2, <1>3, <1>4, <1>5, <1>6, <1>7, <1>8, <1>9 DEF Next
----------------------------------------------------------------------------
(* The theorems *)

LEMMA InitIInv == Init => IInv
<1> SUFFICES ASSUME Init PROVE IInv
  OBVIOUS
<1>1. BP!IInv
  BY SameBoot, BootAssumed, BP!InitIInv DEF Init, Allocators
<1>2. ZP!Init /\ ZP!IInv /\ ZP!FreePagesExact
  BY SameZone, ZoneAssumed, ZP!InitIInv, ZP!InitExact DEF Init, Allocators
<1>3. at = "free_bootmem" /\ i = 0 /\ totalram_pages = 0 /\ e820 \in E820Maps
  BY DEF Init, Allocators
<1>4. Thread
  BY <1>3, Entries DEF Thread, Calls, Setup
<1>5. taken = {} /\ allocs = {} /\ ram = {}
  BY DEF Init, Allocators, Boot!Init
<1>6. Reservations /\ RamOnly /\ Counted
  BY <1>3, <1>5 DEF Reservations, RamOnly, Counted
<1>7. Budget
  BY <1>3, <1>5, FS_EmptySet DEF Budget
<1>8. pc = "idle" /\ held = Pages /\ reserved = Pages /\ free_pages = 0
      /\ count = [p \in Pages |-> 0]
  BY <1>2, SameZone DEF ZP!Init
<1>9. ZP!FreeSet = {}
  BY <1>2 DEF ZP!Init, ZP!FreeSet, ZP!ListedPages, ZP!MovingPages
<1>10. Pools
  BY <1>3, <1>8, <1>9 DEF Pools, Released
<1>11. Flags
  BY <1>8, <1>9 DEF Flags
<1> QED
  BY <1>1, <1>2, <1>4, <1>6, <1>7, <1>10, <1>11 DEF IInv

LEMMA NextIInv == IInv /\ [Next]_vars => IInv'
BY AllocatorsKept, ThreadKept, ReservationsKept, BudgetKept, RamOnlyKept, ReleaseKept DEF IInv

LEMMA Inductive == Spec => []IInv
BY InitIInv, NextIInv, PTL DEF Spec

(* The calls that setup_arch and what follows it make of the boot          *)
(* allocator keep to the order and the arguments its module assumes.       *)
THEOREM UsesBootAllocator == Spec => BootSpec
<1>1. Init => Boot!Init
  BY DEF Init, Allocators
<1>2. IInv /\ [Next]_vars => [Boot!Next]_(Boot!vars)
  BY BootStep, SameBoot
<1> QED
  BY <1>1, <1>2, Inductive, PTL DEF Spec, BootSpec, Boot!Spec

(* The bitmap of an order is large enough for the bit of every pair of     *)
(* blocks that begins in the zone: there are at most half as many pairs as *)
(* the bits counted.                                                       *)
LEMMA PairHasBit ==
  ASSUME NEW o \in ZP!Orders, NEW k \in Nat, 2 * k * BlockSize[o] < max_low_pfn
  PROVE  k \div 8 < OrderMapCall(o).size
<1>1. PICK b \in Nat \ {0} : b = BlockSize[o]
  BY OrderSizes DEF ZP!Orders
<1>2. PICK n \in Nat \ {0} : n = 2 * b
  OBVIOUS
<1>3. PICK q \in Nat, r \in 0 .. n - 1 :
        q = (max_low_pfn + n - 1) \div n /\ max_low_pfn + n - 1 = q * n + r
  <2>1. max_low_pfn + n - 1 \in Nat
    BY Sizes
  <2> QED
    BY <2>1, DivMod
<1>4. PICK h \in Nat : h = q * n
  OBVIOUS
<1>5. max_low_pfn <= h
  BY <1>3, <1>4, Sizes
<1>6. k < q
  <2>1. 2 * k * b = k * n
    BY <1>2
  <2>2. k * n < q * n
    BY <1>1, <1>4, <1>5, <2>1, Sizes
  <2> QED
    BY <2>2, MulCancel
<1>7. RoundUp(max_low_pfn, 2 * BlockSize[o]) = h
  BY <1>1, <1>2, <1>3, <1>4 DEF RoundUp
<1>8. h = (2 * q) * b + 0
  BY <1>2, <1>4
<1>9. h \div b = 2 * q
  BY <1>8, DivUnique, 2 * q \in Nat, 0 \in 0 .. b - 1
<1> DEFINE bytes == (2 * q + 7) \div 8
<1>10. bytes \in Nat /\ 2 * q <= 8 * bytes
  OBVIOUS
<1>11. k \div 8 < bytes
  BY <1>6, <1>10
<1>12. bytes <= RoundUp(bytes, LongSize) /\ RoundUp(bytes, LongSize) \in Nat
  BY <1>10, Rounded, Sizes
<1>13. OrderMapCall(o).size = RoundUp(bytes, LongSize)
  BY <1>1, <1>7, <1>9 DEF OrderMapCall, Node
<1> HIDE DEF bytes
<1> QED
  BY <1>10, <1>11, <1>12, <1>13

(* No bit behind the end of a bitmap is ever set: a bit is set for a pair  *)
(* one block of which is free, and a free block lies in the zone.          *)
THEOREM BitsStayInside == Spec => []BitmapsFit
<1>1. IInv => BitmapsFit
  <2> SUFFICES ASSUME IInv, NEW o \in ZP!Orders \ {ZP!Top}, NEW bit \in map[o]
               PROVE  bit \div 8 < OrderMapCall(o).size
    BY DEF BitmapsFit, Zone!Orders, ZP!Orders, Zone!Top, ZP!Top
  <2>1. bit \in ZP!PageIdx /\ bit \in Nat
    BY SameZone, Sizes DEF IInv, ZP!IInv, ZP!TypeOK
  <2>2. 2 * bit \in free_list[o] \/ 2 * bit + 1 \in free_list[o]
    BY <2>1 DEF IInv, ZP!IInv, ZP!BitTellsPairState
  <2>3. PICK b \in Nat : b = BlockSize[o] /\ b # 0
    BY OrderSizes DEF ZP!Orders
  <2>4. PICK first \in Nat : first = 2 * bit * b
    BY <2>1, <2>3
  <2>5. ASSUME NEW c \in {2 * bit, 2 * bit + 1}, c \in free_list[o]
        PROVE  first < max_low_pfn
    <3>1. ZP!BlockPages(o, c) \subseteq ZP!PageIdx
      BY <2>5 DEF IInv, ZP!IInv, ZP!BlocksInZone
    <3>2. PICK x \in Nat : x = c * b
      BY <2>1, <2>3
    <3>3. (c + 1) * b = x + b /\ first <= x
      BY <2>1, <2>3, <2>4, <3>2
    <3>4. x \in ZP!BlockPages(o, c)
      BY <2>3, <3>2, <3>3 DEF ZP!BlockPages
    <3>5. x \in 0 .. max_low_pfn - 1
      BY <3>1, <3>4, SameZone DEF Pages
    <3> QED
      BY <2>4, <3>2, <3>3, <3>5, Sizes
  <2>6. 2 * bit * BlockSize[o] < max_low_pfn
    BY <2>2, <2>3, <2>4, <2>5
  <2> QED
    BY <2>1, <2>6, PairHasBit
<1> QED
  BY <1>1, Inductive, PTL

(* A free page is one that the bitmap calls free, or one of the bitmap's. *)
LEMMA FreeIs ==
  ASSUME IInv, NEW p \in ZP!FreeSet
  PROVE  /\ at \notin Setup /\ p \in Pages
         /\ p \notin node_bootmem_map \/ p \in BitmapUpTo(BitmapPages)
<1>0. i \in Nat /\ start_pfn \in Nat /\ BitmapPages \in Nat
  BY ImageSizes, ImageRight DEF IInv, Thread
<1>1. p \in Pages
  BY SameZone, ZoneAssumed, ZP!FreeSetFinite DEF IInv
<1>2. Pools /\ Thread
  BY DEF IInv
<1>3. at \notin Setup
  BY <1>2 DEF Pools, Released, Due, Releasing, Setup
<1>4. CASE p \in Released
  <2>1. p \notin node_bootmem_map \/ (at = "bitmap" /\ p \in BitmapUpTo(i))
          \/ p \in BitmapUpTo(BitmapPages)
    BY <1>2, <1>3, <1>4 DEF Released, Thread, Calls
  <2> QED
    BY <1>0, <1>1, <1>2, <1>3, <2>1, ImageRight, ImageSizes DEF BitmapUpTo, Thread
<1>5. CASE p \notin Released
  <2>1. Due /\ p = ThePage
    BY <1>2, <1>5 DEF Pools
  <2> QED
    BY <1>1, <1>2, <1>3, <2>1, ImageRight, ImageSizes
       DEF Due, Releasing, InLoop, ThePage, BitmapUpTo, Thread
<1> QED
  BY <1>4, <1>5

(* The buddy system never holds a page that has an owner: of the image,    *)
(* page 0, a page in which something was allocated, or one that is not RAM. *)
LEMMA InvPoolNeverOwned == IInv => PoolNeverOwned
<1> SUFFICES ASSUME IInv, NEW p \in ZP!FreeSet
             PROVE  /\ p \notin ImagePages \cup {0}
                    /\ p \notin Allocated
                    /\ p \in RamPages
  BY SamePool DEF PoolNeverOwned
<1>0. p \in Pages /\ at \notin Setup
  BY FreeIs
<1>1. /\ ImageUsed \cup {0} \subseteq node_bootmem_map
      /\ Pages \ node_bootmem_map \subseteq ram
      /\ taken = ImageUsed \cup {0}
  BY <1>0, MapHolds DEF Setup, IInv, Reservations
<1>2. ImagePages \subseteq ImageUsed
  BY ImageRight, ImageSizes DEF ImagePages, ImageUsed
<1>3. /\ Allocated \subseteq node_bootmem_map
      /\ Allocated \cap taken = {}
  <2>1. BP!MapExact /\ BP!AllocsInFreeRam
    BY DEF IInv, BP!IInv
  <2>2. Allocated = UNION {BP!PagesTouched(a.addr, a.size) : a \in allocs}
    BY SamePages DEF Allocated
  <2> QED
    BY <2>1, <2>2 DEF BP!MapExact, BP!AllocsInFreeRam
<1>4. CASE p \notin node_bootmem_map
  <2>1. page_is_ram(p)
    BY <1>0, <1>1, <1>4 DEF IInv, RamOnly
  <2> QED
    BY <1>0, <1>1, <1>2, <1>3, <1>4, <2>1, SamePages DEF RamPages
<1>5. CASE p \in BitmapUpTo(BitmapPages)
  <2>1. p \in ImageUsed /\ p \notin ImagePages /\ p # 0
    BY <1>5, ImageRight, BitmapPlace
  <2>2. page_is_ram(p)
    BY <1>5, ImageRight, BitmapIsRam DEF IInv, Thread
  <2> QED
    BY <1>0, <1>1, <1>3, <2>1, <2>2, SamePages DEF RamPages
<1> QED
  BY <1>4, <1>5, FreeIs

THEOREM OwnersKeepTheirs == Spec => []PoolNeverOwned
BY InvPoolNeverOwned, Inductive, PTL

(* What mem_init counts adds up to all RAM there is. *)
THEOREM RamAccounted == Spec => []MemoryAccounted
<1>1. IInv => MemoryAccounted
  <2> SUFFICES ASSUME IInv, at = "done"
               PROVE  /\ totalram_pages = free_pages
                      /\ totalram_pages + reservedpages = Cardinality(RamPages)
    BY DEF MemoryAccounted
  <2> DEFINE kept == {p \in reserved : page_is_ram(p)}
             free == ZP!FreeSet
  <2>1. ~Due /\ Pools /\ Flags
    BY DEF Due, Releasing, IInv
  <2>2. totalram_pages = free_pages
    BY <2>1 DEF Pools
  <2>3. free_pages = Cardinality(free)
    BY SameCardinality DEF IInv, ZP!FreePagesExact, ZP!FreeSet
  <2>4. free \subseteq RamPages
    BY InvPoolNeverOwned, SamePool, FreeIs, SamePages DEF PoolNeverOwned
  <2>5. reserved \subseteq Pages
    BY SameZone DEF IInv, ZP!IInv, ZP!TypeOK
  <2>6. RamPages = free \cup kept /\ free \cap kept = {}
    BY <2>1, <2>4, <2>5, SamePages DEF Flags, RamPages
  <2>7. IsFiniteSet(Pages) /\ free \subseteq Pages /\ kept \subseteq Pages
    <3>1. IsFiniteSet(Pages)
      BY Sizes, FS_Interval DEF Pages
    <3> QED
      BY <3>1, <2>4, <2>5, SamePages DEF RamPages
  <2>8. IsFiniteSet(free) /\ IsFiniteSet(kept)
    BY <2>7, FS_Subset
  <2>9. Cardinality(RamPages) = Cardinality(free) + Cardinality(kept)
    <3> HIDE DEF free, kept
    <3>1. Cardinality(free \cap kept) = 0
      BY <2>6, FS_EmptySet
    <3>2. Cardinality(free) \in Nat /\ Cardinality(kept) \in Nat
      BY <2>8, FS_CardinalityType
    <3>3. Cardinality(free \cup kept)
            = Cardinality(free) + Cardinality(kept) - Cardinality(free \cap kept)
      BY <2>8, FS_Union
    <3> QED
      BY <2>6, <3>1, <3>2, <3>3
  <2>10. reservedpages = Cardinality(kept)
    BY DEF IInv, Counted
  <2> QED
    BY <2>2, <2>3, <2>9, <2>10
<1> QED
  BY <1>1, Inductive, PTL

(* In the end the pool is what the bitmap called free and the pages of the *)
(* bitmap as free_all_bootmem counts them; these are all its pages, unless *)
(* the bitmap's last bits alone are on its last page.                      *)
THEOREM AllReleased ==
  ASSUME BitmapPages = PFN_UP(bootmap_size)
  PROVE  Spec => []RestReleased
<1>1. IInv => RestReleased
  <2> SUFFICES ASSUME IInv, at = "done"
               PROVE  Pool = (Pages \ node_bootmem_map) \cup BitmapRange
    BY SamePages DEF RestReleased
  <2>1. ~Due /\ Pools
    BY DEF Due, Releasing, IInv
  <2>2. ZP!FreeSet = (Pages \ node_bootmem_map) \cup BitmapUpTo(BitmapPages)
    BY <2>1 DEF Pools, Released
  <2> QED
    BY <2>2, SamePool DEF BitmapRange, BitmapUpTo
<1> QED
  BY <1>1, Inductive, PTL

(* No page is due to be released that someone has released before: where   *)
(* the loops have come to, the page is still its owner's, or the put that  *)
(* PreparePage has made ready for is under way.                            *)
StillHeld == Due /\ pc # "merge" => pc = "idle" /\ ThePage \in held

THEOREM NeverReleasedTwice == Spec => []StillHeld
<1>1. IInv => StillHeld
  <2> SUFFICES ASSUME IInv, Due, pc # "merge" PROVE pc = "idle" /\ ThePage \in held
    BY DEF StillHeld
  <2>1. pc = "idle"
    BY DEF IInv, ZP!IInv, ZP!TypeOK, ZP!NoBug
  <2>2. ThePage \in Pages \ Released
    BY PageDue
  <2> QED
    BY <2>1, <2>2 DEF IInv, Pools
<1> QED
  BY <1>1, Inductive, PTL
=============================================================================
