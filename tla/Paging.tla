------------------------------- MODULE Paging -------------------------------
(***************************************************************************)
(* The kernel's page tables, from those that head.S starts with to the end *)
(* of mem_init: arch/i386/mm/init.c.  The kernel runs on the tables while  *)
(* it replaces them: a directory entry in use is pointed at an empty table *)
(* which is then filled, page by page.  What carries the processor over    *)
(* that gap is its TLB.                                                    *)
(*                                                                         *)
(* Addresses are page numbers: a virtual page v has its directory entry at *)
(* v \div PTRS_PER_PTE.  PTRS_PER_PMD is 1 and is left out.                *)
(***************************************************************************)
EXTENDS Zones, FiniteSetsExt

CONSTANTS
  PTRS_PER_PTE, PTRS_PER_PGD,
  USER_PTRS_PER_PGD,  \* TASK_SIZE / PGDIR_SIZE, also BOOT_USER_PGD_PTRS
  Text,               \* pages with the code and the stack that run
  swapper_pg_dir, pg0, pg1, bitmap, \* a page each
  Machines            \* max_low_pfn, and the pages the boot allocator can give

PageOffset == USER_PTRS_PER_PGD * PTRS_PER_PTE
VirtualPages == 0 .. PTRS_PER_PGD * PTRS_PER_PTE - 1
Va(p) == PageOffset + p

(* The boot mapping must hold the tables, and the kernel, which is in RAM. *)
ASSUME PagingAssumption ==
  /\ {PTRS_PER_PTE, PTRS_PER_PGD} \subseteq Nat \ {0}
  /\ USER_PTRS_PER_PGD \in 2 .. PTRS_PER_PGD - 3
  /\ Text \cup {swapper_pg_dir, pg0, pg1, bitmap} \subseteq 1 .. PTRS_PER_PTE * 2 - 1
  /\ pg0 # pg1
  /\ \A m \in Machines :
       LET low  == m.max_low_pfn
           tables == (low + PTRS_PER_PTE - 1) \div PTRS_PER_PTE + 1
       IN /\ low \in 1 .. (PTRS_PER_PGD - USER_PTRS_PER_PGD - 1) * PTRS_PER_PTE
          /\ Text \cup {swapper_pg_dir, bitmap} \subseteq 1 .. low - 1
          /\ m.free \subseteq 1 .. low - 1
          /\ m.free \cap (Text \cup {swapper_pg_dir, pg0, pg1, bitmap}) = {}
          /\ Cardinality({p \in m.free : p < PTRS_PER_PTE * 2}) >= tables

VARIABLES
  max_low_pfn, free,  \* the machine
  pgd,                \* swapper_pg_dir
  tables,             \* what is in the pages that serve as page tables
  tlb,                \* cached translations, pairs of pages (external)
  at, i, k            \* how far the thread is

pagevars == <<pgd, tables, tlb>>
vars == <<max_low_pfn, free, pagevars, at, i, k, zonevars>>

(* An entry of either level: the page it points to, and whether it admits  *)
(* user mode. *)
Entry(frame, user) == [frame |-> frame, user |-> user]
None == Entry(-1, FALSE)
----------------------------------------------------------------------------
(* The processor (external): a translation is in the TLB, or found in the  *)
(* tables, or missing. *)
Walk(v) ==
  LET table == pgd[v \div PTRS_PER_PTE]
  IN IF table = None THEN None ELSE tables[table.frame][v % PTRS_PER_PTE]

Reaches(v, p) == IF \E t \in tlb : t[1] = v THEN <<v, p>> \in tlb ELSE Walk(v).frame = p

(* A step with accesses to kernel pages S leaves their translations in the *)
(* TLB; the rest may have gone, or be there still. *)
Access(S) ==
  \E rest \in {{}, tlb} : tlb' = rest \cup {<<Va(p), p>> : p \in S}

UserMode(v) == /\ pgd[v \div PTRS_PER_PTE].user /\ Walk(v).user
               /\ Walk(v) # None
----------------------------------------------------------------------------
(* Fault: the last page is left out. *)
EndShort == Va(max_low_pfn) - 1

(* The end of the direct mapping; below the end of the address space, as   *)
(* MAXMEM_PFN bounds max_low_pfn. *)
End == Va(max_low_pfn)

Vaddr == i * PTRS_PER_PTE + k

(* alloc_bootmem_low_pages takes the lowest free page, which can be        *)
(* written to now: it clears the page. *)
NextTable == Min(free)

(* The allocation, and set_pmd. *)
SetNewTable(e) ==
  /\ pgd' = [pgd EXCEPT ![e] = Entry(NextTable, FALSE)]
  /\ tables' = [t \in DOMAIN tables \cup {NextTable} |->
                  IF t = NextTable THEN [n \in 0 .. PTRS_PER_PTE - 1 |-> None] ELSE tables[t]]
  /\ free' = free \ {NextTable}

(* The pages of the kernel that the next step of the thread touches. *)
TakesTable ==
  /\ at = "pagetable_init"
  /\ (i < PTRS_PER_PGD /\ Vaddr < End) \/ pgd[PTRS_PER_PGD - 1] = None

Accessed ==
  Text \cup (IF at \in {"pagetable_init", "zap"} THEN {swapper_pg_dir} ELSE {})
       \cup (IF TakesTable THEN {bitmap, NextTable} ELSE {})
       \cup (IF at = "fill" THEN {pgd[i].frame} ELSE {})

(* Fault: the TLB is flushed after each change of the directory. *)
NewTableFlushing ==
  /\ at = "pagetable_init"
  /\ i < PTRS_PER_PGD /\ Vaddr < End
  /\ SetNewTable(i)
  /\ tlb' = {}
  /\ at' = "fill"
  /\ UNCHANGED <<max_low_pfn, i, k, zonevars>>

(* pagetable_init: the entry i, whether or not it is in use. *)
NewTable ==
  /\ at = "pagetable_init"
  /\ i < PTRS_PER_PGD /\ Vaddr < End
  /\ SetNewTable(i)
  /\ Access(Accessed)
  /\ at' = "fill"
  /\ UNCHANGED <<max_low_pfn, i, k, zonevars>>

FillEntry ==
  /\ at = "fill"
  /\ k < PTRS_PER_PTE /\ Vaddr < End
  /\ tables' = [tables EXCEPT ![pgd[i].frame][k] = Entry(Vaddr - PageOffset, FALSE)]
  /\ Access(Accessed)
  /\ k' = k + 1
  /\ UNCHANGED <<max_low_pfn, free, pgd, at, i, zonevars>>

EndTable ==
  /\ at = "fill"
  /\ k = PTRS_PER_PTE \/ Vaddr >= End
  /\ Access(Accessed)
  /\ at' = "pagetable_init" /\ i' = i + 1 /\ k' = 0
  /\ UNCHANGED <<max_low_pfn, free, pgd, tables, zonevars>>

(* fixrange_init, from the last page rounded down to a table's range: as   *)
(* __end_of_fixed_addresses is 0, that is the last directory entry. *)
FixRange ==
  /\ at = "pagetable_init"
  /\ i = PTRS_PER_PGD \/ Vaddr >= End
  /\ IF pgd[PTRS_PER_PGD - 1] = None
       THEN SetNewTable(PTRS_PER_PGD - 1)
       ELSE UNCHANGED <<pgd, tables, free>>
  /\ Access(Accessed)
  /\ at' = "flush"
  /\ UNCHANGED <<max_low_pfn, i, k, zonevars>>

(* The second half of paging_init: %cr3 is loaded, free_area_init. *)
FlushTLB ==
  /\ at = "flush"
  /\ tlb' = {}
  /\ at' = "zones" /\ i' = 0
  /\ UNCHANGED <<max_low_pfn, free, pgd, tables, k, zonevars>>

NextZone ==
  /\ at = "zones" /\ i \in ZoneIds
  /\ InitZone(i, zones_size(max_low_pfn)[i])
  /\ Access(Accessed)
  /\ i' = i + 1
  /\ UNCHANGED <<max_low_pfn, free, pgd, tables, at, k>>

NextZonelist ==
  /\ at = "zones" /\ i - MAX_NR_ZONES \in 0 .. NR_GFPINDEX - 1
  /\ BuildList(i - MAX_NR_ZONES)
  /\ Access(Accessed)
  /\ i' = i + 1
  /\ UNCHANGED <<max_low_pfn, free, pgd, tables, at, k>>

FreeAreaInitDone ==
  /\ at = "zones" /\ i = MAX_NR_ZONES + NR_GFPINDEX
  /\ Access(Accessed)
  /\ at' = "zap" /\ i' = 0
  /\ UNCHANGED <<max_low_pfn, free, pgd, tables, k, zonevars>>

(* zap_low_mappings, at the end of mem_init, and its flush. *)
Zap ==
  /\ at = "zap" /\ i < USER_PTRS_PER_PGD
  /\ pgd' = [pgd EXCEPT ![i] = None]
  /\ Access(Accessed)
  /\ i' = i + 1
  /\ UNCHANGED <<max_low_pfn, free, tables, at, k, zonevars>>

(* Fault: the translations stay. *)
ZapDoneNoFlush ==
  /\ at = "zap" /\ i = USER_PTRS_PER_PGD
  /\ Access(Accessed)
  /\ at' = "done"
  /\ UNCHANGED <<max_low_pfn, free, pgd, tables, i, k, zonevars>>

ZapDone ==
  /\ at = "zap" /\ i = USER_PTRS_PER_PGD
  /\ tlb' = {}
  /\ at' = "done"
  /\ UNCHANGED <<max_low_pfn, free, pgd, tables, i, k, zonevars>>

(* Some reference through a null pointer (external). *)
Stray ==
  /\ Walk(0) # None
  /\ tlb' = tlb \cup {<<0, Walk(0).frame>>}
  /\ UNCHANGED <<max_low_pfn, free, pgd, tables, at, i, k, zonevars>>
----------------------------------------------------------------------------
(* head.S: two tables with the first pages, at address 0 and at            *)
(* PAGE_OFFSET; the jump to high addresses leaves low translations behind. *)
BootTable(first) == [n \in 0 .. PTRS_PER_PTE - 1 |-> Entry(first + n, TRUE)]

BootEntry(e) ==
  IF e \in {0, USER_PTRS_PER_PGD} THEN Entry(pg0, TRUE)
  ELSE IF e \in {1, USER_PTRS_PER_PGD + 1} THEN Entry(pg1, TRUE)
  ELSE None

Init ==
  /\ \E m \in Machines : max_low_pfn = m.max_low_pfn /\ free = m.free
  /\ pgd = [e \in 0 .. PTRS_PER_PGD - 1 |-> BootEntry(e)]
  /\ tables = [t \in {pg0, pg1} |-> BootTable(IF t = pg0 THEN 0 ELSE PTRS_PER_PTE)]
  /\ tlb = {<<p, p>> : p \in Text} \cup {<<Va(p), p>> : p \in Text}
  /\ at = "pagetable_init" /\ i = USER_PTRS_PER_PGD /\ k = 0
  /\ ZonesInit

PagetableInit == NewTable \/ FillEntry \/ EndTable \/ FixRange
FreeAreaInit  == NextZone \/ NextZonelist \/ FreeAreaInitDone
ZapLow        == Zap \/ ZapDone

Next == PagetableInit \/ FlushTLB \/ FreeAreaInit \/ ZapLow \/ Stray

Spec == Init /\ [][Next]_vars
----------------------------------------------------------------------------
(* Whatever the thread touches next has a translation, though the entries  *)
(* of the directory it runs on are replaced by empty tables: init.c:103.   *)
KernelReachable == \A p \in Accessed : Reaches(Va(p), p)

(* From the flush on, every page of low memory is at its address above     *)
(* PAGE_OFFSET, for the kernel alone, by tables that no one else owns;     *)
(* what else is mapped there is past the end of memory; and a null pointer *)
(* faults when mem_init is over, whatever was referenced before            *)
(* (init.c:193-197). *)
MappingExact ==
  /\ at \in {"zones", "zap", "done"} =>
       /\ \A p \in 0 .. max_low_pfn - 1 :
            Walk(Va(p)).frame = p /\ ~UserMode(Va(p))
       /\ \A v \in VirtualPages : (v >= End /\ Walk(v) # None) => Walk(v).frame = v - PageOffset
       /\ \A e \in USER_PTRS_PER_PGD .. PTRS_PER_PGD - 1 : pgd[e] # None =>
            /\ pgd[e].frame \notin free
            /\ \A f \in USER_PTRS_PER_PGD .. e - 1 : pgd[f].frame # pgd[e].frame
  /\ at = "done" =>
       /\ \A v \in 0 .. PageOffset - 1 : Walk(v) = None
       /\ \A t \in tlb : t[1] >= PageOffset

(* The zones and their lists, when free_area_init is over. *)
ZonesRight ==
  at \in {"zap", "done"} => PagesZoned(max_low_pfn) /\ ListsComplete(max_low_pfn)
=============================================================================
