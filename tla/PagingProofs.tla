---------------------------- MODULE PagingProofs ----------------------------
(***************************************************************************)
(* Theorems about Paging, for tables and directories of every size and     *)
(* every machine: the kernel never loses a page that it touches, and the   *)
(* mapping that it makes is exact.  The invariant says of every entry of   *)
(* the directory whether it is the boot's, a new table's, or gone, and how *)
(* far the new table is filled.  The last part is about E820, the memory   *)
(* map that says what there is to be mapped.                               *)
(***************************************************************************)
EXTENDS Paging, E820, FiniteSetTheorems, SequenceTheorems, WellFoundedInduction, TLAPS

(* Quotient and remainder. *)
LEMMA DivMod ==
  ASSUME NEW n \in Nat \ {0}, NEW x \in Nat
  PROVE  /\ x \div n \in Nat /\ x % n \in 0 .. n - 1
         /\ x = (x \div n) * n + (x % n)
OBVIOUS

(* They are determined by that. *)
LEMMA DivUnique ==
  ASSUME NEW n \in Nat \ {0}, NEW q \in Nat, NEW r \in 0 .. n - 1
  PROVE  (q * n + r) \div n = q /\ ((q * n) + r) % n = r
OBVIOUS

(* Multiples keep the order, and show it. *)
LEMMA MulMono ==
  ASSUME NEW n \in Nat, NEW x \in Int, NEW y \in Int, x <= y
  PROVE  x * n <= y * n
OBVIOUS

LEMMA MulCancel ==
  ASSUME NEW n \in Nat \ {0}, NEW x \in Int, NEW y \in Int, x * n < y * n
  PROVE  x < y
OBVIOUS

(* Every non-empty set of numbers has a least one. *)
LEMMA LeastNat ==
  ASSUME NEW C \in SUBSET Nat, C # {}
  PROVE  \E m \in C : \A c \in C : m <= c
<1> DEFINE R == OpToRel(<, Nat)
<1>1. IsWellFoundedOn(R, Nat)
  BY NatLessThanWellFounded
<1>2. \A m, c \in Nat : m < c => <<m, c>> \in R
  BY DEF OpToRel
<1> HIDE DEF R
<1>3. PICK m \in C : \A c \in C : ~(<<c, m>> \in R)
  BY <1>1, WFMin
<1>4. ASSUME NEW c \in C PROVE m <= c
  <2>1. c \in Nat /\ m \in Nat /\ ~(c < m)
    BY <1>2, <1>3
  <2> QED
    BY <2>1
<1> QED
  BY <1>4
----------------------------------------------------------------------------
Directory == 0 .. PTRS_PER_PGD - 1
Slots     == 0 .. PTRS_PER_PTE - 1
Entries   == [frame : Int, user : BOOLEAN]
LastEntry == PTRS_PER_PGD - 1

(* The entries for memory: all above PAGE_OFFSET but the last.             *)
MemoryEntries == USER_PTRS_PER_PGD .. PTRS_PER_PGD - 2

KernelPages == Text \cup {swapper_pg_dir, bitmap}

(* The entry that translates page n of the range of directory entry e.     *)
EntryOf(e, n) == IF pgd[e] = None THEN None ELSE tables[pgd[e].frame][n]

Types ==
  /\ max_low_pfn \in 1 .. (PTRS_PER_PGD - USER_PTRS_PER_PGD - 1) * PTRS_PER_PTE
  /\ free \subseteq 1 .. max_low_pfn - 1
  /\ KernelPages \subseteq 1 .. max_low_pfn - 1
  /\ pgd \in [Directory -> Entries]
  /\ \A e \in Directory : pgd[e] # None => pgd[e].frame \in DOMAIN tables
  /\ DOMAIN tables \subseteq Nat
  /\ tables \in [DOMAIN tables -> [Slots -> Entries]]
  /\ free \cap DOMAIN tables = {}

(* What head.S made is there as long as it is referred to.                 *)
BootTables ==
  /\ {pg0, pg1} \subseteq DOMAIN tables
  /\ tables[pg0] = BootTable(0) /\ tables[pg1] = BootTable(PTRS_PER_PTE)

(* The tables that are enough, and the free pages that the boot mapping    *)
(* reaches. *)
TablesNeeded == (max_low_pfn + PTRS_PER_PTE - 1) \div PTRS_PER_PTE
LowFree == {p \in free : p < PTRS_PER_PTE * 2}

Thread ==
  /\ at \in {"pagetable_init", "fill", "flush", "zones", "zap", "done"}
  /\ at = "pagetable_init" =>
       /\ i \in USER_PTRS_PER_PGD .. LastEntry /\ k = 0
       /\ i - USER_PTRS_PER_PGD <= TablesNeeded
       /\ Cardinality(LowFree) >= TablesNeeded + 1 - (i - USER_PTRS_PER_PGD)
  /\ at = "fill" =>
       /\ i \in MemoryEntries /\ k \in 0 .. PTRS_PER_PTE
       /\ i * PTRS_PER_PTE < End
       /\ Cardinality(LowFree) >= TablesNeeded - (i - USER_PTRS_PER_PGD)
  /\ at = "zap" => i \in 0 .. USER_PTRS_PER_PGD

(* The new tables: which entries have one, and what is in it.              *)
Begun(e) ==
  /\ e * PTRS_PER_PTE < End
  /\ at = "pagetable_init" => e < i
  /\ at = "fill" => e <= i

Wanted(e, n) ==
  IF e * PTRS_PER_PTE + n < End THEN Entry(e * PTRS_PER_PTE + n - PageOffset, FALSE) ELSE None

Unfilled(e, n) == at = "fill" /\ e = i /\ n >= k

OwnTable(e) == pgd[e] # None /\ pgd[e].user = FALSE /\ pgd[e].frame \notin {pg0, pg1}

DirectMapping ==
  \A e \in MemoryEntries :
    IF Begun(e)
      THEN /\ OwnTable(e)
           /\ \A n \in Slots : EntryOf(e, n) = IF Unfilled(e, n) THEN None ELSE Wanted(e, n)
      ELSE pgd[e] = BootEntry(e)

FixedMapping ==
  IF at \in {"pagetable_init", "fill"}
    THEN pgd[LastEntry] = None
    ELSE OwnTable(LastEntry) /\ \A n \in Slots : EntryOf(LastEntry, n) = None

LowMapping ==
  \A e \in 0 .. USER_PTRS_PER_PGD - 1 :
    pgd[e] = IF at = "done" \/ (at = "zap" /\ e < i) THEN None ELSE BootEntry(e)

TablesApart ==
  \A e, f \in USER_PTRS_PER_PGD .. LastEntry :
    e # f /\ pgd[e] # None /\ pgd[f] # None => pgd[e].frame # pgd[f].frame

(* No translation of a kernel address is stale, and while a table is       *)
(* filled those that it is to hold are at hand.                            *)
Tlb ==
  /\ \A t \in tlb : t[1] >= PageOffset => t = <<t[1], t[1] - PageOffset>>
  /\ at = "fill" => \A p \in Text \cup {pgd[i].frame} : <<Va(p), p>> \in tlb
  /\ at = "done" => tlb = {}

IInv ==
  /\ Types /\ BootTables /\ Thread
  /\ DirectMapping /\ FixedMapping /\ LowMapping
  /\ TablesApart /\ Tlb
----------------------------------------------------------------------------
LEMMA Constants ==
  /\ PTRS_PER_PTE \in Nat \ {0} /\ PTRS_PER_PGD \in Nat /\ USER_PTRS_PER_PGD \in Nat
  /\ USER_PTRS_PER_PGD >= 2 /\ USER_PTRS_PER_PGD <= PTRS_PER_PGD - 3
  /\ KernelPages \cup {pg0, pg1} \subseteq 1 .. PTRS_PER_PTE * 2 - 1
  /\ pg0 # pg1 /\ KernelPages \cup {pg0, pg1} \subseteq Nat
  /\ PageOffset \in Nat /\ PageOffset = USER_PTRS_PER_PGD * PTRS_PER_PTE
  /\ PTRS_PER_PTE * 2 <= PageOffset
<1>1. /\ PTRS_PER_PTE \in Nat \ {0} /\ PTRS_PER_PGD \in Nat /\ USER_PTRS_PER_PGD \in Nat
      /\ USER_PTRS_PER_PGD >= 2 /\ USER_PTRS_PER_PGD <= PTRS_PER_PGD - 3
      /\ KernelPages \cup {pg0, pg1} \subseteq 1 .. PTRS_PER_PTE * 2 - 1
      /\ pg0 # pg1
  BY PagingAssumption DEF KernelPages
<1>2. KernelPages \cup {pg0, pg1} \subseteq Nat
  <2> DEFINE last == PTRS_PER_PTE * 2 - 1
  <2>1. last \in Nat /\ KernelPages \cup {pg0, pg1} \subseteq 1 .. last
    BY <1>1
  <2> HIDE DEF last
  <2> QED BY <2>1
<1>3. 2 * PTRS_PER_PTE <= USER_PTRS_PER_PGD * PTRS_PER_PTE
  BY <1>1, MulMono
<1> QED BY <1>1, <1>2, <1>3 DEF PageOffset

(* A page and its address, as directory entry and place in the table.      *)
LEMMA Places ==
  ASSUME NEW p \in Nat
  PROVE  \E q \in Nat, n \in Slots :
           /\ p = q * PTRS_PER_PTE + n
           /\ Va(p) = (USER_PTRS_PER_PGD + q) * PTRS_PER_PTE + n
           /\ p \div PTRS_PER_PTE = q
<1> DEFINE q == p \div PTRS_PER_PTE
           n == p % PTRS_PER_PTE
<1>1. q \in Nat /\ n \in Slots /\ p = q * PTRS_PER_PTE + n
  BY Constants, DivMod DEF Slots
<1> HIDE DEF q, n
<1>2. Va(p) = (USER_PTRS_PER_PGD + q) * PTRS_PER_PTE + n
  BY <1>1, Constants DEF Va, Slots
<1> QED BY <1>1, <1>2 DEF q

LEMMA WalkOfEntry ==
  ASSUME NEW e \in Nat, NEW n \in Slots
  PROVE  Walk(e * PTRS_PER_PTE + n) = EntryOf(e, n)
<1>1. /\ (e * PTRS_PER_PTE + n) \div PTRS_PER_PTE = e
      /\ ((e * PTRS_PER_PTE) + n) % PTRS_PER_PTE = n
  BY Constants, DivUnique DEF Slots
<1> QED BY <1>1 DEF Walk, EntryOf

LEMMA InitInv == Init => IInv
<1> SUFFICES ASSUME Init PROVE IInv
  OBVIOUS
<1>1. PICK m \in Machines : max_low_pfn = m.max_low_pfn /\ free = m.free
  BY DEF Init
<1>2. /\ max_low_pfn \in 1 .. (PTRS_PER_PGD - USER_PTRS_PER_PGD - 1) * PTRS_PER_PTE
      /\ KernelPages \subseteq 1 .. max_low_pfn - 1
      /\ free \subseteq 1 .. max_low_pfn - 1
      /\ free \cap {pg0, pg1} = {}
      /\ Cardinality(LowFree) >= TablesNeeded + 1
  BY <1>1, PagingAssumption DEF KernelPages, LowFree, TablesNeeded
<1>3. /\ DOMAIN tables = {pg0, pg1}
      /\ tables[pg0] = BootTable(0) /\ tables[pg1] = BootTable(PTRS_PER_PTE)
  BY Constants DEF Init
<1>4. \A e \in Directory : pgd[e] = BootEntry(e)
  BY DEF Init, Directory
<1>5. \A e : BootEntry(e) \in Entries /\ (BootEntry(e) # None => BootEntry(e).frame \in {pg0, pg1})
  BY Constants DEF BootEntry, Entries, Entry, None
<1>6. BootTable(0) \in [Slots -> Entries] /\ BootTable(PTRS_PER_PTE) \in [Slots -> Entries]
  BY Constants DEF BootTable, Slots, Entries, Entry
<1>7. Types
  <2>1. pgd \in [Directory -> Entries]
    BY <1>4, <1>5 DEF Init, Directory
  <2>2. tables \in [DOMAIN tables -> [Slots -> Entries]]
    <3>1. tables \in [{pg0, pg1} -> [Slots -> Entries]]
      BY <1>6 DEF Init
    <3> QED BY <1>3, <3>1
  <2>3. \A e \in Directory : pgd[e] # None => pgd[e].frame \in DOMAIN tables
    BY <1>3, <1>4, <1>5
  <2>4. DOMAIN tables \subseteq Nat /\ free \cap DOMAIN tables = {}
    <3>1. {pg0, pg1} \subseteq Nat
      BY Constants
    <3> QED BY <1>2, <1>3, <3>1
  <2> QED BY <1>2, <2>1, <2>2, <2>3, <2>4 DEF Types
<1>8. BootTables
  BY <1>3 DEF BootTables
<1>9. Thread
  <2>1. TablesNeeded \in Nat
    BY <1>2, Constants, DivMod DEF TablesNeeded
  <2> QED BY <1>2, <2>1, Constants DEF Thread, Init, LastEntry
<1>10. DirectMapping
  BY <1>4, Constants DEF DirectMapping, Begun, Init, MemoryEntries, Directory
<1>11. FixedMapping
  <2>1. LastEntry \in Directory /\ BootEntry(LastEntry) = None
    <3>1. LastEntry \in Directory /\ LastEntry \notin {0, 1, USER_PTRS_PER_PGD, USER_PTRS_PER_PGD + 1}
      BY Constants DEF LastEntry, Directory
    <3> QED BY <3>1 DEF BootEntry
  <2> QED   BY <1>4, <2>1 DEF FixedMapping, Init
<1>12. LowMapping
  BY <1>4, Constants DEF LowMapping, Init, Directory
<1>13. TablesApart
  BY <1>4, Constants DEF TablesApart, LastEntry, Directory, BootEntry, Entry
<1>14. Tlb
  <2>1. Text \subseteq 1 .. PTRS_PER_PTE * 2 - 1
    BY Constants DEF KernelPages
  <2>2. ASSUME NEW t \in tlb, t[1] >= PageOffset PROVE t = <<t[1], t[1] - PageOffset>>
    <3>1. PICK p \in Text : t = <<p, p>> \/ t = <<Va(p), p>>
      BY DEF Init
    <3> QED BY <2>1, <2>2, <3>1, Constants DEF Va
  <2> QED BY <2>2 DEF Tlb, Init
<1> QED BY <1>7, <1>8, <1>9, <1>10, <1>11, <1>12, <1>13, <1>14 DEF IInv
----------------------------------------------------------------------------
LEMMA Bounds ==
  ASSUME IInv
  PROVE  /\ End \in Nat /\ End = PageOffset + max_low_pfn /\ max_low_pfn \in Nat \ {0}
         /\ End <= LastEntry * PTRS_PER_PTE
         /\ MemoryEntries \subseteq Directory /\ LastEntry \in Directory
         /\ LastEntry \notin MemoryEntries
         /\ USER_PTRS_PER_PGD .. LastEntry = MemoryEntries \cup {LastEntry}
         /\ 0 .. USER_PTRS_PER_PGD - 1 \subseteq Directory
         /\ TablesNeeded \in Nat /\ max_low_pfn <= TablesNeeded * PTRS_PER_PTE
<1>1. max_low_pfn \in 1 .. (PTRS_PER_PGD - USER_PTRS_PER_PGD - 1) * PTRS_PER_PTE
  BY DEF IInv, Types
<1>2. max_low_pfn \in Nat \ {0} /\ End = PageOffset + max_low_pfn /\ End \in Nat
  BY <1>1, Constants DEF End, Va
<1>3. End <= LastEntry * PTRS_PER_PTE
  <2>1. PageOffset + (PTRS_PER_PGD - USER_PTRS_PER_PGD - 1) * PTRS_PER_PTE
          = (PTRS_PER_PGD - 1) * PTRS_PER_PTE
    BY Constants
  <2>2. (PTRS_PER_PGD - USER_PTRS_PER_PGD - 1) * PTRS_PER_PTE \in Int
    BY Constants
  <2> QED BY <1>1, <1>2, <2>1, <2>2, Constants DEF LastEntry
<1>4. TablesNeeded \in Nat /\ max_low_pfn <= TablesNeeded * PTRS_PER_PTE
  <2> DEFINE x == max_low_pfn + PTRS_PER_PTE - 1
  <2>1. x \in Nat
    BY <1>2, Constants
  <2>2. /\ x \div PTRS_PER_PTE \in Nat /\ x % PTRS_PER_PTE \in 0 .. PTRS_PER_PTE - 1
        /\ x = (x \div PTRS_PER_PTE) * PTRS_PER_PTE + (x % PTRS_PER_PTE)
    BY <2>1, Constants, DivMod
  <2> QED BY <1>2, <2>2, Constants DEF TablesNeeded
<1>5. /\ MemoryEntries \subseteq Directory /\ LastEntry \in Directory
      /\ LastEntry \notin MemoryEntries
      /\ USER_PTRS_PER_PGD .. LastEntry = MemoryEntries \cup {LastEntry}
      /\ 0 .. USER_PTRS_PER_PGD - 1 \subseteq Directory
  BY Constants DEF MemoryEntries, LastEntry, Directory
<1> QED BY <1>2, <1>3, <1>4, <1>5

LEMMA TableFound ==
  ASSUME IInv, TakesTable
  PROVE  /\ NextTable \in free /\ NextTable < PTRS_PER_PTE * 2
         /\ NextTable \in Nat /\ NextTable \notin DOMAIN tables
         /\ Cardinality(LowFree \ {NextTable}) = Cardinality(LowFree) - 1
         /\ Cardinality(LowFree) \in Nat
<1>1. free \subseteq Nat /\ free \subseteq 1 .. max_low_pfn - 1 /\ free \cap DOMAIN tables = {}
  BY DEF IInv, Types
<1>2. IsFiniteSet(LowFree)
  <2>1. IsFiniteSet(1 .. max_low_pfn - 1)
    BY Bounds, FS_Interval
  <2>2. LowFree \subseteq 1 .. max_low_pfn - 1
    BY <1>1 DEF LowFree
  <2> QED BY <2>1, <2>2, FS_Subset
<1>3. Cardinality(LowFree) \in Nat
  BY <1>2, FS_CardinalityType
<1>4. LowFree # {}
  <2>1. /\ i \in USER_PTRS_PER_PGD .. LastEntry /\ i - USER_PTRS_PER_PGD <= TablesNeeded
        /\ Cardinality(LowFree) >= TablesNeeded + 1 - (i - USER_PTRS_PER_PGD)
    BY DEF IInv, Thread, TakesTable
  <2>2. Cardinality(LowFree) # 0
    BY <1>3, <2>1, Bounds, Constants
  <2> QED BY <2>2, FS_EmptySet
<1>5. PICK p \in LowFree : TRUE
  BY <1>4
<1>6. NextTable \in free /\ \A x \in free : NextTable <= x
  <2>1. \E m \in free : \A x \in free : m <= x
    BY <1>1, <1>5, LeastNat DEF LowFree
  <2> QED BY <2>1 DEF NextTable, Min
<1>7. NextTable < PTRS_PER_PTE * 2
  BY <1>1, <1>5, <1>6, Constants DEF LowFree
<1>8. NextTable \in LowFree
  BY <1>6, <1>7 DEF LowFree
<1>9. Cardinality(LowFree \ {NextTable}) = Cardinality(LowFree) - 1
  BY <1>2, <1>8, FS_RemoveElement
<1> QED BY <1>1, <1>3, <1>6, <1>7, <1>9

(* What a new table in entry e changes, and that it is nowhere else. *)
LEMMA NewTableMade ==
  ASSUME IInv, TakesTable, NEW e \in USER_PTRS_PER_PGD .. LastEntry, SetNewTable(e),
         max_low_pfn' = max_low_pfn
  PROVE  /\ Types' /\ BootTables' /\ TablesApart'
         /\ \A f \in Directory : f # e =>
              pgd'[f] = pgd[f] /\ \A n \in Slots : EntryOf(f, n)' = EntryOf(f, n)
         /\ OwnTable(e)' /\ pgd'[e].frame = NextTable
         /\ \A n \in Slots : EntryOf(e, n)' = None
         /\ Cardinality(LowFree)' = Cardinality(LowFree) - 1
<1> DEFINE t == NextTable
           Empty == [n \in Slots |-> None]
<1>1. /\ t \in free /\ t \in Nat /\ t \notin DOMAIN tables
      /\ Cardinality(LowFree \ {t}) = Cardinality(LowFree) - 1
  BY TableFound
<1>2. /\ e \in Directory
      /\ pgd' = [pgd EXCEPT ![e] = Entry(t, FALSE)]
      /\ tables' = [x \in DOMAIN tables \cup {t} |-> IF x = t THEN Empty ELSE tables[x]]
      /\ free' = free \ {t}
  BY Bounds DEF SetNewTable, Slots
<1> HIDE DEF t
<1>3. None \in Entries /\ Entry(t, FALSE) \in Entries /\ Empty \in [Slots -> Entries]
      /\ Entry(t, FALSE) # None /\ Entry(t, FALSE).frame = t /\ Entry(t, FALSE).user = FALSE
  BY <1>1 DEF None, Entry, Entries
<1> HIDE DEF Empty
<1>4. /\ pgd'[e] = Entry(t, FALSE)
      /\ \A f \in Directory : f # e => pgd'[f] = pgd[f]
      /\ DOMAIN tables' = DOMAIN tables \cup {t}
      /\ tables'[t] = Empty
      /\ \A x \in DOMAIN tables : tables'[x] = tables[x]
  BY <1>1, <1>2 DEF IInv, Types
<1>5. \A f \in Directory : pgd[f] # None => pgd[f].frame \in DOMAIN tables
  BY DEF IInv, Types
<1>6. Types'
  <2>1. pgd' \in [Directory -> Entries]
    BY <1>2, <1>3 DEF IInv, Types
  <2>2. \A f \in Directory : pgd'[f] # None => pgd'[f].frame \in DOMAIN tables'
    BY <1>3, <1>4, <1>5
  <2>3. DOMAIN tables' \subseteq Nat /\ tables' \in [DOMAIN tables' -> [Slots -> Entries]]
    <3>1. \A x \in DOMAIN tables : tables[x] \in [Slots -> Entries]
      BY DEF IInv, Types
    <3>2. tables' \in [DOMAIN tables \cup {t} -> [Slots -> Entries]]
      BY <1>2, <1>3, <3>1
    <3> QED BY <1>1, <1>4, <3>2 DEF IInv, Types
  <2>4. free' \subseteq 1 .. max_low_pfn - 1 /\ free' \cap DOMAIN tables' = {}
    BY <1>2, <1>4 DEF IInv, Types
  <2> QED BY <2>1, <2>2, <2>3, <2>4 DEF IInv, Types
<1>7. BootTables'
  BY <1>4 DEF IInv, BootTables
<1>8. ASSUME NEW f \in Directory, f # e, NEW n \in Slots PROVE EntryOf(f, n)' = EntryOf(f, n)
  BY <1>4, <1>5, <1>8 DEF EntryOf
<1>9. \A n \in Slots : EntryOf(e, n)' = None
  BY <1>3, <1>4 DEF EntryOf, Empty
<1>10. OwnTable(e)' /\ pgd'[e].frame = t
  BY <1>1, <1>3, <1>4 DEF OwnTable, IInv, BootTables
<1>11. TablesApart'
  <2> SUFFICES ASSUME NEW f \in USER_PTRS_PER_PGD .. LastEntry,
                      NEW g \in USER_PTRS_PER_PGD .. LastEntry,
                      f # g, pgd'[f] # None, pgd'[g] # None
               PROVE  pgd'[f].frame # pgd'[g].frame
    BY DEF TablesApart
  <2>1. f \in Directory /\ g \in Directory
    BY Bounds
  <2>2. CASE f # e /\ g # e
    BY <1>4, <2>1, <2>2 DEF IInv, TablesApart
  <2>3. CASE f = e
    BY <1>1, <1>3, <1>4, <1>5, <2>1, <2>3
  <2>4. CASE g = e
    BY <1>1, <1>3, <1>4, <1>5, <2>1, <2>4
  <2> QED BY <2>2, <2>3, <2>4
<1>12. Cardinality(LowFree)' = Cardinality(LowFree) - 1
  <2>1. LowFree' = LowFree \ {t}
    BY <1>2 DEF LowFree
  <2> QED BY <1>1, <2>1
<1> QED BY <1>4, <1>6, <1>7, <1>8, <1>9, <1>10, <1>11, <1>12 DEF t

LEMMA AccessKept ==
  ASSUME IInv, NEW S \in SUBSET Nat, Access(S)
  PROVE  /\ \A t \in tlb' : t[1] >= PageOffset => t = <<t[1], t[1] - PageOffset>>
         /\ \A p \in S : <<Va(p), p>> \in tlb'
<1>1. PICK rest \in {{}, tlb} : tlb' = rest \cup {<<Va(p), p>> : p \in S}
  BY DEF Access
<1>2. ASSUME NEW t \in tlb', t[1] >= PageOffset PROVE t = <<t[1], t[1] - PageOffset>>
  <2>1. CASE t \in tlb
    BY <1>2, <2>1 DEF IInv, Tlb
  <2>2. CASE \E p \in S : t = <<Va(p), p>>
    BY <2>2, Constants DEF Va
  <2> QED BY <1>1, <2>1, <2>2
<1> QED BY <1>1, <1>2

(* What the thread touches are pages of memory. *)
LEMMA AccessedPages ==
  ASSUME IInv
  PROVE  /\ Accessed \in SUBSET Nat /\ Text \subseteq Accessed
         /\ TakesTable => NextTable \in Accessed
         /\ at = "fill" => pgd[i].frame \in Accessed
<1>1. Text \cup {swapper_pg_dir, bitmap} \subseteq Nat
  BY Constants DEF KernelPages
<1>2. at = "fill" => pgd[i].frame \in Nat
  <2>1. at = "fill" => i \in MemoryEntries /\ Begun(i)
    BY Constants DEF IInv, Thread, Begun, MemoryEntries
  <2>2. at = "fill" => pgd[i] # None /\ i \in Directory
    BY <2>1, Bounds DEF IInv, DirectMapping, OwnTable
  <2> QED BY <2>2 DEF IInv, Types
<1> QED BY <1>1, <1>2, TableFound DEF Accessed
----------------------------------------------------------------------------
(* The steps that leave the tables alone. *)
LEMMA SameTables ==
  ASSUME IInv, UNCHANGED <<max_low_pfn, free, pgd, tables>>
  PROVE  /\ Types' /\ BootTables' /\ TablesApart'
         /\ \A e, n : EntryOf(e, n)' = EntryOf(e, n)
         /\ \A e : OwnTable(e)' <=> OwnTable(e)
         /\ LowFree' = LowFree /\ End' = End /\ TablesNeeded' = TablesNeeded
BY DEF IInv, Types, BootTables, TablesApart, EntryOf, OwnTable, LowFree, End, Va, TablesNeeded

LEMMA NewTableInv ==
  ASSUME IInv, NewTable
  PROVE  IInv'
<1>1. /\ at = "pagetable_init" /\ at' = "fill" /\ i' = i /\ k' = k /\ k = 0
      /\ i < PTRS_PER_PGD /\ Vaddr < End /\ TakesTable
      /\ SetNewTable(i) /\ max_low_pfn' = max_low_pfn
      /\ i \in USER_PTRS_PER_PGD .. LastEntry /\ i \in Nat
      /\ Access(Accessed)
  BY Constants DEF NewTable, TakesTable, IInv, Thread, LastEntry
<1>2. i * PTRS_PER_PTE < End /\ i \in MemoryEntries /\ i # LastEntry
  <2>1. i * PTRS_PER_PTE < End
    BY <1>1, Constants DEF Vaddr
  <2>2. i < LastEntry
    BY <1>1, <2>1, Bounds, Constants, MulCancel DEF LastEntry
  <2> QED BY <1>1, <2>1, <2>2, Constants DEF MemoryEntries, LastEntry
<1>3. /\ Types' /\ BootTables' /\ TablesApart'
      /\ \A f \in Directory : f # i =>
           pgd'[f] = pgd[f] /\ \A n \in Slots : EntryOf(f, n)' = EntryOf(f, n)
      /\ OwnTable(i)' /\ pgd'[i].frame = NextTable
      /\ \A n \in Slots : EntryOf(i, n)' = None
      /\ Cardinality(LowFree)' = Cardinality(LowFree) - 1
  BY <1>1, NewTableMade
<1>4. End' = End /\ TablesNeeded' = TablesNeeded
  BY <1>1 DEF End, Va, TablesNeeded
<1>5. Thread'
  <2>1. /\ Cardinality(LowFree) \in Nat
        /\ Cardinality(LowFree) >= TablesNeeded + 1 - (i - USER_PTRS_PER_PGD)
    BY <1>1, TableFound DEF IInv, Thread
  <2>2. Cardinality(LowFree)' >= TablesNeeded - (i - USER_PTRS_PER_PGD)
    BY <1>1, <1>3, <2>1, Bounds, Constants
  <2> QED BY <1>1, <1>2, <1>4, <2>2, Constants DEF Thread
<1>6. DirectMapping'
  <2> SUFFICES ASSUME NEW e \in MemoryEntries
               PROVE  IF Begun(e)'
                        THEN /\ OwnTable(e)'
                             /\ \A n \in Slots :
                                  EntryOf(e, n)' = IF Unfilled(e, n)' THEN None ELSE Wanted(e, n)'
                        ELSE pgd'[e] = BootEntry(e)
    BY DEF DirectMapping, BootEntry
  <2>1. e \in Directory
    BY Bounds
  <2>2. CASE e = i
    BY <1>1, <1>2, <1>3, <1>4, <2>2 DEF Begun, Unfilled, Slots
  <2>3. CASE e # i
    <3>1. /\ Begun(e)' <=> Begun(e)
          /\ \A n : ~Unfilled(e, n)' /\ ~Unfilled(e, n) /\ Wanted(e, n)' = Wanted(e, n)
      BY <1>1, <1>4, <2>1, <2>3 DEF Begun, Unfilled, Wanted, Directory
    <3>2. OwnTable(e)' <=> OwnTable(e)
      BY <1>3, <2>1, <2>3 DEF OwnTable
    <3> QED BY <1>3, <2>1, <2>3, <3>1, <3>2 DEF IInv, DirectMapping
  <2> QED BY <2>2, <2>3
<1>7. FixedMapping'
  BY <1>1, <1>2, <1>3, Bounds DEF IInv, FixedMapping, LastEntry
<1>8. LowMapping'
  <2>1. \A e \in 0 .. USER_PTRS_PER_PGD - 1 : e \in Directory /\ e # i
    BY <1>1, Bounds, Constants
  <2> QED BY <1>1, <1>3, <2>1 DEF IInv, LowMapping, BootEntry
<1>9. Tlb'
  BY <1>1, <1>3, AccessedPages, AccessKept DEF Tlb, Va
<1> QED BY <1>3, <1>5, <1>6, <1>7, <1>8, <1>9 DEF IInv

LEMMA FixRangeInv ==
  ASSUME IInv, FixRange
  PROVE  IInv'
<1>1. /\ at = "pagetable_init" /\ at' = "flush" /\ k = 0
      /\ pgd[LastEntry] = None /\ TakesTable
      /\ SetNewTable(LastEntry) /\ max_low_pfn' = max_low_pfn
      /\ i \in USER_PTRS_PER_PGD .. LastEntry
      /\ i * PTRS_PER_PTE >= End
      /\ Access(Accessed)
  BY Constants DEF FixRange, TakesTable, IInv, Thread, LastEntry, FixedMapping, Vaddr
<1>2. LastEntry \in USER_PTRS_PER_PGD .. LastEntry /\ LastEntry \in Directory
  BY Constants, Bounds DEF LastEntry
<1>3. /\ Types' /\ BootTables' /\ TablesApart'
      /\ \A f \in Directory : f # LastEntry =>
           pgd'[f] = pgd[f] /\ \A n \in Slots : EntryOf(f, n)' = EntryOf(f, n)
      /\ OwnTable(LastEntry)'
      /\ \A n \in Slots : EntryOf(LastEntry, n)' = None
  BY <1>1, <1>2, NewTableMade
<1>4. End' = End
  BY <1>1 DEF End, Va
<1>5. Thread'
  BY <1>1 DEF Thread
<1>6. DirectMapping'
  <2> SUFFICES ASSUME NEW e \in MemoryEntries
               PROVE  IF Begun(e)'
                        THEN /\ OwnTable(e)'
                             /\ \A n \in Slots :
                                  EntryOf(e, n)' = IF Unfilled(e, n)' THEN None ELSE Wanted(e, n)'
                        ELSE pgd'[e] = BootEntry(e)
    BY DEF DirectMapping, BootEntry
  <2>1. e \in Directory /\ e # LastEntry
    BY Bounds
  <2>2. e * PTRS_PER_PTE < End => e < i
    <3>1. e * PTRS_PER_PTE \in Int /\ i * PTRS_PER_PTE \in Int /\ i \in Int
      BY <1>1, <2>1, Constants DEF Directory
    <3>2. e * PTRS_PER_PTE < End => e * PTRS_PER_PTE < i * PTRS_PER_PTE
      BY <1>1, <3>1, Bounds
    <3> QED BY <2>1, <3>1, <3>2, Constants, MulCancel DEF Directory
  <2>3. /\ Begun(e)' <=> Begun(e)
        /\ \A n : ~Unfilled(e, n)' /\ ~Unfilled(e, n) /\ Wanted(e, n)' = Wanted(e, n)
    BY <1>1, <1>4, <2>2 DEF Begun, Unfilled, Wanted
  <2>4. OwnTable(e)' <=> OwnTable(e)
    BY <1>3, <2>1 DEF OwnTable
  <2> QED BY <1>3, <2>1, <2>3, <2>4 DEF IInv, DirectMapping
<1>7. FixedMapping'
  BY <1>1, <1>3 DEF FixedMapping, LastEntry, Slots
<1>8. LowMapping'
  <2>1. \A e \in 0 .. USER_PTRS_PER_PGD - 1 : e \in Directory /\ e # LastEntry
    BY Bounds, Constants DEF LastEntry
  <2> QED BY <1>1, <1>3, <2>1 DEF IInv, LowMapping, BootEntry
<1>9. Tlb'
  BY <1>1, AccessedPages, AccessKept DEF Tlb, Va
<1> QED BY <1>3, <1>5, <1>6, <1>7, <1>8, <1>9 DEF IInv

(* The table that is being filled belongs to one entry of the directory.   *)
LEMMA TableInHand ==
  ASSUME IInv, at = "fill"
  PROVE  /\ i \in MemoryEntries /\ i \in Directory /\ i \in Nat /\ k \in 0 .. PTRS_PER_PTE
         /\ Begun(i) /\ OwnTable(i)
         /\ pgd[i].frame \in DOMAIN tables
         /\ \A f \in Directory : f # i /\ pgd[f] # None => pgd[f].frame # pgd[i].frame
<1>1. i \in MemoryEntries /\ i \in Directory /\ i \in Nat /\ k \in 0 .. PTRS_PER_PTE /\ Begun(i)
  BY Bounds, Constants DEF IInv, Thread, Begun, MemoryEntries
<1>2. OwnTable(i)
  BY <1>1 DEF IInv, DirectMapping
<1>3. pgd[i].frame \in DOMAIN tables
  BY <1>1, <1>2 DEF OwnTable, IInv, Types
<1>4. ASSUME NEW f \in Directory, f # i, pgd[f] # None PROVE pgd[f].frame # pgd[i].frame
  <2>1. CASE f \in USER_PTRS_PER_PGD .. LastEntry
    BY <1>1, <1>2, <1>4, <2>1, Bounds DEF IInv, TablesApart, OwnTable
  <2>2. CASE f \notin USER_PTRS_PER_PGD .. LastEntry
    <3>1. f \in 0 .. USER_PTRS_PER_PGD - 1
      BY <2>2, Constants DEF Directory, LastEntry
    <3>2. pgd[f] = BootEntry(f)
      BY <3>1 DEF IInv, LowMapping
    <3>3. pgd[f].frame \in {pg0, pg1}
      BY <1>4, <3>2 DEF BootEntry, Entry
    <3> QED BY <1>2, <3>3 DEF OwnTable
  <2> QED BY <2>1, <2>2
<1> QED BY <1>1, <1>2, <1>3, <1>4

LEMMA FillEntryInv ==
  ASSUME IInv, FillEntry
  PROVE  IInv'
<1> DEFINE t == pgd[i].frame
<1>1. /\ at = "fill" /\ at' = "fill" /\ i' = i /\ k' = k + 1
      /\ k < PTRS_PER_PTE /\ Vaddr < End
      /\ UNCHANGED <<max_low_pfn, free, pgd>>
      /\ tables' = [tables EXCEPT ![t][k] = Entry(Vaddr - PageOffset, FALSE)]
      /\ Access(Accessed)
  BY DEF FillEntry
<1>2. /\ i \in MemoryEntries /\ i \in Directory /\ i \in Nat /\ k \in Slots
      /\ Begun(i) /\ OwnTable(i) /\ t \in DOMAIN tables
      /\ \A f \in Directory : f # i /\ pgd[f] # None => pgd[f].frame # t
  BY <1>1, TableInHand, Constants DEF Slots
<1>3. Entry(Vaddr - PageOffset, FALSE) \in Entries
  BY <1>2, Constants DEF Entry, Entries, Vaddr, Slots
<1>4. /\ DOMAIN tables' = DOMAIN tables
      /\ tables' \in [DOMAIN tables' -> [Slots -> Entries]]
      /\ \A x \in DOMAIN tables : x # t => tables'[x] = tables[x]
      /\ \A n \in Slots :
           tables'[t][n] = IF n = k THEN Entry(Vaddr - PageOffset, FALSE) ELSE tables[t][n]
  <2>1. tables \in [DOMAIN tables -> [Slots -> Entries]] /\ t \in DOMAIN tables
    BY <1>2 DEF IInv, Types
  <2> DEFINE D == DOMAIN tables
             new == Entry(Vaddr - PageOffset, FALSE)
  <2>2. tables' = [tables EXCEPT ![t] = [tables[t] EXCEPT ![k] = new]]
    BY <1>1
  <2>3. tables[t] \in [Slots -> Entries] /\ new \in Entries
    BY <1>3, <2>1
  <2>4. tables \in [D -> [Slots -> Entries]] /\ t \in D
    BY <2>1
  <2> HIDE DEF new, t, D
  <2>5. [tables[t] EXCEPT ![k] = new] \in [Slots -> Entries]
    BY <2>3
  <2>6. tables' \in [D -> [Slots -> Entries]]
    BY <2>2, <2>4, <2>5
  <2>7. \A x \in D : x # t => tables'[x] = tables[x]
    BY <2>2, <2>4
  <2>8. tables'[t] = [tables[t] EXCEPT ![k] = new]
    BY <2>2, <2>4
  <2>9. \A n \in Slots : tables'[t][n] = IF n = k THEN new ELSE tables[t][n]
    BY <2>3, <2>8
  <2>10. DOMAIN tables' = D
    BY <2>6
  <2> QED BY <2>6, <2>7, <2>9, <2>10 DEF new, D
<1>5. Types'
  BY <1>1, <1>4 DEF IInv, Types
<1>6. BootTables' /\ TablesApart'
  BY <1>1, <1>2, <1>4 DEF IInv, BootTables, TablesApart, OwnTable
<1>7. ASSUME NEW f \in Directory, NEW n \in Slots
      PROVE  EntryOf(f, n)' = IF f = i /\ n = k THEN Entry(Vaddr - PageOffset, FALSE)
                                              ELSE EntryOf(f, n)
  <2>1. CASE f = i
    <3>1. pgd[f] # None /\ pgd'[f] = pgd[f] /\ pgd[f].frame = t
      BY <1>1, <1>2, <2>1 DEF OwnTable
    <3> HIDE DEF t
    <3> QED BY <1>4, <2>1, <3>1 DEF EntryOf
  <2>2. CASE f # i
    <3>1. pgd'[f] = pgd[f] /\ (pgd[f] # None => pgd[f].frame \in DOMAIN tables /\ pgd[f].frame # t)
      BY <1>1, <1>2, <2>2 DEF IInv, Types
    <3> HIDE DEF t
    <3> QED BY <1>4, <2>2, <3>1 DEF EntryOf
  <2> QED BY <2>1, <2>2
<1>8. End' = End /\ TablesNeeded' = TablesNeeded /\ LowFree' = LowFree
      /\ \A e : OwnTable(e)' <=> OwnTable(e)
  BY <1>1 DEF End, Va, TablesNeeded, LowFree, OwnTable
<1>9. Thread'
  BY <1>1, <1>2, <1>8, Constants DEF IInv, Thread, Slots
<1>10. DirectMapping'
  <2> SUFFICES ASSUME NEW e \in MemoryEntries
               PROVE  IF Begun(e)'
                        THEN /\ OwnTable(e)'
                             /\ \A n \in Slots :
                                  EntryOf(e, n)' = IF Unfilled(e, n)' THEN None ELSE Wanted(e, n)'
                        ELSE pgd'[e] = BootEntry(e)
    BY DEF DirectMapping, BootEntry
  <2>1. e \in Directory /\ (Begun(e)' <=> Begun(e)) /\ \A n : Wanted(e, n)' = Wanted(e, n)
    BY <1>1, <1>8, Bounds DEF Begun, Wanted
  <2>2. ASSUME Begun(e), NEW n \in Slots
        PROVE  EntryOf(e, n)' = IF Unfilled(e, n)' THEN None ELSE Wanted(e, n)'
    <3>1. EntryOf(e, n) = IF Unfilled(e, n) THEN None ELSE Wanted(e, n)
      BY <2>2 DEF IInv, DirectMapping
    <3>2. CASE e = i /\ n = k
      <4>1. Wanted(e, n) = Entry(Vaddr - PageOffset, FALSE)
        <5>1. e * PTRS_PER_PTE + n = Vaddr
          BY <3>2 DEF Vaddr
        <5>2. e * PTRS_PER_PTE + n < End
          BY <1>1, <5>1
        <5>3. Wanted(e, n) = Entry(e * PTRS_PER_PTE + n - PageOffset, FALSE)
          BY <5>2 DEF Wanted
        <5>4. e * PTRS_PER_PTE + n - PageOffset = Vaddr - PageOffset
          <6>1. e * PTRS_PER_PTE \in Int /\ n \in Int /\ PageOffset \in Int
            BY <1>2, <3>2, Constants DEF Slots
          <6> QED BY <5>1, <6>1
        <5> HIDE DEF t
        <5> QED BY <5>3, <5>4
      <4>2. ~Unfilled(e, n)'
        BY <1>1, <1>2, <3>2 DEF Unfilled, Slots
      <4> QED BY <1>7, <2>1, <3>2, <4>1, <4>2
    <3>3. CASE ~(e = i /\ n = k)
      <4>1. Unfilled(e, n)' <=> Unfilled(e, n)
        BY <1>1, <1>2, <3>3 DEF Unfilled, Slots
      <4>2. EntryOf(e, n)' = EntryOf(e, n)
        BY <1>7, <2>1, <3>3
      <4> QED BY <2>1, <3>1, <4>1, <4>2
    <3> QED BY <3>2, <3>3
  <2>3. Begun(e) => OwnTable(e)'
    BY <1>8 DEF IInv, DirectMapping
  <2>4. ~Begun(e) => pgd'[e] = BootEntry(e)
    BY <1>1 DEF IInv, DirectMapping
  <2> QED BY <2>1, <2>2, <2>3, <2>4
<1>11. FixedMapping' /\ LowMapping'
  BY <1>1 DEF IInv, FixedMapping, LowMapping, BootEntry, LastEntry
<1>12. Tlb'
  BY <1>1, AccessedPages, AccessKept DEF Tlb, Va
<1> QED BY <1>5, <1>6, <1>9, <1>10, <1>11, <1>12 DEF IInv

LEMMA EndTableInv ==
  ASSUME IInv, EndTable
  PROVE  IInv'
<1>1. /\ at = "fill" /\ at' = "pagetable_init" /\ i' = i + 1 /\ k' = 0
      /\ k = PTRS_PER_PTE \/ Vaddr >= End
      /\ UNCHANGED <<max_low_pfn, free, pgd, tables>>
      /\ Access(Accessed)
  BY DEF EndTable
<1>2. /\ i \in MemoryEntries /\ i \in Directory /\ i \in Nat /\ k \in 0 .. PTRS_PER_PTE
      /\ Begun(i) /\ i * PTRS_PER_PTE < End
  BY <1>1, TableInHand DEF Begun
<1>3. /\ Types' /\ BootTables' /\ TablesApart'
      /\ \A e, n : EntryOf(e, n)' = EntryOf(e, n)
      /\ \A e : OwnTable(e)' <=> OwnTable(e)
      /\ LowFree' = LowFree /\ End' = End /\ TablesNeeded' = TablesNeeded
  BY <1>1, SameTables
<1>4. Thread'
  <2>1. i - USER_PTRS_PER_PGD < TablesNeeded
    <3>1. (i - USER_PTRS_PER_PGD) * PTRS_PER_PTE < max_low_pfn
      BY <1>2, Bounds, Constants
    <3>2. (i - USER_PTRS_PER_PGD) * PTRS_PER_PTE \in Int /\ TablesNeeded * PTRS_PER_PTE \in Int
      BY <1>2, Bounds, Constants
    <3>3. (i - USER_PTRS_PER_PGD) * PTRS_PER_PTE < TablesNeeded * PTRS_PER_PTE
      BY <3>1, <3>2, Bounds
    <3>4. i - USER_PTRS_PER_PGD \in Int /\ TablesNeeded \in Int
      BY <1>2, Bounds, Constants
    <3> QED BY <3>3, <3>4, Constants, MulCancel
  <2>2. i' \in USER_PTRS_PER_PGD .. LastEntry
    BY <1>1, <1>2, Constants DEF MemoryEntries, LastEntry
  <2>3. Cardinality(LowFree) >= TablesNeeded - (i - USER_PTRS_PER_PGD)
    BY <1>1 DEF IInv, Thread
  <2>4. TablesNeeded - (i - USER_PTRS_PER_PGD) = TablesNeeded + 1 - (i' - USER_PTRS_PER_PGD)
    BY <1>1, <1>2, Bounds, Constants
  <2>5. i' - USER_PTRS_PER_PGD <= TablesNeeded
    BY <1>1, <1>2, <2>1, Bounds, Constants
  <2> QED BY <1>1, <1>3, <2>2, <2>3, <2>4, <2>5 DEF Thread, LastEntry
<1>5. DirectMapping'
  <2> SUFFICES ASSUME NEW e \in MemoryEntries
               PROVE  IF Begun(e)'
                        THEN /\ OwnTable(e)'
                             /\ \A n \in Slots :
                                  EntryOf(e, n)' = IF Unfilled(e, n)' THEN None ELSE Wanted(e, n)'
                        ELSE pgd'[e] = BootEntry(e)
    BY DEF DirectMapping, BootEntry
  <2>1. e \in Directory /\ e \in Nat /\ (Begun(e)' <=> Begun(e))
        /\ \A n : Wanted(e, n)' = Wanted(e, n) /\ ~Unfilled(e, n)'
    BY <1>1, <1>2, <1>3, Bounds DEF Begun, Wanted, Unfilled, Directory
  <2>2. ASSUME NEW n \in Slots, Unfilled(e, n) PROVE Wanted(e, n) = None
    <3>1. e = i /\ n >= k /\ n \in Nat /\ n < PTRS_PER_PTE
      BY <2>2, Constants DEF Unfilled, Slots
    <3>2. i * PTRS_PER_PTE + k >= End
      BY <1>1, <1>2, <3>1, Constants DEF Vaddr
    <3>3. ~(i * PTRS_PER_PTE + n < End)
      <4>1. i * PTRS_PER_PTE \in Nat
        BY <1>2, Constants
      <4> QED BY <1>2, <3>1, <3>2, <4>1, Bounds
    <3> QED BY <3>1, <3>3 DEF Wanted
  <2> QED BY <1>1, <1>3, <2>1, <2>2 DEF IInv, DirectMapping
<1>6. FixedMapping' /\ LowMapping'
  BY <1>1 DEF IInv, FixedMapping, LowMapping, BootEntry, LastEntry
<1>7. Tlb'
  BY <1>1, AccessedPages, AccessKept DEF Tlb, Va
<1> QED BY <1>3, <1>4, <1>5, <1>6, <1>7 DEF IInv

(* What the rest of the boot leaves as pagetable_init made it.             *)
LEMMA MappingStays ==
  ASSUME IInv, {at, at'} \subseteq {"flush", "zones", "zap", "done"},
         max_low_pfn' = max_low_pfn, tables' = tables,
         \A e \in MemoryEntries \cup {LastEntry} : pgd'[e] = pgd[e]
  PROVE  DirectMapping' /\ FixedMapping'
<1>1. End' = End
  BY DEF End, Va
<1>2. ASSUME NEW e \in MemoryEntries \cup {LastEntry}
      PROVE  /\ \A n : EntryOf(e, n)' = EntryOf(e, n)
             /\ OwnTable(e)' <=> OwnTable(e)
             /\ Begun(e)' <=> Begun(e)
             /\ \A n : Wanted(e, n)' = Wanted(e, n) /\ (Unfilled(e, n)' <=> Unfilled(e, n))
  BY <1>1 DEF EntryOf, OwnTable, Begun, Wanted, Unfilled
<1>3. DirectMapping'
  <2> SUFFICES ASSUME NEW e \in MemoryEntries
               PROVE  IF Begun(e)'
                        THEN /\ OwnTable(e)'
                             /\ \A n \in Slots :
                                  EntryOf(e, n)' = IF Unfilled(e, n)' THEN None ELSE Wanted(e, n)'
                        ELSE pgd'[e] = BootEntry(e)
    BY DEF DirectMapping, BootEntry
  <2> QED BY <1>2 DEF IInv, DirectMapping
<1>4. LastEntry' = LastEntry
  BY DEF LastEntry
<1>5. FixedMapping'
  <2>1. OwnTable(LastEntry)' /\ \A n \in Slots : EntryOf(LastEntry, n)' = None
    BY <1>2 DEF IInv, FixedMapping
  <2> QED BY <2>1 DEF FixedMapping, LastEntry, Slots
<1> QED BY <1>3, <1>5

(* Steps after pagetable_init that leave the tables alone. *)
LEMMA QuietInv ==
  ASSUME IInv, {at, at'} \subseteq {"flush", "zones", "zap", "done"},
         UNCHANGED <<max_low_pfn, free, pgd, tables>>,
         Thread', LowMapping', Tlb'
  PROVE  IInv'
BY MappingStays, SameTables DEF IInv

LEMMA AfterTables ==
  ASSUME IInv, FlushTLB \/ FreeAreaInit
  PROVE  IInv'
<1>1. /\ at \in {"flush", "zones"} /\ at' \in {"zones", "zap"}
      /\ UNCHANGED <<max_low_pfn, free, pgd, tables>>
      /\ at' = "zap" => i' = 0
      /\ tlb' = {} \/ Access(Accessed)
  BY DEF FlushTLB, FreeAreaInit, NextZone, NextZonelist, FreeAreaInitDone
<1>2. Thread'
  BY <1>1, Constants DEF Thread
<1>3. LowMapping'
  <2>1. \A e \in 0 .. USER_PTRS_PER_PGD - 1 : ~(e < 0)
    OBVIOUS
  <2> QED BY <1>1, <2>1 DEF IInv, LowMapping, BootEntry
<1>4. Tlb'
  BY <1>1, AccessedPages, AccessKept DEF Tlb
<1> QED BY <1>1, <1>2, <1>3, <1>4, QuietInv

LEMMA ZapInv ==
  ASSUME IInv, Zap
  PROVE  IInv'
<1>1. /\ at = "zap" /\ at' = "zap" /\ i \in 0 .. USER_PTRS_PER_PGD - 1 /\ i' = i + 1
      /\ pgd' = [pgd EXCEPT ![i] = None]
      /\ UNCHANGED <<max_low_pfn, free, tables>>
      /\ Access(Accessed)
  BY Constants DEF Zap, IInv, Thread
<1>2. /\ i \in Directory /\ None \in Entries
      /\ \A e \in USER_PTRS_PER_PGD .. LastEntry : e # i /\ e \in Directory
  BY <1>1, Bounds, Constants DEF None, Entry, Entries
<1>3. pgd'[i] = None /\ \A e \in Directory : e # i => pgd'[e] = pgd[e]
  BY <1>1, <1>2 DEF IInv, Types
<1>4. Types'
  <2>1. pgd' \in [Directory -> Entries]
    BY <1>1, <1>2 DEF IInv, Types
  <2> QED BY <1>1, <1>3, <2>1 DEF IInv, Types
<1>5. BootTables' /\ TablesApart'
  BY <1>1, <1>2, <1>3 DEF IInv, BootTables, TablesApart, LastEntry
<1>6. DirectMapping' /\ FixedMapping'
  BY <1>1, <1>2, <1>3, Bounds, MappingStays
<1>7. Thread'
  BY <1>1, Constants DEF Thread
<1>8. LowMapping'
  <2> SUFFICES ASSUME NEW e \in 0 .. USER_PTRS_PER_PGD - 1
               PROVE  pgd'[e] = IF e < i' THEN None ELSE BootEntry(e)
    BY <1>1 DEF LowMapping, BootEntry
  <2>1. e \in Directory /\ pgd[e] = IF e < i THEN None ELSE BootEntry(e)
    BY <1>1, Bounds DEF IInv, LowMapping
  <2> QED BY <1>1, <1>3, <2>1
<1>9. Tlb'
  BY <1>1, AccessedPages, AccessKept DEF Tlb
<1> QED BY <1>4, <1>5, <1>6, <1>7, <1>8, <1>9 DEF IInv

LEMMA ZapDoneInv ==
  ASSUME IInv, ZapDone
  PROVE  IInv'
<1>1. /\ at = "zap" /\ at' = "done" /\ i = USER_PTRS_PER_PGD /\ tlb' = {}
      /\ UNCHANGED <<max_low_pfn, free, pgd, tables>>
  BY DEF ZapDone
<1>2. LowMapping'
  <2>1. \A e \in 0 .. USER_PTRS_PER_PGD - 1 : e < i
    BY <1>1, Constants
  <2> QED BY <1>1, <2>1 DEF IInv, LowMapping, BootEntry
<1>3. Thread' /\ Tlb'
  BY <1>1 DEF Thread, Tlb
<1> QED BY <1>1, <1>2, <1>3, QuietInv

(* Low addresses are not mapped any more in the end. *)
LEMMA LowUnmapped ==
  ASSUME IInv, at = "done", NEW v \in 0 .. PageOffset - 1
  PROVE  Walk(v) = None
<1>1. /\ v \div PTRS_PER_PTE \in Nat /\ v % PTRS_PER_PTE \in 0 .. PTRS_PER_PTE - 1
      /\ v = (v \div PTRS_PER_PTE) * PTRS_PER_PTE + (v % PTRS_PER_PTE)
  <2>1. v \in Nat
    BY Constants
  <2> QED BY <2>1, Constants, DivMod
<1> DEFINE e == v \div PTRS_PER_PTE
<1>2. e * PTRS_PER_PTE < USER_PTRS_PER_PGD * PTRS_PER_PTE
  <2>1. e * PTRS_PER_PTE \in Nat /\ e * PTRS_PER_PTE <= v
    BY <1>1, Constants
  <2> HIDE DEF e
  <2> QED BY <2>1, Constants
<1>3. e \in 0 .. USER_PTRS_PER_PGD - 1
  <2>1. e < USER_PTRS_PER_PGD
    <3>1. e \in Nat
      BY <1>1
    <3> HIDE DEF e
    <3> QED BY <1>2, <3>1, Constants, MulCancel
  <2> QED BY <1>1, <2>1, Constants
<1>4. pgd[e] = None
  BY <1>3 DEF IInv, LowMapping
<1> QED BY <1>4 DEF Walk

LEMMA StrayInv ==
  ASSUME IInv, Stray
  PROVE  IInv'
<1>1. /\ Walk(0) # None
      /\ tlb' = tlb \cup {<<0, Walk(0).frame>>}
      /\ UNCHANGED <<max_low_pfn, free, pgd, tables, at, i, k>>
  BY DEF Stray
<1>2. at # "done"
  <2>1. 0 \in 0 .. PageOffset - 1
    BY Constants
  <2> QED BY <1>1, <2>1, LowUnmapped
<1>3. Tlb'
  <2>1. \A t \in tlb' : t[1] >= PageOffset => t \in tlb
    BY <1>1, Constants
  <2> QED BY <1>1, <1>2, <2>1 DEF IInv, Tlb, Va
<1>4. /\ Types' /\ BootTables' /\ Thread'
      /\ DirectMapping' /\ FixedMapping' /\ LowMapping'
      /\ TablesApart'
  BY <1>1 DEF IInv, Types, BootTables, Thread, DirectMapping, FixedMapping, LowMapping,
       TablesApart, Begun, OwnTable, EntryOf, Unfilled, Wanted, LowFree, TablesNeeded, End, Va
<1> QED BY <1>3, <1>4 DEF IInv

LEMMA NextInv == IInv /\ [Next]_vars => IInv'
<1> SUFFICES ASSUME IInv, [Next]_vars PROVE IInv'
  OBVIOUS
<1>1. CASE UNCHANGED vars
  BY <1>1 DEF vars, pagevars, IInv, Types, BootTables, Thread, DirectMapping, FixedMapping,
       LowMapping, TablesApart, Begun, OwnTable, EntryOf, Unfilled, Wanted, LowFree,
       TablesNeeded, End, Va, Tlb
<1>2. CASE Next
  BY <1>2, NewTableInv, FillEntryInv, EndTableInv, FixRangeInv, AfterTables, ZapInv,
     ZapDoneInv, StrayInv DEF Next, PagetableInit, ZapLow
<1> QED BY <1>1, <1>2

LEMMA Inductive == Spec => []IInv
BY InitInv, NextInv, PTL DEF Spec
----------------------------------------------------------------------------
(* A page of memory is found at its address: by the boot's tables, and     *)
(* once pagetable_init is over by the new ones. *)
LEMMA PageThere ==
  ASSUME IInv, at # "fill", NEW p \in 0 .. max_low_pfn - 1,
         at = "pagetable_init" => p < PTRS_PER_PTE * 2
  PROVE  /\ Walk(Va(p)).frame = p
         /\ at # "pagetable_init" => ~UserMode(Va(p))
<1>0. p \in Nat /\ p < max_low_pfn
  BY Bounds
<1>1. PICK q \in Nat, n \in Slots :
         /\ p = q * PTRS_PER_PTE + n
         /\ Va(p) = (USER_PTRS_PER_PGD + q) * PTRS_PER_PTE + n
  BY <1>0, Places
<1> DEFINE e == USER_PTRS_PER_PGD + q
<1>2. /\ e \in Nat /\ e >= USER_PTRS_PER_PGD /\ n \in Nat /\ n < PTRS_PER_PTE
      /\ e * PTRS_PER_PTE \in Nat /\ q * PTRS_PER_PTE \in Nat
  BY <1>1, Constants DEF Slots
<1>3. /\ Va(p) = e * PTRS_PER_PTE + n /\ Va(p) = PageOffset + p
      /\ Va(p) < End /\ e * PTRS_PER_PTE < End
  <2>1. Va(p) = e * PTRS_PER_PTE + n
    BY <1>1
  <2>2. Va(p) = PageOffset + p
    BY DEF Va
  <2>3. PageOffset + p < PageOffset + max_low_pfn /\ PageOffset + p \in Int
    BY <1>0, Bounds, Constants
  <2> HIDE DEF e
  <2>4. e * PTRS_PER_PTE <= e * PTRS_PER_PTE + n
    BY <1>2
  <2> QED BY <1>2, <2>1, <2>2, <2>3, <2>4, Bounds
<1>4. e \in MemoryEntries
  <2>1. e * PTRS_PER_PTE < LastEntry * PTRS_PER_PTE /\ LastEntry \in Int
    BY <1>2, <1>3, Bounds, Constants DEF LastEntry
  <2> HIDE DEF e
  <2>2. e < LastEntry
    BY <1>2, <2>1, Constants, MulCancel
  <2> QED BY <1>2, <2>2, Constants DEF MemoryEntries, LastEntry
<1>5. Walk(Va(p)) = EntryOf(e, n)
  BY <1>1, <1>2, <1>3, WalkOfEntry
<1>6. CASE Begun(e)
  <2>1. EntryOf(e, n) = Wanted(e, n) /\ OwnTable(e)
    BY <1>4, <1>6 DEF IInv, DirectMapping, Unfilled
  <2>2. Wanted(e, n) = Entry(p, FALSE)
    <3>1. e * PTRS_PER_PTE + n < End
      BY <1>3
    <3>2. e * PTRS_PER_PTE + n - PageOffset = p
      BY <1>0, <1>2, <1>3, Constants
    <3> HIDE DEF e
    <3> QED BY <3>1, <3>2 DEF Wanted
  <2>3. Walk(Va(p)) = Entry(p, FALSE)
    BY <1>5, <2>1, <2>2
  <2>4. ~UserMode(Va(p))
    BY <2>3 DEF UserMode, Entry
  <2> QED BY <2>3, <2>4 DEF Entry
<1>7. CASE ~Begun(e)
  <2>1. at = "pagetable_init" /\ pgd[e] = BootEntry(e)
    BY <1>3, <1>4, <1>7 DEF IInv, DirectMapping, Begun
  <2>2. q = 0 \/ q = 1
    <3>1. q * PTRS_PER_PTE < 2 * PTRS_PER_PTE
      <4>1. 2 * PTRS_PER_PTE = PTRS_PER_PTE * 2 /\ PTRS_PER_PTE * 2 \in Nat
        BY Constants
      <4> QED BY <1>0, <1>1, <1>2, <2>1, <4>1
    <3>2. q < 2
      BY <3>1, Constants, MulCancel
    <3> QED BY <3>2
  <2>3. USER_PTRS_PER_PGD \in Nat /\ USER_PTRS_PER_PGD >= 2 /\ {pg0, pg1} \subseteq Nat
    BY Constants
  <2>4. CASE q = 0
    <3>1. e = USER_PTRS_PER_PGD /\ p = 0 + n
      BY <1>1, <1>2, <2>3, <2>4, Constants
    <3>2. pgd[e] = Entry(pg0, TRUE)
      BY <2>1, <3>1 DEF BootEntry
    <3>3. EntryOf(e, n) = BootTable(0)[n]
      BY <2>3, <3>2 DEF EntryOf, IInv, BootTables, None, Entry
    <3> QED BY <1>5, <2>1, <3>1, <3>3 DEF BootTable, Entry, Slots
  <2>5. CASE q = 1
    <3>1. e = USER_PTRS_PER_PGD + 1 /\ p = PTRS_PER_PTE + n
      BY <1>1, <1>2, <2>3, <2>5, Constants
    <3>2. pgd[e] = Entry(pg1, TRUE)
      <4>1. e \notin {0, USER_PTRS_PER_PGD}
        BY <2>3, <3>1
      <4> QED BY <2>1, <3>1, <4>1 DEF BootEntry
    <3>3. EntryOf(e, n) = BootTable(PTRS_PER_PTE)[n]
      BY <2>3, <3>2 DEF EntryOf, IInv, BootTables, None, Entry
    <3> QED BY <1>5, <2>1, <3>1, <3>3 DEF BootTable, Entry, Slots
  <2> QED BY <2>2, <2>4, <2>5
<1> QED BY <1>6, <1>7

LEMMA Reachable == IInv => KernelReachable
<1> SUFFICES ASSUME IInv, NEW p \in Accessed PROVE Reaches(Va(p), p)
  BY DEF KernelReachable
<1>1. CASE at = "fill"
  <2>1. p \in Text \cup {pgd[i].frame}
    BY <1>1 DEF Accessed, TakesTable
  <2>2. <<Va(p), p>> \in tlb
    BY <1>1, <2>1 DEF IInv, Tlb
  <2> QED BY <2>2 DEF Reaches
<1>2. CASE at # "fill"
  <2>1. p \in KernelPages \/ (TakesTable /\ p = NextTable)
    BY <1>2 DEF Accessed, KernelPages
  <2>2. p \in 1 .. max_low_pfn - 1 /\ p < PTRS_PER_PTE * 2
    <3>1. KernelPages \subseteq 1 .. max_low_pfn - 1 /\ free \subseteq 1 .. max_low_pfn - 1
      BY DEF IInv, Types
    <3>2. ASSUME p \in KernelPages PROVE p < PTRS_PER_PTE * 2
      <4> DEFINE last == PTRS_PER_PTE * 2 - 1
      <4>1. p \in 1 .. last /\ last \in Nat /\ last < PTRS_PER_PTE * 2 /\ PTRS_PER_PTE * 2 \in Nat
        BY <3>2, Constants
      <4> HIDE DEF last
      <4> QED BY <4>1
    <3> QED BY <2>1, <3>1, <3>2, TableFound
  <2>3. p \in 0 .. max_low_pfn - 1 /\ p \in Nat
    BY <2>2, Bounds
  <2>4. Walk(Va(p)).frame = p
    BY <1>2, <2>2, <2>3, PageThere
  <2>5. ASSUME NEW t \in tlb, t[1] = Va(p) PROVE <<Va(p), p>> \in tlb
    <3>1. Va(p) >= PageOffset /\ Va(p) - PageOffset = p
      BY <2>3, Constants DEF Va
    <3>2. t = <<t[1], t[1] - PageOffset>>
      BY <2>5, <3>1 DEF IInv, Tlb
    <3> QED BY <2>5, <3>1, <3>2
  <2> QED BY <2>4, <2>5 DEF Reaches
<1> QED BY <1>1, <1>2

(* Every page that the thread touches next is mapped at its address, by    *)
(* the tables or by the TLB, though pagetable_init puts empty tables where *)
(* the kernel's own were. *)
THEOREM KernelStaysMapped == Spec => []KernelReachable
BY Inductive, Reachable, PTL

(* What is mapped past the end of memory is the boot's mapping still.      *)
LEMMA NothingElse ==
  ASSUME IInv, at \notin {"pagetable_init", "fill"}, NEW v \in VirtualPages,
         v >= End, Walk(v) # None
  PROVE  Walk(v).frame = v - PageOffset
<1> DEFINE e == v \div PTRS_PER_PTE
           n == v % PTRS_PER_PTE
<1>0. v \in Nat /\ v < PTRS_PER_PGD * PTRS_PER_PTE
  <2>1. PTRS_PER_PGD * PTRS_PER_PTE \in Nat
    BY Constants
  <2> QED BY <2>1 DEF VirtualPages
<1>1. e \in Nat /\ n \in Slots /\ v = e * PTRS_PER_PTE + n
  BY <1>0, Constants, DivMod DEF Slots
<1>2. Walk(v) = EntryOf(e, n)
  BY DEF Walk, EntryOf
<1> HIDE DEF e, n
<1>3. n \in Nat /\ n < PTRS_PER_PTE /\ e * PTRS_PER_PTE \in Nat
  BY <1>1, Constants DEF Slots
<1>4. e < PTRS_PER_PGD
  <2>1. e * PTRS_PER_PTE < PTRS_PER_PGD * PTRS_PER_PTE
    <3>1. PTRS_PER_PGD * PTRS_PER_PTE \in Nat
      BY Constants
    <3> QED BY <1>0, <1>1, <1>3, <3>1
  <2> QED BY <1>1, <2>1, Constants, MulCancel
<1>5. e >= USER_PTRS_PER_PGD
  <2>1. USER_PTRS_PER_PGD * PTRS_PER_PTE < (e + 1) * PTRS_PER_PTE
    <3>1. (e + 1) * PTRS_PER_PTE = e * PTRS_PER_PTE + PTRS_PER_PTE
      BY <1>1, Constants
    <3>2. PageOffset < v
      BY <1>0, Bounds, Constants
    <3> QED BY <1>0, <1>1, <1>3, <3>1, <3>2, Constants
  <2>2. USER_PTRS_PER_PGD < e + 1
    BY <1>1, <2>1, Constants, MulCancel
  <2> QED BY <1>1, <2>2, Constants
<1>6. e # LastEntry
  BY <1>1, <1>2 DEF IInv, FixedMapping
<1>7. e \in MemoryEntries
  BY <1>1, <1>4, <1>5, <1>6, Constants DEF MemoryEntries, LastEntry
<1>8. ~Begun(e)
  <2>1. Wanted(e, n) = None
    <3>1. ~(e * PTRS_PER_PTE + n < End)
      BY <1>0, <1>1, Bounds
    <3> QED BY <3>1 DEF Wanted
  <2> QED BY <1>1, <1>2, <1>7, <2>1 DEF IInv, DirectMapping, Unfilled
<1>9. pgd[e] = BootEntry(e) /\ pgd[e] # None
  BY <1>2, <1>7, <1>8 DEF IInv, DirectMapping, EntryOf
<1>10. e # USER_PTRS_PER_PGD
  BY <1>8, Bounds, Constants DEF Begun
<1>11. e = USER_PTRS_PER_PGD + 1
  <2>1. e >= 2
    BY <1>1, <1>5, Constants
  <2>2. e \notin {0, 1, USER_PTRS_PER_PGD}
    BY <1>1, <1>10, <2>1
  <2> QED BY <1>9, <2>2 DEF BootEntry
<1>12. Walk(v) = Entry(PTRS_PER_PTE + n, TRUE)
  <2>1. pgd[e] = Entry(pg1, TRUE)
    <3>1. e >= 2 /\ e \notin {0, USER_PTRS_PER_PGD}
      BY <1>1, <1>5, <1>10, Constants
    <3> QED BY <1>9, <1>11, <3>1 DEF BootEntry
  <2>2. pgd[e].frame = pg1
    BY <2>1 DEF Entry
  <2> QED BY <1>1, <1>2, <1>9, <2>2 DEF EntryOf, IInv, BootTables, BootTable, Slots
<1>13. v - PageOffset = PTRS_PER_PTE + n
  <2>1. e * PTRS_PER_PTE = USER_PTRS_PER_PGD * PTRS_PER_PTE + PTRS_PER_PTE
    BY <1>11, Constants
  <2> QED BY <1>1, <1>3, <2>1, Constants
<1> QED BY <1>12, <1>13 DEF Entry

LEMMA Exact == IInv => MappingExact
<1> SUFFICES ASSUME IInv PROVE MappingExact
  OBVIOUS
<1>1. ASSUME at \in {"zones", "zap", "done"}, NEW p \in 0 .. max_low_pfn - 1
      PROVE  Walk(Va(p)).frame = p /\ ~UserMode(Va(p))
  BY <1>1, PageThere
<1>2. ASSUME at \in {"zones", "zap", "done"}, NEW v \in VirtualPages, v >= End, Walk(v) # None
      PROVE  Walk(v).frame = v - PageOffset
  BY <1>2, NothingElse
<1>3. ASSUME NEW e \in USER_PTRS_PER_PGD .. PTRS_PER_PGD - 1, pgd[e] # None
      PROVE  /\ pgd[e].frame \notin free
             /\ \A f \in USER_PTRS_PER_PGD .. e - 1 : pgd[f].frame # pgd[e].frame
  <2>1. pgd[e].frame \in DOMAIN tables /\ e \in Directory
    BY <1>3, Bounds DEF IInv, Types, LastEntry
  <2>2. pgd[e].frame \notin free /\ pgd[e].frame \in Nat
    BY <2>1 DEF IInv, Types
  <2>3. ASSUME NEW f \in USER_PTRS_PER_PGD .. e - 1 PROVE pgd[f].frame # pgd[e].frame
    <3>1. f \in USER_PTRS_PER_PGD .. LastEntry /\ e \in USER_PTRS_PER_PGD .. LastEntry /\ f # e
      BY <1>3, Constants DEF LastEntry
    <3>2. CASE pgd[f] = None
      <4>1. pgd[f].frame = -1
        BY <3>2 DEF None, Entry
      <4> QED BY <2>2, <4>1
    <3>3. CASE pgd[f] # None
      BY <1>3, <3>1, <3>3 DEF IInv, TablesApart
    <3> QED BY <3>2, <3>3
  <2> QED BY <2>2, <2>3
<1>4. ASSUME at = "done"
      PROVE  /\ \A v \in 0 .. PageOffset - 1 : Walk(v) = None
             /\ \A t \in tlb : t[1] >= PageOffset
  BY <1>4, LowUnmapped DEF IInv, Tlb
<1> QED BY <1>1, <1>2, <1>3, <1>4 DEF MappingExact

(* When paging_init is over all of low memory is mapped, each page at its  *)
(* address, for the kernel alone and by tables of its own; and at the end  *)
(* of mem_init a null pointer faults. *)
THEOREM MappingIsExact == Spec => []MappingExact
BY Inductive, Exact, PTL
----------------------------------------------------------------------------
(* The zones, as far as free_area_init has come: the turns of its loops    *)
(* that are over, and what each of them has left. *)
Turn == IF at = "zones" THEN i
        ELSE IF at \in {"zap", "done"} THEN MAX_NR_ZONES + NR_GFPINDEX ELSE 0

Dma == IF max_low_pfn < max_dma THEN max_low_pfn ELSE max_dma

Zone    == [size : Nat, offset : Nat, min : Nat, low : Nat, high : Nat]
Marks   == {"min", "low", "high"}
PageMap == [zone : ZoneIds, virtual : Nat]

SizesSet ==
  /\ node_zones \in [ZoneIds -> Zone]
  /\ \A z \in ZoneIds : Turn <= z => node_zones[z] = Blank
  /\ Turn > ZONE_DMA => node_zones[ZONE_DMA].size = Dma /\ node_zones[ZONE_DMA].offset = 0
  /\ Turn > ZONE_NORMAL =>
       /\ node_zones[ZONE_NORMAL].size = max_low_pfn - Dma
       /\ max_low_pfn > Dma => node_zones[ZONE_NORMAL].offset = Dma
  /\ node_zones[ZONE_HIGHMEM] = Blank

PagesMapped ==
  /\ mem_map \in Seq(PageMap)
  /\ Len(mem_map) = IF Turn <= ZONE_DMA THEN 0 ELSE IF Turn <= ZONE_NORMAL THEN Dma ELSE max_low_pfn
  /\ \A n \in 1 .. Len(mem_map) :
       mem_map[n] = [zone |-> IF n <= Dma THEN ZONE_DMA ELSE ZONE_NORMAL, virtual |-> n - 1]

MarksSummed ==
  /\ freepages \in [Marks -> Nat]
  /\ \A f \in Marks :
       freepages[f] = node_zones[ZONE_DMA][f] + node_zones[ZONE_NORMAL][f]
                        + node_zones[ZONE_HIGHMEM][f]

ListFor(n) ==
  IF HasFlag(n, GFP_DMA) \/ max_low_pfn <= max_dma
    THEN <<ZONE_DMA, NoZone>> ELSE <<ZONE_NORMAL, ZONE_DMA, NoZone>>

ListsBuilt ==
  /\ node_zonelists \in Seq(Seq(Int))
  /\ Len(node_zonelists) = IF Turn <= MAX_NR_ZONES THEN 0 ELSE Turn - MAX_NR_ZONES
  /\ \A n \in 1 .. Len(node_zonelists) : node_zonelists[n] = ListFor(n - 1)

ZonesInv ==
  /\ at = "zones" => i \in 0 .. MAX_NR_ZONES + NR_GFPINDEX
  /\ SizesSet /\ PagesMapped /\ MarksSummed /\ ListsBuilt
----------------------------------------------------------------------------
LEMMA ZoneConstants ==
  /\ max_dma \in Nat \ {0} /\ NR_GFPINDEX \in Nat \ {0}
  /\ ZoneIds = {ZONE_DMA, ZONE_NORMAL, ZONE_HIGHMEM}
  /\ \A z \in ZoneIds : /\ zone_balance_ratio[z] \in Nat \ {0}
                        /\ zone_balance_min[z] \in Nat /\ zone_balance_max[z] \in Nat
BY ZonesAssumption DEF ZoneIds, ZONE_DMA, ZONE_NORMAL, ZONE_HIGHMEM

LEMMA MaskNat ==
  ASSUME NEW z \in ZoneIds, NEW size \in Nat
  PROVE  Mask(z, size) \in Nat
<1>1. size \div zone_balance_ratio[z] \in Nat
  BY ZoneConstants, DivMod
<1> QED BY <1>1, ZoneConstants DEF Mask

LEMMA ZonesInvInit == Init => ZonesInv
<1> SUFFICES ASSUME Init PROVE ZonesInv
  OBVIOUS
<1>1. at = "pagetable_init" /\ Turn = 0 /\ mem_map = <<>> /\ node_zonelists = <<>>
  BY DEF Init, ZonesInit, Turn
<1>2. Blank \in Zone /\ Blank.min = 0 /\ Blank.low = 0 /\ Blank.high = 0
  BY DEF Blank, Zone
<1>3. \A z \in ZoneIds : node_zones[z] = Blank
  BY DEF Init, ZonesInit
<1>4. SizesSet
  BY <1>1, <1>2, <1>3, ZoneConstants
     DEF SizesSet, Init, ZonesInit, ZONE_DMA, ZONE_NORMAL
<1>5. PagesMapped
  BY <1>1 DEF PagesMapped, ZONE_DMA
<1>6. MarksSummed
  BY <1>2, <1>3, ZoneConstants DEF MarksSummed, Marks, Init, ZonesInit
<1>7. ListsBuilt
  BY <1>1 DEF ListsBuilt, MAX_NR_ZONES
<1> QED BY <1>1, <1>4, <1>5, <1>6, <1>7 DEF ZonesInv

(* What each turn of the first loop asks for. *)
LEMMA ZoneSizes ==
  ASSUME max_low_pfn \in Nat \ {0}
  PROVE  /\ Dma \in 1 .. max_low_pfn /\ Dma <= max_dma
         /\ zones_size(max_low_pfn)[ZONE_DMA] = Dma
         /\ zones_size(max_low_pfn)[ZONE_NORMAL] = max_low_pfn - Dma
         /\ zones_size(max_low_pfn)[ZONE_HIGHMEM] = 0
         /\ max_low_pfn <= max_dma <=> max_low_pfn - Dma = 0
         /\ max_low_pfn > max_dma => Dma = max_dma
BY ZoneConstants DEF Dma, zones_size, ZONE_DMA, ZONE_NORMAL, ZONE_HIGHMEM

(* A turn that finds pages: the zone, and nothing of another. *)
LEMMA ZoneMade ==
  ASSUME ZonesInv, NEW j \in ZoneIds, NEW size \in Nat \ {0},
         InitZone(j, size), node_zones[j] = Blank, Offset(j) = Len(mem_map)
  PROVE  /\ node_zones' \in [ZoneIds -> Zone]
         /\ node_zones'[j].size = size /\ node_zones'[j].offset = Len(mem_map)
         /\ \A z \in ZoneIds : z # j => node_zones'[z] = node_zones[z]
         /\ MarksSummed'
         /\ mem_map' \in Seq(PageMap) /\ Len(mem_map') = Len(mem_map) + size
         /\ \A n \in 1 .. Len(mem_map) : mem_map'[n] = mem_map[n]
         /\ \A n \in Len(mem_map) + 1 .. Len(mem_map) + size :
              mem_map'[n] = [zone |-> j, virtual |-> n - 1]
         /\ node_zonelists' = node_zonelists
<1> DEFINE offset == Len(mem_map)
           mask   == Mask(j, size)
           new    == [size |-> size, offset |-> offset,
                      min |-> mask, low |-> 2 * mask, high |-> 3 * mask]
           marks  == [min |-> mask, low |-> 2 * mask, high |-> 3 * mask]
           pages  == [n \in 1 .. size |-> [zone |-> j, virtual |-> offset + n - 1]]
<1>1. mask \in Nat
  BY MaskNat
<1>2. /\ node_zones \in [ZoneIds -> Zone] /\ mem_map \in Seq(PageMap)
      /\ freepages \in [Marks -> Nat]
  BY DEF ZonesInv, SizesSet, PagesMapped, MarksSummed
<1>3. offset \in Nat
  BY <1>2
<1> HIDE DEF mask
<1>4. /\ node_zones' = [node_zones EXCEPT ![j] = new]
      /\ freepages' = [f \in DOMAIN freepages |-> freepages[f] + marks[f]]
      /\ mem_map' = mem_map \o pages
      /\ node_zonelists' = node_zonelists
  BY DEF InitZone, mask
<1>5. new \in Zone
  BY <1>1, <1>3 DEF Zone
<1>6. pages \in Seq(PageMap) /\ Len(pages) = size
  <2>1. pages \in [1 .. size -> PageMap]
    BY <1>3 DEF PageMap
  <2> HIDE DEF pages
  <2>2. pages \in Seq(PageMap)
    BY <2>1, SeqDef
  <2> QED BY <2>1, <2>2, LenProperties
<1>7. /\ node_zones' \in [ZoneIds -> Zone] /\ node_zones'[j] = new
      /\ \A z \in ZoneIds : z # j => node_zones'[z] = node_zones[z]
  BY <1>2, <1>4, <1>5
<1>8. MarksSummed'
  <2>1. freepages' \in [Marks -> Nat] /\ \A f \in Marks : freepages'[f] = freepages[f] + marks[f]
    BY <1>1, <1>2, <1>4 DEF Marks
  <2>2. ASSUME NEW f \in Marks
        PROVE  node_zones'[j][f] = node_zones[j][f] + marks[f]
    BY <1>1, <1>7 DEF Marks, Blank
  <2>3. /\ \A z \in ZoneIds : \A f \in Marks : node_zones[z][f] \in Nat
        /\ \A f \in Marks : marks[f] \in Nat
    <3>1. \A z \in ZoneIds : node_zones[z] \in Zone
      BY <1>2
    <3>2. \A r \in Zone : \A f \in Marks : r[f] \in Nat
      BY DEF Zone, Marks
    <3>3. 2 * mask \in Nat /\ 3 * mask \in Nat
      BY <1>1
    <3>4. \A f \in Marks : marks[f] \in Nat
      BY <1>1, <3>3 DEF Marks
    <3> QED BY <3>1, <3>2, <3>4
  <2>4. ASSUME NEW f \in Marks
        PROVE  freepages'[f] = node_zones'[ZONE_DMA][f] + node_zones'[ZONE_NORMAL][f]
                                 + node_zones'[ZONE_HIGHMEM][f]
    <3>1. freepages[f] = node_zones[ZONE_DMA][f] + node_zones[ZONE_NORMAL][f]
                           + node_zones[ZONE_HIGHMEM][f]
      BY DEF ZonesInv, MarksSummed
    <3> HIDE DEF marks
    <3>2. /\ node_zones[ZONE_DMA][f] \in Nat /\ node_zones[ZONE_NORMAL][f] \in Nat
          /\ node_zones[ZONE_HIGHMEM][f] \in Nat /\ marks[f] \in Nat
      BY <2>3, ZoneConstants
    <3>3. freepages'[f] = freepages[f] + marks[f]
      BY <2>1
    <3>4. \A a, b, c, d \in Nat : /\ (a + b + c) + d = (a + d) + b + c
                                 /\ (a + b + c) + d = a + (b + d) + c
                                 /\ (a + b + c) + d = a + b + (c + d)
      OBVIOUS
    <3>8. PICK a \in Nat, b \in Nat, c \in Nat, d \in Nat :
            /\ node_zones[ZONE_DMA][f] = a /\ node_zones[ZONE_NORMAL][f] = b
            /\ node_zones[ZONE_HIGHMEM][f] = c /\ marks[f] = d
      BY <3>2
    <3>9. freepages'[f] = (a + b + c) + d
      BY <3>1, <3>3, <3>8, Zenon
    <3>5. CASE j = ZONE_DMA
      <4>1. /\ node_zones'[ZONE_NORMAL][f] = node_zones[ZONE_NORMAL][f]
            /\ node_zones'[ZONE_HIGHMEM][f] = node_zones[ZONE_HIGHMEM][f]
        BY <1>7, <3>5, ZoneConstants DEF ZONE_DMA, ZONE_NORMAL, ZONE_HIGHMEM
      <4>2. node_zones'[ZONE_DMA][f] = node_zones[ZONE_DMA][f] + marks[f]
        BY <2>2, <3>5
      <4>3. (a + b + c) + d = (a + d) + b + c
        BY <3>4
      <4> QED BY <3>8, <3>9, <4>1, <4>2, <4>3, Zenon
    <3>6. CASE j = ZONE_NORMAL
      <4>1. /\ node_zones'[ZONE_DMA][f] = node_zones[ZONE_DMA][f]
            /\ node_zones'[ZONE_HIGHMEM][f] = node_zones[ZONE_HIGHMEM][f]
        BY <1>7, <3>6, ZoneConstants DEF ZONE_DMA, ZONE_NORMAL, ZONE_HIGHMEM
      <4>2. node_zones'[ZONE_NORMAL][f] = node_zones[ZONE_NORMAL][f] + marks[f]
        BY <2>2, <3>6
      <4>3. (a + b + c) + d = a + (b + d) + c
        BY <3>4
      <4> QED BY <3>8, <3>9, <4>1, <4>2, <4>3, Zenon
    <3>7. CASE j = ZONE_HIGHMEM
      <4>1. /\ node_zones'[ZONE_DMA][f] = node_zones[ZONE_DMA][f]
            /\ node_zones'[ZONE_NORMAL][f] = node_zones[ZONE_NORMAL][f]
        BY <1>7, <3>7, ZoneConstants DEF ZONE_DMA, ZONE_NORMAL, ZONE_HIGHMEM
      <4>2. node_zones'[ZONE_HIGHMEM][f] = node_zones[ZONE_HIGHMEM][f] + marks[f]
        BY <2>2, <3>7
      <4>3. (a + b + c) + d = a + b + (c + d)
        BY <3>4
      <4> QED BY <3>8, <3>9, <4>1, <4>2, <4>3, Zenon
    <3> QED BY <3>5, <3>6, <3>7, ZoneConstants
  <2> QED BY <2>1, <2>4 DEF MarksSummed, Marks
<1> HIDE DEF pages
<1>9. /\ mem_map' \in Seq(PageMap) /\ Len(mem_map') = offset + size
      /\ \A n \in 1 .. offset : mem_map'[n] = mem_map[n]
      /\ \A n \in offset + 1 .. offset + size : mem_map'[n] = pages[n - offset]
  <2>1. \A n \in 1 .. offset + size :
          mem_map'[n] = IF n <= offset THEN mem_map[n] ELSE pages[n - offset]
    BY <1>2, <1>4, <1>6, ConcatProperties
  <2>2. mem_map' \in Seq(PageMap) /\ Len(mem_map') = offset + size
    BY <1>2, <1>4, <1>6, ConcatProperties
  <2> HIDE DEF offset
  <2>3. \A n \in 1 .. offset : mem_map'[n] = mem_map[n]
    BY <1>3, <2>1
  <2>4. \A n \in offset + 1 .. offset + size : mem_map'[n] = pages[n - offset]
    BY <1>3, <2>1
  <2> QED BY <2>2, <2>3, <2>4
<1>10. ASSUME NEW n \in offset + 1 .. offset + size
       PROVE  mem_map'[n] = [zone |-> j, virtual |-> n - 1]
  <2>1. n - offset \in 1 .. size /\ offset + (n - offset) - 1 = n - 1
    BY <1>3
  <2> QED BY <1>9, <2>1 DEF pages
<1> QED BY <1>4, <1>7, <1>8, <1>9, <1>10

(* A turn without pages leaves everything as it is. *)
LEMMA ZoneEmpty ==
  ASSUME ZonesInv, NEW j \in ZoneIds, InitZone(j, 0), node_zones[j] = Blank
  PROVE  UNCHANGED zonevars
<1>1. node_zones' = [node_zones EXCEPT ![j].size = 0]
  BY DEF InitZone
<1>2. node_zones \in [ZoneIds -> Zone]
  BY DEF ZonesInv, SizesSet
<1>3. [Blank EXCEPT !.size = 0] = Blank
  BY DEF Blank
<1>4. node_zones' = [node_zones EXCEPT ![j] = Blank]
  BY <1>1, <1>3
<1>5. node_zones' = node_zones
  BY <1>2, <1>4
<1> QED BY <1>5 DEF InitZone, zonevars

LEMMA NextZoneZones ==
  ASSUME ZonesInv, max_low_pfn \in Nat \ {0}, NextZone
  PROVE  ZonesInv'
<1> DEFINE size == zones_size(max_low_pfn)[i]
<1>1. /\ at = "zones" /\ at' = "zones" /\ i \in ZoneIds /\ i' = i + 1
      /\ max_low_pfn' = max_low_pfn /\ InitZone(i, size)
  BY DEF NextZone
<1>2. Turn = i /\ Turn' = i + 1 /\ Dma' = Dma
  BY <1>1 DEF Turn, Dma
<1>3. node_zones[i] = Blank /\ i \in 0 .. 2 /\ i <= MAX_NR_ZONES
  BY <1>1, <1>2 DEF ZonesInv, SizesSet, ZoneIds, ZONE_DMA, ZONE_HIGHMEM, MAX_NR_ZONES
<1>4. Dma \in 1 .. max_low_pfn
  BY ZoneSizes
<1>5. Offset(i) = Len(mem_map)
  <2>1. CASE i = ZONE_DMA
    BY <1>2, <2>1 DEF Offset, PagesBefore, ZonesInv, PagesMapped, ZONE_DMA, ZONE_NORMAL
  <2>2. CASE i = ZONE_NORMAL
    BY <1>2, <1>4, <2>2 DEF Offset, PagesBefore, ZonesInv, SizesSet, PagesMapped, ZONE_DMA, ZONE_NORMAL
  <2>3. CASE i = ZONE_HIGHMEM
    BY <1>2, <1>4, <2>3
       DEF Offset, PagesBefore, ZonesInv, SizesSet, PagesMapped, ZONE_DMA, ZONE_NORMAL, ZONE_HIGHMEM
  <2> QED BY <1>1, <2>1, <2>2, <2>3, ZoneConstants
<1>6. /\ i' \in 0 .. MAX_NR_ZONES + NR_GFPINDEX
      /\ Turn <= MAX_NR_ZONES /\ Turn' <= MAX_NR_ZONES
  BY <1>1, <1>2, <1>3, ZoneConstants DEF MAX_NR_ZONES
<1>7. ASSUME node_zonelists' = node_zonelists PROVE ListsBuilt'
  <2>1. node_zonelists \in Seq(Seq(Int)) /\ Len(node_zonelists) = 0
    BY <1>6 DEF ZonesInv, ListsBuilt
  <2> QED BY <1>6, <1>7, <2>1 DEF ListsBuilt
<1>8. CASE i = ZONE_DMA
  <2>1. size = Dma /\ size \in Nat \ {0} /\ Len(mem_map) = 0
    BY <1>2, <1>4, <1>8, ZoneSizes DEF ZonesInv, PagesMapped, ZONE_DMA
  <2>2. /\ node_zones' \in [ZoneIds -> Zone]
        /\ node_zones'[i].size = Dma /\ node_zones'[i].offset = 0
        /\ \A z \in ZoneIds : z # i => node_zones'[z] = node_zones[z]
        /\ MarksSummed'
        /\ mem_map' \in Seq(PageMap) /\ Len(mem_map') = Dma
        /\ \A n \in 1 .. Dma : mem_map'[n] = [zone |-> i, virtual |-> n - 1]
        /\ node_zonelists' = node_zonelists
    BY <1>1, <1>3, <1>4, <1>5, <2>1, ZoneMade
  <2>3. SizesSet'
    BY <1>2, <1>8, <2>2, ZoneConstants DEF ZonesInv, SizesSet, ZONE_DMA, ZONE_NORMAL, ZONE_HIGHMEM
  <2>4. PagesMapped'
    BY <1>2, <1>4, <1>8, <2>2 DEF PagesMapped, ZONE_DMA, ZONE_NORMAL
  <2> QED BY <1>1, <1>6, <1>7, <2>2, <2>3, <2>4 DEF ZonesInv
<1>9. CASE i = ZONE_NORMAL /\ max_low_pfn - Dma # 0
  <2>1. size = max_low_pfn - Dma /\ size \in Nat \ {0} /\ Len(mem_map) = Dma
    BY <1>2, <1>4, <1>9, ZoneSizes DEF ZonesInv, PagesMapped, ZONE_DMA, ZONE_NORMAL
  <2>2. /\ node_zones' \in [ZoneIds -> Zone]
        /\ node_zones'[i].size = max_low_pfn - Dma /\ node_zones'[i].offset = Dma
        /\ \A z \in ZoneIds : z # i => node_zones'[z] = node_zones[z]
        /\ MarksSummed'
        /\ mem_map' \in Seq(PageMap) /\ Len(mem_map') = max_low_pfn
        /\ \A n \in 1 .. Dma : mem_map'[n] = mem_map[n]
        /\ \A n \in Dma + 1 .. max_low_pfn : mem_map'[n] = [zone |-> i, virtual |-> n - 1]
        /\ node_zonelists' = node_zonelists
    <3>1. Dma + size = max_low_pfn
      BY <1>4, <2>1
    <3> HIDE DEF size
    <3> QED BY <1>1, <1>3, <1>5, <2>1, <3>1, ZoneMade
  <2>3. SizesSet'
    BY <1>1, <1>2, <1>9, <2>2, ZoneConstants DEF ZonesInv, SizesSet, ZONE_DMA, ZONE_NORMAL, ZONE_HIGHMEM
  <2>4. PagesMapped'
    <3>1. \A n \in 1 .. Dma : mem_map'[n] = [zone |-> ZONE_DMA, virtual |-> n - 1]
      BY <1>4, <2>1, <2>2 DEF ZonesInv, PagesMapped
    <3>2. Len(mem_map)' = max_low_pfn /\ Turn' = 2
      BY <1>2, <1>9, <2>2 DEF ZONE_NORMAL
    <3>3. ASSUME NEW n \in 1 .. max_low_pfn
          PROVE  mem_map'[n] = [zone |-> IF n <= Dma THEN ZONE_DMA ELSE ZONE_NORMAL, virtual |-> n - 1]
      <4>1. CASE n <= Dma
        BY <1>4, <3>1, <4>1
      <4>2. CASE ~(n <= Dma)
        <5>1. n \in Dma + 1 .. max_low_pfn
          BY <1>4, <4>2
        <5> QED BY <1>9, <2>2, <4>2, <5>1
      <4> QED BY <4>1, <4>2
    <3> QED BY <1>1, <1>2, <2>2, <3>2, <3>3 DEF PagesMapped, ZONE_DMA, ZONE_NORMAL
  <2> QED BY <1>1, <1>6, <1>7, <2>2, <2>3, <2>4 DEF ZonesInv
<1>10. CASE i # ZONE_DMA /\ ~(i = ZONE_NORMAL /\ max_low_pfn - Dma # 0)
  <2>1. size = 0
    BY <1>1, <1>10, ZoneSizes, ZoneConstants
  <2>2. UNCHANGED zonevars
    BY <1>1, <1>3, <2>1, ZoneEmpty
  <2>3. /\ node_zones' = node_zones /\ mem_map' = mem_map
        /\ freepages' = freepages /\ node_zonelists' = node_zonelists
    BY <2>2 DEF zonevars
  <2>4. (i = 1 /\ max_low_pfn = Dma) \/ i = 2
    BY <1>3, <1>4, <1>10 DEF ZONE_DMA, ZONE_NORMAL
  <2>5. SizesSet'
    <3>1. CASE i = 1 /\ max_low_pfn = Dma
      <4>1. node_zones[ZONE_NORMAL].size = max_low_pfn - Dma
        BY <1>3, <1>4, <3>1 DEF Blank, ZONE_NORMAL
      <4> QED BY <1>1, <1>2, <1>4, <2>3, <3>1, <4>1, ZoneConstants
              DEF ZonesInv, SizesSet, ZONE_DMA, ZONE_NORMAL, ZONE_HIGHMEM
    <3>2. CASE i = 2
      BY <1>1, <1>2, <1>4, <2>3, <3>2, ZoneConstants
         DEF ZonesInv, SizesSet, ZONE_DMA, ZONE_NORMAL, ZONE_HIGHMEM
    <3> QED BY <2>4, <3>1, <3>2
  <2>6. PagesMapped'
    BY <1>1, <1>2, <1>4, <2>3, <2>4 DEF ZonesInv, PagesMapped, ZONE_DMA, ZONE_NORMAL
  <2>7. MarksSummed'
    BY <2>3 DEF ZonesInv, MarksSummed
  <2> QED BY <1>1, <1>6, <1>7, <2>3, <2>5, <2>6, <2>7 DEF ZonesInv
<1> QED BY <1>8, <1>9, <1>10

(* Lists of two and three, put together. *)
LEMMA ShortLists ==
  ASSUME NEW x \in Int, NEW y \in Int, NEW z \in Int
  PROVE  /\ <<x>> \o <<y>> = <<x, y>>
         /\ Append(<<x>>, y) = <<x, y>>
         /\ Append(<<x, y>>, z) = <<x, y, z>>
<1>1. /\ <<x>> \in Seq(Int) /\ <<y>> \in Seq(Int)
      /\ <<x, y>> \in Seq(Int) /\ <<x, y, z>> \in Seq(Int)
  OBVIOUS
<1>2. <<x>> \o <<y>> = <<x, y>>
  <2> DEFINE s == <<x>> \o <<y>>
  <2>1. s \in Seq(Int) /\ Len(s) = 2 /\ s[1] = x /\ s[2] = y
    BY <1>1, ConcatProperties
  <2> HIDE DEF s
  <2>2. s = <<x, y>>
    BY <1>1, <2>1, SeqEqual
  <2> QED BY <2>2 DEF s
<1>3. Append(<<x>>, y) = <<x, y>>
  <2> DEFINE s == Append(<<x>>, y)
  <2>1. s \in Seq(Int) /\ Len(s) = 2 /\ s[1] = x /\ s[2] = y
    BY <1>1, AppendProperties
  <2> HIDE DEF s
  <2>2. s = <<x, y>>
    BY <1>1, <2>1, SeqEqual
  <2> QED BY <2>2 DEF s
<1>4. Append(<<x, y>>, z) = <<x, y, z>>
  <2> DEFINE s == Append(<<x, y>>, z)
  <2>1. s \in Seq(Int) /\ Len(s) = 3 /\ s[1] = x /\ s[2] = y /\ s[3] = z
    BY <1>1, AppendProperties
  <2> HIDE DEF s
  <2>2. s = <<x, y, z>>
    BY <1>1, <2>1, SeqEqual
  <2> QED BY <2>2 DEF s
<1> QED BY <1>2, <1>3, <1>4

(* The switch finds the same zones for normal memory as for high.          *)
LEMMA ListMade ==
  ASSUME ZonesInv, max_low_pfn \in Nat \ {0}, Turn >= MAX_NR_ZONES,
         NEW n \in Nat, BuildList(n)
  PROVE  /\ node_zonelists' = Append(node_zonelists, ListFor(n))
         /\ UNCHANGED <<node_zones, mem_map, freepages>>
<1>1. /\ node_zones[ZONE_DMA].size # 0 /\ node_zones[ZONE_HIGHMEM].size = 0
      /\ node_zones[ZONE_NORMAL].size # 0 <=> ~(max_low_pfn <= max_dma)
  <2>1. Turn > ZONE_DMA /\ Turn > ZONE_NORMAL
    BY ZoneConstants DEF ZonesInv, Turn, ZONE_DMA, ZONE_NORMAL, MAX_NR_ZONES
  <2>2. /\ node_zones[ZONE_DMA].size = Dma
        /\ node_zones[ZONE_NORMAL].size = max_low_pfn - Dma
        /\ node_zones[ZONE_HIGHMEM].size = 0
    BY <2>1 DEF ZonesInv, SizesSet, Blank
  <2> QED BY <2>2, ZoneSizes
<1>2. /\ IfAny(ZONE_DMA) = <<ZONE_DMA>> /\ IfAny(ZONE_HIGHMEM) = <<>>
      /\ IfAny(ZONE_NORMAL) = IF max_low_pfn <= max_dma THEN <<>> ELSE <<ZONE_NORMAL>>
  BY <1>1 DEF IfAny
<1>3. /\ <<>> \o <<>> = <<>> /\ <<>> \o <<ZONE_NORMAL>> = <<ZONE_NORMAL>>
      /\ <<>> \o <<ZONE_DMA>> = <<ZONE_DMA>>
      /\ <<ZONE_NORMAL>> \o <<ZONE_DMA>> = <<ZONE_NORMAL, ZONE_DMA>>
      /\ Append(<<ZONE_DMA>>, NoZone) = <<ZONE_DMA, NoZone>>
      /\ Append(<<ZONE_NORMAL, ZONE_DMA>>, NoZone) = <<ZONE_NORMAL, ZONE_DMA, NoZone>>
  <2>1. <<ZONE_NORMAL>> \in Seq(Int) /\ <<ZONE_DMA>> \in Seq(Int) /\ <<>> \in Seq(Int)
    BY DEF ZONE_DMA, ZONE_NORMAL
  <2>2. /\ <<>> \o <<>> = <<>> /\ <<>> \o <<ZONE_NORMAL>> = <<ZONE_NORMAL>>
        /\ <<>> \o <<ZONE_DMA>> = <<ZONE_DMA>>
    BY <2>1, ConcatEmptySeq
  <2>3. ZONE_DMA \in Int /\ ZONE_NORMAL \in Int /\ NoZone \in Int
    BY DEF ZONE_DMA, ZONE_NORMAL, NoZone
  <2> QED BY <2>2, <2>3, ShortLists
<1>4. /\ ZonesToTry(ZONE_DMA) = <<ZONE_DMA>>
      /\ ZonesToTry(ZONE_NORMAL) = IF max_low_pfn <= max_dma THEN <<ZONE_DMA>> ELSE <<ZONE_NORMAL, ZONE_DMA>>
      /\ ZonesToTry(ZONE_HIGHMEM) = ZonesToTry(ZONE_NORMAL)
  <2>1. ZONE_DMA # ZONE_NORMAL /\ ZONE_DMA # ZONE_HIGHMEM /\ ZONE_NORMAL # ZONE_HIGHMEM
    BY DEF ZONE_DMA, ZONE_NORMAL, ZONE_HIGHMEM
  <2> QED BY <1>2, <1>3, <2>1 DEF ZonesToTry
<1>5. node_zonelists' = Append(node_zonelists, ListFor(n))
  BY <1>3, <1>4 DEF BuildList, ListFor
<1> QED BY <1>5 DEF BuildList

LEMMA NextZonelistZones ==
  ASSUME ZonesInv, max_low_pfn \in Nat \ {0}, NextZonelist
  PROVE  ZonesInv'
<1> DEFINE n == i - MAX_NR_ZONES
<1>1. /\ at = "zones" /\ at' = "zones" /\ i' = i + 1 /\ n \in 0 .. NR_GFPINDEX - 1
      /\ max_low_pfn' = max_low_pfn /\ BuildList(n)
  BY DEF NextZonelist
<1>2. i \in Nat /\ n \in Nat /\ i = n + 3
  BY <1>1, ZoneConstants DEF ZonesInv, MAX_NR_ZONES
<1>3. /\ Turn = n + 3 /\ Turn' = n + 4 /\ Dma' = Dma
      /\ Turn >= MAX_NR_ZONES
  BY <1>1, <1>2 DEF Turn, Dma, MAX_NR_ZONES
<1>4. i' \in 0 .. MAX_NR_ZONES + NR_GFPINDEX
  BY <1>1, <1>2, ZoneConstants DEF MAX_NR_ZONES
<1> HIDE DEF n
<1>5. /\ node_zonelists' = Append(node_zonelists, ListFor(n))
      /\ node_zones' = node_zones /\ mem_map' = mem_map /\ freepages' = freepages
  BY <1>1, <1>2, <1>3, ListMade
<1>6. SizesSet' /\ PagesMapped' /\ MarksSummed'
  BY <1>1, <1>2, <1>3, <1>5
     DEF ZonesInv, SizesSet, PagesMapped, MarksSummed, ZoneIds, ZONE_DMA, ZONE_NORMAL, ZONE_HIGHMEM
<1>7. ListsBuilt'
  <2>1. node_zonelists \in Seq(Seq(Int)) /\ Len(node_zonelists) = n
    BY <1>2, <1>3 DEF ZonesInv, ListsBuilt, MAX_NR_ZONES
  <2>2. ListFor(n) \in Seq(Int)
    BY DEF ListFor, ZONE_DMA, ZONE_NORMAL, NoZone
  <2>3. /\ node_zonelists' \in Seq(Seq(Int)) /\ Len(node_zonelists') = n + 1
        /\ \A m \in 1 .. n : node_zonelists'[m] = node_zonelists[m]
        /\ node_zonelists'[n + 1] = ListFor(n)
    BY <1>5, <2>1, <2>2, AppendProperties
  <2>4. \A m \in 1 .. n + 1 : node_zonelists'[m] = ListFor(m - 1)
    <3>1. \A m \in 1 .. n : node_zonelists[m] = ListFor(m - 1)
      BY <2>1 DEF ZonesInv, ListsBuilt
    <3>2. \A m \in 1 .. n + 1 : m \in 1 .. n \/ m = n + 1
      BY <1>2
    <3>3. (n + 1) - 1 = n
      BY <1>2
    <3> QED BY <2>3, <3>1, <3>2, <3>3
  <2>5. \A m : ListFor(m)' = ListFor(m)
    BY <1>1 DEF ListFor
  <2>6. (IF Turn' <= MAX_NR_ZONES THEN 0 ELSE Turn' - MAX_NR_ZONES) = n + 1
    BY <1>2, <1>3 DEF MAX_NR_ZONES
  <2>7. Len(node_zonelists') = IF Turn' <= MAX_NR_ZONES THEN 0 ELSE Turn' - MAX_NR_ZONES
    BY <2>3, <2>6, Zenon
  <2>8. 1 .. Len(node_zonelists') = 1 .. n + 1
    BY <2>3, Zenon
  <2>9. \A m \in 1 .. Len(node_zonelists') : node_zonelists'[m] = ListFor(m - 1)'
    BY <2>4, <2>5, <2>8, Zenon
  <2> QED BY <2>3, <2>7, <2>9 DEF ListsBuilt
<1> QED BY <1>1, <1>4, <1>6, <1>7 DEF ZonesInv

(* Every other step leaves the zones, and how far they are. *)
LEMMA ZonesInvNext == IInv /\ ZonesInv /\ [Next]_vars => ZonesInv'
<1> SUFFICES ASSUME IInv, ZonesInv, [Next]_vars PROVE ZonesInv'
  OBVIOUS
<1>1. max_low_pfn \in Nat \ {0}
  BY Bounds
<1>2. CASE NextZone
  BY <1>1, <1>2, NextZoneZones
<1>3. CASE NextZonelist
  BY <1>1, <1>3, NextZonelistZones
<1>4. ASSUME UNCHANGED <<max_low_pfn, zonevars>>, Turn' = Turn,
             at' = "zones" => i' \in 0 .. MAX_NR_ZONES + NR_GFPINDEX
      PROVE  ZonesInv'
  <2>1. /\ node_zones' = node_zones /\ mem_map' = mem_map /\ freepages' = freepages
        /\ node_zonelists' = node_zonelists /\ Dma' = Dma /\ \A n : ListFor(n)' = ListFor(n)
    BY <1>4 DEF zonevars, Dma, ListFor
  <2> QED BY <1>4, <2>1 DEF ZonesInv, SizesSet, PagesMapped, MarksSummed, ListsBuilt
<1>5. CASE FreeAreaInitDone
  <2>1. Turn' = Turn
    BY <1>5 DEF FreeAreaInitDone, Turn
  <2> QED BY <1>4, <1>5, <2>1 DEF FreeAreaInitDone
<1>6. CASE PagetableInit
  <2>1. Turn' = Turn
    BY <1>6 DEF PagetableInit, NewTable, FillEntry, EndTable, FixRange, Turn
  <2> QED BY <1>4, <1>6, <2>1 DEF PagetableInit, NewTable, FillEntry, EndTable, FixRange
<1>7. CASE FlushTLB
  <2>1. Turn' = Turn
    BY <1>7 DEF FlushTLB, Turn
  <2>2. i' \in 0 .. MAX_NR_ZONES + NR_GFPINDEX
    BY <1>7, ZoneConstants DEF FlushTLB, MAX_NR_ZONES
  <2> QED BY <1>4, <1>7, <2>1, <2>2 DEF FlushTLB
<1>8. CASE ZapLow
  <2>1. Turn' = Turn
    BY <1>8 DEF ZapLow, Zap, ZapDone, Turn
  <2> QED BY <1>4, <1>8, <2>1 DEF ZapLow, Zap, ZapDone
<1>9. CASE Stray \/ UNCHANGED vars
  <2>1. Turn' = Turn
    BY <1>9 DEF Stray, vars, Turn
  <2> QED BY <1>4, <1>9, <2>1 DEF Stray, vars, ZonesInv
<1> QED BY <1>2, <1>3, <1>5, <1>6, <1>7, <1>8, <1>9 DEF Next, FreeAreaInit

(* The zones, when all turns are over: low memory, cut at max_dma.         *)
LEMMA ZoneRanges ==
  ASSUME ZonesInv, max_low_pfn \in Nat \ {0}, at \in {"zap", "done"}
  PROVE  /\ Dma \in 1 .. max_low_pfn
         /\ \A p \in 0 .. max_low_pfn - 1 :
              /\ Spans(ZONE_DMA, p) <=> p < Dma
              /\ Spans(ZONE_NORMAL, p) <=> p >= Dma
              /\ ~Spans(ZONE_HIGHMEM, p)
         /\ node_zones[ZONE_DMA].size = Dma
         /\ node_zones[ZONE_NORMAL].size = max_low_pfn - Dma
         /\ Len(mem_map) = max_low_pfn
         /\ Len(node_zonelists) = NR_GFPINDEX
<1>1. /\ Turn = MAX_NR_ZONES + NR_GFPINDEX
      /\ Turn > 1 /\ Turn > 0 /\ Turn > MAX_NR_ZONES /\ Turn - MAX_NR_ZONES = NR_GFPINDEX
  BY ZoneConstants DEF Turn, MAX_NR_ZONES
<1>2. /\ node_zones[ZONE_DMA].size = Dma /\ node_zones[ZONE_DMA].offset = 0
      /\ node_zones[ZONE_NORMAL].size = max_low_pfn - Dma
      /\ max_low_pfn > Dma => node_zones[ZONE_NORMAL].offset = Dma
      /\ node_zones[ZONE_HIGHMEM].size = 0 /\ node_zones[ZONE_HIGHMEM].offset = 0
      /\ node_zones[ZONE_NORMAL].offset \in Nat
  BY <1>1, ZoneConstants DEF ZonesInv, SizesSet, ZONE_DMA, ZONE_NORMAL, Blank, Zone
<1>3. Dma \in 1 .. max_low_pfn
  BY ZoneSizes
<1>4. Len(mem_map) = max_low_pfn
  BY <1>1 DEF ZonesInv, PagesMapped, ZONE_DMA, ZONE_NORMAL
<1>5. Len(node_zonelists) = NR_GFPINDEX
  <2>1. Turn \in Int /\ MAX_NR_ZONES \in Int /\ ~(Turn <= MAX_NR_ZONES)
    BY <1>1, ZoneConstants DEF MAX_NR_ZONES
  <2> QED BY <1>1, <2>1 DEF ZonesInv, ListsBuilt
<1>6. ASSUME NEW p \in 0 .. max_low_pfn - 1
      PROVE  /\ Spans(ZONE_DMA, p) <=> p < Dma
             /\ Spans(ZONE_NORMAL, p) <=> p >= Dma
             /\ ~Spans(ZONE_HIGHMEM, p)
  BY <1>2, <1>3 DEF Spans
<1> QED BY <1>2, <1>3, <1>4, <1>5, <1>6

LEMMA PagesInZones ==
  ASSUME ZonesInv, max_low_pfn \in Nat \ {0}, at \in {"zap", "done"}
  PROVE  PagesZoned(max_low_pfn)
<1>1. ASSUME NEW p \in 0 .. max_low_pfn - 1, NEW z \in ZoneIds
      PROVE  /\ Spans(z, p) <=> mem_map[p + 1].zone = z
             /\ Spans(ZONE_DMA, p) <=> p < max_dma
             /\ mem_map[p + 1].virtual = p
  <2>1. p + 1 \in 1 .. Len(mem_map) /\ (p + 1) - 1 = p
    BY ZoneRanges
  <2>2. mem_map[p + 1] = [zone |-> IF p + 1 <= Dma THEN ZONE_DMA ELSE ZONE_NORMAL, virtual |-> p]
    BY <2>1 DEF ZonesInv, PagesMapped
  <2>3. Spans(ZONE_DMA, p) <=> p < max_dma
    BY ZoneRanges, ZoneConstants DEF Dma
  <2>4. Spans(z, p) <=> mem_map[p + 1].zone = z
    <3>1. p + 1 <= Dma <=> p < Dma
      BY ZoneRanges
    <3>2. /\ Spans(ZONE_DMA, p) <=> p < Dma
          /\ Spans(ZONE_NORMAL, p) <=> p >= Dma
          /\ ~Spans(ZONE_HIGHMEM, p)
          /\ p < Dma <=> ~(p >= Dma)
      BY ZoneRanges
    <3>3. mem_map[p + 1].zone = IF p < Dma THEN ZONE_DMA ELSE ZONE_NORMAL
      BY <2>2, <3>1
    <3>4. /\ ZONE_DMA # ZONE_NORMAL /\ ZONE_DMA # ZONE_HIGHMEM /\ ZONE_NORMAL # ZONE_HIGHMEM
          /\ z = ZONE_DMA \/ z = ZONE_NORMAL \/ z = ZONE_HIGHMEM
      BY ZoneConstants DEF ZONE_DMA, ZONE_NORMAL, ZONE_HIGHMEM
    <3>5. CASE p < Dma
      <4>1. mem_map[p + 1].zone = ZONE_DMA
        BY <3>3, <3>5
      <4>2. Spans(ZONE_DMA, p) /\ ~Spans(ZONE_NORMAL, p) /\ ~Spans(ZONE_HIGHMEM, p)
        BY <3>2, <3>5
      <4> QED BY <3>4, <4>1, <4>2
    <3>6. CASE ~(p < Dma)
      <4>1. mem_map[p + 1].zone = ZONE_NORMAL
        BY <3>3, <3>6
      <4>2. ~Spans(ZONE_DMA, p) /\ Spans(ZONE_NORMAL, p) /\ ~Spans(ZONE_HIGHMEM, p)
        BY <3>2, <3>6
      <4> QED BY <3>4, <4>1, <4>2
    <3> QED BY <3>5, <3>6
  <2> QED BY <2>2, <2>3, <2>4
<1>2. DOMAIN freepages = Marks
  BY DEF ZonesInv, MarksSummed
<1> QED BY <1>1, <1>2, ZoneRanges DEF PagesZoned, ZonesInv, MarksSummed

(* A list without its end. *)
LEMMA ShortFronts ==
  ASSUME NEW x \in Int, NEW y \in Int, NEW z \in Int
  PROVE  /\ Last(<<x, y>>) = y /\ Front(<<x, y>>) = <<x>>
         /\ Last(<<x, y, z>>) = z /\ Front(<<x, y, z>>) = <<x, y>>
<1>1. /\ <<x>> \in Seq(Int) /\ <<x, y>> \in Seq(Int) /\ <<x, y, z>> \in Seq(Int)
      /\ Len(<<x, y>>) = 2 /\ Len(<<x, y, z>>) = 3
  OBVIOUS
<1>2. Front(<<x, y>>) = <<x>>
  <2> DEFINE s == SubSeq(<<x, y>>, 1, 1)
  <2>1. s \in Seq(Int) /\ Len(s) = 1 /\ s[1] = x
    BY <1>1, SubSeqProperties
  <2> HIDE DEF s
  <2>2. s = <<x>>
    BY <1>1, <2>1, SeqEqual
  <2> QED BY <1>1, <2>2 DEF s, Front
<1>3. Front(<<x, y, z>>) = <<x, y>>
  <2> DEFINE s == SubSeq(<<x, y, z>>, 1, 2)
  <2>1. s \in Seq(Int) /\ Len(s) = 2 /\ s[1] = x /\ s[2] = y
    BY <1>1, SubSeqProperties
  <2> HIDE DEF s
  <2>2. s = <<x, y>>
    BY <1>1, <2>1, SeqEqual
  <2> QED BY <1>1, <2>2 DEF s, Front
<1> QED BY <1>2, <1>3 DEF Last

LEMMA ListsRight ==
  ASSUME ZonesInv, max_low_pfn \in Nat \ {0}, at \in {"zap", "done"}
  PROVE  ListsComplete(max_low_pfn)
<1> SUFFICES ASSUME NEW n \in 0 .. Len(node_zonelists) - 1
             PROVE  LET list  == node_zonelists[n + 1]
                        zones == Front(list)
                    IN /\ Last(list) = NoZone
                       /\ \A l, m \in 1 .. Len(zones) : l < m => zones[l] > zones[m]
                       /\ \A z \in ToSet(zones) : node_zones[z].size > 0
                       /\ {p \in 0 .. max_low_pfn - 1 : \E z \in ToSet(zones) : Spans(z, p)}
                            = 0 .. (IF HasFlag(n, GFP_DMA) /\ max_dma < max_low_pfn
                                      THEN max_dma ELSE max_low_pfn) - 1
  BY DEF ListsComplete
<1> DEFINE list  == node_zonelists[n + 1]
           zones == Front(list)
<1>0. ZONE_DMA \in Int /\ ZONE_NORMAL \in Int /\ NoZone \in Int
  BY DEF ZONE_DMA, ZONE_NORMAL, NoZone
<1>1. list = ListFor(n)
  <2>1. n + 1 \in 1 .. Len(node_zonelists) /\ (n + 1) - 1 = n
    BY ZoneRanges, ZoneConstants
  <2> QED BY <2>1 DEF ZonesInv, ListsBuilt
<1>2. Dma \in 1 .. max_low_pfn /\ max_dma \in Nat
  BY ZoneRanges, ZoneConstants
<1>3. node_zones[ZONE_DMA].size > 0
  BY <1>2, ZoneRanges
<1>4. CASE HasFlag(n, GFP_DMA) \/ max_low_pfn <= max_dma
  <2>1. list = <<ZONE_DMA, NoZone>>
    BY <1>1, <1>4 DEF ListFor
  <2>2. Last(list) = NoZone /\ zones = <<ZONE_DMA>>
    <3>1. Last(<<ZONE_DMA, NoZone>>) = NoZone /\ Front(<<ZONE_DMA, NoZone>>) = <<ZONE_DMA>>
      BY <1>0, ShortFronts
    <3> QED BY <2>1, <3>1
  <2> HIDE DEF zones
  <2>3. ToSet(zones) = {ZONE_DMA} /\ Len(zones) = 1
    BY <2>2 DEF ToSet
  <2>4. ASSUME NEW p \in 0 .. max_low_pfn - 1
        PROVE  (\E z \in ToSet(zones) : Spans(z, p)) <=> p < Dma
    BY <2>3, ZoneRanges
  <2>5. Dma = IF HasFlag(n, GFP_DMA) /\ max_dma < max_low_pfn THEN max_dma ELSE max_low_pfn
    BY <1>2, <1>4 DEF Dma
  <2>6. {p \in 0 .. max_low_pfn - 1 : \E z \in ToSet(zones) : Spans(z, p)} = 0 .. Dma - 1
    BY <1>2, <2>4
  <2> QED BY <1>3, <2>2, <2>3, <2>5, <2>6 DEF zones
<1>5. CASE ~(HasFlag(n, GFP_DMA) \/ max_low_pfn <= max_dma)
  <2>1. list = <<ZONE_NORMAL, ZONE_DMA, NoZone>>
    BY <1>1, <1>5 DEF ListFor
  <2>2. Last(list) = NoZone /\ zones = <<ZONE_NORMAL, ZONE_DMA>>
    <3>1. /\ Last(<<ZONE_NORMAL, ZONE_DMA, NoZone>>) = NoZone
          /\ Front(<<ZONE_NORMAL, ZONE_DMA, NoZone>>) = <<ZONE_NORMAL, ZONE_DMA>>
      BY <1>0, ShortFronts
    <3> QED BY <2>1, <3>1
  <2> HIDE DEF zones
  <2>3. ToSet(zones) = {ZONE_NORMAL, ZONE_DMA} /\ Len(zones) = 2
        /\ zones[1] = 1 /\ zones[2] = 0
    BY <2>2 DEF ToSet, ZONE_DMA, ZONE_NORMAL
  <2>4. node_zones[ZONE_NORMAL].size > 0
    BY <1>2, <1>5, ZoneRanges DEF Dma
  <2>5. ASSUME NEW p \in 0 .. max_low_pfn - 1
        PROVE  \E z \in ToSet(zones) : Spans(z, p)
    BY <1>2, <2>3, ZoneRanges
  <2>6. {p \in 0 .. max_low_pfn - 1 : \E z \in ToSet(zones) : Spans(z, p)} = 0 .. max_low_pfn - 1
    BY <2>5
  <2>7. \A l, m \in 1 .. Len(zones) : l < m => zones[l] > zones[m]
    BY <2>3
  <2> QED BY <1>3, <1>5, <2>2, <2>3, <2>4, <2>6, <2>7 DEF zones
<1> QED BY <1>4, <1>5

LEMMA ZonesInvInductive == Spec => []ZonesInv
<1>1. Init => ZonesInv
  BY ZonesInvInit
<1>2. IInv /\ ZonesInv /\ [Next]_vars => ZonesInv'
  BY ZonesInvNext
<1> QED BY <1>1, <1>2, Inductive, PTL DEF Spec

(* For every size of low memory and every reach of DMA, when               *)
(* free_area_init is over each page is in the zone its entry of mem_map    *)
(* names and in no other, the DMA zone ends where DMA does, and each list  *)
(* of zones offers all pages that its kind of request can use, the scarce  *)
(* ones last, and no empty zone. *)
THEOREM ZonesAreRight == Spec => []ZonesRight
<1>1. IInv /\ ZonesInv => ZonesRight
  <2> SUFFICES ASSUME IInv, ZonesInv, at \in {"zap", "done"}
               PROVE  PagesZoned(max_low_pfn) /\ ListsComplete(max_low_pfn)
    BY DEF ZonesRight
  <2>1. max_low_pfn \in Nat \ {0}
    BY Bounds
  <2> QED BY <2>1, PagesInZones, ListsRight
<1> QED BY <1>1, Inductive, ZonesInvInductive, PTL
----------------------------------------------------------------------------
(* The memory map that the page tables are made for: E820, for every map   *)
(* of every length and every size of the table.  What has been copied so   *)
(* far is the RAM of the entries up to nr outside the hole, unless e820 is *)
(* full.                                                                   *)

Regions == [addr : Nat, size : Nat, type : {"RAM", "RESERVED"}]

RamUpTo(n) == UNION {Bytes(mmap[q]) : q \in {j \in 1 .. n : mmap[j].type = "RAM"}}

MapTypes ==
  /\ mmap \in Seq(MapEntry) /\ lower \in Nat /\ upper \in Nat
  /\ e820 \in Seq(Regions) /\ Len(e820) <= E820MAX
  /\ stage \in {"start", "copy", "fallback", "done"}
  /\ nr \in 0 .. Len(mmap)

(* The entries up to nr, of which none wraps around. *)
MapCopied ==
  /\ stage = "start" => e820 = <<>> /\ nr = 0
  /\ stage = "copy" => Len(mmap) >= 2 /\ nr < Len(mmap)
  /\ stage = "fallback" => ~Usable
  /\ \A q \in 1 .. nr : mmap[q].addr + mmap[q].size < ULLMax
  /\ stage # "done" \/ Usable =>
       /\ RamOf(e820) \subseteq RamUpTo(nr) \ Hole
       /\ Len(e820) < E820MAX => RamOf(e820) = RamUpTo(nr) \ Hole
  /\ stage = "done" /\ Usable => nr = Len(mmap)

FellBack ==
  stage = "done" /\ ~Usable =>
    RamOf(e820) = (0 .. LowSize - 1) \cup (HIGH_MEMORY .. HIGH_MEMORY + upper - 1)

MapInv == MapTypes /\ MapCopied /\ FellBack /\ KeepsDisjoint
----------------------------------------------------------------------------
(* Tables *)

LEMMA MapSizes ==
  /\ E820MAX \in Nat /\ E820MAX >= 2
  /\ LowEnd \in Nat /\ HIGH_MEMORY \in Nat /\ ULLMax \in Nat \ {0} /\ LOWMEMSIZE \in Nat
  /\ LOWMEMSIZE <= LowEnd /\ LowEnd < HIGH_MEMORY /\ HIGH_MEMORY < ULLMax
BY E820Assumption

LEMMA InRam ==
  ASSUME NEW table, NEW x
  PROVE  x \in RamOf(table) <=>
           \E q \in DOMAIN table : table[q].type = "RAM" /\ x \in Bytes(table[q])
BY DEF RamOf

(* add_memory_region keeps what is in the table, and adds all if there is  *)
(* room. *)
LEMMA AddRight ==
  ASSUME NEW t \in Seq(Regions), NEW rs \in Seq(Regions), Len(t) <= E820MAX
  PROVE  LET r == AddMemoryRegions(t, rs)
         IN  /\ r \in Seq(Regions) /\ Len(r) <= E820MAX
             /\ RamOf(r) \subseteq RamOf(t) \cup RamOf(rs)
             /\ Len(r) < E820MAX \/ Len(t) + Len(rs) <= E820MAX => RamOf(r) = RamOf(t) \cup RamOf(rs)
             /\ DisjointRam(t) /\ DisjointRam(rs) /\ RamOf(t) \cap RamOf(rs) = {} => DisjointRam(r)
<1> DEFINE all == t \o rs
           r == AddMemoryRegions(t, rs)
           n == Len(t)
           m == Len(rs)
<1>1. /\ n \in Nat /\ m \in Nat /\ DOMAIN t = 1 .. n /\ DOMAIN rs = 1 .. m
      /\ \A q \in 1 .. n : t[q] \in Regions
      /\ \A q \in 1 .. m : rs[q] \in Regions
  OBVIOUS
<1>2. /\ all \in Seq(Regions) /\ Len(all) = n + m
      /\ \A q \in 1 .. n : all[q] = t[q]
      /\ \A q \in 1 .. m : all[n + q] = rs[q]
  BY ConcatProperties
<1>3. \A q \in 1 .. n + m : q \in 1 .. n \/ (q - n \in 1 .. m /\ q = n + (q - n))
  BY <1>1
<1>4. /\ r \in Seq(Regions) /\ Len(r) <= n + m /\ Len(r) <= E820MAX
      /\ n + m <= E820MAX => Len(r) = n + m
      /\ n + m > E820MAX => Len(r) = E820MAX
      /\ \A q \in 1 .. Len(r) : r[q] = all[q]
  <2>1. CASE n + m <= E820MAX
    <3>1. r = all
      BY <1>2, <2>1 DEF AddMemoryRegions
    <3> HIDE DEF r, all, n, m
    <3> QED
      BY <1>1, <1>2, <2>1, <3>1, MapSizes
  <2>2. CASE ~(n + m <= E820MAX)
    <3>1. r = SubSeq(all, 1, E820MAX)
      BY <1>2, <2>2 DEF AddMemoryRegions
    <3> HIDE DEF r, all, n, m
    <3>2. \A q \in 1 .. E820MAX : all[q] \in Regions
      BY <1>1, <1>2, <2>2, MapSizes
    <3>3. /\ r \in Seq(Regions)
          /\ Len(r) = IF 1 <= E820MAX THEN E820MAX - 1 + 1 ELSE 0
          /\ \A q \in 1 .. E820MAX - 1 + 1 : r[q] = all[1 + q - 1]
      BY <3>1, <3>2, MapSizes, SubSeqProperties
    <3>4. E820MAX - 1 + 1 = E820MAX /\ \A q \in 1 .. E820MAX : 1 + q - 1 = q
      BY MapSizes
    <3>5. Len(r) = E820MAX
      BY <3>3, MapSizes
    <3>6. \A q \in 1 .. E820MAX : r[q] = all[q]
      BY <3>3, <3>4
    <3> QED
      BY <1>1, <2>2, <3>3, <3>5, <3>6, MapSizes
  <2> QED
    BY <2>1, <2>2
<1> HIDE DEF r, all, n, m
<1>5. ASSUME NEW q \in 1 .. Len(r)
      PROVE  \/ q \in 1 .. n /\ r[q] = t[q]
             \/ q - n \in 1 .. m /\ q = n + (q - n) /\ r[q] = rs[q - n]
  <2>1. q \in 1 .. n + m /\ r[q] = all[q]
    BY <1>1, <1>4
  <2>2. CASE q \in 1 .. n
    BY <1>2, <2>1, <2>2
  <2>3. CASE q - n \in 1 .. m /\ q = n + (q - n)
    <3>1. all[n + (q - n)] = rs[q - n]
      BY <1>2, <2>3
    <3> QED
      BY <2>1, <2>3, <3>1
  <2> QED
    BY <1>3, <2>1, <2>2, <2>3
<1>6. DOMAIN r = 1 .. Len(r)
  BY <1>4
<1>7. RamOf(r) \subseteq RamOf(t) \cup RamOf(rs)
  BY <1>1, <1>5, <1>6, InRam
<1>8. ASSUME n + m <= E820MAX PROVE RamOf(t) \cup RamOf(rs) \subseteq RamOf(r)
  <2>1. Len(r) = n + m
    BY <1>4, <1>8
  <2>2. ASSUME NEW q \in 1 .. n PROVE q \in 1 .. Len(r) /\ r[q] = t[q]
    BY <1>1, <1>2, <1>4, <2>1
  <2>3. ASSUME NEW q \in 1 .. m PROVE n + q \in 1 .. Len(r) /\ r[n + q] = rs[q]
    BY <1>1, <1>2, <1>4, <2>1
  <2> QED
    BY <1>1, <1>6, <2>2, <2>3, InRam
<1>9. Len(r) < E820MAX => n + m <= E820MAX
  BY <1>1, <1>4, MapSizes
<1>10. ASSUME DisjointRam(t), DisjointRam(rs), RamOf(t) \cap RamOf(rs) = {}
       PROVE  DisjointRam(r)
  <2>1. ASSUME NEW j \in 1 .. Len(r), NEW q \in 1 .. Len(r), j # q,
               r[j].type = "RAM", r[q].type = "RAM", NEW x \in Bytes(r[j]), x \in Bytes(r[q])
        PROVE  FALSE
    <3>1. CASE j \in 1 .. n /\ r[j] = t[j] /\ q \in 1 .. n /\ r[q] = t[q]
      BY <1>1, <1>10, <2>1, <3>1 DEF DisjointRam
    <3>2. CASE /\ j - n \in 1 .. m /\ j = n + (j - n) /\ r[j] = rs[j - n]
               /\ q - n \in 1 .. m /\ q = n + (q - n) /\ r[q] = rs[q - n]
      <4>1. j - n # q - n
        BY <2>1, <3>2
      <4> QED
        BY <1>1, <1>10, <2>1, <3>2, <4>1 DEF DisjointRam
    <3>3. CASE j \in 1 .. n /\ r[j] = t[j] /\ q - n \in 1 .. m /\ r[q] = rs[q - n]
      BY <1>1, <1>10, <2>1, <3>3, InRam
    <3>4. CASE j - n \in 1 .. m /\ r[j] = rs[j - n] /\ q \in 1 .. n /\ r[q] = t[q]
      BY <1>1, <1>10, <2>1, <3>4, InRam
    <3> QED
      BY <1>5, <3>1, <3>2, <3>3, <3>4
  <2> QED
    BY <1>6, <2>1 DEF DisjointRam
<1> QED
  BY <1>4, <1>7, <1>8, <1>9, <1>10 DEF r, n, m

(* An entry that does not end before it starts does not wrap around.       *)
LEMMA EndRight ==
  ASSUME NEW entry \in MapEntry
  PROVE  /\ entry.addr <= EndOf(entry) <=> entry.addr + entry.size < ULLMax
         /\ entry.addr <= EndOf(entry) => EndOf(entry) = entry.addr + entry.size
<1>1. /\ entry.addr \in Nat /\ entry.size \in Nat /\ entry.addr < ULLMax /\ entry.size < ULLMax
      /\ ULLMax \in Nat \ {0}
  BY MapSizes DEF MapEntry, Addr
<1> DEFINE sum == entry.addr + entry.size
<1>2. CASE sum < ULLMax
  <2>1. 0 * ULLMax + sum = sum /\ sum \in 0 .. ULLMax - 1
    BY <1>1, <1>2
  <2>2. sum % ULLMax = sum
    BY <1>1, <2>1, DivUnique
  <2> QED
    BY <1>1, <1>2, <2>2 DEF EndOf
<1>3. CASE ~(sum < ULLMax)
  <2> DEFINE low == sum - ULLMax
  <2>1. low \in 0 .. ULLMax - 1 /\ low < entry.addr /\ 1 * ULLMax + low = sum
    BY <1>1, <1>3
  <2> HIDE DEF low, sum
  <2>2. ((1 * ULLMax) + low) % ULLMax = low
    BY <1>1, <2>1, DivUnique
  <2>3. sum % ULLMax = low
    BY <2>1, <2>2
  <2> USE DEF sum
  <2> QED
    BY <1>1, <1>3, <2>1, <2>3 DEF EndOf
<1> QED
  BY <1>2, <1>3

(* The parts of an entry are its bytes outside the hole, each once.        *)
LEMMA OneRegion ==
  ASSUME NEW e \in Regions
  PROVE  /\ <<e>> \in Seq(Regions)
         /\ e.type = "RAM" => RamOf(<<e>>) = Bytes(e)
         /\ e.type # "RAM" => RamOf(<<e>>) = {}
         /\ DisjointRam(<<e>>)
<1>1. DOMAIN <<e>> = {1} /\ <<e>>[1] = e /\ <<e>> \in Seq(Regions)
  OBVIOUS
<1> QED
  BY <1>1 DEF RamOf, DisjointRam

LEMMA PartsRight ==
  ASSUME NEW entry \in MapEntry, entry.addr <= EndOf(entry)
  PROVE  /\ Parts(entry) \in Seq(Regions)
         /\ RamOf(Parts(entry)) = IF entry.type = "RAM" THEN Bytes(entry) \ Hole ELSE {}
         /\ DisjointRam(Parts(entry))
<1> DEFINE low  == Region(entry.addr, LowEnd, "RAM")
           high == Region(HIGH_MEMORY, EndOf(entry), "RAM")
<1>1. /\ entry.addr \in Nat /\ entry.size \in Nat /\ entry.type \in {"RAM", "RESERVED"}
      /\ EndOf(entry) = entry.addr + entry.size
      /\ entry \in Regions
  BY EndRight DEF MapEntry, Addr, Regions
<1>3. CASE ~Straddles(entry)
  <2>1. Parts(entry) = <<entry>>
    BY <1>3 DEF Parts
  <2>2. entry.type = "RAM" => Bytes(entry) \cap Hole = {}
    BY <1>1, <1>3, MapSizes DEF Straddles, Bytes, Hole
  <2>3. /\ Parts(entry) \in Seq(Regions) /\ DisjointRam(Parts(entry))
        /\ entry.type = "RAM" => RamOf(Parts(entry)) = Bytes(entry)
        /\ entry.type # "RAM" => RamOf(Parts(entry)) = {}
    BY <1>1, <2>1, OneRegion
  <2> QED
    BY <2>2, <2>3
<1>4. CASE Straddles(entry)
  <2>1. entry.type = "RAM" /\ entry.addr < HIGH_MEMORY /\ EndOf(entry) > LowEnd
    BY <1>4 DEF Straddles
  <2>2. entry.addr < LowEnd => /\ low \in Regions /\ low.type = "RAM"
                               /\ Bytes(low) = entry.addr .. LowEnd - 1
    BY <1>1, MapSizes DEF Region, Regions, Bytes
  <2>3. EndOf(entry) > HIGH_MEMORY => /\ high \in Regions /\ high.type = "RAM"
                                    /\ Bytes(high) = HIGH_MEMORY .. EndOf(entry) - 1
    BY <1>1, MapSizes DEF Region, Regions, Bytes
  <2>4. Bytes(entry) \ Hole = (IF entry.addr < LowEnd THEN entry.addr .. LowEnd - 1 ELSE {})
               \cup (IF EndOf(entry) > HIGH_MEMORY THEN HIGH_MEMORY .. EndOf(entry) - 1 ELSE {})
    BY <1>1, <2>1, MapSizes DEF Bytes, Hole
  <2>5. Parts(entry) = (IF entry.addr < LowEnd THEN <<low>> ELSE <<>>)
                       \o (IF EndOf(entry) > HIGH_MEMORY THEN <<high>> ELSE <<>>)
    BY <1>4 DEF Parts
  <2> HIDE DEF low, high
  <2>6. CASE entry.addr < LowEnd /\ EndOf(entry) > HIGH_MEMORY
    <3> DEFINE parts == <<low>> \o <<high>>
    <3>1. Parts(entry) = parts
      BY <2>5, <2>6
    <3>2. Bytes(low) \cap Bytes(high) = {}
      BY <1>1, <2>2, <2>3, <2>6, MapSizes
    <3>3. parts \in Seq(Regions) /\ DOMAIN parts = {1, 2} /\ parts[1] = low /\ parts[2] = high
      <4>1. /\ <<low>> \in Seq(Regions) /\ Len(<<low>>) = 1 /\ <<low>>[1] = low
            /\ <<high>> \in Seq(Regions) /\ Len(<<high>>) = 1 /\ <<high>>[1] = high
        BY <2>2, <2>3, <2>6
      <4>2. /\ parts \in Seq(Regions) /\ Len(parts) = Len(<<low>>) + Len(<<high>>)
            /\ \A q \in 1 .. Len(<<low>>) + Len(<<high>>) :
                 parts[q] = IF q <= Len(<<low>>) THEN <<low>>[q] ELSE <<high>>[q - Len(<<low>>)]
        BY <4>1, ConcatProperties
      <4> HIDE DEF parts
      <4>3. Len(parts) = 2 /\ parts[1] = <<low>>[1] /\ parts[2] = <<high>>[1]
        BY <4>1, <4>2
      <4> QED
        BY <4>1, <4>2, <4>3
    <3> HIDE DEF parts
    <3>4. RamOf(parts) = Bytes(low) \cup Bytes(high)
      BY <2>2, <2>3, <2>6, <3>3 DEF RamOf
    <3>5. DisjointRam(parts)
      BY <3>2, <3>3 DEF DisjointRam
    <3> QED
      BY <2>1, <2>2, <2>3, <2>4, <2>6, <3>1, <3>3, <3>4, <3>5
  <2>7. CASE entry.addr < LowEnd /\ ~(EndOf(entry) > HIGH_MEMORY)
    <3>1. Parts(entry) = <<low>>
      BY <2>5, <2>7
    <3>2. Bytes(entry) \ Hole = Bytes(low)
      BY <2>2, <2>4, <2>7
    <3>3. /\ <<low>> \in Seq(Regions) /\ DisjointRam(<<low>>)
          /\ RamOf(<<low>>) = Bytes(low)
      BY <2>2, <2>7, OneRegion
    <3> QED
      BY <2>1, <3>1, <3>2, <3>3
  <2>8. CASE ~(entry.addr < LowEnd) /\ EndOf(entry) > HIGH_MEMORY
    <3>1. Parts(entry) = <<high>>
      BY <2>5, <2>8
    <3>2. Bytes(entry) \ Hole = Bytes(high)
      BY <2>3, <2>4, <2>8
    <3>3. /\ <<high>> \in Seq(Regions) /\ DisjointRam(<<high>>)
          /\ RamOf(<<high>>) = Bytes(high)
      BY <2>3, <2>8, OneRegion
    <3> QED
      BY <2>1, <3>1, <3>2, <3>3
  <2>9. CASE ~(entry.addr < LowEnd) /\ ~(EndOf(entry) > HIGH_MEMORY)
    <3>1. Parts(entry) = <<>>
      BY <2>5, <2>9
    <3>2. <<>> \in Seq(Regions) /\ RamOf(<<>>) = {} /\ DisjointRam(<<>>)
      BY DEF RamOf, DisjointRam
    <3> QED
      BY <2>1, <2>4, <2>9, <3>1, <3>2
  <2> QED
    BY <2>6, <2>7, <2>8, <2>9
<1> QED
  BY <1>3, <1>4
----------------------------------------------------------------------------
(* Steps *)

LEMMA NoRegions == <<>> \in Seq(Regions) /\ Len(<<>>) = 0 /\ RamOf(<<>>) = {} /\ DisjointRam(<<>>)
BY DEF RamOf, DisjointRam

LEMMA MapInitInv == MapInit => MapInv
<1> SUFFICES ASSUME MapInit PROVE MapInv
  OBVIOUS
<1>1. /\ mmap \in Seq(MapEntry) /\ lower \in Nat /\ upper \in Nat
      /\ e820 = <<>> /\ stage = "start" /\ nr = 0
  BY E820Assumption DEF MapInit, Addr
<1>2. RamUpTo(0) = {}
  BY DEF RamUpTo
<1>3. MapTypes
  BY <1>1, NoRegions, MapSizes DEF MapTypes
<1> QED
  BY <1>1, <1>2, <1>3, NoRegions DEF MapInv, MapCopied, FellBack, KeepsDisjoint

LEMMA StartMapInv == MapInv /\ Start => MapInv'
<1> SUFFICES ASSUME MapInv, Start PROVE MapInv'
  OBVIOUS
<1>1. UNCHANGED <<mmap, lower, upper, e820, nr>> /\ stage = "start"
  BY DEF Start, inputs
<1>2. CASE Len(mmap) < 2
  <2>1. stage' = "fallback" /\ ~Usable
    BY <1>2 DEF Start, Usable, MapInv, MapTypes
  <2> QED
    BY <1>1, <2>1 DEF MapInv, MapTypes, MapCopied, FellBack, KeepsDisjoint, Usable, RamUpTo, LowSize
<1>3. CASE ~(Len(mmap) < 2)
  <2>1. stage' = "copy" /\ Len(mmap) >= 2 /\ nr < Len(mmap)
    BY <1>1, <1>3 DEF Start, MapInv, MapTypes, MapCopied
  <2> QED
    BY <1>1, <2>1 DEF MapInv, MapTypes, MapCopied, FellBack, KeepsDisjoint, Usable, RamUpTo, LowSize
<1> QED
  BY <1>2, <1>3

LEMMA CopyEntryMapInv == MapInv /\ CopyEntry => MapInv'
<1> SUFFICES ASSUME MapInv, CopyEntry PROVE MapInv'
  OBVIOUS
<1> DEFINE entry == mmap[nr + 1]
           len == Len(mmap)
<1>1. /\ UNCHANGED <<mmap, lower, upper>> /\ stage = "copy"
      /\ len \in Nat /\ len >= 2 /\ nr \in Nat /\ nr < len /\ nr + 1 \in 1 .. len
      /\ DOMAIN mmap = 1 .. len /\ entry \in MapEntry
  BY DEF CopyEntry, inputs, MapInv, MapTypes, MapCopied
<1>2. CASE entry.addr > EndOf(entry)
  <2>1. stage' = "fallback" /\ UNCHANGED <<e820, nr>>
    BY <1>2 DEF CopyEntry
  <2>2. ~(entry.addr <= EndOf(entry))
    <3>1. entry.addr \in Nat /\ EndOf(entry) \in Int
      BY <1>1, MapSizes DEF MapEntry, Addr, EndOf
    <3> QED
      BY <1>2, <3>1
  <2>3. ~Usable
    BY <1>1, <2>2, EndRight DEF Usable
  <2> QED
    BY <1>1, <2>1, <2>3 DEF MapInv, MapTypes, MapCopied, FellBack, KeepsDisjoint, Usable, RamUpTo, LowSize
<1>3. CASE ~(entry.addr > EndOf(entry))
  <2>1. /\ e820' = AddMemoryRegions(e820, Parts(entry)) /\ nr' = nr + 1
        /\ stage' = IF nr' = len THEN "done" ELSE "copy"
    BY <1>1, <1>3 DEF CopyEntry
  <2>2. entry.addr <= EndOf(entry) /\ entry.addr + entry.size < ULLMax
    <3>1. entry.addr \in Nat /\ EndOf(entry) \in Int
      BY <1>1, MapSizes DEF MapEntry, Addr, EndOf
    <3>2. entry.addr <= EndOf(entry)
      BY <1>3, <3>1
    <3> QED
      BY <1>1, <3>2, EndRight
  <2> DEFINE added == IF entry.type = "RAM" THEN Bytes(entry) ELSE {}
  <2>3. /\ Parts(entry) \in Seq(Regions) /\ DisjointRam(Parts(entry))
        /\ RamOf(Parts(entry)) = added \ Hole
    BY <1>1, <2>2, PartsRight
  <2>4. e820 \in Seq(Regions) /\ Len(e820) <= E820MAX
    BY DEF MapInv, MapTypes
  <2>5. /\ e820' \in Seq(Regions) /\ Len(e820') <= E820MAX
        /\ RamOf(e820') \subseteq RamOf(e820) \cup (added \ Hole)
        /\ Len(e820') < E820MAX => RamOf(e820') = RamOf(e820) \cup (added \ Hole)
        /\ DisjointRam(e820) /\ RamOf(e820) \cap (added \ Hole) = {} => DisjointRam(e820')
    BY <2>1, <2>3, <2>4, AddRight
  <2>6. RamUpTo(nr + 1) = RamUpTo(nr) \cup added
    <3>1. 1 .. nr + 1 = (1 .. nr) \cup {nr + 1}
      BY <1>1
    <3> QED
      BY <3>1 DEF RamUpTo
  <2>7. /\ RamOf(e820) \subseteq RamUpTo(nr) \ Hole
        /\ Len(e820) < E820MAX => RamOf(e820) = RamUpTo(nr) \ Hole
    BY <1>1 DEF MapInv, MapCopied
  <2>8. Len(e820') < E820MAX => Len(e820) < E820MAX
    <3>1. /\ Len(e820 \o Parts(entry)) = Len(e820) + Len(Parts(entry))
          /\ Len(e820) \in Nat /\ Len(Parts(entry)) \in Nat
          /\ e820 \o Parts(entry) \in Seq(Regions)
      BY <2>3, <2>4, ConcatProperties
    <3> DEFINE all == e820 \o Parts(entry)
    <3>2. CASE Len(all) <= E820MAX
      <4>1. e820' = all
        BY <2>1, <3>2 DEF AddMemoryRegions
      <4> QED
        BY <3>1, <4>1, MapSizes
    <3>3. CASE ~(Len(all) <= E820MAX)
      <4>1. e820' = SubSeq(all, 1, E820MAX)
        BY <2>1, <3>3 DEF AddMemoryRegions
      <4> HIDE DEF all
      <4>2. /\ all \in Seq(Regions) /\ 1 <= E820MAX /\ \A q \in 1 .. E820MAX : all[q] \in Regions
        BY <3>1, <3>3, MapSizes DEF all
      <4>3. Len(e820') = E820MAX - 1 + 1
        BY <4>1, <4>2, MapSizes, SubSeqProperties
      <4> QED
        BY <4>3, MapSizes
    <3> QED
      BY <3>2, <3>3
  <2> HIDE DEF added, entry
  <2>9. /\ RamOf(e820') \subseteq RamUpTo(nr + 1) \ Hole
        /\ Len(e820') < E820MAX => RamOf(e820') = RamUpTo(nr + 1) \ Hole
    BY <2>5, <2>6, <2>7, <2>8
  <2>10. \A q \in 1 .. nr + 1 : mmap[q].addr + mmap[q].size < ULLMax
    BY <1>1, <2>2 DEF MapInv, MapCopied, entry
  <2>11. stage' = "done" => Usable
    BY <1>1, <2>1, <2>10 DEF Usable
  <2>12. KeepsDisjoint'
    <3>1. DisjointRam(mmap) => RamOf(e820) \cap added = {}
      <4>1. ASSUME DisjointRam(mmap), NEW x \in RamUpTo(nr), x \in added PROVE FALSE
        <5>1. PICK q \in 1 .. nr : mmap[q].type = "RAM" /\ x \in Bytes(mmap[q])
          BY <4>1 DEF RamUpTo
        <5>2. q # nr + 1 /\ q \in 1 .. len /\ nr + 1 \in 1 .. len
          BY <1>1
        <5>3. mmap[nr + 1].type = "RAM" /\ x \in Bytes(mmap[nr + 1])
          BY <4>1 DEF added, entry
        <5> QED
          BY <1>1, <4>1, <5>1, <5>2, <5>3 DEF DisjointRam
      <4> QED
        BY <2>7, <4>1
    <3> QED
      BY <1>1, <2>5, <3>1 DEF MapInv, KeepsDisjoint
  <2>13. RamUpTo(nr)' = RamUpTo(nr + 1)
    BY <1>1, <2>1 DEF RamUpTo
  <2>14. Usable' = Usable
    BY <1>1 DEF Usable
  <2>15. MapTypes'
    <3>1. nr' \in 0 .. Len(mmap') /\ stage' \in {"start", "copy", "fallback", "done"}
      <4>1. mmap' = mmap /\ nr' = nr + 1 /\ nr + 1 \in 1 .. Len(mmap) /\ stage' \in {"copy", "done"}
        BY <1>1, <2>1
      <4> HIDE DEF len
      <4>2. nr + 1 \in 0 .. Len(mmap)
        BY <1>1
      <4> QED
        BY <4>1, <4>2
    <3> QED
      BY <1>1, <2>5, <3>1 DEF MapInv, MapTypes
  <2>16. MapCopied'
    <3>1. stage' # "start" /\ stage' # "fallback" /\ Len(mmap') >= 2
      BY <1>1, <2>1
    <3>2. stage' = "copy" => nr' < Len(mmap')
      <4>1. mmap' = mmap /\ nr' = nr + 1 /\ (stage' = "copy" => nr + 1 # len)
        BY <1>1, <2>1
      <4> HIDE DEF len
      <4>2. nr + 1 # len => nr + 1 < len
        BY <1>1
      <4> QED
        BY <4>1, <4>2 DEF len
    <3>3. stage' = "done" => nr' = Len(mmap')
      BY <1>1, <2>1
    <3>4. \A q \in 1 .. nr' : mmap'[q].addr + mmap'[q].size < ULLMax
      BY <1>1, <2>1, <2>10
    <3> QED
      BY <2>9, <2>13, <3>1, <3>2, <3>3, <3>4 DEF MapCopied
  <2>17. FellBack'
    BY <2>11, <2>14 DEF FellBack
  <2> QED
    BY <2>12, <2>15, <2>16, <2>17 DEF MapInv
<1> QED
  BY <1>2, <1>3

(* The two regions of the fallback. *)
LEMMA FallBackMapInv == MapInv /\ FallBack => MapInv'
<1> SUFFICES ASSUME MapInv, FallBack PROVE MapInv'
  OBVIOUS
<1> DEFINE low == Region(0, LowSize, "RAM")
           high == Region(HIGH_MEMORY, HIGH_MEMORY + upper, "RAM")
           two == <<low, high>>
<1>1. /\ UNCHANGED <<mmap, lower, upper, nr>> /\ stage = "fallback" /\ stage' = "done"
      /\ e820' = AddMemoryRegions(<<>>, two) /\ ~Usable
  BY DEF FallBack, inputs, MapInv, MapCopied
<1>2. LowSize \in Nat /\ LowSize <= LowEnd /\ upper \in Nat
  BY MapSizes DEF LowSize, MapInv, MapTypes
<1>3. /\ low \in Regions /\ low.type = "RAM" /\ Bytes(low) = 0 .. LowSize - 1
      /\ high \in Regions /\ high.type = "RAM"
      /\ Bytes(high) = HIGH_MEMORY .. HIGH_MEMORY + upper - 1
  BY <1>2, MapSizes DEF Region, Regions, Bytes
<1> HIDE DEF low, high
<1>4. two \in Seq(Regions) /\ Len(two) = 2 /\ DOMAIN two = {1, 2} /\ two[1] = low /\ two[2] = high
  BY <1>3
<1> HIDE DEF two
<1>5. RamOf(two) = Bytes(low) \cup Bytes(high)
  BY <1>3, <1>4 DEF RamOf
<1>6. DisjointRam(two)
  <2>1. Bytes(low) \cap Bytes(high) = {}
    BY <1>2, <1>3, MapSizes
  <2> QED
    BY <1>4, <2>1 DEF DisjointRam
<1>7. /\ e820' \in Seq(Regions) /\ Len(e820') <= E820MAX
      /\ RamOf(e820') = RamOf(two) /\ DisjointRam(e820')
  <2> DEFINE none == <<>>
  <2>1. /\ none \in Seq(Regions) /\ Len(none) = 0 /\ RamOf(none) = {} /\ DisjointRam(none)
        /\ e820' = AddMemoryRegions(none, two)
    BY <1>1, NoRegions
  <2> HIDE DEF none
  <2>2. Len(none) <= E820MAX /\ Len(none) + Len(two) <= E820MAX
    BY <1>4, <2>1, MapSizes
  <2>3. /\ e820' \in Seq(Regions) /\ Len(e820') <= E820MAX
        /\ RamOf(e820') = RamOf(none) \cup RamOf(two)
        /\ DisjointRam(none) /\ DisjointRam(two) /\ RamOf(none) \cap RamOf(two) = {}
             => DisjointRam(e820')
    BY <1>4, <2>1, <2>2, AddRight
  <2> QED
    BY <1>6, <2>1, <2>3
<1>8. MapTypes' /\ KeepsDisjoint'
  BY <1>1, <1>7 DEF MapInv, MapTypes, KeepsDisjoint
<1>9. ~Usable' /\ LowSize' = LowSize
  BY <1>1 DEF Usable, LowSize
<1>10. MapCopied'
  BY <1>1, <1>9 DEF MapInv, MapCopied
<1>11. FellBack'
  BY <1>1, <1>3, <1>5, <1>7, <1>9 DEF FellBack
<1> QED
  BY <1>8, <1>10, <1>11 DEF MapInv

LEMMA MapSpecInv == MapSpec => []MapInv
<1>1. MapInv /\ [MapNext]_mapVars => MapInv'
  <2> SUFFICES ASSUME MapInv, [MapNext]_mapVars PROVE MapInv'
    OBVIOUS
  <2>1. CASE UNCHANGED mapVars
    BY <2>1 DEF mapVars, MapInv, MapTypes, MapCopied, FellBack, KeepsDisjoint, Usable, RamUpTo, LowSize
  <2>2. CASE MapNext
    BY <2>2, StartMapInv, CopyEntryMapInv, FallBackMapInv DEF MapNext
  <2> QED
    BY <2>1, <2>2
<1> QED
  BY <1>1, MapInitInv, PTL DEF MapSpec
----------------------------------------------------------------------------
(* The space of the BIOS and the adapters is never listed as RAM, for any  *)
(* map, also while it is copied. *)
THEOREM HoleIsKept == MapSpec => []NoRamInHole
<1>1. ASSUME MapInv PROVE NoRamInHole
  <2>1. CASE stage # "done" \/ Usable
    BY <1>1, <2>1 DEF MapInv, MapCopied, NoRamInHole
  <2>2. CASE stage = "done" /\ ~Usable
    <3>1. LowSize \in Nat /\ LowSize <= LowEnd
      BY <1>1, MapSizes DEF LowSize, MapInv, MapTypes
    <3> QED
      BY <1>1, <2>2, <3>1, MapSizes DEF MapInv, FellBack, NoRamInHole, Hole
  <2> QED
    BY <2>1, <2>2
<1> QED
  BY <1>1, MapSpecInv, PTL

(* A map that is usable is copied as it is but for the hole and what does  *)
(* not fit; of one that is not nothing is left.                            *)
THEOREM MapIsCopied == MapSpec => []RamKnown
<1>1. ASSUME MapInv PROVE RamKnown
  <2>1. RamUpTo(Len(mmap)) = RamOf(mmap)
    <3>1. DOMAIN mmap = 1 .. Len(mmap)
      BY <1>1 DEF MapInv, MapTypes
    <3> QED
      BY <3>1 DEF RamUpTo, RamOf
  <2> QED
    BY <1>1, <2>1 DEF MapInv, MapTypes, MapCopied, FellBack, RamKnown
<1> QED
  BY <1>1, MapSpecInv, PTL

(* No page is listed twice unless the BIOS lists it twice.                 *)
THEOREM StaysDisjoint == MapSpec => []KeepsDisjoint
<1>1. MapInv => KeepsDisjoint
  BY DEF MapInv
<1> QED
  BY <1>1, MapSpecInv, PTL

(* The table is at all times one that MemInit and SetupResources can take: *)
(* at most E820MAX entries, and none of less than no bytes, as cutting an  *)
(* entry at the border of the hole could have left (setup.c:118-134).      *)
GoodMap == e820 \in Seq(Regions) /\ Len(e820) <= E820MAX

THEOREM MapStaysGood == MapSpec => []GoodMap
<1>1. MapInv => GoodMap
  BY DEF MapInv, MapTypes, GoodMap
<1> QED
  BY <1>1, MapSpecInv, PTL
=============================================================================
