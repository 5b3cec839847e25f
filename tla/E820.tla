-------------------------------- MODULE E820 --------------------------------
(***************************************************************************)
(* The memory map: setup_memory_region of arch/i386/kernel/setup.c copies  *)
(* the map that GRUB passes into e820, an array of E820MAX entries, and    *)
(* falls back on two regions of RAM when that map is unusable.  MemInit    *)
(* starts from the e820 that this module ends with.                        *)
(***************************************************************************)
EXTENDS E820Table, Integers, Sequences

CONSTANTS
  LowEnd,             \* 0xA0000, the end of conventional memory
  ULLMax,             \* 2^64: unsigned long long arithmetic is modulo this
  LOWMEMSIZE,         \* 0x9f000
  Maps,               \* the multiboot maps considered: sequences of entries
  LowerSizes, UpperSizes   \* mem_lower << 10 and mem_upper << 10, in bytes

Addr  == 0 .. ULLMax - 1
MapEntry == [addr : Addr, size : Addr, type : {"RAM", "RESERVED"}]

ASSUME E820Assumption ==
  /\ E820MAX \in Nat /\ E820MAX >= 2
  /\ LowEnd \in Nat /\ HIGH_MEMORY \in Nat /\ ULLMax \in Nat /\ LOWMEMSIZE \in Nat
  /\ LOWMEMSIZE <= LowEnd /\ LowEnd < HIGH_MEMORY /\ HIGH_MEMORY < ULLMax
  /\ Maps \subseteq Seq(MapEntry)
  /\ LowerSizes \subseteq Addr
  /\ UpperSizes \subseteq 0 .. ULLMax - 1 - HIGH_MEMORY

VARIABLES
  mmap,               \* the multiboot map
  lower, upper,       \* the sizes multiboot gives beside it
  stage,              \* "start", "copy", "fallback" or "done"
  nr                  \* entries of mmap copied so far

mapVars == <<mmap, lower, upper, e820, stage, nr>>
inputs == <<mmap, lower, upper>>
----------------------------------------------------------------------------
Region(start, end, type) == [addr |-> start, size |-> end - start, type |-> type]

(* Fault: the check that the table is full is missing. *)
AppendAll(table, regions) == table \o regions

(* add_memory_region for each of the regions: a full table drops them. *)
AddMemoryRegions(table, regions) ==
  LET all == table \o regions
  IN  IF Len(all) <= E820MAX THEN all ELSE SubSeq(all, 1, E820MAX)

(* start + size, as unsigned long long computes it. *)
EndOf(entry) == (entry.addr + entry.size) % ULLMax

(* RAM that reaches into the space of the BIOS and the adapters. *)
Straddles(entry) ==
  entry.type = "RAM" /\ entry.addr < HIGH_MEMORY /\ EndOf(entry) > LowEnd

(* Fault: RAM that goes on above the hole is kept from its own start on. *)
PartsFromStart(entry) ==
  IF ~Straddles(entry) THEN <<entry>>
  ELSE (IF entry.addr < LowEnd THEN <<Region(entry.addr, LowEnd, "RAM")>> ELSE <<>>)
       \o (IF EndOf(entry) > HIGH_MEMORY THEN <<entry>> ELSE <<>>)

(* What is left of an entry: its part below the hole, its part above. *)
Parts(entry) ==
  IF ~Straddles(entry) THEN <<entry>>
  ELSE (IF entry.addr < LowEnd THEN <<Region(entry.addr, LowEnd, "RAM")>> ELSE <<>>)
       \o (IF EndOf(entry) > HIGH_MEMORY
             THEN <<Region(HIGH_MEMORY, EndOf(entry), "RAM")>> ELSE <<>>)
----------------------------------------------------------------------------
MapInit ==
  /\ mmap \in Maps
  /\ lower \in LowerSizes
  /\ upper \in UpperSizes
  /\ e820 = <<>>
  /\ stage = "start"
  /\ nr = 0

(* copy_multiboot_mmap wants two entries at least. *)
Start ==
  /\ stage = "start"
  /\ stage' = IF Len(mmap) < 2 THEN "fallback" ELSE "copy"
  /\ UNCHANGED <<inputs, e820, nr>>

(* One turn of its loop.  An entry that wraps around ends the copying, and *)
(* the entries copied before it stay in the table for the moment.          *)
CopyEntry ==
  LET entry == mmap[nr + 1]
  IN
  /\ stage = "copy"
  /\ IF entry.addr > EndOf(entry)
       THEN stage' = "fallback" /\ UNCHANGED <<e820, nr>>
       ELSE /\ e820' = AddMemoryRegions(e820, Parts(entry))
            /\ nr' = nr + 1
            /\ stage' = IF nr' = Len(mmap) THEN "done" ELSE "copy"
  /\ UNCHANGED inputs

LowSize == IF LOWMEMSIZE < lower THEN LOWMEMSIZE ELSE lower

(* Fault: e820.nr_map is not reset. *)
FallBackWithoutReset ==
  /\ stage = "fallback"
  /\ e820' = AddMemoryRegions(e820,
               <<Region(0, LowSize, "RAM"), Region(HIGH_MEMORY, HIGH_MEMORY + upper, "RAM")>>)
  /\ stage' = "done"
  /\ UNCHANGED <<inputs, nr>>

(* setup_memory_region starts over with two regions. *)
FallBack ==
  /\ stage = "fallback"
  /\ e820' = AddMemoryRegions(<<>>,
               <<Region(0, LowSize, "RAM"), Region(HIGH_MEMORY, HIGH_MEMORY + upper, "RAM")>>)
  /\ stage' = "done"
  /\ UNCHANGED <<inputs, nr>>

MapNext == Start \/ CopyEntry \/ FallBack

MapSpec == MapInit /\ [][MapNext]_mapVars
----------------------------------------------------------------------------
Bytes(entry) == entry.addr .. entry.addr + entry.size - 1
RamOf(table) == UNION {Bytes(table[k]) : k \in {j \in DOMAIN table : table[j].type = "RAM"}}
Hole         == LowEnd .. HIGH_MEMORY - 1

(* A map that setup_memory_region takes: long enough, nothing wraps. *)
Usable == Len(mmap) >= 2 /\ \A k \in DOMAIN mmap : mmap[k].addr + mmap[k].size < ULLMax

DisjointRam(table) ==
  \A j, k \in DOMAIN table :
    j # k /\ table[j].type = "RAM" /\ table[k].type = "RAM" =>
      Bytes(table[j]) \cap Bytes(table[k]) = {}

(* No RAM is ever listed between 640 KB and 1 MB, whatever mixture of      *)
(* entries straddles the one border or the other (setup.c:118-132).        *)
NoRamInHole == RamOf(e820) \cap Hole = {}

(* In the end the RAM is that of the map outside the hole, less only if    *)
(* the table is full; or, if the map is not usable, the two regions of the *)
(* fallback and nothing of what was copied before the bad entry was met.   *)
(* The table never grows past its E820MAX entries.                         *)
RamKnown ==
  /\ Len(e820) <= E820MAX
  /\ stage = "done" =>
    IF Usable
      THEN /\ RamOf(e820) \subseteq RamOf(mmap) \ Hole
           /\ Len(e820) < E820MAX => RamOf(e820) = RamOf(mmap) \ Hole
      ELSE RamOf(e820) = (0 .. LowSize - 1) \cup (HIGH_MEMORY .. HIGH_MEMORY + upper - 1)

(* If the BIOS lists no byte of RAM twice, neither does e820: then no page *)
(* is freed twice to the boot allocator, which would stop the machine      *)
(* (bootmem.c:65).                                                         *)
KeepsDisjoint == DisjointRam(mmap) => DisjointRam(e820)
=============================================================================
