--------------------------- MODULE SetupResources ---------------------------
(***************************************************************************)
(* The end of setup_arch (arch/i386/kernel/setup.c): probe_roms looks for  *)
(* ROMs and puts them into the tree of resources, then come the entries of *)
(* the memory map with the kernel inside them, the video memory, and the   *)
(* ports of the standard devices.  Nobody looks at what request_resource   *)
(* returns.                                                                *)
(*                                                                         *)
(* One thread; `at' is what it is about to do, i the counter of the loop   *)
(* that it is in.  The tree is an instance of Resource.                    *)
(***************************************************************************)
EXTENDS Integers, Sequences

CONSTANTS
  NULL, WordSize,
  MAXROMS,            \* slots of rom_resources
  VideoStart, ExtensionStart, MainboardRom, RomsEnd,   \* 0xC0000, 0xC8000, 0xE0000, 0xF0000
  VideoEnd,           \* 0xC8000, the end of the video ROM's range in rom_resources
  MainboardSize,      \* 64 KB
  Static,             \* the ranges of the static resources: functions to [start, end]
  E820Maps,           \* memory maps considered: sequences of [addr, size, type]
  RomMaps             \* ROMs considered: functions of VideoStart .. MainboardRom

iomem    == <<"iomem", 0>>
ioport   == <<"ioport", 0>>
code     == <<"code", 0>>
data     == <<"data", 0>>
vram     == <<"vram", 0>>
Rom(k)   == <<"rom", k>>
Res(k)   == <<"res", k>>
Io(k)    == <<"io", k>>

MaxEntries == 4       \* bound of the model: entries of the memory map
IoDevices  == 2       \* STANDARD_IO_RESOURCES, 8 in the source

Resources ==
  {iomem, ioport, code, data, vram} \cup {Rom(k) : k \in 0 .. MAXROMS - 1}
    \cup {Res(k) : k \in 1 .. MaxEntries} \cup {Io(k) : k \in 1 .. IoDevices}

Addr == 0 .. WordSize - 1

(* There is a slot left when the system ROM and the video ROM are known,   *)
(* and their static ranges lie where no extension begins.  The kernel's    *)
(* data comes behind its code.                                             *)
ASSUME SetupAssumption ==
  /\ MAXROMS \in Nat /\ MAXROMS >= 3
  /\ NULL \notin Resources
  /\ WordSize \in Nat \ {0}
  /\ {VideoStart, VideoEnd, ExtensionStart, MainboardRom, RomsEnd, MainboardSize} \subseteq Nat
  /\ VideoStart < VideoEnd /\ VideoEnd <= ExtensionStart
  /\ ExtensionStart < MainboardRom /\ MainboardRom < RomsEnd /\ RomsEnd <= WordSize
  /\ {iomem, code, data, Rom(0), Rom(1)} \subseteq DOMAIN Static
  /\ \A r \in DOMAIN Static : Static[r].start \in Addr /\ Static[r].end \in Addr
  /\ Static[iomem].start = 0 /\ Static[iomem].end = WordSize - 1
  /\ Static[Rom(0)].start >= RomsEnd /\ Static[Rom(0)].start <= Static[Rom(0)].end
  /\ Static[Rom(1)].end < VideoEnd
  /\ Static[code].start <= Static[code].end /\ Static[code].end < Static[data].start
  /\ Static[data].start <= Static[data].end
  /\ \A m \in E820Maps :
       /\ Len(m) \in 0 .. MaxEntries /\ DOMAIN m = 1 .. Len(m)
       /\ \A k \in DOMAIN m : m[k].addr \in Nat /\ m[k].size \in Nat
  /\ \A n \in RomMaps, b \in VideoStart .. MainboardRom :
       n[b] # NULL => n[b].length \in Nat

VARIABLES
  start, end, parent, child, sibling, pc, root, new, prev, answer,   \* Resource
  e820,               \* the memory map
  romAt,              \* what is found at each address where a ROM may begin
  at, i,
  roms                \* slots of rom_resources that are taken

treeVars == <<start, end, parent, child, sibling, pc, root, new, prev, answer>>
vars     == <<treeVars, e820, romAt, at, i, roms>>

StaticRange(r) == IF r \in DOMAIN Static THEN Static[r] ELSE [start |-> 0, end |-> 0]
StaticStarts   == [r \in Resources |-> StaticRange(r).start]
StaticEnds     == [r \in Resources |-> StaticRange(r).end]

RomSizes   == UNION {{n[b].length : b \in {c \in VideoStart .. MainboardRom : n[c] # NULL}} :
                       n \in RomMaps}
EntrySizes == UNION {{m[k].size : k \in DOMAIN m} : m \in E820Maps}

Tree == INSTANCE Resource WITH
  StaticStart <- StaticStarts, StaticEnd <- StaticEnds,
  Sizes <- {MainboardSize} \cup RomSizes \cup EntrySizes

(* A ROM's signature is at the address; its length and checksum. *)
HasSignature(base) == romAt[base] # NULL
IsExtension(base)  == HasSignature(base) /\ romAt[base].length > 0 /\ romAt[base].checksum = 0

Goto(what, k) == at' = what /\ i' = k

Init ==
  /\ Tree!Init
  /\ e820 \in E820Maps
  /\ romAt \in RomMaps
  /\ at = "system_rom" /\ i = 0
  /\ roms = 1
----------------------------------------------------------------------------
(* probe_roms *)

RequestSystemRom ==
  /\ at = "system_rom"
  /\ Tree!Request(iomem, Rom(0))
  /\ Goto("video", VideoStart)
  /\ UNCHANGED <<e820, romAt, roms>>

(* The first signature below MainboardRom makes the video ROM known. *)
ProbeVideo ==
  /\ at = "video" /\ pc = "idle"
  /\ IF HasSignature(i)
       THEN /\ Tree!Request(iomem, Rom(roms))
            /\ roms' = roms + 1
            /\ Goto("extension", ExtensionStart)
       ELSE /\ IF i + 1 < MainboardRom THEN Goto("video", i + 1)
                                       ELSE Goto("extension", ExtensionStart)
            /\ UNCHANGED <<treeVars, roms>>
  /\ UNCHANGED <<e820, romAt>>

(* Fault: a found ROM is written over the slot taken last. *)
FillLastSlot(base, size) ==
  /\ start' = [start EXCEPT ![Rom(roms - 1)] = base]
  /\ end' = [end EXCEPT ![Rom(roms - 1)] = base + size - 1]
  /\ UNCHANGED <<parent, child, sibling, pc, root, new, prev, answer>>

FillSlot(base, size) == Tree!Describe(Rom(roms), base, size)

(* An address where an extension may begin: the next slot gets its range. *)
ProbeExtension ==
  /\ at = "extension" /\ pc = "idle"
  /\ i < MainboardRom
  /\ IF IsExtension(i)
       THEN FillSlot(i, romAt[i].length) /\ Goto("request_extension", i)
       ELSE Goto("extension", i + 1) /\ UNCHANGED treeVars
  /\ UNCHANGED <<e820, romAt, roms>>

(* Fault: the table's size is not looked at. *)
RequestExtensionUnbounded ==
  /\ at = "request_extension"
  /\ Tree!Request(iomem, Rom(roms))
  /\ roms' = roms + 1
  /\ Goto("extension", i + 1)
  /\ UNCHANGED <<e820, romAt>>

(* Fault: the last slot is left empty. *)
RequestExtensionButLast ==
  /\ at = "request_extension"
  /\ Tree!Request(iomem, Rom(roms))
  /\ roms' = roms + 1
  /\ IF roms' + 1 >= MAXROMS THEN Goto("e820", 1) ELSE Goto("extension", i + 1)
  /\ UNCHANGED <<e820, romAt>>

(* The slot is taken even if the tree refuses it; a full table is the end. *)
RequestExtension ==
  /\ at = "request_extension"
  /\ Tree!Request(iomem, Rom(roms))
  /\ roms' = roms + 1
  /\ IF roms' >= MAXROMS THEN Goto("e820", 1) ELSE Goto("extension", i + 1)
  /\ UNCHANGED <<e820, romAt>>

ProbeMainboard ==
  /\ at = "extension" /\ pc = "idle"
  /\ i = MainboardRom
  /\ IF HasSignature(i)
       THEN FillSlot(i, MainboardSize) /\ Goto("request_mainboard", 0)
       ELSE Goto("e820", 1) /\ UNCHANGED treeVars
  /\ UNCHANGED <<e820, romAt, roms>>

RequestMainboard ==
  /\ at = "request_mainboard"
  /\ Tree!Request(iomem, Rom(roms))
  /\ Goto("e820", 1)
  /\ UNCHANGED <<e820, romAt, roms>>
----------------------------------------------------------------------------
(* setup_arch *)

(* An entry that ends within 4 GB gets a resource. *)
DescribeEntry ==
  /\ at = "e820" /\ pc = "idle"
  /\ i <= Len(e820)
  /\ IF e820[i].addr + e820[i].size > WordSize
       THEN Goto("e820", i + 1) /\ UNCHANGED treeVars
       ELSE /\ Tree!Describe(Res(i), e820[i].addr % WordSize, e820[i].size)
            /\ Goto("request_entry", i)
  /\ UNCHANGED <<e820, romAt, roms>>

RequestEntry ==
  /\ at = "request_entry"
  /\ Tree!Request(iomem, Res(i))
  /\ IF e820[i].type = "RAM" THEN Goto("code", i) ELSE Goto("e820", i + 1)
  /\ UNCHANGED <<e820, romAt, roms>>

(* Whatever became of the entry, the kernel's code and data are requested  *)
(* in it: most entries do not contain them.                                *)
RequestCode ==
  /\ at = "code"
  /\ Tree!Request(Res(i), code)
  /\ Goto("data", i)
  /\ UNCHANGED <<e820, romAt, roms>>

(* Fault: the data is requested in the root. *)
RequestDataInRoot ==
  /\ at = "data"
  /\ Tree!Request(iomem, data)
  /\ Goto("e820", i + 1)
  /\ UNCHANGED <<e820, romAt, roms>>

RequestData ==
  /\ at = "data"
  /\ Tree!Request(Res(i), data)
  /\ Goto("e820", i + 1)
  /\ UNCHANGED <<e820, romAt, roms>>

RequestVram ==
  /\ at = "e820"
  /\ i > Len(e820)
  /\ Tree!Request(iomem, vram)
  /\ Goto("io", 1)
  /\ UNCHANGED <<e820, romAt, roms>>

RequestIo ==
  /\ at = "io"
  /\ Tree!Request(ioport, Io(i))
  /\ IF i < IoDevices THEN Goto("io", i + 1) ELSE Goto("done", 0)
  /\ UNCHANGED <<e820, romAt, roms>>

(* request_resource, called above, is at work. *)
InRequest ==
  /\ Tree!CheckRange \/ Tree!Insert \/ Tree!Advance \/ Tree!Refuse
  /\ UNCHANGED <<e820, romAt, at, i, roms>>

Next ==
  \/ RequestSystemRom \/ ProbeVideo \/ ProbeExtension \/ RequestExtension
  \/ ProbeMainboard \/ RequestMainboard
  \/ DescribeEntry \/ RequestEntry \/ RequestCode \/ RequestData
  \/ RequestVram \/ RequestIo
  \/ InRequest

Spec == Init /\ [][Next]_vars
----------------------------------------------------------------------------
Done == at = "done" /\ pc = "idle"

Apart(r, k) == end[r] < start[k] \/ end[k] < start[r]
Within(r, k) == start[k] <= start[r] /\ end[r] <= end[k]

(* The entries of the memory map that end within 4 GB, and the ROMs known. *)
Entries    == {j \in DOMAIN e820 : e820[j].addr + e820[j].size <= WordSize}
ListedRoms == {r \in {Rom(k) : k \in 0 .. MAXROMS - 1} : parent[r] = iomem}

(* The addresses where an extension is found. *)
Extensions == {b \in ExtensionStart .. MainboardRom - 1 : IsExtension(b)}

(* An empty entry at address 0, or at 4 GB: its resource reaches from 0 to *)
(* the last address there is, and is refused because of the system ROM.    *)
EmptyAtZero(k) == e820[k].size = 0 /\ e820[k].addr % WordSize = 0

(* RAM that holds the kernel's code and data, and that nothing else in the *)
(* memory map overlaps, is in the tree in the end, with the code and the   *)
(* data, in this order, in its list.  Both are requested in every RAM      *)
(* entry, also in one that was refused: an empty one at address 0 takes    *)
(* them too (setup.c:474-483).  They stay in the list of the RAM, but      *)
(* their parent is the last that took them.                                *)
KernelListed ==
  Done =>
    \A j \in Entries :
      /\ e820[j].type = "RAM" /\ ~EmptyAtZero(j)
      /\ Within(code, Res(j)) /\ Within(data, Res(j))
      /\ \A r \in ListedRoms \cup {Res(k) : k \in {l \in Entries \ {j} : ~EmptyAtZero(l)}} :
           Apart(Res(j), r)
      => /\ parent[Res(j)] = iomem
         /\ child[Res(j)] = code /\ sibling[code] = data /\ sibling[data] = NULL
         /\ \/ parent[code] = Res(j) /\ parent[data] = Res(j)
            \/ \E k \in Entries : k > j /\ e820[k].type = "RAM" /\ EmptyAtZero(k)

(* Whatever the memory map and the ROMs, the lists of the two roots stay   *)
(* sorted and their members apart.  request_resource relies on it that a   *)
(* resource that it has listed is not given another range and not          *)
(* requested again, and nobody checks; the kernel's code and data are      *)
(* requested again (setup.c:481, 482), but never in a root.                *)
RootsInOrder ==
  \A p \in {iomem, ioport} :
    /\ Tree!IsFirst(child[p], Tree!Children(p))
    /\ \A r \in Tree!Children(p) :
         /\ Tree!IsFirst(sibling[r], {k \in Tree!Children(p) : start[k] > start[r]})
         /\ start[r] <= end[r]
         /\ \A k \in Tree!Children(p) \ {r} : Apart(k, r)

(* Every extension that is found and overlaps no other is in the tree with *)
(* its own range, unless the table was full: no slot is used twice, and no *)
(* slot past the table is written (setup.c:278-280, 286-296), also with a  *)
(* ROM at every address.                                                   *)
ExtensionsListed ==
  /\ at \in {"extension", "request_extension", "request_mainboard"} => roms < MAXROMS
  /\ Done /\ roms < MAXROMS =>
    \A b \in Extensions :
      \/ \E k \in 1 .. MAXROMS - 1 :
           /\ parent[Rom(k)] = iomem
           /\ start[Rom(k)] = b /\ end[Rom(k)] = b + romAt[b].length - 1
      \/ \E c \in Extensions : c < b /\ c + romAt[c].length > b
      \/ b + romAt[b].length > RomsEnd
=============================================================================
