------------------------ MODULE SetupResourcesProofs ------------------------
(***************************************************************************)
(* Theorems about SetupResources, for every memory map and every set of    *)
(* ROMs.  The kernel's code and data are requested in every RAM entry and  *)
(* may move from one to another, which the proofs about the tree exclude.  *)
(* But they never come into the lists of the roots: the tree without them  *)
(* is one of Resource, and what ResourceProofs shows holds of it.  The     *)
(* invariant adds what has been asked for so far, the ranges of what has   *)
(* been described, that each request was granted or refused for a reason,  *)
(* and, apart from the tree, where the code and the data are.              *)
(***************************************************************************)
EXTENDS SetupResources, TLAPS

Kernel  == {code, data}
Holders == {Res(k) : k \in 1 .. MaxEntries}

(* The tree without the kernel's code and data, and without the requests   *)
(* for them. *)
outParent  == [r \in Resources |-> IF r \in Kernel THEN NULL ELSE parent[r]]
outChild   == [r \in Resources |-> IF r \in Holders THEN NULL ELSE child[r]]
outSibling == [r \in Resources |-> IF r \in Kernel THEN NULL ELSE sibling[r]]
outPc      == IF new \in Kernel THEN "idle" ELSE pc
outAnswer  == IF new \in Kernel THEN "none" ELSE answer

RP == INSTANCE ResourceProofs WITH
  StaticStart <- StaticStarts, StaticEnd <- StaticEnds,
  Sizes <- {MainboardSize} \cup RomSizes \cup EntrySizes,
  parent <- outParent, child <- outChild, sibling <- outSibling,
  pc <- outPc, answer <- outAnswer

(* The first slot for an extension: 2 if there is a video ROM. *)
First == IF \E b \in VideoStart .. MainboardRom - 1 : HasSignature(b) THEN 2 ELSE 1

Early == {"system_rom", "video"}
RomStage   == Early \cup {"extension", "request_extension", "request_mainboard"}
EntryStage == {"e820", "request_entry", "code", "data"}

Thread ==
  /\ at \in RomStage \cup EntryStage \cup {"io", "done"}
  /\ e820 \in E820Maps /\ romAt \in RomMaps
  /\ at \in Early => roms = 1
  /\ at \notin Early => roms \in First .. MAXROMS
  /\ at = "video" => /\ i \in VideoStart .. MainboardRom - 1
                     /\ \A b \in VideoStart .. i - 1 : ~HasSignature(b)
  /\ at \in RomStage => roms < MAXROMS
  /\ at = "extension" => i \in ExtensionStart .. MainboardRom
  /\ at = "request_extension" => i \in Extensions
  /\ at \in EntryStage => i \in 1 .. Len(e820) + 1
  /\ at \in EntryStage \ {"e820"} => i \in Entries
  /\ at \in {"code", "data"} => e820[i].type = "RAM"
  /\ at = "io" => i \in 1 .. IoDevices

(* The entries of the memory map that the thread has left, and what it has *)
(* done for the one it is at. *)
Past(k)       == at \in {"io", "done"} \/ (at \in EntryStage /\ k < i)
AtOneOf(S, k) == at \in S /\ k = i
Described(k)  == Past(k) \/ AtOneOf({"request_entry", "code", "data"}, k)
EntryAsked(k) == Past(k) \/ AtOneOf({"code", "data"}, k)
CodeAsked(k)  == Past(k) \/ AtOneOf({"data"}, k)

RomAsked(k) ==
  /\ at # "system_rom"
  /\ k < roms \/ (k = roms /\ at \notin RomStage)

(* The requests there have been, those for the kernel left out. *)
MayHang(n, p) ==
  \/ p = iomem /\ \E k \in 0 .. MAXROMS - 1 : n = Rom(k) /\ RomAsked(k)
  \/ p = iomem /\ \E k \in Entries : n = Res(k) /\ EntryAsked(k)
  \/ p = iomem /\ n = vram /\ at \in {"io", "done"}
  \/ p = ioport /\ \E k \in 1 .. IoDevices : n = Io(k) /\ (at = "done" \/ (at = "io" /\ k < i))

Requests ==
  /\ \A r \in Resources : outParent[r] # NULL => MayHang(r, outParent[r])
  /\ outPc # "idle" => MayHang(new, root)

HasRange(r, from, size) == start[r] = from /\ end[r] = (from + size - 1) % WordSize
IsStatic(r) == start[r] = Static[r].start /\ end[r] = Static[r].end

Ranges ==
  /\ \A r \in {iomem, code, data, Rom(0)} : IsStatic(r)
  /\ at \in Early \/ First = 2 => IsStatic(Rom(1))
  /\ \A k \in Entries :
       Described(k) => HasRange(Res(k), e820[k].addr % WordSize, e820[k].size)

(* The slots filled with extensions, in rising order. *)
Filled == IF at \in Early THEN {}
          ELSE First .. (IF at = "request_extension" THEN roms ELSE roms - 1)

Slots ==
  /\ \A k \in Filled :
       /\ start[Rom(k)] \in Extensions
       /\ HasRange(Rom(k), start[Rom(k)], romAt[start[Rom(k)]].length)
       /\ at = "extension" => start[Rom(k)] < i
       /\ at = "request_extension" => (IF k = roms THEN start[Rom(k)] = i ELSE start[Rom(k)] < i)
       /\ \A l \in First .. k - 1 : start[Rom(l)] < start[Rom(k)]
  /\ (at \notin Early /\ roms < MAXROMS) =>
       \A b \in Extensions :
         \/ at \in {"extension", "request_extension"} /\ b >= i
         \/ \E k \in First .. roms - 1 : start[Rom(k)] = b

(* A request of n within p: granted, or refused as it has to be, or being  *)
(* worked on.  S holds what may have been in p before. *)
Claim(p, n, S) ==
  \/ outParent[n] = p
  \/ Tree!OutOfRange(p, n)
  \/ \E c \in S : outParent[c] = p /\ ~Apart(c, n)
  \/ /\ outPc # "idle" /\ root = p /\ new = n
     /\ \A r \in Resources : outParent[r] = p => r \in S

RomsBelow(k)   == {Rom(l) : l \in 0 .. k - 1}
BeforeEntry(k) == RomsBelow(MAXROMS) \cup {Res(l) : l \in 1 .. k - 1}

RomClaims ==
  /\ at # "system_rom" => Claim(iomem, Rom(0), {})
  /\ \A k \in First .. roms - 1 : at \notin Early => Claim(iomem, Rom(k), RomsBelow(k))

EntryClaims ==
  \A k \in Entries : EntryAsked(k) => Claim(iomem, Res(k), BeforeEntry(k))

SInv == Thread /\ Requests /\ Ranges /\ Slots /\ RomClaims /\ EntryClaims

(* A RAM entry that has taken the kernel's code or data: it was asked for, *)
(* the request is over, and the range was there.                           *)
Takes(k, r)   == ~Tree!OutOfRange(Res(k), r)
Settled(k, r) ==
  /\ IF r = code THEN CodeAsked(k) ELSE Past(k)
  /\ ~(pc # "idle" /\ root = Res(k) /\ new = r)
Has(k, r) == k \in Entries /\ e820[k].type = "RAM" /\ Settled(k, r) /\ Takes(k, r)

Pointers ==
  /\ parent \in [Resources -> Resources \cup {NULL}]
  /\ child \in [Resources -> Resources \cup {NULL}]
  /\ sibling \in [Resources -> Resources \cup {NULL}]

(* The request for code or data in the entry k.  The walk begins at the    *)
(* entry's own list: there is nothing, or, for the data, the code.         *)
InEntry(k, r) ==
  /\ k \in Entries /\ e820[k].type = "RAM" /\ root = Res(k)
  /\ IF r = code THEN at = "data" /\ i = k ELSE at = "e820" /\ i = k + 1
  /\ prev = NULL \/ (r = data /\ prev = code /\ pc = "walk" /\ Has(k, code))
  /\ pc = "walk" => Takes(k, r)

Detour == pc # "idle" /\ new \in Kernel => \E k \in Entries : InEntry(k, new)

(* Each entry lists what it has taken, the code first. *)
Lists ==
  \A k \in 1 .. MaxEntries :
    child[Res(k)] = IF Has(k, code) THEN code ELSE IF Has(k, data) THEN data ELSE NULL

(* The parent is the last entry that has taken it. *)
Owners ==
  \A r \in Kernel :
    \/ parent[r] = NULL /\ \A k \in Entries : ~Has(k, r)
    \/ \E k \in Entries : /\ parent[r] = Res(k) /\ Has(k, r)
                          /\ \A l \in Entries : Has(l, r) => l <= k

(* The entry that has just taken the code, and has not been asked for the  *)
(* data yet, or not to the end. *)
Half(k) == Has(k, code) /\ ~Settled(k, data)

(* Where each RAM entry holds both or none of them. *)
Whole == \A k \in Entries : e820[k].type = "RAM" /\ EntryAsked(k) => (Takes(k, code) <=> Takes(k, data))

(* The data follows the code, except while both are linked anew. *)
Follows ==
  /\ sibling[data] = NULL
  /\ sibling[code] \in {NULL, data}
  /\ \A k \in Entries : Half(k) => sibling[code] = NULL
  /\ Whole /\ (\E k \in Entries : Has(k, data)) =>
       sibling[code] = data \/ \E k \in Entries : Half(k)

KInv == Pointers /\ Detour /\ Lists /\ Owners /\ Follows

Inv == SInv /\ KInv /\ RP!IInv
----------------------------------------------------------------------------
(* The resources are what they are called. *)
LEMMA Names ==
  /\ \A k, l : (Rom(k) = Rom(l) => k = l) /\ (Res(k) = Res(l) => k = l) /\ (Io(k) = Io(l) => k = l)
  /\ \A k, l : Rom(k) # Res(l) /\ Rom(k) # Io(l) /\ Res(k) # Io(l)
  /\ \A k : \A r \in {iomem, ioport, code, data, vram} : r # Rom(k) /\ r # Res(k) /\ r # Io(k)
  /\ iomem # ioport /\ iomem # code /\ iomem # data /\ iomem # vram
  /\ ioport # code /\ ioport # data /\ ioport # vram
  /\ code # data /\ code # vram /\ data # vram
BY DEF Rom, Res, Io, iomem, ioport, code, data, vram

LEMMA Members ==
  /\ {iomem, ioport, code, data, vram} \subseteq Resources
  /\ \A k \in 0 .. MAXROMS - 1 : Rom(k) \in Resources
  /\ \A k \in 1 .. MaxEntries : Res(k) \in Resources
  /\ \A k \in 1 .. IoDevices : Io(k) \in Resources
  /\ NULL \notin Resources
BY SetupAssumption DEF Resources

LEMMA Parts ==
  /\ Kernel \subseteq Resources /\ Holders \subseteq Resources /\ code # data
  /\ \A r \in {iomem, ioport, vram} : r \notin Kernel /\ r \notin Holders
  /\ \A k : /\ Rom(k) \notin Kernel /\ Rom(k) \notin Holders
            /\ Io(k) \notin Kernel /\ Io(k) \notin Holders
            /\ Res(k) \notin Kernel
  /\ \A r \in Kernel : r \notin Holders
BY Names, Members DEF Kernel, Holders

LEMMA Numbers ==
  /\ MAXROMS \in Nat /\ MAXROMS >= 3 /\ WordSize \in Nat \ {0}
  /\ VideoStart \in Nat /\ VideoEnd \in Nat /\ ExtensionStart \in Nat /\ MainboardRom \in Nat
  /\ RomsEnd \in Nat /\ MainboardSize \in Nat
  /\ VideoStart < VideoEnd /\ VideoEnd <= ExtensionStart
  /\ ExtensionStart < MainboardRom /\ MainboardRom < RomsEnd /\ RomsEnd <= WordSize
  /\ MaxEntries = 4 /\ IoDevices = 2
BY SetupAssumption DEF MaxEntries, IoDevices

LEMMA Statics ==
  /\ \A r \in Resources : StaticStarts[r] \in Addr /\ StaticEnds[r] \in Addr
  /\ StaticStarts \in [Resources -> Addr] /\ StaticEnds \in [Resources -> Addr]
<1>1. 0 \in Addr
  BY Numbers DEF Addr
<1>2. \A r \in DOMAIN Static : Static[r].start \in Addr /\ Static[r].end \in Addr
  BY SetupAssumption
<1>3. \A r : StaticRange(r).start \in Addr /\ StaticRange(r).end \in Addr
  BY <1>1, <1>2 DEF StaticRange
<1> QED BY <1>3 DEF StaticStarts, StaticEnds

LEMMA SizesKnown ==
  /\ RomSizes \subseteq Nat /\ EntrySizes \subseteq Nat
  /\ \A n \in RomMaps, b \in VideoStart .. MainboardRom :
       n[b] # NULL => n[b].length \in RomSizes
  /\ \A m \in E820Maps : \A k \in DOMAIN m : m[k].size \in EntrySizes
BY SetupAssumption DEF RomSizes, EntrySizes

LEMMA TreeAssumed == RP!ResourceAssumption
<1>1. RP!Addr = Addr
  BY DEF RP!Addr, Addr
<1>2. {MainboardSize} \cup RomSizes \cup EntrySizes \subseteq Nat
  BY Numbers, SizesKnown
<1> QED BY <1>1, <1>2, Members, Numbers, Statics DEF RP!ResourceAssumption

LEMMA EntryFacts ==
  ASSUME Thread
  PROVE  /\ Len(e820) \in 0 .. MaxEntries /\ DOMAIN e820 = 1 .. Len(e820)
         /\ Entries \subseteq 1 .. Len(e820) /\ Entries \subseteq 1 .. MaxEntries
         /\ \A k \in 1 .. Len(e820) :
              /\ e820[k].addr \in Nat /\ e820[k].size \in EntrySizes /\ e820[k].size \in Nat
              /\ e820[k].addr % WordSize \in Addr
              /\ k \in Entries <=> ~(e820[k].addr + e820[k].size > WordSize)
         /\ \A k \in Entries : Res(k) \in Resources
<1>1. /\ Len(e820) \in 0 .. MaxEntries /\ DOMAIN e820 = 1 .. Len(e820)
      /\ \A k \in DOMAIN e820 : e820[k].addr \in Nat /\ e820[k].size \in Nat
  BY SetupAssumption DEF Thread
<1>2. \A k \in DOMAIN e820 : e820[k].size \in EntrySizes
  BY SizesKnown DEF Thread
<1>3. \A x \in Nat : x % WordSize \in Addr
  BY Numbers DEF Addr
<1>4. \A k \in 1 .. Len(e820) : k \in Entries <=> ~(e820[k].addr + e820[k].size > WordSize)
  BY <1>1, Numbers DEF Entries
<1>5. Entries \subseteq 1 .. Len(e820) /\ Entries \subseteq 1 .. MaxEntries
  BY <1>1, Numbers DEF Entries
<1> QED BY <1>1, <1>2, <1>3, <1>4, <1>5, Members

LEMMA RomFacts ==
  ASSUME Thread
  PROVE  /\ First \in {1, 2} /\ roms \in Nat /\ roms >= 1
         /\ at \in RomStage => roms \in 1 .. MAXROMS - 1 /\ Rom(roms) \in Resources
         /\ Rom(0) \in Resources /\ Rom(1) \in Resources
         /\ Extensions \subseteq ExtensionStart .. MainboardRom - 1
         /\ \A b \in Extensions : /\ b \in Nat /\ b \in Addr /\ b >= ExtensionStart /\ b < MainboardRom
                                  /\ romAt[b].length \in Nat \ {0} /\ romAt[b].length \in RomSizes
         /\ MainboardRom \in Addr
<1>1. First \in {1, 2} /\ roms \in Nat /\ roms >= 1
  BY Numbers DEF Thread, First
<1>2. at \in RomStage => roms \in 1 .. MAXROMS - 1 /\ Rom(roms) \in Resources
  BY <1>1, Numbers, Members DEF Thread
<1>3. 0 \in 0 .. MAXROMS - 1 /\ 1 \in 0 .. MAXROMS - 1
  BY Numbers
<1>4. Extensions \subseteq ExtensionStart .. MainboardRom - 1
  BY DEF Extensions
<1>5. ASSUME NEW b \in Extensions
      PROVE  /\ b \in Nat /\ b \in Addr /\ b >= ExtensionStart /\ b < MainboardRom
             /\ romAt[b].length \in Nat \ {0} /\ romAt[b].length \in RomSizes
  <2>1. b \in Nat /\ b >= ExtensionStart /\ b < MainboardRom /\ b \in VideoStart .. MainboardRom
    BY <1>4, Numbers
  <2>2. romAt[b] # NULL /\ romAt[b].length > 0
    BY DEF Extensions, IsExtension, HasSignature
  <2>3. romAt[b].length \in Nat /\ romAt[b].length \in RomSizes
    BY <2>1, <2>2, SetupAssumption, SizesKnown DEF Thread
  <2> QED BY <2>1, <2>2, <2>3, Numbers DEF Addr
<1>6. MainboardRom \in Addr
  BY Numbers DEF Addr
<1> QED BY <1>1, <1>2, <1>3, <1>4, <1>5, <1>6, Members

(* What a request outside of the RAM entries asks for is known.            *)
Asked(p, n) ==
  \/ /\ p = iomem
     /\ \/ at = "system_rom" /\ n = Rom(0)
        \/ at \in {"video", "request_extension", "request_mainboard"} /\ n = Rom(roms)
        \/ at = "request_entry" /\ n = Res(i)
        \/ at = "e820" /\ i > Len(e820) /\ n = vram
  \/ p = ioport /\ at = "io" /\ n = Io(i)

LEMMA AskedKnown ==
  ASSUME Thread, NEW p, NEW n, Asked(p, n)
  PROVE  p \in {iomem, ioport} /\ p \in Resources /\ n \in Resources /\ n \notin Kernel /\ p # n
<1>1. /\ at \in {"video", "request_extension", "request_mainboard"} => Rom(roms) \in Resources
      /\ Rom(0) \in Resources
  BY RomFacts DEF RomStage, Early
<1>2. at = "request_entry" => Res(i) \in Resources
  BY EntryFacts DEF Thread, EntryStage
<1>3. at = "io" => Io(i) \in Resources
  BY Members DEF Thread
<1> QED BY <1>1, <1>2, <1>3, Members, Names, Parts DEF Asked

LEMMA Steps ==
  ASSUME Thread, [Next]_vars
  PROVE  \/ UNCHANGED treeVars
         \/ \E p, n \in Resources : Asked(p, n) /\ Tree!Request(p, n)
         \/ \E n \in Kernel : /\ at \in {"code", "data"} /\ i \in Entries
                              /\ Tree!Request(Res(i), n)
         \/ /\ at = "extension" /\ i \in Extensions /\ romAt[i].length \in RomSizes
            /\ FillSlot(i, romAt[i].length)
         \/ /\ at = "extension" /\ i = MainboardRom
            /\ FillSlot(i, MainboardSize)
         \/ /\ at = "e820" /\ i \in Entries /\ at' = "request_entry" /\ i' = i
            /\ Tree!Describe(Res(i), e820[i].addr % WordSize, e820[i].size)
         \/ InRequest
<1>1. CASE UNCHANGED vars
  BY <1>1 DEF vars
<1>2. CASE RequestSystemRom \/ RequestExtension \/ RequestMainboard \/ RequestEntry
           \/ RequestVram \/ RequestIo
  <2>1. \E p, n : Asked(p, n) /\ Tree!Request(p, n)
    BY <1>2 DEF Asked, RequestSystemRom, RequestExtension, RequestMainboard, RequestEntry,
         RequestVram, RequestIo
  <2> QED BY <2>1, AskedKnown
<1>8. CASE RequestCode \/ RequestData
  BY <1>8 DEF RequestCode, RequestData, Kernel, Thread, EntryStage
<1>3. CASE ProbeVideo
  <2>1. CASE HasSignature(i)
    <3>1. Asked(iomem, Rom(roms)) /\ Tree!Request(iomem, Rom(roms))
      BY <1>3, <2>1 DEF ProbeVideo, Asked
    <3> QED BY <3>1, AskedKnown
  <2>2. CASE ~HasSignature(i)
    BY <1>3, <2>2 DEF ProbeVideo
  <2> QED BY <2>1, <2>2
<1>4. CASE ProbeExtension
  <2>1. CASE IsExtension(i)
    <3>1. i \in Extensions
      BY <1>4, <2>1, Numbers DEF ProbeExtension, Thread, Extensions
    <3> QED BY <1>4, <2>1, <3>1, RomFacts DEF ProbeExtension
  <2>2. CASE ~IsExtension(i)
    BY <1>4, <2>2 DEF ProbeExtension
  <2> QED BY <2>1, <2>2
<1>5. CASE ProbeMainboard
  BY <1>5 DEF ProbeMainboard
<1>6. CASE DescribeEntry
  <2>1. i \in 1 .. Len(e820)
    BY <1>6, EntryFacts DEF DescribeEntry, Thread, EntryStage
  <2>2. CASE e820[i].addr + e820[i].size > WordSize
    BY <1>6, <2>2 DEF DescribeEntry
  <2>3. CASE ~(e820[i].addr + e820[i].size > WordSize)
    BY <1>6, <2>1, <2>3, EntryFacts DEF DescribeEntry, Goto
  <2> QED BY <2>2, <2>3
<1>7. CASE InRequest
  BY <1>7
<1> QED BY <1>1, <1>2, <1>3, <1>4, <1>5, <1>6, <1>7, <1>8 DEF Next

LEMMA ThreadInit == Init => Thread
BY Numbers DEF Init, Thread, RomStage, EntryStage, Early

LEMMA SameMachine ==
  ASSUME e820' = e820, romAt' = romAt
  PROVE  /\ First' = First /\ Entries' = Entries /\ Extensions' = Extensions
         /\ \A b : HasSignature(b)' <=> HasSignature(b)
BY DEF First, Entries, Extensions, HasSignature, IsExtension

LEMMA Machine ==
  ASSUME [Next]_vars
  PROVE  e820' = e820 /\ romAt' = romAt
BY DEF Next, vars, RequestSystemRom, ProbeVideo, ProbeExtension, RequestExtension,
       ProbeMainboard, RequestMainboard, DescribeEntry, RequestEntry, RequestCode,
       RequestData, RequestVram, RequestIo, InRequest

LEMMA ThreadNext ==
  ASSUME Thread, [Next]_vars
  PROVE  Thread'
<1>1. /\ e820' = e820 /\ romAt' = romAt
      /\ First' = First /\ Entries' = Entries /\ Extensions' = Extensions
      /\ \A b : HasSignature(b)' <=> HasSignature(b)
  BY Machine, SameMachine
<1>2. /\ e820 \in E820Maps /\ romAt \in RomMaps
      /\ at \in RomStage \cup EntryStage \cup {"io", "done"}
      /\ Len(e820) \in Nat
  BY EntryFacts DEF Thread
<1>3. First \in {1, 2} /\ roms \in Nat /\ roms >= 1
  BY RomFacts
<1>4. CASE UNCHANGED <<at, i, roms>>
  BY <1>1, <1>4 DEF Thread
<1>5. CASE RequestSystemRom
  <2>1. at' = "video" /\ i' = VideoStart /\ roms' = 1
    BY <1>5 DEF RequestSystemRom, Goto, Thread, Early
  <2>2. VideoStart \in VideoStart .. MainboardRom - 1 /\ VideoStart .. VideoStart - 1 = {} /\ 1 < MAXROMS
    BY Numbers
  <2> QED BY <1>1, <1>2, <2>1, <2>2 DEF Thread, RomStage, EntryStage, Early
<1>6. CASE ProbeVideo
  <2>1. /\ i \in VideoStart .. MainboardRom - 1 /\ roms = 1
        /\ \A b \in VideoStart .. i - 1 : ~HasSignature(b)
    BY <1>6 DEF ProbeVideo, Thread, Early
  <2>2. ExtensionStart \in ExtensionStart .. MainboardRom
    BY Numbers
  <2>3. CASE HasSignature(i)
    <3>1. at' = "extension" /\ i' = ExtensionStart /\ roms' = 2
      BY <1>6, <2>1, <2>3 DEF ProbeVideo, Goto
    <3>2. First = 2
      BY <2>1, <2>3 DEF First
    <3> QED BY <1>1, <1>2, <2>2, <3>1, <3>2, Numbers DEF Thread, RomStage, EntryStage, Early
  <2>4. CASE ~HasSignature(i) /\ i + 1 < MainboardRom
    <3>1. at' = "video" /\ i' = i + 1 /\ roms' = 1
      BY <1>6, <2>1, <2>4 DEF ProbeVideo, Goto
    <3>2. i' \in VideoStart .. MainboardRom - 1 /\ \A b \in VideoStart .. i' - 1 : ~HasSignature(b)
      BY <2>1, <2>4, <3>1, Numbers
    <3> QED BY <1>1, <1>2, <3>1, <3>2, Numbers DEF Thread, RomStage, EntryStage, Early
  <2>5. CASE ~HasSignature(i) /\ ~(i + 1 < MainboardRom)
    <3>1. at' = "extension" /\ i' = ExtensionStart /\ roms' = 1
      BY <1>6, <2>1, <2>5 DEF ProbeVideo, Goto
    <3>2. \A b \in VideoStart .. MainboardRom - 1 : ~HasSignature(b)
      BY <2>1, <2>5, Numbers
    <3>3. First = 1
      BY <3>2 DEF First
    <3> QED BY <1>1, <1>2, <2>2, <3>1, <3>3, Numbers DEF Thread, RomStage, EntryStage, Early
  <2> QED BY <2>3, <2>4, <2>5
<1>7. CASE ProbeExtension
  <2>1. /\ at = "extension" /\ i \in ExtensionStart .. MainboardRom - 1
        /\ roms' = roms /\ roms < MAXROMS /\ roms \in First .. MAXROMS
    BY <1>7, Numbers DEF ProbeExtension, Thread, RomStage, Early
  <2>2. CASE IsExtension(i)
    <3>1. at' = "request_extension" /\ i' = i /\ i \in Extensions
      BY <1>7, <2>1, <2>2 DEF ProbeExtension, Goto, Extensions
    <3> QED BY <1>1, <1>2, <2>1, <3>1 DEF Thread, RomStage, EntryStage, Early
  <2>3. CASE ~IsExtension(i)
    <3>1. at' = "extension" /\ i' = i + 1 /\ i + 1 \in ExtensionStart .. MainboardRom
      BY <1>7, <2>1, <2>3, Numbers DEF ProbeExtension, Goto
    <3> QED BY <1>1, <1>2, <2>1, <3>1 DEF Thread, RomStage, EntryStage, Early
  <2> QED BY <2>2, <2>3
<1>8. CASE RequestExtension
  <2>1. /\ at = "request_extension" /\ i \in ExtensionStart .. MainboardRom - 1
        /\ roms' = roms + 1 /\ roms < MAXROMS /\ roms \in First .. MAXROMS
    BY <1>8, Numbers DEF RequestExtension, Thread, RomStage, Early, Extensions
  <2>2. roms' \in First .. MAXROMS
    BY <1>3, <2>1, Numbers
  <2>3. CASE roms' >= MAXROMS
    <3>1. at' = "e820" /\ i' = 1 /\ 1 \in 1 .. Len(e820) + 1
      BY <1>2, <1>8, <2>3 DEF RequestExtension, Goto
    <3> QED BY <1>1, <1>2, <2>2, <3>1 DEF Thread, RomStage, EntryStage, Early
  <2>4. CASE ~(roms' >= MAXROMS)
    <3>1. /\ at' = "extension" /\ i' = i + 1 /\ i + 1 \in ExtensionStart .. MainboardRom
          /\ roms' < MAXROMS
      BY <1>3, <1>8, <2>1, <2>4, Numbers DEF RequestExtension, Goto
    <3> QED BY <1>1, <1>2, <2>2, <3>1 DEF Thread, RomStage, EntryStage, Early
  <2> QED BY <2>3, <2>4
<1>9. CASE ProbeMainboard
  <2>1. at = "extension" /\ roms' = roms /\ roms < MAXROMS /\ roms \in First .. MAXROMS
    BY <1>9 DEF ProbeMainboard, Thread, RomStage, Early
  <2>2. (at' = "request_mainboard" /\ i' = 0) \/ (at' = "e820" /\ i' = 1)
    BY <1>9 DEF ProbeMainboard, Goto
  <2>3. 1 \in 1 .. Len(e820) + 1
    BY <1>2
  <2> QED BY <1>1, <1>2, <2>1, <2>2, <2>3 DEF Thread, RomStage, EntryStage, Early
<1>10. CASE RequestMainboard
  <2>1. at = "request_mainboard" /\ roms' = roms /\ roms \in First .. MAXROMS
    BY <1>10 DEF RequestMainboard, Thread, RomStage, Early
  <2>2. at' = "e820" /\ i' = 1 /\ 1 \in 1 .. Len(e820) + 1
    BY <1>2, <1>10 DEF RequestMainboard, Goto
  <2> QED BY <1>1, <1>2, <2>1, <2>2 DEF Thread, RomStage, EntryStage, Early
<1>11. CASE DescribeEntry \/ RequestEntry \/ RequestCode \/ RequestData
  <2>1. /\ at \in EntryStage /\ i \in 1 .. Len(e820) /\ roms' = roms /\ roms \in First .. MAXROMS
        /\ at # "e820" => i \in Entries
    BY <1>2, <1>11, EntryFacts
       DEF DescribeEntry, RequestEntry, RequestCode, RequestData, Thread, RomStage, EntryStage, Early
  <2>2. \/ at' = "e820" /\ i' = i + 1
        \/ at' = "request_entry" /\ i' = i /\ i \in Entries
        \/ at' = "code" /\ i' = i /\ i \in Entries /\ e820[i].type = "RAM"
        \/ at' = "data" /\ i' = i /\ i \in Entries /\ e820[i].type = "RAM"
    BY <1>11, <2>1, EntryFacts
       DEF DescribeEntry, RequestEntry, RequestCode, RequestData, Goto, Thread, EntryStage
  <2>3. i + 1 \in 1 .. Len(e820) + 1 /\ i \in 1 .. Len(e820) + 1
    BY <1>2, <2>1
  <2> QED BY <1>1, <1>2, <2>1, <2>2, <2>3 DEF Thread, RomStage, EntryStage, Early
<1>12. CASE RequestVram \/ RequestIo
  <2>1. at \notin RomStage /\ roms' = roms /\ roms \in First .. MAXROMS
    BY <1>12 DEF RequestVram, RequestIo, Thread, RomStage, Early
  <2>2. (at' = "io" /\ i' \in 1 .. IoDevices) \/ at' = "done"
    BY <1>12, Numbers DEF RequestVram, RequestIo, Goto, Thread
  <2> QED BY <1>1, <1>2, <2>1, <2>2 DEF Thread, RomStage, EntryStage, Early
<1> QED BY <1>4, <1>5, <1>6, <1>7, <1>8, <1>9, <1>10, <1>11, <1>12 DEF Next, InRequest, vars

----------------------------------------------------------------------------
(* The roots and what is in them are the same without the kernel.          *)
LEMMA Seen ==
  /\ \A r \in Resources : /\ outParent[r] = IF r \in Kernel THEN NULL ELSE parent[r]
                          /\ outChild[r] = IF r \in Holders THEN NULL ELSE child[r]
                          /\ outSibling[r] = IF r \in Kernel THEN NULL ELSE sibling[r]
  /\ new \notin Kernel => outPc = pc /\ outAnswer = answer
  /\ new \in Kernel => outPc = "idle" /\ outAnswer = "none"
BY DEF outParent, outChild, outSibling, outPc, outAnswer

LEMMA TreeTypes ==
  ASSUME RP!IInv
  PROVE  /\ \A r \in Resources : start[r] \in Nat /\ end[r] \in Nat
         /\ \A r \in Resources : start[r] \in Addr /\ end[r] \in Addr
         /\ start \in [Resources -> Addr] /\ end \in [Resources -> Addr]
         /\ DOMAIN outParent = Resources
<1>1. RP!Addr = Addr /\ Addr \subseteq Nat
  BY Numbers DEF RP!Addr, Addr
<1>2. start \in [Resources -> Addr] /\ end \in [Resources -> Addr] /\ DOMAIN outParent = Resources
  BY <1>1 DEF RP!IInv, RP!Types
<1> QED BY <1>1, <1>2

(* A resource is loose if it is in none and none is in it. *)
LEMMA LooseMeans ==
  ASSUME RP!IInv, NEW r \in Resources
  PROVE  RP!Loose(r) <=> outParent[r] = NULL /\ \A c \in Resources : outParent[c] # r
<1>1. ASSUME RP!Loose(r) PROVE outParent[r] = NULL /\ \A c \in Resources : outParent[c] # r
  <2>1. RP!Children(r) = {}
    BY <1>1, TreeAssumed, RP!LooseChildless
  <2> QED BY <1>1, <2>1 DEF RP!Loose, RP!Children
<1>2. ASSUME outParent[r] = NULL, \A c \in Resources : outParent[c] # r PROVE RP!Loose(r)
  <2>1. RP!Children(r) = {}
    BY <1>2 DEF RP!Children
  <2>2. RP!IsFirst(outChild[r], RP!Children(r))
    BY DEF RP!IInv, RP!SiblingsInOrder
  <2> QED BY <1>2, <2>1, <2>2 DEF RP!Loose, RP!IsFirst
<1> QED BY <1>1, <1>2

(* What has not been requested is in no list. *)
LEMMA NotHanging ==
  ASSUME Requests, RP!IInv, NEW r \in Resources, \A q : ~MayHang(r, q) /\ ~MayHang(q, r)
  PROVE  RP!Loose(r)
<1>1. outParent[r] = NULL
  BY DEF Requests
<1>2. \A c \in Resources : outParent[c] # r
  BY Members DEF Requests
<1> QED BY <1>1, <1>2, LooseMeans

(* The tree relies on it that what is described or requested is in no     *)
(* list; the callers see to it. *)
LEMMA DescribedLoose ==
  ASSUME Thread, Requests, RP!IInv
  PROVE  /\ at \in RomStage \ {"system_rom"} => Rom(roms) \in Resources /\ RP!Loose(Rom(roms))
         /\ at \in {"e820", "request_entry"} /\ i \in Entries => RP!Loose(Res(i))
<1>1. ASSUME at \in RomStage \ {"system_rom"}
      PROVE  Rom(roms) \in Resources /\ RP!Loose(Rom(roms))
  <2>1. roms \in Nat /\ Rom(roms) \in Resources
    BY <1>1, RomFacts
  <2>2. \A q : ~MayHang(Rom(roms), q) /\ ~MayHang(q, Rom(roms))
    BY <1>1, <2>1, Names DEF MayHang, RomAsked
  <2> QED BY <2>1, <2>2, NotHanging
<1>2. ASSUME at \in {"e820", "request_entry"}, i \in Entries
      PROVE  RP!Loose(Res(i))
  <2>1. Res(i) \in Resources /\ i \in Nat
    BY <1>2, EntryFacts
  <2>2. ~EntryAsked(i)
    BY <1>2, <2>1 DEF EntryAsked, Past, AtOneOf, EntryStage
  <2>3. \A q : ~MayHang(Res(i), q) /\ ~MayHang(q, Res(i))
    BY <2>2, Names DEF MayHang
  <2> QED BY <2>1, <2>3, NotHanging
<1> QED BY <1>1, <1>2

LEMMA AskedLoose ==
  ASSUME Thread, Requests, RP!IInv, NEW p, NEW n, Asked(p, n)
  PROVE  RP!Loose(n)
<1>1. CASE at = "system_rom" /\ n = Rom(0)
  <2>1. \A q : ~MayHang(Rom(0), q) /\ ~MayHang(q, Rom(0))
    BY <1>1, Names DEF MayHang, RomAsked
  <2> QED BY <1>1, <2>1, NotHanging, RomFacts
<1>2. CASE at \in {"video", "request_extension", "request_mainboard"} /\ n = Rom(roms)
  BY <1>2, DescribedLoose DEF RomStage, Early
<1>3. CASE at = "request_entry" /\ n = Res(i)
  BY <1>3, DescribedLoose DEF Thread, EntryStage
<1>4. CASE at = "e820" /\ n = vram
  <2>1. \A q : ~MayHang(vram, q) /\ ~MayHang(q, vram)
    BY <1>4, Names DEF MayHang
  <2> QED BY <1>4, <2>1, NotHanging, Members
<1>5. CASE at = "io" /\ n = Io(i)
  <2>1. Io(i) \in Resources /\ i \in Nat
    BY <1>5, Members DEF Thread
  <2>2. \A q : ~MayHang(Io(i), q) /\ ~MayHang(q, Io(i))
    BY <1>5, <2>1, Names DEF MayHang
  <2> QED BY <1>5, <2>1, <2>2, NotHanging
<1> QED BY <1>1, <1>2, <1>3, <1>4, <1>5 DEF Asked

(* A request for the code or the data, and its work, is not seen without   *)
(* them. *)
Quiet ==
  /\ UNCHANGED <<start, end, outParent, outChild, outSibling>>
  /\ \/ UNCHANGED <<outPc, root, new, prev, outAnswer>>
     \/ outPc = "idle" /\ outPc' = "idle" /\ outAnswer' = "none"

LEMMA QuietRequest ==
  ASSUME NEW p, NEW n \in Kernel, Tree!Request(p, n)
  PROVE  Quiet
<1>1. new' \in Kernel /\ pc = "idle" /\ UNCHANGED <<start, end, parent, child, sibling>>
  BY DEF Tree!Request, Tree!links
<1> QED BY <1>1 DEF Quiet, outParent, outChild, outSibling, outPc, outAnswer

LEMMA QuietWork ==
  ASSUME Thread, Detour, Pointers, InRequest, new \in Kernel
  PROVE  Quiet
<1>1. pc # "idle" /\ new' = new /\ UNCHANGED <<start, end>>
  BY DEF InRequest, Tree!CheckRange, Tree!Insert, Tree!Advance, Tree!Refuse
<1>2. root \in Holders /\ (prev = NULL \/ prev \in Kernel) /\ NULL \notin Resources
  <2>1. PICK k \in Entries : InEntry(k, new)
    BY <1>1 DEF Detour
  <2> QED BY <2>1, EntryFacts, Members DEF InEntry, Holders, Kernel
<1>3. CASE UNCHANGED <<parent, child, sibling>>
  BY <1>1, <1>3 DEF Quiet, outParent, outChild, outSibling, outPc, outAnswer
<1>4. CASE Tree!Insert
  <2>1. \A r \in Resources \ Kernel : sibling'[r] = sibling[r] /\ parent'[r] = parent[r]
    BY <1>2, <1>4, Members DEF Tree!Insert, Pointers
  <2>2. \A r \in Resources \ Holders : child'[r] = child[r]
    BY <1>2, <1>4 DEF Tree!Insert, Pointers
  <2> QED BY <1>1, <2>1, <2>2 DEF Quiet, outParent, outChild, outSibling, outPc, outAnswer
<1> QED BY <1>3, <1>4 DEF InRequest, Tree!CheckRange, Tree!Advance, Tree!Refuse, Tree!links

(* Any other work is work on the tree without the kernel. *)
LEMMA OuterWork ==
  ASSUME Requests, Pointers, RP!IInv, InRequest, new \notin Kernel
  PROVE  /\ outPc # "idle" /\ root \in Resources /\ new \in Resources
         /\ UNCHANGED <<start, end, root, new>>
         /\ Tree!CheckRange => RP!CheckRange
         /\ Tree!Insert => RP!Insert /\ outPc = "walk"
         /\ Tree!Advance => RP!Advance /\ outPc = "walk"
         /\ Tree!Refuse => RP!Refuse /\ outPc = "walk"
<1>1. /\ pc # "idle" /\ new' = new /\ root' = root /\ UNCHANGED <<start, end>>
      /\ Tree!CheckRange => pc = "check"
      /\ Tree!Insert \/ Tree!Advance \/ Tree!Refuse => pc = "walk"
  BY DEF InRequest, Tree!CheckRange, Tree!Insert, Tree!Advance, Tree!Refuse
<1>2. outPc = pc /\ outPc' = pc' /\ outAnswer = answer /\ outAnswer' = answer'
  BY <1>1 DEF outPc, outAnswer
<1>3. root \in {iomem, ioport} /\ root \notin Holders /\ root \in Resources
  BY <1>1, <1>2, Parts, Members DEF Requests, MayHang
<1>4. new \in Resources /\ NULL \notin Resources
  BY <1>1, <1>2, Members DEF RP!IInv, RP!Call
<1>5. pc = "walk" /\ prev # NULL => prev \in Resources /\ prev \notin Kernel
  <2> SUFFICES ASSUME pc = "walk", prev # NULL PROVE prev \in Resources /\ prev \notin Kernel
    OBVIOUS
  <2>1. prev \in RP!Children(root)
    BY <1>2 DEF RP!IInv, RP!Call
  <2>2. prev \in Resources /\ outParent[prev] = root
    BY <2>1 DEF RP!Children
  <2> QED BY <1>3, <1>4, <2>2, Seen
<1>6. pc = "walk" => RP!tmp = Tree!tmp
  BY <1>3, <1>5, Seen DEF RP!tmp, Tree!tmp
<1>7. pc = "walk" => /\ RP!EndsBefore <=> Tree!EndsBefore
                     /\ RP!LiesBefore <=> Tree!LiesBefore
  BY <1>6 DEF RP!EndsBefore, Tree!EndsBefore, RP!LiesBefore, Tree!LiesBefore
<1>8. UNCHANGED <<parent, child, sibling>> => UNCHANGED <<outParent, outChild, outSibling>>
  BY DEF outParent, outChild, outSibling
<1>9. Tree!CheckRange => RP!CheckRange
  BY <1>2, <1>8 DEF Tree!CheckRange, RP!CheckRange, Tree!OutOfRange, RP!OutOfRange,
     Tree!links, RP!links
<1>10. Tree!Advance => RP!Advance
  BY <1>1, <1>2, <1>6, <1>7, <1>8 DEF Tree!Advance, RP!Advance, Tree!links, RP!links
<1>11. Tree!Refuse => RP!Refuse
  BY <1>1, <1>2, <1>7, <1>8 DEF Tree!Refuse, RP!Refuse, Tree!links, RP!links
<1>12. ASSUME Tree!Insert PROVE RP!Insert
  <2>1. /\ pc = "walk" /\ Tree!EndsBefore /\ pc' = "idle" /\ answer' = "0" /\ prev' = prev
        /\ sibling' = [r \in Resources |-> CASE r = new  -> Tree!tmp
                                             [] r = prev -> new
                                             [] OTHER    -> sibling[r]]
        /\ child' = IF prev = NULL THEN [child EXCEPT ![root] = new] ELSE child
        /\ parent' = [parent EXCEPT ![new] = root]
    BY <1>12 DEF Tree!Insert
  <2>2. outParent' = [outParent EXCEPT ![new] = root]
    BY <1>4, <2>1 DEF outParent, Pointers
  <2>3. outChild' = IF prev = NULL THEN [outChild EXCEPT ![root] = new] ELSE outChild
    <3>1. CASE prev = NULL
      BY <1>3, <2>1, <3>1 DEF outChild, Pointers
    <3>2. CASE prev # NULL
      BY <2>1, <3>2 DEF outChild
    <3> QED BY <3>1, <3>2
  <2>4. outSibling' = [r \in Resources |-> CASE r = new  -> Tree!tmp
                                             [] r = prev -> new
                                             [] OTHER    -> outSibling[r]]
    <3>1. ASSUME NEW r \in Resources
          PROVE  outSibling'[r] = CASE r = new  -> Tree!tmp
                                    [] r = prev -> new
                                    [] OTHER    -> outSibling[r]
      <4>1. CASE r \in Kernel
        <5>1. r # new /\ r # prev
          BY <1>4, <1>5, <2>1, <4>1
        <5>2. outSibling'[r] = NULL /\ outSibling[r] = NULL
          BY <4>1 DEF outSibling
        <5> QED BY <5>1, <5>2
      <4>2. CASE r \notin Kernel
        <5>1. outSibling'[r] = sibling'[r] /\ outSibling[r] = sibling[r]
          BY <4>2 DEF outSibling
        <5> QED BY <2>1, <5>1
      <4> QED BY <4>1, <4>2
    <3> QED BY <3>1 DEF outSibling
  <2> QED BY <1>1, <1>2, <1>6, <1>7, <2>1, <2>2, <2>3, <2>4 DEF RP!Insert
<1> QED BY <1>1, <1>2, <1>3, <1>4, <1>9, <1>10, <1>11, <1>12

(* Each step is one of the tree without the kernel, or not seen in it.     *)
LEMMA OuterSteps ==
  ASSUME Thread, Requests, Pointers, Detour, RP!IInv, [Next]_vars
  PROVE  \/ Quiet
         \/ \E p, n \in Resources : /\ Asked(p, n) /\ Tree!Request(p, n)
                                    /\ RP!MayRequest(p, n) /\ RP!Request(p, n)
         \/ \E r \in Resources, from \in Addr, size \in {MainboardSize} \cup RomSizes \cup EntrySizes :
              RP!Loose(r) /\ Tree!Describe(r, from, size) /\ RP!Describe(r, from, size)
         \/ InRequest /\ new \notin Kernel
<1>1. UNCHANGED treeVars => Quiet
  BY DEF treeVars, Quiet, outParent, outChild, outSibling, outPc, outAnswer
<1>2. ASSUME NEW p, NEW n, Asked(p, n), Tree!Request(p, n)
      PROVE  p \in Resources /\ n \in Resources /\ RP!MayRequest(p, n) /\ RP!Request(p, n)
  <2>1. p \in Resources /\ n \in Resources /\ n \notin Kernel /\ p # n /\ RP!Loose(n)
    BY <1>2, AskedKnown, AskedLoose
  <2>2. RP!MayRequest(p, n)
    BY <2>1 DEF RP!MayRequest
  <2>3. /\ pc = "idle" /\ UNCHANGED <<start, end, parent, child, sibling>>
        /\ root' = p /\ new' = n /\ prev' = NULL /\ pc' = "check" /\ answer' = "asked"
    BY <1>2 DEF Tree!Request, Tree!links
  <2>4. outPc = "idle" /\ outPc' = "check" /\ outAnswer' = "asked"
    BY <2>1, <2>3 DEF outPc, outAnswer
  <2>5. UNCHANGED <<outParent, outChild, outSibling>>
    BY <2>3 DEF outParent, outChild, outSibling
  <2>6. RP!Request(p, n)
    BY <2>3, <2>4, <2>5 DEF RP!Request, RP!links
  <2> QED BY <2>1, <2>2, <2>6
<1>3. ASSUME NEW r, NEW from, NEW size, Tree!Describe(r, from, size)
      PROVE  RP!Describe(r, from, size)
  <2>1. /\ pc = "idle" /\ UNCHANGED <<parent, child, sibling, pc, root, new, prev, answer>>
        /\ start' = [start EXCEPT ![r] = from]
        /\ end' = [end EXCEPT ![r] = Tree!LastAddress(from, size)]
    BY <1>3 DEF Tree!Describe, Tree!links
  <2>2. outPc = "idle" /\ UNCHANGED <<outParent, outChild, outSibling, outPc, outAnswer>>
    BY <2>1 DEF outPc, outParent, outChild, outSibling, outAnswer
  <2> QED BY <2>1, <2>2 DEF RP!Describe, RP!LastAddress, Tree!LastAddress, RP!links
<1>4. at = "extension" => Rom(roms) \in Resources /\ RP!Loose(Rom(roms))
  BY DescribedLoose DEF RomStage, Early
<1>5. at = "e820" /\ i \in Entries =>
        /\ Res(i) \in Resources /\ RP!Loose(Res(i))
        /\ e820[i].addr % WordSize \in Addr /\ e820[i].size \in EntrySizes
  BY DescribedLoose, EntryFacts
<1>6. MainboardRom \in Addr /\ \A b \in Extensions : b \in Addr
  BY RomFacts
<1>7. CASE UNCHANGED treeVars
  BY <1>1, <1>7
<1>8. CASE \E p, n \in Resources : Asked(p, n) /\ Tree!Request(p, n)
  BY <1>2, <1>8
<1>9. CASE \E n \in Kernel : Tree!Request(Res(i), n)
  BY <1>9, QuietRequest
<1>10. CASE \/ /\ at = "extension" /\ i \in Extensions /\ romAt[i].length \in RomSizes
                /\ FillSlot(i, romAt[i].length)
             \/ /\ at = "extension" /\ i = MainboardRom
                /\ FillSlot(i, MainboardSize)
  BY <1>3, <1>4, <1>6, <1>10 DEF FillSlot
<1>11. CASE /\ at = "e820" /\ i \in Entries
            /\ Tree!Describe(Res(i), e820[i].addr % WordSize, e820[i].size)
  BY <1>3, <1>5, <1>11
<1>12. CASE InRequest
  BY <1>12, QuietWork
<1> QED BY <1>7, <1>8, <1>9, <1>10, <1>11, <1>12, Steps

LEMMA OuterInit == Init => RP!IInv
<1> SUFFICES ASSUME Init PROVE RP!Init
  BY TreeAssumed, RP!InitInv
<1>1. /\ start = StaticStarts /\ end = StaticEnds /\ root = NULL /\ new = NULL /\ prev = NULL
      /\ pc = "idle" /\ answer = "none"
      /\ parent = [r \in Resources |-> NULL] /\ child = [r \in Resources |-> NULL]
      /\ sibling = [r \in Resources |-> NULL]
  BY DEF Init, Tree!Init
<1>2. /\ outParent = [r \in Resources |-> NULL] /\ outChild = [r \in Resources |-> NULL]
      /\ outSibling = [r \in Resources |-> NULL] /\ outPc = "idle" /\ outAnswer = "none"
  BY <1>1 DEF outParent, outChild, outSibling, outPc, outAnswer
<1> QED BY <1>1, <1>2 DEF RP!Init

LEMMA OuterNext ==
  ASSUME Thread, Requests, Pointers, Detour, RP!IInv, [Next]_vars
  PROVE  RP!IInv'
<1>1. RP!Addr = Addr
  BY DEF RP!Addr, Addr
<1>2. CASE Quiet
  <2>1. CASE UNCHANGED <<outPc, root, new, prev, outAnswer>>
    <3>1. UNCHANGED RP!vars
      BY <1>2, <2>1 DEF Quiet, RP!vars, RP!links
    <3> QED BY <3>1, TreeAssumed, RP!NextInv
  <2>2. CASE outPc = "idle" /\ outPc' = "idle" /\ outAnswer' = "none"
    <3>1. RP!Call'
      BY <2>2 DEF RP!Call
    <3>2. UNCHANGED <<start, end, RP!links>>
      BY <1>2 DEF Quiet, RP!links
    <3> QED BY <2>2, <3>1, <3>2, TreeAssumed, RP!SameTree
  <2> QED BY <1>2, <2>1, <2>2 DEF Quiet
<1>3. CASE \E p, n \in Resources : RP!MayRequest(p, n) /\ RP!Request(p, n)
  <2>1. RP!Next
    BY <1>3 DEF RP!Next
  <2> QED BY <2>1, TreeAssumed, RP!NextInv
<1>4. CASE \E r \in Resources, from \in Addr, size \in {MainboardSize} \cup RomSizes \cup EntrySizes :
             RP!Loose(r) /\ RP!Describe(r, from, size)
  <2>1. RP!Next
    BY <1>1, <1>4 DEF RP!Next
  <2> QED BY <2>1, TreeAssumed, RP!NextInv
<1>5. CASE InRequest /\ new \notin Kernel
  <2>1. RP!CheckRange \/ RP!Insert \/ RP!Advance \/ RP!Refuse
    BY <1>5, OuterWork DEF InRequest
  <2>2. RP!Next
    BY <2>1 DEF RP!Next
  <2> QED BY <2>2, TreeAssumed, RP!NextInv
<1> QED BY <1>2, <1>3, <1>4, <1>5, OuterSteps

----------------------------------------------------------------------------
(* What a step of a request in progress can do. *)
LEMMA WorkDone ==
  ASSUME Requests, Pointers, RP!IInv, InRequest, new \notin Kernel
  PROVE  /\ outPc # "idle" /\ root \in Resources /\ new \in Resources
         /\ UNCHANGED <<start, end, root, new>>
         /\ \/ outParent' = outParent /\ outPc' # "idle"
            \/ /\ outParent' = outParent /\ outPc' = "idle"
               /\ \/ Tree!OutOfRange(root, new)
                  \/ \E c \in Resources : outParent[c] = root /\ ~Apart(c, new)
            \/ /\ outParent' = [outParent EXCEPT ![new] = root] /\ outPc' = "idle"
               /\ outParent[new] = NULL
<1>1. /\ outPc # "idle" /\ root \in Resources /\ new \in Resources
      /\ UNCHANGED <<start, end, root, new>>
  BY OuterWork
<1>2. CASE Tree!CheckRange
  <2>1. RP!CheckRange
    BY <1>2, OuterWork
  <2> QED BY <1>1, <2>1 DEF RP!CheckRange, RP!links, RP!OutOfRange, Tree!OutOfRange
<1>3. CASE Tree!Insert
  <2>1. RP!Insert /\ outPc = "walk"
    BY <1>3, OuterWork
  <2>2. RP!Loose(new)
    BY <2>1, TreeAssumed, RP!Walk
  <2> QED BY <1>1, <2>1, <2>2 DEF RP!Insert, RP!Loose
<1>4. CASE Tree!Advance
  <2>1. RP!Advance /\ outPc = "walk"
    BY <1>4, OuterWork
  <2> QED BY <1>1, <2>1 DEF RP!Advance, RP!links
<1>5. CASE Tree!Refuse
  <2>1. RP!Refuse
    BY <1>5, OuterWork
  <2>2. PICK c \in RP!Children(root) : ~RP!Apart(c, new)
    BY <2>1, TreeAssumed, RP!ConflictFound
  <2>3. c \in Resources /\ outParent[c] = root /\ ~Apart(c, new)
    BY <2>2 DEF RP!Children, RP!Apart, Apart
  <2> QED BY <1>1, <2>1, <2>3 DEF RP!Refuse, RP!links
<1> QED BY <1>2, <1>3, <1>4, <1>5 DEF InRequest

(* A request makes a claim, and nothing takes it back. *)
LEMMA ClaimMade ==
  ASSUME NEW p \in Resources, NEW n \in Resources, n \notin Kernel, NEW S, Tree!Request(p, n),
         \A r \in Resources : outParent[r] = p => r \in S
  PROVE  Claim(p, n, S)'
<1>1. outPc' # "idle" /\ root' = p /\ new' = n /\ outParent' = outParent
  BY DEF Tree!Request, Tree!links, outPc, outParent
<1> QED BY <1>1 DEF Claim

LEMMA ClaimKept ==
  ASSUME Thread, Requests, Pointers, Detour, RP!IInv, [Next]_vars,
         NEW p \in Resources, NEW n \in Resources, NEW S \in SUBSET Resources,
         Claim(p, n, S),
         start'[p] = start[p], end'[p] = end[p], start'[n] = start[n], end'[n] = end[n]
  PROVE  Claim(p, n, S)'
<1>0. Tree!OutOfRange(p, n)' <=> Tree!OutOfRange(p, n)
  BY DEF Tree!OutOfRange
<1>1. CASE Quiet
  BY <1>0, <1>1 DEF Quiet, Claim, Apart
<1>2. CASE \E q, m \in Resources : RP!Request(q, m)
  <2>1. outPc = "idle" /\ outParent' = outParent /\ start' = start /\ end' = end
    BY <1>2 DEF RP!Request, RP!links
  <2> QED BY <1>0, <2>1 DEF Claim, Apart
<1>3. ASSUME NEW r \in Resources, NEW from, NEW size, RP!Loose(r), RP!Describe(r, from, size)
      PROVE  Claim(p, n, S)'
  <2>1. /\ outPc = "idle" /\ outParent' = outParent /\ outParent[r] = NULL
        /\ start' = [start EXCEPT ![r] = from]
        /\ \E last : end' = [end EXCEPT ![r] = last]
    BY <1>3, LooseMeans DEF RP!Describe, RP!links
  <2>2. ASSUME NEW c \in S, outParent[c] = p, ~Apart(c, n)
        PROVE  outParent'[c] = p /\ ~Apart(c, n)'
    <3>1. c # r /\ c \in Resources
      BY <2>1, <2>2, Members
    <3>2. start'[c] = start[c] /\ end'[c] = end[c]
      BY <2>1, <3>1, TreeTypes
    <3> QED BY <2>1, <2>2, <3>2 DEF Apart
  <2> QED BY <1>0, <2>1, <2>2 DEF Claim
<1>4. CASE InRequest /\ new \notin Kernel
  <2>1. /\ outPc # "idle" /\ root \in Resources /\ new \in Resources
        /\ UNCHANGED <<start, end, root, new>>
    BY <1>4, WorkDone
  <2>2. CASE outParent' = outParent /\ outPc' # "idle"
    BY <1>0, <2>1, <2>2 DEF Claim, Apart
  <2>3. CASE /\ outParent' = outParent
             /\ \/ Tree!OutOfRange(root, new)
                \/ \E c \in Resources : outParent[c] = root /\ ~Apart(c, new)
    BY <1>0, <2>1, <2>3 DEF Claim, Apart
  <2>4. CASE outParent' = [outParent EXCEPT ![new] = root] /\ outParent[new] = NULL
    <3>1. outParent'[new] = root /\ \A c \in Resources : c # new => outParent'[c] = outParent[c]
      BY <2>1, <2>4, TreeTypes
    <3>2. CASE outParent[n] = p
      BY <2>4, <3>1, <3>2, Members DEF Claim
    <3>3. CASE Tree!OutOfRange(p, n)
      BY <1>0, <3>3 DEF Claim
    <3>4. ASSUME NEW c \in S, outParent[c] = p, ~Apart(c, n) PROVE Claim(p, n, S)'
      <4>1. outParent'[c] = p /\ ~Apart(c, n)'
        BY <2>1, <2>4, <3>1, <3>4, Members DEF Apart
      <4> QED BY <4>1 DEF Claim
    <3>5. CASE root = p /\ new = n
      BY <3>1, <3>5 DEF Claim
    <3> QED BY <3>2, <3>3, <3>4, <3>5 DEF Claim
  <2> QED BY <1>4, <2>2, <2>3, <2>4, WorkDone
<1> QED BY <1>1, <1>2, <1>3, <1>4, OuterSteps

(* When there is nothing to do, what was claimed is granted or refused.    *)
LEMMA ClaimSettled ==
  ASSUME NEW p, NEW n, NEW S, Claim(p, n, S), outPc = "idle"
  PROVE  \/ outParent[n] = p
         \/ Tree!OutOfRange(p, n)
         \/ \E c \in S : outParent[c] = p /\ ~Apart(c, n)
BY DEF Claim

----------------------------------------------------------------------------
(* What has been done stays done. *)
LEMMA Grows ==
  ASSUME Thread, [Next]_vars
  PROVE  /\ \A k \in Nat : RomAsked(k) => RomAsked(k)'
         /\ \A k \in Entries : /\ EntryAsked(k) => EntryAsked(k)'
                               /\ CodeAsked(k) => CodeAsked(k)'
                               /\ Past(k) => Past(k)'
         /\ at \in {"io", "done"} => at' \in {"io", "done"}
         /\ \A k \in 1 .. IoDevices :
              at = "done" \/ (at = "io" /\ k < i) => at' = "done" \/ (at' = "io" /\ k < i')
         /\ roms' \in {roms, roms + 1}
<1>1. Entries \subseteq 1 .. Len(e820) /\ Len(e820) \in Nat
  BY EntryFacts
<1>2. roms \in Nat /\ roms >= 1
  BY RomFacts
<1>3. CASE UNCHANGED <<at, i, roms>>
  BY <1>3 DEF RomAsked, EntryAsked, CodeAsked, Past, AtOneOf
<1>4. CASE RequestSystemRom \/ ProbeVideo \/ ProbeExtension \/ RequestExtension
           \/ ProbeMainboard \/ RequestMainboard
  <2>1. at \in RomStage /\ at' \in RomStage \cup {"e820"} /\ at' # "system_rom"
    BY <1>4 DEF RequestSystemRom, ProbeVideo, ProbeExtension, RequestExtension,
         ProbeMainboard, RequestMainboard, Goto, RomStage, Early
  <2>2. roms' \in {roms, roms + 1}
    BY <1>4 DEF RequestSystemRom, ProbeVideo, ProbeExtension, RequestExtension,
         ProbeMainboard, RequestMainboard
  <2>3. \A k : ~EntryAsked(k) /\ ~CodeAsked(k) /\ ~Past(k)
    BY <2>1 DEF EntryAsked, CodeAsked, Past, AtOneOf, RomStage, EntryStage, Early
  <2>4. \A k \in Nat : RomAsked(k) => RomAsked(k)'
    BY <1>2, <2>1, <2>2 DEF RomAsked, RomStage, Early
  <2> QED BY <2>1, <2>2, <2>3, <2>4 DEF RomStage, Early
<1>5. CASE DescribeEntry \/ RequestEntry \/ RequestCode \/ RequestData
  <2>1. /\ at \in EntryStage /\ at' \in EntryStage /\ i \in 1 .. Len(e820) /\ roms' = roms
        /\ \/ at = "e820" /\ at' = "e820" /\ i' = i + 1 /\ i \notin Entries
           \/ at = "e820" /\ at' = "request_entry" /\ i' = i
           \/ at = "request_entry" /\ at' = "code" /\ i' = i
           \/ at = "request_entry" /\ at' = "e820" /\ i' = i + 1
           \/ at = "code" /\ at' = "data" /\ i' = i
           \/ at = "data" /\ at' = "e820" /\ i' = i + 1
    BY <1>1, <1>5, EntryFacts
       DEF DescribeEntry, RequestEntry, RequestCode, RequestData, Goto, Thread, EntryStage
  <2>2. \A k \in Nat : RomAsked(k) => RomAsked(k)'
    BY <2>1 DEF RomAsked, RomStage, EntryStage, Early
  <2>3. \A k \in Entries : /\ EntryAsked(k) => EntryAsked(k)'
                           /\ CodeAsked(k) => CodeAsked(k)'
                           /\ Past(k) => Past(k)'
    BY <1>1, <2>1 DEF EntryAsked, CodeAsked, Past, AtOneOf, EntryStage
  <2> QED BY <2>1, <2>2, <2>3 DEF EntryStage
<1>6. CASE RequestVram \/ RequestIo
  <2>1. /\ roms' = roms
        /\ \/ at = "e820" /\ at' = "io" /\ i' = 1 /\ i > Len(e820)
           \/ at = "io" /\ i \in 1 .. IoDevices /\ at' = "io" /\ i' = i + 1
           \/ at = "io" /\ at' = "done"
    BY <1>6 DEF RequestVram, RequestIo, Goto, Thread
  <2>2. \A k \in Nat : RomAsked(k) => RomAsked(k)'
    BY <2>1 DEF RomAsked, RomStage, Early
  <2> QED BY <1>1, <2>1, <2>2, Numbers DEF EntryAsked, CodeAsked, Past, AtOneOf
<1> QED BY <1>3, <1>4, <1>5, <1>6 DEF Next, InRequest, vars

LEMMA HangsOn ==
  ASSUME Thread, [Next]_vars, NEW n, NEW p, MayHang(n, p)
  PROVE  MayHang(n, p)'
<1>1. Entries' = Entries /\ e820' = e820
  BY Machine, SameMachine
<1>2. 0 .. MAXROMS - 1 \subseteq Nat
  BY Numbers
<1> QED BY <1>1, <1>2, Grows DEF MayHang

(* A request is one that there has been from then on. *)
LEMMA RequestHangs ==
  ASSUME Thread, [Next]_vars, outPc = "idle", outPc' # "idle"
  PROVE  MayHang(new, root)'
<1>1. Entries' = Entries /\ e820' = e820
  BY Machine, SameMachine
<1>2. roms \in Nat /\ (at \in RomStage => roms \in 0 .. MAXROMS - 1) /\ 0 \in 0 .. MAXROMS - 1
  BY RomFacts, Numbers
<1>3. CASE RequestSystemRom
  <2>1. new' = Rom(0) /\ root' = iomem /\ at' = "video" /\ roms' = 1
    BY <1>3 DEF RequestSystemRom, Tree!Request, Goto, Thread, Early
  <2> QED BY <1>2, <2>1 DEF MayHang, RomAsked
<1>4. CASE ProbeVideo \/ RequestExtension
  <2>0. ~UNCHANGED treeVars
    BY DEF treeVars, outPc
  <2>1. /\ new' = Rom(roms) /\ root' = iomem /\ roms' = roms + 1 /\ at \in RomStage
        /\ at' # "system_rom"
    BY <1>4, <2>0 DEF ProbeVideo, RequestExtension, Tree!Request, Goto, treeVars, RomStage, Early
  <2> QED BY <1>2, <2>1 DEF MayHang, RomAsked
<1>5. CASE RequestMainboard
  <2>1. new' = Rom(roms) /\ root' = iomem /\ roms' = roms /\ at \in RomStage /\ at' = "e820"
    BY <1>5 DEF RequestMainboard, Tree!Request, Goto, RomStage, Early
  <2> QED BY <1>2, <2>1 DEF MayHang, RomAsked, RomStage, Early
<1>6. CASE RequestEntry
  <2>1. /\ new' = Res(i) /\ root' = iomem /\ i \in Entries
        /\ (at' = "code" /\ i' = i) \/ (at' = "e820" /\ i' = i + 1)
    BY <1>6 DEF RequestEntry, Tree!Request, Goto, Thread, EntryStage
  <2>2. \A k : k = i => EntryAsked(k)'
    BY <2>1, EntryFacts DEF EntryAsked, Past, AtOneOf, EntryStage
  <2> QED BY <1>1, <2>1, <2>2 DEF MayHang
<1>7. CASE RequestCode \/ RequestData
  <2>1. new' \in Kernel
    BY <1>7 DEF RequestCode, RequestData, Tree!Request, Kernel
  <2> QED BY <2>1 DEF outPc
<1>9. CASE RequestVram
  BY <1>9 DEF RequestVram, Tree!Request, Goto, MayHang
<1>10. CASE RequestIo
  <2>1. /\ new' = Io(i) /\ root' = ioport /\ i \in 1 .. IoDevices
        /\ (at' = "io" /\ i' = i + 1) \/ at' = "done"
    BY <1>10 DEF RequestIo, Tree!Request, Goto, Thread
  <2> QED BY <2>1 DEF MayHang
<1>11. CASE ProbeExtension \/ ProbeMainboard \/ DescribeEntry
  BY <1>11 DEF ProbeExtension, ProbeMainboard, DescribeEntry, FillSlot, Tree!Describe, treeVars, outPc
<1>12. CASE InRequest
  BY <1>12 DEF InRequest, Tree!CheckRange, Tree!Insert, Tree!Advance, Tree!Refuse, outPc
<1> QED BY <1>3, <1>4, <1>5, <1>6, <1>7, <1>9, <1>10, <1>11, <1>12 DEF Next, vars, treeVars, outPc

LEMMA RequestsNext ==
  ASSUME Thread, Requests, Pointers, Detour, RP!IInv, [Next]_vars
  PROVE  Requests'
<1>1. \A n, p : MayHang(n, p) => MayHang(n, p)'
  BY HangsOn
<1>2. outPc = "idle" /\ outPc' # "idle" => MayHang(new, root)'
  BY RequestHangs
<1>3. CASE outParent' = outParent /\ (outPc = "idle" \/ outPc' = "idle")
  BY <1>1, <1>2, <1>3 DEF Requests
<1>4. CASE UNCHANGED <<outParent, outPc, root, new>>
  BY <1>1, <1>4 DEF Requests
<1>5. CASE InRequest /\ new \notin Kernel
  <2>1. MayHang(new, root)'
    BY <1>1, <1>5, WorkDone DEF Requests
  <2>2. new' = new /\ root' = root /\ new \in Resources
    BY <1>5, WorkDone
  <2>3. outParent' = outParent \/ outParent' = [outParent EXCEPT ![new] = root]
    BY <1>5, WorkDone
  <2>4. \A r \in Resources : outParent'[r] # NULL => MayHang(r, outParent[r])'
    BY <1>1, <2>1, <2>2, <2>3, TreeTypes DEF Requests
  <2> QED BY <2>1, <2>4 DEF Requests
<1>6. CASE \E p, n \in Resources : RP!Request(p, n)
  BY <1>3, <1>6 DEF RP!Request, RP!links
<1>7. CASE \E r \in Resources : \E from, size : RP!Describe(r, from, size)
  BY <1>3, <1>7 DEF RP!Describe, RP!links
<1>8. CASE Quiet
  BY <1>3, <1>4, <1>8 DEF Quiet
<1> QED BY <1>5, <1>6, <1>7, <1>8, OuterSteps

----------------------------------------------------------------------------
(* A range is written down once, before it is asked for. *)
LEMMA RangesStay ==
  ASSUME Thread, RP!IInv, [Next]_vars, NEW r \in Resources,
         at = "extension" => r # Rom(roms),
         at = "e820" /\ i \in Entries => r # Res(i)
  PROVE  start'[r] = start[r] /\ end'[r] = end[r]
<1>1. ASSUME NEW c \in Resources, NEW from, NEW size, Tree!Describe(c, from, size), c # r
      PROVE  start'[r] = start[r] /\ end'[r] = end[r]
  BY <1>1, TreeTypes DEF Tree!Describe
<1>2. \/ UNCHANGED <<start, end>>
      \/ \E c \in Resources \ {r} : \E from, size : Tree!Describe(c, from, size)
  <2>1. CASE \E p, n : Tree!Request(p, n)
    BY <2>1 DEF Tree!Request
  <2>2. CASE InRequest
    BY <2>2 DEF InRequest, Tree!CheckRange, Tree!Insert, Tree!Advance, Tree!Refuse
  <2> QED BY <2>1, <2>2, Steps, RomFacts, EntryFacts DEF FillSlot, RomStage, Early, treeVars
<1> QED BY <1>1, <1>2

(* What is new after a step is what the step has done. *)
LEMMA News ==
  ASSUME Thread, [Next]_vars, NEW k \in Entries
  PROVE  /\ Described(k)' => Described(k) \/ (k = i /\ at = "e820" /\ DescribeEntry)
         /\ EntryAsked(k)' => EntryAsked(k) \/ (k = i /\ at = "request_entry" /\ RequestEntry)
         /\ e820[k].type = "RAM" /\ CodeAsked(k)' =>
              CodeAsked(k) \/ (k = i /\ at = "code" /\ RequestCode)
         /\ e820[k].type = "RAM" /\ Past(k)' =>
              Past(k) \/ (k = i /\ at = "data" /\ RequestData)
<1>1. k \in 1 .. Len(e820) /\ Len(e820) \in Nat
  BY EntryFacts
<1>2. CASE UNCHANGED <<at, i, roms>>
  BY <1>2 DEF Described, EntryAsked, CodeAsked, Past, AtOneOf
<1>3. CASE RequestSystemRom \/ ProbeVideo \/ ProbeExtension \/ RequestExtension
           \/ ProbeMainboard \/ RequestMainboard
  <2>1. at' \in RomStage \/ (at' = "e820" /\ i' = 1)
    BY <1>3 DEF RequestSystemRom, ProbeVideo, ProbeExtension, RequestExtension,
         ProbeMainboard, RequestMainboard, Goto, RomStage, Early
  <2> QED BY <1>1, <2>1 DEF Described, EntryAsked, CodeAsked, Past, AtOneOf, RomStage, EntryStage, Early
<1>4. CASE DescribeEntry \/ RequestEntry \/ RequestCode \/ RequestData
  <2>1. /\ at \in EntryStage /\ i \in 1 .. Len(e820)
        /\ \/ at = "e820" /\ at' = "e820" /\ i' = i + 1 /\ i \notin Entries
           \/ DescribeEntry /\ at = "e820" /\ at' = "request_entry" /\ i' = i
           \/ RequestEntry /\ at = "request_entry" /\ at' = "code" /\ i' = i
           \/ /\ RequestEntry /\ at = "request_entry" /\ at' = "e820" /\ i' = i + 1
              /\ e820[i].type # "RAM"
           \/ RequestCode /\ at = "code" /\ at' = "data" /\ i' = i
           \/ RequestData /\ at = "data" /\ at' = "e820" /\ i' = i + 1
    BY <1>1, <1>4, EntryFacts
       DEF DescribeEntry, RequestEntry, RequestCode, RequestData, Goto, Thread, EntryStage
  <2> QED BY <1>1, <2>1 DEF Described, EntryAsked, CodeAsked, Past, AtOneOf, EntryStage
<1>5. CASE RequestVram \/ RequestIo
  <2>1. at \in {"io", "done"} \/ (at = "e820" /\ i > Len(e820) /\ i \in Nat)
    BY <1>1, <1>5 DEF RequestVram, RequestIo, Thread, EntryStage
  <2>2. Past(k)
    BY <1>1, <2>1 DEF Past, EntryStage
  <2> QED BY <2>2 DEF Described, EntryAsked, CodeAsked
<1> QED BY <1>2, <1>3, <1>4, <1>5 DEF Next, InRequest, vars

LEMMA RangesNext ==
  ASSUME Thread, Ranges, RP!IInv, [Next]_vars
  PROVE  Ranges'
<1>1. First' = First /\ Entries' = Entries /\ e820' = e820
  BY Machine, SameMachine
<1>2. ASSUME NEW r \in {iomem, code, data, Rom(0)} PROVE IsStatic(r)'
  <2>1. r \in Resources /\ r # Rom(roms) /\ r # Res(i)
    BY RomFacts, Members, Names
  <2> QED BY <2>1, RangesStay DEF Ranges, IsStatic
<1>3. ASSUME at' \in Early \/ First = 2 PROVE IsStatic(Rom(1))'
  <2>1. at \in Early \/ First = 2
    <3>1. at' \in Early => at \in Early
      BY DEF Next, vars, RequestSystemRom, ProbeVideo, ProbeExtension, RequestExtension,
         ProbeMainboard, RequestMainboard, DescribeEntry, RequestEntry, RequestCode,
         RequestData, RequestVram, RequestIo, InRequest, Goto, Early
    <3> QED BY <1>3, <3>1
  <2>2. Rom(1) \in Resources /\ Rom(1) # Res(i)
    BY RomFacts, Names
  <2>3. at = "extension" => Rom(1) # Rom(roms)
    BY <2>1, RomFacts, Names, Numbers DEF Thread, Early
  <2> QED BY <2>1, <2>2, <2>3, RangesStay DEF Ranges, IsStatic
<1>4. ASSUME NEW k \in Entries, Described(k)'
      PROVE  HasRange(Res(k), e820[k].addr % WordSize, e820[k].size)'
  <2>1. Res(k) \in Resources /\ k \in 1 .. Len(e820) /\ \A l : Res(k) # Rom(l)
    BY EntryFacts, Names
  <2>2. CASE Described(k)
    <3>1. at = "e820" => Res(k) # Res(i)
      BY <2>1, <2>2, EntryFacts, Names DEF Described, Past, AtOneOf, EntryStage, Thread
    <3> QED BY <1>1, <2>1, <2>2, <3>1, RangesStay DEF Ranges, HasRange
  <2>3. CASE k = i /\ DescribeEntry
    <3>1. Tree!Describe(Res(k), e820[k].addr % WordSize, e820[k].size)
      BY <2>1, <2>3, EntryFacts DEF DescribeEntry
    <3> QED BY <1>1, <2>1, <3>1, TreeTypes DEF Tree!Describe, Tree!LastAddress, HasRange
  <2> QED BY <1>4, <2>2, <2>3, News
<1> QED BY <1>1, <1>2, <1>3, <1>4 DEF Ranges

----------------------------------------------------------------------------
(* The slots keep what has been written into them. *)
LEMMA SlotsStay ==
  ASSUME Thread, RP!IInv, [Next]_vars, NEW l \in Filled
  PROVE  /\ l \in 0 .. MAXROMS - 1 /\ l \in Nat /\ l >= First /\ Rom(l) \in Resources
         /\ start'[Rom(l)] = start[Rom(l)] /\ end'[Rom(l)] = end[Rom(l)]
<1>1. First \in Nat /\ roms \in Nat
  BY RomFacts
<1>2. at \notin Early /\ roms <= MAXROMS /\ (at = "request_extension" => roms < MAXROMS)
  BY Numbers, <1>1 DEF Filled, Thread, RomStage
<1>3. l \in 0 .. MAXROMS - 1 /\ l >= First /\ (at = "extension" => l < roms)
  BY <1>1, <1>2, Numbers DEF Filled
<1>4. Rom(l) \in Resources /\ Rom(l) # Res(i) /\ (at = "extension" => Rom(l) # Rom(roms))
  BY <1>1, <1>3, Members, Names
<1> QED BY <1>1, <1>3, <1>4, RangesStay

SlotKnown(l) ==
  /\ start[Rom(l)] \in Extensions
  /\ HasRange(Rom(l), start[Rom(l)], romAt[start[Rom(l)]].length)

LEMMA SlotsNext ==
  ASSUME Thread, Slots, RP!IInv, [Next]_vars
  PROVE  Slots'
<1>1. First' = First /\ Extensions' = Extensions /\ romAt' = romAt
  BY Machine, SameMachine
<1>2. First \in Nat /\ roms \in Nat /\ roms' \in {roms, roms + 1}
  BY RomFacts, Grows
<1>3. \A l \in Filled : SlotKnown(l) /\ SlotKnown(l)' /\ start'[Rom(l)] = start[Rom(l)] /\ l \in Nat
  BY <1>1, SlotsStay DEF Slots, SlotKnown, HasRange
<1>4. \A b \in Extensions : b \in Nat /\ b < MainboardRom
  BY RomFacts
<1>5. CASE at' \in Early
  BY <1>5 DEF Slots, Filled
<1>6. CASE at \in Early /\ at' \notin Early
  <2>1. ProbeVideo /\ at = "video" /\ at' = "extension" /\ i' = ExtensionStart
    BY <1>6 DEF Next, vars, RequestSystemRom, ProbeVideo, ProbeExtension, RequestExtension,
         ProbeMainboard, RequestMainboard, DescribeEntry, RequestEntry, RequestCode,
         RequestData, RequestVram, RequestIo, InRequest, Goto, Early
  <2>2. roms' = First
    <3>1. roms = 1 /\ i \in VideoStart .. MainboardRom - 1
      BY <2>1 DEF Thread, Early
    <3>2. HasSignature(i) => First = 2
      BY <3>1 DEF First
    <3>3. IF HasSignature(i) THEN roms' = 2 ELSE roms' = 1
      BY <2>1, <3>1 DEF ProbeVideo
    <3>4. roms' >= First
      BY <1>1, <1>2, <1>6, ThreadNext DEF Thread
    <3> QED BY <3>2, <3>3, <3>4, RomFacts
  <2>3. Filled' = {}
    BY <1>1, <1>2, <2>1, <2>2 DEF Filled, Early
  <2>4. \A b \in Extensions : b >= i'
    BY <2>1, RomFacts
  <2> QED BY <1>1, <2>1, <2>3, <2>4 DEF Slots
<1>7. CASE ProbeExtension /\ at' = "request_extension"
  <2>1. /\ at = "extension" /\ i' = i /\ roms' = roms /\ i \in Extensions
        /\ FillSlot(i, romAt[i].length) /\ First <= roms /\ Rom(roms) \in Resources
    BY <1>2, <1>7, RomFacts, Numbers
       DEF ProbeExtension, Goto, Extensions, Thread, RomStage, Early
  <2>2. start'[Rom(roms)] = i /\ HasRange(Rom(roms), i, romAt[i].length)'
    BY <2>1, TreeTypes, <1>1 DEF FillSlot, Tree!Describe, Tree!LastAddress, HasRange
  <2>3. SlotKnown(roms)'
    BY <1>1, <2>1, <2>2 DEF SlotKnown, HasRange
  <2>4. Filled = First .. roms - 1 /\ Filled' = First .. roms
    BY <1>1, <1>7, <2>1 DEF Filled, Early
  <2>5. \A l \in Filled : start[Rom(l)] < i /\ \A m \in First .. l - 1 : start[Rom(m)] < start[Rom(l)]
    BY <2>1 DEF Slots
  <2>6. \A l \in Filled' : l \in Filled \/ l = roms
    BY <1>2, <2>1, <2>4
  <2>7. \A l \in Filled : l # roms /\ \A m \in First .. l - 1 : m \in Filled
    BY <1>2, <2>4
  <2>8. \A m \in First .. roms - 1 : m \in Filled
    BY <2>4
  <2>9. \A l \in Filled' :
          /\ SlotKnown(l)'
          /\ IF l = roms' THEN start'[Rom(l)] = i' ELSE start'[Rom(l)] < i'
          /\ \A m \in First .. l - 1 : start'[Rom(m)] < start'[Rom(l)]
    BY <1>3, <2>1, <2>2, <2>3, <2>5, <2>6, <2>7, <2>8
  <2>10. \A b \in Extensions : b >= i' \/ \E l \in First .. roms - 1 : start'[Rom(l)] = b
    BY <1>3, <2>1, <2>4 DEF Slots, RomStage, Early, Thread
  <2> QED BY <1>1, <1>7, <2>1, <2>9, <2>10 DEF Slots, SlotKnown
<1>8. CASE RequestExtension
  <2>1. /\ at = "request_extension" /\ roms' = roms + 1 /\ First <= roms /\ roms < MAXROMS
        /\ i \in Extensions /\ i \in Nat
        /\ (at' = "extension" /\ i' = i + 1) \/ (at' = "e820" /\ roms' >= MAXROMS)
    BY <1>2, <1>4, <1>8, Numbers DEF RequestExtension, Goto, Thread, RomStage, Early
  <2>2. Filled = First .. roms /\ Filled' = First .. roms /\ roms \in Filled
    BY <1>1, <1>2, <2>1 DEF Filled, Early
  <2>3. /\ \A l \in Filled : IF l = roms THEN start[Rom(l)] = i ELSE start[Rom(l)] < i
        /\ \A l \in Filled : \A m \in First .. l - 1 : start[Rom(m)] < start[Rom(l)]
    BY <2>1 DEF Slots
  <2>4. \A l \in Filled : \A m \in First .. l - 1 : m \in Filled
    BY <1>2, <2>2
  <2>5. \A l \in Filled : start[Rom(l)] \in Nat
    BY <1>3, <1>4 DEF SlotKnown
  <2>6. \A l \in Filled' :
          /\ SlotKnown(l)'
          /\ at' = "extension" => start'[Rom(l)] < i'
          /\ \A m \in First .. l - 1 : start'[Rom(m)] < start'[Rom(l)]
    BY <1>3, <2>1, <2>2, <2>3, <2>4, <2>5
  <2>7. ASSUME at' = "extension", NEW b \in Extensions, ~(b >= i')
        PROVE  \E l \in First .. roms' - 1 : start'[Rom(l)] = b
    <3>1. b = i \/ ~(b >= i)
      BY <1>4, <2>1, <2>7
    <3>2. \/ b = start[Rom(roms)]
          \/ \E l \in First .. roms - 1 : start[Rom(l)] = b
      BY <2>1, <2>2, <2>3, <3>1 DEF Slots, Early
    <3>3. \E l \in Filled : start[Rom(l)] = b
      BY <1>2, <2>2, <3>2
    <3>4. Filled = First .. roms' - 1
      BY <1>2, <2>1, <2>2
    <3> QED BY <1>3, <3>3, <3>4
  <2>8. at' = "e820" => ~(roms' < MAXROMS)
    BY <1>2, <2>1, Numbers
  <2> QED BY <1>1, <2>1, <2>6, <2>7, <2>8 DEF Slots, SlotKnown
<1>9. CASE /\ at \notin Early /\ at' \notin Early /\ at # "request_extension"
           /\ at' # "request_extension" /\ roms' = roms
           /\ at = "extension" /\ at' # "extension" => i = MainboardRom
           /\ at' = "extension" => /\ at = "extension" /\ i' >= i /\ i \in Nat /\ i' \in Nat
                                   /\ \A b \in Extensions : b >= i => b >= i'
  <2>1. Filled = First .. roms - 1 /\ Filled' = Filled
    BY <1>1, <1>9 DEF Filled
  <2>2. \A l \in Filled : \A m \in First .. l - 1 : m \in Filled
    BY <1>2, <2>1
  <2>3. \A l \in Filled : start[Rom(l)] \in Nat
    BY <1>3, <1>4 DEF SlotKnown
  <2>4. \A l \in Filled' :
          /\ SlotKnown(l)'
          /\ at' = "extension" => start'[Rom(l)] < i'
          /\ \A m \in First .. l - 1 : start'[Rom(m)] < start'[Rom(l)]
    BY <1>3, <1>9, <2>1, <2>2, <2>3 DEF Slots
  <2>5. ASSUME roms < MAXROMS, NEW b \in Extensions, at' = "extension" => ~(b >= i')
        PROVE  \E l \in First .. roms - 1 : start'[Rom(l)] = b
    <3>1. at = "extension" => ~(b >= i)
      BY <1>4, <1>9, <2>5, Numbers
    <3>2. \E l \in First .. roms - 1 : start[Rom(l)] = b
      BY <1>9, <2>5, <3>1 DEF Slots
    <3> QED BY <1>3, <2>1, <3>2
  <2> QED BY <1>1, <1>9, <2>4, <2>5 DEF Slots, SlotKnown
<1>10. CASE UNCHANGED <<at, i, roms>>
  <2>1. Filled' = Filled
    BY <1>1, <1>10 DEF Filled, Early
  <2>2. \A l \in Filled : \A m \in First .. l - 1 : m \in Filled
    BY <1>2 DEF Filled
  <2>3. \A l \in First .. roms - 1 : at \notin Early => l \in Filled
    BY <1>2 DEF Filled
  <2>4. \A l \in Filled' :
          /\ SlotKnown(l)'
          /\ at = "extension" => start'[Rom(l)] < i
          /\ at = "request_extension" =>
               (IF l = roms THEN start'[Rom(l)] = i ELSE start'[Rom(l)] < i)
          /\ \A m \in First .. l - 1 : start'[Rom(m)] < start'[Rom(l)]
    BY <1>3, <2>1, <2>2 DEF Slots
  <2>5. (at \notin Early /\ roms < MAXROMS) =>
          \A b \in Extensions :
            \/ at \in {"extension", "request_extension"} /\ b >= i
            \/ \E l \in First .. roms - 1 : start'[Rom(l)] = b
    BY <1>3, <2>3 DEF Slots
  <2> QED BY <1>1, <1>10, <2>4, <2>5 DEF Slots, SlotKnown
<1>11. CASE ProbeExtension /\ at' # "request_extension"
  <2>1. /\ at = "extension" /\ at' = "extension" /\ i' = i + 1 /\ roms' = roms
        /\ ~IsExtension(i) /\ i \in Nat
    BY <1>11, Numbers DEF ProbeExtension, Goto, Thread
  <2>2. \A b \in Extensions : b # i
    BY <2>1 DEF Extensions
  <2>3. \A b \in Extensions : b >= i => b >= i'
    BY <1>4, <2>1, <2>2
  <2> QED BY <1>9, <2>1, <2>3 DEF Early
<1>12. CASE ProbeMainboard \/ RequestMainboard
  BY <1>9, <1>12 DEF ProbeMainboard, RequestMainboard, Goto, Early
<1>13. CASE DescribeEntry \/ RequestEntry \/ RequestCode \/ RequestData
  BY <1>9, <1>13 DEF DescribeEntry, RequestEntry, RequestCode, RequestData, Goto, Early
<1>14. CASE RequestVram \/ RequestIo
  BY <1>9, <1>14 DEF RequestVram, RequestIo, Goto, Early
<1> QED
  BY <1>5, <1>6, <1>7, <1>8, <1>10, <1>11, <1>12, <1>13, <1>14
     DEF Next, vars, InRequest, RequestSystemRom, ProbeVideo, Early

----------------------------------------------------------------------------
LEMMA RomClaimsNext ==
  ASSUME Thread, Requests, Pointers, Detour, Slots, RomClaims, RP!IInv, [Next]_vars
  PROVE  RomClaims'
<1>1. First' = First
  BY Machine, SameMachine
<1>2. First \in Nat /\ First >= 1 /\ roms \in Nat /\ roms' \in {roms, roms + 1}
  BY RomFacts, Grows
<1>3. iomem \in Resources /\ iomem # Rom(roms) /\ iomem # Res(i)
  BY Members, Names
<1>4. RomsBelow(MAXROMS) \subseteq Resources
  BY Members DEF RomsBelow
<1>5. start'[iomem] = start[iomem] /\ end'[iomem] = end[iomem]
  BY <1>3, RangesStay
<1>6. ASSUME at \notin Early, NEW l \in First .. roms - 1
      PROVE  Claim(iomem, Rom(l), RomsBelow(l))'
  <2>1. l \in Filled
    BY <1>2, <1>6 DEF Filled
  <2>2. RomsBelow(l) \subseteq Resources
    BY <1>2, <1>4, <2>1, SlotsStay, Numbers DEF RomsBelow
  <2> QED BY <1>3, <1>5, <1>6, <2>1, <2>2, ClaimKept, SlotsStay DEF RomClaims
<1>11. at' # "system_rom" => Claim(iomem, Rom(0), {})'
  <2>1. CASE at # "system_rom"
    <3>1. Rom(0) \in Resources /\ Rom(0) # Rom(roms) /\ Rom(0) # Res(i)
      BY <1>2, RomFacts, Names
    <3>2. start'[Rom(0)] = start[Rom(0)] /\ end'[Rom(0)] = end[Rom(0)]
      BY <3>1, RangesStay
    <3> QED BY <1>3, <1>5, <2>1, <3>1, <3>2, ClaimKept DEF RomClaims
  <2>2. CASE RequestSystemRom
    <3>1. at = "system_rom" /\ Tree!Request(iomem, Rom(0)) /\ Rom(0) \in Resources
      BY <2>2, RomFacts DEF RequestSystemRom
    <3>2. \A r \in Resources : outParent[r] # iomem
      <4>1. \A r : ~MayHang(r, iomem)
        BY <3>1, Names DEF MayHang, RomAsked, EntryAsked, Past, AtOneOf, EntryStage
      <4> QED BY <1>3, <4>1, Members DEF Requests
    <3> QED BY <1>3, <3>1, <3>2, Parts, ClaimMade
  <2> QED
    BY <2>1, <2>2 DEF Next, vars, ProbeVideo, ProbeExtension, RequestExtension,
       ProbeMainboard, RequestMainboard, DescribeEntry, RequestEntry, RequestCode,
       RequestData, RequestVram, RequestIo, InRequest
<1>7. CASE RequestExtension
  <2>1. /\ at = "request_extension" /\ roms' = roms + 1 /\ Rom(roms) \in Resources
        /\ Tree!Request(iomem, Rom(roms))
    BY <1>7, RomFacts DEF RequestExtension, RomStage, Early
  <2>2. ASSUME NEW r \in Resources, outParent[r] = iomem PROVE r \in RomsBelow(roms)
    <3>1. MayHang(r, iomem)
      BY <2>2, Members DEF Requests
    <3>2. \E l \in 0 .. MAXROMS - 1 : r = Rom(l) /\ RomAsked(l)
      BY <2>1, <3>1, Names DEF MayHang, EntryAsked, Past, AtOneOf, EntryStage
    <3> QED BY <1>2, <2>1, <3>2 DEF RomsBelow, RomAsked, RomStage, Early
  <2>3. ASSUME NEW m, m = roms
        PROVE  Claim(iomem, Rom(m), RomsBelow(m))'
    <3>1. Rom(m) \in Resources /\ Tree!Request(iomem, Rom(m))
      BY <2>1, <2>3
    <3>2. \A r \in Resources : outParent[r] = iomem => r \in RomsBelow(m)
      BY <2>2, <2>3
    <3> QED BY <1>3, <3>1, <3>2, Parts, ClaimMade
  <2>4. \A l \in First .. roms' - 1 : l = roms \/ l \in First .. roms - 1
    BY <1>2, <2>1
  <2>5. \A l \in First .. roms' - 1 : Claim(iomem, Rom(l), RomsBelow(l))'
    BY <1>6, <2>1, <2>3, <2>4 DEF Early
  <2> QED BY <1>1, <1>11, <2>5 DEF RomClaims
<1>8. CASE at \notin Early /\ roms' = roms
  BY <1>1, <1>6, <1>8, <1>11 DEF RomClaims
<1>9. CASE at \in Early
  <2>1. roms' <= First \/ at' \in Early
    <3>1. CASE ProbeVideo /\ HasSignature(i)
      <4>1. First = 2 /\ roms' = 2
        BY <3>1 DEF ProbeVideo, First, Thread, Early
      <4> QED BY <4>1
    <3>2. CASE ~(ProbeVideo /\ HasSignature(i))
      <4>1. roms = 1
        BY <1>9 DEF Thread
      <4>2. roms' = roms
        BY <1>9, <3>2 DEF Next, vars, RequestSystemRom, ProbeVideo, ProbeExtension, RequestExtension,
           ProbeMainboard, RequestMainboard, DescribeEntry, RequestEntry, RequestCode,
           RequestData, RequestVram, RequestIo, InRequest, Early
      <4> QED BY <1>2, <4>1, <4>2
    <3> QED BY <3>1, <3>2
  <2>2. roms' \in Nat
    BY <1>2
  <2>3. roms' <= First => \A l \in First .. roms' - 1 : FALSE
    <3>1. \A x, y \in Nat : x <= y => \A l \in y .. x - 1 : FALSE
      OBVIOUS
    <3> QED BY <1>2, <2>2, <3>1
  <2> QED BY <1>1, <1>11, <2>1, <2>3 DEF RomClaims
<1>10. at \in Early \/ roms' = roms \/ RequestExtension
  BY DEF Next, vars, RequestSystemRom, ProbeVideo, ProbeExtension,
       ProbeMainboard, RequestMainboard, DescribeEntry, RequestEntry, RequestCode,
       RequestData, RequestVram, RequestIo, InRequest, Early
<1> QED BY <1>7, <1>8, <1>9, <1>10

LEMMA EntryClaimsNext ==
  ASSUME Thread, Requests, Pointers, Detour, EntryClaims, RP!IInv, [Next]_vars
  PROVE  EntryClaims'
<1>1. Entries' = Entries /\ e820' = e820
  BY Machine, SameMachine
<1>2. iomem \in Resources
  BY Members
<1>3. start'[iomem] = start[iomem] /\ end'[iomem] = end[iomem]
  BY <1>2, Names, RangesStay
<1>4. ASSUME NEW l \in Entries, EntryAsked(l)
      PROVE  /\ Res(l) \in Resources
             /\ start'[Res(l)] = start[Res(l)] /\ end'[Res(l)] = end[Res(l)]
  <2>1. Res(l) \in Resources /\ l \in 1 .. Len(e820)
    BY EntryFacts
  <2>2. at = "e820" => Res(l) # Res(i)
    BY <1>4, <2>1, EntryFacts, Names DEF EntryAsked, Past, AtOneOf, EntryStage, Thread
  <2>3. Res(l) # Rom(roms)
    BY Names
  <2> QED BY <2>1, <2>2, <2>3, RangesStay
<1>5. ASSUME NEW l \in Entries, EntryAsked(l)'
      PROVE  Claim(iomem, Res(l), BeforeEntry(l))'
  <2>1. Res(l) \in Resources /\ BeforeEntry(l) \subseteq Resources
    <3>1. Res(l) \in Resources /\ l \in 1 .. MaxEntries
      BY EntryFacts
    <3>2. \A c \in 1 .. l - 1 : c \in 1 .. MaxEntries
      BY <3>1, Numbers
    <3> QED BY <3>1, <3>2, Members DEF BeforeEntry, RomsBelow
  <2>2. CASE EntryAsked(l)
    BY <1>2, <1>3, <1>4, <2>1, <2>2, ClaimKept DEF EntryClaims
  <2>3. CASE l = i /\ at = "request_entry" /\ RequestEntry
    <3>1. Tree!Request(iomem, Res(l))
      BY <2>3 DEF RequestEntry
    <3>2. ASSUME NEW r \in Resources, outParent[r] = iomem PROVE r \in BeforeEntry(l)
      <4>1. MayHang(r, iomem)
        BY <3>2, Members DEF Requests
      <4>2. \/ \E c \in 0 .. MAXROMS - 1 : r = Rom(c)
            \/ \E c \in Entries : r = Res(c) /\ c < i
        BY <2>3, <4>1, Names DEF MayHang, EntryAsked, Past, AtOneOf, EntryStage
      <4> QED BY <2>3, <4>2, EntryFacts DEF BeforeEntry, RomsBelow
    <3> QED BY <1>2, <2>1, <3>1, <3>2, Parts, ClaimMade
  <2> QED BY <1>5, <2>2, <2>3, News
<1> QED BY <1>1, <1>5 DEF EntryClaims

LEMMA SInit == Init => SInv
<1> SUFFICES ASSUME Init PROVE SInv
  OBVIOUS
<1>1. at = "system_rom" /\ roms = 1 /\ pc = "idle" /\ \A r \in Resources : parent[r] = NULL
  BY DEF Init, Tree!Init
<1>2. Thread
  BY ThreadInit
<1>3. Requests
  BY <1>1 DEF Requests, outParent, outPc
<1>4. \A k : ~EntryAsked(k) /\ ~Described(k)
  BY <1>1 DEF EntryAsked, Past, AtOneOf, Described, EntryStage
<1>5. \A r \in {iomem, code, data, Rom(0), Rom(1)} : IsStatic(r)
  <2>1. \A r \in {iomem, code, data, Rom(0), Rom(1)} : r \in Resources /\ r \in DOMAIN Static
    BY <1>2, RomFacts, Members, SetupAssumption
  <2> QED BY <2>1 DEF IsStatic, Init, Tree!Init, StaticStarts, StaticEnds, StaticRange
<1>6. Ranges /\ EntryClaims
  BY <1>4, <1>5 DEF Ranges, EntryClaims
<1>7. Slots /\ RomClaims
  BY <1>1 DEF Slots, RomClaims, Filled, Early
<1> QED BY <1>2, <1>3, <1>6, <1>7 DEF SInv

----------------------------------------------------------------------------
(* Whether an entry that has been requested has the kernel inside stays as *)
(* it is, and what it has taken changes only by work on a request for it.  *)
LEMMA TakesStay ==
  ASSUME Thread, RP!IInv, [Next]_vars, NEW k \in Entries, EntryAsked(k), NEW r \in Kernel
  PROVE  Takes(k, r)' <=> Takes(k, r)
<1>1. Res(k) \in Resources /\ r \in Resources /\ k \in Nat
  BY EntryFacts, Parts
<1>2. Res(k) # Rom(roms) /\ r # Rom(roms) /\ r # Res(i)
  BY <1>1, Names, Parts
<1>3. at = "e820" => Res(k) # Res(i)
  <2>1. at = "e820" => k < i /\ i \in Nat
    BY EntryFacts DEF EntryAsked, Past, AtOneOf, Thread, EntryStage
  <2> QED BY <1>1, <2>1, Names
<1>4. /\ start'[Res(k)] = start[Res(k)] /\ end'[Res(k)] = end[Res(k)]
      /\ start'[r] = start[r] /\ end'[r] = end[r]
  BY <1>1, <1>2, <1>3, RangesStay
<1> QED BY <1>4 DEF Takes, Tree!OutOfRange

LEMMA SettledStays ==
  ASSUME Thread, [Next]_vars, ~(InRequest /\ new \in Kernel),
         NEW k \in Entries, e820[k].type = "RAM", NEW r \in Kernel
  PROVE  Settled(k, r)' <=> Settled(k, r)
<1> DEFINE Asks     == IF r = code THEN CodeAsked(k) ELSE Past(k)
           Working  == pc # "idle" /\ root = Res(k) /\ new = r
<1>1. Settled(k, r) <=> Asks /\ ~Working
  BY DEF Settled
<1>2. (IF r = code THEN CodeAsked(k) ELSE Past(k))' <=> Asks'
  OBVIOUS
<1>3. Settled(k, r)' <=> Asks' /\ ~Working'
  BY DEF Settled
<1>4. code # data /\ (r = code \/ r = data)
  BY Parts DEF Kernel
<1>5. CASE RequestCode
  <2>1. /\ at = "code" /\ at' = "data" /\ i' = i /\ pc = "idle" /\ pc' # "idle"
        /\ root' = Res(i) /\ new' = code
    BY <1>5 DEF RequestCode, Goto, Tree!Request
  <2>2. CASE r = code /\ k = i
    <3>1. ~CodeAsked(k)
      BY <2>1, <2>2, EntryFacts DEF CodeAsked, Past, AtOneOf, EntryStage
    <3> QED BY <1>1, <1>3, <2>1, <2>2, <3>1
  <2>3. CASE ~(r = code /\ k = i)
    <3>1. ~Working /\ ~Working'
      BY <1>4, <2>1, <2>3, Names
    <3>2. Asks' <=> Asks
      BY <1>4, <2>1, <2>3, Grows, News DEF RequestData
    <3> QED BY <1>1, <1>3, <3>1, <3>2
  <2> QED BY <2>2, <2>3
<1>6. CASE RequestData
  <2>1. /\ at = "data" /\ at' = "e820" /\ i' = i + 1 /\ pc = "idle" /\ pc' # "idle"
        /\ root' = Res(i) /\ new' = data
    BY <1>6 DEF RequestData, Goto, Tree!Request
  <2>2. CASE r = data /\ k = i
    <3>1. ~Past(k)
      BY <2>1, <2>2, EntryFacts DEF Past, EntryStage
    <3> QED BY <1>1, <1>3, <1>4, <2>1, <2>2, <3>1
  <2>3. CASE ~(r = data /\ k = i)
    <3>1. ~Working /\ ~Working'
      BY <1>4, <2>1, <2>3, Names
    <3>2. Asks' <=> Asks
      BY <1>4, <2>1, <2>3, Grows, News DEF RequestCode
    <3> QED BY <1>1, <1>3, <3>1, <3>2
  <2> QED BY <2>2, <2>3
<1>7. CASE ~RequestCode /\ ~RequestData
  <2>1. Asks' <=> Asks
    BY <1>4, <1>7, Grows, News
  <2>2. CASE UNCHANGED treeVars
    BY <1>1, <1>3, <2>1, <2>2 DEF treeVars
  <2>3. CASE \E p, n \in Resources : Asked(p, n) /\ Tree!Request(p, n)
    <3>1. pc = "idle" /\ new' \notin Kernel
      BY <2>3, AskedKnown DEF Tree!Request
    <3> QED BY <1>1, <1>3, <2>1, <3>1
  <2>4. CASE \E c, from, size : Tree!Describe(c, from, size)
    BY <1>1, <1>3, <2>1, <2>4 DEF Tree!Describe
  <2>5. CASE InRequest
    <3>1. new' = new /\ new \notin Kernel
      BY <2>5 DEF InRequest, Tree!CheckRange, Tree!Insert, Tree!Advance, Tree!Refuse
    <3> QED BY <1>1, <1>3, <2>1, <3>1
  <2>6. CASE \E n \in Kernel : at \in {"code", "data"} /\ Tree!Request(Res(i), n)
    <3>1. at \in {"code", "data"} /\ pc = "idle" /\ pc' # "idle"
      BY <2>6 DEF Tree!Request
    <3>2. FALSE
      BY <1>7, <3>1 DEF Next, vars, treeVars, RequestSystemRom, ProbeVideo, ProbeExtension, RequestExtension,
         ProbeMainboard, RequestMainboard, DescribeEntry, RequestEntry, RequestVram, RequestIo,
         InRequest, Tree!CheckRange, Tree!Insert, Tree!Advance, Tree!Refuse
    <3> QED BY <3>2
  <2> QED BY <2>2, <2>3, <2>4, <2>5, <2>6, Steps DEF FillSlot
<1> QED BY <1>5, <1>6, <1>7

LEMMA HasStays ==
  ASSUME Thread, RP!IInv, [Next]_vars, ~(InRequest /\ new \in Kernel)
  PROVE  /\ \A k, r : r \in Kernel => (Has(k, r)' <=> Has(k, r))
         /\ \A k \in Entries : Half(k)' <=> Half(k)
<1>1. Entries' = Entries /\ e820' = e820
  BY Machine, SameMachine
<1>2. ASSUME NEW k \in Entries, e820[k].type = "RAM", NEW r \in Kernel
      PROVE  /\ Settled(k, r)' <=> Settled(k, r)
             /\ Settled(k, r) => (Takes(k, r)' <=> Takes(k, r))
  <2>1. Settled(k, r)' <=> Settled(k, r)
    BY <1>2, SettledStays
  <2>2. Settled(k, r) => EntryAsked(k)
    BY DEF Settled, CodeAsked, EntryAsked, AtOneOf
  <2> QED BY <2>1, <2>2, TakesStay
<1>3. ASSUME NEW k, NEW r \in Kernel PROVE Has(k, r)' <=> Has(k, r)
  BY <1>1, <1>2 DEF Has
<1>4. ASSUME NEW k \in Entries PROVE Half(k)' <=> Half(k)
  <2>1. code \in Kernel /\ data \in Kernel
    BY DEF Kernel
  <2>2. Has(k, code)' <=> Has(k, code)
    BY <1>3, <2>1
  <2>3. Has(k, code) => (Settled(k, data)' <=> Settled(k, data))
    BY <1>2, <2>1 DEF Has
  <2> QED BY <2>2, <2>3 DEF Half
<1> QED BY <1>3, <1>4

LEMMA WholeBefore ==
  ASSUME Thread, RP!IInv, [Next]_vars, Whole'
  PROVE  Whole
<1>1. Entries' = Entries /\ e820' = e820
  BY Machine, SameMachine
<1>2. ASSUME NEW k \in Entries, e820[k].type = "RAM", EntryAsked(k)
      PROVE  Takes(k, code) <=> Takes(k, data)
  <2>1. EntryAsked(k)'
    BY <1>2, Grows
  <2>2. Takes(k, code)' <=> Takes(k, data)'
    BY <1>1, <1>2, <2>1 DEF Whole
  <2> QED BY <1>2, <2>2, TakesStay DEF Kernel
<1> QED BY <1>2 DEF Whole

(* Other work leaves the kernel's links alone. *)
LEMMA KernelStill ==
  ASSUME Thread, Requests, Pointers, RP!IInv, [Next]_vars, ~(InRequest /\ new \in Kernel)
  PROVE  /\ Pointers'
         /\ \A k \in 1 .. MaxEntries : child'[Res(k)] = child[Res(k)]
         /\ \A r \in Kernel : parent'[r] = parent[r] /\ sibling'[r] = sibling[r]
<1>1. CASE UNCHANGED <<parent, child, sibling>>
  BY <1>1 DEF Pointers
<1>2. CASE Tree!Insert /\ new \notin Kernel
  <2>1. InRequest \/ Tree!Insert
    BY <1>2
  <2>2. /\ pc = "walk"
        /\ sibling' = [r \in Resources |-> CASE r = new  -> Tree!tmp
                                             [] r = prev -> new
                                             [] OTHER    -> sibling[r]]
        /\ child' = IF prev = NULL THEN [child EXCEPT ![root] = new] ELSE child
        /\ parent' = [parent EXCEPT ![new] = root]
    BY <1>2 DEF Tree!Insert
  <2>3. outPc = "walk"
    BY <1>2, <2>2 DEF outPc
  <2>4. root \in {iomem, ioport} /\ root \notin Holders /\ root \in Resources
    BY <2>3, Parts, Members DEF Requests, MayHang
  <2>5. new \in Resources /\ NULL \notin Resources
    BY <2>3, Members DEF RP!IInv, RP!Call
  <2>6. prev = NULL \/ (prev \in Resources /\ prev \notin Kernel)
    <3> SUFFICES ASSUME prev # NULL PROVE prev \in Resources /\ prev \notin Kernel
      OBVIOUS
    <3>1. prev \in RP!Children(root)
      BY <2>3 DEF RP!IInv, RP!Call
    <3>2. prev \in Resources /\ outParent[prev] = root
      BY <3>1 DEF RP!Children
    <3> QED BY <2>4, <2>5, <3>2, Seen
  <2>7. Tree!tmp \in Resources \cup {NULL}
    BY <2>4, <2>6 DEF Tree!tmp, Pointers
  <2>8. Pointers'
    <3>1. parent' \in [Resources -> Resources \cup {NULL}]
      BY <2>2, <2>4, <2>5 DEF Pointers
    <3>2. child' \in [Resources -> Resources \cup {NULL}]
      BY <2>2, <2>4, <2>5 DEF Pointers
    <3>3. sibling' \in [Resources -> Resources \cup {NULL}]
      BY <2>2, <2>5, <2>7 DEF Pointers
    <3> QED BY <3>1, <3>2, <3>3 DEF Pointers
  <2>9. ASSUME NEW k \in 1 .. MaxEntries PROVE child'[Res(k)] = child[Res(k)]
    <3>1. Res(k) \in Holders /\ Res(k) \in Resources
      BY Members DEF Holders
    <3> QED BY <2>2, <2>4, <3>1 DEF Pointers
  <2>10. ASSUME NEW r \in Kernel PROVE parent'[r] = parent[r] /\ sibling'[r] = sibling[r]
    <3>1. r \in Resources /\ r # new /\ r # prev
      BY <1>2, <2>5, <2>6, Parts
    <3> QED BY <2>2, <3>1 DEF Pointers
  <2> QED BY <2>8, <2>9, <2>10
<1>3. UNCHANGED <<parent, child, sibling>> \/ (Tree!Insert /\ new \notin Kernel)
  <2>1. CASE InRequest
    BY <2>1 DEF InRequest, Tree!CheckRange, Tree!Advance, Tree!Refuse, Tree!links
  <2>2. CASE ~InRequest
    BY <2>2, Steps DEF Tree!Request, Tree!Describe, FillSlot, Tree!links, treeVars
  <2> QED BY <2>1, <2>2
<1> QED BY <1>1, <1>2, <1>3

LEMMA DetourNext ==
  ASSUME Thread, Detour, RP!IInv, [Next]_vars, ~(InRequest /\ new \in Kernel)
  PROVE  Detour'
<1>1. Entries' = Entries /\ e820' = e820
  BY Machine, SameMachine
<1>2. CASE RequestCode \/ RequestData
  <2>1. /\ i \in Entries /\ e820[i].type = "RAM" /\ prev' = NULL /\ pc' = "check" /\ root' = Res(i)
        /\ \/ new' = code /\ at' = "data" /\ i' = i
           \/ new' = data /\ at' = "e820" /\ i' = i + 1
    BY <1>2 DEF RequestCode, RequestData, Goto, Tree!Request, Thread, EntryStage
  <2>2. code # data /\ "check" # "walk"
    BY Parts
  <2>3. ASSUME NEW k, k = i PROVE InEntry(k, new)'
    BY <1>1, <2>1, <2>2, <2>3 DEF InEntry
  <2> QED BY <1>1, <2>1, <2>3 DEF Detour
<1>3. CASE UNCHANGED vars
  <2>1. ASSUME NEW k, InEntry(k, new) PROVE InEntry(k, new)'
    <3>1. Has(k, code)' <=> Has(k, code)
      BY HasStays DEF Kernel
    <3>2. Takes(k, new)' <=> Takes(k, new)
      BY <1>3 DEF Takes, Tree!OutOfRange, vars, treeVars
    <3> QED BY <1>1, <1>3, <2>1, <3>1, <3>2 DEF InEntry, vars, treeVars
  <2> QED BY <1>1, <1>3, <2>1 DEF Detour, vars, treeVars
<1>4. CASE pc' = "idle" \/ new' \notin Kernel
  BY <1>4 DEF Detour
<1>5. CASE \E p, n : Asked(p, n) /\ Tree!Request(p, n)
  BY <1>4, <1>5, AskedKnown DEF Tree!Request
<1>6. CASE RequestSystemRom \/ RequestExtension \/ RequestMainboard \/ RequestEntry
           \/ RequestVram \/ RequestIo
  BY <1>5, <1>6 DEF Asked, RequestSystemRom, RequestExtension, RequestMainboard, RequestEntry,
     RequestVram, RequestIo
<1>7. CASE ProbeVideo
  <2>1. CASE HasSignature(i)
    BY <1>5, <1>7, <2>1 DEF ProbeVideo, Asked
  <2>2. CASE ~HasSignature(i)
    BY <1>4, <1>7, <2>2 DEF ProbeVideo, treeVars
  <2> QED BY <2>1, <2>2
<1>8. CASE ProbeExtension \/ ProbeMainboard \/ DescribeEntry
  BY <1>4, <1>8 DEF ProbeExtension, ProbeMainboard, DescribeEntry, FillSlot, Tree!Describe, treeVars
<1>9. CASE InRequest
  <2>1. new' = new /\ new \notin Kernel
    BY <1>9 DEF InRequest, Tree!CheckRange, Tree!Insert, Tree!Advance, Tree!Refuse
  <2> QED BY <1>4, <2>1
<1> QED BY <1>2, <1>3, <1>6, <1>7, <1>8, <1>9 DEF Next

LEMMA KernelKept ==
  ASSUME Thread, Requests, KInv, RP!IInv, [Next]_vars, ~(InRequest /\ new \in Kernel)
  PROVE  KInv'
<1>1. Entries' = Entries /\ e820' = e820 /\ code \in Kernel /\ data \in Kernel
  BY Machine, SameMachine DEF Kernel
<1>2. /\ Pointers'
      /\ \A k \in 1 .. MaxEntries : child'[Res(k)] = child[Res(k)]
      /\ \A r \in Kernel : parent'[r] = parent[r] /\ sibling'[r] = sibling[r]
  BY KernelStill DEF KInv
<1>3. /\ \A k, r : r \in Kernel => (Has(k, r)' <=> Has(k, r))
      /\ \A k \in Entries : Half(k)' <=> Half(k)
  BY HasStays
<1>4. Detour'
  BY DetourNext DEF KInv
<1>5. Lists'
  BY <1>1, <1>2, <1>3 DEF KInv, Lists
<1>6. Owners'
  BY <1>1, <1>2, <1>3 DEF KInv, Owners
<1>7. Follows'
  <2>1. Whole' => Whole
    BY WholeBefore
  <2> QED BY <1>1, <1>2, <1>3, <2>1 DEF KInv, Follows
<1> QED BY <1>2, <1>4, <1>5, <1>6, <1>7 DEF KInv

(* Work on a request for code or data in the entry c: nothing else is      *)
(* settled by it, and this one when it is over. *)
LEMMA WorkSettles ==
  ASSUME Thread, [Next]_vars, InRequest, new \in Kernel, NEW c, InEntry(c, new)
  PROVE  /\ UNCHANGED <<start, end, e820, at, i, root, new>> /\ pc # "idle"
         /\ \A k, r : Takes(k, r)' <=> Takes(k, r)
         /\ \A k, r : /\ CodeAsked(k)' <=> CodeAsked(k)
                      /\ Past(k)' <=> Past(k)
                      /\ EntryAsked(k)' <=> EntryAsked(k)
         /\ \A k, r : k # c \/ r # new => (Settled(k, r)' <=> Settled(k, r)) /\ (Has(k, r)' <=> Has(k, r))
         /\ ~Settled(c, new) /\ ~Has(c, new) /\ (Settled(c, new)' <=> (pc' = "idle"))
         /\ (Has(c, new)' <=> (pc' = "idle" /\ Takes(c, new)))
<1>1. /\ UNCHANGED <<start, end, e820, romAt, at, i, root, new>> /\ pc # "idle"
  BY DEF InRequest, Tree!CheckRange, Tree!Insert, Tree!Advance, Tree!Refuse
<1>2. /\ \A k, r : Takes(k, r)' <=> Takes(k, r)
      /\ \A k, r : /\ CodeAsked(k)' <=> CodeAsked(k)
                   /\ Past(k)' <=> Past(k)
                   /\ EntryAsked(k)' <=> EntryAsked(k)
      /\ Entries' = Entries
  BY <1>1, SameMachine DEF Takes, Tree!OutOfRange, CodeAsked, Past, EntryAsked, AtOneOf
<1>3. c \in Entries /\ e820[c].type = "RAM" /\ root = Res(c)
  BY DEF InEntry
<1>4. IF new = code THEN CodeAsked(c) ELSE Past(c)
  <2>1. c \in Nat
    BY <1>3, EntryFacts
  <2> QED BY <2>1 DEF InEntry, CodeAsked, Past, AtOneOf, EntryStage
<1>5. ASSUME NEW k, NEW r, k # c \/ r # new
      PROVE  (Settled(k, r)' <=> Settled(k, r)) /\ (Has(k, r)' <=> Has(k, r))
  <2>1. ~(root = Res(k) /\ new = r)
    BY <1>3, <1>5, Names
  <2>2. Settled(k, r)' <=> Settled(k, r)
    BY <1>1, <1>2, <2>1 DEF Settled
  <2> QED BY <1>1, <1>2, <2>2 DEF Has
<1>6. ~Settled(c, new) /\ (Settled(c, new)' <=> (pc' = "idle"))
  BY <1>1, <1>2, <1>3, <1>4 DEF Settled
<1>7. ~Has(c, new) /\ (Has(c, new)' <=> (pc' = "idle" /\ Takes(c, new)))
  BY <1>1, <1>2, <1>3, <1>6 DEF Has
<1> QED BY <1>1, <1>2, <1>5, <1>6, <1>7

(* The code lies before the data. *)
LEMMA KernelRanges ==
  ASSUME Ranges, RP!IInv
  PROVE  /\ start[code] \in Nat /\ end[code] \in Nat /\ start[data] \in Nat /\ end[data] \in Nat
         /\ start[code] <= end[code] /\ end[code] < start[data] /\ start[data] <= end[data]
<1>1. IsStatic(code) /\ IsStatic(data)
  BY DEF Ranges
<1>2. /\ start[code] \in Nat /\ end[code] \in Nat /\ start[data] \in Nat /\ end[data] \in Nat
  BY TreeTypes, Members
<1> QED BY <1>1, <1>2, SetupAssumption DEF IsStatic

(* What the walk finds in the list of the entry: nothing, or the code when *)
(* it looks for the data's place. *)
LEMMA WalkInEntry ==
  ASSUME Thread, KInv, NEW c, InEntry(c, new), new \in Kernel, pc = "walk"
  PROVE  /\ Tree!tmp = NULL \/ (new = data /\ prev = NULL /\ Tree!tmp = code /\ Has(c, code))
         /\ Tree!tmp = NULL /\ prev = NULL => child[Res(c)] = NULL /\ ~Has(c, code)
         /\ prev # NULL => prev = code /\ new = data /\ Has(c, code)
<1>1. /\ c \in 1 .. MaxEntries /\ c \in Entries /\ c \in Nat /\ root = Res(c)
      /\ e820[c].type = "RAM"
  BY EntryFacts DEF InEntry
<1>2. child[Res(c)] = IF Has(c, code) THEN code ELSE IF Has(c, data) THEN data ELSE NULL
  BY <1>1 DEF KInv, Lists
<1>3. code # data /\ code # NULL /\ data # NULL /\ (new = code \/ new = data)
  BY Parts, Members DEF Kernel
<1>4. ~Settled(c, new) /\ ~Has(c, new)
  BY <1>1 DEF Settled, Has
<1>5. new = code => ~Has(c, data)
  <2>1. new = code => ~Past(c)
    BY <1>1 DEF InEntry, Past, EntryStage
  <2> QED BY <1>3, <2>1 DEF Has, Settled
<1>6. prev # NULL => prev = code /\ new = data /\ Has(c, code)
  BY DEF InEntry
<1>7. CASE prev = NULL
  BY <1>1, <1>2, <1>3, <1>4, <1>5, <1>7 DEF Tree!tmp
<1>8. CASE prev # NULL
  <2>1. Half(c)
    BY <1>4, <1>6, <1>8 DEF Half
  <2>2. sibling[code] = NULL
    BY <1>1, <2>1 DEF KInv, Follows
  <2> QED BY <1>6, <1>8, <2>2 DEF Tree!tmp
<1> QED BY <1>7, <1>8

(* A request that is refused leaves the lists as they are. *)
LEMMA KernelRefused ==
  ASSUME Thread, KInv, RP!IInv, [Next]_vars, InRequest, new \in Kernel, NEW c, InEntry(c, new),
         UNCHANGED <<parent, child, sibling>>, pc' = "idle", ~Takes(c, new)
  PROVE  KInv'
<1>1. Entries' = Entries
  BY Machine, SameMachine
<1>2. /\ \A k, r : Has(k, r)' <=> Has(k, r)
      /\ \A k, r : k # c \/ r # new => (Settled(k, r)' <=> Settled(k, r))
      /\ \A k, r : Takes(k, r)' <=> Takes(k, r)
      /\ \A k : EntryAsked(k)' <=> EntryAsked(k)
      /\ e820' = e820
  BY WorkSettles
<1>3. Pointers' /\ Lists' /\ Owners' /\ Detour'
  BY <1>1, <1>2 DEF KInv, Pointers, Lists, Owners, Detour
<1>4. (Whole <=> Whole')
  BY <1>1, <1>2 DEF Whole
<1>5. \A k : k # c \/ new = code => (Half(k)' <=> Half(k))
  <2>1. code # data /\ \A k : k # c \/ new = code => (Settled(k, data)' <=> Settled(k, data))
    BY <1>2, Parts
  <2>2. \A k : Has(k, code)' <=> Has(k, code)
    BY <1>2
  <2> QED BY <2>1, <2>2 DEF Half
<1>6. new = data => ~Half(c)'
  <2>1. new = data => Settled(c, data)'
    BY WorkSettles
  <2> QED BY <2>1 DEF Half
<1>7. Whole => ~Has(c, code) \/ new = code
  <2>1. c \in Entries /\ e820[c].type = "RAM" /\ (new = code \/ new = data)
    BY DEF InEntry, Kernel
  <2>2. Has(c, code) => Takes(c, code) /\ EntryAsked(c)
    BY DEF Has, Settled, CodeAsked, EntryAsked, AtOneOf
  <2> QED BY <2>1, <2>2 DEF Whole
<1>8. Follows'
  <2>1. /\ sibling'[data] = NULL /\ sibling'[code] = sibling[code] /\ sibling[code] \in {NULL, data}
    BY DEF KInv, Follows
  <2>2. \A k \in Entries : Half(k)' => sibling[code] = NULL
    <3>1. \A k : Half(k)' => Half(k)
      BY <1>5, <1>6 DEF Kernel
    <3> QED BY <3>1 DEF KInv, Follows
  <2>3. Whole => \A k : Half(k)' <=> Half(k)
    <3>1. Whole /\ new = data => ~Half(c)
      BY <1>7, Parts DEF Half
    <3> QED BY <1>5, <1>6, <3>1 DEF Kernel
  <2> QED BY <1>1, <1>2, <1>4, <2>1, <2>2, <2>3 DEF KInv, Follows
<1> QED BY <1>3, <1>8 DEF KInv

(* A request that is granted. *)
LEMMA KernelGranted ==
  ASSUME Thread, KInv, Ranges, RP!IInv, [Next]_vars, InRequest, new \in Kernel, NEW c, InEntry(c, new),
         Tree!Insert
  PROVE  KInv'
<1>1. /\ Entries' = Entries /\ e820' = e820
      /\ c \in Entries /\ c \in 1 .. MaxEntries /\ Res(c) \in Resources /\ root = Res(c)
      /\ e820[c].type = "RAM" /\ new \in Resources /\ (new = code \/ new = data)
      /\ code \in Resources /\ data \in Resources /\ code # data /\ NULL \notin Resources
      /\ \A k \in Entries : k \in Nat /\ k \in 1 .. MaxEntries
  BY Machine, SameMachine, EntryFacts, Parts, Members DEF InEntry, Kernel
<1>2. /\ pc = "walk" /\ pc' = "idle" /\ Tree!EndsBefore
      /\ sibling' = [r \in Resources |-> CASE r = new  -> Tree!tmp
                                           [] r = prev -> new
                                           [] OTHER    -> sibling[r]]
      /\ child' = IF prev = NULL THEN [child EXCEPT ![root] = new] ELSE child
      /\ parent' = [parent EXCEPT ![new] = root]
  BY DEF Tree!Insert
<1>3. Tree!tmp = NULL
  <2>1. Tree!tmp = code /\ new = data => FALSE
    BY <1>1, <1>2, KernelRanges DEF Tree!EndsBefore
  <2> QED BY <1>2, <2>1, WalkInEntry
<1>4. /\ prev = NULL => child[Res(c)] = NULL /\ ~Has(c, code)
      /\ prev # NULL => prev = code /\ new = data /\ Has(c, code)
  BY <1>2, <1>3, WalkInEntry
<1>5. /\ \A k, r : k # c \/ r # new => (Settled(k, r)' <=> Settled(k, r)) /\ (Has(k, r)' <=> Has(k, r))
      /\ \A k, r : Takes(k, r)' <=> Takes(k, r)
      /\ \A k : EntryAsked(k)' <=> EntryAsked(k)
      /\ ~Has(c, new) /\ ~Settled(c, new) /\ Settled(c, new)' /\ Has(c, new)' /\ new' = new
  BY <1>2, WorkSettles DEF InEntry
<1>6. Pointers'
  <2>1. prev \in Resources \cup {NULL}
    BY <1>1, <1>4
  <2>2. parent' \in [Resources -> Resources \cup {NULL}]
    BY <1>1, <1>2 DEF KInv, Pointers
  <2>3. child' \in [Resources -> Resources \cup {NULL}]
    BY <1>1, <1>2 DEF KInv, Pointers
  <2>4. sibling' \in [Resources -> Resources \cup {NULL}]
    BY <1>1, <1>2, <1>3 DEF KInv, Pointers
  <2> QED BY <2>2, <2>3, <2>4 DEF Pointers
<1>7. Detour'
  BY <1>2 DEF Detour
<1>8. Lists'
  <2>1. ASSUME NEW k \in 1 .. MaxEntries, k # c
        PROVE  child'[Res(k)] = IF Has(k, code)' THEN code ELSE IF Has(k, data)' THEN data ELSE NULL
    <3>1. Res(k) # Res(c) /\ Res(k) \in Resources
      BY <2>1, Names, Members
    <3>2. child'[Res(k)] = child[Res(k)]
      BY <1>1, <1>2, <3>1 DEF KInv, Pointers
    <3> QED BY <1>5, <2>1, <3>2 DEF KInv, Lists
  <2>2. child'[Res(c)] = IF Has(c, code)' THEN code ELSE IF Has(c, data)' THEN data ELSE NULL
    <3>1. CASE prev = NULL
      <4>1. child'[Res(c)] = new
        BY <1>1, <1>2, <3>1 DEF KInv, Pointers
      <4>2. new = data => ~Has(c, code)'
        BY <1>1, <1>4, <1>5, <3>1
      <4> QED BY <1>1, <1>5, <4>1, <4>2
    <3>2. CASE prev # NULL
      <4>1. child'[Res(c)] = child[Res(c)] /\ Has(c, code) /\ Has(c, code)'
        BY <1>1, <1>2, <1>4, <1>5, <3>2
      <4> QED BY <1>1, <4>1 DEF KInv, Lists
    <3> QED BY <3>1, <3>2
  <2> QED BY <2>1, <2>2 DEF Lists
<1>9. Owners'
  <2>1. ASSUME NEW r \in Kernel, r # new
        PROVE  \/ parent'[r] = NULL /\ \A k \in Entries : ~Has(k, r)'
               \/ \E k \in Entries : /\ parent'[r] = Res(k) /\ Has(k, r)'
                                     /\ \A l \in Entries : Has(l, r)' => l <= k
    <3>1. parent'[r] = parent[r]
      BY <1>1, <1>2, <2>1, Parts DEF KInv, Pointers
    <3> QED BY <1>5, <2>1, <3>1 DEF KInv, Owners
  <2>2. parent'[new] = Res(c)
    BY <1>1, <1>2 DEF KInv, Pointers
  <2>3. ASSUME NEW l \in Entries, Has(l, new)' PROVE l <= c
    <3>1. CASE l = c
      BY <1>1, <3>1
    <3>2. CASE l # c
      <4>1. Has(l, new)
        BY <1>5, <2>3, <3>2
      <4>2. IF new = code THEN CodeAsked(l) ELSE Past(l)
        BY <4>1 DEF Has, Settled
      <4>3. IF new = code THEN at = "data" /\ i = c ELSE at = "e820" /\ i = c + 1
        BY DEF InEntry
      <4> QED BY <1>1, <4>2, <4>3 DEF CodeAsked, Past, AtOneOf
    <3> QED BY <3>1, <3>2
  <2> QED BY <1>1, <1>5, <2>1, <2>2, <2>3 DEF Owners
<1>10. Follows'
  <2>1. Whole' <=> Whole
    BY <1>1, <1>5 DEF Whole
  <2>2. sibling[data] = NULL /\ sibling[code] \in {NULL, data}
    BY DEF KInv, Follows
  <2>3. CASE new = code
    <3>1. sibling'[code] = NULL /\ sibling'[data] = NULL
      BY <1>1, <1>2, <1>3, <1>4, <2>2, <2>3
    <3>2. Half(c)'
      <4>1. ~Past(c) /\ ~Past(c)'
        BY <1>1, <2>3, WorkSettles DEF InEntry, Past, EntryStage
      <4>2. ~Settled(c, data)'
        BY <1>1, <4>1 DEF Settled
      <4> QED BY <1>5, <2>3, <4>2 DEF Half
    <3> QED BY <1>1, <3>1, <3>2 DEF Follows
  <2>4. CASE new = data
    <3>1. at' = "e820" /\ at = "e820"
      BY <1>1, <2>4, WorkSettles DEF InEntry
    <3>2. \A k \in Entries : ~Half(k)'
      <4>1. \A k \in Entries : CodeAsked(k)' => Past(k)'
        BY <3>1 DEF CodeAsked, AtOneOf
      <4>2. \A k \in Entries : Has(k, code)' => Settled(k, data)'
        BY <1>1, <1>2, <4>1 DEF Has, Settled
      <4> QED BY <4>2 DEF Half
    <3>3. prev # data
      BY <1>1, <1>4
    <3>4. sibling'[data] = NULL
      BY <1>1, <1>2, <1>3, <2>4, <3>3
    <3>5. CASE prev = NULL
      <4>1. sibling'[code] = sibling[code]
        BY <1>1, <1>2, <2>4, <3>5
      <4>2. ~Whole
        <5>1. EntryAsked(c)
          BY <1>1, <2>4 DEF InEntry, EntryAsked, Past, EntryStage
        <5>2. Takes(c, data)
          BY <1>5, <2>4 DEF Has
        <5>3. Settled(c, code)
          <6>1. CodeAsked(c)
            BY <1>1, <2>4 DEF InEntry, CodeAsked, Past, EntryStage
          <6> QED BY <1>1, <2>4, <6>1 DEF Settled
        <5>4. ~Takes(c, code)
          BY <1>1, <1>4, <3>5, <5>3 DEF Has
        <5> QED BY <1>1, <5>1, <5>2, <5>4 DEF Whole
      <4> QED BY <1>1, <2>1, <2>2, <3>2, <3>4, <4>1, <4>2 DEF Follows
    <3>6. CASE prev # NULL
      <4>1. sibling'[code] = data
        BY <1>1, <1>2, <1>4, <2>4, <3>6
      <4> QED BY <1>1, <3>2, <3>4, <4>1 DEF Follows
    <3> QED BY <3>5, <3>6
  <2> QED BY <1>1, <2>3, <2>4
<1> QED BY <1>6, <1>7, <1>8, <1>9, <1>10 DEF KInv

LEMMA KernelNext ==
  ASSUME Thread, Requests, Ranges, KInv, RP!IInv, [Next]_vars
  PROVE  KInv'
<1>1. CASE ~(InRequest /\ new \in Kernel)
  BY <1>1, KernelKept
<1>2. CASE InRequest /\ new \in Kernel
  <2>1. pc # "idle"
    BY <1>2 DEF InRequest, Tree!CheckRange, Tree!Insert, Tree!Advance, Tree!Refuse
  <2>2. PICK c \in Entries : InEntry(c, new)
    BY <1>2, <2>1 DEF KInv, Detour
  <2>3. /\ Entries' = Entries /\ e820' = e820
        /\ UNCHANGED <<at, i, root, new>>
        /\ \A k, r : Takes(k, r)' <=> Takes(k, r)
        /\ \A k, r : k # c \/ r # new => (Settled(k, r)' <=> Settled(k, r)) /\ (Has(k, r)' <=> Has(k, r))
        /\ ~Settled(c, new) /\ ~Has(c, new) /\ (Settled(c, new)' <=> (pc' = "idle"))
        /\ (Has(c, new)' <=> (pc' = "idle" /\ Takes(c, new)))
        /\ \A k : EntryAsked(k)' <=> EntryAsked(k)
    BY <1>2, <2>2, WorkSettles, Machine, SameMachine
  <2>4. root = Res(c)
    BY <2>2 DEF InEntry
  <2>5. ASSUME UNCHANGED <<parent, child, sibling>>, pc' # "idle", InEntry(c, new)'
        PROVE  KInv'
    <3>1. \A k, r : (Settled(k, r)' <=> Settled(k, r)) /\ (Has(k, r)' <=> Has(k, r))
      BY <2>3, <2>5
    <3>2. Pointers' /\ Lists' /\ Owners'
      BY <2>3, <2>5, <3>1 DEF KInv, Pointers, Lists, Owners
    <3>3. Detour'
      BY <2>3, <2>5 DEF Detour
    <3>4. (\A k : Half(k)' <=> Half(k)) /\ (Whole' <=> Whole)
      BY <2>3, <3>1 DEF Half, Whole
    <3>5. Follows'
      BY <2>3, <2>5, <3>1, <3>4 DEF KInv, Follows
    <3> QED BY <3>2, <3>3, <3>5 DEF KInv
  <2>6. CASE Tree!CheckRange
    <3>1. pc = "check" /\ UNCHANGED <<parent, child, sibling, prev>>
      BY <2>6 DEF Tree!CheckRange, Tree!links
    <3>2. CASE Tree!OutOfRange(root, new)
      <4>1. pc' = "idle" /\ ~Takes(c, new)
        BY <2>4, <2>6, <3>2 DEF Tree!CheckRange, Takes
      <4> QED BY <1>2, <2>2, <3>1, <4>1, KernelRefused
    <3>3. CASE ~Tree!OutOfRange(root, new)
      <4>1. pc' = "walk" /\ Takes(c, new)
        BY <2>4, <2>6, <3>3 DEF Tree!CheckRange, Takes
      <4>2. prev = NULL
        BY <2>2, <3>1 DEF InEntry
      <4>3. InEntry(c, new)'
        BY <2>2, <2>3, <3>1, <4>1, <4>2 DEF InEntry
      <4> QED BY <2>5, <3>1, <4>1, <4>3
    <3> QED BY <3>2, <3>3
  <2>7. CASE Tree!Insert
    BY <1>2, <2>2, <2>7, KernelGranted
  <2>8. CASE Tree!Advance
    <3>1. /\ pc = "walk" /\ Tree!LiesBefore /\ prev' = Tree!tmp
          /\ UNCHANGED <<parent, child, sibling, pc>>
      BY <2>8 DEF Tree!Advance, Tree!links
    <3>2. Tree!tmp # NULL
      BY <3>1 DEF Tree!LiesBefore, Tree!EndsBefore
    <3>3. new = data /\ Tree!tmp = code /\ Has(c, code)
      BY <1>2, <2>2, <3>1, <3>2, WalkInEntry
    <3>4. Has(c, code)' /\ Takes(c, data)'
      BY <2>2, <2>3, <3>1, <3>3, Parts DEF InEntry
    <3>5. InEntry(c, new)'
      BY <2>2, <2>3, <3>1, <3>3, <3>4 DEF InEntry
    <3> QED BY <2>5, <3>1, <3>5
  <2>9. CASE Tree!Refuse
    <3>1. pc = "walk" /\ ~Tree!EndsBefore /\ ~Tree!LiesBefore
      BY <2>9 DEF Tree!Refuse
    <3>2. Tree!tmp # NULL
      BY <3>1 DEF Tree!EndsBefore
    <3>3. new = data /\ Tree!tmp = code
      BY <1>2, <2>2, <3>1, <3>2, WalkInEntry
    <3> QED BY <3>1, <3>3, KernelRanges DEF Tree!LiesBefore
  <2> QED BY <1>2, <2>6, <2>7, <2>8, <2>9 DEF InRequest
<1> QED BY <1>1, <1>2

LEMMA KernelInit == Init => KInv
<1> SUFFICES ASSUME Init PROVE KInv
  OBVIOUS
<1>1. /\ at = "system_rom" /\ pc = "idle"
      /\ parent = [r \in Resources |-> NULL] /\ child = [r \in Resources |-> NULL]
      /\ sibling = [r \in Resources |-> NULL]
  BY DEF Init, Tree!Init
<1>2. \A k, r : ~Has(k, r)
  BY <1>1 DEF Has, Settled, CodeAsked, Past, AtOneOf, EntryStage
<1>3. \A k : ~Half(k)
  BY <1>2 DEF Half
<1>4. Pointers /\ Detour
  BY <1>1 DEF Pointers, Detour
<1>5. Lists /\ Owners
  BY <1>1, <1>2, Members, Parts DEF Lists, Owners
<1>6. Follows
  BY <1>1, <1>2, <1>3, Members DEF Follows
<1> QED BY <1>4, <1>5, <1>6 DEF KInv

LEMMA Inductive == Spec => []Inv
<1>1. Init => Inv
  BY SInit, KernelInit, OuterInit DEF Inv
<1>2. Inv /\ [Next]_vars => Inv'
  <2> SUFFICES ASSUME Inv, [Next]_vars PROVE Inv'
    OBVIOUS
  <2>1. /\ Thread /\ Requests /\ Ranges /\ Slots /\ RomClaims /\ EntryClaims
        /\ KInv /\ Pointers /\ Detour /\ RP!IInv
    BY DEF Inv, SInv, KInv
  <2>2. SInv'
    BY <2>1, ThreadNext, RequestsNext, RangesNext, SlotsNext, RomClaimsNext, EntryClaimsNext DEF SInv
  <2>3. KInv'
    BY <2>1, KernelNext
  <2>4. RP!IInv'
    BY <2>1, OuterNext
  <2> QED BY <2>2, <2>3, <2>4 DEF Inv
<1> QED BY <1>1, <1>2, PTL DEF Spec
----------------------------------------------------------------------------
LEMMA IdleOut == pc = "idle" => outPc = "idle"
BY DEF outPc

(* What is granted in the tree without the kernel is granted. *)
LEMMA Hangs ==
  \A r \in Resources : outParent[r] = iomem => parent[r] = iomem
BY Seen, Members

(* The resource of an empty entry at address 0 takes whatever there is,    *)
(* and is never granted: it runs into the system ROM. *)
LEMMA EmptyEntry ==
  ASSUME Inv, Done, NEW k \in Entries, EmptyAtZero(k)
  PROVE  /\ start[Res(k)] = 0 /\ end[Res(k)] = WordSize - 1
         /\ \A r \in Kernel : Takes(k, r)
         /\ outParent[Res(k)] # iomem
<1>1. /\ Thread /\ Ranges /\ RomClaims /\ RP!IInv /\ pc = "idle" /\ at = "done"
      /\ Described(k)
  BY DEF Inv, SInv, Done, Described, Past
<1>2. /\ Res(k) \in Resources /\ Rom(0) \in Resources /\ iomem \in Resources
      /\ code \in Resources /\ data \in Resources /\ Rom(0) # Res(k)
  BY <1>1, EntryFacts, RomFacts, Members, Names
<1>3. \A r \in Resources : /\ start[r] \in Nat /\ end[r] \in Nat
                           /\ start[r] <= WordSize - 1 /\ end[r] <= WordSize - 1
  BY <1>1, TreeTypes, Numbers DEF Addr
<1>4. start[Res(k)] = 0 /\ end[Res(k)] = WordSize - 1
  <2>1. HasRange(Res(k), 0, 0)
    BY <1>1 DEF Ranges, EmptyAtZero
  <2>2. (0 + 0 - 1) % WordSize = WordSize - 1
    BY Numbers
  <2> QED BY <2>1, <2>2 DEF HasRange
<1>5. \A r \in Kernel : Takes(k, r)
  <2>1. start[code] <= end[code] /\ start[data] <= end[data]
    BY <1>1, KernelRanges
  <2> QED BY <1>2, <1>3, <1>4, <2>1, Numbers DEF Takes, Tree!OutOfRange, Kernel
<1>6. outParent[Rom(0)] = iomem
  <2>1. start[iomem] = 0 /\ end[iomem] = WordSize - 1 /\ start[Rom(0)] <= end[Rom(0)]
    BY <1>1, SetupAssumption DEF Ranges, IsStatic
  <2>2. ~Tree!OutOfRange(iomem, Rom(0))
    BY <1>2, <1>3, <2>1, Numbers DEF Tree!OutOfRange
  <2> QED BY <1>1, <2>2, ClaimSettled, IdleOut DEF RomClaims
<1>7. outParent[Res(k)] # iomem
  <2> SUFFICES ASSUME outParent[Res(k)] = iomem PROVE FALSE
    OBVIOUS
  <2>1. Rom(0) \in RP!Children(iomem) /\ Res(k) \in RP!Children(iomem)
    BY <1>2, <1>6 DEF RP!Children
  <2>2. RP!Apart(Rom(0), Res(k))
    BY <1>1, <1>2, <2>1 DEF RP!IInv, RP!ChildrenApart
  <2>3. start[Rom(0)] \in Nat /\ end[Rom(0)] \in Nat /\ start[Rom(0)] <= WordSize - 1
    BY <1>2, <1>3
  <2> QED BY <1>4, <2>2, <2>3, Numbers DEF RP!Apart
<1> QED BY <1>4, <1>5, <1>7

(* An entry that has nothing in common with one that holds a resource does *)
(* not take it. *)
LEMMA ApartTakesNot ==
  ASSUME RP!IInv, NEW j, NEW k, NEW r \in Kernel, Res(j) \in Resources, Res(k) \in Resources,
         Within(r, Res(j)), Apart(Res(j), Res(k))
  PROVE  ~Takes(k, r)
<1>1. r \in Resources
  BY Parts
<1>2. \A c \in {r, Res(j), Res(k)} : start[c] \in Nat /\ end[c] \in Nat
  BY <1>1, TreeTypes
<1> QED BY <1>2 DEF Takes, Tree!OutOfRange, Within, Apart

(* If RAM that holds the kernel's code and data does not overlap anything  *)
(* else, it ends up in the tree with both in its list, for every memory    *)
(* map whatever its order and whatever empty entries it has, and whatever  *)
(* ROMs come before.                                                       *)
THEOREM KernelIsListed == Spec => []KernelListed
<1>1. Inv => KernelListed
  <2> SUFFICES ASSUME Inv, Done, NEW j \in Entries, e820[j].type = "RAM", ~EmptyAtZero(j),
                      Within(code, Res(j)), Within(data, Res(j)),
                      \A r \in ListedRoms \cup {Res(k) : k \in {l \in Entries \ {j} : ~EmptyAtZero(l)}} :
                        Apart(Res(j), r)
               PROVE  /\ parent[Res(j)] = iomem
                      /\ child[Res(j)] = code /\ sibling[code] = data /\ sibling[data] = NULL
                      /\ \/ parent[code] = Res(j) /\ parent[data] = Res(j)
                         \/ \E k \in Entries : k > j /\ e820[k].type = "RAM" /\ EmptyAtZero(k)
    BY DEF KernelListed
  <2>1. /\ Thread /\ Requests /\ Ranges /\ EntryClaims /\ KInv /\ RP!IInv
        /\ pc = "idle" /\ outPc = "idle" /\ at = "done"
        /\ \A k : Past(k)
    BY IdleOut DEF Inv, SInv, Done, Past
  <2>2. /\ {iomem, code, data, Res(j)} \subseteq Resources /\ j \in 1 .. MaxEntries
        /\ \A k \in Entries : Res(k) \in Resources /\ k \in Nat
        /\ \A r \in {iomem, code, data, Res(j)} :
             start[r] \in Nat /\ end[r] \in Nat /\ end[r] < WordSize
    <3>1. /\ {iomem, code, data, Res(j)} \subseteq Resources /\ j \in 1 .. MaxEntries
          /\ \A k \in Entries : Res(k) \in Resources /\ k \in Nat
      BY <2>1, EntryFacts, Members
    <3> QED BY <2>1, <3>1, TreeTypes, Numbers DEF Addr
  <2>3. /\ start[iomem] = 0 /\ end[iomem] = WordSize - 1
        /\ start[code] <= end[code] /\ end[code] < start[data] /\ start[data] <= end[data]
    BY <2>1, SetupAssumption DEF Ranges, IsStatic
  <2>4. ~Tree!OutOfRange(iomem, Res(j)) /\ \A r \in Kernel : Takes(j, r) /\ Within(r, Res(j))
    BY <2>2, <2>3, Numbers DEF Tree!OutOfRange, Within, Takes, Kernel
  <2>5. ASSUME NEW k \in Entries, k # j, NEW r \in Kernel, Takes(k, r) PROVE EmptyAtZero(k)
    <3>1. ~EmptyAtZero(k) => Apart(Res(j), Res(k))
      BY <2>5
    <3>2. ~Apart(Res(j), Res(k))
      BY <2>1, <2>2, <2>4, <2>5, ApartTakesNot
    <3> QED BY <3>1, <3>2
  <2>6. ASSUME NEW c \in BeforeEntry(j), outParent[c] = iomem PROVE Apart(c, Res(j))
    <3>1. CASE c \in RomsBelow(MAXROMS)
      <4>1. PICK k \in 0 .. MAXROMS - 1 : c = Rom(k)
        BY <3>1 DEF RomsBelow
      <4>2. c \in ListedRoms
        BY <2>6, <4>1, Members, Hangs DEF ListedRoms
      <4> QED BY <4>2 DEF Apart
    <3>2. ASSUME NEW l \in 1 .. j - 1, c = Res(l) PROVE Apart(c, Res(j))
      <4>1. l \in 1 .. MaxEntries /\ l # j
        BY <2>2, Numbers
      <4>2. MayHang(Res(l), iomem)
        BY <2>1, <2>6, <3>2, <4>1, Members DEF Requests
      <4>3. l \in Entries
        BY <4>2, Names DEF MayHang
      <4>4. ~EmptyAtZero(l)
        BY <2>6, <3>2, <4>3, EmptyEntry
      <4> QED BY <3>2, <4>1, <4>3, <4>4 DEF Apart
    <3> QED BY <2>6, <3>1, <3>2 DEF BeforeEntry
  <2>7. parent[Res(j)] = iomem
    <3>1. Claim(iomem, Res(j), BeforeEntry(j))
      BY <2>1 DEF EntryClaims, EntryAsked
    <3> QED BY <2>1, <2>2, <2>4, <2>6, <3>1, ClaimSettled, Hangs
  <2>8. ASSUME NEW k, NEW r PROVE Settled(k, r)
    BY <2>1 DEF Settled, CodeAsked
  <2>9. \A r \in Kernel : Has(j, r)
    BY <2>4, <2>8 DEF Has
  <2>10. child[Res(j)] = code
    BY <2>1, <2>2, <2>9 DEF KInv, Lists, Kernel
  <2>11. sibling[code] = data /\ sibling[data] = NULL
    <3>1. Whole
      <4> SUFFICES ASSUME NEW k \in Entries PROVE Takes(k, code) <=> Takes(k, data)
        BY DEF Whole
      <4>1. CASE k = j
        BY <2>4, <4>1 DEF Kernel
      <4>2. CASE k # j /\ EmptyAtZero(k)
        BY <4>2, EmptyEntry DEF Kernel
      <4>3. CASE k # j /\ ~EmptyAtZero(k)
        BY <2>5, <4>3 DEF Kernel
      <4> QED BY <4>1, <4>2, <4>3
    <3>2. \A k \in Entries : ~Half(k)
      BY <2>8 DEF Half
    <3> QED BY <2>1, <2>9, <3>1, <3>2 DEF KInv, Follows, Kernel
  <2>12. ASSUME NEW r \in Kernel
         PROVE  \/ parent[r] = Res(j)
                \/ \E k \in Entries : k > j /\ e820[k].type = "RAM" /\ EmptyAtZero(k)
    <3>1. PICK k \in Entries : parent[r] = Res(k) /\ Has(k, r) /\ \A l \in Entries : Has(l, r) => l <= k
      BY <2>1, <2>9 DEF KInv, Owners
    <3>2. j <= k
      BY <2>9, <3>1
    <3>3. CASE k # j
      <4>1. EmptyAtZero(k) /\ e820[k].type = "RAM"
        BY <2>5, <3>1, <3>3 DEF Has
      <4> QED BY <2>2, <3>2, <3>3, <4>1
    <3> QED BY <3>1, <3>3
  <2> QED BY <2>7, <2>10, <2>11, <2>12 DEF Kernel
<1> QED BY <1>1, Inductive, PTL

(* Each extension that is found has a slot of its own; it is in the tree   *)
(* unless an earlier extension runs into it, it runs into the system ROM,  *)
(* or the table was full.  The table is never overrun.                     *)
THEOREM ExtensionsAreListed == Spec => []ExtensionsListed
<1>1. Inv => ExtensionsListed
  <2> SUFFICES ASSUME Inv PROVE ExtensionsListed
    OBVIOUS
  <2>1. Thread /\ Ranges /\ Slots /\ RomClaims /\ RP!IInv
    BY DEF Inv, SInv
  <2>2. at \in {"extension", "request_extension", "request_mainboard"} => roms < MAXROMS
    BY <2>1 DEF Thread, RomStage, Early
  <2>3. ASSUME Done, roms < MAXROMS, NEW b \in Extensions,
               b + romAt[b].length <= RomsEnd,
               ~\E c \in Extensions : c < b /\ c + romAt[c].length > b
        PROVE  \E l \in 1 .. MAXROMS - 1 :
                 /\ parent[Rom(l)] = iomem
                 /\ start[Rom(l)] = b /\ end[Rom(l)] = b + romAt[b].length - 1
    <3>1. /\ at = "done" /\ pc = "idle" /\ at \notin Early
          /\ First \in {1, 2} /\ roms \in Nat
      BY <2>1, <2>3, RomFacts DEF Done, Early
    <3>2. PICK l \in First .. roms - 1 : start[Rom(l)] = b
      BY <2>1, <2>3, <3>1 DEF Slots
    <3>3. Filled = First .. roms - 1
      BY <3>1 DEF Filled
    <3>4. /\ l \in Filled /\ l \in 1 .. MAXROMS - 1 /\ Rom(l) \in Resources /\ l \in Nat
          /\ HasRange(Rom(l), b, romAt[b].length)
          /\ \A m \in First .. l - 1 : start[Rom(m)] < b
      <4>1. l \in Filled /\ l \in 1 .. MAXROMS - 1 /\ l \in 0 .. MAXROMS - 1 /\ l \in Nat
        BY <2>3, <3>1, <3>2, <3>3, Numbers
      <4> QED BY <2>1, <3>2, <4>1, Members DEF Slots
    <3>5. /\ b \in Nat /\ b >= ExtensionStart /\ romAt[b].length \in Nat \ {0}
          /\ \A c \in Extensions : c \in Nat /\ c < MainboardRom /\ romAt[c].length \in Nat \ {0}
      BY <2>1, RomFacts
    <3>6. \A x \in 0 .. WordSize - 1 : x % WordSize = x
      BY Numbers
    <3>7. end[Rom(l)] = b + romAt[b].length - 1
      <4>1. b + romAt[b].length - 1 \in 0 .. WordSize - 1
        BY <2>3, <3>5, Numbers
      <4> QED BY <3>4, <3>6, <4>1 DEF HasRange
    <3>8. Claim(iomem, Rom(l), RomsBelow(l))
      BY <2>1, <3>1, <3>2 DEF RomClaims
    <3>9. ~Tree!OutOfRange(iomem, Rom(l))
      <4>1. start[iomem] = 0 /\ end[iomem] = WordSize - 1
        BY <2>1, SetupAssumption DEF Ranges, IsStatic
      <4> QED BY <2>3, <3>2, <3>5, <3>7, <4>1, Numbers DEF Tree!OutOfRange
    <3>10. ASSUME NEW m \in 0 .. l - 1 PROVE Apart(Rom(m), Rom(l))
      <4>1. CASE m = 0
        <5>1. start[Rom(0)] >= RomsEnd /\ start[Rom(0)] \in Nat
          BY <2>1, SetupAssumption, RomFacts, TreeTypes DEF Ranges, IsStatic
        <5> QED BY <2>3, <3>5, <3>7, <4>1, <5>1, Numbers DEF Apart
      <4>2. CASE m = 1 /\ First = 2
        <5>1. end[Rom(1)] < VideoEnd /\ end[Rom(1)] \in Nat
          BY <2>1, <4>2, SetupAssumption, RomFacts, TreeTypes DEF Ranges, IsStatic
        <5> QED BY <3>2, <3>5, <4>2, <5>1, Numbers DEF Apart
      <4>3. CASE m >= First
        <5>1. m \in First .. l - 1 /\ m \in Filled /\ m \in 0 .. MAXROMS - 1
          BY <3>1, <3>2, <3>3, <3>4, <4>3, Numbers
        <5>2. PICK c \in Extensions :
                /\ start[Rom(m)] = c /\ c < b /\ HasRange(Rom(m), c, romAt[c].length)
          BY <2>1, <3>4, <5>1 DEF Slots
        <5>3. c \in Nat /\ romAt[c].length \in Nat \ {0} /\ b \in Nat
          BY <3>5
        <5>4. c + romAt[c].length <= b
          <6>1. ~(c + romAt[c].length > b)
            BY <2>3, <5>2
          <6>2. \A x, y, z \in Nat : ~(x + y > z) => x + y <= z
            OBVIOUS
          <6> QED BY <5>3, <6>1, <6>2
        <5>5. c + romAt[c].length - 1 \in 0 .. WordSize - 1
          <6>1. b < WordSize /\ WordSize \in Nat
            BY <2>3, <3>5, Numbers
          <6>2. \A x \in Nat, y \in Nat \ {0}, z, w \in Nat :
                  x + y <= z /\ z < w => x + y - 1 \in 0 .. w - 1
            OBVIOUS
          <6> QED BY <5>3, <5>4, <6>1, <6>2
        <5>6. end[Rom(m)] = c + romAt[c].length - 1
          BY <3>6, <5>2, <5>5 DEF HasRange
        <5>7. c + romAt[c].length - 1 < b
          <6>1. \A x, y, z \in Nat : x + y <= z => x + y - 1 < z
            OBVIOUS
          <6> QED BY <5>3, <5>4, <6>1
        <5>8. start[Rom(l)] = b
          BY <3>2
        <5> QED BY <5>6, <5>7, <5>8 DEF Apart
      <4> QED BY <3>1, <4>1, <4>2, <4>3
    <3>11. outParent[Rom(l)] = iomem
      BY <3>1, <3>8, <3>9, <3>10, ClaimSettled, IdleOut DEF RomsBelow
    <3> QED BY <3>2, <3>4, <3>7, <3>11, Hangs
  <2>4. \A b \in Extensions : b + romAt[b].length > RomsEnd \/ b + romAt[b].length <= RomsEnd
    BY <2>1, RomFacts, Numbers
  <2> QED BY <2>2, <2>3, <2>4 DEF ExtensionsListed
<1> QED BY <1>1, Inductive, PTL

(* The lists of the two roots are sorted, and what is in them is apart,    *)
(* for every memory map, also where the kernel's code and data are moved   *)
(* from one entry to another.                                              *)
THEOREM RootsStayInOrder == Spec => []RootsInOrder
<1>1. Inv => RootsInOrder
  <2> SUFFICES ASSUME Inv, NEW p \in {iomem, ioport}
               PROVE  /\ Tree!IsFirst(child[p], Tree!Children(p))
                      /\ \A r \in Tree!Children(p) :
                           /\ Tree!IsFirst(sibling[r], {k \in Tree!Children(p) : start[k] > start[r]})
                           /\ start[r] <= end[r]
                           /\ \A k \in Tree!Children(p) \ {r} : Apart(k, r)
    BY DEF RootsInOrder
  <2>1. /\ KInv /\ RP!IInv /\ p \in Resources /\ p \notin Kernel /\ p \notin Holders /\ p # NULL
    BY Parts, Members DEF Inv
  <2>2. \A r \in Kernel : parent[r] # p
    <3>1. \A r \in Kernel : parent[r] = NULL \/ parent[r] \in Holders
      <4>1. Entries \subseteq 1 .. MaxEntries
        BY EntryFacts DEF Inv, SInv
      <4> QED BY <2>1, <4>1 DEF KInv, Owners, Holders
    <3> QED BY <2>1, <3>1
  <2>3. Tree!Children(p) = RP!Children(p)
    BY <2>1, <2>2, Seen DEF Tree!Children, RP!Children
  <2>4. child[p] = outChild[p]
    BY <2>1, Seen
  <2>5. \A r \in RP!Children(p) : r \in Resources /\ sibling[r] = outSibling[r]
    BY <2>1, Seen DEF RP!Children
  <2>6. \A x, S : Tree!IsFirst(x, S) <=> RP!IsFirst(x, S)
    BY DEF Tree!IsFirst, RP!IsFirst
  <2>7. /\ RP!IsFirst(outChild[p], RP!Children(p))
        /\ \A r \in RP!Children(p) :
             RP!IsFirst(outSibling[r], {k \in RP!Children(p) : start[k] > start[r]})
    BY <2>1 DEF RP!IInv, RP!SiblingsInOrder
  <2>8. ASSUME NEW r \in RP!Children(p)
        PROVE  start[r] <= end[r] /\ \A k \in RP!Children(p) \ {r} : Apart(k, r)
    BY <2>1 DEF RP!IInv, RP!ChildrenApart, RP!Apart, Apart
  <2>9. Tree!IsFirst(child[p], Tree!Children(p))
    BY <2>3, <2>4, <2>6, <2>7
  <2>10. ASSUME NEW r \in Tree!Children(p)
         PROVE  Tree!IsFirst(sibling[r], {k \in Tree!Children(p) : start[k] > start[r]})
    BY <2>3, <2>5, <2>6, <2>7
  <2> QED BY <2>3, <2>8, <2>9, <2>10
<1> QED BY <1>1, Inductive, PTL
=============================================================================
