-------------------------- MODULE MCSetupResources --------------------------
(* A machine with 32 addresses: RAM up to 7, video memory 8-9, video ROM   *)
(* 10-11, extensions 12-14, the mainboard's ROM 15-16, the system ROM      *)
(* 17-18, the kernel from 20 on.                                           *)
EXTENDS SetupResources

Span(from, to) == [start |-> from, end |-> to]

MCStatic ==
  [r \in {iomem, ioport, code, data, vram, Rom(0), Rom(1), Io(1), Io(2)} |->
     CASE r = iomem  -> Span(0, 31)  [] r = ioport -> Span(0, 15)
       [] r = code   -> Span(20, 21) [] r = data   -> Span(22, 23)
       [] r = vram   -> Span(8, 9)   [] r = Rom(0) -> Span(17, 18)
       [] r = Rom(1) -> Span(10, 11) [] r = Io(1)  -> Span(2, 3)
       [] r = Io(2)  -> Span(4, 5)]

Entry(from, to, type) == [addr |-> from, size |-> to - from, type |-> type]
Low  == Entry(0, 8, "RAM")
High == Entry(19, 30, "RAM")
Bios == Entry(17, 19, "RESERVED")

(* The usual map; one with an entry before the RAM that it overlaps; one   *)
(* that is not in order; RAM in two parts and past 4 GB; an empty entry;   *)
(* an entry that covers all the ROMs and the video memory; no low memory   *)
(* (setup.c:160), and an empty entry at 4 GB; two entries that hold the    *)
(* code, of which the second holds the data.                               *)
MCMaps ==
  {<<Low, Bios, High>>,
   <<Low, Entry(28, 31, "ACPI"), High>>,
   <<High, Entry(30, 32, "RESERVED"), Bios, Low>>,
   <<Low, Entry(19, 26, "RAM"), Entry(26, 32, "RAM"), Entry(32, 40, "RAM")>>,
   <<Entry(4, 4, "RAM"), High>>,
   <<Low, Entry(8, 19, "RESERVED"), High>>,
   <<Entry(0, 0, "RAM"), High>>,
   <<High, Entry(32, 32, "RAM"), Low>>,
   <<Low, Entry(19, 22, "RAM"), High>>}

At(length, checksum) == [length |-> length, checksum |-> checksum]
MCRoms ==
  {r \in [10 .. 15 -> {NULL} \cup {At(0, 0), At(1, 0), At(3, 0), At(2, 1)}] :
     /\ r[10] \in {NULL, At(0, 0)} /\ r[11] = NULL /\ r[15] \in {NULL, At(0, 0)}
     /\ r[13] # At(2, 1) /\ r[14] # At(0, 0)}
=============================================================================
