---------------------------- MODULE MCBootMemory ----------------------------
(* Twenty-three pages of eight bytes: page 0, one free page, a hole where  *)
(* the BIOS is, the kernel in pages 3 and 4, its bitmap in page 5.  The    *)
(* multiboot maps start with RAM that ends before, in or behind the hole,  *)
(* begins in it, or skips it, listed in one piece or several; the RAM      *)
(* above has a hole of every width up to 16 bytes in various places.  Some *)
(* maps list RAM twice, fill the table of six entries, or go on past the   *)
(* last page that the kernel can map; some are of no use, at once or from  *)
(* an entry on that wraps around.                                          *)
EXTENDS BootMemory, SequencesExt

MCBlockSizes == [o \in 0 .. 2 |-> <<1, 2, 4>>[o + 1]]

Piece(start, end, type) == [addr |-> start, size |-> end - start, type |-> type]
Ram(start, end) == Piece(start, end, "RAM")

MCLow ==
  {<<Ram(0, 17), Piece(17, 24, "RESERVED"), Ram(24, 57)>>,
   <<Ram(0, 18), Ram(18, 20), Ram(20, 57)>>, <<Ram(0, 57)>>,
   <<Ram(0, 5), Ram(9, 57)>>, <<Ram(24, 57), Ram(7, 19)>>, <<Ram(18, 57), Ram(19, 22)>>}

(* What follows from byte 57 on: a hole in the RAM. *)
MCHigh ==
  {<<Ram(57, x[1]), Ram(x[2], 190)>> : x \in {<<72, 80>>, <<101, 104>>, <<134, 134>>, <<152, 163>>}}
  \cup {<<Ram(57, x), Piece(x, x + 8, "RESERVED"), Ram(x + 8, 2 * x)>> : x \in {99, 121}}

MCMaps ==
  {low \o high : low \in MCLow, high \in MCHigh}
  \cup {<<Ram(57, 190), Ram(0, 40), Ram(33, 57)>>, <<Ram(0, 100), Ram(90, 190)>>}
  \cup {<<Ram(24, 190)>> \o [k \in 1 .. 4 |-> Piece(k, k + 1, "RESERVED")] \o <<Ram(3, 30)>>}
  \cup {<<>>, <<Ram(0, 190)>>, <<Ram(0, 40), Ram(90, 300)>>, <<Ram(5, 17), Ram(24, 99), Ram(180, 260)>>}

Copied(m) ==
  LET all == FlattenSeq([k \in DOMAIN m |-> Parts(m[k])])
  IN  SubSeq(all, 1, Smaller(Len(all), E820MAX))

(* The tables that come of them. *)
MCTables ==
  {Copied(m) : m \in {u \in MCMaps : Len(u) >= 2 /\ \A k \in DOMAIN u : EndOf(u[k]) >= u[k].addr}}
  \cup {<<Ram(0, size), Ram(HIGH_MEMORY, HIGH_MEMORY + 166)>> : size \in {0, 16}}
=============================================================================
