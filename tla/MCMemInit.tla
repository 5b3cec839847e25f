------------------------------ MODULE MCMemInit ------------------------------
(* Thirty-three pages of four bytes: the bitmap has one bit more than fits *)
(* a page.                                                                 *)
EXTENDS MemInit

MCBlockSizes == [o \in 0 .. 2 |-> <<1, 2, 4>>[o + 1]]

Entry(start, end, type) == [addr |-> start, size |-> end - start, type |-> type]

MCLargeMaps == {<<Entry(0, 8, "RAM"), Entry(8, 12, "RESERVED"), Entry(12, 133, "RAM")>>}
=============================================================================
