------------------------------ MODULE MCBootmem ------------------------------
(* Six page frames of four bytes.  The RAM is freed in pieces that may     *)
(* touch, overlap or leave a hole at page 3; page 0 and what may be the    *)
(* kernel are reserved; requests are smaller, equal and larger than a tail *)
(* or a page, aligned below, at and above the page size, with and without  *)
(* a goal that may not be met.                                             *)
EXTENDS Bootmem

MCFreeCalls == {[addr |-> 0, size |-> 24], [addr |-> 0, size |-> 11],
                [addr |-> 15, size |-> 9], [addr |-> 20, size |-> 4]}

MCReserveCalls == {[addr |-> 0, size |-> 4], [addr |-> 9, size |-> 4],
                   [addr |-> 21, size |-> 4]}

MCAllocCalls == {[size |-> 1, align |-> 1, goal |-> 0],
                 [size |-> 2, align |-> 2, goal |-> 0],
                 [size |-> 3, align |-> 2, goal |-> 16],
                 [size |-> 4, align |-> 4, goal |-> 0],
                 [size |-> 5, align |-> 1, goal |-> 13],
                 [size |-> 7, align |-> 2, goal |-> 0],
                 [size |-> 4, align |-> 8, goal |-> 12],
                 [size |-> 6, align |-> 8, goal |-> 40]}
=============================================================================
