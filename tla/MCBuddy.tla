------------------------------ MODULE MCBuddy -------------------------------
(* A zone of seven pages under three orders: one block of the top order,   *)
(* and a ragged tail whose last page has its buddy past the end.           *)
EXTENDS Buddy

MCBlockSizes == [o \in 0 .. 2 |-> <<1, 2, 4>>[o + 1]]
=============================================================================
