------------------------------ MODULE MCI8259A ------------------------------
(* Two chips with three lines each: the timer, the cascade and the line of *)
(* spurious interrupts on the master; three lines on the slave, the last   *)
(* of which gets its spurious interrupts.  Two drivers with actions that   *)
(* share, on any line; the cascade's and the timer's do not share.         *)
EXTENDS I8259A

CONSTANTS a1, a2

Drivers == Permutations({a1, a2})
=============================================================================
