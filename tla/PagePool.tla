------------------------------ MODULE PagePool ------------------------------
(***************************************************************************)
(* What the page allocator of mm/page_alloc.c promises its callers while   *)
(* memory is only being given to it: one set of free pages that each       *)
(* successful __free_pages extends by pages that were not free before, and *)
(* a counter that is always the size of that set.  Blocks, orders, lists   *)
(* and bitmaps are absent: Buddy implements this specification.            *)
(***************************************************************************)
EXTENDS Integers, FiniteSets

CONSTANT PageIdx      \* the page frames of the zone

VARIABLES
  pool,               \* the free pages
  nr_free             \* the number nr_free_pages() reports

poolVars == <<pool, nr_free>>

Init ==
  /\ pool = {}
  /\ nr_free = 0

(* Pages that were not free become free, and are counted. *)
Free ==
  LET block == pool' \ pool
  IN  /\ pool \subseteq pool'
      /\ pool' \subseteq PageIdx
      /\ block # {}
      /\ nr_free' = nr_free + Cardinality(block)

Spec == Init /\ [][Free]_poolVars
=============================================================================
