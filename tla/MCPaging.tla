------------------------------ MODULE MCPaging ------------------------------
(* Tables of eight entries, DMA up to page 12, machines of one table to    *)
(* five; on some the first free pages are taken and the tables elsewhere.  *)
EXTENDS Paging

MCText == {1}

MCMachines ==
  {[max_low_pfn |-> low, free |-> 6 .. low - 1] : low \in {8, 9, 11, 12, 13, 16, 17, 24, 25, 32}}
    \cup {[max_low_pfn |-> low, free |-> (9 .. low - 1) \ {11}] : low \in {16, 17, 24, 32}}

MCRatio == (0 :> 2) @@ (1 :> 4) @@ (2 :> 4)
MCMin   == [z \in ZoneIds |-> 2]
MCMax   == [z \in ZoneIds |-> 5]
=============================================================================
