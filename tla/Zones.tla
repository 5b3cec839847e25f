-------------------------------- MODULE Zones --------------------------------
(***************************************************************************)
(* The zones of the node and the lists of zones that a request for pages   *)
(* looks through: free_area_init_core and build_zonelists of               *)
(* mm/page_alloc.c.  The free lists and bitmaps of a zone are in Buddy.    *)
(***************************************************************************)
EXTENDS Integers, Sequences, SequencesExt

CONSTANTS
  max_dma,            \* the pages that DMA can reach: 16 MB
  zone_balance_ratio, zone_balance_min, zone_balance_max,
  NR_GFPINDEX, GFP_DMA, GFP_HIGHMEM

ZONE_DMA     == 0
ZONE_NORMAL  == 1
ZONE_HIGHMEM == 2
ZoneIds == ZONE_DMA .. ZONE_HIGHMEM
MAX_NR_ZONES == 3
NoZone  == -1

ASSUME ZonesAssumption ==
  /\ {max_dma, NR_GFPINDEX} \subseteq Nat \ {0}
  /\ {GFP_DMA, GFP_HIGHMEM} \subseteq Nat
  /\ zone_balance_ratio \in [ZoneIds -> Nat \ {0}]
  /\ {zone_balance_min, zone_balance_max} \subseteq [ZoneIds -> Nat]
  /\ \A z \in ZoneIds : zone_balance_min[z] <= zone_balance_max[z]

VARIABLES
  node_zones,         \* a zone's size, first page and watermarks
  mem_map,            \* the zone of a page, and the page its virtual address stands for
  freepages,          \* sums of the watermarks
  node_zonelists      \* for each kind of request, the zones to try, then NULL

zonevars == <<node_zones, mem_map, freepages, node_zonelists>>

Blank == [size |-> 0, offset |-> 0, min |-> 0, low |-> 0, high |-> 0]

ZonesInit ==
  /\ node_zones = [z \in ZoneIds |-> Blank]
  /\ mem_map = <<>>
  /\ freepages = [min |-> 0, low |-> 0, high |-> 0]
  /\ node_zonelists = <<>>
----------------------------------------------------------------------------
(* The sizes paging_init asks for. *)
zones_size(low) ==
  [z \in ZoneIds |-> CASE z = ZONE_DMA    -> IF low < max_dma THEN low ELSE max_dma
                       [] z = ZONE_NORMAL -> IF low < max_dma THEN 0 ELSE low - max_dma
                       [] OTHER           -> 0]

(* What the loop over the zones adds up: the pages of the zones before j.  *)
PagesBefore(z, j) == IF z < j THEN node_zones[z].size ELSE 0
Offset(j) == PagesBefore(ZONE_DMA, j) + PagesBefore(ZONE_NORMAL, j)

Mask(j, size) ==
  LET share == size \div zone_balance_ratio[j]
  IN IF share < zone_balance_min[j] THEN zone_balance_min[j]
     ELSE IF share > zone_balance_max[j] THEN zone_balance_max[j] ELSE share

(* One turn of that loop.  An empty zone keeps what it has. *)
InitZone(j, size) ==
  LET offset == Offset(j)
      mask   == Mask(j, size)
      marks  == [min |-> mask, low |-> 2 * mask, high |-> 3 * mask]
  IN IF size = 0
       THEN /\ node_zones' = [node_zones EXCEPT ![j].size = 0]
            /\ UNCHANGED <<mem_map, freepages, node_zonelists>>
       ELSE /\ node_zones' = [node_zones EXCEPT ![j] =
                 [size |-> size, offset |-> offset,
                  min |-> marks.min, low |-> marks.low, high |-> marks.high]]
            /\ freepages' = [f \in DOMAIN freepages |-> freepages[f] + marks[f]]
            /\ mem_map' = mem_map \o
                 [n \in 1 .. size |-> [zone |-> j, virtual |-> offset + n - 1]]
            /\ UNCHANGED node_zonelists

(* A zone is put on a list unless it is empty. *)
IfAny(z) == IF node_zones[z].size # 0 THEN <<z>> ELSE <<>>

(* Fault: a request that takes normal pages is not given those of DMA.     *)
ZonesToTryNoFall(k) ==
  IF k = ZONE_HIGHMEM THEN IfAny(ZONE_HIGHMEM) \o IfAny(ZONE_NORMAL) ELSE IfAny(k)

(* The switch that begins at k and falls through. *)
ZonesToTry(k) ==
  CASE k = ZONE_HIGHMEM -> IfAny(ZONE_HIGHMEM) \o IfAny(ZONE_NORMAL) \o IfAny(ZONE_DMA)
    [] k = ZONE_NORMAL  -> IfAny(ZONE_NORMAL) \o IfAny(ZONE_DMA)
    [] OTHER            -> IfAny(ZONE_DMA)

(* i & flag, for a flag of one bit or none. *)
HasFlag(i, flag) == flag # 0 /\ (i \div flag) % 2 = 1

(* build_zonelists, the list of requests i. *)
BuildList(i) ==
  LET k == IF HasFlag(i, GFP_DMA) THEN ZONE_DMA
           ELSE IF HasFlag(i, GFP_HIGHMEM) THEN ZONE_HIGHMEM ELSE ZONE_NORMAL
  IN /\ node_zonelists' = Append(node_zonelists, Append(ZonesToTry(k), NoZone))
     /\ UNCHANGED <<node_zones, mem_map, freepages>>
----------------------------------------------------------------------------
(* Each page of low memory is in the zone that its entry of mem_map names, *)
(* and in no other, with the virtual address of the page itself; the pages *)
(* that a request for DMA is offered are those that DMA can reach.  Each   *)
(* list names its zones once, the rarest kind of memory last, leaves out   *)
(* those that are empty, ends in NULL, and offers every page the request   *)
(* can use.  Watermarks add up.                                            *)
Spans(z, p) == node_zones[z].offset <= p /\ p < node_zones[z].offset + node_zones[z].size

PagesZoned(low) ==
  /\ Len(mem_map) = low
  /\ \A p \in 0 .. low - 1, z \in ZoneIds :
       /\ Spans(z, p) <=> mem_map[p + 1].zone = z
       /\ Spans(ZONE_DMA, p) <=> p < max_dma
       /\ mem_map[p + 1].virtual = p
  /\ \A f \in DOMAIN freepages :
       freepages[f] = node_zones[ZONE_DMA][f] + node_zones[ZONE_NORMAL][f]
                        + node_zones[ZONE_HIGHMEM][f]

ListsComplete(low) ==
  \A i \in 0 .. Len(node_zonelists) - 1 :
    LET list  == node_zonelists[i + 1]
        zones == Front(list)
    IN /\ Last(list) = NoZone
       /\ \A m, n \in 1 .. Len(zones) : m < n => zones[m] > zones[n]
       /\ \A z \in ToSet(zones) : node_zones[z].size > 0
       /\ {p \in 0 .. low - 1 : \E z \in ToSet(zones) : Spans(z, p)}
            = 0 .. (IF HasFlag(i, GFP_DMA) /\ max_dma < low THEN max_dma ELSE low) - 1
=============================================================================
