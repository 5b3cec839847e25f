----------------------------- MODULE BuddyProofs -----------------------------
(***************************************************************************)
(* Theorems about Buddy for every zone size, every number of orders and    *)
(* every set of orders that callers use.                                   *)
(*                                                                         *)
(* The invariants TypeOK, NoBug, BitTellsPairState and BlocksDisjoint only *)
(* hold together: a merge may take the buddy off its list because the bit  *)
(* says that one of the pair is listed (BitTellsPairState) and the block   *)
(* in hand is not that one (BlocksDisjoint).  IInv adds what they need:    *)
(* blocks lie inside the zone, and pages not yet released lie outside      *)
(* every free block, while all others can no longer reach a zero count.    *)
(***************************************************************************)
EXTENDS Buddy, FiniteSetTheorems, TLAPS

(* Free blocks, listed or moving, lie inside the zone. *)
BlocksInZone ==
  /\ \A o \in Orders : \A b \in free_list[o] : BlockPages(o, b) \subseteq PageIdx
  /\ MovingPages \subseteq PageIdx

(* The pages still with their owners are in no free block. *)
HeldApart == held \cap (ListedPages \cup MovingPages) = {}

(* A page that was released once cannot be released by another put. *)
PutOnce == \A p \in PageIdx \ held : p \in reserved \/ count[p] <= 0

IInv ==
  /\ TypeOK
  /\ NoBug
  /\ BitTellsPairState
  /\ BlocksDisjoint
  /\ BlocksInZone
  /\ HeldApart
  /\ PutOnce

----------------------------------------------------------------------------
(* Blocks *)

LEMMA Sizes ==
  ASSUME NEW o \in Orders
  PROVE  /\ BlockSize[o] \in Nat \ {0}
         /\ o # Top => o + 1 \in Orders /\ BlockSize[o + 1] = 2 * BlockSize[o]
         /\ Top \in Orders /\ 0 \in Orders
<1>1. MAX_ORDER \in Nat \ {0}
  BY OrderAssumption
<1>2. Top \in Orders /\ 0 \in Orders
  BY <1>1 DEF Orders, Top
<1>3. o # Top => o + 1 \in Orders
  BY <1>1 DEF Orders, Top
<1>4. BlockSize[o] \in Nat \ {0}
  BY BlockSizeAssumption
<1>5. o # Top => BlockSize[o + 1] = 2 * BlockSize[o]
  BY BlockSizeAssumption
<1> QED
  BY <1>2, <1>3, <1>4, <1>5

LEMMA Distribute ==
  ASSUME NEW b \in Nat, NEW s \in Nat
  PROVE  b * s \in Nat /\ (b + 1) * s = b * s + s
OBVIOUS

LEMMA InBlock ==
  ASSUME NEW o \in Orders, NEW b \in Nat
  PROVE  /\ BlockPages(o, b) \subseteq Nat
         /\ FirstPage(o, b) \in BlockPages(o, b)
         /\ \A p \in Nat : p \in BlockPages(o, b) <=>
                b * BlockSize[o] <= p /\ p < b * BlockSize[o] + BlockSize[o]
<1>1. PICK s \in Nat \ {0} : s = BlockSize[o]
  BY Sizes
<1>2. PICK h \in Nat : h = b * s
  BY <1>1, Distribute
<1>3. (b + 1) * s = h + s
  BY <1>1, <1>2, Distribute
<1>4. BlockPages(o, b) = h .. h + s - 1 /\ FirstPage(o, b) = h
  BY <1>1, <1>2, <1>3 DEF BlockPages, FirstPage
<1>5. b * BlockSize[o] = h /\ BlockSize[o] = s
  BY <1>1, <1>2
<1>6. h .. h + s - 1 \subseteq Nat /\ h \in h .. h + s - 1
  OBVIOUS
<1>7. \A p \in Nat : p \in h .. h + s - 1 <=> h <= p /\ p < h + s
  OBVIOUS
<1> QED
  BY <1>4, <1>5, <1>6, <1>7

(* Two blocks of one order share no page. *)
LEMMA SameOrder ==
  ASSUME NEW o \in Orders, NEW b \in Nat, NEW c \in Nat, NEW p,
         p \in BlockPages(o, b), p \in BlockPages(o, c)
  PROVE  b = c
<1>1. ASSUME NEW x \in Nat, NEW y \in Nat, x < y, p \in BlockPages(o, x)
      PROVE  p \notin BlockPages(o, y)
  <2>1. PICK s \in Nat \ {0} : s = BlockSize[o]
    BY Sizes
  <2>2. PICK d \in Nat : y = x + 1 + d
    <3>1. y - x - 1 \in Nat /\ y = x + 1 + (y - x - 1)
      BY <1>1
    <3> QED BY <3>1
  <2>3. PICK xs \in Nat, ds \in Nat : xs = x * s /\ ds = d * s
    BY <2>1
  <2>4. y * s = xs + s + ds
    BY <2>1, <2>2, <2>3
  <2>5. p \in Nat /\ p < xs + s
    BY <1>1, <2>1, <2>3, InBlock
  <2>6. p < y * s
    BY <2>1, <2>3, <2>4, <2>5
  <2> QED BY <2>5, <2>6, <2>1, <1>1, InBlock
<1> QED
  BY <1>1

(* A pair of blocks is the block of the next order with half the number. *)
LEMMA PairOf ==
  ASSUME NEW b \in Nat
  PROVE  /\ b \div 2 \in Nat /\ BuddyOf(b) \in Nat /\ BuddyOf(b) # b
         /\ \/ b = 2 * (b \div 2) /\ BuddyOf(b) = 2 * (b \div 2) + 1
            \/ b = 2 * (b \div 2) + 1 /\ BuddyOf(b) = 2 * (b \div 2)
BY DEF BuddyOf

LEMMA MergedBlock ==
  ASSUME NEW o \in Orders, o # Top, NEW b \in Nat
  PROVE  BlockPages(o + 1, b \div 2) = BlockPages(o, b) \cup BlockPages(o, BuddyOf(b))
<1>0. PICK s \in Nat \ {0}, k \in Nat : s = BlockSize[o] /\ k = b \div 2
  BY Sizes, PairOf
<1>1. PICK ks \in Nat : ks = k * s
  BY Distribute
<1>2. BlockSize[o + 1] = 2 * s /\ o + 1 \in Orders
  BY <1>0, Sizes
<1>3. /\ k * (2 * s) = 2 * ks
      /\ (2 * k) * s = 2 * ks
      /\ (2 * k + 1) * s = 2 * ks + s
  BY <1>1
<1>4. \A p \in Nat :
        p \in BlockPages(o + 1, k) <=>
          p \in BlockPages(o, 2 * k) \/ p \in BlockPages(o, 2 * k + 1)
  <2> SUFFICES ASSUME NEW p \in Nat
               PROVE  p \in BlockPages(o + 1, k) <=>
                        p \in BlockPages(o, 2 * k) \/ p \in BlockPages(o, 2 * k + 1)
    OBVIOUS
  <2>1. p \in BlockPages(o + 1, k) <=> 2 * ks <= p /\ p < 2 * ks + 2 * s
    BY <1>0, <1>1, <1>2, <1>3, InBlock
  <2>2. p \in BlockPages(o, 2 * k) <=> 2 * ks <= p /\ p < 2 * ks + s
    BY <1>0, <1>1, <1>3, InBlock
  <2>3. p \in BlockPages(o, 2 * k + 1) <=> 2 * ks + s <= p /\ p < 2 * ks + s + s
    BY <1>0, <1>1, <1>3, InBlock
  <2> QED BY <2>1, <2>2, <2>3, <1>1
<1>5. /\ BlockPages(o + 1, k) \subseteq Nat
      /\ BlockPages(o, 2 * k) \subseteq Nat
      /\ BlockPages(o, 2 * k + 1) \subseteq Nat
  BY <1>1, <1>2, InBlock
<1>6. BlockPages(o + 1, k) = BlockPages(o, 2 * k) \cup BlockPages(o, 2 * k + 1)
  BY <1>4, <1>5
<1> QED
  BY <1>0, <1>6, PairOf

LEMMA BlockCardinality ==
  ASSUME NEW o \in Orders, NEW b \in Nat
  PROVE  IsFiniteSet(BlockPages(o, b)) /\ Cardinality(BlockPages(o, b)) = BlockSize[o]
<1>1. PICK s \in Nat \ {0} : s = BlockSize[o]
  BY Sizes
<1>2. PICK h \in Nat : h = b * s /\ (b + 1) * s = h + s
  BY Distribute
<1>3. BlockPages(o, b) = h .. h + s - 1
  BY <1>1, <1>2 DEF BlockPages
<1>4. Cardinality(h .. h + s - 1) = s /\ IsFiniteSet(h .. h + s - 1)
  BY FS_Interval
<1> QED BY <1>1, <1>3, <1>4

----------------------------------------------------------------------------
(* Typing *)

LEMMA InitTypeOK == Init => TypeOK
BY Sizes, OrderAssumption, ZoneAssumption DEF Init, TypeOK, PageIdx, Orders

(* Half of a block number of the zone is again one. *)
LEMMA HalfInZone ==
  ASSUME NEW b \in PageIdx
  PROVE  b \in Nat /\ b \div 2 \in PageIdx
BY ZoneAssumption DEF PageIdx

LEMMA NextTypeOK == TypeOK /\ [Next]_vars => TypeOK'
<1> SUFFICES ASSUME TypeOK, [Next]_vars PROVE TypeOK'
  OBVIOUS
<1> USE DEF TypeOK
<1>1. ASSUME NEW p \in PageIdx, PreparePage(p) PROVE TypeOK'
  BY <1>1 DEF PreparePage
<1>2. ASSUME NEW o \in FreeOrders, NEW b \in PageIdx, FreePages(o, b) PROVE TypeOK'
  <2>1. o \in Orders /\ BlockSize[o] \in Nat
    BY Sizes, OrderAssumption
  <2> QED BY <1>2, <2>1 DEF FreePages
<1>3. CASE Merge
  <2>1. blk \div 2 \in PageIdx
    BY HalfInZone
  <2>2. area + 1 \in Orders
    BY <1>3, Sizes DEF Merge
  <2> QED BY <1>3, <2>1, <2>2 DEF Merge
<1>4. CASE StopAtBuddyInUse
  <2>1. blk \div 2 \in PageIdx
    BY HalfInZone
  <2> QED BY <1>4, <2>1 DEF StopAtBuddyInUse, AddToList
<1>5. CASE StopAtTopOrder
  BY <1>5 DEF StopAtTopOrder, AddToList
<1>6. CASE UNCHANGED vars
  BY <1>6 DEF vars
<1> QED
  BY <1>1, <1>2, <1>3, <1>4, <1>5, <1>6 DEF Next

(* The fields of the zone, of its free areas and of its pages keep their   *)
(* types in every behaviour.                                               *)
THEOREM TypeCorrect == Spec => []TypeOK
BY InitTypeOK, NextTypeOK, PTL DEF Spec

----------------------------------------------------------------------------
(* Blocks that appear in the invariants *)

(* Membership in the sets of pages, with the block that accounts for it. *)
LEMMA ListedBy ==
  ASSUME TypeOK, BlocksInZone, NEW o \in Orders, NEW b \in free_list[o],
         NEW p \in BlockPages(o, b)
  PROVE  p \in ListedPages
BY DEF TypeOK, BlocksInZone, ListedPages

LEMMA NaturalBlocks ==
  ASSUME TypeOK
  PROVE  /\ blk \in Nat
         /\ \A o \in Orders : free_list[o] \subseteq Nat
BY DEF TypeOK, PageIdx

(* The block being merged is not itself on a list, nor is anything that    *)
(* contains its first page.                                                *)
LEMMA MovingNotListed ==
  ASSUME TypeOK, BlocksDisjoint, BlocksInZone, pc = "merge"
  PROVE  blk \notin free_list[area]
<1> SUFFICES ASSUME blk \in free_list[area] PROVE FALSE
  OBVIOUS
<1>1. area \in Orders /\ blk \in Nat
  BY NaturalBlocks DEF TypeOK
<1>2. FirstPage(area, blk) \in BlockPages(area, blk)
  BY <1>1, InBlock
<1>3. FirstPage(area, blk) \in ListedPages
  BY <1>1, <1>2, ListedBy
<1>4. FirstPage(area, blk) \in MovingPages
  BY <1>2 DEF MovingPages
<1> QED
  BY <1>3, <1>4 DEF BlocksDisjoint

(* What a merge relies on: the bit is 1, the block in hand is not listed,  *)
(* so its buddy is, and lies in the zone.                                  *)
LEMMA BuddyFound ==
  ASSUME IInv, Merge
  PROVE  /\ BuddyOf(blk) \in free_list[area]
         /\ ~BadRange(area, BuddyOf(blk))
         /\ ~BadRange(area, blk)
<1> USE DEF IInv
<1>1. area \in Orders /\ area # Top /\ blk \in Nat /\ blk \div 2 \in PageIdx
  BY NaturalBlocks, HalfInZone DEF Merge, TypeOK
<1>2. blk \notin free_list[area]
  BY MovingNotListed DEF Merge
<1>3. (2 * (blk \div 2) \in free_list[area]) # (2 * (blk \div 2) + 1 \in free_list[area])
  BY <1>1 DEF Merge, BitTellsPairState
<1>4. BuddyOf(blk) \in free_list[area]
  BY <1>1, <1>2, <1>3, PairOf
<1>5. BlockPages(area, BuddyOf(blk)) \subseteq PageIdx
  BY <1>1, <1>4 DEF BlocksInZone
<1>6. BlockPages(area, blk) \subseteq PageIdx
  BY DEF BlocksInZone, MovingPages, Merge
<1> QED
  BY <1>1, <1>4, <1>5, <1>6, InBlock, PairOf DEF BadRange

----------------------------------------------------------------------------
(* The inductive invariant, action by action *)

LEMMA InitIInv == Init => IInv
<1> SUFFICES ASSUME Init PROVE IInv
  OBVIOUS
<1>1. TypeOK
  BY InitTypeOK
<1>2. ListedPages = {} /\ MovingPages = {}
  BY DEF Init, ListedPages, MovingPages
<1>3. \A o \in Orders : free_list[o] = {} /\ map[o] = {}
  BY DEF Init
<1>4. PutOnce
  BY DEF Init, PutOnce
<1>5. BitTellsPairState
  BY <1>3 DEF BitTellsPairState
<1> QED
  BY <1>1, <1>2, <1>3, <1>4, <1>5
     DEF Init, IInv, NoBug, BlocksDisjoint, BlocksInZone, HeldApart

(* Actions that touch neither the lists nor the block in hand. *)
LEMMA SameBlocks ==
  ASSUME IInv, TypeOK', UNCHANGED <<free_list, map, pc, area, blk, held>>, PutOnce'
  PROVE  IInv'
<1>1. ListedPages' = ListedPages /\ MovingPages' = MovingPages
  BY DEF ListedPages, MovingPages
<1> QED
  BY <1>1 DEF IInv, NoBug, BitTellsPairState, BlocksDisjoint, BlocksInZone, HeldApart

LEMMA PreparePageIInv ==
  ASSUME IInv, TypeOK', NEW p \in PageIdx, PreparePage(p)
  PROVE  IInv'
<1>1. PutOnce'
  BY DEF IInv, TypeOK, PutOnce, PreparePage
<1> QED
  BY <1>1, SameBlocks DEF PreparePage

(* A put that takes the last reference was of a block still with its owner. *)
LEMMA LastPutOwned ==
  ASSUME IInv, NEW o \in Orders, NEW b \in PageIdx, CallerMayPut(o, b),
         FirstPage(o, b) \in PageIdx \ reserved, count[FirstPage(o, b)] = 1
  PROVE  /\ BlockPages(o, b) \subseteq held
         /\ \A p \in BlockPages(o, b) \ {FirstPage(o, b)} : p \in reserved \/ count[p] <= 0
<1>1. FirstPage(o, b) \in held
  BY DEF IInv, PutOnce
<1>2. CASE o = 0
  <2>1. b \in Nat /\ b * 1 = b /\ (b + 1) * 1 - 1 = b
    BY HalfInZone
  <2>2. BlockPages(o, b) = b .. b /\ FirstPage(o, b) = b
    BY <1>2, <2>1, BlockSizeAssumption DEF BlockPages, FirstPage
  <2>3. b .. b = {b}
    BY <2>1
  <2> QED BY <1>1, <2>2, <2>3
<1>3. CASE o # 0
  BY <1>3 DEF CallerMayPut
<1> QED
  BY <1>2, <1>3

LEMMA FreePagesIInv ==
  ASSUME IInv, TypeOK', NEW o \in FreeOrders, NEW b \in PageIdx, FreePages(o, b)
  PROVE  IInv'
<1> DEFINE page == FirstPage(o, b)
<1>1. o \in Orders /\ page \in PageIdx \ reserved /\ count[page] \in Int
  BY OrderAssumption DEF IInv, TypeOK, FreePages
<1>2. CASE count[page] # 1
  <2>1. PutOnce'
    BY <1>1, <1>2 DEF IInv, TypeOK, PutOnce, FreePages
  <2> QED BY <1>2, <2>1, SameBlocks DEF FreePages
<1>3. CASE count[page] = 1
  <2>1. /\ BlockPages(o, b) \subseteq held
        /\ \A p \in BlockPages(o, b) \ {page} : p \in reserved \/ count[p] <= 0
    BY <1>1, <1>3, LastPutOwned DEF FreePages
  <2>2. VALID_PAGE(page)
    BY <1>1, ZoneAssumption DEF VALID_PAGE, PageIdx
  <2>3. /\ pc = "idle" /\ pc' = "merge" /\ area' = o /\ blk' = b
        /\ held' = held \ BlockPages(o, b)
        /\ count' = [count EXCEPT ![page] = 0]
        /\ UNCHANGED <<reserved, free_list, map>>
    BY <1>3, <2>2 DEF FreePages
  <2>4. /\ ListedPages' = ListedPages
        /\ MovingPages = {} /\ MovingPages' = BlockPages(o, b)
    BY <2>3 DEF ListedPages, MovingPages
  <2>5. NoBug' /\ BitTellsPairState'
    BY <2>3 DEF IInv, NoBug, BitTellsPairState
  <2>6. BlocksDisjoint'
    BY <2>1, <2>3, <2>4 DEF IInv, HeldApart, BlocksDisjoint
  <2>7. BlocksInZone' /\ HeldApart'
    BY <2>1, <2>3, <2>4 DEF IInv, TypeOK, HeldApart, BlocksInZone
  <2>8. PutOnce'
    BY <1>1, <2>1, <2>3 DEF IInv, TypeOK, PutOnce
  <2> QED BY <2>5, <2>6, <2>7, <2>8 DEF IInv
<1> QED
  BY <1>2, <1>3

(* A merge moves the buddy's pages from the lists into the block in hand. *)
LEMMA MergePages ==
  ASSUME IInv, Merge
  PROVE  /\ pc' = "merge" /\ area' = area + 1 /\ blk' = blk \div 2
         /\ free_list' = [free_list EXCEPT ![area] = @ \ {BuddyOf(blk)}]
         /\ MovingPages' = MovingPages \cup BlockPages(area, BuddyOf(blk))
         /\ ListedPages' = ListedPages \ BlockPages(area, BuddyOf(blk))
<1> DEFINE buddy == BuddyOf(blk)
<1>1. area \in Orders /\ area # Top /\ blk \in Nat /\ buddy \in Nat
  BY NaturalBlocks, PairOf DEF Merge, IInv, TypeOK
<1>2. buddy \in free_list[area]
  BY BuddyFound
<1>3. /\ pc = "merge" /\ pc' = "merge" /\ area' = area + 1 /\ blk' = blk \div 2
      /\ free_list' = [free_list EXCEPT ![area] = @ \ {buddy}]
  BY BuddyFound DEF Merge
<1>4. MovingPages' = MovingPages \cup BlockPages(area, buddy)
  BY <1>1, <1>3, MergedBlock DEF MovingPages
<1>5. /\ \A o \in Orders : free_list'[o] \subseteq free_list[o]
      /\ \A o \in Orders : o # area => free_list'[o] = free_list[o]
      /\ free_list'[area] = free_list[area] \ {buddy}
  BY <1>1, <1>3 DEF IInv, TypeOK
<1>6. ASSUME NEW p \in ListedPages, p \notin BlockPages(area, buddy)
      PROVE  p \in ListedPages'
  BY <1>5, <1>6 DEF ListedPages
<1>7. ASSUME NEW p \in ListedPages'
      PROVE  p \in ListedPages \ BlockPages(area, buddy)
  <2>1. PICK o \in Orders : \E b \in free_list'[o] : p \in BlockPages(o, b)
    BY <1>7 DEF ListedPages
  <2>2. PICK b \in free_list'[o] : p \in BlockPages(o, b) /\ p \in PageIdx
    BY <1>7, <2>1 DEF ListedPages
  <2>3. p \in ListedPages /\ b \in free_list[o]
    BY <1>5, <2>2 DEF ListedPages
  <2>4. ~(o = area /\ b = buddy)
    BY <1>5, <2>2
  <2>5. p \notin BlockPages(area, buddy)
    BY <1>1, <1>2, <2>2, <2>3, <2>4 DEF IInv, BlocksDisjoint
  <2> QED BY <2>3, <2>5
<1> QED
  BY <1>3, <1>4, <1>6, <1>7

LEMMA MergeIInv ==
  ASSUME IInv, TypeOK', Merge
  PROVE  IInv'
<1> DEFINE buddy == BuddyOf(blk)
<1> USE MergePages
<1>1. /\ area \in Orders /\ area # Top /\ blk \div 2 \in PageIdx
      /\ UNCHANGED <<reserved, count, held>>
      /\ map' = [map EXCEPT ![area] = @ \ {blk \div 2}]
  BY HalfInZone DEF Merge, IInv, TypeOK
<1>2. buddy \in free_list[area] /\ blk \notin free_list[area] /\ blk \in Nat
  BY BuddyFound, MovingNotListed, NaturalBlocks DEF IInv, Merge
<1>3. /\ \A o \in Orders : free_list'[o] \subseteq free_list[o]
      /\ \A o \in Orders : o # area => free_list'[o] = free_list[o] /\ map'[o] = map[o]
      /\ free_list'[area] = free_list[area] \ {buddy}
      /\ map'[area] = map[area] \ {blk \div 2}
  BY <1>1 DEF IInv, TypeOK
<1>4. BlockPages(area, buddy) \subseteq ListedPages
  BY <1>1, <1>2, ListedBy DEF IInv
<1>5. BitTellsPairState'
  <2> SUFFICES ASSUME NEW o \in Orders \ {Top}, NEW k \in PageIdx
               PROVE  k \in map'[o] <=> (2 * k \in free_list'[o]) # (2 * k + 1 \in free_list'[o])
    BY DEF BitTellsPairState
  <2>1. k \in map[o] <=> (2 * k \in free_list[o]) # (2 * k + 1 \in free_list[o])
    BY DEF IInv, BitTellsPairState
  <2>2. CASE o # area
    BY <1>3, <2>1, <2>2
  <2>3. CASE o = area /\ k = blk \div 2
    BY <1>2, <1>3, <2>3, PairOf
  <2>4. CASE o = area /\ k # blk \div 2
    <3>1. 2 * k # buddy /\ 2 * k + 1 # buddy
      BY <1>2, <2>4, PairOf DEF PageIdx
    <3> QED BY <1>3, <2>1, <2>4, <3>1
  <2> QED BY <2>2, <2>3, <2>4
<1>6. BlocksDisjoint'
  BY <1>3, <1>4 DEF IInv, BlocksDisjoint
<1>7. BlocksInZone' /\ HeldApart'
  BY <1>1, <1>3, <1>4 DEF IInv, BlocksInZone, HeldApart, ListedPages
<1>8. NoBug' /\ PutOnce'
  BY <1>1 DEF IInv, NoBug, PutOnce
<1> QED
  BY <1>5, <1>6, <1>7, <1>8 DEF IInv

(* The end of the loop puts the block in hand on a list, whole. *)
LEMMA StopPages ==
  ASSUME IInv, AddToList, pc = "merge"
  PROVE  /\ MovingPages' = {}
         /\ ListedPages' = ListedPages \cup MovingPages
<1>1. /\ area \in Orders
      /\ \A o \in Orders : o # area => free_list'[o] = free_list[o]
      /\ free_list'[area] = free_list[area] \cup {blk}
      /\ MovingPages = BlockPages(area, blk) /\ MovingPages \subseteq PageIdx
  BY DEF AddToList, IInv, TypeOK, BlocksInZone, MovingPages
<1>2. MovingPages' = {}
  BY DEF AddToList, MovingPages
<1>3. ASSUME NEW p \in ListedPages' PROVE p \in ListedPages \cup MovingPages
  BY <1>1, <1>3 DEF ListedPages
<1>4. ASSUME NEW p \in ListedPages \cup MovingPages PROVE p \in ListedPages'
  BY <1>1, <1>4 DEF ListedPages
<1> QED
  BY <1>2, <1>3, <1>4

LEMMA StopIInv ==
  ASSUME IInv, TypeOK', StopAtBuddyInUse \/ StopAtTopOrder
  PROVE  IInv'
<1>1. /\ AddToList /\ pc = "merge" /\ area \in Orders /\ blk \in Nat
      /\ blk \div 2 \in PageIdx
  BY HalfInZone DEF StopAtBuddyInUse, StopAtTopOrder, IInv, TypeOK
<1>2. /\ pc' = "idle" /\ UNCHANGED <<reserved, count, held>>
      /\ MovingPages' = {}
      /\ ListedPages' = ListedPages \cup MovingPages
      /\ MovingPages = BlockPages(area, blk)
  BY <1>1, StopPages DEF AddToList, MovingPages
<1>3. /\ \A o \in Orders : o # area => free_list'[o] = free_list[o]
      /\ free_list'[area] = free_list[area] \cup {blk}
  BY <1>1 DEF AddToList, IInv, TypeOK
<1>4. blk \notin free_list[area]
  BY <1>1, MovingNotListed DEF IInv
<1>5. BitTellsPairState'
  <2> SUFFICES ASSUME NEW o \in Orders \ {Top}, NEW k \in PageIdx
               PROVE  k \in map'[o] <=> (2 * k \in free_list'[o]) # (2 * k + 1 \in free_list'[o])
    BY DEF BitTellsPairState
  <2>1. k \in map[o] <=> (2 * k \in free_list[o]) # (2 * k + 1 \in free_list[o])
    BY DEF IInv, BitTellsPairState
  <2>2. o # area => map'[o] = map[o]
    BY DEF StopAtBuddyInUse, StopAtTopOrder, IInv, TypeOK
  <2>3. CASE o # area
    BY <1>3, <2>1, <2>2, <2>3
  <2>4. o = area => StopAtBuddyInUse
    BY DEF StopAtTopOrder
  <2>5. o = area => /\ blk \div 2 \notin map[area]
                    /\ map'[area] = map[area] \cup {blk \div 2}
    BY <2>4 DEF StopAtBuddyInUse, IInv, TypeOK
  <2>6. CASE o = area /\ k = blk \div 2
    <3>1. BuddyOf(blk) \notin free_list[area]
      BY <1>1, <1>4, <2>1, <2>5, <2>6, PairOf
    <3> QED BY <1>1, <1>3, <1>4, <2>5, <2>6, <3>1, PairOf
  <2>7. CASE o = area /\ k # blk \div 2
    <3>1. 2 * k # blk /\ 2 * k + 1 # blk
      BY <1>1, <2>7, PairOf DEF PageIdx
    <3> QED BY <1>3, <2>1, <2>5, <2>7, <3>1
  <2> QED BY <2>3, <2>6, <2>7
<1>6. BlocksDisjoint'
  <2> SUFFICES ASSUME NEW o1 \in Orders, NEW o2 \in Orders,
                      NEW b1 \in free_list'[o1], NEW b2 \in free_list'[o2],
                      NEW p \in BlockPages(o1, b1), p \in BlockPages(o2, b2)
               PROVE  o1 = o2 /\ b1 = b2
    BY <1>2 DEF BlocksDisjoint
  <2>1. ASSUME NEW o \in Orders, NEW b \in free_list[o], p \in BlockPages(o, b)
        PROVE  p \notin BlockPages(area, blk)
    BY <1>2, <2>1, ListedBy DEF IInv, BlocksDisjoint
  <2>2. b1 \in free_list[o1] \/ (o1 = area /\ b1 = blk)
    BY <1>3
  <2>3. b2 \in free_list[o2] \/ (o2 = area /\ b2 = blk)
    BY <1>3
  <2> QED BY <2>1, <2>2, <2>3 DEF IInv, BlocksDisjoint
<1>7. BlocksInZone' /\ HeldApart'
  BY <1>1, <1>2, <1>3 DEF IInv, BlocksInZone, HeldApart
<1>8. NoBug' /\ PutOnce'
  BY <1>2 DEF IInv, NoBug, PutOnce
<1> QED
  BY <1>5, <1>6, <1>7, <1>8 DEF IInv

LEMMA NextIInv == IInv /\ [Next]_vars => IInv'
<1> SUFFICES ASSUME IInv, [Next]_vars PROVE IInv'
  OBVIOUS
<1>1. TypeOK'
  BY NextTypeOK DEF IInv
<1>2. ASSUME NEW p \in PageIdx, PreparePage(p) PROVE IInv'
  BY <1>1, <1>2, PreparePageIInv
<1>3. ASSUME NEW o \in FreeOrders, NEW b \in PageIdx, FreePages(o, b) PROVE IInv'
  BY <1>1, <1>3, FreePagesIInv
<1>4. CASE Merge
  BY <1>1, <1>4, MergeIInv
<1>5. CASE StopAtBuddyInUse \/ StopAtTopOrder
  BY <1>1, <1>5, StopIInv
<1>6. CASE UNCHANGED vars
  <2>1. PutOnce'
    BY <1>6 DEF vars, IInv, PutOnce
  <2> QED BY <1>1, <1>6, <2>1, SameBlocks DEF vars
<1> QED
  BY <1>2, <1>3, <1>4, <1>5, <1>6 DEF Next

LEMMA Inductive == Spec => []IInv
BY InitIInv, NextIInv, PTL DEF Spec

(* No behaviour reaches a BUG() of the free path: __free_pages_ok always   *)
(* takes off the list a buddy that is on it and inside the zone.           *)
THEOREM NeverBug == Spec => []NoBug
BY Inductive, PTL DEF IInv

(* The bit of a pair always says whether exactly one of the two is free.   *)
THEOREM BitmapCorrect == Spec => []BitTellsPairState
BY Inductive, PTL DEF IInv

(* No page is ever in two free blocks. *)
THEOREM NoPageTwice == Spec => []BlocksDisjoint
BY Inductive, PTL DEF IInv
----------------------------------------------------------------------------
(***************************************************************************)
(* The set of free pages: the page count is exact, the whole implements    *)
(* the plain PagePool, and the lists always hold the largest free blocks.  *)
(***************************************************************************)
FreeSet == ListedPages \cup MovingPages

(* How each step changes the set of free pages: only the put that takes a  *)
(* last reference does, by a block that was not free.                      *)
Frees(o, b) == FreePages(o, b) /\ count[FirstPage(o, b)] = 1

LEMMA FreeSetSteps ==
  ASSUME IInv, [Next]_vars
  PROVE  \/ /\ FreeSet' = FreeSet /\ UNCHANGED free_pages
         \/ \E o \in FreeOrders, b \in PageIdx :
              /\ Frees(o, b) /\ pc' = "merge" /\ area' = o /\ blk' = b
              /\ ListedPages' = ListedPages /\ MovingPages = {}
              /\ FreeSet' = FreeSet \cup BlockPages(o, b)
              /\ FreeSet \cap BlockPages(o, b) = {}
              /\ BlockPages(o, b) \subseteq PageIdx
              /\ free_pages' = free_pages + BlockSize[o]
<1>1. ASSUME NEW p \in PageIdx, PreparePage(p)
      PROVE  FreeSet' = FreeSet /\ UNCHANGED free_pages
  BY <1>1 DEF PreparePage, FreeSet, ListedPages, MovingPages
<1>2. ASSUME NEW o \in FreeOrders, NEW b \in PageIdx, FreePages(o, b),
             count[FirstPage(o, b)] # 1
      PROVE  FreeSet' = FreeSet /\ UNCHANGED free_pages
  BY <1>2 DEF FreePages, FreeSet, ListedPages, MovingPages
<1>3. ASSUME NEW o \in FreeOrders, NEW b \in PageIdx, Frees(o, b)
      PROVE  /\ pc' = "merge" /\ area' = o /\ blk' = b
             /\ ListedPages' = ListedPages /\ MovingPages = {}
             /\ FreeSet' = FreeSet \cup BlockPages(o, b)
             /\ FreeSet \cap BlockPages(o, b) = {}
             /\ BlockPages(o, b) \subseteq PageIdx
             /\ free_pages' = free_pages + BlockSize[o]
  <2>1. o \in Orders /\ CallerMayPut(o, b) /\ FirstPage(o, b) \in PageIdx \ reserved
    BY <1>3, OrderAssumption DEF Frees, FreePages
  <2>2. BlockPages(o, b) \subseteq held
    BY <1>3, <2>1, LastPutOwned DEF Frees
  <2>3. VALID_PAGE(FirstPage(o, b))
    BY <2>1, ZoneAssumption DEF VALID_PAGE, PageIdx
  <2>4. /\ pc = "idle" /\ pc' = "merge" /\ area' = o /\ blk' = b
        /\ free_pages' = free_pages + BlockSize[o] /\ UNCHANGED free_list
    BY <1>3, <2>3 DEF Frees, FreePages
  <2>5. ListedPages' = ListedPages /\ MovingPages = {} /\ MovingPages' = BlockPages(o, b)
    BY <2>4 DEF ListedPages, MovingPages
  <2> QED BY <2>2, <2>4, <2>5 DEF FreeSet, IInv, TypeOK, HeldApart
<1>4. CASE Merge
  <2>1. BlockPages(area, BuddyOf(blk)) \subseteq ListedPages
    BY <1>4, BuddyFound, ListedBy DEF IInv, TypeOK
  <2> QED BY <1>4, <2>1, MergePages DEF FreeSet, Merge
<1>5. CASE StopAtBuddyInUse \/ StopAtTopOrder
  BY <1>5, StopPages DEF FreeSet, StopAtBuddyInUse, StopAtTopOrder, AddToList
<1>6. CASE UNCHANGED vars
  BY <1>6 DEF vars, FreeSet, ListedPages, MovingPages
<1> QED
  BY <1>1, <1>2, <1>3, <1>4, <1>5, <1>6 DEF Next, Frees
----------------------------------------------------------------------------
(* The page count *)

LEMMA FreeSetFinite ==
  ASSUME IInv
  PROVE  FreeSet \subseteq PageIdx /\ IsFiniteSet(FreeSet)
<1>1. FreeSet \subseteq PageIdx
  BY DEF FreeSet, ListedPages, IInv, BlocksInZone
<1>2. IsFiniteSet(PageIdx)
  BY ZoneAssumption, FS_Interval DEF PageIdx
<1> QED
  BY <1>1, <1>2, FS_Subset

LEMMA AddBlock ==
  ASSUME IInv, NEW o \in Orders, NEW b \in Nat, FreeSet \cap BlockPages(o, b) = {}
  PROVE  Cardinality(FreeSet \cup BlockPages(o, b)) = Cardinality(FreeSet) + BlockSize[o]
<1>1. IsFiniteSet(FreeSet) /\ IsFiniteSet(BlockPages(o, b))
  BY FreeSetFinite, BlockCardinality
<1>2. Cardinality(FreeSet \cup BlockPages(o, b))
        = Cardinality(FreeSet) + Cardinality(BlockPages(o, b))
            - Cardinality(FreeSet \cap BlockPages(o, b))
  BY <1>1, FS_Union
<1>3. Cardinality(FreeSet \cap BlockPages(o, b)) = 0
  BY FS_EmptySet
<1>4. Cardinality(FreeSet) \in Nat /\ BlockSize[o] \in Nat
  BY <1>1, Sizes, FS_CardinalityType
<1> QED
  BY <1>2, <1>3, <1>4, BlockCardinality

LEMMA InitExact == Init => FreePagesExact
BY FS_EmptySet DEF Init, FreePagesExact, ListedPages, MovingPages

LEMMA NextExact == IInv /\ FreePagesExact /\ [Next]_vars => FreePagesExact'
<1> SUFFICES ASSUME IInv, FreePagesExact, [Next]_vars PROVE FreePagesExact'
  OBVIOUS
<1>1. CASE FreeSet' = FreeSet /\ UNCHANGED free_pages
  BY <1>1 DEF FreePagesExact, FreeSet
<1>2. ASSUME NEW o \in FreeOrders, NEW b \in PageIdx,
             FreeSet' = FreeSet \cup BlockPages(o, b),
             FreeSet \cap BlockPages(o, b) = {},
             free_pages' = free_pages + BlockSize[o]
      PROVE  FreePagesExact'
  <2>1. o \in Orders /\ b \in Nat
    BY OrderAssumption, HalfInZone
  <2> QED BY <1>2, <2>1, AddBlock DEF FreePagesExact, FreeSet
<1> QED
  BY <1>1, <1>2, FreeSetSteps

(* free_pages always is the number of free pages. *)
THEOREM CountExact == Spec => []FreePagesExact
BY InitExact, NextExact, Inductive, PTL DEF Spec
----------------------------------------------------------------------------
(* Refinement *)

LEMMA StepImplementsPool ==
  IInv /\ [Next]_vars => [Pool!Free]_(Pool!poolVars)
<1> SUFFICES ASSUME IInv, [Next]_vars PROVE [Pool!Free]_(Pool!poolVars)
  OBVIOUS
<1>1. CASE FreeSet' = FreeSet /\ UNCHANGED free_pages
  BY <1>1 DEF Pool!poolVars, FreeSet
<1>2. ASSUME NEW o \in FreeOrders, NEW b \in PageIdx,
             FreeSet' = FreeSet \cup BlockPages(o, b),
             FreeSet \cap BlockPages(o, b) = {},
             BlockPages(o, b) \subseteq PageIdx,
             free_pages' = free_pages + BlockSize[o]
      PROVE  Pool!Free
  <2>1. o \in Orders /\ b \in Nat
    BY OrderAssumption, HalfInZone
  <2>2. FreeSet' \ FreeSet = BlockPages(o, b)
    BY <1>2
  <2>3. BlockPages(o, b) # {} /\ Cardinality(BlockPages(o, b)) = BlockSize[o]
    BY <2>1, InBlock, BlockCardinality
  <2>4. FreeSet' \subseteq PageIdx
    BY <1>2, FreeSetFinite
  <2>5. /\ FreeSet \subseteq FreeSet' /\ FreeSet' \subseteq PageIdx
        /\ FreeSet' \ FreeSet # {}
        /\ free_pages' = free_pages + Cardinality(FreeSet' \ FreeSet)
    BY <1>2, <2>2, <2>3, <2>4
  <2>6. \A S : Pool!Cardinality(S) = Cardinality(S)
    BY DEF Pool!Cardinality, Cardinality
  <2> QED BY ONLY <2>5, <2>6 DEF Pool!Free, FreeSet
<1> QED
  BY <1>1, <1>2, FreeSetSteps

(* Every behaviour of the buddy system is one of the pool of free pages. *)
THEOREM ImplementsPool == Spec => PoolSpec
<1>1. Init => Pool!Init
  BY DEF Init, Pool!Init, ListedPages, MovingPages
<1> QED
  BY <1>1, StepImplementsPool, Inductive, PTL DEF Spec, PoolSpec, Pool!Spec
----------------------------------------------------------------------------
(* The lists hold the largest free blocks *)

LEMMA TimesMonotone ==
  ASSUME NEW x \in Nat, NEW y \in Nat, NEW s \in Nat \ {0}
  PROVE  /\ x * s \in Nat /\ y * s \in Nat
         /\ x <= y => x * s <= y * s
         /\ x * s < y * s => x < y
<1>1. x * s \in Nat /\ y * s \in Nat
  OBVIOUS
<1>2. ASSUME NEW u \in Nat, NEW v \in Nat, u <= v PROVE u * s <= v * s
  <2>1. PICK d \in Nat : v = u + d
    <3>1. v - u \in Nat /\ v = u + (v - u)
      BY <1>2
    <3> QED BY <3>1
  <2>2. v * s = u * s + d * s /\ u * s \in Nat /\ d * s \in Nat
    BY <2>1
  <2>3. ASSUME NEW us \in Nat, NEW ds \in Nat PROVE us <= us + ds
    OBVIOUS
  <2> QED BY <2>2, <2>3
<1>3. ASSUME x * s < y * s PROVE x < y
  <2>1. ~(y <= x)
    <3>1. ASSUME y <= x PROVE FALSE
      <4>1. y * s <= x * s
        BY <1>2, <3>1
      <4>2. ASSUME NEW m \in Nat, NEW n \in Nat, n <= m PROVE ~(m < n)
        BY <4>2
      <4> QED BY <1>1, <1>3, <4>1, <4>2
    <3> QED BY <3>1
  <2> QED BY <2>1
<1> QED
  BY <1>1, <1>2, <1>3

(* Of two blocks that share a page the one of lower order lies inside the  *)
(* other, together with the rest of its pair if the orders differ.         *)
LEMMA Nested ==
  ASSUME NEW o1 \in Orders, NEW o2 \in Orders, o1 <= o2,
         NEW b1 \in Nat, NEW b2 \in Nat,
         NEW p \in BlockPages(o1, b1), p \in BlockPages(o2, b2)
  PROVE  BlockPages(o1, b1) \subseteq BlockPages(o2, b2)
<1>1. PICK s \in Nat \ {0}, k \in Nat \ {0} :
        s = BlockSize[o1] /\ BlockSize[o2] = s * k
  <2>1. o2 - o1 \in Orders /\ o1 + (o2 - o1) = o2
    BY OrderAssumption DEF Orders
  <2>2. BlockSize[o1 + (o2 - o1)] = BlockSize[o1] * BlockSize[o2 - o1]
    BY <2>1, BlockSizeAssumption
  <2>3. BlockSize[o1] \in Nat \ {0} /\ BlockSize[o2 - o1] \in Nat \ {0}
    BY <2>1, Sizes
  <2> QED BY <2>1, <2>2, <2>3
<1>2. PICK c \in Nat : c = b2 * k
  BY Distribute
<1>3. c * s = b2 * (s * k) /\ (c + k) * s = b2 * (s * k) + s * k
  BY <1>2
<1>4. p \in Nat /\ b1 * s <= p /\ p < b1 * s + s
  BY <1>1, InBlock
<1>5. c * s <= p /\ p < (c + k) * s
  BY <1>1, <1>3, <1>4, InBlock
<1>6. (b1 + 1) * s = b1 * s + s /\ b1 * s \in Nat /\ c * s \in Nat /\ (c + k) * s \in Nat
  BY Distribute, <1>1
<1>7. c < b1 + 1 /\ b1 < c + k
  <2>1. c * s < (b1 + 1) * s
    BY <1>4, <1>5, <1>6
  <2>2. b1 * s < (c + k) * s
    BY <1>4, <1>5, <1>6
  <2> QED BY <2>1, <2>2, TimesMonotone
<1>8. c * s <= b1 * s /\ (b1 + 1) * s <= (c + k) * s
  <2>1. c <= b1 /\ b1 + 1 <= c + k
    BY <1>7
  <2> QED BY <2>1, TimesMonotone
<1>9. ASSUME NEW q \in BlockPages(o1, b1) PROVE q \in BlockPages(o2, b2)
  <2>1. q \in Nat /\ b1 * s <= q /\ q < b1 * s + s
    BY <1>1, InBlock
  <2>2. c * s <= q /\ q < (c + k) * s
    BY <1>6, <1>8, <2>1
  <2> QED BY <1>1, <1>3, <2>1, <2>2, InBlock
<1> QED
  BY <1>9

Parent(o, b) == BlockPages(o + 1, b \div 2)

LEMMA NestedParent ==
  ASSUME NEW o1 \in Orders, NEW o2 \in Orders, o1 < o2,
         NEW b1 \in Nat, NEW b2 \in Nat,
         NEW p \in BlockPages(o1, b1), p \in BlockPages(o2, b2)
  PROVE  Parent(o1, b1) \subseteq BlockPages(o2, b2)
<1>1. o1 # Top /\ o1 + 1 <= o2 /\ o1 + 1 \in Orders
  BY OrderAssumption DEF Orders, Top
<1>2. b1 \div 2 \in Nat /\ p \in BlockPages(o1 + 1, b1 \div 2)
  BY <1>1, MergedBlock, PairOf
<1> QED
  BY <1>1, <1>2, Nested DEF Parent

(* LargestBlocks without its guard, which holds in mid-merge too: the      *)
(* lists alone are canonical for the pages they hold.                      *)
Canonical ==
  \A o \in Orders, b \in PageIdx :
    b \in free_list[o] <=>
      /\ BlockPages(o, b) \subseteq ListedPages
      /\ o # Top => ~(Parent(o, b) \subseteq ListedPages)

LEMMA InitCanonical == Init => Canonical
<1> SUFFICES ASSUME Init, NEW o \in Orders, NEW b \in PageIdx
             PROVE  b \notin free_list[o] /\ ~(BlockPages(o, b) \subseteq ListedPages)
  BY DEF Canonical
<1>1. ListedPages = {} /\ free_list[o] = {}
  BY DEF Init, ListedPages
<1>2. BlockPages(o, b) # {}
  BY HalfInZone, InBlock
<1> QED
  BY <1>1, <1>2

(* Listing a block whose buddy is not listed keeps the lists canonical.    *)
LEMMA StopCanonical ==
  ASSUME IInv, Canonical, StopAtBuddyInUse \/ StopAtTopOrder
  PROVE  Canonical'
<1> DEFINE moving == BlockPages(area, blk)
<1>1. /\ AddToList /\ pc = "merge" /\ area \in Orders /\ blk \in Nat
      /\ blk \in PageIdx /\ blk \div 2 \in PageIdx
  BY HalfInZone DEF StopAtBuddyInUse, StopAtTopOrder, IInv, TypeOK
<1>2. /\ ListedPages' = ListedPages \cup moving
      /\ ListedPages \cap moving = {}
  BY <1>1, StopPages DEF MovingPages, IInv, BlocksDisjoint
<1>3. /\ \A o \in Orders : o # area => free_list'[o] = free_list[o]
      /\ free_list'[area] = free_list[area] \cup {blk}
  BY <1>1 DEF AddToList, IInv, TypeOK
<1>4. blk \notin free_list[area]
  BY <1>1, MovingNotListed DEF IInv
<1>5. area # Top => ~(Parent(area, blk) \subseteq ListedPages')
  <2> SUFFICES ASSUME area # Top, Parent(area, blk) \subseteq ListedPages'
               PROVE  FALSE
    OBVIOUS
  <2>1. StopAtBuddyInUse /\ blk \div 2 \notin map[area]
    BY DEF StopAtTopOrder, StopAtBuddyInUse
  <2>2. BuddyOf(blk) \notin free_list[area]
    BY <1>1, <1>4, <2>1, PairOf DEF IInv, BitTellsPairState
  <2>3. BuddyOf(blk) \in Nat /\ BuddyOf(blk) # blk /\ BuddyOf(blk) \div 2 = blk \div 2
    BY <1>1 DEF BuddyOf
  <2>4. Parent(area, blk) = moving \cup BlockPages(area, BuddyOf(blk))
    BY <1>1, MergedBlock DEF Parent
  <2>5. BlockPages(area, BuddyOf(blk)) \cap moving = {}
    BY <1>1, <2>3, SameOrder
  <2>6. BlockPages(area, BuddyOf(blk)) \subseteq ListedPages
    BY <1>2, <2>4, <2>5
  <2>7. BuddyOf(blk) \in PageIdx
    <3>1. FirstPage(area, BuddyOf(blk)) \in ListedPages
      BY <1>1, <2>3, <2>6, InBlock
    <3>2. BuddyOf(blk) * 1 <= BuddyOf(blk) * BlockSize[area]
      <4>1. PICK s \in Nat \ {0} : s = BlockSize[area]
        BY <1>1, Sizes
      <4>2. s * BuddyOf(blk) = BuddyOf(blk) * s /\ 1 * BuddyOf(blk) = BuddyOf(blk) * 1
        BY <2>3, <4>1
      <4>3. BuddyOf(blk) = 0 \/ BuddyOf(blk) \in Nat \ {0}
        BY <2>3
      <4>4. CASE BuddyOf(blk) = 0
        BY <4>1, <4>4
      <4>5. CASE BuddyOf(blk) \in Nat \ {0}
        BY <4>1, <4>2, <4>5, TimesMonotone
      <4> QED BY <4>3, <4>4, <4>5
    <3>3. BuddyOf(blk) * BlockSize[area] \in PageIdx
      BY <3>1 DEF FirstPage, ListedPages
    <3> QED BY <2>3, <3>2, <3>3, ZoneAssumption DEF PageIdx
  <2>8. Parent(area, BuddyOf(blk)) \subseteq ListedPages
    BY <1>1, <2>2, <2>6, <2>7 DEF Canonical
  <2>9. moving \subseteq ListedPages /\ FirstPage(area, blk) \in moving
    BY <1>1, <2>3, <2>4, <2>8, InBlock DEF Parent
  <2> QED BY <1>2, <2>9
<1>6. ASSUME NEW o \in Orders, NEW b \in PageIdx
      PROVE  b \in free_list'[o] <=>
               /\ BlockPages(o, b) \subseteq ListedPages'
               /\ o # Top => ~(Parent(o, b) \subseteq ListedPages')
  <2>0. b \in Nat /\ b \div 2 \in Nat
    BY HalfInZone, PairOf
  <2>1. CASE o = area /\ b = blk
    BY <1>2, <1>3, <1>5, <2>1
  <2>2. CASE ~(o = area /\ b = blk)
    <3>1. b \in free_list'[o] <=> b \in free_list[o]
      BY <1>3, <2>2
    (* A block above the moving one would contain its parent, which is not whole. *)
    <3>2. ASSUME NEW x \in Orders, NEW c \in Nat, area < x,
                 BlockPages(x, c) \subseteq ListedPages'
          PROVE  BlockPages(x, c) \subseteq ListedPages
      <4> SUFFICES ASSUME NEW p \in BlockPages(x, c), p \in moving PROVE FALSE
        BY <1>2, <3>2
      <4>1. Parent(area, blk) \subseteq BlockPages(x, c)
        BY <1>1, <3>2, NestedParent
      <4>2. area # Top
        BY <1>1, <3>2, OrderAssumption DEF Orders, Top
      <4> QED BY <1>5, <3>2, <4>1, <4>2
    <3>3. ASSUME b \in free_list[o]
          PROVE  /\ BlockPages(o, b) \subseteq ListedPages'
                 /\ o # Top => ~(Parent(o, b) \subseteq ListedPages')
      <4>1. BlockPages(o, b) \subseteq ListedPages
        BY <3>3 DEF Canonical
      <4>2. ASSUME o # Top, Parent(o, b) \subseteq ListedPages' PROVE FALSE
        <5>1. ~(Parent(o, b) \subseteq ListedPages) /\ o + 1 \in Orders
          BY <3>3, <4>2, Sizes DEF Canonical
        <5>2. PICK p \in Parent(o, b) : p \in moving
          BY <1>2, <4>2, <5>1
        <5>3. CASE area < o + 1
          BY <2>0, <3>2, <4>2, <5>1, <5>3 DEF Parent
        <5>4. CASE o + 1 <= area
          <6>1. Parent(o, b) \subseteq moving
            BY <1>1, <2>0, <5>1, <5>2, <5>4, Nested DEF Parent
          <6>2. FirstPage(o, b) \in BlockPages(o, b) /\ FirstPage(o, b) \in Parent(o, b)
            BY <2>0, <4>2, InBlock, MergedBlock DEF Parent
          <6> QED BY <1>2, <4>1, <6>1, <6>2
        <5> QED BY <1>1, <5>1, <5>3, <5>4 DEF Orders
      <4> QED BY <1>2, <4>1, <4>2
    <3>4. ASSUME BlockPages(o, b) \subseteq ListedPages',
                 o # Top => ~(Parent(o, b) \subseteq ListedPages')
          PROVE  b \in free_list[o]
      <4>1. o # Top => ~(Parent(o, b) \subseteq ListedPages)
        BY <1>2, <3>4
      <4>2. BlockPages(o, b) \subseteq ListedPages
        <5> SUFFICES ASSUME NEW p \in BlockPages(o, b), p \in moving PROVE FALSE
          BY <1>2, <3>4
        <5>1. CASE area < o
          BY <1>2, <2>0, <3>2, <3>4, <5>1
        <5>2. CASE o = area
          BY <1>1, <2>0, <2>2, <5>2, SameOrder
        <5>3. CASE o < area
          <6>1. Parent(o, b) \subseteq moving /\ o # Top
            BY <1>1, <2>0, <5>3, NestedParent, OrderAssumption DEF Orders, Top
          <6> QED BY <1>2, <3>4, <6>1
        <5> QED BY <1>1, <5>1, <5>2, <5>3 DEF Orders
      <4> QED BY <4>1, <4>2 DEF Canonical
    <3> QED BY <3>1, <3>3, <3>4
  <2> QED BY <2>1, <2>2
<1> QED
  <2>1. ASSUME NEW o, NEW b PROVE Parent(o, b)' = Parent(o, b)
    BY DEF Parent, BlockPages
  <2> QED BY <1>6, <2>1 DEF Canonical, Parent, BlockPages

(* Taking the buddy off its list uncovers no larger free block.            *)
LEMMA MergeCanonical ==
  ASSUME IInv, Canonical, Merge
  PROVE  Canonical'
<1> DEFINE buddy == BuddyOf(blk)
           gone  == BlockPages(area, buddy)
<1>1. /\ area \in Orders /\ area # Top /\ buddy \in Nat /\ buddy \in free_list[area]
      /\ ListedPages' = ListedPages \ gone
  BY BuddyFound, MergePages, NaturalBlocks DEF Merge, IInv, TypeOK
<1>2. /\ \A o \in Orders : o # area => free_list'[o] = free_list[o]
      /\ free_list'[area] = free_list[area] \ {buddy}
  BY <1>1, MergePages DEF IInv, TypeOK
<1>3. /\ gone \subseteq ListedPages
      /\ ~(Parent(area, buddy) \subseteq ListedPages)
  BY <1>1 DEF Canonical, IInv, TypeOK
<1>4. ASSUME NEW o \in Orders, NEW b \in PageIdx
      PROVE  b \in free_list'[o] <=>
               /\ BlockPages(o, b) \subseteq ListedPages'
               /\ o # Top => ~(Parent(o, b) \subseteq ListedPages')
  <2>0. b \in Nat /\ b \div 2 \in Nat
    BY HalfInZone, PairOf
  <2>1. ASSUME b \in free_list'[o]
        PROVE  /\ BlockPages(o, b) \subseteq ListedPages'
               /\ o # Top => ~(Parent(o, b) \subseteq ListedPages')
    <3>1. b \in free_list[o] /\ ~(o = area /\ b = buddy)
      BY <1>2, <2>1
    <3>2. BlockPages(o, b) \cap gone = {}
      BY <1>1, <3>1 DEF IInv, BlocksDisjoint
    <3> QED BY <1>1, <3>1, <3>2 DEF Canonical
  <2>2. ASSUME BlockPages(o, b) \subseteq ListedPages',
               o # Top => ~(Parent(o, b) \subseteq ListedPages')
        PROVE  b \in free_list'[o]
    <3>1. FirstPage(o, b) \in BlockPages(o, b) /\ FirstPage(o, b) \notin gone
      BY <1>1, <2>0, <2>2, InBlock
    <3>2. ASSUME o # Top, Parent(o, b) \subseteq ListedPages PROVE FALSE
      <4>1. o + 1 \in Orders /\ FirstPage(o, b) \in Parent(o, b)
        BY <2>0, <3>1, <3>2, Sizes, MergedBlock DEF Parent
      <4>2. PICK p \in Parent(o, b) : p \in gone
        BY <1>1, <2>2, <3>2
      <4>3. CASE area < o + 1
        BY <1>1, <1>3, <2>0, <3>2, <4>1, <4>2, <4>3, NestedParent DEF Parent
      <4>4. CASE o + 1 <= area
        <5>1. Parent(o, b) \subseteq gone
          BY <1>1, <2>0, <4>1, <4>2, <4>4, Nested DEF Parent
        <5> QED BY <3>1, <4>1, <5>1
      <4> QED BY <1>1, <4>1, <4>3, <4>4 DEF Orders
    <3>3. b \in free_list[o]
      BY <1>1, <2>2, <3>2 DEF Canonical
    <3> QED BY <1>2, <3>1, <3>3
  <2> QED BY <2>1, <2>2
<1> QED
  <2>1. ASSUME NEW o, NEW b PROVE Parent(o, b)' = Parent(o, b)
    BY DEF Parent, BlockPages
  <2> QED BY <1>4, <2>1 DEF Canonical, Parent, BlockPages

LEMMA NextCanonical == IInv /\ Canonical /\ [Next]_vars => Canonical'
<1> SUFFICES ASSUME IInv, Canonical, [Next]_vars PROVE Canonical'
  OBVIOUS
<1>1. CASE UNCHANGED free_list
  <2>1. ListedPages' = ListedPages
    BY <1>1 DEF ListedPages
  <2> QED BY <1>1, <2>1 DEF Canonical, Parent, BlockPages
<1>2. CASE Merge
  BY <1>2, MergeCanonical
<1>3. CASE StopAtBuddyInUse \/ StopAtTopOrder
  BY <1>3, StopCanonical
<1> QED
  BY <1>1, <1>2, <1>3 DEF Next, PreparePage, FreePages, vars

LEMMA CanonicalLists == Canonical => LargestBlocks
BY DEF Canonical, LargestBlocks, Parent

(* Between calls the free lists hold exactly the largest free blocks,      *)
(* whatever the order in which the pages were released.                    *)
THEOREM ListsAreLargest == Spec => []LargestBlocks
BY InitCanonical, NextCanonical, CanonicalLists, Inductive, PTL DEF Spec
=============================================================================
