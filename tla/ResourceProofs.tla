--------------------------- MODULE ResourceProofs ---------------------------
(***************************************************************************)
(* Theorems about Resource, for any resources and any width of a word: the *)
(* list of siblings stays in order, and request_resource gives the answers *)
(* of ResourceClaims.  The walk compares a new range with two neighbours   *)
(* only; that the others are no conflict rests on the ranges in the list   *)
(* being proper and disjoint, and this on the list being sorted.           *)
(***************************************************************************)
EXTENDS Resource, TLAPS

Links == Resources \cup {NULL}

Types ==
  /\ start \in [Resources -> Addr] /\ end \in [Resources -> Addr]
  /\ parent \in [Resources -> Links]
  /\ child \in [Resources -> Links]
  /\ sibling \in [Resources -> Links]
  /\ pc \in {"idle", "check", "walk"}

(* Two resources granted within one have nothing in common. *)
Apart(k, r) == end[k] < start[r] \/ end[r] < start[k]

ChildrenApart ==
  \A p \in Resources : \A r \in Children(p) :
    /\ start[r] <= end[r]
    /\ \A k \in Children(p) : k # r => Apart(k, r)

(* The call in progress has nothing wrong behind it: what it asks for is   *)
(* in no list unless it will be refused, and lies behind prev.             *)
Call ==
  /\ answer = "asked" <=> pc # "idle"
  /\ pc # "idle" => /\ root \in Resources /\ new \in Resources /\ root # new
                    /\ Loose(new) \/ OutOfRange(root, new)
  /\ pc = "check" => prev = NULL
  /\ pc = "walk" => /\ ~OutOfRange(root, new)
                    /\ prev # NULL => prev \in Children(root) /\ end[prev] < start[new]

IInv == Types /\ ChildrenApart /\ SiblingsInOrder /\ Call

LEMMA Constants ==
  /\ NULL \notin Resources
  /\ Addr \subseteq Nat
  /\ \A from \in Addr, size \in Sizes : LastAddress(from, size) \in Addr
<1>1. WordSize \in Nat \ {0} /\ Sizes \subseteq Nat /\ NULL \notin Resources
  BY ResourceAssumption
<1>2. ASSUME NEW from \in Addr, NEW size \in Sizes PROVE LastAddress(from, size) \in Addr
  <2>1. from + size - 1 \in Int
    BY <1>1 DEF Addr
  <2>2. (from + size - 1) % WordSize \in 0 .. WordSize - 1
    BY <1>1, <2>1
  <2> QED BY <2>2 DEF LastAddress, Addr
<1> QED
  BY <1>1, <1>2 DEF Addr

LEMMA InitInv == Init => IInv
<1> SUFFICES ASSUME Init PROVE IInv
  OBVIOUS
<1>1. Types
  BY ResourceAssumption DEF Init, Types, Links
<1>2. \A p \in Resources : Children(p) = {}
  BY Constants DEF Init, Children
<1>3. ChildrenApart /\ SiblingsInOrder
  BY <1>2 DEF ChildrenApart, SiblingsInOrder, IsFirst, Init
<1>4. Call
  BY DEF Init, Call
<1> QED BY <1>1, <1>3, <1>4 DEF IInv

(* A resource without a child pointer has no children. *)
LEMMA LooseChildless ==
  ASSUME IInv, NEW r \in Resources, Loose(r)
  PROVE  Children(r) = {} /\ \A p \in Resources : r \notin Children(p)
<1>1. child[r] = NULL /\ parent[r] = NULL /\ NULL \notin Resources
  BY Constants DEF Loose
<1>2. IsFirst(child[r], Children(r)) /\ Children(r) \subseteq Resources
  BY DEF IInv, SiblingsInOrder, Children
<1> QED
  BY <1>1, <1>2 DEF IsFirst, Children

LEMMA DescribeInv ==
  ASSUME IInv, NEW r \in Resources, NEW from \in Addr, NEW size \in Sizes,
         Loose(r), Describe(r, from, size)
  PROVE  IInv'
<1>1. /\ Children(r) = {} /\ \A p \in Resources : r \notin Children(p)
      /\ \A p : Children(p)' = Children(p)
      /\ UNCHANGED <<links, pc, root, new, prev, answer>>
      /\ pc = "idle"
  BY LooseChildless DEF Describe, Children, links
<1>2. \A k \in Resources : k # r => start'[k] = start[k] /\ end'[k] = end[k]
  BY DEF Describe, IInv, Types
<1>3. Types'
  <2>1. LastAddress(from, size) \in Addr
    BY Constants
  <2> QED BY <1>1, <2>1 DEF Describe, IInv, Types, links, Links
<1>4. \A p \in Resources : Children(p) \subseteq Resources
  BY DEF Children
<1>5. ChildrenApart'
  BY <1>1, <1>2, <1>4 DEF IInv, ChildrenApart, Apart
<1>6. SiblingsInOrder'
  <2> SUFFICES ASSUME NEW p \in Resources
               PROVE  /\ IsFirst(child[p], Children(p))'
                      /\ \A k \in Children(p) :
                           IsFirst(sibling[k], {j \in Children(p) : start[j] > start[k]})'
    BY <1>1 DEF SiblingsInOrder
  <2>1. \A k \in Children(p) : start'[k] = start[k]
    BY <1>1, <1>2, <1>4
  <2>2. child' = child /\ sibling' = sibling
    BY <1>1 DEF links
  <2>3. IsFirst(child[p], Children(p))'
    BY <1>1, <2>1, <2>2 DEF IInv, SiblingsInOrder, IsFirst
  <2>4. ASSUME NEW k \in Children(p)
        PROVE  IsFirst(sibling[k], {j \in Children(p) : start[j] > start[k]})'
    <3> DEFINE After == {j \in Children(p) : start[j] > start[k]}
    <3>1. After' = After
      BY <1>1, <2>1
    <3>2. IsFirst(sibling[k], After) /\ \A j \in After : start'[j] = start[j]
      BY <2>1 DEF IInv, SiblingsInOrder
    <3> HIDE DEF After
    <3>3. IsFirst(sibling[k], After)'
      BY <2>2, <3>1, <3>2 DEF IsFirst
    <3> QED BY <3>3 DEF After
  <2> QED BY <2>3, <2>4
<1>7. Call'
  BY <1>1 DEF IInv, Call
<1> QED BY <1>3, <1>5, <1>6, <1>7 DEF IInv

(* The steps that change no resource. *)
LEMMA SameTree ==
  ASSUME IInv, UNCHANGED <<start, end, links>>, pc' \in {"idle", "check", "walk"}, Call'
  PROVE  IInv'
<1>1. \A p : Children(p)' = Children(p)
  BY DEF Children, links
<1>2. Types' /\ ChildrenApart'
  BY <1>1 DEF IInv, Types, ChildrenApart, Apart, links
<1>3. SiblingsInOrder'
  BY <1>1 DEF IInv, SiblingsInOrder, IsFirst, links
<1> QED BY <1>2, <1>3 DEF IInv

(* Where the walk stands: the children up to prev end before the new one,  *)
(* the others start at tmp. *)
Before == {k \in Children(root) : prev # NULL /\ start[k] <= start[prev]}

LEMMA Walk ==
  ASSUME IInv, pc = "walk"
  PROVE  /\ root \in Resources /\ new \in Resources /\ root # new /\ Loose(new)
         /\ start[new] <= end[new]
         /\ Children(root) \subseteq Resources
         /\ IsFirst(tmp, Children(root) \ Before)
         /\ \A k \in Before : end[k] < start[new]
<1>1. /\ root \in Resources /\ new \in Resources /\ root # new /\ Loose(new)
      /\ Children(root) \subseteq Resources
      /\ ~(end[new] < start[new])
  BY DEF IInv, Call, Children, OutOfRange
<1>2. \A r \in Resources : start[r] \in Nat /\ end[r] \in Nat
  BY Constants DEF IInv, Types
<1>3. IsFirst(tmp, Children(root) \ Before)
  <2>1. CASE prev = NULL
    BY <1>1, <2>1 DEF IInv, SiblingsInOrder, tmp, Before
  <2>2. CASE prev # NULL
    <3>1. prev \in Children(root)
      BY <2>2 DEF IInv, Call
    <3>2. Children(root) \ Before = {k \in Children(root) : start[k] > start[prev]}
      BY <1>1, <1>2, <2>2, <3>1 DEF Before
    <3>3. IsFirst(sibling[prev], {k \in Children(root) : start[k] > start[prev]})
      BY <1>1, <3>1 DEF IInv, SiblingsInOrder
    <3> QED BY <2>2, <3>2, <3>3 DEF tmp
  <2> QED BY <2>1, <2>2
<1>4. ASSUME NEW k \in Before PROVE end[k] < start[new]
  <2>1. /\ k \in Children(root) /\ prev \in Children(root) /\ start[k] <= start[prev]
        /\ end[prev] < start[new]
    BY <1>4 DEF Before, IInv, Call
  <2>2. start[prev] <= end[prev] /\ (k # prev => Apart(k, prev))
    BY <1>1, <2>1 DEF IInv, ChildrenApart
  <2> QED BY <1>1, <1>2, <2>1, <2>2 DEF Apart
<1> QED BY <1>1, <1>2, <1>3, <1>4

(* What is granted is in no child's way. *)
LEMMA RoomFound ==
  ASSUME IInv, pc = "walk", EndsBefore
  PROVE  /\ \A k \in Children(root) \ Before : end[new] < start[k]
         /\ \A k \in Children(root) : Apart(k, new)
<1>1. \A r \in Resources : start[r] \in Nat /\ end[r] \in Nat
  BY Constants DEF IInv, Types
<1>2. \A k \in Children(root) \ Before : end[new] < start[k]
  BY <1>1, Walk, Constants DEF IsFirst, EndsBefore
<1> QED
  BY <1>1, <1>2, Walk DEF Apart

(* What is refused by the loop is in the way of a child. *)
LEMMA ConflictFound ==
  ASSUME IInv, Refuse
  PROVE  \E k \in Children(root) : ~Apart(k, new)
<1>1. pc = "walk" /\ ~EndsBefore /\ ~LiesBefore
  BY DEF Refuse
<1>2. tmp \in Children(root) /\ Children(root) \subseteq Resources /\ new \in Resources
  BY <1>1, Walk DEF EndsBefore, IsFirst
<1>3. \A r \in Resources : start[r] \in Nat /\ end[r] \in Nat
  BY Constants DEF IInv, Types
<1>4. start[tmp] <= end[new] /\ ~(end[tmp] < start[new])
  BY <1>1, <1>2, <1>3 DEF EndsBefore, LiesBefore
<1> QED BY <1>2, <1>3, <1>4 DEF Apart

LEMMA InsertInv ==
  ASSUME IInv, Insert
  PROVE  IInv'
<1> DEFINE Old == Children(root)
<1>1. /\ pc = "walk" /\ EndsBefore /\ new \notin Old
      /\ UNCHANGED <<start, end, root, new, prev>> /\ pc' = "idle" /\ answer' = "0"
      /\ parent[new] = NULL /\ child[new] = NULL
      /\ \A p \in Resources : new \notin Children(p)
      /\ Children(new) = {}
  BY Walk, Constants, LooseChildless DEF Insert, Children, Loose
<1>2. /\ root \in Resources /\ new \in Resources /\ root # new
      /\ Old \subseteq Resources
      /\ start[new] <= end[new]
      /\ IsFirst(tmp, Old \ Before)
      /\ \A k \in Before : end[k] < start[new]
      /\ \A k \in Old \ Before : end[new] < start[k]
      /\ \A k \in Old : Apart(k, new)
  BY <1>1, Walk, RoomFound
<1>3. \A r \in Resources : start[r] \in Nat /\ end[r] \in Nat
  BY Constants DEF IInv, Types
<1>4. prev # NULL => prev \in Old
  BY <1>1 DEF IInv, Call
<1>5. tmp \in Links
  BY <1>2 DEF IsFirst, Links
<1>6. Types'
  BY <1>1, <1>2, <1>4, <1>5 DEF IInv, Types, Insert, Links
<1>7. \A p \in Resources :
        Children(p)' = IF p = root THEN Old \cup {new} ELSE Children(p)
  BY <1>1, <1>2, Constants DEF Insert, Children, IInv, Types
<1>8. /\ sibling'[new] = tmp
      /\ prev # NULL => sibling'[prev] = new
      /\ \A r \in Resources : r # new /\ r # prev => sibling'[r] = sibling[r]
      /\ IF prev = NULL THEN child' = [child EXCEPT ![root] = new] ELSE child' = child
  <2>1. prev # new
    BY <1>1, <1>2, <1>4, Constants
  <2>2. sibling' = [r \in Resources |-> CASE r = new  -> tmp
                                         [] r = prev -> new
                                         [] OTHER    -> sibling[r]]
    BY DEF Insert
  <2>3. sibling'[new] = tmp
    BY <1>2, <2>1, <2>2
  <2>4. prev # NULL => sibling'[prev] = new
    BY <1>2, <1>4, <2>1, <2>2
  <2>5. ASSUME NEW r \in Resources, r # new, r # prev PROVE sibling'[r] = sibling[r]
    BY <2>2, <2>5
  <2> QED BY <2>3, <2>4, <2>5 DEF Insert
<1>9. ChildrenApart'
  <2> SUFFICES ASSUME NEW p \in Resources, NEW r \in Children(p)'
               PROVE  /\ start[r] <= end[r]
                      /\ \A k \in Children(p)' : k # r => Apart(k, r)
    BY <1>1 DEF ChildrenApart, Apart
  <2>1. CASE p # root
    BY <1>7, <2>1 DEF IInv, ChildrenApart
  <2>2. CASE p = root
    <3>1. \A k \in Old : Apart(new, k)
      BY <1>2 DEF Apart
    <3> QED BY <1>2, <1>7, <2>2, <3>1 DEF IInv, ChildrenApart
  <2> QED BY <2>1, <2>2
<1>10. SiblingsInOrder'
  <2> SUFFICES ASSUME NEW p \in Resources
               PROVE  /\ IsFirst(child[p], Children(p))'
                      /\ \A r \in Children(p)' :
                           IsFirst(sibling'[r], {k \in Children(p)' : start[k] > start[r]})
    BY <1>1 DEF SiblingsInOrder, IsFirst
  <2>1. CASE p # root
    <3>1. child'[p] = child[p] /\ Children(p)' = Children(p)
      BY <1>2, <1>7, <1>8, <2>1 DEF IInv, Types
    <3>2. \A r \in Children(p) : sibling'[r] = sibling[r]
      BY <1>1, <1>2, <1>4, <1>8, <2>1 DEF Children
    <3> QED BY <1>1, <3>1, <3>2 DEF IInv, SiblingsInOrder, IsFirst
  <2>2. CASE p = root
    <3> DEFINE All == Old \cup {new}
               Behind(r) == {k \in Old : start[k] > start[r]}
    <3>1. IsFirst(child[p], Children(p))'
      <4>1. CASE prev = NULL
        <5>1. child'[p] = new /\ Before = {}
          BY <1>2, <1>8, <2>2, <4>1 DEF IInv, Types, Before
        <5> QED BY <1>1, <1>2, <1>3, <1>7, <2>2, <5>1 DEF IsFirst
      <4>2. CASE prev # NULL
        <5>1. child'[p] = child[p] /\ prev \in Before
          BY <1>2, <1>3, <1>4, <1>8, <4>2 DEF Before
        <5>2. IsFirst(child[p], Old) /\ Old # {}
          BY <1>2, <1>4, <2>2, <4>2 DEF IInv, SiblingsInOrder
        <5>3. start[prev] <= start[new]
          <6>1. start[prev] <= end[prev]
            BY <1>2, <1>4, <4>2 DEF IInv, ChildrenApart
          <6> QED BY <1>2, <1>3, <1>4, <4>2, <5>1, <6>1
        <5> QED BY <1>1, <1>2, <1>3, <1>4, <1>7, <2>2, <4>2, <5>1, <5>2, <5>3 DEF IsFirst
      <4> QED BY <4>1, <4>2
    <3>2. ASSUME NEW r \in All
          PROVE  IsFirst(sibling'[r], {k \in All : start[k] > start[r]})
      <4>0. \A k \in Before : k \in Old /\ start[k] <= end[k] /\ start[k] < start[new]
        BY <1>2, <1>3 DEF Before, IInv, ChildrenApart
      <4>1. CASE r = new
        <5>1. {k \in All : start[k] > start[r]} = Old \ Before
          BY <1>2, <1>3, <4>0, <4>1
        <5> QED BY <1>2, <1>8, <4>1, <5>1
      <4>2. CASE r = prev
        <5>1. prev # NULL /\ prev \in Before
          BY <1>2, <1>3, <1>4, <4>2, Constants DEF Before
        <5>2. {k \in All : start[k] > start[r]} = (Old \ Before) \cup {new}
          BY <1>2, <1>3, <4>0, <4>2, <5>1 DEF Before
        <5>3. \A k \in Old \ Before : start[new] <= start[k]
          BY <1>2, <1>3
        <5> QED BY <1>2, <1>3, <1>8, <4>2, <5>1, <5>2, <5>3 DEF IsFirst
      <4>3. CASE r # new /\ r # prev
        <5>1. r \in Old /\ sibling'[r] = sibling[r]
          BY <1>2, <1>8, <4>3
        <5>2. IsFirst(sibling[r], Behind(r))
          BY <1>2, <5>1 DEF IInv, SiblingsInOrder
        <5>3. CASE r \in Before
          <6>1. prev \in Before /\ start[r] <= start[prev] /\ start[prev] \in Nat
            BY <1>2, <1>3, <1>4, <5>3 DEF Before
          <6>2. start[r] # start[prev]
            BY <1>2, <1>3, <4>3, <5>1, <6>1, <4>0 DEF IInv, ChildrenApart, Apart
          <6>3. prev \in Behind(r) /\ start[prev] < start[new]
            BY <1>2, <1>3, <4>0, <5>1, <6>1, <6>2
          <6>4. {k \in All : start[k] > start[r]} = Behind(r) \cup {new}
            BY <1>2, <1>3, <5>1, <6>1, <6>3
          <6>5. sibling[r] \in Behind(r) /\ \A k \in Behind(r) : start[sibling[r]] <= start[k]
            BY <5>2, <6>3 DEF IsFirst
          <6>6. start[sibling[r]] <= start[new]
            BY <1>2, <1>3, <6>3, <6>5
          <6> HIDE DEF Behind
          <6> QED BY <5>1, <6>4, <6>5, <6>6 DEF IsFirst
        <5>4. CASE r \notin Before
          <6>1. ~(start[new] > start[r])
            BY <1>2, <1>3, <5>1, <5>4
          <6>2. {k \in All : start[k] > start[r]} = Behind(r)
            BY <6>1
          <6> QED BY <5>1, <5>2, <6>2
        <5> QED BY <5>3, <5>4
      <4> QED BY <4>1, <4>2, <4>3
    <3>3. Children(p)' = All
      BY <1>7, <2>2
    <3> HIDE DEF All
    <3> QED BY <3>1, <3>2, <3>3
  <2> QED BY <2>1, <2>2
<1>11. Call'
  BY <1>1 DEF Call
<1> QED BY <1>6, <1>9, <1>10, <1>11 DEF IInv

LEMMA NextInv == IInv /\ [Next]_vars => IInv'
<1> SUFFICES ASSUME IInv, [Next]_vars PROVE IInv'
  OBVIOUS
<1>1. CASE UNCHANGED vars
  <2>1. Call'
    BY <1>1 DEF IInv, Call, Children, Loose, OutOfRange, vars, links
  <2> QED BY <1>1, <2>1, SameTree DEF vars, links, IInv, Types
<1>2. CASE CheckRange
  <2>1. Call'
    BY <1>2 DEF CheckRange, IInv, Call, Children, Loose, OutOfRange, links
  <2> QED BY <1>2, <2>1, SameTree DEF CheckRange
<1>3. CASE Insert
  BY <1>3, InsertInv
<1>4. CASE Advance
  <2>1. tmp \in Children(root) /\ end[tmp] < start[new]
    BY <1>4, Walk, Constants DEF Advance, LiesBefore, EndsBefore, IsFirst
  <2>2. Call'
    BY <1>4, <2>1 DEF Advance, IInv, Call, Children, Loose, OutOfRange, links
  <2> QED BY <1>4, <2>2, SameTree DEF Advance
<1>5. CASE Refuse
  <2>1. Call'
    BY <1>5 DEF Refuse, Call
  <2> QED BY <1>5, <2>1, SameTree DEF Refuse
<1>6. ASSUME NEW r \in Resources, NEW n \in Resources, MayRequest(r, n), Request(r, n)
      PROVE IInv'
  <2>1. Call'
    BY <1>6 DEF MayRequest, Request, Call, Loose, OutOfRange, links
  <2> QED BY <1>6, <2>1, SameTree DEF Request
<1>7. ASSUME NEW r \in Resources, NEW from \in Addr, NEW size \in Sizes,
             Loose(r), Describe(r, from, size)
      PROVE IInv'
  BY <1>7, DescribeInv
<1> QED BY <1>1, <1>2, <1>3, <1>4, <1>5, <1>6, <1>7 DEF Next

LEMMA Inductive == Spec => []IInv
BY InitInv, NextInv, PTL DEF Spec

(* Whatever is requested in whatever order, the child and sibling pointers *)
(* lead through the granted resources in rising order, and to no other.    *)
THEOREM SiblingsSorted == Spec => []SiblingsInOrder
<1>1. IInv => SiblingsInOrder
  BY DEF IInv
<1> QED BY <1>1, Inductive, PTL

(* Each request is granted exactly if the range is proper, lies within the *)
(* other and overlaps nothing that was granted there before.               *)
THEOREM ImplementsClaims == Spec => ClaimsSpec
<1>1. Init => Claims!Init
  BY ResourceAssumption DEF Init, Claims!Init
<1>2. ASSUME IInv, [Next]_vars PROVE [Claims!Next]_Claims!claimVars
  <2>1. CASE UNCHANGED vars
    BY <2>1 DEF vars, Claims!claimVars
  <2>2. CASE CheckRange
    <3>1. pc = "check" /\ answer = "asked"
      BY <1>2, <2>2 DEF CheckRange, IInv, Call
    <3>2. CASE OutOfRange(root, new)
      <4>1. Claims!Refuse
        BY <2>2, <3>1, <3>2 DEF CheckRange, Claims!Refuse, Claims!Conflict,
             Claims!OutOfRange, OutOfRange, links
      <4> QED BY <4>1 DEF Claims!Next
    <3>3. CASE ~OutOfRange(root, new)
      BY <2>2, <3>3 DEF CheckRange, Claims!claimVars, links
    <3> QED BY <3>2, <3>3
  <2>3. CASE Insert
    <3>1. pc = "walk" /\ answer = "asked" /\ ~OutOfRange(root, new) /\ EndsBefore
      BY <1>2, <2>3 DEF Insert, IInv, Call
    <3>2. \A k \in Children(root) : Apart(k, new)
      BY <1>2, <3>1, RoomFound
    <3>3. ~Claims!Conflict
      BY <3>1, <3>2 DEF Claims!Conflict, Claims!OutOfRange, Claims!Granted,
           OutOfRange, Children, Apart
    <3>4. Claims!Grant
      BY <2>3, <3>1, <3>3 DEF Insert, Claims!Grant
    <3> QED BY <3>4 DEF Claims!Next
  <2>4. CASE Advance
    BY <2>4 DEF Advance, Claims!claimVars, links
  <2>5. CASE Refuse
    <3>1. pc = "walk" /\ answer = "asked"
      BY <1>2, <2>5 DEF Refuse, IInv, Call
    <3>2. PICK k \in Children(root) : ~Apart(k, new)
      BY <1>2, <2>5, ConflictFound
    <3>3. Claims!Conflict
      BY <3>2 DEF Claims!Conflict, Claims!Granted, Children, Apart
    <3>4. Claims!Refuse
      BY <2>5, <3>1, <3>3 DEF Refuse, Claims!Refuse, links
    <3> QED BY <3>4 DEF Claims!Next
  <2>6. ASSUME NEW r \in Resources, NEW n \in Resources, MayRequest(r, n), Request(r, n)
        PROVE  Claims!Next
    <3>1. answer # "asked"
      BY <1>2, <2>6 DEF Request, IInv, Call
    <3>2. Loose(n) => Claims!Loose(n)
      BY <1>2, LooseChildless DEF Claims!Loose, Claims!Granted, Children, Loose
    <3>3. Claims!Ask(r, n)
      BY <2>6, <3>1, <3>2 DEF MayRequest, Request, Claims!Ask, Claims!OutOfRange, OutOfRange, links
    <3> QED BY <3>3 DEF Claims!Next
  <2>7. ASSUME NEW r \in Resources, NEW from \in Addr, NEW size \in Sizes,
               Loose(r), Describe(r, from, size)
        PROVE  Claims!Next
    <3>1. answer # "asked" /\ Loose(r)
      BY <1>2, <2>7 DEF Describe, IInv, Call
    <3>2. Claims!Loose(r)
      BY <1>2, <3>1, LooseChildless DEF Claims!Loose, Claims!Granted, Children, Loose
    <3>3. LastAddress(from, size) \in Addr
      BY Constants
    <3>4. Claims!Describe(r)
      BY <2>7, <3>1, <3>2, <3>3 DEF Describe, Claims!Describe, links
    <3> QED BY <3>4 DEF Claims!Next
  <2> QED BY <1>2, <2>1, <2>2, <2>3, <2>4, <2>5, <2>6, <2>7 DEF Next
<1> QED BY <1>1, <1>2, Inductive, PTL DEF Spec, ClaimsSpec, Claims!Spec
=============================================================================
