------------------------------ MODULE Resource ------------------------------
(***************************************************************************)
(* The tree of resources: kernel/resource.c.  The resources granted within *)
(* another hang on its child pointer and on each other's sibling pointers, *)
(* in rising order.  request_resource walks that list with a pointer to    *)
(* the pointer that it would have to change; each turn of its loop is a    *)
(* step.  It holds resource_lock, and the one thread there is waits for it *)
(* to return, so nothing else happens between the turns.                   *)
(***************************************************************************)
EXTENDS Integers

CONSTANTS
  Resources,          \* the struct resources there are
  NULL,
  WordSize,           \* 2^32: unsigned long arithmetic is modulo this
  StaticStart, StaticEnd,   \* the ranges written down in the source
  Sizes               \* bound of the model: the sizes of other ranges

Addr == 0 .. WordSize - 1

ASSUME ResourceAssumption ==
  /\ NULL \notin Resources
  /\ WordSize \in Nat \ {0}
  /\ Sizes \subseteq Nat
  /\ StaticStart \in [Resources -> Addr] /\ StaticEnd \in [Resources -> Addr]

VARIABLES
  start, end,         \* a resource's first and last address
  parent, child, sibling,
  pc,                 \* "idle"; in __request_resource: "check", its loop "walk"
  root, new,          \* the arguments of the call in progress
  prev,               \* the loop's p is &root->child (NULL) or &prev->sibling
  answer              \* what request_resource returned last; "asked" before

vars  == <<start, end, parent, child, sibling, pc, root, new, prev, answer>>
links == <<parent, child, sibling>>
----------------------------------------------------------------------------
(* No pointer is set: the structures are static, or memory that the boot   *)
(* allocator has cleared.  Static ones have their range from the start.    *)
Init ==
  /\ start = StaticStart
  /\ end = StaticEnd
  /\ parent = [r \in Resources |-> NULL]
  /\ child = [r \in Resources |-> NULL]
  /\ sibling = [r \in Resources |-> NULL]
  /\ pc = "idle"
  /\ root = NULL /\ new = NULL
  /\ prev = NULL
  /\ answer = "none"

(* A resource that is in no list and has none.                             *)
Loose(r) == parent[r] = NULL /\ child[r] = NULL

(* Fault: the last address is not cut to the width of a word. *)
LastAddressUncut(from, size) == from + size - 1

(* The last of so many addresses. *)
LastAddress(from, size) == (from + size - 1) % WordSize

(* The owner of a resource writes down its range. *)
Describe(r, from, size) ==
  /\ pc = "idle"
  /\ start' = [start EXCEPT ![r] = from]
  /\ end' = [end EXCEPT ![r] = LastAddress(from, size)]
  /\ UNCHANGED <<links, pc, root, new, prev, answer>>

OutOfRange(r, n) == end[n] < start[n] \/ start[n] < start[r] \/ end[n] > end[r]

(* request_resource(r, n) is called. *)
Request(r, n) ==
  /\ pc = "idle"
  /\ root' = r
  /\ new' = n
  /\ prev' = NULL
  /\ pc' = "check"
  /\ answer' = "asked"
  /\ UNCHANGED <<start, end, links>>

(* What __request_resource looks at before its loop. *)
CheckRange ==
  /\ pc = "check"
  /\ IF OutOfRange(root, new) THEN pc' = "idle" /\ answer' = "EBUSY"
                              ELSE pc' = "walk" /\ UNCHANGED answer
  /\ UNCHANGED <<start, end, links, root, new, prev>>

(* The loop's tmp, *p. *)
tmp == IF prev = NULL THEN child[root] ELSE sibling[prev]

(* The three ways a turn of the loop can go: tmp lies behind the new       *)
(* resource, before it, or neither.                                        *)
EndsBefore == tmp # NULL => start[tmp] > end[new]

(* Fault: a neighbour without a gap counts as a conflict. *)
LiesWellBefore == ~EndsBefore /\ end[tmp] + 1 < start[new]

LiesBefore == ~EndsBefore /\ end[tmp] < start[new]

(* Fault: the rest of the list is forgotten. *)
InsertLast ==
  /\ pc = "walk"
  /\ EndsBefore
  /\ sibling' = [sibling EXCEPT ![prev] = new]
  /\ child' = IF prev = NULL THEN [child EXCEPT ![root] = new] ELSE child
  /\ parent' = [parent EXCEPT ![new] = root]
  /\ pc' = "idle"
  /\ answer' = "0"
  /\ UNCHANGED <<start, end, root, new, prev>>

Insert ==
  /\ pc = "walk"
  /\ EndsBefore
  /\ sibling' = [r \in Resources |-> CASE r = new  -> tmp
                                       [] r = prev -> new
                                       [] OTHER    -> sibling[r]]
  /\ child' = IF prev = NULL THEN [child EXCEPT ![root] = new] ELSE child
  /\ parent' = [parent EXCEPT ![new] = root]
  /\ pc' = "idle"
  /\ answer' = "0"
  /\ UNCHANGED <<start, end, root, new, prev>>

Advance ==
  /\ pc = "walk"
  /\ LiesBefore
  /\ prev' = tmp
  /\ UNCHANGED <<start, end, links, pc, root, new, answer>>

Refuse ==
  /\ pc = "walk"
  /\ ~EndsBefore /\ ~LiesBefore
  /\ pc' = "idle"
  /\ answer' = "EBUSY"
  /\ UNCHANGED <<start, end, links, root, new, prev>>

(* What the list relies on and nobody checks: a resource that is in the    *)
(* tree is not asked for again, unless it lies outside of what it is asked *)
(* of, and keeps its range. *)
MayRequest(r, n) == r # n /\ (Loose(n) \/ OutOfRange(r, n))

Next ==
  \/ CheckRange
  \/ Insert
  \/ Advance
  \/ Refuse
  \/ \E r, n \in Resources : MayRequest(r, n) /\ Request(r, n)
  \/ \E r \in Resources, from \in Addr, size \in Sizes : Loose(r) /\ Describe(r, from, size)

Spec == Init /\ [][Next]_vars

----------------------------------------------------------------------------
Children(p) == {r \in Resources : parent[r] = p}

IsFirst(x, S) ==
  IF S = {} THEN x = NULL
  ELSE x \in S /\ \A r \in S : start[x] <= start[r]

(* From the child pointer, the sibling pointers lead through all that was  *)
(* granted within a resource, in rising order, and to nothing else: each   *)
(* points to the first of those that start behind.                         *)
SiblingsInOrder ==
  \A p \in Resources :
    /\ IsFirst(child[p], Children(p))
    /\ \A r \in Children(p) :
         IsFirst(sibling[r], {k \in Children(p) : start[k] > start[r]})

(* The list implements the set of claims: a request is granted exactly if  *)
(* nothing granted before is in its way, although the walk compares with   *)
(* only a part of it.                                                      *)
Claims == INSTANCE ResourceClaims
ClaimsSpec == Claims!Spec
=============================================================================
