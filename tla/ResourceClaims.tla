--------------------------- MODULE ResourceClaims ---------------------------
(***************************************************************************)
(* What request_resource (kernel/resource.c) promises: a resource gets its *)
(* range of addresses within another exactly if the range is proper, lies  *)
(* in that of the other, and overlaps nothing granted there before.  How   *)
(* the granted resources are kept, and in which order they are looked at,  *)
(* is absent: Resource implements this specification.                      *)
(***************************************************************************)
EXTENDS Integers

CONSTANTS Resources, NULL, Addr

VARIABLES
  start, end,         \* the first and last address of each resource
  parent,             \* the resource within which each was granted, or NULL
  root, new,          \* what the last request asked for: new within root
  answer              \* the answer to it; "asked" while there is none

claimVars == <<start, end, parent, root, new, answer>>

Granted(p) == {r \in Resources : parent[r] = p}

(* A resource that no list refers to. *)
Loose(r) == parent[r] = NULL /\ Granted(r) = {}

OutOfRange(p, n) == end[n] < start[n] \/ start[n] < start[p] \/ end[n] > end[p]

Conflict ==
  \/ OutOfRange(root, new)
  \/ \E k \in Granted(root) : ~(end[k] < start[new] \/ end[new] < start[k])

Init ==
  /\ start \in [Resources -> Addr]
  /\ end \in [Resources -> Addr]
  /\ parent = [r \in Resources |-> NULL]
  /\ root = NULL /\ new = NULL
  /\ answer = "none"

Describe(r) ==
  /\ answer # "asked"
  /\ Loose(r)
  /\ \E s, e \in Addr : start' = [start EXCEPT ![r] = s] /\ end' = [end EXCEPT ![r] = e]
  /\ UNCHANGED <<parent, root, new, answer>>

Ask(p, n) ==
  /\ answer # "asked"
  /\ p # n
  /\ Loose(n) \/ OutOfRange(p, n)
  /\ root' = p /\ new' = n
  /\ answer' = "asked"
  /\ UNCHANGED <<start, end, parent>>

Grant ==
  /\ answer = "asked" /\ ~Conflict
  /\ parent' = [parent EXCEPT ![new] = root]
  /\ answer' = "0"
  /\ UNCHANGED <<start, end, root, new>>

Refuse ==
  /\ answer = "asked" /\ Conflict
  /\ answer' = "EBUSY"
  /\ UNCHANGED <<start, end, parent, root, new>>

Next ==
  \/ \E r \in Resources : Describe(r)
  \/ \E p, n \in Resources : Ask(p, n)
  \/ Grant
  \/ Refuse

Spec == Init /\ [][Next]_claimVars
=============================================================================
