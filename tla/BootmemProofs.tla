--------------------------- MODULE BootmemProofs ----------------------------
(***************************************************************************)
(* Theorems about Bootmem for every page size, size of the node and set of *)
(* calls.  The properties hold together: that memory is not handed out     *)
(* twice rests on the bitmap for whole pages (MapExact) and on the tail of *)
(* the last allocation for the rest (Tail).                                *)
(***************************************************************************)
EXTENDS Bootmem, WellFoundedInduction, TLAPS

(* Quotient and remainder. *)
LEMMA DivMod ==
  ASSUME NEW n \in Nat \ {0}, NEW x \in Nat
  PROVE  /\ x \div n \in Nat /\ x % n \in 0 .. n - 1
         /\ x = (x \div n) * n + (x % n)
OBVIOUS

(* They are determined by that. *)
LEMMA DivUnique ==
  ASSUME NEW n \in Nat \ {0}, NEW q \in Nat, NEW r \in 0 .. n - 1
  PROVE  (q * n + r) \div n = q /\ ((q * n) + r) % n = r
OBVIOUS

(* Multiples keep the order, and show it. *)
LEMMA MulMono ==
  ASSUME NEW n \in Nat, NEW x \in Int, NEW y \in Int, x <= y
  PROVE  x * n <= y * n
OBVIOUS

LEMMA MulCancel ==
  ASSUME NEW n \in Nat \ {0}, NEW x \in Int, NEW y \in Int, x * n < y * n
  PROVE  x < y
OBVIOUS

(* Every non-empty set of numbers has a least one. *)
LEMMA LeastNat ==
  ASSUME NEW C \in SUBSET Nat, C # {}
  PROVE  \E m \in C : \A c \in C : m <= c
<1> DEFINE R == OpToRel(<, Nat)
<1>1. IsWellFoundedOn(R, Nat)
  BY NatLessThanWellFounded
<1>2. \A m, c \in Nat : m < c => <<m, c>> \in R
  BY DEF OpToRel
<1> HIDE DEF R
<1>3. PICK m \in C : \A c \in C : ~(<<c, m>> \in R)
  BY <1>1, WFMin
<1>4. ASSUME NEW c \in C PROVE m <= c
  <2>1. c \in Nat /\ m \in Nat /\ ~(c < m)
    BY <1>2, <1>3
  <2> QED
    BY <2>1
<1> QED
  BY <1>4
----------------------------------------------------------------------------
PagesOf(a) == PagesTouched(a.addr, a.size)

Types ==
  /\ node_bootmem_map \in SUBSET Pages /\ ram \in SUBSET Pages /\ taken \in SUBSET Pages
  /\ last_pos \in Int /\ last_offset \in 0 .. PAGE_SIZE - 1
  /\ allocs \in SUBSET [addr : Nat, size : Nat \ {0}, align : Nat \ {0}]

(* The bytes of the last allocation's last page that it left. *)
Rest == last_pos * PAGE_SIZE + last_offset .. (last_pos + 1) * PAGE_SIZE - 1

(* TailUnused, with the owner of the page. *)
Tail ==
  last_offset # 0 =>
    /\ last_pos \in Pages
    /\ \E a \in allocs : last_pos \in PagesOf(a)
    /\ \A a \in allocs : Bytes(a) \cap Rest = {}

IInv == Types /\ AllocsDisjoint /\ AllocsInFreeRam /\ MapExact /\ Tail
----------------------------------------------------------------------------
(* Pages *)

LEMMA Sizes ==
  /\ PAGE_SIZE \in Nat \ {0} /\ node_low_pfn \in Nat \ {0} /\ Pages \subseteq Nat
  /\ \A c \in FreeCalls \cup ReserveCalls : c.addr \in Nat /\ c.size \in Nat
  /\ \A c \in AllocCalls :
       /\ c.size \in Nat /\ c.align \in Nat \ {0} /\ c.goal \in Nat
       /\ PAGE_SIZE % c.align = 0 \/ c.align % PAGE_SIZE = 0
BY BootmemAssumption DEF Pages

LEMMA Down ==
  ASSUME NEW x \in Nat
  PROVE  /\ PFN_DOWN(x) \in Nat
         /\ PFN_DOWN(x) * PAGE_SIZE <= x /\ x < (PFN_DOWN(x) + 1) * PAGE_SIZE
<1>1. /\ x \div PAGE_SIZE \in Nat /\ x % PAGE_SIZE \in 0 .. PAGE_SIZE - 1
      /\ x = (x \div PAGE_SIZE) * PAGE_SIZE + (x % PAGE_SIZE)
  BY Sizes, DivMod
<1> DEFINE q == x \div PAGE_SIZE
<1>2. (q + 1) * PAGE_SIZE = q * PAGE_SIZE + PAGE_SIZE
  BY <1>1, Sizes
<1> HIDE DEF q
<1>3. q * PAGE_SIZE \in Nat
  BY <1>1, Sizes DEF q
<1> QED
  BY <1>1, <1>2, <1>3, Sizes DEF PFN_DOWN, q

LEMMA DownIs ==
  ASSUME NEW x \in Nat, NEW q \in Nat, q * PAGE_SIZE <= x, x < (q + 1) * PAGE_SIZE
  PROVE  PFN_DOWN(x) = q
<1> DEFINE d == PFN_DOWN(x)
<1>1. d \in Nat /\ d * PAGE_SIZE <= x /\ x < (d + 1) * PAGE_SIZE
  BY Down
<1> HIDE DEF d
<1>2. q < d + 1
  <2>1. q * PAGE_SIZE < (d + 1) * PAGE_SIZE
    BY <1>1, Sizes
  <2> QED
    BY <1>1, <2>1, Sizes, MulCancel
<1>3. d < q + 1
  <2>1. d * PAGE_SIZE < (q + 1) * PAGE_SIZE
    BY <1>1, Sizes
  <2> QED
    BY <1>1, <2>1, Sizes, MulCancel
<1> QED
  BY <1>1, <1>2, <1>3 DEF d

LEMMA Up ==
  ASSUME NEW x \in Nat
  PROVE  /\ PFN_UP(x) \in Nat
         /\ x <= PFN_UP(x) * PAGE_SIZE /\ PFN_UP(x) * PAGE_SIZE < x + PAGE_SIZE
<1> DEFINE u == PFN_UP(x)
<1>1. x + PAGE_SIZE - 1 \in Nat
  BY Sizes
<1>2. u = PFN_DOWN(x + PAGE_SIZE - 1)
  BY DEF PFN_UP, PFN_DOWN
<1>3. u \in Nat /\ u * PAGE_SIZE <= x + PAGE_SIZE - 1 /\ x + PAGE_SIZE - 1 < (u + 1) * PAGE_SIZE
  BY <1>1, <1>2, Down
<1> HIDE DEF u
<1>4. (u + 1) * PAGE_SIZE = u * PAGE_SIZE + PAGE_SIZE /\ u * PAGE_SIZE \in Nat
  BY <1>3, Sizes
<1>5. u \in Nat /\ x <= u * PAGE_SIZE /\ u * PAGE_SIZE < x + PAGE_SIZE
  BY <1>3, <1>4, Sizes
<1> QED
  BY <1>5 DEF u

LEMMA UpIs ==
  ASSUME NEW x \in Nat, NEW u \in Nat, x <= u * PAGE_SIZE, u * PAGE_SIZE < x + PAGE_SIZE
  PROVE  PFN_UP(x) = u
<1> DEFINE v == PFN_UP(x)
<1>1. v \in Nat /\ x <= v * PAGE_SIZE /\ v * PAGE_SIZE < x + PAGE_SIZE
  BY Up
<1> HIDE DEF v
<1>2. /\ (u + 1) * PAGE_SIZE = u * PAGE_SIZE + PAGE_SIZE
      /\ (v + 1) * PAGE_SIZE = v * PAGE_SIZE + PAGE_SIZE
      /\ u * PAGE_SIZE \in Nat /\ v * PAGE_SIZE \in Nat
  BY <1>1, Sizes
<1>3. u < v + 1
  <2>1. u * PAGE_SIZE < (v + 1) * PAGE_SIZE
    BY <1>1, <1>2, Sizes
  <2> QED
    BY <1>1, <2>1, Sizes, MulCancel
<1>4. v < u + 1
  <2>1. v * PAGE_SIZE < (u + 1) * PAGE_SIZE
    BY <1>1, <1>2, Sizes
  <2> QED
    BY <1>1, <2>1, Sizes, MulCancel
<1> QED
  BY <1>1, <1>3, <1>4 DEF v

(* A byte of a range is in a page that the range touches. *)
LEMMA PageOfByte ==
  ASSUME NEW addr \in Nat, NEW size \in Nat, NEW x \in addr .. addr + size - 1
  PROVE  PFN_DOWN(x) \in PagesTouched(addr, size)
<1> DEFINE p == PFN_DOWN(x)
           q == PFN_DOWN(addr)
           u == PFN_UP(addr + size)
<1>1. /\ p \in Nat /\ p * PAGE_SIZE <= x /\ x < (p + 1) * PAGE_SIZE
      /\ q \in Nat /\ q * PAGE_SIZE <= addr
      /\ u \in Nat /\ addr + size <= u * PAGE_SIZE
  BY Down, Up
<1> HIDE DEF p, q, u
<1>2. q < p + 1
  <2>1. q * PAGE_SIZE < (p + 1) * PAGE_SIZE
    BY <1>1, Sizes
  <2> QED
    BY <1>1, <2>1, Sizes, MulCancel
<1>3. p < u
  <2>1. p * PAGE_SIZE < u * PAGE_SIZE
    BY <1>1, Sizes
  <2> QED
    BY <1>1, <2>1, Sizes, MulCancel
<1>4. p \in q .. u - 1
  BY <1>1, <1>2, <1>3
<1> QED
  BY <1>4 DEF p, q, u, PagesTouched

(* What begins at a page touches the pages that it fills. *)
LEMMA TouchedFromPage ==
  ASSUME NEW start \in Nat, NEW size \in Nat
  PROVE  PagesTouched(start * PAGE_SIZE, size) = start .. start + PFN_UP(size) - 1
<1> DEFINE u == PFN_UP(size)
<1>1. u \in Nat /\ size <= u * PAGE_SIZE /\ u * PAGE_SIZE < size + PAGE_SIZE
  BY Up
<1> HIDE DEF u
<1>2. /\ start * PAGE_SIZE \in Nat
      /\ (start + 1) * PAGE_SIZE = start * PAGE_SIZE + PAGE_SIZE
      /\ (start + u) * PAGE_SIZE = start * PAGE_SIZE + u * PAGE_SIZE
      /\ u * PAGE_SIZE \in Nat
  BY <1>1, Sizes
<1>3. PFN_DOWN(start * PAGE_SIZE) = start
  BY <1>2, Sizes, DownIs
<1>4. PFN_UP(start * PAGE_SIZE + size) = start + u
  <2>1. /\ start * PAGE_SIZE + size \in Nat /\ start + u \in Nat
        /\ start * PAGE_SIZE + size <= (start + u) * PAGE_SIZE
        /\ (start + u) * PAGE_SIZE < (start * PAGE_SIZE + size) + PAGE_SIZE
    BY <1>1, <1>2, Sizes
  <2> QED
    BY <2>1, UpIs
<1>5. PagesTouched(start * PAGE_SIZE, size) = start .. (start + u) - 1
  BY <1>3, <1>4 DEF PagesTouched
<1> QED
  BY <1>1, <1>5 DEF u
----------------------------------------------------------------------------
(* Alignment *)

LEMMA Multiple ==
  ASSUME NEW n \in Nat \ {0}, NEW k \in Nat
  PROVE  (k * n) % n = 0
<1>1. k * n + 0 = k * n /\ k * n \in Nat
  OBVIOUS
<1> QED
  BY <1>1, DivUnique

LEMMA MultipleOf ==
  ASSUME NEW n \in Nat \ {0}, NEW x \in Nat, x % n = 0
  PROVE  \E k \in Nat : x = k * n
<1>1. x \div n \in Nat /\ x = (x \div n) * n + (x % n)
  BY DivMod
<1>2. x = (x \div n) * n
  BY <1>1
<1> QED
  BY <1>1, <1>2

LEMMA AlignUpRight ==
  ASSUME NEW x \in Nat, NEW align \in Nat \ {0}
  PROVE  /\ AlignUp(x, align) \in Nat /\ x <= AlignUp(x, align) /\ AlignUp(x, align) < x + align
         /\ \E k \in Nat : AlignUp(x, align) = k * align
<1> DEFINE y == x + align - 1
           k == y \div align
           r == y % align
<1>1. y \in Nat /\ y = x + align - 1
  OBVIOUS
<1>2. k \in Nat /\ r \in 0 .. align - 1 /\ y = k * align + r
  BY <1>1, DivMod
<1>3. AlignUp(x, align) = k * align
  BY DEF AlignUp
<1> HIDE DEF y, k, r
<1>4. k * align \in Nat
  BY <1>2
<1>5. x <= k * align /\ k * align < x + align
  BY <1>1, <1>2, <1>4
<1> QED
  BY <1>2, <1>3, <1>4, <1>5

(* If the alignment divides a page, what is aligned up in a page does not  *)
(* leave it. *)
LEMMA AlignUpInPage ==
  ASSUME NEW x \in 0 .. PAGE_SIZE, NEW align \in Nat \ {0}, PAGE_SIZE % align = 0
  PROVE  AlignUp(x, align) <= PAGE_SIZE
<1> x \in Nat /\ x <= PAGE_SIZE
  BY Sizes
<1>1. PICK k \in Nat : AlignUp(x, align) = k * align
  BY AlignUpRight
<1>2. PICK j \in Nat : PAGE_SIZE = j * align
  BY Sizes, MultipleOf
<1>3. k * align < PAGE_SIZE + align
  <2>1. k * align < x + align
    BY <1>1, AlignUpRight
  <2> QED
    BY <2>1, Sizes
<1>4. (j + 1) * align = PAGE_SIZE + align
  BY <1>2
<1>5. k < j + 1
  BY <1>3, <1>4, MulCancel
<1>6. k * align <= j * align
  BY <1>5, MulMono
<1> QED
  BY <1>1, <1>2, <1>6

LEMMA LeastOf ==
  ASSUME NEW S \in SUBSET Nat, S # {}
  PROVE  Least(S) \in S
<1>1. \E i \in S : \A j \in S : i <= j
  BY LeastNat
<1> QED
  BY <1>1 DEF Least

(* The scan's stride in pages, and that its steps from the start, or from  *)
(* an aligned preference, keep the alignment. *)
Stride(align) == IF PFN_DOWN(align) = 0 THEN 1 ELSE PFN_DOWN(align)

LEMMA StrideOne ==
  ASSUME NEW align \in Nat \ {0}, PAGE_SIZE % align = 0, align % PAGE_SIZE # 0
  PROVE  Stride(align) = 1
<1>1. PICK j \in Nat : PAGE_SIZE = j * align
  BY Sizes, MultipleOf
<1>2. j # 0 /\ j # 1
  <2>1. j # 0
    BY <1>1, Sizes
  <2>2. j = 1 => align = PAGE_SIZE /\ 1 * PAGE_SIZE = PAGE_SIZE
    BY <1>1, Sizes
  <2>3. (1 * PAGE_SIZE) % PAGE_SIZE = 0
    BY Sizes, Multiple
  <2> QED
    BY <2>1, <2>2, <2>3
<1>3. align < PAGE_SIZE
  <2>1. 2 * align <= j * align
    BY <1>2, MulMono
  <2> QED
    BY <1>1, <2>1
<1>4. PFN_DOWN(align) = 0
  BY <1>3, Sizes, DownIs
<1> QED
  BY <1>4 DEF Stride

LEMMA StrideAligned ==
  ASSUME NEW align \in Nat \ {0}, PAGE_SIZE % align = 0 \/ align % PAGE_SIZE = 0,
         NEW i \in Nat
  PROVE  /\ Stride(align) \in Nat \ {0}
         /\ i % Stride(align) = 0 <=> (i * PAGE_SIZE) % align = 0
<1>1. PFN_DOWN(align) \in Nat
  BY Down
<1>2. CASE align % PAGE_SIZE = 0
  <2>1. PICK m \in Nat : align = m * PAGE_SIZE
    BY <1>2, Sizes, MultipleOf
  <2>2. m # 0
    BY <2>1, Sizes
  <2>3. PFN_DOWN(align) = m
    <3>1. (m + 1) * PAGE_SIZE = m * PAGE_SIZE + PAGE_SIZE
      BY Sizes
    <3> QED
      BY <2>1, <3>1, Sizes, DownIs
  <2>4. Stride(align) = m
    BY <2>2, <2>3 DEF Stride
  <2>5. ASSUME i % m = 0 PROVE (i * PAGE_SIZE) % align = 0
    <3>1. PICK k \in Nat : i = k * m
      BY <2>2, <2>5, MultipleOf
    <3>2. i * PAGE_SIZE = k * align
      BY <2>1, <3>1, Sizes
    <3> QED
      BY <3>2, Multiple
  <2>6. ASSUME (i * PAGE_SIZE) % align = 0 PROVE i % m = 0
    <3>1. i * PAGE_SIZE \in Nat
      BY Sizes
    <3>2. PICK k \in Nat : i * PAGE_SIZE = k * align
      BY <2>6, <3>1, MultipleOf
    <3>3. i * PAGE_SIZE = (k * m) * PAGE_SIZE
      BY <2>1, <3>2, Sizes
    <3>4. k * m \in Nat
      OBVIOUS
    <3>5. ~(i < k * m) /\ ~(k * m < i)
      <4>1. ASSUME NEW a \in Nat, NEW b \in Nat, a < b PROVE a * PAGE_SIZE < b * PAGE_SIZE
        <5>1. a + 1 <= b /\ (a + 1) * PAGE_SIZE = a * PAGE_SIZE + PAGE_SIZE /\ a * PAGE_SIZE \in Nat
          BY <4>1, Sizes
        <5>2. (a + 1) * PAGE_SIZE <= b * PAGE_SIZE
          BY <5>1, Sizes, MulMono
        <5>3. b * PAGE_SIZE \in Nat
          BY Sizes
        <5> QED
          BY <5>1, <5>2, <5>3, Sizes
      <4> HIDE DEF Pages
      <4>2. i * PAGE_SIZE \in Nat
        BY <3>1
      <4> QED
        BY <3>3, <3>4, <4>1, <4>2
    <3>6. i = k * m
      BY <3>4, <3>5
    <3> QED
      BY <2>2, <3>6, Multiple
  <2> QED
    BY <1>2, <2>2, <2>4, <2>5, <2>6
<1>3. CASE align % PAGE_SIZE # 0
  <2>1. Stride(align) \in Nat \ {0}
    BY <1>1 DEF Stride
  <2>2. PICK j \in Nat : PAGE_SIZE = j * align
    BY <1>3, Sizes, MultipleOf
  <2>3. i * PAGE_SIZE = (i * j) * align /\ i * j \in Nat
    BY <2>2
  <2>4. (i * PAGE_SIZE) % align = 0
    BY <2>3, Multiple
  <2>5. Stride(align) = 1 /\ i % 1 = 0
    BY <1>3, StrideOne
  <2> QED
    BY <2>1, <2>4, <2>5
<1> QED
  BY <1>2, <1>3

(* The start page is aligned, and good if the scan found any.              *)
LEMMA StartRight ==
  ASSUME NEW size \in Nat, NEW align \in Nat \ {0}, NEW goal \in Nat,
         PAGE_SIZE % align = 0 \/ align % PAGE_SIZE = 0
  PROVE  LET start == StartPage(size, align, goal)
         IN  /\ start \in Nat /\ (start * PAGE_SIZE) % align = 0
             /\ \/ start .. start + PFN_UP(size) - 1 \subseteq Pages \ node_bootmem_map
                \/ start = 0 /\ GoodStarts(0, Stride(align), PFN_UP(size)) = {}
<1> DEFINE wanted    == IF PFN_DOWN(goal) < node_low_pfn THEN goal ELSE 0
           preferred == PFN_DOWN(AlignUp(wanted, align))
           incr      == Stride(align)
           Found(from) == GoodStarts(from, incr, PFN_UP(size))
           start     == StartPage(size, align, goal)
<1>1. start = IF Found(preferred) # {} THEN Least(Found(preferred))
              ELSE IF Found(0) # {} THEN Least(Found(0)) ELSE 0
  BY DEF StartPage, Stride
<1>2. incr \in Nat \ {0}
  BY StrideAligned
<1>3. preferred \in Nat /\ preferred % incr = 0
  <2>1. wanted \in Nat
    OBVIOUS
  <2> HIDE DEF wanted
  <2>2. PICK k \in Nat : AlignUp(wanted, align) = k * align
    BY <2>1, AlignUpRight
  <2>3. preferred \in Nat
    BY <2>1, AlignUpRight, Down
  <2>4. CASE align % PAGE_SIZE = 0
    <3>1. PICK m \in Nat : align = m * PAGE_SIZE
      BY <2>4, Sizes, MultipleOf
    <3>2. k * align = (k * m) * PAGE_SIZE /\ k * m \in Nat /\ k * align \in Nat
      BY <3>1, Sizes
    <3>3. (k * m + 1) * PAGE_SIZE = (k * m) * PAGE_SIZE + PAGE_SIZE
      BY <3>2, Sizes
    <3>4. preferred = k * m
      BY <2>2, <3>2, <3>3, Sizes, DownIs
    <3>5. (preferred * PAGE_SIZE) % align = 0
      BY <3>2, <3>4, Multiple
    <3> QED
      BY <2>3, <2>4, <3>5, StrideAligned
  <2>5. CASE align % PAGE_SIZE # 0
    <3>5. incr = 1
      BY <2>5, StrideOne
    <3>6. \A x \in Nat : x % 1 = 0
      OBVIOUS
    <3> QED
      BY <2>3, <3>5, <3>6
  <2> QED
    BY <2>4, <2>5
<1> HIDE DEF preferred, incr, start
<1>4. ASSUME NEW from \in Nat, from % incr = 0, Found(from) # {}
      PROVE  LET i == Least(Found(from))
             IN  /\ i \in Nat /\ (i * PAGE_SIZE) % align = 0
                 /\ i .. i + PFN_UP(size) - 1 \subseteq Pages \ node_bootmem_map
  <2> DEFINE i == Least(Found(from))
  <2>1. i \in Found(from)
    <3>1. Found(from) \in SUBSET Nat
      BY Sizes DEF GoodStarts
    <3> HIDE DEF Found
    <3> QED
      BY <1>4, <3>1, LeastOf
  <2>2. /\ i \in Nat /\ i >= from /\ (i - from) % incr = 0
        /\ i .. i + PFN_UP(size) - 1 \subseteq Pages \ node_bootmem_map
    BY <2>1, Sizes DEF GoodStarts
  <2> HIDE DEF i
  <2>3. PICK k \in Nat : i - from = k * incr
    <3>1. i - from \in Nat
      BY <2>2
    <3> QED
      BY <1>2, <2>2, <3>1, MultipleOf
  <2>4. PICK l \in Nat : from = l * incr
    BY <1>2, <1>4, MultipleOf
  <2>5. i = (k + l) * incr
    <3>1. (k + l) * incr = k * incr + l * incr /\ k * incr \in Nat /\ l * incr \in Nat
      BY <1>2
    <3> QED
      BY <2>2, <2>3, <2>4, <3>1
  <2>6. i % incr = 0
    BY <1>2, <2>5, Multiple
  <2>7. (i * PAGE_SIZE) % align = 0
    BY <2>2, <2>6, StrideAligned DEF incr
  <2> QED
    BY <2>2, <2>7 DEF i
<1>5. 0 % incr = 0 /\ (0 * PAGE_SIZE) % align = 0
  <2>1. 0 * incr = 0 /\ 0 * PAGE_SIZE = 0 * align
    BY <1>2, Sizes
  <2> QED
    BY <1>2, <2>1, Multiple
<1>6. CASE Found(preferred) # {}
  BY <1>1, <1>3, <1>4, <1>6 DEF start
<1>7. CASE Found(preferred) = {} /\ Found(0) # {}
  BY <1>1, <1>4, <1>5, <1>7 DEF start
<1>8. CASE Found(preferred) = {} /\ Found(0) = {}
  BY <1>1, <1>5, <1>8 DEF start, incr
<1> QED
  BY <1>6, <1>7, <1>8
----------------------------------------------------------------------------
(* Placement *)

(* Where what begins at a page ends, if it does not fill its last page.    *)
LEMMA EndInPage ==
  ASSUME NEW x \in Nat, x % PAGE_SIZE # 0
  PROVE  x = (PFN_UP(x) - 1) * PAGE_SIZE + (x % PAGE_SIZE)
<1> DEFINE q == x \div PAGE_SIZE
           r == x % PAGE_SIZE
<1>1. q \in Nat /\ r \in 0 .. PAGE_SIZE - 1 /\ x = q * PAGE_SIZE + r /\ r # 0
  BY Sizes, DivMod
<1> HIDE DEF q, r
<1>2. (q + 1) * PAGE_SIZE = q * PAGE_SIZE + PAGE_SIZE /\ q * PAGE_SIZE \in Nat
  BY <1>1, Sizes
<1>3. PFN_UP(x) = q + 1
  BY <1>1, <1>2, Sizes, UpIs
<1>4. PFN_UP(x) - 1 = q
  BY <1>1, <1>3
<1> QED
  BY <1>1, <1>4 DEF r

(* The new pages are those that the allocation touches, but for the page   *)
(* of the tail in which it may begin.  It is aligned and behind what the   *)
(* tail's owner has; and where it ends is written down.                    *)
LEMMA PlacementRight ==
  ASSUME NEW size \in Nat \ {0}, NEW align \in Nat \ {0}, NEW start \in Nat,
         PAGE_SIZE % align = 0 \/ align % PAGE_SIZE = 0, (start * PAGE_SIZE) % align = 0,
         last_pos \in Int, last_offset \in 0 .. PAGE_SIZE - 1,
         last_offset # 0 => last_pos \in Nat
  PROVE  LET place == Placement(size, align, start)
             new   == start .. start + place.pages - 1
         IN  /\ place.addr \in Nat /\ place.addr % align = 0 /\ place.pages \in Nat
             /\ place.pages <= PFN_UP(size)
             /\ new \subseteq PagesTouched(place.addr, size)
             /\ \/ PagesTouched(place.addr, size) \subseteq new
                \/ /\ JoinsLast(start, align)
                   /\ PagesTouched(place.addr, size) \subseteq new \cup {last_pos}
                   /\ last_pos * PAGE_SIZE + last_offset <= place.addr
             /\ place.off \in 0 .. PAGE_SIZE - 1
             /\ place.off # 0 =>
                  place.addr + size = (start + place.pages - 1) * PAGE_SIZE + place.off
<1> DEFINE place == Placement(size, align, start)
           new   == start .. start + place.pages - 1
<1>1. CASE ~JoinsLast(start, align)
  <2> DEFINE u == PFN_UP(size)
  <2>1. place = [addr |-> start * PAGE_SIZE, pages |-> u, off |-> size % PAGE_SIZE]
    BY <1>1 DEF Placement, OffsetInPage
  <2>2. place.addr = start * PAGE_SIZE /\ place.pages = u /\ place.off = size % PAGE_SIZE
    BY <2>1
  <2>3. u \in Nat /\ start * PAGE_SIZE \in Nat
    BY Up, Sizes
  <2>4. PagesTouched(start * PAGE_SIZE, size) = start .. start + u - 1
    BY TouchedFromPage
  <2>5. size % PAGE_SIZE \in 0 .. PAGE_SIZE - 1
    BY Sizes, DivMod
  <2>6. ASSUME size % PAGE_SIZE # 0
        PROVE  start * PAGE_SIZE + size = (start + u - 1) * PAGE_SIZE + (size % PAGE_SIZE)
    <3>1. size = (u - 1) * PAGE_SIZE + (size % PAGE_SIZE)
      BY <2>6, EndInPage
    <3> DEFINE r == size % PAGE_SIZE
    <3> HIDE DEF u, r
    <3>2. (start + u - 1) * PAGE_SIZE = start * PAGE_SIZE + (u - 1) * PAGE_SIZE
      BY <2>3, Sizes
    <3>3. (u - 1) * PAGE_SIZE \in Int /\ r \in Int /\ start * PAGE_SIZE \in Int
      BY <2>3, <2>5, Sizes DEF r
    <3> QED
      BY <3>1, <3>2, <3>3 DEF r
  <2> HIDE DEF u, place
  <2> QED
    BY <2>2, <2>3, <2>4, <2>5, <2>6 DEF u, place
<1>2. CASE JoinsLast(start, align)
  <2> DEFINE offset == AlignUp(last_offset, align)
             room == PAGE_SIZE - offset
  <2>1. align <= PAGE_SIZE /\ last_offset # 0 /\ last_pos \in Nat /\ last_pos + 1 = start
    BY <1>2 DEF JoinsLast
  <2>2. PAGE_SIZE % align = 0
    <3>1. CASE align % PAGE_SIZE = 0
      <4>1. PICK m \in Nat : align = m * PAGE_SIZE
        BY <3>1, Sizes, MultipleOf
      <4>2. ~(m >= 2)
        <5>1. m >= 2 => 2 * PAGE_SIZE <= m * PAGE_SIZE
          BY Sizes, MulMono
        <5> QED
          BY <2>1, <4>1, <5>1, Sizes
      <4>3. m = 1
        BY <4>1, <4>2, Sizes
      <4>4. align = PAGE_SIZE /\ PAGE_SIZE = 1 * PAGE_SIZE
        BY <4>1, <4>3, Sizes
      <4> QED
        BY <4>4, Sizes, Multiple
    <3> QED
      BY <3>1
  <2>3. last_offset \in Nat /\ last_offset <= PAGE_SIZE /\ last_offset \in 0 .. PAGE_SIZE
    BY Sizes
  <2>4. /\ offset \in Nat /\ last_offset <= offset /\ offset <= PAGE_SIZE
        /\ \E k \in Nat : offset = k * align
    BY <2>2, <2>3, AlignUpRight, AlignUpInPage
  <2>5. place.addr = last_pos * PAGE_SIZE + offset
    BY <1>2 DEF Placement, TailOffset
  <2>6. /\ place.pages = IF size < room THEN 0 ELSE PFN_UP(size - room)
        /\ place.off = (IF size < room THEN offset + size ELSE size - room) % PAGE_SIZE
    BY <1>2 DEF Placement, TailOffset, PagesBeyond, OffsetInPage
  <2> HIDE DEF offset, place
  <2>7. last_pos * PAGE_SIZE \in Nat /\ start * PAGE_SIZE = last_pos * PAGE_SIZE + PAGE_SIZE
    BY <2>1, Sizes
  <2>8. place.addr \in Nat /\ last_pos * PAGE_SIZE + last_offset <= place.addr
    BY <2>3, <2>4, <2>5, <2>7
  <2>9. place.addr % align = 0
    <3>1. PICK k \in Nat : offset = k * align
      BY <2>4
    <3>2. PICK j \in Nat : PAGE_SIZE = j * align
      BY <2>2, Sizes, MultipleOf
    <3>3. place.addr = (last_pos * j + k) * align /\ last_pos * j + k \in Nat
      BY <2>1, <2>5, <3>1, <3>2
    <3> QED
      BY <3>3, Multiple
  <2>10. room \in Nat /\ room <= PAGE_SIZE
    BY <2>4, Sizes
  <2>11. CASE size < room
    <3>1. place.pages = 0 /\ offset + size \in 0 .. PAGE_SIZE - 1
      BY <2>4, <2>6, <2>11, Sizes
    <3>2. place.off = offset + size
      <4>1. 0 * PAGE_SIZE + (offset + size) = offset + size
        BY <3>1, Sizes
      <4>2. ((0 * PAGE_SIZE) + (offset + size)) % PAGE_SIZE = offset + size
        BY <3>1, Sizes, DivUnique
      <4> QED
        BY <2>6, <2>11, <4>1, <4>2
    <3>3. PFN_DOWN(place.addr) = last_pos
      <4>1. (last_pos + 1) * PAGE_SIZE = last_pos * PAGE_SIZE + PAGE_SIZE
        BY <2>1, Sizes
      <4>2. last_pos * PAGE_SIZE <= place.addr /\ place.addr < (last_pos + 1) * PAGE_SIZE
        BY <2>3, <2>4, <2>5, <2>7, <2>10, <2>11, <4>1, Sizes
      <4> QED
        BY <2>1, <2>8, <4>2, DownIs
    <3>4. PFN_UP(place.addr + size) = last_pos + 1
      <4>1. (last_pos + 1) * PAGE_SIZE = last_pos * PAGE_SIZE + PAGE_SIZE
        BY <2>1, Sizes
      <4>2. /\ place.addr + size \in Nat /\ last_pos + 1 \in Nat
            /\ place.addr + size <= (last_pos + 1) * PAGE_SIZE
            /\ (last_pos + 1) * PAGE_SIZE < (place.addr + size) + PAGE_SIZE
        BY <2>1, <2>4, <2>5, <2>7, <2>8, <2>10, <2>11, <4>1, Sizes
      <4> QED
        BY <4>2, UpIs
    <3>5. PagesTouched(place.addr, size) = {last_pos}
      BY <2>1, <3>3, <3>4 DEF PagesTouched
    <3>6. new = {}
      BY <3>1
    <3>7. place.addr + size = (start + place.pages - 1) * PAGE_SIZE + place.off
      BY <2>1, <2>4, <2>5, <2>7, <3>1, <3>2
    <3>8. place.pages <= PFN_UP(size)
      BY <3>1, Up
    <3> QED
      BY <1>2, <2>8, <2>9, <3>1, <3>2, <3>5, <3>6, <3>7, <3>8 DEF place
  <2>12. CASE ~(size < room)
    <3> DEFINE more == size - room
               u == PFN_UP(more)
               r == more % PAGE_SIZE
    <3>1. more \in Nat /\ more <= size /\ place.pages = u /\ place.off = r
      BY <2>6, <2>10, <2>12
    <3>2. u \in Nat /\ more <= u * PAGE_SIZE /\ u * PAGE_SIZE < more + PAGE_SIZE
      BY <3>1, Up
    <3>3. place.addr + size = start * PAGE_SIZE + more
      BY <2>4, <2>5, <2>7, <3>1, Sizes
    <3>4. PFN_UP(place.addr + size) = start + u
      <4>1. PagesTouched(start * PAGE_SIZE, more) = start .. start + u - 1
        BY <3>1, TouchedFromPage
      <4> HIDE DEF u, more
      <4>2. /\ (start + u) * PAGE_SIZE = start * PAGE_SIZE + u * PAGE_SIZE
            /\ start * PAGE_SIZE \in Nat /\ u * PAGE_SIZE \in Nat
        BY <3>2, Sizes
      <4>3. /\ place.addr + size \in Nat /\ start + u \in Nat
            /\ place.addr + size <= (start + u) * PAGE_SIZE
            /\ (start + u) * PAGE_SIZE < (place.addr + size) + PAGE_SIZE
        BY <3>1, <3>2, <3>3, <4>2, Sizes
      <4> QED
        BY <4>3, UpIs
    <3>5. PFN_DOWN(place.addr) \in {last_pos, start}
      <4>1. /\ (last_pos + 1) * PAGE_SIZE = last_pos * PAGE_SIZE + PAGE_SIZE
            /\ (start + 1) * PAGE_SIZE = start * PAGE_SIZE + PAGE_SIZE
        BY <2>1, Sizes
      <4>2. CASE offset < PAGE_SIZE
        <5>1. last_pos * PAGE_SIZE <= place.addr /\ place.addr < (last_pos + 1) * PAGE_SIZE
          BY <2>4, <2>5, <2>7, <4>1, <4>2, Sizes
        <5> QED
          BY <2>1, <2>8, <5>1, DownIs
      <4>3. CASE offset = PAGE_SIZE
        <5>1. start * PAGE_SIZE <= place.addr /\ place.addr < (start + 1) * PAGE_SIZE
          BY <2>1, <2>4, <2>5, <2>7, <4>1, <4>3, Sizes
        <5> QED
          BY <2>8, <5>1, DownIs
      <4> QED
        BY <2>4, <4>2, <4>3, Sizes
    <3> HIDE DEF u, more, r
    <3>6. start + place.pages - 1 = (start + u) - 1
      BY <3>1, <3>2
    <3>7. /\ new \subseteq PagesTouched(place.addr, size)
          /\ PagesTouched(place.addr, size) \subseteq new \cup {last_pos}
      <4>1. PagesTouched(place.addr, size) = PFN_DOWN(place.addr) .. (start + u) - 1
        BY <3>4 DEF PagesTouched
      <4> DEFINE low  == PFN_DOWN(place.addr)
                 high == (start + u) - 1
      <4>2. new = start .. high
        BY <3>6
      <4>3. low \in {last_pos, start} /\ high \in Int
        BY <3>2, <3>5
      <4> HIDE DEF low, high, new
      <4>4. start .. high \subseteq low .. high /\ low .. high \subseteq (start .. high) \cup {last_pos}
        BY <2>1, <4>3
      <4> QED
        BY <4>1, <4>2, <4>4 DEF low, high
    <3>8. r \in 0 .. PAGE_SIZE - 1
      BY <3>1, Sizes, DivMod DEF r
    <3>9. ASSUME r # 0
          PROVE  place.addr + size = (start + u - 1) * PAGE_SIZE + r
      <4>1. more = (u - 1) * PAGE_SIZE + r
        BY <3>1, <3>9, EndInPage DEF r, u
      <4>2. (start + u - 1) * PAGE_SIZE = start * PAGE_SIZE + (u - 1) * PAGE_SIZE
        BY <3>2, Sizes
      <4>3. (u - 1) * PAGE_SIZE \in Int /\ start * PAGE_SIZE \in Int
        BY <3>2, Sizes
      <4> QED
        BY <3>3, <3>8, <4>1, <4>2, <4>3
    <3>10. u <= PFN_UP(size)
      <4> DEFINE v == PFN_UP(size)
      <4>1. v \in Nat /\ size <= v * PAGE_SIZE
        BY Up
      <4> HIDE DEF v
      <4>2. (v + 1) * PAGE_SIZE = v * PAGE_SIZE + PAGE_SIZE /\ v * PAGE_SIZE \in Nat /\ u * PAGE_SIZE \in Nat
        BY <3>2, <4>1, Sizes
      <4>3. u * PAGE_SIZE < (v + 1) * PAGE_SIZE
        BY <3>1, <3>2, <4>1, <4>2, Sizes
      <4>4. u < v + 1
        BY <3>2, <4>1, <4>3, Sizes, MulCancel
      <4> QED
        BY <3>2, <4>1, <4>4 DEF v
    <3> QED
      BY <1>2, <2>8, <2>9, <3>1, <3>2, <3>7, <3>8, <3>9, <3>10 DEF place
  <2> QED
    BY <2>11, <2>12
<1> QED
  BY <1>1, <1>2
----------------------------------------------------------------------------
(* Steps *)

LEMMA InitIInv == Init => IInv
BY Sizes DEF Init, IInv, Types, Pages, AllocsDisjoint, AllocsInFreeRam, MapExact, Tail

(* The pages between, and at, two addresses of the node are the node's.    *)
LEMMA PagesOfNode ==
  ASSUME NEW low \in Nat, NEW high \in Int, high <= node_low_pfn
  PROVE  low .. high - 1 \subseteq Pages
BY Sizes DEF Pages

LEMMA FreeIInv ==
  ASSUME IInv, NEW c \in FreeCalls, taken = {}, allocs = {}, FreeBootmem(c.addr, c.size)
  PROVE  IInv'
<1> DEFINE wrong   == c.size = 0 \/ PFN_DOWN(c.addr + c.size) > node_low_pfn
           covered == PagesCovered(c.addr, c.size)
           cleared == IF wrong THEN {}
                      ELSE {i \in covered : \A j \in covered : j <= i => j \in node_bootmem_map}
<1>1. /\ node_bootmem_map' = node_bootmem_map \ cleared
      /\ ram' = ram \cup cleared
      /\ UNCHANGED <<last_pos, last_offset, taken, allocs>>
  BY DEF FreeBootmem
<1>2. cleared \subseteq Pages
  <2>1. CASE wrong
    BY <2>1
  <2>2. CASE ~wrong
    <3>1. c.addr \in Nat /\ c.addr + c.size \in Nat
      BY Sizes
    <3>2. PFN_UP(c.addr) \in Nat /\ PFN_DOWN(c.addr + c.size) \in Nat
      BY <3>1, Up, Down
    <3>3. covered \subseteq Pages
      <4>1. PFN_DOWN(c.addr + c.size) <= node_low_pfn
        BY <2>2, <3>2, Sizes
      <4> QED
        BY <3>2, <4>1, PagesOfNode DEF PagesCovered
    <3> QED
      BY <2>2, <3>3
  <2> QED
    BY <2>1, <2>2
<1> HIDE DEF cleared
<1>3. last_offset = 0
  BY DEF IInv, Tail
<1> QED
  BY <1>1, <1>2, <1>3 DEF IInv, Types, AllocsDisjoint, AllocsInFreeRam, MapExact, Tail

LEMMA ReserveIInv ==
  ASSUME IInv, NEW c \in ReserveCalls, allocs = {}, ReserveBootmem(c.addr, c.size)
  PROVE  IInv'
<1> DEFINE wrong   == c.size = 0 \/ PFN_UP(c.addr + c.size) > node_low_pfn
           touched == IF wrong THEN {} ELSE PagesTouched(c.addr, c.size)
<1>1. /\ node_bootmem_map' = node_bootmem_map \cup touched
      /\ taken' = taken \cup touched
      /\ UNCHANGED <<last_pos, last_offset, ram, allocs>>
  BY DEF ReserveBootmem
<1>2. touched \subseteq Pages
  <2>1. CASE wrong
    BY <2>1
  <2>2. CASE ~wrong
    <3>1. c.addr \in Nat /\ c.addr + c.size \in Nat
      BY Sizes
    <3>2. PFN_DOWN(c.addr) \in Nat /\ PFN_UP(c.addr + c.size) \in Nat
      BY <3>1, Up, Down
    <3>3. PFN_UP(c.addr + c.size) <= node_low_pfn
      BY <2>2, <3>2, Sizes
    <3> QED
      BY <2>2, <3>2, <3>3, PagesOfNode DEF PagesTouched
  <2> QED
    BY <2>1, <2>2
<1> HIDE DEF touched
<1>3. last_offset = 0
  BY DEF IInv, Tail
<1> QED
  BY <1>1, <1>2, <1>3 DEF IInv, Types, AllocsDisjoint, AllocsInFreeRam, MapExact, Tail

LEMMA AllocIInv ==
  ASSUME IInv, NEW c \in AllocCalls, AllocBootmem(c.size, c.align, c.goal)
  PROVE  IInv'
<1> DEFINE start == StartPage(c.size, c.align, c.goal)
           place == Placement(c.size, c.align, start)
           new   == start .. start + place.pages - 1
           fails == c.size = 0 \/ ~(new \subseteq Pages \ node_bootmem_map)
           a     == [addr |-> place.addr, size |-> c.size, align |-> c.align]
           end   == start + place.pages - 1
<1>1. /\ IF fails
           THEN UNCHANGED <<node_bootmem_map, last_pos, last_offset, allocs>>
           ELSE /\ node_bootmem_map' = node_bootmem_map \cup new
                /\ last_pos' = start + place.pages - 1
                /\ last_offset' = place.off
                /\ allocs' = allocs \cup {a}
      /\ UNCHANGED <<ram, taken>>
  BY DEF AllocBootmem
<1>2. CASE fails
  <2>1. UNCHANGED <<node_bootmem_map, last_pos, last_offset, allocs, ram, taken>>
    BY <1>1, <1>2
  <2> QED
    BY <2>1 DEF IInv, Types, AllocsDisjoint, AllocsInFreeRam, MapExact, Tail, Rest
<1>3. CASE ~fails
  <2>1. c.size \in Nat \ {0} /\ new \subseteq Pages \ node_bootmem_map
    BY <1>3, Sizes
  <2>2. start \in Nat /\ (start * PAGE_SIZE) % c.align = 0
    BY Sizes, StartRight
  <2>3. /\ last_pos \in Int /\ last_offset \in 0 .. PAGE_SIZE - 1
        /\ last_offset # 0 => last_pos \in Nat
    BY Sizes DEF IInv, Types, Tail
  <2>4. /\ place.addr \in Nat /\ place.addr % c.align = 0 /\ place.pages \in Nat
        /\ new \subseteq PagesTouched(place.addr, c.size)
        /\ \/ PagesTouched(place.addr, c.size) \subseteq new
           \/ /\ JoinsLast(start, c.align)
              /\ PagesTouched(place.addr, c.size) \subseteq new \cup {last_pos}
              /\ last_pos * PAGE_SIZE + last_offset <= place.addr
        /\ place.off \in 0 .. PAGE_SIZE - 1
        /\ place.off # 0 =>
             place.addr + c.size = (start + place.pages - 1) * PAGE_SIZE + place.off
    <3>1. /\ c.size \in Nat \ {0} /\ c.align \in Nat \ {0}
          /\ PAGE_SIZE % c.align = 0 \/ c.align % PAGE_SIZE = 0
      BY <2>1, Sizes
    <3> HIDE DEF start
    <3> QED
      BY <2>2, <2>3, <3>1, PlacementRight
  <2>5. /\ node_bootmem_map' = node_bootmem_map \cup new
        /\ last_pos' = end /\ last_offset' = place.off
        /\ allocs' = allocs \cup {a} /\ UNCHANGED <<ram, taken>>
    BY <1>1, <1>3
  <2>6. JoinsLast(start, c.align) =>
          /\ last_pos \in Pages /\ (\E b \in allocs : last_pos \in PagesOf(b))
          /\ \A b \in allocs : Bytes(b) \cap Rest = {}
    BY DEF IInv, Tail, JoinsLast
  <2> HIDE DEF start, place
  <2>7. /\ a.addr = place.addr /\ a.size = c.size /\ a.align = c.align
        /\ a \in [addr : Nat, size : Nat \ {0}, align : Nat \ {0}]
    BY <2>1, <2>4, Sizes
  <2>8. /\ PagesOf(a) \subseteq new
           \/ /\ JoinsLast(start, c.align) /\ PagesOf(a) \subseteq new \cup {last_pos}
              /\ last_pos * PAGE_SIZE + last_offset <= a.addr
        /\ new \subseteq PagesOf(a)
    BY <2>4, <2>7 DEF PagesOf
  <2>9. \A b \in allocs : /\ PagesOf(b) \subseteq node_bootmem_map \cap (ram \ taken)
                          /\ b.addr \in Nat /\ b.size \in Nat \ {0}
    BY DEF IInv, Types, MapExact, AllocsInFreeRam, PagesOf
  <2> HIDE DEF a, new, fails
  <2>10. /\ new \subseteq Pages \ node_bootmem_map
         /\ new \subseteq ram \ taken
    BY <2>1 DEF IInv, MapExact
  <2>11. MapExact'
    <3>1. node_bootmem_map' = node_bootmem_map \cup PagesOf(a)
      <4>1. JoinsLast(start, c.align) => last_pos \in node_bootmem_map
        BY <2>6, <2>9
      <4> QED
        BY <2>5, <2>8, <4>1
    <3> QED
      BY <2>5, <3>1 DEF IInv, MapExact, PagesOf
  <2>12. AllocsInFreeRam'
    <3>1. PagesOf(a) \subseteq ram \ taken
      BY <2>6, <2>8, <2>9, <2>10
    <3>2. a.addr % a.align = 0
      BY <2>4, <2>7
    <3> QED
      BY <2>5, <3>1, <3>2 DEF IInv, AllocsInFreeRam, PagesOf
  (* A byte of a, and one behind it in the last page, is not b's. *)
  <2>13. ASSUME NEW b \in allocs, NEW x \in Bytes(b), x >= a.addr,
                PFN_DOWN(x) \in PagesOf(a)
         PROVE  FALSE
    <3>1. b.addr \in Nat /\ b.size \in Nat /\ x \in Nat /\ PFN_DOWN(x) \in PagesOf(b)
      BY <2>9, PageOfByte DEF Bytes, PagesOf
    <3>2. PFN_DOWN(x) \notin new
      BY <2>9, <2>10, <3>1
    <3>3. /\ JoinsLast(start, c.align) /\ PFN_DOWN(x) = last_pos
          /\ last_pos * PAGE_SIZE + last_offset <= a.addr
      BY <2>8, <2>13, <3>2
    <3>4. x < (last_pos + 1) * PAGE_SIZE
      BY <3>1, <3>3, Down
    <3>5. /\ last_pos * PAGE_SIZE + last_offset \in Int /\ (last_pos + 1) * PAGE_SIZE \in Int
          /\ a.addr \in Nat
      BY <2>3, <2>7, Sizes
    <3>6. x \in Rest
      BY <2>13, <3>1, <3>3, <3>4, <3>5 DEF Rest
    <3> QED
      BY <2>6, <2>13, <3>3, <3>6
  <2>14. AllocsDisjoint'
    <3>1. ASSUME NEW b \in allocs PROVE Bytes(a) \cap Bytes(b) = {}
      <4>1. ASSUME NEW x \in Bytes(a), x \in Bytes(b) PROVE FALSE
        <5>1. x \in a.addr .. a.addr + a.size - 1 /\ a.addr \in Nat /\ a.size \in Nat
          BY <2>7, <4>1 DEF Bytes
        <5>2. PFN_DOWN(x) \in PagesOf(a)
          BY <5>1, PageOfByte DEF PagesOf
        <5>3. x >= a.addr
          BY <5>1
        <5> QED
          BY <2>13, <4>1, <5>2, <5>3
      <4> QED
        BY <4>1
    <3> QED
      BY <2>5, <3>1 DEF IInv, AllocsDisjoint, Bytes
  <2>15. Types'
    <3>1. end \in Int
      BY <2>2, <2>4
    <3> HIDE DEF end
    <3> QED
      BY <2>4, <2>5, <2>7, <2>10, <3>1 DEF IInv, Types
  <2>16. Tail'
    <3>1. SUFFICES ASSUME place.off # 0
                   PROVE  /\ end \in Pages
                          /\ \E b \in allocs' : end \in PagesOf(b)
                          /\ \A b \in allocs' : Bytes(b) \cap Rest' = {}
      BY <2>5 DEF Tail, Bytes, PagesOf, PagesTouched, PFN_DOWN, PFN_UP, Rest, Pages
    <3>2. a.addr + a.size = end * PAGE_SIZE + place.off /\ place.off \in 1 .. PAGE_SIZE - 1
      BY <2>4, <2>7, <3>1, Sizes
    <3>3. end \in Int /\ (end + 1) * PAGE_SIZE = end * PAGE_SIZE + PAGE_SIZE /\ end * PAGE_SIZE \in Int
      BY <2>2, <2>4, Sizes
    <3>4. Rest' = end * PAGE_SIZE + place.off .. (end + 1) * PAGE_SIZE - 1
      BY <2>5 DEF Rest
    <3>5. end \in Nat
      <4>1. end >= -1
        BY <2>2, <2>4
      <4>2. end # -1
        BY <2>7, <3>2, Sizes
      <4> QED
        BY <3>3, <4>1, <4>2
    <3> HIDE DEF end
    <3>6. end \in PagesOf(a)
      <4> DEFINE x == a.addr + a.size - 1
      <4>1. x \in a.addr .. a.addr + a.size - 1 /\ a.addr \in Nat /\ a.size \in Nat /\ x \in Nat
        BY <2>7
      <4>2. end * PAGE_SIZE <= x /\ x < (end + 1) * PAGE_SIZE
        BY <2>7, <3>2, <3>3, Sizes
      <4> HIDE DEF x
      <4>3. PFN_DOWN(x) = end
        BY <3>5, <4>1, <4>2, DownIs
      <4> QED
        BY <4>1, <4>3, PageOfByte DEF PagesOf
    <3>7. end \in Pages
      BY <2>6, <2>8, <2>10, <3>6
    <3>8. Bytes(a) \cap Rest' = {}
      BY <2>7, <3>2, <3>3, <3>4 DEF Bytes
    <3>9. ASSUME NEW b \in allocs, NEW x \in Bytes(b), x \in Rest'
          PROVE  FALSE
      <4>1. x \in Nat
        BY <2>9 DEF Bytes
      <4>2. end * PAGE_SIZE <= x /\ x < (end + 1) * PAGE_SIZE /\ x >= a.addr
        BY <2>7, <3>2, <3>3, <3>4, <3>9, <4>1, Sizes
      <4>3. PFN_DOWN(x) = end
        BY <3>5, <4>1, <4>2, DownIs
      <4> QED
        BY <2>13, <3>6, <3>9, <4>2, <4>3
    <3> QED
      BY <2>5, <3>6, <3>7, <3>8, <3>9
  <2> QED
    BY <2>11, <2>12, <2>14, <2>15, <2>16 DEF IInv
<1> QED
  BY <1>2, <1>3

LEMMA NextIInv == IInv /\ [Next]_vars => IInv'
<1> SUFFICES ASSUME IInv, [Next]_vars PROVE IInv'
  OBVIOUS
<1>1. CASE UNCHANGED vars
  BY <1>1 DEF vars, IInv, Types, AllocsDisjoint, AllocsInFreeRam, MapExact, Tail, Rest
<1>2. CASE Next
  BY <1>2, FreeIInv, ReserveIInv, AllocIInv DEF Next
<1> QED
  BY <1>1, <1>2

LEMMA SpecIInv == Spec => []IInv
BY InitIInv, NextIInv, PTL DEF Spec
----------------------------------------------------------------------------
(* No byte is handed out twice, whatever the sizes, alignments and goals.  *)
THEOREM NoByteTwice == Spec => []AllocsDisjoint
<1>1. IInv => AllocsDisjoint
  BY DEF IInv
<1> QED
  BY <1>1, SpecIInv, PTL

(* What is handed out is RAM that nobody reserved, as aligned as asked.    *)
THEOREM OnlyFreeRam == Spec => []AllocsInFreeRam
<1>1. IInv => AllocsInFreeRam
  BY DEF IInv
<1> QED
  BY <1>1, SpecIInv, PTL

(* The bitmap is exactly what is not RAM, reserved or handed out.          *)
THEOREM MapExactAlways == Spec => []MapExact
<1>1. IInv => MapExact
  BY DEF IInv
<1> QED
  BY <1>1, SpecIInv, PTL

(* The tail of the last allocation belongs to its page and to nobody.      *)
THEOREM TailFree == Spec => []TailUnused
<1>1. ASSUME IInv PROVE TailUnused
  <2>1. ASSUME last_offset # 0
        PROVE  last_offset < PAGE_SIZE /\ last_pos \in node_bootmem_map \cap ram
    BY <1>1, <2>1, Sizes DEF IInv, Types, Tail, MapExact, AllocsInFreeRam, PagesOf
  <2> QED
    BY <1>1, <2>1 DEF IInv, Tail, Rest, TailUnused
<1> QED
  BY <1>1, SpecIInv, PTL

(* An allocation stops the machine only if there is no room for it.        *)
THEOREM FailsOnlyIfFull == Spec => FailsOnlyWhenFull
<1> DEFINE Fits(c, i) ==
             /\ (i * PAGE_SIZE) % c.align = 0
             /\ PagesTouched(i * PAGE_SIZE, c.size) \subseteq Pages \ node_bootmem_map
           Right ==
             \A c \in AllocCalls :
               c.size # 0 /\ 0 \in taken /\ AllocBootmem(c.size, c.align, c.goal) /\ halted' =>
                 \A i \in Pages :
                   (i * PAGE_SIZE) % c.align = 0 =>
                     ~(PagesTouched(i * PAGE_SIZE, c.size) \subseteq Pages \ node_bootmem_map)
<1>1. ASSUME IInv, NEW c \in AllocCalls, c.size # 0,
             AllocBootmem(c.size, c.align, c.goal), halted', NEW i \in Pages, Fits(c, i)
      PROVE  FALSE
  <2> DEFINE start == StartPage(c.size, c.align, c.goal)
             place == Placement(c.size, c.align, start)
             new   == start .. start + place.pages - 1
             free  == Pages \ node_bootmem_map
  <2>1. ~(new \subseteq free)
    BY <1>1 DEF AllocBootmem
  <2>2. /\ start \in Nat /\ (start * PAGE_SIZE) % c.align = 0
        /\ \/ start .. start + PFN_UP(c.size) - 1 \subseteq free
           \/ GoodStarts(0, Stride(c.align), PFN_UP(c.size)) = {}
    BY Sizes, StartRight
  <2>3. /\ last_pos \in Int /\ last_offset \in 0 .. PAGE_SIZE - 1
        /\ last_offset # 0 => last_pos \in Nat
    BY <1>1, Sizes DEF IInv, Types, Tail
  <2> HIDE DEF start
  <2>4. place.pages \in Nat /\ place.pages <= PFN_UP(c.size)
    <3>1. c.size \in Nat \ {0}
      BY <1>1, Sizes
    <3> HIDE DEF place
    <3> QED
      BY <2>2, <2>3, <3>1, Sizes, PlacementRight DEF place
  <2> HIDE DEF place
  <2>5. PFN_UP(c.size) \in Nat
    BY Up, Sizes
  <2>6. new \subseteq start .. start + PFN_UP(c.size) - 1
    BY <2>2, <2>4, <2>5
  <2>7. i \in GoodStarts(0, Stride(c.align), PFN_UP(c.size))
    <3>1. i \in Nat /\ i - 0 = i /\ c.size \in Nat
      BY Sizes
    <3>2. i .. i + PFN_UP(c.size) - 1 \subseteq free
      BY <1>1, <3>1, TouchedFromPage
    <3>3. i % Stride(c.align) = 0
      BY <1>1, <3>1, Sizes, StrideAligned
    <3> QED
      BY <3>1, <3>2, <3>3 DEF GoodStarts
  <2> QED
    BY <2>1, <2>2, <2>6, <2>7
<1>2. IInv /\ [Next]_vars => Right \/ UNCHANGED vars
  BY <1>1
<1>3. FailsOnlyWhenFull <=> [][Right]_vars
  BY DEF FailsOnlyWhenFull
<1> HIDE DEF Right
<1> QED
  BY <1>2, <1>3, SpecIInv, PTL DEF Spec
=============================================================================
