----------------------------- MODULE PrintkProofs -----------------------------
(***************************************************************************)
(* Theorems about what a message goes through, from its format to the      *)
(* wire.                                                                   *)
(*                                                                         *)
(* Printk, for every message, every size of buf and of the ring: lines     *)
(* begin with their marks, and printk implements KernelLog.  The invariant *)
(* follows a mark on its way from buf, where it is written in front of the *)
(* text, into the ring; the refinement takes the marked text apart from    *)
(* its front, as printk copies it.                                         *)
(*                                                                         *)
(* Serial: for every text and every limit of polls, what leaves the UART   *)
(* is what the console wrote.                                              *)
(*                                                                         *)
(* Vsprintf: for every format with its arguments and all widths of the     *)
(* types, the text is what the format means.  The invariant says how far   *)
(* an item has been read; the lemmas before it say what number makes of a  *)
(* number, what skip_atoi makes of its digits, and which characters stand  *)
(* where an item does.                                                     *)
(***************************************************************************)
EXTENDS Printk, Serial, Vsprintf, SequenceTheorems, WellFoundedInduction, TLAPS

(* The types *)
Types ==
  /\ buf \in [0 .. BufLen - 1 -> Chars \cup {NUL}]
  /\ log_buf \in [0 .. LOG_BUF_LEN - 1 -> Chars \cup {NUL}]
  /\ log_start \in 0 .. WordSize - 1 /\ logged_chars \in 0 .. WordSize - 1
  /\ log_size \in 0 .. LOG_BUF_LEN
  /\ msg_level \in Digits \cup {NoLevel}
  /\ pc \in {"idle", "line", "char"} /\ p \in Nat /\ buf_end \in Nat

(* What is left of the text lies in buf, with the NUL behind it; the three *)
(* characters in front of the first line are not newlines when they are    *)
(* copied. *)
TextInBuf ==
  IF pc = "idle" THEN p = 0 /\ buf_end = 0
  ELSE /\ p < buf_end /\ buf_end < BufLen
       /\ pc = "line" => p >= 3
       /\ pc = "char" => \A k \in p .. 2 : buf[k] # "newline"
       /\ \A k \in p .. buf_end - 1 : buf[k] \in Chars
       /\ buf[buf_end] = NUL

(* Between two lines the level is unknown, in a line it is known. *)
LevelKnown ==
  /\ pc = "char" => msg_level # NoLevel
  /\ pc # "char" => (msg_level = NoLevel <=> log_size = 0 \/ kept[log_size] = "newline")

(* A line begins behind position k of the log. *)
Begins(k) == IF k = 0 THEN log_size < LOG_BUF_LEN ELSE kept[k] = "newline"
Open(k)   == Begins(k) /\ \A j \in k + 1 .. log_size : kept[j] # "newline"

(* The mark of the line that begins behind k and has not ended, in the log *)
(* or still in buf. *)
MarkOnItsWay(k) ==
  LET done == log_size - k
  IN /\ done = 0 /\ pc = "char" =>
          p + 2 < buf_end /\ buf[p] = "<" /\ buf[p + 1] = msg_level /\ buf[p + 2] = ">"
     /\ done = 1 => /\ pc = "char" /\ p + 1 < buf_end
                    /\ buf[p] = msg_level /\ buf[p + 1] = ">"
     /\ done = 2 => pc = "char" /\ buf[p] = ">"
     /\ done >= 2 => kept[k + 2] = msg_level

MarksKept ==
  \A k \in 0 .. log_size : Begins(k) =>
    /\ k + 1 <= log_size => kept[k + 1] = "<"
    /\ k + 2 <= log_size => kept[k + 2] \in Digits
    /\ k + 3 <= log_size => kept[k + 3] = ">"
    /\ Open(k) => MarkOnItsWay(k)

Counted == logged_chars = (log_start + log_size) % WordSize

IInv == Types /\ TextInBuf /\ LevelKnown /\ MarksKept /\ Counted
----------------------------------------------------------------------------
(* Quotient and remainder. *)
LEMMA DivMod ==
  ASSUME NEW n \in Nat \ {0}, NEW x \in Nat
  PROVE  /\ x \div n \in Nat /\ x % n \in 0 .. n - 1
         /\ x = (x \div n) * n + (x % n)
OBVIOUS

(* They are determined by that. *)
LEMMA DivUnique ==
  ASSUME NEW n \in Nat \ {0}, NEW q \in Nat, NEW r \in 0 .. n - 1
  PROVE  (q * n + r) \div n = q /\ ((q * n) + r) % n = r
OBVIOUS

LEMMA AddMultiple ==
  ASSUME NEW n \in Nat \ {0}, NEW x \in Nat, NEW q \in Nat
  PROVE  (q * n + x) % n = x % n
<1>1. PICK u \in Nat, r \in 0 .. n - 1 : x = u * n + r
  BY DivMod
<1>2. x % n = r
  BY <1>1, DivUnique
<1>3. PICK w \in Nat : w = q + u
  OBVIOUS
<1>4. q * n + x = w * n + r
  BY <1>1, <1>3
<1>5. (w * n + r) % n = r
  BY DivUnique
<1> QED BY <1>2, <1>4, <1>5

LEMMA AddMod ==
  ASSUME NEW n \in Nat \ {0}, NEW x \in Nat, NEW y \in Nat
  PROVE  ((x % n) + y) % n = (x + y) % n
<1>1. PICK q \in Nat, r \in 0 .. n - 1 : x = q * n + r /\ x % n = r
  BY DivMod
<1>2. PICK z \in Nat : z = r + y
  OBVIOUS
<1>3. x + y = q * n + z
  BY <1>1, <1>2
<1>4. (q * n + z) % n = z % n
  BY AddMultiple
<1> QED BY <1>1, <1>2, <1>3, <1>4

LEMMA OtherPlace ==
  ASSUME NEW n \in Nat \ {0}, NEW x \in Nat, NEW d \in 1 .. n - 1
  PROVE  (x + d) % n # x % n
<1>1. PICK q \in Nat, r \in 0 .. n - 1 : x = q * n + r
  BY DivMod
<1>2. x % n = r
  BY <1>1, DivUnique
<1>3. CASE r + d < n
  <2>1. x + d = q * n + (r + d) /\ r + d \in 0 .. n - 1
    BY <1>1, <1>3
  <2> QED BY <1>2, <2>1, DivUnique
<1>4. CASE r + d >= n
  <2>1. PICK w \in Nat : w = q + 1
    OBVIOUS
  <2>2. PICK e \in 0 .. n - 1 : e = r + d - n
    BY <1>4
  <2>3. x + d = w * n + e
    BY <1>1, <2>1, <2>2
  <2>4. (w * n + e) % n = e
    BY DivUnique
  <2> QED BY <1>2, <2>2, <2>3, <2>4
<1> QED BY <1>3, <1>4
----------------------------------------------------------------------------
(* The ring *)

LEMMA Sizes ==
  /\ LOG_BUF_LEN \in Nat \ {0} /\ WordSize \in Nat \ {0} /\ WordSize % LOG_BUF_LEN = 0
  /\ LOG_BUF_LEN < WordSize /\ BufLen \in Nat
  /\ {"<", ">", "newline"} \subseteq Chars \ Digits /\ NUL \notin Chars
  /\ Digits \subseteq Chars /\ NoLevel \notin Digits /\ default_message_loglevel \in Digits
BY PrintkAssumption

(* Counters that wrap around point to the same place, as the ring divides  *)
(* the width of a word. *)
LEMMA RingMod ==
  ASSUME NEW x \in Nat, NEW y \in Nat
  PROVE  ((x % WordSize) + y) % LOG_BUF_LEN = (x + y) % LOG_BUF_LEN
<1>1. PICK n \in Nat \ {0}, w \in Nat \ {0} : n = LOG_BUF_LEN /\ w = WordSize
  BY Sizes
<1>2. w % n = 0
  BY <1>1, Sizes
<1>3. PICK q \in Nat, r \in 0 .. w - 1 : x = q * w + r /\ x % w = r
  BY DivMod
<1>4. PICK m \in Nat : w = m * n
  <2>1. w \div n \in Nat /\ w = (w \div n) * n + (w % n)
    BY DivMod
  <2>2. w = (w \div n) * n
    BY <1>2, <2>1
  <2> QED BY <2>1, <2>2
<1>5. PICK qm \in Nat : qm = q * m
  OBVIOUS
<1>6. q * w = qm * n
  BY <1>4, <1>5
<1>7. PICK z \in Nat : z = r + y
  OBVIOUS
<1>8. x + y = qm * n + z
  BY <1>3, <1>6, <1>7
<1>9. (qm * n + z) % n = z % n
  BY AddMultiple
<1>10. ((x % w) + y) % n = (x + y) % n
  BY <1>3, <1>7, <1>8, <1>9
<1> QED BY <1>1, <1>10, Zenon

LEMMA KeptAt ==
  ASSUME Types
  PROVE  /\ kept \in Seq(Chars \cup {NUL}) /\ Len(kept) = log_size
         /\ \A j \in 1 .. log_size : kept[j] = log_buf[(log_start + j - 1) % LOG_BUF_LEN]
<1>1. log_size \in Nat /\ log_start \in Nat
  BY Sizes DEF Types
<1>2. \A j \in 1 .. log_size : (log_start + j - 1) % LOG_BUF_LEN \in 0 .. LOG_BUF_LEN - 1
  <2>1. \A x \in Nat : x % LOG_BUF_LEN \in 0 .. LOG_BUF_LEN - 1
    BY Sizes
  <2> QED BY <1>1, <2>1
<1>3. kept \in [1 .. log_size -> Chars \cup {NUL}]
  BY <1>2 DEF kept, Types
<1>4. kept \in Seq(Chars \cup {NUL})
  BY <1>1, <1>3, SeqDef
<1>5. Len(kept) = log_size
  <2>1. DOMAIN kept = 1 .. log_size
    BY <1>3
  <2>2. DOMAIN kept = 1 .. Len(kept) /\ Len(kept) \in Nat
    BY <1>4, LenProperties
  <2> QED BY <1>1, <2>1, <2>2
<1> QED BY <1>4, <1>5 DEF kept

(* A character is put behind the others; if there is no room, the first    *)
(* goes. *)
LEMMA StoreRight ==
  ASSUME Types, Counted, NEW c \in Chars \cup {NUL}, Store(c)
  PROVE  /\ log_buf' \in [0 .. LOG_BUF_LEN - 1 -> Chars \cup {NUL}]
         /\ log_start' \in 0 .. WordSize - 1 /\ logged_chars' \in 0 .. WordSize - 1
         /\ Counted'
         /\ log_size < LOG_BUF_LEN =>
              /\ log_size' = log_size + 1
              /\ \A j \in 1 .. log_size : kept'[j] = kept[j]
              /\ kept'[log_size + 1] = c
         /\ log_size = LOG_BUF_LEN =>
              /\ log_size' = log_size
              /\ \A j \in 1 .. log_size - 1 : kept'[j] = kept[j + 1]
              /\ kept'[log_size] = c
<1> DEFINE place == (log_start + log_size) % LOG_BUF_LEN
<1>1. /\ log_size \in Nat /\ log_start \in Nat /\ log_size <= LOG_BUF_LEN
      /\ log_start < WordSize /\ LOG_BUF_LEN \in Nat \ {0} /\ WordSize \in Nat \ {0}
  BY Sizes DEF Types
<1>2. place \in 0 .. LOG_BUF_LEN - 1
  <2>1. log_start + log_size \in Nat
    BY <1>1
  <2> QED BY <1>1, <2>1, DivMod
<1>3. log_buf' = [log_buf EXCEPT ![place] = c]
  BY DEF Store
<1>4. log_buf' \in [0 .. LOG_BUF_LEN - 1 -> Chars \cup {NUL}]
  BY <1>2, <1>3 DEF Types
<1>5. /\ log_buf'[place] = c
      /\ \A x \in 0 .. LOG_BUF_LEN - 1 : x # place => log_buf'[x] = log_buf[x]
  BY <1>2, <1>3 DEF Types
<1>6. \A x \in Nat : x % WordSize \in 0 .. WordSize - 1
  BY <1>1
<1>7. logged_chars' = (logged_chars + 1) % WordSize /\ logged_chars \in Nat
  BY <1>1 DEF Store, Types
<1>8. logged_chars' \in 0 .. WordSize - 1
  <2>1. logged_chars + 1 \in Nat
    BY <1>7
  <2> QED BY <1>6, <1>7, <2>1
<1>9. logged_chars' = (log_start + log_size + 1) % WordSize
  <2>1. log_start + log_size \in Nat
    BY <1>1
  <2>2. (((log_start + log_size) % WordSize) + 1) % WordSize = (log_start + log_size + 1) % WordSize
    BY <1>1, <2>1, AddMod
  <2> QED BY <1>7, <2>2 DEF Counted
<1>10. \A x \in Nat : x % LOG_BUF_LEN \in 0 .. LOG_BUF_LEN - 1
  BY <1>1
<1>11. CASE log_size < LOG_BUF_LEN
  <2>1. log_size' = log_size + 1 /\ log_start' = log_start
    BY <1>11 DEF Store
  <2>2. \A j \in 1 .. log_size + 1 : kept'[j] = log_buf'[(log_start + j - 1) % LOG_BUF_LEN]
    BY <2>1 DEF kept
  <2>3. ASSUME NEW j \in 1 .. log_size PROVE kept'[j] = kept[j]
    <3>1. (log_start + j - 1) + (log_size - j + 1) = log_start + log_size
      BY <1>1
    <3>2. log_start + j - 1 \in Nat /\ log_size - j + 1 \in 1 .. LOG_BUF_LEN - 1
      BY <1>1, <1>11
    <3>3. (log_start + j - 1) % LOG_BUF_LEN # place
      BY <1>1, <3>1, <3>2, OtherPlace
    <3>4. j \in 1 .. log_size + 1
      BY <1>1
    <3> QED BY <1>5, <1>10, <2>2, <3>2, <3>3, <3>4, KeptAt
  <2>4. kept'[log_size + 1] = c
    <3>1. log_size + 1 \in 1 .. log_size + 1 /\ log_start + (log_size + 1) - 1 = log_start + log_size
      BY <1>1
    <3> QED BY <1>5, <2>2, <3>1
  <2>5. Counted'
    <3>1. log_start + (log_size + 1) = log_start + log_size + 1
      BY <1>1
    <3> QED BY <1>9, <2>1, <3>1 DEF Counted
  <2> QED BY <1>1, <1>4, <1>8, <1>11, <2>1, <2>3, <2>4, <2>5 DEF Types
<1>12. CASE log_size = LOG_BUF_LEN
  <2>1. log_size' = log_size /\ log_start' = (log_start + 1) % WordSize
    BY <1>1, <1>12 DEF Store
  <2>2. log_start + 1 \in Nat
    BY <1>1
  <2>3. log_start' \in 0 .. WordSize - 1
    BY <1>6, <2>1, <2>2
  <2>4. \A j \in 1 .. log_size : kept'[j] = log_buf'[(log_start + j) % LOG_BUF_LEN]
    <3>1. ASSUME NEW j \in 1 .. log_size
          PROVE  (log_start' + j - 1) % LOG_BUF_LEN = (log_start + j) % LOG_BUF_LEN
      <4>1. j - 1 \in Nat /\ log_start' + j - 1 = log_start' + (j - 1)
            /\ log_start + 1 + (j - 1) = log_start + j
        BY <1>1, <2>3
      <4>2. PICK y \in Nat, e \in Nat : y = j - 1 /\ e = log_start + 1
        BY <2>2, <4>1
      <4>3. ((e % WordSize) + y) % LOG_BUF_LEN = (e + y) % LOG_BUF_LEN
        BY RingMod
      <4>4. log_start' = e % WordSize /\ log_start' + j - 1 = log_start' + y
            /\ log_start + j = e + y
        BY <2>1, <4>1, <4>2
      <4> QED BY <4>3, <4>4, Zenon
    <3> QED BY <2>1, <3>1 DEF kept
  <2>5. place = log_start % LOG_BUF_LEN
    <3>1. 1 * LOG_BUF_LEN + log_start = log_start + log_size
      BY <1>1, <1>12
    <3>2. (1 * LOG_BUF_LEN + log_start) % LOG_BUF_LEN = log_start % LOG_BUF_LEN
      BY <1>1, AddMultiple
    <3> QED BY <3>1, <3>2
  <2>6. ASSUME NEW j \in 1 .. log_size - 1 PROVE kept'[j] = kept[j + 1]
    <3>1. j \in 1 .. LOG_BUF_LEN - 1 /\ log_start + j \in Nat /\ j \in 1 .. log_size
          /\ j + 1 \in 1 .. log_size /\ log_start + (j + 1) - 1 = log_start + j
      BY <1>1, <1>12
    <3>2. (log_start + j) % LOG_BUF_LEN # place
      BY <1>1, <2>5, <3>1, OtherPlace
    <3> QED BY <1>5, <1>10, <2>4, <3>1, <3>2, KeptAt
  <2>7. kept'[log_size] = c
    BY <1>1, <1>5, <1>12, <2>4
  <2>8. Counted'
    <3>1. (((log_start + 1) % WordSize) + log_size) % WordSize = (log_start + 1 + log_size) % WordSize
      BY <1>1, <2>2, AddMod
    <3>2. log_start + 1 + log_size = log_start + log_size + 1
      BY <1>1
    <3> QED BY <1>9, <2>1, <3>1, <3>2 DEF Counted
  <2>9. ~(log_size < LOG_BUF_LEN)
    BY <1>1, <1>12
  <2> QED BY <1>4, <1>8, <1>12, <2>1, <2>3, <2>6, <2>7, <2>8, <2>9
<1> QED BY <1>1, <1>11, <1>12

----------------------------------------------------------------------------
(* The steps *)

LEMMA InitInv == Init => IInv
<1> SUFFICES ASSUME Init PROVE IInv
  OBVIOUS
<1>1. Types
  BY Sizes DEF Init, Types
<1>2. TextInBuf /\ LevelKnown
  BY DEF Init, TextInBuf, LevelKnown
<1>3. MarksKept
  <2>1. log_size = 0 /\ pc = "idle"
    BY DEF Init
  <2>2. \A k \in 0 .. log_size : k = 0
    BY <2>1
  <2> QED BY <2>1, <2>2 DEF MarksKept, MarkOnItsWay
<1>4. Counted
  <2>1. 0 % WordSize = 0
    BY Sizes
  <2> QED BY <2>1 DEF Init, Counted
<1> QED BY <1>1, <1>2, <1>3, <1>4 DEF IInv

(* What these definitions say of the ring stays when the ring stays. *)
LEMMA RingKept ==
  ASSUME UNCHANGED ring
  PROVE  /\ kept' = kept /\ (Counted => Counted')
         /\ \A k : (Begins(k)' <=> Begins(k)) /\ (Open(k)' <=> Open(k))
         /\ log_buf' = log_buf /\ log_start' = log_start /\ log_size' = log_size
         /\ logged_chars' = logged_chars
BY DEF ring, kept, Counted, Begins, Open

LEMMA StutterInv == IInv /\ UNCHANGED vars => IInv'
<1> SUFFICES ASSUME IInv, UNCHANGED vars PROVE IInv'
  OBVIOUS
<1>1. UNCHANGED ring /\ UNCHANGED <<buf, msg_level, pc, p, buf_end>>
  BY DEF vars
<1> QED BY <1>1, RingKept DEF IInv, Types, TextInBuf, LevelKnown, MarksKept, MarkOnItsWay

(* Between two lines only the line that has just begun is open. *)
LEMMA OpenAtEnd ==
  ASSUME Types, LevelKnown, pc # "char", NEW k \in 0 .. log_size, Open(k)
  PROVE  msg_level = NoLevel <=> k = log_size
<1>1. log_size \in Nat
  BY Sizes DEF Types
<1>2. CASE k = log_size
  BY <1>1, <1>2 DEF Open, Begins, LevelKnown
<1>3. CASE k # log_size
  <2>1. log_size \in k + 1 .. log_size /\ log_size # 0
    BY <1>1, <1>3
  <2> QED BY <1>3, <2>1 DEF Open, LevelKnown
<1> QED BY <1>2, <1>3

(* The text lies in buf from index 3 on. *)
LEMMA TextWritten ==
  ASSUME Types, NEW text \in Messages, Format(text)
  PROVE  /\ text \in Seq(Chars) /\ Len(text) \in Nat /\ Len(text) + 4 <= BufLen
         /\ \A j \in 1 .. Len(text) : text[j] \in Chars
         /\ buf' \in [0 .. BufLen - 1 -> Chars \cup {NUL}]
         /\ \A j \in 1 .. Len(text) : buf'[j + 2] = text[j]
         /\ buf'[3 + Len(text)] = NUL
         /\ \/ pc' = "line" /\ p' = 3 /\ buf_end' = 3 + Len(text) /\ Len(text) # 0
            \/ pc' = "idle" /\ p' = 0 /\ buf_end' = 0 /\ Len(text) = 0
<1>1. text \in Seq(Chars) /\ Len(text) \in Nat /\ Len(text) + 4 <= BufLen
      /\ DOMAIN text = 1 .. Len(text) /\ \A j \in 1 .. Len(text) : text[j] \in Chars
  BY PrintkAssumption
<1>2. /\ DOMAIN buf = 0 .. BufLen - 1
      /\ \A k \in 0 .. BufLen - 1 : buf[k] \in Chars \cup {NUL}
  BY DEF Types
<1>3. /\ \A k \in 0 .. BufLen - 1 : k - 2 \in 1 .. Len(text) => buf'[k] = text[k - 2]
      /\ buf'[3 + Len(text)] = NUL
      /\ buf' \in [0 .. BufLen - 1 -> Chars \cup {NUL}]
  <2>1. buf' = [k \in 0 .. BufLen - 1 |->
                 CASE k - 2 \in 1 .. Len(text) -> text[k - 2]
                   [] k = 3 + Len(text)        -> NUL
                   [] OTHER                    -> buf[k]]
    BY <1>1, <1>2 DEF Format
  <2>2. 3 + Len(text) \in 0 .. BufLen - 1 /\ ~(3 + Len(text) - 2 \in 1 .. Len(text))
    BY <1>1, Sizes
  <2>3. \A k \in 0 .. BufLen - 1 : k - 2 \in 1 .. Len(text) => buf'[k] = text[k - 2]
    BY <2>1
  <2>4. buf'[3 + Len(text)] = NUL
    BY <2>1, <2>2
  <2>5. ASSUME NEW k \in 0 .. BufLen - 1 PROVE buf'[k] \in Chars \cup {NUL}
    <3>1. CASE k - 2 \in 1 .. Len(text)
      BY <1>1, <2>3, <3>1
    <3>2. CASE k = 3 + Len(text)
      BY <2>4, <3>2
    <3>3. CASE ~(k - 2 \in 1 .. Len(text)) /\ k # 3 + Len(text)
      BY <1>2, <2>1, <3>3
    <3> QED BY <3>1, <3>2, <3>3
  <2> QED BY <2>1, <2>3, <2>4, <2>5
<1>4. \/ pc' = "line" /\ p' = 3 /\ buf_end' = 3 + Len(text) /\ Len(text) # 0
      \/ pc' = "idle" /\ p' = 0 /\ buf_end' = 0 /\ Len(text) = 0
  BY <1>1 DEF Format, Proceed
<1>5. ASSUME NEW j \in 1 .. Len(text) PROVE buf'[j + 2] = text[j]
  <2>1. j + 2 \in 0 .. BufLen - 1 /\ (j + 2) - 2 = j
    BY <1>1, Sizes
  <2> QED BY <1>3, <2>1
<1> QED BY <1>1, <1>3, <1>4, <1>5

LEMMA FormatInv ==
  ASSUME IInv, NEW text \in Messages, Format(text)
  PROVE  IInv'
<1>1. /\ pc = "idle" /\ UNCHANGED ring /\ msg_level' = msg_level
      /\ Types /\ TextInBuf /\ LevelKnown /\ MarksKept /\ Counted
  BY DEF Format, IInv
<1>2. /\ Len(text) \in Nat /\ Len(text) + 4 <= BufLen
      /\ \A j \in 1 .. Len(text) : text[j] \in Chars
      /\ buf' \in [0 .. BufLen - 1 -> Chars \cup {NUL}]
      /\ \A j \in 1 .. Len(text) : buf'[j + 2] = text[j]
      /\ buf'[3 + Len(text)] = NUL
      /\ \/ pc' = "line" /\ p' = 3 /\ buf_end' = 3 + Len(text) /\ Len(text) # 0
         \/ pc' = "idle" /\ p' = 0 /\ buf_end' = 0
  BY <1>1, TextWritten
<1>3. pc' # "char" /\ pc' \in {"idle", "line", "char"} /\ p' \in Nat /\ buf_end' \in Nat
  BY <1>2
<1>4. Types'
  BY <1>1, <1>2, <1>3, RingKept DEF Types
<1>5. TextInBuf'
  <2>1. CASE pc' = "idle"
    BY <1>2, <2>1 DEF TextInBuf
  <2>2. CASE pc' = "line"
    <3>1. p' = 3 /\ buf_end' = 3 + Len(text) /\ Len(text) # 0
      BY <1>2, <2>2
    <3>2. p' < buf_end' /\ buf_end' < BufLen /\ p' >= 3
      BY <1>2, <3>1, Sizes
    <3>3. \A k \in 3 .. 3 + Len(text) - 1 : buf'[k] \in Chars
      <4>1. \A k \in 3 .. 3 + Len(text) - 1 : k - 2 \in 1 .. Len(text) /\ (k - 2) + 2 = k
        BY <1>2
      <4> QED BY <1>2, <4>1
    <3> QED BY <1>2, <2>2, <3>1, <3>2, <3>3 DEF TextInBuf
  <2> QED BY <1>2, <2>1, <2>2
<1>6. LevelKnown'
  BY <1>1, <1>3, RingKept DEF LevelKnown
<1>7. MarksKept'
  <2>1. \A k \in 0 .. log_size : MarkOnItsWay(k) => MarkOnItsWay(k)'
    BY <1>1, <1>3, RingKept DEF MarkOnItsWay
  <2> QED BY <1>1, <2>1, RingKept DEF MarksKept
<1> QED BY <1>1, <1>4, <1>5, <1>6, <1>7, RingKept DEF IInv

LEMMA ContinueLineInv ==
  ASSUME IInv, ContinueLine
  PROVE  IInv'
<1>1. /\ pc = "line" /\ pc' = "char" /\ UNCHANGED ring /\ UNCHANGED <<buf, msg_level, p, buf_end>>
      /\ msg_level # NoLevel
      /\ Types /\ TextInBuf /\ LevelKnown /\ MarksKept /\ Counted
  BY DEF ContinueLine, IInv
<1>2. Types' /\ LevelKnown'
  BY <1>1, RingKept DEF Types, LevelKnown
<1>3. TextInBuf'
  <2>1. p >= 3 /\ p \in Nat
    BY <1>1 DEF TextInBuf, Types
  <2>2. \A k \in p .. 2 : FALSE
    BY <2>1
  <2> QED BY <1>1, <2>2 DEF TextInBuf
<1>4. MarksKept'
  <2>1. ASSUME NEW k \in 0 .. log_size, Open(k), MarkOnItsWay(k) PROVE MarkOnItsWay(k)'
    <3>1. log_size - k # 0
      <4>1. log_size \in Nat /\ k # log_size
        BY <1>1, <2>1, OpenAtEnd, Sizes DEF Types
      <4> QED BY <4>1
    <3> QED BY <1>1, <2>1, <3>1, RingKept DEF MarkOnItsWay
  <2> QED BY <1>1, <2>1, RingKept DEF MarksKept
<1> QED BY <1>1, <1>2, <1>3, <1>4, RingKept DEF IInv

LEMMA ReadLevelInv ==
  ASSUME IInv, ReadLevel
  PROVE  IInv'
<1>1. /\ pc = "line" /\ pc' = "char" /\ UNCHANGED ring /\ UNCHANGED <<buf, p, buf_end>>
      /\ msg_level = NoLevel /\ HasMark /\ msg_level' = buf[p + 1]
      /\ Types /\ TextInBuf /\ LevelKnown /\ MarksKept /\ Counted
  BY DEF ReadLevel, IInv
<1>2. /\ buf[p] = "<" /\ buf[p + 1] \in Digits /\ buf[p + 2] = ">"
      /\ msg_level' \in Digits /\ msg_level' # NoLevel
  BY <1>1, Sizes DEF HasMark
<1>3. /\ p \in Nat /\ buf_end \in Nat /\ log_size \in Nat /\ p >= 3
      /\ p < buf_end /\ buf[buf_end] = NUL
  BY <1>1, Sizes DEF Types, TextInBuf
<1>4. p + 2 < buf_end
  <2>1. p + 1 # buf_end
    BY <1>2, <1>3, Sizes
  <2>2. p + 2 # buf_end
    BY <1>2, <1>3, Sizes
  <2> QED BY <1>3, <2>1, <2>2
<1>5. Types'
  BY <1>1, <1>2, RingKept DEF Types
<1>6. TextInBuf'
  <2>1. \A k \in p .. 2 : FALSE
    BY <1>3
  <2> QED BY <1>1, <2>1 DEF TextInBuf
<1>7. LevelKnown'
  BY <1>1, <1>2 DEF LevelKnown
<1>8. MarksKept'
  <2>1. ASSUME NEW k \in 0 .. log_size, Open(k) PROVE MarkOnItsWay(k)'
    <3>1. k = log_size
      BY <1>1, <2>1, OpenAtEnd
    <3>2. log_size - k = 0
      BY <1>3, <3>1
    <3> QED BY <1>1, <1>2, <1>4, <3>2, RingKept DEF MarkOnItsWay
  <2> QED BY <1>1, <2>1, RingKept DEF MarksKept
<1> QED BY <1>1, <1>5, <1>6, <1>7, <1>8, RingKept DEF IInv

(* The three characters that the mark is written over. *)
LEMMA MarkWritten ==
  ASSUME Types, TextInBuf, AddLevel
  PROVE  /\ p >= 3 /\ p' = p - 3 /\ p' \in Nat
         /\ buf' \in [0 .. BufLen - 1 -> Chars \cup {NUL}]
         /\ buf'[p'] = "<" /\ buf'[p' + 1] = default_message_loglevel /\ buf'[p' + 2] = ">"
         /\ \A k \in p .. buf_end : buf'[k] = buf[k]
<1>1. /\ p >= 3 /\ p \in Nat /\ buf_end \in Nat /\ p < buf_end /\ buf_end < BufLen
      /\ p' = p - 3 /\ BufLen \in Nat
      /\ buf' = [buf EXCEPT ![p'] = "<", ![p' + 1] = default_message_loglevel, ![p' + 2] = ">"]
      /\ buf \in [0 .. BufLen - 1 -> Chars \cup {NUL}]
      /\ {"<", ">", default_message_loglevel} \subseteq Chars
  BY Sizes DEF Types, TextInBuf, AddLevel
<1> DEFINE a == p - 3
<1>2. a \in 0 .. BufLen - 1 /\ a + 1 \in 0 .. BufLen - 1 /\ a + 2 \in 0 .. BufLen - 1
      /\ a # a + 1 /\ a # a + 2 /\ a + 1 # a + 2 /\ a + 3 = p /\ a \in Nat
  BY <1>1
<1>3. buf' = [buf EXCEPT ![a] = "<", ![a + 1] = default_message_loglevel, ![a + 2] = ">"]
  BY <1>1
<1>4. p' = a
  BY <1>1
<1>5. \A k \in p .. buf_end : k \in 0 .. BufLen - 1 /\ k # a /\ k # a + 1 /\ k # a + 2
  BY <1>1
<1> HIDE DEF a
<1>6. buf'[a] = "<" /\ buf'[a + 1] = default_message_loglevel /\ buf'[a + 2] = ">"
  BY <1>1, <1>2, <1>3
<1>7. \A k \in p .. buf_end : buf'[k] = buf[k]
  BY <1>1, <1>3, <1>5
<1>8. buf' \in [0 .. BufLen - 1 -> Chars \cup {NUL}]
  BY <1>1, <1>3
<1> QED BY <1>1, <1>2, <1>4, <1>6, <1>7, <1>8

LEMMA AddLevelInv ==
  ASSUME IInv, AddLevel
  PROVE  IInv'
<1>1. /\ pc = "line" /\ pc' = "char" /\ UNCHANGED ring /\ buf_end' = buf_end
      /\ msg_level = NoLevel /\ msg_level' = default_message_loglevel
      /\ Types /\ TextInBuf /\ LevelKnown /\ MarksKept /\ Counted
  BY DEF AddLevel, IInv
<1>2. /\ p \in Nat /\ buf_end \in Nat /\ log_size \in Nat /\ p >= 3
      /\ p < buf_end /\ buf_end < BufLen /\ buf[buf_end] = NUL
      /\ \A k \in p .. buf_end - 1 : buf[k] \in Chars
  BY <1>1, Sizes DEF Types, TextInBuf
<1>3. p' = p - 3 /\ p' \in Nat /\ p' < buf_end /\ p' + 2 < buf_end
  BY <1>1, <1>2, MarkWritten
<1>4. Types'
  BY <1>1, <1>3, MarkWritten, RingKept, Sizes DEF Types
<1>5. TextInBuf'
  <2>1. \A k \in p' .. buf_end - 1 : buf'[k] \in Chars
    <3>1. ASSUME NEW k \in p' .. buf_end - 1, k < p PROVE buf'[k] \in Chars
      <4>1. k = p' \/ k = p' + 1 \/ k = p' + 2
        BY <1>2, <1>3, <3>1
      <4> QED BY <1>1, <4>1, MarkWritten, Sizes
    <3>2. ASSUME NEW k \in p' .. buf_end - 1, k >= p PROVE buf'[k] \in Chars
      <4>1. k \in p .. buf_end - 1 /\ k \in p .. buf_end
        BY <1>2, <1>3, <3>2
      <4> QED BY <1>1, <1>2, <4>1, MarkWritten
    <3>3. \A k \in p' .. buf_end - 1 : k < p \/ k >= p
      BY <1>2, <1>3
    <3> QED BY <3>1, <3>2, <3>3
  <2>2. buf'[buf_end] = NUL
    <3>1. buf_end \in p .. buf_end
      BY <1>2
    <3> QED BY <1>1, <1>2, <3>1, MarkWritten
  <2>3. \A k \in p' .. 2 : buf'[k] # "newline"
    <3>1. \A k \in p' .. 2 : k = p' \/ k = p' + 1 \/ k = p' + 2
      BY <1>3
    <3> QED BY <1>1, <3>1, MarkWritten, Sizes
  <2> QED BY <1>1, <1>2, <1>3, <2>1, <2>2, <2>3 DEF TextInBuf
<1>6. LevelKnown'
  BY <1>1, Sizes DEF LevelKnown
<1>7. MarksKept'
  <2>1. ASSUME NEW k \in 0 .. log_size, Open(k) PROVE MarkOnItsWay(k)'
    <3>1. k = log_size
      BY <1>1, <2>1, OpenAtEnd
    <3>2. log_size - k = 0
      BY <1>2, <3>1
    <3> QED BY <1>1, <1>3, <3>2, MarkWritten, RingKept DEF MarkOnItsWay
  <2> QED BY <1>1, <2>1, RingKept DEF MarksKept
<1> QED BY <1>1, <1>4, <1>5, <1>6, <1>7, RingKept DEF IInv

(* What the last turn of the inner loop leads to. *)
LEMMA AfterChar ==
  ASSUME Types, TextInBuf, LogChar
  PROVE  /\ pc = "char" /\ Store(buf[p]) /\ buf[p] \in Chars
         /\ p \in Nat /\ buf_end \in Nat /\ p < buf_end /\ buf' = buf
         /\ msg_level' = IF buf[p] = "newline" THEN NoLevel ELSE msg_level
         /\ \/ pc' = "char" /\ buf[p] # "newline" /\ p + 1 < buf_end
                 /\ p' = p + 1 /\ buf_end' = buf_end
            \/ pc' = "line" /\ buf[p] = "newline" /\ p + 1 < buf_end
                 /\ p' = p + 1 /\ buf_end' = buf_end
            \/ pc' = "idle" /\ p + 1 = buf_end /\ p' = 0 /\ buf_end' = 0
<1>1. /\ pc = "char" /\ Store(buf[p]) /\ buf' = buf
      /\ p \in Nat /\ buf_end \in Nat /\ p < buf_end
      /\ \A k \in p .. buf_end - 1 : buf[k] \in Chars
      /\ msg_level' = IF buf[p] = "newline" THEN NoLevel ELSE msg_level
  BY DEF Types, TextInBuf, LogChar
<1>2. buf[p] \in Chars
  <2>1. p \in p .. buf_end - 1
    BY <1>1
  <2> QED BY <1>1, <2>1
<1>3. p + 1 <= buf_end /\ (p + 1 < buf_end <=> p + 1 # buf_end)
  BY <1>1
<1> QED BY <1>1, <1>2, <1>3 DEF LogChar, Proceed

(* The lines of the log after a character has been put behind it: but for  *)
(* the last, they are those of before, d places further up if the ring was *)
(* full. *)
LEMMA LogCharMarks ==
  ASSUME IInv, LogChar
  PROVE  MarksKept' /\ LevelKnown'
<1> DEFINE c == buf[p]
<1>1. /\ Types /\ TextInBuf /\ LevelKnown /\ MarksKept /\ Counted
      /\ pc = "char" /\ Store(c) /\ c \in Chars /\ c \in Chars \cup {NUL}
      /\ p \in Nat /\ buf_end \in Nat /\ buf' = buf
      /\ msg_level # NoLevel /\ msg_level \in Digits
      /\ msg_level' = IF c = "newline" THEN NoLevel ELSE msg_level
      /\ pc' = "char" => c # "newline" /\ p' = p + 1 /\ buf_end' = buf_end
      /\ c # "newline" /\ p + 1 < buf_end => pc' = "char"
  BY AfterChar DEF IInv, LevelKnown, Types
<1> HIDE DEF c
<1>2. /\ log_size \in Nat /\ log_size <= LOG_BUF_LEN
      /\ LOG_BUF_LEN \in Nat \ {0}
  BY <1>1, Sizes DEF Types
<1>3. PICK d \in Nat :
        /\ d = 0 \/ d = 1
        /\ d = 0 => log_size < LOG_BUF_LEN
        /\ log_size' = log_size + 1 - d
        /\ \A j \in 1 .. log_size - d : kept'[j] = kept[j + d]
        /\ kept'[log_size'] = c
        /\ d = 1 => log_size = LOG_BUF_LEN
  <2>1. CASE log_size < LOG_BUF_LEN
    <3>1. /\ log_size' = log_size + 1 /\ kept'[log_size + 1] = c
          /\ \A j \in 1 .. log_size : kept'[j] = kept[j]
      BY <1>1, <2>1, StoreRight
    <3>2. log_size - 0 = log_size /\ log_size + 1 - 0 = log_size + 1
      BY <1>2
    <3>3. \A j \in 1 .. log_size - 0 : kept'[j] = kept[j + 0]
      <4>1. \A j \in 1 .. log_size - 0 : j + 0 = j /\ j \in 1 .. log_size
        BY <1>2
      <4> QED BY <3>1, <4>1
    <3> QED BY <2>1, <3>1, <3>2, <3>3
  <2>2. CASE log_size = LOG_BUF_LEN
    <3>1. /\ log_size' = log_size /\ kept'[log_size] = c
          /\ \A j \in 1 .. log_size - 1 : kept'[j] = kept[j + 1]
      BY <1>1, <2>2, StoreRight
    <3>2. log_size + 1 - 1 = log_size
      BY <1>2
    <3> QED BY <2>2, <3>1, <3>2
  <2> QED BY <1>2, <2>1, <2>2
<1>4. PICK n \in Nat \ {0} : n = log_size'
  BY <1>2, <1>3
<1>5. log_size = n - 1 + d
  BY <1>2, <1>3, <1>4
<1>6. \A j \in 1 .. n - 1 : kept'[j] = kept[j + d]
  BY <1>3, <1>5
<1>7. LevelKnown'
  BY <1>1, <1>3, <1>5 DEF LevelKnown
<1>8. ASSUME NEW k \in 0 .. n - 1, Begins(k)'
      PROVE  /\ k + d \in 0 .. log_size /\ Begins(k + d)
             /\ log_size - (k + d) = n - 1 - k
             /\ Open(k)' => Open(k + d) /\ c # "newline"
  <2>0. k \in 0 .. n - 1
    BY <1>8
  <2>1. k + d \in 0 .. log_size /\ log_size - (k + d) = n - 1 - k
    BY <1>2, <1>3, <1>5, <2>0
  <2>2. Begins(k + d)
    <3>1. CASE k = 0
      BY <1>2, <1>3, <1>8, <3>1 DEF Begins
    <3>2. CASE k # 0
      <4>1. k \in 1 .. n - 1 /\ k + d # 0
        BY <1>5, <2>0, <3>2
      <4> QED BY <1>6, <1>8, <3>2, <4>1 DEF Begins
    <3> QED BY <3>1, <3>2
  <2>3. ASSUME Open(k)' PROVE Open(k + d) /\ c # "newline"
    <3>1. \A j \in k + 1 .. n : kept'[j] # "newline"
      BY <1>4, <2>3 DEF Open
    <3>2. n \in k + 1 .. n
      BY <1>5, <2>0
    <3>3. ASSUME NEW j \in k + d + 1 .. log_size PROVE kept[j] # "newline"
      <4>1. /\ j - d \in 1 .. n - 1 /\ j - d \in k + 1 .. n /\ (j - d) + d = j
        BY <1>2, <1>5, <2>0, <2>1
      <4> QED BY <1>6, <3>1, <4>1
    <3> QED BY <1>3, <1>4, <2>2, <3>1, <3>2, <3>3 DEF Open
  <2> QED BY <2>1, <2>2, <2>3
<1>9. ASSUME NEW k \in 0 .. n - 1, Begins(k)'
      PROVE  /\ k + 1 <= n => kept'[k + 1] = "<"
             /\ k + 2 <= n => kept'[k + 2] \in Digits
             /\ k + 3 <= n => kept'[k + 3] = ">"
             /\ Open(k)' => MarkOnItsWay(k)'
  <2> DEFINE K == k + d
             done == log_size - K
  <2>0. k \in 0 .. n - 1 /\ k \in Nat
    <3>1. k \in 0 .. n - 1
      BY <1>9
    <3> QED BY <3>1, <1>5
  <2>1. /\ K \in 0 .. log_size /\ K \in Nat /\ Begins(K)
        /\ done = n - 1 - k /\ k \in Nat
        /\ Open(k)' => Open(K) /\ c # "newline"
    <3>1. /\ k + d \in 0 .. log_size /\ Begins(k + d)
          /\ log_size - (k + d) = n - 1 - k
          /\ Open(k)' => Open(k + d) /\ c # "newline"
      BY <1>8, <1>9
    <3>2. \A x \in 0 .. log_size : x \in Nat
      BY <1>2
    <3> QED BY <2>0, <3>1, <3>2
  <2>2. /\ done \in Nat /\ log_size = K + done /\ n = k + 1 + done
        /\ n - k = done + 1
    BY <1>2, <1>5, <2>0, <2>1
  <2>3. \A e \in 1 .. done : kept'[k + e] = kept[K + e]
    <3>1. \A e \in 1 .. done : k + e \in 1 .. n - 1 /\ k + e + d = K + e
      BY <1>5, <2>1, <2>2
    <3> QED BY <1>6, <3>1
  <2>4. kept'[k + 1 + done] = c
    BY <1>3, <1>5, <2>2
  <2> HIDE DEF K, done
  <2>5. /\ done >= 1 => kept[K + 1] = "<" /\ kept'[k + 1] = "<"
        /\ done >= 2 => kept[K + 2] \in Digits /\ kept'[k + 2] = kept[K + 2]
        /\ done >= 3 => kept'[k + 3] = ">"
        /\ Open(K) => MarkOnItsWay(K)
    <3>1. /\ K + 1 <= log_size => kept[K + 1] = "<"
          /\ K + 2 <= log_size => kept[K + 2] \in Digits
          /\ K + 3 <= log_size => kept[K + 3] = ">"
          /\ Open(K) => MarkOnItsWay(K)
      BY <1>1, <2>1 DEF MarksKept
    <3>2. /\ done >= 1 => K + 1 <= log_size /\ 1 \in 1 .. done
          /\ done >= 2 => K + 2 <= log_size /\ 2 \in 1 .. done
          /\ done >= 3 => K + 3 <= log_size /\ 3 \in 1 .. done
      BY <2>1, <2>2
    <3> QED BY <2>3, <3>1, <3>2
  <2>6. done <= 2 => Open(K)
    <3>1. ASSUME done <= 2, NEW j \in K + 1 .. log_size PROVE kept[j] # "newline"
      <4>1. (j = K + 1 /\ done >= 1) \/ (j = K + 2 /\ done >= 2)
        BY <2>1, <2>2, <3>1
      <4> QED BY <2>5, <4>1, Sizes
    <3> QED BY <2>1, <3>1 DEF Open
  <2>7. /\ Open(K) /\ done = 0 => /\ p + 2 < buf_end /\ c = "<"
                                  /\ buf[p + 1] = msg_level /\ buf[p + 2] = ">"
        /\ Open(K) /\ done = 1 => p + 1 < buf_end /\ c = msg_level /\ buf[p + 1] = ">"
        /\ Open(K) /\ done = 2 => c = ">"
        /\ Open(K) /\ done >= 2 => kept[K + 2] = msg_level
    <3>1. log_size - K = done
      BY <2>1, <2>2
    <3>2. c = buf[p]
      BY DEF c
    <3> QED BY <1>1, <2>5, <3>1, <3>2 DEF MarkOnItsWay
  <2>8. /\ done = 0 => kept'[k + 1] = "<"
        /\ done = 1 => kept'[k + 2] = msg_level /\ msg_level \in Digits
        /\ done = 2 => kept'[k + 3] = ">"
    <3>1. /\ done = 0 => k + 1 + done = k + 1
          /\ done = 1 => k + 1 + done = k + 2
          /\ done = 2 => k + 1 + done = k + 3
      BY <2>1, <2>2
    <3>2. /\ done = 0 => done <= 2
          /\ done = 1 => done <= 2
          /\ done = 2 => done <= 2
      OBVIOUS
    <3> QED BY <1>1, <2>4, <2>6, <2>7, <3>1, <3>2
  <2>9. /\ k + 1 <= n => kept'[k + 1] = "<"
        /\ k + 2 <= n => kept'[k + 2] \in Digits
        /\ k + 3 <= n => kept'[k + 3] = ">"
    <3>1. /\ k + 1 <= n => done = 0 \/ done >= 1
          /\ k + 2 <= n => done = 1 \/ done >= 2
          /\ k + 3 <= n => done = 2 \/ done >= 3
      BY <2>1, <2>2
    <3> QED BY <2>5, <2>8, <3>1
  <2>10. ASSUME Open(k)' PROVE MarkOnItsWay(k)'
    <3>1. Open(K) /\ c # "newline" /\ msg_level' = msg_level
      BY <1>1, <2>1, <2>10
    <3>2. done = 0 => pc' = "char" /\ p' + 1 < buf_end' /\ buf'[p'] = msg_level' /\ buf'[p' + 1] = ">"
      <4>1. ASSUME done = 0 PROVE p + 1 < buf_end /\ p + 1 + 1 = p + 2
        BY <1>1, <2>7, <3>1, <4>1
      <4> QED BY <1>1, <2>7, <3>1, <4>1
    <3>3. done = 1 => pc' = "char" /\ buf'[p'] = ">"
      BY <1>1, <2>7, <3>1
    <3>4. done >= 1 => kept'[k + 2] = msg_level'
      <4>1. done >= 1 => done = 1 \/ done >= 2
        BY <2>2
      <4> QED BY <2>5, <2>7, <2>8, <3>1, <4>1
    <3>5. /\ n - k # 0
          /\ n - k = 1 => done = 0
          /\ n - k = 2 => done = 1
          /\ n - k >= 2 => done >= 1
      BY <2>2
    <3> QED BY <1>4, <3>2, <3>3, <3>4, <3>5 DEF MarkOnItsWay
  <2> QED BY <2>9, <2>10
<1>10. Begins(n)' => MarkOnItsWay(n)'
  <2> SUFFICES ASSUME Begins(n)' PROVE MarkOnItsWay(n)'
    OBVIOUS
  <2>1. kept'[n] = "newline"
    BY <1>4 DEF Begins
  <2>2. pc' # "char"
    BY <1>1, <1>3, <1>5, <2>1
  <2>3. log_size' - n = 0
    <3>1. n - n = 0
      OBVIOUS
    <3> QED BY <1>4, <3>1, Zenon
  <2> QED BY <2>2, <2>3 DEF MarkOnItsWay
<1>11. MarksKept'
  <2>1. \A k \in 0 .. n : k = n \/ k \in 0 .. n - 1
    OBVIOUS
  <2>2. ~(n + 1 <= n) /\ ~(n + 2 <= n) /\ ~(n + 3 <= n)
    OBVIOUS
  <2> QED BY <1>4, <1>9, <1>10, <2>1, <2>2 DEF MarksKept
<1> QED BY <1>7, <1>11

LEMMA LogCharInv ==
  ASSUME IInv, LogChar
  PROVE  IInv'
<1>1. /\ Types /\ TextInBuf /\ LevelKnown /\ MarksKept /\ Counted
      /\ msg_level \in Digits \cup {NoLevel}
  BY DEF IInv, Types
<1>2. /\ pc = "char" /\ Store(buf[p]) /\ buf[p] \in Chars \cup {NUL} /\ buf' = buf
      /\ p \in Nat /\ buf_end \in Nat /\ buf_end < BufLen
      /\ msg_level' \in Digits \cup {NoLevel}
      /\ \A k \in p .. buf_end - 1 : buf[k] \in Chars
      /\ \A k \in p .. 2 : buf[k] # "newline"
      /\ buf[buf_end] = NUL
  BY <1>1, AfterChar DEF TextInBuf
<1>3. pc' \in {"idle", "line", "char"} /\ p' \in Nat /\ buf_end' \in Nat
  BY <1>1, <1>2, AfterChar
<1>4. Types' /\ Counted'
  <2>1. /\ log_buf' \in [0 .. LOG_BUF_LEN - 1 -> Chars \cup {NUL}]
        /\ log_start' \in 0 .. WordSize - 1 /\ logged_chars' \in 0 .. WordSize - 1
        /\ Counted' /\ log_size' \in 0 .. LOG_BUF_LEN
    <3>1. log_size \in Nat /\ log_size <= LOG_BUF_LEN /\ LOG_BUF_LEN \in Nat
      BY <1>1, Sizes DEF Types
    <3> QED BY <1>1, <1>2, <3>1, StoreRight
  <2> QED BY <1>1, <1>2, <1>3, <2>1 DEF Types
<1>5. TextInBuf'
  <2>1. CASE pc' = "idle"
    BY <1>1, <2>1, AfterChar DEF TextInBuf
  <2>2. CASE pc' # "idle"
    <3>1. p' = p + 1 /\ buf_end' = buf_end /\ p' < buf_end'
      BY <1>1, <2>2, AfterChar
    <3>2. pc' = "line" => p' >= 3
      <4>1. ASSUME pc' = "line", p < 2 \/ p = 2 PROVE FALSE
        <5>1. buf[p] = "newline" /\ p \in p .. 2
          BY <1>1, <1>2, <4>1, AfterChar
        <5> QED BY <1>2, <5>1
      <4> QED BY <1>2, <3>1, <4>1
    <3>3. \A k \in p' .. buf_end' - 1 : buf'[k] \in Chars
      BY <1>2, <3>1
    <3>4. pc' = "char" => \A k \in p' .. 2 : buf'[k] # "newline"
      BY <1>2, <3>1
    <3> QED BY <1>2, <2>2, <3>1, <3>2, <3>3, <3>4 DEF TextInBuf
  <2> QED BY <2>1, <2>2
<1> QED BY <1>4, <1>5, LogCharMarks DEF IInv

LEMMA SpecIInv == Spec => []IInv
<1>1. IInv /\ [Next]_vars => IInv'
  BY FormatInv, ContinueLineInv, ReadLevelInv, AddLevelInv, LogCharInv, StutterInv
    DEF Next, InPrintk
<1> QED BY <1>1, InitInv, PTL DEF Spec
----------------------------------------------------------------------------
(* However many calls of printk a line takes, and wherever the ring wraps  *)
(* or has overwritten its beginning: it begins with a mark, which no text  *)
(* in the middle of a line can replace, and msg_level is that mark's       *)
(* until the newline is copied (printk.c:62-86).                           *)
THEOREM LinesAreMarked == Spec => []LinesMarked
<1>1. ASSUME IInv PROVE LinesMarked
  <2>1. /\ log_size \in Nat /\ MarksKept /\ Counted
    BY <1>1, Sizes DEF IInv, Types
  <2>2. ASSUME NEW k \in 0 .. log_size, Begins(k), k + 2 <= log_size,
               \A j \in k + 3 .. log_size : kept[j] # "newline"
        PROVE  msg_level = kept[k + 2]
    <3>1. kept[k + 1] = "<" /\ kept[k + 2] \in Digits /\ log_size - k >= 2
      BY <2>1, <2>2 DEF MarksKept
    <3>2. \A j \in k + 1 .. log_size : kept[j] # "newline"
      <4>1. \A j \in k + 1 .. log_size : j = k + 1 \/ j = k + 2 \/ j \in k + 3 .. log_size
        BY <2>1
      <4> QED BY <2>2, <3>1, <4>1, Sizes
    <3>3. MarkOnItsWay(k)
      BY <2>1, <2>2, <3>2 DEF MarksKept, Open
    <3> QED BY <3>1, <3>3 DEF MarkOnItsWay
  <2> QED BY <2>1, <2>2 DEF LinesMarked, MarksKept, Begins, Counted
<1> QED BY <1>1, SpecIInv, PTL
----------------------------------------------------------------------------
(* Flattening a sequence from its front *)

(* Every non-empty set of numbers has a least one. *)
LEMMA LeastNat ==
  ASSUME NEW C \in SUBSET Nat, C # {}
  PROVE  \E m \in C : \A c \in C : m <= c
<1> DEFINE R == OpToRel(<, Nat)
<1>1. IsWellFoundedOn(R, Nat)
  BY NatLessThanWellFounded
<1>2. \A m, c \in Nat : m < c => <<m, c>> \in R
  BY DEF OpToRel
<1> HIDE DEF R
<1>3. PICK m \in C : \A c \in C : ~(<<c, m>> \in R)
  BY <1>1, WFMin
<1>4. ASSUME NEW c \in C PROVE m <= c
  <2>1. c \in Nat /\ m \in Nat /\ ~(c < m)
    BY <1>2, <1>3
  <2> QED BY <2>1
<1> QED BY <1>3, <1>4

(* A set with zero and the successor of each of its members has them all. *)
LEMMA AllNat ==
  ASSUME NEW S \in SUBSET Nat, 0 \in S, \A n \in S : n + 1 \in S
  PROVE  S = Nat
<1> SUFFICES ASSUME Nat \ S # {} PROVE FALSE
  OBVIOUS
<1>1. PICK m \in Nat \ S : \A c \in Nat \ S : m <= c
  BY LeastNat
<1>2. m - 1 \in Nat /\ (m - 1) + 1 = m /\ ~(m <= m - 1)
  BY <1>1
<1>3. m - 1 \in S
  BY <1>1, <1>2
<1> QED BY <1>1, <1>2, <1>3

LEMMA FlattenAt ==
  ASSUME NEW T, NEW ss \in Seq(Seq(T)), Len(ss) # 0
  PROVE  \E h : /\ \A j \in 1 .. Len(ss) : h[j] \in Seq(T)
                /\ h[1] = ss[1]
                /\ \A j \in 2 .. Len(ss) : h[j] = h[j - 1] \o ss[j]
                /\ FlattenSeq(ss) = h[Len(ss)]
<1> DEFINE Step(f, j) == IF j = 1 THEN ss[j] ELSE f[j - 1] \o ss[j]
           h == CHOOSE f : f = [j \in 1 .. Len(ss) |-> IF j = 1 THEN ss[j] ELSE f[j - 1] \o ss[j]]
<1>1. Len(ss) \in Nat /\ \A j \in 1 .. Len(ss) : ss[j] \in Seq(T)
  OBVIOUS
<1> DEFINE Defined(n) == \E f \in [1 .. n -> Seq(T)] : \A j \in 1 .. n : f[j] = Step(f, j)
<1>2. Defined(0)
  <2>1. PICK f : f = [j \in 1 .. 0 |-> ss[j]]
    OBVIOUS
  <2>2. f \in [1 .. 0 -> Seq(T)] /\ \A j \in 1 .. 0 : f[j] = Step(f, j)
    BY <2>1
  <2> QED BY <2>2
<1>3. ASSUME NEW n \in Nat, Defined(n), n + 1 <= Len(ss) PROVE Defined(n + 1)
  <2>1. n \in Nat /\ n <= Len(ss) /\ n + 1 \in 1 .. Len(ss)
    BY <1>1, <1>3
  <2>2. PICK f \in [1 .. n -> Seq(T)] : \A j \in 1 .. n : f[j] = Step(f, j)
    BY <1>3
  <2> DEFINE g == [j \in 1 .. n + 1 |-> IF j <= n THEN f[j] ELSE Step(f, j)]
  <2>3. \A j \in 1 .. n + 1 : j <= n \/ j = n + 1
    BY <2>1
  <2>4. Step(f, n + 1) \in Seq(T)
    <3>1. CASE n = 0
      BY <1>1, <2>1, <3>1
    <3>2. CASE n # 0
      <4>1. n \in 1 .. n /\ n + 1 - 1 = n /\ n + 1 # 1
        BY <2>1, <3>2
      <4>2. f[n] \in Seq(T) /\ ss[n + 1] \in Seq(T)
        BY <1>1, <2>1, <4>1
      <4>3. f[n] \o ss[n + 1] \in Seq(T)
        BY <4>2, ConcatProperties
      <4> QED BY <4>1, <4>3
    <3> QED BY <3>1, <3>2
  <2>5. g \in [1 .. n + 1 -> Seq(T)]
    <3>1. ASSUME NEW j \in 1 .. n + 1 PROVE g[j] \in Seq(T)
      <4>1. j <= n => j \in 1 .. n
        BY <2>1
      <4> QED BY <2>3, <2>4, <4>1
    <3> QED BY <3>1
  <2>6. ASSUME NEW j \in 1 .. n + 1 PROVE g[j] = Step(g, j)
    <3>1. j = 1 \/ (j - 1 \in 1 .. n + 1 /\ j - 1 <= n)
      BY <2>1
    <3>2. j # 1 => g[j - 1] = f[j - 1]
      BY <3>1
    <3>3. g[j] = Step(f, j)
      <4>1. j <= n => j \in 1 .. n
        BY <2>1
      <4> QED BY <2>2, <4>1
    <3> QED BY <3>2, <3>3
  <2> QED BY <2>5, <2>6
<1>4. Defined(Len(ss))
  <2> HIDE DEF Defined
  <2> DEFINE S == {n \in Nat : n <= Len(ss) => Defined(n)}
  <2>1. S \in SUBSET Nat /\ 0 \in S
    BY <1>2
  <2>2. ASSUME NEW n \in S PROVE n + 1 \in S
    <3>1. n \in Nat /\ n + 1 \in Nat /\ (n + 1 <= Len(ss) => Defined(n) /\ n + 1 <= Len(ss))
      BY <1>1
    <3>2. n + 1 <= Len(ss) => Defined(n + 1)
      BY <1>3, <3>1
    <3> QED BY <3>1, <3>2
  <2> HIDE DEF S
  <2>3. S = Nat
    BY <2>1, <2>2, AllNat
  <2>4. Len(ss) \in S /\ Len(ss) <= Len(ss)
    BY <1>1, <2>3
  <2> QED BY <2>4 DEF S
<1>5. PICK f \in [1 .. Len(ss) -> Seq(T)] : \A j \in 1 .. Len(ss) : f[j] = Step(f, j)
  BY <1>4
<1> HIDE DEF Defined
<1>6. f = [j \in 1 .. Len(ss) |-> IF j = 1 THEN ss[j] ELSE f[j - 1] \o ss[j]]
  BY <1>5
<1>7. h = [j \in 1 .. Len(ss) |-> IF j = 1 THEN ss[j] ELSE h[j - 1] \o ss[j]]
  BY <1>6
<1>8. FlattenSeq(ss) = h[Len(ss)]
  BY DEF FlattenSeq
<1> HIDE DEF h
<1>9. \A j \in 1 .. Len(ss) : h[j] = Step(h, j)
  BY <1>7
<1>10. \A j \in 1 .. Len(ss) : h[j] \in Seq(T)
  <2>1. ASSUME NEW n \in Nat, n + 1 \in 1 .. Len(ss), n = 0 \/ h[n] \in Seq(T)
        PROVE  h[n + 1] \in Seq(T)
    <3>1. h[n + 1] = IF n + 1 = 1 THEN ss[n + 1] ELSE h[(n + 1) - 1] \o ss[n + 1]
      BY <1>9, <2>1
    <3>2. n + 1 - 1 = n /\ (n + 1 = 1 <=> n = 0) /\ ss[n + 1] \in Seq(T)
      BY <1>1, <2>1
    <3>3. n # 0 => h[n] \o ss[n + 1] \in Seq(T)
      BY <2>1, <3>2, ConcatProperties
    <3> QED BY <3>1, <3>2, <3>3
  <2> DEFINE U == {n \in Nat : n \in 1 .. Len(ss) => h[n] \in Seq(T)}
  <2>2. U \in SUBSET Nat /\ 0 \in U
    OBVIOUS
  <2>3. ASSUME NEW n \in U PROVE n + 1 \in U
    <3>1. /\ n \in Nat /\ n + 1 \in Nat
          /\ n + 1 \in 1 .. Len(ss) => n = 0 \/ h[n] \in Seq(T)
      BY <1>1
    <3>2. n + 1 \in 1 .. Len(ss) => h[n + 1] \in Seq(T)
      BY <2>1, <3>1
    <3> QED BY <3>1, <3>2
  <2> HIDE DEF U
  <2>4. U = Nat
    BY <2>2, <2>3, AllNat
  <2>5. \A j \in 1 .. Len(ss) : j \in U
    BY <2>4
  <2> QED BY <2>5 DEF U
<1>11. 1 \in 1 .. Len(ss) /\ \A j \in 2 .. Len(ss) : j \in 1 .. Len(ss) /\ j # 1
  BY <1>1
<1> QED BY <1>8, <1>9, <1>10, <1>11

LEMMA FlattenCons ==
  ASSUME NEW T, NEW ss \in Seq(Seq(T)), Len(ss) # 0
  PROVE  /\ FlattenSeq(ss) = ss[1] \o FlattenSeq(Tail(ss))
         /\ FlattenSeq(Tail(ss)) \in Seq(T)
<1> DEFINE t == Tail(ss)
<1>1. /\ Len(ss) \in Nat /\ t \in Seq(Seq(T)) /\ Len(t) = Len(ss) - 1
      /\ \A j \in 1 .. Len(t) : t[j] = ss[j + 1]
      /\ \A j \in 1 .. Len(ss) : ss[j] \in Seq(T)
  <2>1. ss # <<>>
    OBVIOUS
  <2> QED BY <2>1, HeadTailProperties, ElementOfSeq
<1> HIDE DEF t
<1>2. PICK h : /\ \A j \in 1 .. Len(ss) : h[j] \in Seq(T)
               /\ h[1] = ss[1]
               /\ \A j \in 2 .. Len(ss) : h[j] = h[j - 1] \o ss[j]
               /\ FlattenSeq(ss) = h[Len(ss)]
  BY FlattenAt
<1>3. CASE Len(ss) = 1
  <2>1. Len(t) = 0 /\ 1 \in 1 .. Len(ss)
    BY <1>1, <1>3
  <2>2. FlattenSeq(t) = t /\ t = <<>>
    <3>1. FlattenSeq(t) = t
      BY <2>1 DEF FlattenSeq
    <3>2. t = <<>>
      BY <1>1, <2>1, EmptySeq
    <3> QED BY <3>1, <3>2
  <2>3. ss[1] \in Seq(T) /\ FlattenSeq(ss) = ss[1]
    BY <1>1, <1>2, <1>3, <2>1
  <2>4. ss[1] \o <<>> = ss[1] /\ <<>> \in Seq(T)
    BY <2>3, ConcatEmptySeq, EmptySeq
  <2> QED BY <2>2, <2>3, <2>4 DEF t
<1>4. CASE Len(ss) # 1
  <2>1. PICK m \in Nat : m = Len(t)
    BY <1>1
  <2>2. m # 0 /\ Len(ss) = m + 1
    BY <1>1, <1>4, <2>1
  <2>3. PICK g : /\ \A j \in 1 .. Len(t) : g[j] \in Seq(T)
                 /\ g[1] = t[1]
                 /\ \A j \in 2 .. Len(t) : g[j] = g[j - 1] \o t[j]
                 /\ FlattenSeq(t) = g[Len(t)]
    BY <1>1, <2>1, <2>2, FlattenAt
  <2>4. /\ \A j \in 1 .. m : g[j] \in Seq(T) /\ t[j] \in Seq(T)
        /\ \A j \in 2 .. m : g[j] = g[j - 1] \o t[j]
        /\ FlattenSeq(t) = g[m]
    <3>1. \A j \in 1 .. m : t[j] \in Seq(T)
      BY <1>1, <2>1, ElementOfSeq
    <3>2. \A j \in 1 .. m : g[j] \in Seq(T)
      BY <2>1, <2>3
    <3>3. \A j \in 2 .. m : g[j] = g[j - 1] \o t[j]
      BY <2>1, <2>3
    <3>4. FlattenSeq(t) = g[m]
      BY <2>1, <2>3
    <3> QED BY <3>1, <3>2, <3>3, <3>4
  <2>5. \A j \in 1 .. m : h[j + 1] = h[j] \o t[j]
    <3>1. \A j \in 1 .. m : j + 1 \in 2 .. Len(ss) /\ (j + 1) - 1 = j
      BY <2>2
    <3>2. \A j \in 1 .. m : h[j + 1] = h[(j + 1) - 1] \o ss[j + 1]
      BY <1>2, <3>1
    <3>3. \A j \in 1 .. m : t[j] = ss[j + 1]
      BY <1>1, <2>1
    <3> QED BY <3>1, <3>2, <3>3
  <2>6. h[1] = ss[1] /\ g[1] = t[1] /\ ss[1] \in Seq(T)
    <3>1. 1 \in 1 .. Len(ss)
      BY <2>2
    <3> QED BY <1>1, <1>2, <2>3, <3>1
  <2>7. ASSUME NEW n \in Nat, n + 1 \in 1 .. m, n = 0 \/ h[n + 1] = ss[1] \o g[n]
        PROVE  h[(n + 1) + 1] = ss[1] \o g[n + 1]
    <3>1. h[(n + 1) + 1] = h[n + 1] \o t[n + 1] /\ t[n + 1] \in Seq(T)
      BY <2>4, <2>5, <2>7
    <3>2. CASE n = 0
      <4>1. n + 1 = 1
        BY <3>2
      <4> QED BY <2>6, <3>1, <4>1, Zenon
    <3>3. CASE n # 0
      <4>1. n \in 1 .. m /\ n + 1 \in 2 .. m /\ (n + 1) - 1 = n
        BY <2>7, <3>3
      <4>2. h[n + 1] = ss[1] \o g[n] /\ g[n + 1] = g[n] \o t[n + 1] /\ g[n] \in Seq(T)
        <5>1. g[n + 1] = g[(n + 1) - 1] \o t[n + 1] /\ g[n] \in Seq(T)
          BY <2>4, <4>1
        <5>2. h[n + 1] = ss[1] \o g[n]
          BY <2>7, <3>3
        <5> QED BY <4>1, <5>1, <5>2
      <4>3. \A x, y, z \in Seq(T) : (x \o y) \o z = x \o (y \o z)
        BY ConcatAssociative
      <4>4. (ss[1] \o g[n]) \o t[n + 1] = ss[1] \o (g[n] \o t[n + 1])
        BY <2>6, <3>1, <4>2, <4>3, Zenon
      <4> QED BY <3>1, <4>2, <4>4, Zenon
    <3> QED BY <3>2, <3>3
  <2> DEFINE Joined(n) == h[n + 1] = ss[1] \o g[n]
             U == {n \in Nat : n \in 1 .. m => Joined(n)}
  <2> HIDE DEF Joined
  <2>8. U \in SUBSET Nat /\ 0 \in U
    OBVIOUS
  <2>9. ASSUME NEW n \in U PROVE n + 1 \in U
    <3>1. /\ n \in Nat /\ n + 1 \in Nat
          /\ n + 1 \in 1 .. m => n = 0 \/ Joined(n)
      OBVIOUS
    <3>2. n + 1 \in 1 .. m => Joined(n + 1)
      BY <2>7, <3>1 DEF Joined
    <3> QED BY <3>1, <3>2
  <2> HIDE DEF U
  <2>10. U = Nat
    BY <2>8, <2>9, AllNat
  <2>11. m \in 1 .. m /\ m \in U
    BY <2>2, <2>10
  <2>12. h[m + 1] = ss[1] \o g[m] /\ g[m] \in Seq(T)
    BY <2>4, <2>11 DEF U, Joined
  <2> QED BY <1>2, <2>2, <2>4, <2>12 DEF t
<1> QED BY <1>3, <1>4
----------------------------------------------------------------------------
(* The marks in a text, from its front *)

MarkAt(text, k) ==
  k + 2 <= Len(text) /\ text[k] = "<" /\ text[k + 1] \in Digits /\ text[k + 2] = ">"

Begun(text, goesOn, k) == IF k = 1 THEN ~goesOn ELSE text[k - 1] = "newline"

Piece(text, goesOn, k) ==
  IF Begun(text, goesOn, k) /\ ~MarkAt(text, k)
    THEN <<"<", default_message_loglevel, ">", text[k]>>
    ELSE <<text[k]>>

Pieces(text, goesOn) == [k \in 1 .. Len(text) |-> Piece(text, goesOn, k)]

LEMMA MarkSeen ==
  ASSUME NEW text \in Seq(Chars), NEW k \in 1 .. Len(text)
  PROVE  (k + 2 <= Len(text) /\ IsMark(SubSeq(text, k, k + 2))) <=> MarkAt(text, k)
<1> SUFFICES ASSUME k + 2 <= Len(text)
             PROVE  IsMark(SubSeq(text, k, k + 2)) <=>
                      /\ text[k] = "<" /\ text[k + 1] \in Digits /\ text[k + 2] = ">"
  BY DEF MarkAt
<1>1. Len(text) \in Nat /\ k \in Nat /\ k \in 1 .. Len(text) + 1 /\ k + 2 \in k - 1 .. Len(text)
  OBVIOUS
<1>2. k + 2 - k + 1 = 3
  BY <1>1
<1>3. /\ Len(SubSeq(text, k, k + 2)) = k + 2 - k + 1
      /\ \A j \in 1 .. k + 2 - k + 1 : SubSeq(text, k, k + 2)[j] = text[k + j - 1]
  BY <1>1, SubSeqProperties
<1>4. 1 \in 1 .. 3 /\ 2 \in 1 .. 3 /\ 3 \in 1 .. 3
      /\ k + 1 - 1 = k /\ k + 2 - 1 = k + 1 /\ k + 3 - 1 = k + 2
  BY <1>1
<1>5. /\ Len(SubSeq(text, k, k + 2)) = 3
      /\ \A j \in 1 .. 3 : SubSeq(text, k, k + 2)[j] = text[k + j - 1]
  BY <1>2, <1>3
<1>6. /\ SubSeq(text, k, k + 2)[1] = text[k]
      /\ SubSeq(text, k, k + 2)[2] = text[k + 1]
      /\ SubSeq(text, k, k + 2)[3] = text[k + 2]
  BY <1>4, <1>5
<1> QED BY <1>5, <1>6 DEF IsMark

LEMMA MarkedPieces ==
  ASSUME NEW text \in Seq(Chars), NEW goesOn \in BOOLEAN
  PROVE  /\ Marked(text, goesOn) = FlattenSeq(Pieces(text, goesOn))
         /\ Pieces(text, goesOn) \in Seq(Seq(Chars))
         /\ Len(Pieces(text, goesOn)) = Len(text)
<1>1. DOMAIN text = 1 .. Len(text) /\ Len(text) \in Nat
      /\ \A k \in 1 .. Len(text) : text[k] \in Chars
  OBVIOUS
<1>2. Marked(text, goesOn) = FlattenSeq(Pieces(text, goesOn))
  <2> DEFINE old == [k \in DOMAIN text |->
               IF /\ IF k = 1 THEN ~goesOn ELSE text[k - 1] = "newline"
                  /\ ~(k + 2 <= Len(text) /\ IsMark(SubSeq(text, k, k + 2)))
                 THEN <<"<", default_message_loglevel, ">", text[k]>>
                 ELSE <<text[k]>>]
  <2>1. Marked(text, goesOn) = FlattenSeq(old)
    BY DEF Marked
  <2>2. old = Pieces(text, goesOn)
    <3>1. ASSUME NEW k \in 1 .. Len(text) PROVE old[k] = Piece(text, goesOn, k)
      <4>1. (k + 2 <= Len(text) /\ IsMark(SubSeq(text, k, k + 2))) <=> MarkAt(text, k)
        BY MarkSeen
      <4> QED BY <1>1, <4>1, Zenon DEF Piece, Begun
    <3> QED BY <1>1, <3>1 DEF Pieces
  <2> HIDE DEF old
  <2> QED BY <2>1, <2>2
<1>3. \A k \in 1 .. Len(text) : Piece(text, goesOn, k) \in Seq(Chars)
  <2>1. ASSUME NEW x \in Chars
        PROVE  <<x>> \in Seq(Chars) /\ <<"<", default_message_loglevel, ">", x>> \in Seq(Chars)
    BY Sizes
  <2> QED BY <1>1, <2>1 DEF Piece
<1>4. Pieces(text, goesOn) \in [1 .. Len(text) -> Seq(Chars)]
  BY <1>3 DEF Pieces
<1>5. Pieces(text, goesOn) \in Seq(Seq(Chars))
  BY <1>1, <1>4, SeqDef
<1>6. Len(Pieces(text, goesOn)) = Len(text)
  <2>1. DOMAIN Pieces(text, goesOn) = 1 .. Len(text)
    BY <1>4
  <2>2. /\ DOMAIN Pieces(text, goesOn) = 1 .. Len(Pieces(text, goesOn))
        /\ Len(Pieces(text, goesOn)) \in Nat
    BY <1>5, LenProperties
  <2> QED BY <1>1, <2>1, <2>2
<1> QED BY <1>2, <1>5, <1>6

(* What the first character contributes, and the rest without it. *)
LEMMA MarkedCons ==
  ASSUME NEW text \in Seq(Chars), text # <<>>, NEW goesOn \in BOOLEAN
  PROVE  /\ Marked(text, goesOn) =
              Piece(text, goesOn, 1) \o Marked(Tail(text), text[1] # "newline")
         /\ Marked(Tail(text), text[1] # "newline") \in Seq(Chars)
<1> DEFINE t  == Tail(text)
           on == text[1] # "newline"
<1>1. PICK n \in Nat : n = Len(text)
  OBVIOUS
<1>2. n # 0 /\ t \in Seq(Chars) /\ Len(t) = n - 1 /\ \A k \in 1 .. n - 1 : t[k] = text[k + 1]
  <2>1. n # 0
    BY <1>1, EmptySeq
  <2>2. t \in Seq(Chars) /\ Len(t) = Len(text) - 1 /\ \A k \in 1 .. Len(t) : t[k] = text[k + 1]
    BY HeadTailProperties
  <2>3. Len(t) = n - 1
    BY <1>1, <2>2
  <2> QED BY <2>1, <2>2, <2>3
<1> HIDE DEF t, on
<1>3. on \in BOOLEAN
  BY DEF on
<1>4. /\ Pieces(text, goesOn) \in Seq(Seq(Chars)) /\ Len(Pieces(text, goesOn)) = n
      /\ Marked(text, goesOn) = FlattenSeq(Pieces(text, goesOn))
  BY <1>1, MarkedPieces
<1>5. /\ Pieces(t, on) \in Seq(Seq(Chars)) /\ Len(Pieces(t, on)) = n - 1
      /\ Marked(t, on) = FlattenSeq(Pieces(t, on))
  BY <1>2, <1>3, MarkedPieces
<1>6. ASSUME NEW k \in 1 .. n - 1 PROVE Piece(text, goesOn, k + 1) = Piece(t, on, k)
  <2>1. k \in Nat /\ t[k] = text[k + 1] /\ k + 1 # 1 /\ (k + 1) - 1 = k
    BY <1>2
  <2>2. Begun(text, goesOn, k + 1) <=> Begun(t, on, k)
    <3>1. CASE k = 1
      BY <2>1, <3>1 DEF Begun, on
    <3>2. CASE k # 1
      <4>1. k - 1 \in 1 .. n - 1 /\ (k - 1) + 1 = k
        BY <2>1, <3>2
      <4>2. t[k - 1] = text[k]
        BY <1>2, <4>1
      <4> QED BY <2>1, <3>2, <4>2 DEF Begun
    <3> QED BY <3>1, <3>2
  <2>3. MarkAt(text, k + 1) <=> MarkAt(t, k)
    <3>1. k + 1 + 2 <= n <=> k + 2 <= n - 1
      BY <2>1
    <3>2. ASSUME k + 2 <= n - 1
          PROVE  t[k + 1] = text[(k + 1) + 1] /\ t[k + 2] = text[(k + 1) + 2]
      <4>1. /\ k + 1 \in 1 .. n - 1 /\ k + 2 \in 1 .. n - 1 /\ (k + 1) + 2 = (k + 2) + 1
        BY <2>1, <3>2
      <4> QED BY <1>2, <4>1
    <3> QED BY <1>1, <1>2, <2>1, <3>1, <3>2 DEF MarkAt
  <2> QED BY <2>1, <2>2, <2>3 DEF Piece
<1>7. Tail(Pieces(text, goesOn)) = Pieces(t, on)
  <2> DEFINE ps == Pieces(text, goesOn)
             us == Pieces(t, on)
  <2>1. /\ \A k \in 1 .. n : ps[k] = Piece(text, goesOn, k)
        /\ \A k \in 1 .. n - 1 : us[k] = Piece(t, on, k)
    BY <1>1, <1>2 DEF Pieces
  <2> HIDE DEF ps, us
  <2>2. ps \in Seq(Seq(Chars)) /\ Len(ps) = n /\ us \in Seq(Seq(Chars)) /\ Len(us) = n - 1
    BY <1>4, <1>5 DEF ps, us
  <2>3. ps # <<>>
    BY <1>2, <2>2, EmptySeq
  <2>4. /\ Tail(ps) \in Seq(Seq(Chars)) /\ Len(Tail(ps)) = Len(ps) - 1
        /\ \A k \in 1 .. Len(Tail(ps)) : Tail(ps)[k] = ps[k + 1]
    BY <2>2, <2>3, HeadTailProperties
  <2>5. Len(Tail(ps)) = n - 1
    BY <2>2, <2>4
  <2>6. \A k \in 1 .. n - 1 : Tail(ps)[k] = us[k]
    <3>1. \A k \in 1 .. n - 1 : k + 1 \in 1 .. n
      OBVIOUS
    <3> QED BY <1>6, <2>1, <2>4, <2>5, <3>1
  <2>7. Tail(ps) = us
    BY <2>2, <2>4, <2>5, <2>6, SeqEqual
  <2> QED BY <2>7 DEF ps, us
<1>8. Pieces(text, goesOn)[1] = Piece(text, goesOn, 1)
  <2>1. 1 \in 1 .. n
    BY <1>2
  <2> QED BY <1>1, <2>1 DEF Pieces
<1>9. /\ FlattenSeq(Pieces(text, goesOn)) = Pieces(text, goesOn)[1] \o FlattenSeq(Tail(Pieces(text, goesOn)))
      /\ FlattenSeq(Tail(Pieces(text, goesOn))) \in Seq(Chars)
  BY <1>2, <1>4, FlattenCons
<1> QED BY <1>4, <1>5, <1>7, <1>8, <1>9 DEF t, on

LEMMA MarkedEmpty ==
  ASSUME NEW goesOn \in BOOLEAN
  PROVE  Marked(<<>>, goesOn) = <<>>
<1>1. <<>> \in Seq(Chars) /\ Len(<<>>) = 0
  BY EmptySeq
<1>2. /\ Marked(<<>>, goesOn) = FlattenSeq(Pieces(<<>>, goesOn))
      /\ Pieces(<<>>, goesOn) \in Seq(Seq(Chars)) /\ Len(Pieces(<<>>, goesOn)) = 0
  BY <1>1, MarkedPieces
<1>3. Pieces(<<>>, goesOn) = <<>>
  BY <1>2, EmptySeq
<1> QED BY <1>2, <1>3 DEF FlattenSeq

(* In a line nothing is added before its end. *)
LEMMA MarkedInLine ==
  ASSUME NEW text \in Seq(Chars), text # <<>>
  PROVE  /\ Marked(text, TRUE) = <<text[1]>> \o Marked(Tail(text), text[1] # "newline")
         /\ Marked(text, TRUE) \in Seq(Chars)
<1>1. Piece(text, TRUE, 1) = <<text[1]>>
  BY DEF Piece, Begun
<1>2. text[1] \in Chars
  <2>1. 1 \in 1 .. Len(text)
    BY EmptySeq
  <2> QED BY <2>1
<1>3. <<text[1]>> \in Seq(Chars)
  BY <1>2
<1>4. /\ Marked(text, TRUE) = <<text[1]>> \o Marked(Tail(text), text[1] # "newline")
      /\ Marked(Tail(text), text[1] # "newline") \in Seq(Chars)
  BY <1>1, MarkedCons
<1>5. <<text[1]>> \o Marked(Tail(text), text[1] # "newline") \in Seq(Chars)
  BY <1>3, <1>4, ConcatProperties
<1> QED BY <1>4, <1>5

(* A text that has a mark is left as it is; before another, the mark of    *)
(* the default level is put. *)
LEMMA MarkedAtStart ==
  ASSUME NEW text \in Seq(Chars), text # <<>>
  PROVE  /\ MarkAt(text, 1) => Marked(text, FALSE) = Marked(text, TRUE)
         /\ ~MarkAt(text, 1) =>
              Marked(text, FALSE) = <<"<", default_message_loglevel, ">">> \o Marked(text, TRUE)
<1> DEFINE later == Marked(Tail(text), text[1] # "newline")
           mark  == <<"<", default_message_loglevel, ">">>
<1>1. /\ Marked(text, FALSE) = Piece(text, FALSE, 1) \o later
      /\ Marked(text, TRUE) = <<text[1]>> \o later
      /\ later \in Seq(Chars)
  BY MarkedCons, MarkedInLine
<1> HIDE DEF later
<1>2. MarkAt(text, 1) => Piece(text, FALSE, 1) = <<text[1]>>
  BY DEF Piece
<1>3. ~MarkAt(text, 1) => Piece(text, FALSE, 1) = <<"<", default_message_loglevel, ">", text[1]>>
  BY DEF Piece, Begun
<1>4. text[1] \in Chars
  <2>1. 1 \in 1 .. Len(text)
    BY EmptySeq
  <2> QED BY <2>1
<1>5. mark \in Seq(Chars) /\ <<text[1]>> \in Seq(Chars)
  BY <1>4, Sizes
<1>6. <<"<", default_message_loglevel, ">", text[1]>> = mark \o <<text[1]>>
  OBVIOUS
<1>7. (mark \o <<text[1]>>) \o later = mark \o (<<text[1]>> \o later)
  BY <1>1, <1>5, ConcatAssociative
<1> QED BY <1>1, <1>2, <1>3, <1>6, <1>7, Zenon
----------------------------------------------------------------------------
(* The ring implements the log. *)

LEMMA SameMarked ==
  ASSUME NEW text, NEW goesOn
  PROVE  Log!Marked(text, goesOn) = Marked(text, goesOn)
BY DEF Log!Marked, Log!IsMark, Log!FlattenSeq, Marked, IsMark, FlattenSeq

(* The log, and what is still to be copied, as sequences. *)
AreSeqs ==
  /\ kept \in Seq(Chars \cup {NUL}) /\ Len(kept) = log_size
  /\ rest \in Seq(Chars)
  /\ pc = "idle" => rest = <<>>
  /\ pc # "idle" => /\ p \in Nat /\ buf_end \in Nat /\ p < buf_end
                    /\ rest # <<>> /\ Len(rest) = buf_end - p
                    /\ \A k \in 1 .. buf_end - p : rest[k] = buf[p + k - 1]

LEMMA KeptSeq == IInv => kept \in Seq(Chars \cup {NUL}) /\ Len(kept) = log_size
BY KeptAt DEF IInv

LEMMA ReadAsSeqs == IInv => AreSeqs
<1> SUFFICES ASSUME IInv PROVE AreSeqs
  OBVIOUS
<1>1. CASE pc = "idle"
  BY <1>1, EmptySeq, KeptSeq DEF AreSeqs, rest
<1>2. CASE pc # "idle"
  <2>1. /\ p \in Nat /\ buf_end \in Nat /\ p < buf_end
        /\ \A k \in p .. buf_end - 1 : buf[k] \in Chars
    BY <1>2 DEF IInv, Types, TextInBuf
  <2>2. PICK n \in Nat : n = buf_end - p
    BY <2>1
  <2>3. n # 0
    BY <2>1, <2>2
  <2>4. rest = [k \in 1 .. n |-> buf[p + k - 1]]
    BY <1>2, <2>2 DEF rest
  <2>5. \A k \in 1 .. n : buf[p + k - 1] \in Chars
    <3>1. \A k \in 1 .. n : p + k - 1 \in p .. buf_end - 1
      BY <2>1, <2>2
    <3> QED BY <2>1, <3>1
  <2>6. rest \in [1 .. n -> Chars]
    BY <2>4, <2>5
  <2>7. rest \in Seq(Chars)
    BY <2>6, SeqDef
  <2>8. Len(rest) = n
    <3>1. DOMAIN rest = 1 .. n
      BY <2>6
    <3>2. DOMAIN rest = 1 .. Len(rest) /\ Len(rest) \in Nat
      BY <2>7, LenProperties
    <3> QED BY <3>1, <3>2
  <2>9. rest # <<>>
    BY <2>3, <2>8, EmptySeq
  <2> QED BY <1>2, <2>1, <2>2, <2>4, <2>7, <2>8, <2>9, KeptSeq DEF AreSeqs
<1> QED BY <1>1, <1>2

(* A line of the log goes on if its level is still known. *)
LEMMA GoesOn ==
  ASSUME IInv, pc # "char"
  PROVE  Log!InLine(kept) <=> msg_level # NoLevel
<1>1. kept \in Seq(Chars \cup {NUL}) /\ Len(kept) = log_size /\ log_size \in Nat
  BY KeptSeq, Sizes DEF IInv, Types
<1>2. kept = <<>> <=> log_size = 0
  BY <1>1, EmptySeq
<1>3. Log!Last(kept) = kept[log_size]
  BY <1>1 DEF Log!Last
<1>4. msg_level = NoLevel <=> log_size = 0 \/ kept[log_size] = "newline"
  BY DEF IInv, LevelKnown
<1> QED BY <1>2, <1>3, <1>4 DEF Log!InLine

(* The ring drops its oldest character when there is no room. *)
LEMMA KeptGrows ==
  ASSUME Types, Counted, NEW c \in Chars \cup {NUL}, Store(c), kept' \in Seq(Chars \cup {NUL}),
         Len(kept') = log_size'
  PROVE  kept' = Log!Newest(Append(kept, c))
<1> DEFINE T == Chars \cup {NUL}
           a == Append(kept, c)
<1>1. kept \in Seq(T) /\ Len(kept) = log_size
  BY KeptAt
<1>2. PICK n \in Nat : n = log_size
  BY Sizes DEF Types
<1>3. /\ a \in Seq(T) /\ Len(a) = n + 1
      /\ \A j \in 1 .. n : a[j] = kept[j]
      /\ a[n + 1] = c
  <2>1. Len(kept) = n
    BY <1>1, <1>2
  <2>2. /\ Append(kept, c) \in Seq(T) /\ Len(Append(kept, c)) = Len(kept) + 1
        /\ \A j \in 1 .. Len(kept) : Append(kept, c)[j] = kept[j]
        /\ Append(kept, c)[Len(kept) + 1] = c
    BY <1>1, AppendProperties
  <2> QED BY <2>1, <2>2
<1> HIDE DEF a
<1>4. CASE n < LOG_BUF_LEN
  <2>1. /\ log_size' = n + 1 /\ kept'[n + 1] = c
        /\ \A j \in 1 .. n : kept'[j] = kept[j]
    BY <1>2, <1>4, StoreRight
  <2>2. Log!Newest(a) = a
    BY <1>3, <1>4, Sizes DEF Log!Newest
  <2>3. Len(kept') = n + 1
    BY <2>1
  <2>4. \A j \in 1 .. n + 1 : kept'[j] = a[j]
    <3>1. \A j \in 1 .. n + 1 : j \in 1 .. n \/ j = n + 1
      OBVIOUS
    <3> QED BY <1>3, <2>1, <3>1
  <2>5. kept' = a
    BY <1>3, <2>3, <2>4, SeqEqual
  <2> QED BY <2>2, <2>5 DEF a
<1>5. CASE n = LOG_BUF_LEN
  <2>1. /\ log_size' = n /\ kept'[n] = c
        /\ \A j \in 1 .. n - 1 : kept'[j] = kept[j + 1]
    BY <1>2, <1>5, StoreRight
  <2>2. n # 0
    BY <1>5, Sizes
  <2>3. Log!Newest(a) = SubSeq(a, 2, n + 1)
    <3>1. ~(n + 1 <= n) /\ (n + 1) - n + 1 = 2
      OBVIOUS
    <3> QED BY <1>3, <1>5, <3>1 DEF Log!Newest
  <2>4. /\ SubSeq(a, 2, n + 1) \in Seq(T) /\ Len(SubSeq(a, 2, n + 1)) = n
        /\ \A j \in 1 .. n : SubSeq(a, 2, n + 1)[j] = a[j + 1]
    <3>1. 2 \in 1 .. Len(a) + 1 /\ n + 1 \in 2 - 1 .. Len(a)
      BY <1>3, <2>2
    <3>2. /\ SubSeq(a, 2, n + 1) \in Seq(T) /\ Len(SubSeq(a, 2, n + 1)) = (n + 1) - 2 + 1
          /\ \A j \in 1 .. (n + 1) - 2 + 1 : SubSeq(a, 2, n + 1)[j] = a[2 + j - 1]
      BY <1>3, <3>1, SubSeqProperties
    <3>3. (n + 1) - 2 + 1 = n /\ \A j \in 1 .. n : 2 + j - 1 = j + 1
      OBVIOUS
    <3> QED BY <3>2, <3>3
  <2>5. Len(kept') = n
    BY <2>1
  <2>6. \A j \in 1 .. n : kept'[j] = SubSeq(a, 2, n + 1)[j]
    <3>1. \A j \in 1 .. n : (j \in 1 .. n - 1 /\ j + 1 \in 1 .. n) \/ j = n
      OBVIOUS
    <3> QED BY <1>3, <2>1, <2>4, <3>1
  <2>7. kept' = SubSeq(a, 2, n + 1)
    BY <2>4, <2>5, <2>6, SeqEqual
  <2> QED BY <2>3, <2>7 DEF a
<1>6. n <= LOG_BUF_LEN
  BY <1>2, Sizes DEF Types
<1> QED BY <1>2, <1>4, <1>5, <1>6, Sizes

toLog == Marked(rest, msg_level # NoLevel)

LEMMA LogInit == Init => Log!Init
<1> SUFFICES ASSUME Init PROVE Log!Init
  OBVIOUS
<1>1. IInv
  BY InitInv
<1>2. kept = <<>>
  <2>1. kept \in Seq(Chars \cup {NUL}) /\ Len(kept) = 0
    BY <1>1, KeptSeq DEF Init
  <2> QED BY <2>1, EmptySeq
<1>3. rest = <<>>
  BY DEF Init, rest
<1>4. Marked(rest, msg_level # NoLevel) = <<>>
  BY <1>3, MarkedEmpty
<1> QED BY <1>2, <1>4 DEF Log!Init

(* A step that leaves the ring and what is to come into it is a stutter.  *)
LEMMA Stutters ==
  ASSUME UNCHANGED ring, toLog' = toLog
  PROVE  UNCHANGED Log!logVars
BY RingKept DEF Log!logVars, toLog

LEMMA FormatSays ==
  ASSUME IInv, AreSeqs, AreSeqs', NEW text \in Messages, Format(text)
  PROVE  Log!Next
<1>1. pc = "idle" /\ UNCHANGED ring /\ msg_level' = msg_level /\ Types
  BY DEF Format, IInv
<1>2. rest = <<>> /\ toLog = <<>>
  <2>1. rest = <<>>
    BY <1>1 DEF AreSeqs
  <2> QED BY <2>1, MarkedEmpty DEF toLog
<1>3. rest' = text
  <2>1. /\ text \in Seq(Chars) /\ Len(text) \in Nat
        /\ \A j \in 1 .. Len(text) : buf'[j + 2] = text[j]
        /\ \/ pc' = "line" /\ p' = 3 /\ buf_end' = 3 + Len(text) /\ Len(text) # 0
           \/ pc' = "idle" /\ p' = 0 /\ buf_end' = 0 /\ Len(text) = 0
    BY <1>1, TextWritten
  <2>2. CASE pc' = "idle"
    <3>1. rest' = <<>> /\ Len(text) = 0
      BY <2>1, <2>2 DEF AreSeqs
    <3> QED BY <2>1, <3>1, EmptySeq
  <2>3. CASE pc' = "line"
    <3>1. p' = 3 /\ buf_end' = 3 + Len(text) /\ buf_end' - p' = Len(text)
      BY <2>1, <2>3
    <3>2. /\ rest' \in Seq(Chars) /\ Len(rest') = Len(text)
          /\ \A k \in 1 .. Len(text) : rest'[k] = buf'[3 + k - 1]
      BY <2>3, <3>1 DEF AreSeqs
    <3>3. \A k \in 1 .. Len(text) : 3 + k - 1 = k + 2
      BY <2>1
    <3>4. \A k \in 1 .. Len(text) : rest'[k] = text[k]
      BY <2>1, <3>2, <3>3
    <3> QED BY <2>1, <3>2, <3>4, SeqEqual
  <2> QED BY <2>1, <2>2, <2>3
<1>4. Log!InLine(kept) = (msg_level # NoLevel)
  <2>1. Log!InLine(kept) <=> msg_level # NoLevel
    BY <1>1, GoesOn
  <2>2. Log!InLine(kept) \in BOOLEAN
    BY DEF Log!InLine
  <2> QED BY <2>1, <2>2
<1>5. toLog' = Log!Marked(text, Log!InLine(kept))
  BY <1>1, <1>3, <1>4, SameMarked DEF toLog
<1>6. Log!Say(text)
  BY <1>1, <1>2, <1>5, RingKept DEF Log!Say, toLog
<1> QED BY <1>6 DEF Log!Next

LEMMA ContinueStutters ==
  ASSUME ContinueLine
  PROVE  UNCHANGED ring /\ toLog' = toLog
BY DEF ContinueLine, toLog, rest

(* The mark that ReadLevel has found is one of the text that is left. *)
LEMMA MarkOfRest ==
  ASSUME IInv, pc = "line", AreSeqs
  PROVE  HasMark <=> MarkAt(rest, 1)
<1>1. /\ p \in Nat /\ buf_end \in Nat /\ p < buf_end
      /\ Len(rest) = buf_end - p
      /\ \A k \in 1 .. buf_end - p : rest[k] = buf[p + k - 1]
      /\ buf[buf_end] = NUL
  BY DEF AreSeqs, IInv, TextInBuf
<1>2. PICK n \in Nat : n = buf_end - p
  BY <1>1
<1>3. n # 0 /\ buf_end = p + n
  BY <1>1, <1>2
<1>4. Len(rest) = n /\ \A k \in 1 .. n : rest[k] = buf[p + k - 1]
  BY <1>1, <1>2
<1>5. CASE n >= 3
  <2>1. /\ 1 \in 1 .. n /\ 2 \in 1 .. n /\ 3 \in 1 .. n /\ 1 + 2 <= n
        /\ p + 1 - 1 = p /\ p + 2 - 1 = p + 1 /\ p + 3 - 1 = p + 2
    BY <1>1, <1>5
  <2>2. rest[1] = buf[p] /\ rest[2] = buf[p + 1] /\ rest[3] = buf[p + 2]
    BY <1>4, <2>1
  <2>3. 1 + 1 = 2 /\ 1 + 2 = 3
    OBVIOUS
  <2> QED BY <1>4, <2>1, <2>2, <2>3 DEF HasMark, MarkAt
<1>6. CASE ~(n >= 3)
  <2>1. buf_end = p + 1 \/ buf_end = p + 2
    BY <1>3, <1>6
  <2>2. ~HasMark
    BY <1>1, <2>1, Sizes DEF HasMark
  <2>3. ~(1 + 2 <= n)
    BY <1>6
  <2> QED BY <1>4, <2>2, <2>3 DEF MarkAt
<1> QED BY <1>5, <1>6

LEMMA ReadStutters ==
  ASSUME IInv, AreSeqs, ReadLevel
  PROVE  UNCHANGED ring /\ toLog' = toLog
<1>1. /\ pc = "line" /\ pc' = "char" /\ UNCHANGED ring /\ UNCHANGED <<buf, p, buf_end>>
      /\ msg_level = NoLevel /\ HasMark /\ msg_level' = buf[p + 1]
  BY DEF ReadLevel
<1>2. msg_level' # NoLevel
  BY <1>1, Sizes DEF HasMark
<1>3. rest' = rest
  BY <1>1 DEF rest
<1>4. rest \in Seq(Chars) /\ rest # <<>> /\ MarkAt(rest, 1)
  BY <1>1, MarkOfRest DEF AreSeqs
<1>5. Marked(rest, FALSE) = Marked(rest, TRUE)
  BY <1>4, MarkedAtStart
<1>6. (msg_level # NoLevel) = FALSE /\ (msg_level' # NoLevel) = TRUE
  BY <1>1, <1>2
<1> QED BY <1>1, <1>3, <1>5, <1>6 DEF toLog

LEMMA TailAt ==
  ASSUME NEW ss \in Seq(Chars), NEW n \in Nat, Len(ss) = n + 1
  PROVE  /\ ss # <<>> /\ Tail(ss) \in Seq(Chars) /\ Len(Tail(ss)) = n
         /\ \A k \in 1 .. n : Tail(ss)[k] = ss[k + 1]
<1>1. ss # <<>>
  BY EmptySeq
<1>2. /\ Tail(ss) \in Seq(Chars) /\ Len(Tail(ss)) = Len(ss) - 1
      /\ \A k \in 1 .. Len(Tail(ss)) : Tail(ss)[k] = ss[k + 1]
  BY <1>1, HeadTailProperties
<1>3. Len(Tail(ss)) = n
  BY <1>2
<1> QED BY <1>1, <1>2, <1>3

LEMMA JoinMark ==
  ASSUME NEW d \in Chars, NEW m \in Seq(Chars)
  PROVE  <<"<">> \o (<<d>> \o (<<">">> \o m)) = <<"<", d, ">">> \o m
<1>1. "<" \in Chars /\ ">" \in Chars
  BY Sizes
<1>2. \A a, b \in Chars : <<a>> \in Seq(Chars) /\ <<a, b>> \in Seq(Chars)
  OBVIOUS
<1>3. ASSUME NEW a \in Chars, NEW b \in Chars PROVE <<a>> \o <<b>> = <<a, b>>
  <2> DEFINE u == <<a>> \o <<b>>
  <2>1. /\ <<a>> \in Seq(Chars) /\ Len(<<a>>) = 1 /\ <<a>>[1] = a
        /\ <<b>> \in Seq(Chars) /\ Len(<<b>>) = 1 /\ <<b>>[1] = b
        /\ <<a, b>> \in Seq(Chars) /\ Len(<<a, b>>) = 2 /\ <<a, b>>[1] = a /\ <<a, b>>[2] = b
    OBVIOUS
  <2>2. /\ u \in Seq(Chars) /\ Len(u) = 1 + 1
        /\ \A j \in 1 .. 1 + 1 : u[j] = IF j <= 1 THEN <<a>>[j] ELSE <<b>>[j - 1]
    BY <2>1, ConcatProperties
  <2> HIDE DEF u
  <2>3. 1 \in 1 .. 1 + 1 /\ 2 \in 1 .. 1 + 1 /\ 1 <= 1 /\ ~(2 <= 1) /\ 2 - 1 = 1 /\ 1 + 1 = 2
    OBVIOUS
  <2>4. u[1] = a /\ u[2] = b /\ Len(u) = 2
    BY <2>1, <2>2, <2>3
  <2>5. \A j \in 1 .. 2 : j = 1 \/ j = 2
    OBVIOUS
  <2>6. \A j \in 1 .. 2 : u[j] = <<a, b>>[j]
    BY <2>1, <2>4, <2>5
  <2> QED BY <2>1, <2>2, <2>4, <2>6, SeqEqual DEF u
<1>4. ASSUME NEW a \in Chars, NEW b \in Chars, NEW c \in Chars
      PROVE <<a, b>> \o <<c>> = <<a, b, c>>
  <2> DEFINE u == <<a, b>> \o <<c>>
  <2>1. /\ <<c>> \in Seq(Chars) /\ Len(<<c>>) = 1 /\ <<c>>[1] = c
        /\ <<a, b>> \in Seq(Chars) /\ Len(<<a, b>>) = 2 /\ <<a, b>>[1] = a /\ <<a, b>>[2] = b
        /\ <<a, b, c>> \in Seq(Chars) /\ Len(<<a, b, c>>) = 3
        /\ <<a, b, c>>[1] = a /\ <<a, b, c>>[2] = b /\ <<a, b, c>>[3] = c
    OBVIOUS
  <2>2. /\ u \in Seq(Chars) /\ Len(u) = 2 + 1
        /\ \A j \in 1 .. 2 + 1 : u[j] = IF j <= 2 THEN <<a, b>>[j] ELSE <<c>>[j - 2]
    BY <2>1, ConcatProperties
  <2> HIDE DEF u
  <2>3. /\ 1 \in 1 .. 2 + 1 /\ 2 \in 1 .. 2 + 1 /\ 3 \in 1 .. 2 + 1 /\ 2 + 1 = 3
        /\ 1 <= 2 /\ 2 <= 2 /\ ~(3 <= 2) /\ 3 - 2 = 1
    OBVIOUS
  <2>4. u[1] = a /\ u[2] = b /\ u[3] = c /\ Len(u) = 3
    BY <2>1, <2>2, <2>3
  <2>5. \A j \in 1 .. 3 : j = 1 \/ j = 2 \/ j = 3
    OBVIOUS
  <2>6. \A j \in 1 .. 3 : u[j] = <<a, b, c>>[j]
    BY <2>1, <2>4, <2>5
  <2> QED BY <2>1, <2>2, <2>4, <2>6, SeqEqual DEF u
<1>5. ASSUME NEW a \in Seq(Chars), NEW b \in Seq(Chars), NEW e \in Seq(Chars)
      PROVE  (a \o b) \o e = a \o (b \o e) /\ a \o b \in Seq(Chars)
  <2>1. a \o b \in Seq(Chars)
    BY ConcatProperties
  <2>2. (a \o b) \o e = a \o (b \o e)
    BY ConcatAssociative, SMTT(30)
  <2> QED BY <2>1, <2>2
<1>6. <<"<">> \in Seq(Chars) /\ <<d>> \in Seq(Chars) /\ <<">">> \in Seq(Chars)
      /\ <<"<", d>> \in Seq(Chars)
  BY <1>1, <1>2
<1>7. <<">">> \o m \in Seq(Chars)
  BY <1>5, <1>6
<1>8. ASSUME NEW r \in Seq(Chars) PROVE <<"<">> \o (<<d>> \o r) = <<"<", d>> \o r
  <2> DEFINE u == <<"<">>
             v == <<d>>
  <2>1. u \o v = <<"<", d>>
    BY <1>1, <1>3
  <2>2. u \in Seq(Chars) /\ v \in Seq(Chars)
    BY <1>6
  <2> HIDE DEF u, v
  <2>3. (u \o v) \o r = u \o (v \o r)
    BY <1>5, <2>2
  <2>4. <<"<", d>> \o r = u \o (v \o r)
    BY <2>1, <2>3, Zenon
  <2> QED BY <2>4 DEF u, v
<1>9. <<"<", d>> \o (<<">">> \o m) = <<"<", d, ">">> \o m
  <2> DEFINE u == <<"<", d>>
             v == <<">">>
  <2>1. u \o v = <<"<", d, ">">> /\ u \in Seq(Chars) /\ v \in Seq(Chars)
    BY <1>1, <1>4, <1>6
  <2> HIDE DEF u, v
  <2>2. (u \o v) \o m = u \o (v \o m)
    BY <1>5, <2>1
  <2>3. <<"<", d, ">">> \o m = u \o (v \o m)
    BY <2>1, <2>2, Zenon
  <2> QED BY <2>3 DEF u, v
<1> QED BY <1>7, <1>8, <1>9, Zenon

(* Three characters come before the rest. *)
LEMMA MarkedPrefix ==
  ASSUME NEW x \in Seq(Chars), NEW y \in Seq(Chars), Len(y) = Len(x) + 3,
         y[1] = "<", y[2] = default_message_loglevel, y[3] = ">",
         \A k \in 1 .. Len(x) : y[k + 3] = x[k], x # <<>>
  PROVE  Marked(y, TRUE) = <<"<", default_message_loglevel, ">">> \o Marked(x, TRUE)
<1> DEFINE y1 == Tail(y)
           y2 == Tail(y1)
           y3 == Tail(y2)
           d  == default_message_loglevel
<1>1. PICK n \in Nat : n = Len(x)
  OBVIOUS
<1>2. Len(y) = (n + 2) + 1 /\ n + 2 \in Nat /\ n + 2 = (n + 1) + 1 /\ n + 1 \in Nat
  BY <1>1
<1>3. /\ y # <<>> /\ y1 \in Seq(Chars) /\ Len(y1) = n + 2
      /\ \A k \in 1 .. n + 2 : y1[k] = y[k + 1]
  BY <1>2, TailAt
<1> HIDE DEF y1
<1>4. /\ y1 # <<>> /\ y2 \in Seq(Chars) /\ Len(y2) = n + 1
      /\ \A k \in 1 .. n + 1 : y2[k] = y1[k + 1]
  BY <1>2, <1>3, TailAt
<1> HIDE DEF y2
<1>5. /\ y2 # <<>> /\ y3 \in Seq(Chars) /\ Len(y3) = n
      /\ \A k \in 1 .. n : y3[k] = y2[k + 1]
  BY <1>4, TailAt
<1> HIDE DEF y3
<1>6. y1[1] = d /\ y2[1] = ">"
  <2>1. 1 \in 1 .. n + 2 /\ 2 \in 1 .. n + 2 /\ 1 \in 1 .. n + 1 /\ 1 + 1 = 2 /\ 2 + 1 = 3
    OBVIOUS
  <2> QED BY <1>3, <1>4, <2>1
<1>7. y3 = x
  <2>1. \A k \in 1 .. n : k + 1 \in 1 .. n + 1 /\ (k + 1) + 1 \in 1 .. n + 2
                          /\ ((k + 1) + 1) + 1 = k + 3
    OBVIOUS
  <2>2. \A k \in 1 .. n : y3[k] = y[k + 3]
    BY <1>3, <1>4, <1>5, <2>1
  <2>3. \A k \in 1 .. n : y3[k] = x[k]
    BY <1>1, <2>2
  <2> QED BY <1>1, <1>5, <2>3, SeqEqual
<1>8. /\ Marked(y, TRUE) = <<"<">> \o Marked(y1, TRUE)
      /\ Marked(y1, TRUE) = <<d>> \o Marked(y2, TRUE)
      /\ Marked(y2, TRUE) = <<">">> \o Marked(x, TRUE)
      /\ Marked(x, TRUE) \in Seq(Chars)
  <2>1. ("<" # "newline") = TRUE /\ (d # "newline") = TRUE /\ (">" # "newline") = TRUE
    BY Sizes
  <2>2. Marked(y, TRUE) = <<"<">> \o Marked(y1, TRUE)
    BY <1>3, <2>1, MarkedInLine DEF y1
  <2>3. Marked(y1, TRUE) = <<d>> \o Marked(y2, TRUE)
    BY <1>3, <1>4, <1>6, <2>1, MarkedInLine DEF y2
  <2>4. Marked(y2, TRUE) = <<">">> \o Marked(y3, TRUE)
    BY <1>4, <1>5, <1>6, <2>1, MarkedInLine DEF y3
  <2> QED BY <1>7, <2>2, <2>3, <2>4, MarkedInLine
<1>9. d \in Chars
  BY Sizes
<1> QED BY <1>8, <1>9, JoinMark, Zenon

LEMMA AddStutters ==
  ASSUME IInv, AreSeqs, AreSeqs', AddLevel
  PROVE  UNCHANGED ring /\ toLog' = toLog
<1>1. /\ pc = "line" /\ pc' = "char" /\ UNCHANGED ring /\ buf_end' = buf_end
      /\ msg_level = NoLevel /\ ~HasMark /\ msg_level' = default_message_loglevel
      /\ Types /\ TextInBuf
  BY DEF AddLevel, IInv
<1>2. /\ rest \in Seq(Chars) /\ rest # <<>> /\ ~MarkAt(rest, 1)
      /\ p \in Nat /\ buf_end \in Nat /\ p < buf_end /\ Len(rest) = buf_end - p
      /\ \A k \in 1 .. buf_end - p : rest[k] = buf[p + k - 1]
  BY <1>1, MarkOfRest DEF AreSeqs
<1>3. /\ p >= 3 /\ p' = p - 3
      /\ buf'[p'] = "<" /\ buf'[p' + 1] = default_message_loglevel /\ buf'[p' + 2] = ">"
      /\ \A k \in p .. buf_end : buf'[k] = buf[k]
  BY <1>1, MarkWritten
<1>4. /\ rest' \in Seq(Chars) /\ Len(rest') = buf_end - p'
      /\ \A k \in 1 .. buf_end - p' : rest'[k] = buf'[p' + k - 1]
  BY <1>1 DEF AreSeqs
<1>5. PICK a \in Nat, n \in Nat : a = p - 3 /\ n = buf_end - p
  BY <1>2, <1>3
<1>6. /\ p = a + 3 /\ p' = a /\ buf_end = a + 3 + n /\ buf_end - p' = n + 3 /\ buf_end - p = n
  BY <1>2, <1>3, <1>5
<1>7. /\ Len(rest) = n /\ \A k \in 1 .. n : rest[k] = buf[(a + 3) + k - 1]
  BY <1>2, <1>6
<1>8. /\ Len(rest') = n + 3 /\ \A k \in 1 .. n + 3 : rest'[k] = buf'[a + k - 1]
  BY <1>4, <1>6
<1>9. rest'[1] = "<" /\ rest'[2] = default_message_loglevel /\ rest'[3] = ">"
  <2>1. /\ 1 \in 1 .. n + 3 /\ 2 \in 1 .. n + 3 /\ 3 \in 1 .. n + 3
        /\ a + 1 - 1 = a /\ a + 2 - 1 = a + 1 /\ a + 3 - 1 = a + 2
    OBVIOUS
  <2>2. buf'[a] = "<" /\ buf'[a + 1] = default_message_loglevel /\ buf'[a + 2] = ">"
    BY <1>3, <1>6, Zenon
  <2>3. /\ rest'[1] = buf'[a + 1 - 1] /\ rest'[2] = buf'[a + 2 - 1]
        /\ rest'[3] = buf'[a + 3 - 1]
    <3>1. \A k \in 1 .. n + 3 : rest'[k] = buf'[a + k - 1]
      BY <1>8
    <3> QED BY <2>1, <3>1, Zenon
  <2> QED BY <2>1, <2>2, <2>3, Zenon
<1>10. ASSUME NEW k \in 1 .. n PROVE rest'[k + 3] = rest[k]
  <2>1. k + 3 \in 1 .. n + 3 /\ a + (k + 3) - 1 = (a + 3) + k - 1
    OBVIOUS
  <2>2. (a + 3) + k - 1 \in (a + 3) .. a + 3 + n
    OBVIOUS
  <2>3. \A j \in (a + 3) .. a + 3 + n : buf'[j] = buf[j]
    BY <1>3, <1>6
  <2> QED BY <1>7, <1>8, <2>1, <2>2, <2>3
<1>11. Len(rest') = Len(rest) + 3 /\ \A k \in 1 .. Len(rest) : rest'[k + 3] = rest[k]
  BY <1>7, <1>8, <1>10
<1>12. Marked(rest', TRUE) = <<"<", default_message_loglevel, ">">> \o Marked(rest, TRUE)
  BY <1>2, <1>4, <1>9, <1>11, MarkedPrefix
<1>13. Marked(rest, FALSE) = <<"<", default_message_loglevel, ">">> \o Marked(rest, TRUE)
  BY <1>2, MarkedAtStart
<1>14. (msg_level # NoLevel) = FALSE /\ (msg_level' # NoLevel) = TRUE
  BY <1>1, Sizes
<1> QED BY <1>1, <1>12, <1>13, <1>14, Zenon DEF toLog

LEMMA FrontOff ==
  ASSUME NEW ss \in Seq(Chars), NEW a \in Chars
  PROVE  /\ <<a>> \o ss # <<>>
         /\ Head(<<a>> \o ss) = a /\ Tail(<<a>> \o ss) = ss
<1> DEFINE u == <<a>> \o ss
<1>1. PICK n \in Nat : n = Len(ss)
  OBVIOUS
<1>2. /\ u \in Seq(Chars) /\ Len(u) = n + 1 /\ u[1] = a
      /\ \A k \in 1 .. n : u[k + 1] = ss[k]
  <2>1. <<a>> \in Seq(Chars) /\ Len(<<a>>) = 1 /\ <<a>>[1] = a
    OBVIOUS
  <2>2. /\ u \in Seq(Chars) /\ Len(u) = Len(<<a>>) + Len(ss)
        /\ \A k \in 1 .. Len(<<a>>) + Len(ss) :
             u[k] = IF k <= Len(<<a>>) THEN <<a>>[k] ELSE ss[k - Len(<<a>>)]
    BY <2>1, ConcatProperties
  <2> HIDE DEF u
  <2>3. /\ Len(u) = 1 + n
        /\ \A k \in 1 .. 1 + n : u[k] = IF k <= 1 THEN <<a>>[k] ELSE ss[k - 1]
    BY <1>1, <2>1, <2>2
  <2>4. /\ 1 \in 1 .. 1 + n /\ 1 <= 1 /\ 1 + n = n + 1
        /\ \A k \in 1 .. n : k + 1 \in 1 .. 1 + n /\ ~(k + 1 <= 1) /\ (k + 1) - 1 = k
    OBVIOUS
  <2> QED BY <2>1, <2>2, <2>3, <2>4
<1> HIDE DEF u
<1>3. /\ u # <<>> /\ Tail(u) \in Seq(Chars) /\ Len(Tail(u)) = n
      /\ \A k \in 1 .. n : Tail(u)[k] = u[k + 1]
  BY <1>2, TailAt
<1>4. Tail(u) = ss
  <2>1. \A k \in 1 .. n : Tail(u)[k] = ss[k]
    BY <1>2, <1>3
  <2> QED BY <1>1, <1>3, <2>1, SeqEqual
<1>5. Head(u) = a
  BY <1>2, <1>3, HeadTailProperties
<1> QED BY <1>3, <1>4, <1>5 DEF u

LEMMA LogCharKeeps ==
  ASSUME IInv, IInv', AreSeqs, AreSeqs', LogChar
  PROVE  Log!Keep
<1> DEFINE c == buf[p]
<1>1. /\ Types /\ TextInBuf /\ Counted /\ pc = "char" /\ Store(c) /\ c \in Chars
      /\ c \in Chars \cup {NUL} /\ buf' = buf
      /\ msg_level # NoLevel /\ msg_level' = IF c = "newline" THEN NoLevel ELSE msg_level
      /\ \/ pc' # "idle" /\ p' = p + 1 /\ buf_end' = buf_end
         \/ pc' = "idle" /\ p + 1 = buf_end
  BY AfterChar DEF IInv, LevelKnown
<1>2. /\ rest \in Seq(Chars) /\ rest # <<>>
      /\ p \in Nat /\ buf_end \in Nat /\ p < buf_end /\ Len(rest) = buf_end - p
      /\ \A k \in 1 .. buf_end - p : rest[k] = buf[p + k - 1]
  BY <1>1 DEF AreSeqs
<1>3. PICK n \in Nat : n = buf_end - p - 1
  BY <1>2
<1>4. /\ buf_end - p = n + 1 /\ buf_end = p + n + 1
  BY <1>2, <1>3
<1>5. /\ Len(rest) = n + 1 /\ \A k \in 1 .. n + 1 : rest[k] = buf[p + k - 1]
  BY <1>2, <1>4
<1>6. rest[1] = c
  <2>1. 1 \in 1 .. n + 1 /\ p + 1 - 1 = p
    BY <1>2
  <2> QED BY <1>5, <2>1
<1>7. /\ Tail(rest) \in Seq(Chars) /\ Len(Tail(rest)) = n
      /\ \A k \in 1 .. n : Tail(rest)[k] = rest[k + 1]
  BY <1>2, <1>5, TailAt
<1>8. rest' = Tail(rest)
  <2>1. CASE pc' = "idle"
    <3>1. n = 0
      BY <1>1, <1>2, <1>4, <2>1
    <3>2. Tail(rest) = <<>>
      BY <1>7, <3>1, EmptySeq
    <3> QED BY <2>1, <3>2 DEF AreSeqs
  <2>2. CASE pc' # "idle"
    <3>1. p' = p + 1 /\ buf_end' - p' = n
      BY <1>1, <1>2, <1>4, <2>2
    <3>2. /\ rest' \in Seq(Chars) /\ Len(rest') = n
          /\ \A k \in 1 .. n : rest'[k] = buf[(p + 1) + k - 1]
      BY <1>1, <2>2, <3>1 DEF AreSeqs
    <3>3. \A k \in 1 .. n : k + 1 \in 1 .. n + 1 /\ (p + 1) + k - 1 = p + (k + 1) - 1
      BY <1>2
    <3>4. \A k \in 1 .. n : rest'[k] = Tail(rest)[k]
      BY <1>5, <1>7, <3>2, <3>3
    <3> QED BY <1>7, <3>2, <3>4, SeqEqual
  <2> QED BY <2>1, <2>2
<1> DEFINE later == Marked(Tail(rest), c # "newline")
<1>9. toLog = <<c>> \o later /\ later \in Seq(Chars)
  <2>1. (msg_level # NoLevel) = TRUE
    BY <1>1
  <2>2. Marked(rest, TRUE) = <<rest[1]>> \o Marked(Tail(rest), rest[1] # "newline")
    BY <1>2, MarkedInLine
  <2>3. Marked(Tail(rest), rest[1] # "newline") \in Seq(Chars)
    BY <1>2, MarkedCons
  <2> QED BY <1>6, <2>1, <2>2, <2>3 DEF toLog
<1>10. toLog' = later
  <2>1. (msg_level' # NoLevel) = (c # "newline")
    BY <1>1
  <2> QED BY <1>8, <2>1 DEF toLog
<1> HIDE DEF later
<1>11. toLog # <<>> /\ Head(toLog) = c /\ Tail(toLog) = later
  BY <1>1, <1>9, FrontOff
<1>12. kept' = Log!Newest(Append(kept, c))
  <2>1. kept' \in Seq(Chars \cup {NUL}) /\ Len(kept') = log_size'
    BY DEF AreSeqs
  <2> QED BY <1>1, <2>1, KeptGrows
<1> QED BY <1>10, <1>11, <1>12 DEF Log!Keep, toLog

(* printk implements the log: every call puts the characters of its text,  *)
(* each once and in order, behind those that are there, with a mark before *)
(* each line that has none, and forgets the oldest only for room.  What is *)
(* still to be copied is what is left in buf with the marks to come.       *)
THEOREM ImplementsLog == Spec => LogSpec
<1>1. Init => Log!Init
  BY LogInit
<1>2. IInv /\ IInv' /\ AreSeqs /\ AreSeqs' /\ [Next]_vars => [Log!Next]_Log!logVars
  <2> SUFFICES ASSUME IInv, IInv', AreSeqs, AreSeqs', [Next]_vars
               PROVE  [Log!Next]_Log!logVars
    OBVIOUS
  <2>1. CASE UNCHANGED vars
    <3>1. UNCHANGED ring /\ toLog' = toLog
      BY <2>1 DEF vars, toLog, rest
    <3> QED BY <3>1, Stutters
  <2>2. CASE ContinueLine
    BY <2>2, ContinueStutters, Stutters
  <2>3. CASE ReadLevel
    BY <2>3, ReadStutters, Stutters
  <2>4. CASE AddLevel
    BY <2>4, AddStutters, Stutters
  <2>5. CASE LogChar
    BY <2>5, LogCharKeeps DEF Log!Next
  <2>6. CASE \E text \in Messages : Format(text)
    BY <2>6, FormatSays
  <2> QED BY <2>1, <2>2, <2>3, <2>4, <2>5, <2>6 DEF Next, InPrintk
<1> QED BY <1>1, <1>2, SpecIInv, ReadAsSeqs, PTL DEF Spec, LogSpec, Log!Spec
----------------------------------------------------------------------------
(* The serial console *)

(* All the bytes there are. *)
Bytes == (UNION {ToSet(t) : t \in Texts}) \cup {LF, CR, Foreign}
AtMostOne == {<<>>} \cup {<<b>> : b \in Bytes}

ConsoleTypes ==
  /\ s \in Seq(Bytes) /\ \A k \in 1 .. Len(s) : s[k] # Foreign
  /\ i \in 0 .. Len(s) /\ feed \in BOOLEAN
  /\ stage \in {"save", "disable", "wait_for_xmitr", "out", "done"}
  /\ line \in Seq(Bytes) /\ shift \in AtMostOne /\ holding \in AtMostOne
  /\ forced \in BOOLEAN

FeedDue == feed => i < Len(s) /\ s[i + 1] = LF

DriverOnly(u)  == \A m \in 1 .. Len(u) : u[m] = Foreign
DriverFirst(u) == \A l, m \in 1 .. Len(u) : l < m /\ u[l] # Foreign => u[m] # Foreign
Unbroken(u) ==
  \A l, m, n \in 1 .. Len(u) :
    l < m /\ m < n /\ u[l] # Foreign /\ u[n] # Foreign => u[m] # Foreign

(* While the console writes, the driver is kept out.  Before, nothing but  *)
(* bytes of the driver are on their way, and none of the text is done.     *)
Apart ==
  /\ stage \in {"save", "disable"} => i = 0 /\ ~feed /\ ~forced /\ DriverOnly(Flow)
  /\ stage \in {"wait_for_xmitr", "out"} => IER = 0
  /\ stage = "out" => forced \/ BothEmpty
  /\ stage = "done" => IER = ier

(* Bytes of the driver are in front of those of the console, until that is *)
(* done; then they may be behind them also.                                *)
Together == (stage # "done" => DriverFirst(Flow)) /\ Unbroken(Flow)

Sent == IF forced THEN Subsequence(FromConsole(Flow), Written) ELSE FromConsole(Flow) = Written

BreakKept == broken => BI \/ lsr_break_flag

ConsoleInv == ConsoleTypes /\ FeedDue /\ Apart /\ Together /\ Sent /\ BreakKept
----------------------------------------------------------------------------

(* One more piece at the end. *)
LEMMA FlattenSnoc ==
  ASSUME NEW T, NEW ss \in Seq(Seq(T)), NEW x \in Seq(T)
  PROVE  FlattenSeq(Append(ss, x)) = FlattenSeq(ss) \o x /\ FlattenSeq(ss) \in Seq(T)
<1> DEFINE tt == Append(ss, x)
<1>1. PICK m \in Nat : m = Len(ss)
  BY LenProperties
<1>2. /\ tt \in Seq(Seq(T)) /\ Len(tt) = m + 1
      /\ \A j \in 1 .. m : tt[j] = ss[j]
      /\ tt[m + 1] = x
  BY <1>1, AppendProperties
<1> HIDE DEF tt
<1>3. Len(tt) # 0
  BY <1>1, <1>2
<1>4. PICK h : /\ \A j \in 1 .. Len(tt) : h[j] \in Seq(T)
               /\ h[1] = tt[1]
               /\ \A j \in 2 .. Len(tt) : h[j] = h[j - 1] \o tt[j]
               /\ FlattenSeq(tt) = h[Len(tt)]
  BY <1>2, <1>3, FlattenAt
<1>5. FlattenSeq(tt) = h[m + 1] /\ \A j \in 2 .. m + 1 : h[j] = h[j - 1] \o tt[j]
  BY <1>2, <1>4
<1>6. CASE m = 0
  <2>1. ss = <<>>
    BY <1>1, <1>6, EmptySeq
  <2>2. FlattenSeq(ss) = ss
    BY <1>1, <1>6 DEF FlattenSeq
  <2>3. m + 1 = 1
    BY <1>6
  <2>4. FlattenSeq(tt) = x
    BY <1>2, <1>4, <1>5, <2>3, Zenon
  <2>5. <<>> \o x = x /\ <<>> \in Seq(T)
    BY ConcatEmptySeq, EmptySeq
  <2> QED BY <2>1, <2>2, <2>4, <2>5, Zenon DEF tt
<1>7. CASE m # 0
  <2>1. Len(ss) # 0
    BY <1>1, <1>7
  <2>2. PICK g : /\ \A j \in 1 .. Len(ss) : g[j] \in Seq(T)
                 /\ g[1] = ss[1]
                 /\ \A j \in 2 .. Len(ss) : g[j] = g[j - 1] \o ss[j]
                 /\ FlattenSeq(ss) = g[Len(ss)]
    BY <2>1, FlattenAt
  <2>3. /\ FlattenSeq(ss) = g[m]
        /\ \A j \in 1 .. m : g[j] \in Seq(T)
        /\ \A j \in 2 .. m : g[j] = g[j - 1] \o ss[j]
    BY <1>1, <2>2
  <2> DEFINE S == {n \in Nat : n \in 1 .. m => h[n] = g[n]}
  <2>4. S \in SUBSET Nat /\ 0 \in S
    OBVIOUS
  <2>5. ASSUME NEW n \in S PROVE n + 1 \in S
    <3>1. n \in Nat /\ n + 1 \in Nat
      OBVIOUS
    <3>2. ASSUME n + 1 \in 1 .. m PROVE h[n + 1] = g[n + 1]
      <4>1. CASE n = 0
        <5>1. n + 1 = 1 /\ 1 \in 1 .. m
          BY <3>2, <4>1
        <5> QED BY <1>2, <1>4, <2>2, <5>1
      <4>2. CASE n # 0
        <5>1. /\ n \in 1 .. m /\ n + 1 \in 2 .. m /\ n + 1 \in 2 .. m + 1
              /\ (n + 1) - 1 = n
          BY <3>1, <3>2, <4>2, <1>1
        <5>2. h[n] = g[n]
          BY <5>1
        <5>3. h[n + 1] = h[(n + 1) - 1] \o tt[n + 1]
          BY <1>5, <5>1
        <5>4. g[n + 1] = g[(n + 1) - 1] \o ss[n + 1]
          BY <2>3, <5>1
        <5>5. tt[n + 1] = ss[n + 1]
          BY <1>2, <3>2
        <5> QED BY <5>1, <5>2, <5>3, <5>4, <5>5, Zenon
      <4> QED BY <4>1, <4>2
    <3> QED BY <3>1, <3>2
  <2> HIDE DEF S
  <2>6. S = Nat
    BY <2>4, <2>5, AllNat
  <2>7. m \in S /\ m \in 1 .. m /\ m + 1 \in 2 .. m + 1 /\ (m + 1) - 1 = m
    BY <1>1, <1>7, <2>6
  <2>8. h[m] = g[m]
    BY <2>7 DEF S
  <2>9. h[m + 1] = h[(m + 1) - 1] \o tt[m + 1]
    BY <1>5, <2>7
  <2>10. FlattenSeq(tt) = FlattenSeq(ss) \o x
    BY <1>2, <1>5, <2>3, <2>7, <2>8, <2>9, Zenon
  <2> QED BY <2>3, <2>7, <2>10 DEF tt
<1> QED BY <1>6, <1>7

(* What is flattened here: one piece for each place. *)
LEMMA PiecesSnoc ==
  ASSUME NEW T, NEW m \in Nat,
         NEW f \in [1 .. m -> Seq(T)], NEW g \in [1 .. m + 1 -> Seq(T)],
         \A n \in 1 .. m : g[n] = f[n]
  PROVE  FlattenSeq(g) = FlattenSeq(f) \o g[m + 1] /\ FlattenSeq(f) \in Seq(T)
<1> DEFINE x == g[m + 1]
<1>1. m + 1 \in Nat /\ m + 1 \in 1 .. m + 1 /\ \A n \in 1 .. m : n \in 1 .. m + 1
  OBVIOUS
<1>2. x \in Seq(T) /\ \A n \in 1 .. m : f[n] \in Seq(T)
  BY <1>1
<1> HIDE DEF x
<1>4. f \in Seq(Seq(T)) /\ g \in Seq(Seq(T)) /\ Len(f) = m /\ Len(g) = m + 1
  BY <1>1
<1> DEFINE u == Append(f, x)
<1>5. /\ u \in Seq(Seq(T)) /\ Len(u) = m + 1
      /\ \A n \in 1 .. m : u[n] = f[n]
      /\ u[m + 1] = x
  BY <1>2, <1>4, AppendProperties
<1> HIDE DEF u
<1>6. \A n \in 1 .. m + 1 : n \in 1 .. m \/ n = m + 1
  OBVIOUS
<1>7. \A n \in 1 .. m + 1 : u[n] = g[n]
  BY <1>5, <1>6 DEF x
<1>8. Len(u) = Len(g) /\ \A n \in 1 .. Len(u) : u[n] = g[n]
  BY <1>4, <1>5, <1>7
<1>9. u = g
  BY <1>4, <1>5, <1>8, SeqEqual
<1>10. FlattenSeq(u) = FlattenSeq(f) \o x /\ FlattenSeq(f) \in Seq(T)
  BY <1>2, <1>4, FlattenSnoc DEF u
<1> QED BY <1>9, <1>10 DEF x

LEMMA ByteFacts ==
  /\ LF \in Bytes /\ CR \in Bytes /\ Foreign \in Bytes /\ Foreign # LF /\ Foreign # CR
  /\ \A t \in Texts : t \in Seq(Bytes) /\ \A n \in 1 .. Len(t) : t[n] # Foreign
<1>1. LF \in Bytes /\ CR \in Bytes /\ Foreign \in Bytes /\ Foreign # LF /\ Foreign # CR
  BY SerialAssumption DEF Bytes
<1>2. ASSUME NEW t \in Texts PROVE t \in Seq(Bytes) /\ \A n \in 1 .. Len(t) : t[n] # Foreign
  <2>1. t \in Seq(ToSet(t)) /\ Foreign \notin ToSet(t)
    BY SerialAssumption
  <2>2. Len(t) \in Nat /\ t \in [1 .. Len(t) -> ToSet(t)]
    BY <2>1, LenProperties
  <2>3. ToSet(t) \subseteq Bytes
    BY DEF Bytes
  <2>4. t \in [1 .. Len(t) -> Bytes]
    BY <2>2, <2>3
  <2>5. t \in Seq(Bytes)
    BY <2>2, <2>4, SeqDef
  <2> QED BY <2>1, <2>2, <2>5
<1> QED BY <1>1, <1>2

(* One more byte on its way. *)
LEMMA FromSnoc ==
  ASSUME NEW u \in Seq(Bytes), NEW b \in Bytes
  PROVE  /\ FromConsole(u \o <<b>>) = FromConsole(u) \o (IF b = Foreign THEN <<>> ELSE <<b>>)
         /\ FromConsole(u) \in Seq(Bytes)
<1> DEFINE Own(c) == IF c = Foreign THEN <<>> ELSE <<c>>
           v == u \o <<b>>
           f == [n \in 1 .. Len(u) |-> Own(u[n])]
           g == [n \in 1 .. Len(v) |-> Own(v[n])]
<1>1. PICK m \in Nat : m = Len(u)
  BY LenProperties
<1>2. /\ v \in Seq(Bytes) /\ Len(v) = m + 1
      /\ \A n \in 1 .. m : v[n] = u[n]
      /\ v[m + 1] = b
  <2>1. <<b>> \in Seq(Bytes) /\ Len(<<b>>) = 1 /\ <<b>>[1] = b
    OBVIOUS
  <2>2. /\ v \in Seq(Bytes) /\ Len(v) = Len(u) + Len(<<b>>)
        /\ \A n \in 1 .. Len(u) + Len(<<b>>) : v[n] =
             IF n <= Len(u) THEN u[n] ELSE <<b>>[n - Len(u)]
    BY <2>1, ConcatProperties
  <2> HIDE DEF v
  <2>3. \A n \in 1 .. m + 1 : v[n] = IF n <= m THEN u[n] ELSE <<b>>[n - m]
    BY <1>1, <2>1, <2>2
  <2>4. /\ \A n \in 1 .. m : n \in 1 .. m + 1 /\ n <= m
        /\ m + 1 \in 1 .. m + 1 /\ ~(m + 1 <= m) /\ (m + 1) - m = 1
    OBVIOUS
  <2> QED BY <1>1, <2>1, <2>2, <2>3, <2>4
<1>3. /\ FromConsole(u) = FlattenSeq(f) /\ FromConsole(v) = FlattenSeq(g)
  BY DEF FromConsole
<1>4. \A c \in Bytes : Own(c) \in Seq(Bytes)
  BY EmptySeq
<1>5. /\ f = [n \in 1 .. m |-> Own(u[n])] /\ g = [n \in 1 .. m + 1 |-> Own(v[n])]
      /\ \A n \in 1 .. m : f[n] = Own(u[n])
      /\ \A n \in 1 .. m + 1 : g[n] = Own(v[n])
  BY <1>1, <1>2
<1>6. /\ \A n \in 1 .. m : n \in 1 .. m + 1
      /\ m + 1 \in 1 .. m + 1
      /\ \A n \in 1 .. m + 1 : v[n] \in Bytes
  BY <1>2, ElementOfSeq
<1> HIDE DEF f, g, v, Own
<1>7. /\ \A n \in 1 .. m : g[n] = f[n]
      /\ f \in [1 .. m -> Seq(Bytes)] /\ g \in [1 .. m + 1 -> Seq(Bytes)]
  <2>1. /\ \A n \in 1 .. m : g[n] = f[n] /\ Own(u[n]) = Own(v[n])
        /\ \A n \in 1 .. m + 1 : Own(v[n]) \in Seq(Bytes)
    BY <1>2, <1>4, <1>5, <1>6
  <2>2. \A n \in 1 .. m : Own(u[n]) \in Seq(Bytes)
    BY <1>6, <2>1
  <2> QED BY <1>5, <2>1, <2>2
<1>8. FlattenSeq(g) = FlattenSeq(f) \o g[m + 1] /\ FlattenSeq(f) \in Seq(Bytes)
  BY <1>7, PiecesSnoc
<1>9. g[m + 1] = Own(b)
  BY <1>2, <1>5, <1>6
<1> QED BY <1>3, <1>8, <1>9 DEF Own, v

LEMMA FromEmpty == FromConsole(<<>>) = <<>>
<1>1. FromConsole(<<>>) = FlattenSeq([n \in 1 .. 0 |-> <<>>])
  BY DEF FromConsole
<1>2. [n \in 1 .. 0 |-> <<>>] = <<>>
  OBVIOUS
<1> QED BY <1>1, <1>2 DEF FlattenSeq

(* Parts of a sequence in their order. *)
LEMMA SubSelf ==
  ASSUME NEW t \in Seq(Bytes)
  PROVE  Subsequence(t, t)
<1>1. DOMAIN t = 1 .. Len(t) /\ Len(t) \in Nat
  BY LenProperties
<1> DEFINE place == [n \in DOMAIN t |-> n]
<1>2. place \in [DOMAIN t -> DOMAIN t] /\ \A n \in DOMAIN t : place[n] = n
  OBVIOUS
<1> HIDE DEF place
<1>3. \A m, n \in DOMAIN t : t[m] = t[place[m]] /\ (m < n => place[m] < place[n])
  BY <1>2
<1> QED BY <1>2, <1>3 DEF Subsequence

LEMMA SubFront ==
  ASSUME NEW t \in Seq(Bytes), NEW x \in Seq(Bytes), NEW u, Subsequence(t \o x, u)
  PROVE  Subsequence(t, u)
<1> DEFINE v == t \o x
<1>1. /\ DOMAIN t = 1 .. Len(t) /\ DOMAIN v = 1 .. Len(v)
      /\ \A n \in 1 .. Len(t) : n \in 1 .. Len(v) /\ v[n] = t[n]
  <2>1. /\ v \in Seq(Bytes) /\ Len(v) = Len(t) + Len(x)
        /\ \A n \in 1 .. Len(t) + Len(x) : v[n] = IF n <= Len(t) THEN t[n] ELSE x[n - Len(t)]
    BY ConcatProperties
  <2> HIDE DEF v
  <2>2. Len(t) \in Nat /\ Len(x) \in Nat /\ DOMAIN v = 1 .. Len(v) /\ DOMAIN t = 1 .. Len(t)
    BY <2>1, LenProperties
  <2> QED BY <2>1, <2>2
<1>2. PICK place \in [DOMAIN v -> DOMAIN u] :
        \A m, n \in DOMAIN v : v[m] = u[place[m]] /\ (m < n => place[m] < place[n])
  BY DEF Subsequence
<1> HIDE DEF v
<1> DEFINE front == [n \in DOMAIN t |-> place[n]]
<1>3. front \in [DOMAIN t -> DOMAIN u] /\ \A n \in DOMAIN t : front[n] = place[n]
  BY <1>1, <1>2
<1> HIDE DEF front
<1>4. \A m, n \in DOMAIN t : t[m] = u[front[m]] /\ (m < n => front[m] < front[n])
  BY <1>1, <1>2, <1>3
<1> QED BY <1>3, <1>4 DEF Subsequence

LEMMA SubSnoc ==
  ASSUME NEW t \in Seq(Bytes), NEW u \in Seq(Bytes), NEW b \in Bytes, Subsequence(t, u)
  PROVE  Subsequence(t \o <<b>>, u \o <<b>>)
<1>1. ASSUME NEW w \in Seq(Bytes), NEW k \in Nat, k = Len(w)
      PROVE  /\ DOMAIN (w \o <<b>>) = 1 .. k + 1
             /\ \A n \in 1 .. k : (w \o <<b>>)[n] = w[n]
             /\ (w \o <<b>>)[k + 1] = b
             /\ DOMAIN w = 1 .. k
  <2> DEFINE v == w \o <<b>>
  <2>1. <<b>> \in Seq(Bytes) /\ Len(<<b>>) = 1 /\ <<b>>[1] = b
    OBVIOUS
  <2>2. /\ v \in Seq(Bytes) /\ Len(v) = Len(w) + Len(<<b>>)
        /\ \A n \in 1 .. Len(w) + Len(<<b>>) : v[n] =
             IF n <= Len(w) THEN w[n] ELSE <<b>>[n - Len(w)]
    BY <2>1, ConcatProperties
  <2> HIDE DEF v
  <2>3. \A n \in 1 .. k + 1 : v[n] = IF n <= k THEN w[n] ELSE <<b>>[n - k]
    BY <1>1, <2>1, <2>2
  <2>4. /\ \A n \in 1 .. k : n \in 1 .. k + 1 /\ n <= k
        /\ k + 1 \in 1 .. k + 1 /\ ~(k + 1 <= k) /\ (k + 1) - k = 1
    BY <1>1
  <2>5. DOMAIN v = 1 .. Len(v) /\ Len(v) = k + 1 /\ DOMAIN w = 1 .. Len(w)
    BY <1>1, <2>1, <2>2, LenProperties
  <2>6. DOMAIN v = 1 .. k + 1 /\ DOMAIN w = 1 .. k
    BY <1>1, <2>5
  <2> QED BY <2>1, <2>3, <2>4, <2>6 DEF v
<1>2. PICK a \in Nat, c \in Nat : a = Len(t) /\ c = Len(u)
  BY LenProperties
<1> DEFINE tb == t \o <<b>>
           ub == u \o <<b>>
<1>3. /\ DOMAIN tb = 1 .. a + 1 /\ tb[a + 1] = b /\ DOMAIN t = 1 .. a
      /\ \A n \in 1 .. a : tb[n] = t[n]
  BY <1>1, <1>2
<1>4. /\ DOMAIN ub = 1 .. c + 1 /\ ub[c + 1] = b /\ DOMAIN u = 1 .. c
      /\ \A n \in 1 .. c : ub[n] = u[n]
  BY <1>1, <1>2
<1> HIDE DEF tb, ub
<1>5. PICK place \in [1 .. a -> 1 .. c] :
        \A m, n \in 1 .. a : t[m] = u[place[m]] /\ (m < n => place[m] < place[n])
  BY <1>3, <1>4 DEF Subsequence
<1> DEFINE longer == [n \in 1 .. a + 1 |-> IF n <= a THEN place[n] ELSE c + 1]
<1>6. \A n \in 1 .. a + 1 : (n \in 1 .. a /\ n <= a) \/ (n = a + 1 /\ ~(n <= a))
  BY <1>2
<1>7. /\ \A n \in 1 .. a : longer[n] = place[n] /\ place[n] \in 1 .. c /\ n \in 1 .. a + 1
      /\ longer[a + 1] = c + 1
  <2>1. /\ \A n \in 1 .. a : n \in 1 .. a + 1 /\ n <= a
        /\ a + 1 \in 1 .. a + 1 /\ ~(a + 1 <= a)
    BY <1>2
  <2>2. \A n \in 1 .. a + 1 : longer[n] = IF n <= a THEN place[n] ELSE c + 1
    OBVIOUS
  <2>3. \A n \in 1 .. a : place[n] \in 1 .. c
    BY <1>5
  <2> HIDE DEF longer
  <2> QED BY <2>1, <2>2, <2>3
<1>8. longer \in [1 .. a + 1 -> 1 .. c + 1]
  BY <1>2, <1>5, <1>6, <1>7
<1> HIDE DEF longer
<1>9. ASSUME NEW m \in 1 .. a + 1, NEW n \in 1 .. a + 1
      PROVE  tb[m] = ub[longer[m]] /\ (m < n => longer[m] < longer[n])
  <2>1. CASE m \in 1 .. a
    <3>1. tb[m] = t[m] /\ t[m] = u[place[m]] /\ longer[m] = place[m] /\ place[m] \in 1 .. c
      BY <1>3, <1>5, <1>7, <2>1
    <3>2. tb[m] = ub[longer[m]]
      BY <1>4, <3>1
    <3>3. n \in 1 .. a => (m < n => longer[m] < longer[n])
      BY <1>5, <1>7, <2>1
    <3>4. n = a + 1 => longer[m] < longer[n]
      BY <1>2, <1>7, <3>1
    <3> QED BY <1>6, <3>2, <3>3, <3>4
  <2>2. CASE m = a + 1
    <3>1. tb[m] = b /\ longer[m] = c + 1 /\ ub[c + 1] = b
      BY <1>3, <1>4, <1>7, <2>2
    <3>2. ~(m < n)
      BY <1>2, <2>2
    <3> QED BY <3>1, <3>2
  <2> QED BY <1>6, <2>1, <2>2
<1>10. Subsequence(tb, ub)
  BY <1>3, <1>4, <1>8, <1>9 DEF Subsequence
<1> QED BY <1>10 DEF tb, ub

(* One more byte at the end. *)
LEMMA ByteSnoc ==
  ASSUME NEW u \in Seq(Bytes), NEW b \in Bytes
  PROVE  /\ u \o <<b>> \in Seq(Bytes) /\ Len(u) \in Nat /\ Len(u \o <<b>>) = Len(u) + 1
         /\ \A n \in 1 .. Len(u) : (u \o <<b>>)[n] = u[n]
         /\ (u \o <<b>>)[Len(u) + 1] = b
<1> DEFINE v == u \o <<b>>
<1>1. <<b>> \in Seq(Bytes) /\ Len(<<b>>) = 1 /\ <<b>>[1] = b
  OBVIOUS
<1>2. /\ v \in Seq(Bytes) /\ Len(v) = Len(u) + Len(<<b>>) /\ Len(u) \in Nat
      /\ \A n \in 1 .. Len(u) + Len(<<b>>) : v[n] =
           IF n <= Len(u) THEN u[n] ELSE <<b>>[n - Len(u)]
  BY <1>1, ConcatProperties, LenProperties
<1> HIDE DEF v
<1>3. PICK m \in Nat : m = Len(u)
  BY <1>2
<1>4. \A n \in 1 .. m + 1 : v[n] = IF n <= m THEN u[n] ELSE <<b>>[n - m]
  BY <1>1, <1>2, <1>3
<1>5. /\ \A n \in 1 .. m : n \in 1 .. m + 1 /\ n <= m
      /\ m + 1 \in 1 .. m + 1 /\ ~(m + 1 <= m) /\ (m + 1) - m = 1
  BY <1>3
<1>6. v[m + 1] = b /\ \A n \in 1 .. m : v[n] = u[n]
  BY <1>1, <1>4, <1>5
<1> QED BY <1>1, <1>2, <1>3, <1>6 DEF v

(* How the driver's bytes stay apart from the console's. *)
LEMMA ApartSnoc ==
  ASSUME NEW u \in Seq(Bytes), NEW b \in Bytes
  PROVE  /\ DriverOnly(u) => DriverFirst(u)
         /\ DriverFirst(u) => Unbroken(u)
         /\ b = Foreign /\ DriverOnly(u) => DriverOnly(u \o <<b>>)
         /\ b = Foreign /\ Unbroken(u) => Unbroken(u \o <<b>>)
         /\ b # Foreign /\ DriverFirst(u) => DriverFirst(u \o <<b>>)
         /\ DriverFirst(u \o <<b>>) => DriverFirst(u)
<1> DEFINE v == u \o <<b>>
<1>1. PICK a \in Nat : a = Len(u)
  BY ByteSnoc
<1>2. /\ Len(v) = a + 1 /\ \A n \in 1 .. a : v[n] = u[n]
      /\ v[a + 1] = b
  BY <1>1, ByteSnoc
<1>3. \A n \in 1 .. a + 1 : n \in 1 .. a \/ n = a + 1
  BY <1>1
<1>4. /\ \A n \in 1 .. a : n \in 1 .. a + 1 /\ n < a + 1 /\ ~(a + 1 < n)
      /\ ~(a + 1 < a + 1)
  BY <1>1
<1> HIDE DEF v
<1>5. DriverOnly(u) => DriverFirst(u)
  BY DEF DriverOnly, DriverFirst
<1>6. DriverFirst(u) => Unbroken(u)
  BY DEF DriverFirst, Unbroken
<1>7. b = Foreign /\ DriverOnly(u) => DriverOnly(v)
  BY <1>1, <1>2, <1>3 DEF DriverOnly
<1>8. ASSUME b = Foreign, Unbroken(u) PROVE Unbroken(v)
  <2>1. ASSUME NEW l \in 1 .. a + 1, NEW m \in 1 .. a + 1, NEW n \in 1 .. a + 1,
               l < m, m < n, v[l] # Foreign, v[n] # Foreign
        PROVE  v[m] # Foreign
    <3>1. l \in 1 .. a /\ n \in 1 .. a
      BY <1>2, <1>3, <1>8, <2>1
    <3>2. m \in 1 .. a
      BY <1>3, <1>4, <2>1, <3>1
    <3> QED BY <1>1, <1>2, <1>8, <2>1, <3>1, <3>2 DEF Unbroken
  <2> QED BY <1>2, <2>1 DEF Unbroken
<1>9. ASSUME b # Foreign, DriverFirst(u) PROVE DriverFirst(v)
  <2>1. ASSUME NEW l \in 1 .. a + 1, NEW m \in 1 .. a + 1, l < m, v[l] # Foreign
        PROVE  v[m] # Foreign
    <3>1. CASE m = a + 1
      BY <1>2, <1>9, <3>1
    <3>2. CASE m \in 1 .. a
      <4>1. l \in 1 .. a
        BY <1>3, <1>4, <2>1, <3>2
      <4> QED BY <1>1, <1>2, <1>9, <2>1, <3>2, <4>1 DEF DriverFirst
    <3> QED BY <1>3, <3>1, <3>2
  <2> QED BY <1>2, <2>1 DEF DriverFirst
<1>10. DriverFirst(v) => DriverFirst(u)
  BY <1>1, <1>2, <1>4 DEF DriverFirst
<1> QED BY <1>5, <1>6, <1>7, <1>8, <1>9, <1>10 DEF v

(* The first k bytes of a text, with their carriage returns. *)
Done(t, k) == FlattenSeq([n \in 1 .. k |-> IF t[n] = LF THEN <<LF, CR>> ELSE <<t[n]>>])

LEMMA DoneNext ==
  ASSUME NEW t \in Seq(Bytes), NEW k \in Nat, k <= Len(t)
  PROVE  /\ Done(t, k) \in Seq(Bytes)
         /\ k < Len(t) =>
              Done(t, k + 1) = Done(t, k) \o (IF t[k + 1] = LF THEN <<LF, CR>> ELSE <<t[k + 1]>>)
<1> DEFINE Sends(c) == IF c = LF THEN <<LF, CR>> ELSE <<c>>
           f == [n \in 1 .. k |-> Sends(t[n])]
<1>1. \A c \in Bytes : Sends(c) \in Seq(Bytes)
  BY ByteFacts
<1>2. Len(t) \in Nat /\ \A n \in 1 .. Len(t) : t[n] \in Bytes
  BY LenProperties, ElementOfSeq
<1>3. /\ \A n \in 1 .. k : n \in 1 .. Len(t) /\ n \in 1 .. k + 1 /\ n # k + 1
      /\ \A n \in 1 .. k + 1 : n \in 1 .. k \/ n = k + 1
      /\ k + 1 \in 1 .. k + 1
      /\ k < Len(t) => k + 1 \in 1 .. Len(t)
  BY <1>2
<1>4. Done(t, k) = FlattenSeq(f) /\ Done(t, k + 1) = FlattenSeq([n \in 1 .. k + 1 |-> Sends(t[n])])
  BY DEF Done
<1> HIDE DEF Sends
<1>5. f \in [1 .. k -> Seq(Bytes)] /\ \A n \in 1 .. k : f[n] = Sends(t[n])
  BY <1>1, <1>2, <1>3
<1> HIDE DEF f
<1>6. Done(t, k) \in Seq(Bytes)
  <2> DEFINE g == [n \in 1 .. k + 1 |-> IF n = k + 1 THEN <<LF>> ELSE f[n]]
  <2>1. <<LF>> \in Seq(Bytes) /\ \A n \in 1 .. k : f[n] \in Seq(Bytes)
    BY <1>5, ByteFacts
  <2>2. g \in [1 .. k + 1 -> Seq(Bytes)] /\ \A n \in 1 .. k : g[n] = f[n]
    BY <1>3, <2>1
  <2> HIDE DEF g
  <2> QED BY <1>4, <1>5, <2>2, PiecesSnoc
<1>7. ASSUME k < Len(t) PROVE Done(t, k + 1) = Done(t, k) \o Sends(t[k + 1])
  <2> DEFINE g == [n \in 1 .. k + 1 |-> Sends(t[n])]
  <2>1. \A n \in 1 .. k + 1 : t[n] \in Bytes
    BY <1>2, <1>3, <1>7
  <2>2. \A n \in 1 .. k + 1 : Sends(t[n]) \in Seq(Bytes)
    BY <1>1, <2>1
  <2>3. /\ g \in [1 .. k + 1 -> Seq(Bytes)] /\ \A n \in 1 .. k : g[n] = f[n]
        /\ g[k + 1] = Sends(t[k + 1])
    BY <1>3, <1>5, <2>2
  <2>4. Done(t, k + 1) = FlattenSeq(g)
    BY <1>4
  <2> HIDE DEF g
  <2>5. FlattenSeq(g) = FlattenSeq(f) \o g[k + 1]
    BY <1>5, <2>3, PiecesSnoc
  <2> QED BY <1>4, <2>3, <2>4, <2>5, Zenon
<1> QED BY <1>6, <1>7 DEF Sends

LEMMA WrittenIs ==
  ASSUME ConsoleTypes
  PROVE  Written \in Seq(Bytes) /\ Written = Done(s, i) \o (IF feed THEN <<LF>> ELSE <<>>)
<1>1. s \in Seq(Bytes) /\ i \in Nat /\ i <= Len(s) /\ feed \in BOOLEAN
  <2>1. Len(s) \in Nat
    BY LenProperties DEF ConsoleTypes
  <2> QED BY <2>1 DEF ConsoleTypes
<1>2. Done(s, i) \in Seq(Bytes)
  BY <1>1, DoneNext
<1>3. (IF feed THEN <<LF>> ELSE <<>>) \in Seq(Bytes)
  BY ByteFacts, EmptySeq
<1>4. Written = Done(s, i) \o (IF feed THEN <<LF>> ELSE <<>>)
  BY DEF Written, Done
<1> QED BY <1>2, <1>3, <1>4, ConcatProperties

(* What is on its way does not change when a byte goes on by a register. *)
LEMMA FlowIs ==
  ASSUME ConsoleTypes
  PROVE  /\ line \o shift \in Seq(Bytes) /\ Flow \in Seq(Bytes)
         /\ line \in Seq(Bytes) /\ holding \in Seq(Bytes)
         /\ Flow = (line \o shift) \o holding
         /\ holding = <<>> => Flow = line \o shift
<1>1. \A x \in AtMostOne : x \in Seq(Bytes)
  <2>1. \A b \in Bytes : <<b>> \in Seq(Bytes)
    OBVIOUS
  <2>2. <<>> \in Seq(Bytes)
    BY EmptySeq
  <2> QED BY <2>1, <2>2 DEF AtMostOne
<1>2. line \in Seq(Bytes) /\ shift \in Seq(Bytes) /\ holding \in Seq(Bytes)
  BY <1>1 DEF ConsoleTypes
<1>3. line \o shift \in Seq(Bytes)
  BY <1>2, ConcatProperties
<1>4. (line \o shift) \o holding \in Seq(Bytes)
  BY <1>2, <1>3, ConcatProperties
<1>5. (line \o shift) \o <<>> = line \o shift
  BY <1>3, ConcatEmptySeq
<1>6. Flow = (line \o shift) \o holding
  BY DEF Flow
<1> QED BY <1>2, <1>3, <1>4, <1>5, <1>6

(* Each step, from the first state on. *)
LEMMA InitConsole == SerialInit => ConsoleInv
<1> SUFFICES ASSUME SerialInit PROVE ConsoleInv
  OBVIOUS
<1>1. ConsoleTypes
  <2>1. s \in Seq(Bytes) /\ \A k \in 1 .. Len(s) : s[k] # Foreign
    BY ByteFacts DEF SerialInit
  <2>2. 0 \in 0 .. Len(s)
    BY <2>1, LenProperties
  <2> QED BY <2>1, <2>2, EmptySeq DEF SerialInit, ConsoleTypes, AtMostOne
<1>2. Flow = <<>> /\ Len(<<>>) = 0
  <2>1. <<>> \o <<>> = <<>>
    BY EmptySeq, ConcatEmptySeq
  <2> QED BY <2>1, EmptySeq DEF SerialInit, Flow
<1>3. Together /\ Apart
  <2>1. \A m \in 1 .. 0 : FALSE
    OBVIOUS
  <2> QED BY <1>2, <2>1 DEF SerialInit, Together, Apart, DriverOnly, DriverFirst, Unbroken
<1>4. Written = <<>>
  <2>1. Done(s, 0) = FlattenSeq([n \in 1 .. 0 |-> <<>>])
    BY DEF Done
  <2>2. [n \in 1 .. 0 |-> <<>>] = <<>>
    OBVIOUS
  <2>3. Done(s, 0) = <<>>
    BY <2>1, <2>2 DEF FlattenSeq
  <2>4. Written = Done(s, 0) \o <<>>
    BY <1>1, WrittenIs DEF SerialInit
  <2> QED BY <2>3, <2>4, EmptySeq, ConcatEmptySeq
<1>5. Sent
  BY <1>2, <1>4, FromEmpty DEF SerialInit, Sent
<1> QED BY <1>1, <1>3, <1>5 DEF SerialInit, ConsoleInv, FeedDue, BreakKept

(* Steps that write nothing. *)
LEMMA FlowKept ==
  ASSUME ConsoleInv, ConsoleTypes', Flow' = Flow, UNCHANGED <<s, i, feed>>,
         forced => forced', stage = "done" => stage' = "done", ~forced' \/ forced' = TRUE
  PROVE  FeedDue' /\ Together' /\ Sent' /\ Written' = Written
<1>1. Written' = Written
  BY DEF Written
<1>2. FeedDue'
  BY DEF ConsoleInv, FeedDue
<1>3. Together'
  <2>1. DriverFirst(Flow') = DriverFirst(Flow) /\ Unbroken(Flow') = Unbroken(Flow)
    OBVIOUS
  <2>2. stage' # "done" => stage # "done"
    OBVIOUS
  <2> QED BY <2>1, <2>2 DEF ConsoleInv, Together
<1>4. Sent'
  <2>1. Written \in Seq(Bytes)
    BY WrittenIs DEF ConsoleInv
  <2>2. FromConsole(Flow') = FromConsole(Flow)
    OBVIOUS
  <2>3. Subsequence(Written, Written)
    BY <2>1, SubSelf
  <2>4. CASE forced
    <3>1. Subsequence(FromConsole(Flow), Written)
      BY <2>4 DEF ConsoleInv, Sent
    <3> QED BY <1>1, <2>2, <2>4, <3>1 DEF Sent
  <2>5. CASE ~forced
    <3>1. FromConsole(Flow) = Written
      BY <2>5 DEF ConsoleInv, Sent
    <3>2. Subsequence(FromConsole(Flow'), Written') /\ FromConsole(Flow') = Written'
      BY <1>1, <2>2, <2>3, <3>1
    <3> QED BY <3>2 DEF Sent
  <2> QED BY <2>4, <2>5
<1> QED BY <1>1, <1>2, <1>3, <1>4

LEMMA LoadConsole == ConsoleInv /\ Load => ConsoleInv'
<1> SUFFICES ASSUME ConsoleInv, Load PROVE ConsoleInv'
  OBVIOUS
<1>1. ConsoleTypes'
  BY DEF ConsoleInv, ConsoleTypes, Load, console, AtMostOne
<1>2. Flow' = Flow
  <2>1. /\ Flow = (line \o <<>>) \o holding
        /\ Flow' = (line \o holding) \o <<>>
    BY DEF Flow, Load
  <2>2. line \in Seq(Bytes) /\ line \o holding \in Seq(Bytes)
    <3>1. line \in Seq(Bytes) /\ holding \in Seq(Bytes)
      BY FlowIs DEF ConsoleInv
    <3> QED BY <3>1, ConcatProperties
  <2> QED BY <2>1, <2>2, ConcatEmptySeq
<1>3. FeedDue' /\ Together' /\ Sent'
  BY <1>1, <1>2, FlowKept DEF Load, console
<1>4. Apart'
  <2>1. DriverOnly(Flow') = DriverOnly(Flow)
    BY <1>2
  <2> QED BY <2>1 DEF ConsoleInv, Apart, Load, console, BothEmpty
<1> QED BY <1>1, <1>3, <1>4 DEF ConsoleInv, BreakKept, Load, console

LEMMA SendConsole == ConsoleInv /\ Send => ConsoleInv'
<1> SUFFICES ASSUME ConsoleInv, Send PROVE ConsoleInv'
  OBVIOUS
<1>1. line \o shift \in Seq(Bytes)
  BY FlowIs DEF ConsoleInv
<1>2. ConsoleTypes'
  BY <1>1 DEF ConsoleInv, ConsoleTypes, Send, console, AtMostOne
<1>3. Flow' = Flow
  <2>1. (line \o shift) \o <<>> = line \o shift
    BY <1>1, ConcatEmptySeq
  <2>2. Flow' = ((line \o shift) \o <<>>) \o holding
    BY DEF Flow, Send
  <2> QED BY <2>1, <2>2 DEF Flow
<1>4. FeedDue' /\ Together' /\ Sent'
  BY <1>2, <1>3, FlowKept DEF Send, console
<1>5. Apart'
  <2>1. DriverOnly(Flow') = DriverOnly(Flow)
    BY <1>3
  <2> QED BY <2>1 DEF ConsoleInv, Apart, Send, console, BothEmpty
<1> QED BY <1>2, <1>4, <1>5 DEF ConsoleInv, BreakKept, Send, console

(* The steps that do not move any byte. *)
LEMMA QuietConsole ==
  ConsoleInv /\ (ReceiveBreak \/ SaveIer \/ DisableInterrupts \/ Poll \/ RestoreIer
                   \/ UNCHANGED serialVars) => ConsoleInv'
<1> SUFFICES ASSUME ConsoleInv,
                    ReceiveBreak \/ SaveIer \/ DisableInterrupts \/ Poll \/ RestoreIer
                      \/ UNCHANGED serialVars
             PROVE  ConsoleInv'
  OBVIOUS
<1> USE DEF ReceiveBreak, SaveIer, DisableInterrupts, Poll, RestoreIer, serialVars, console, uart
<1>1. UNCHANGED <<s, i, feed, line, shift, holding>>
  OBVIOUS
<1>2. /\ forced' \in BOOLEAN
      /\ stage' \in {"save", "disable", "wait_for_xmitr", "out", "done"}
      /\ forced => forced'
      /\ stage = "done" => stage' = "done"
  BY DEF ConsoleInv, ConsoleTypes
<1>3. ConsoleTypes'
  BY <1>1, <1>2 DEF ConsoleInv, ConsoleTypes
<1>4. Flow' = Flow /\ BothEmpty' = BothEmpty
  BY <1>1 DEF Flow, BothEmpty
<1>5. FeedDue' /\ Together' /\ Sent'
  BY <1>1, <1>2, <1>3, <1>4, FlowKept
<1>6. Apart'
  <2>1. DriverOnly(Flow') = DriverOnly(Flow)
    BY <1>4
  <2>2. Apart
    BY DEF ConsoleInv
  <2>3. CASE ReceiveBreak \/ SaveIer \/ UNCHANGED serialVars
    BY <1>1, <1>4, <2>1, <2>2, <2>3 DEF Apart
  <2>4. CASE DisableInterrupts
    BY <1>1, <1>4, <2>4 DEF Apart
  <2>5. CASE Poll
    <3>1. IER' = 0 /\ stage' \in {"wait_for_xmitr", "out"}
      BY <2>2, <2>5 DEF Apart
    <3>2. stage' = "out" => forced' \/ BothEmpty
      BY <2>5
    <3> QED BY <1>4, <3>1, <3>2 DEF Apart
  <2>6. CASE RestoreIer
    BY <2>6 DEF Apart
  <2> QED BY <2>3, <2>4, <2>5, <2>6
<1>7. BreakKept'
  BY DEF ConsoleInv, BreakKept
<1> QED BY <1>3, <1>5, <1>6, <1>7 DEF ConsoleInv

LEMMA DriverConsole == ConsoleInv /\ DriverInterrupt => ConsoleInv'
<1> SUFFICES ASSUME ConsoleInv, DriverInterrupt PROVE ConsoleInv'
  OBVIOUS
<1>1. /\ holding = <<>> /\ holding' = <<Foreign>> /\ IER # 0
      /\ UNCHANGED <<s, i, feed, stage, line, shift, forced, ier, IER, broken, BI, lsr_break_flag>>
  BY DEF DriverInterrupt, console
<1>2. ConsoleTypes'
  <2>1. holding' \in AtMostOne
    BY <1>1, ByteFacts DEF AtMostOne
  <2> QED BY <1>1, <2>1 DEF ConsoleInv, ConsoleTypes
<1>3. Flow \in Seq(Bytes) /\ Flow' = Flow \o <<Foreign>>
  <2>1. Flow \in Seq(Bytes) /\ Flow = line \o shift
    BY <1>1, FlowIs DEF ConsoleInv
  <2>2. Flow' = (line \o shift) \o <<Foreign>>
    BY <1>1 DEF Flow
  <2> QED BY <2>1, <2>2
<1>4. Written' = Written
  BY <1>1 DEF Written
<1>5. Sent'
  <2>1. /\ FromConsole(Flow \o <<Foreign>>) = FromConsole(Flow) \o <<>>
        /\ FromConsole(Flow) \in Seq(Bytes)
    BY <1>3, FromSnoc, ByteFacts
  <2>2. FromConsole(Flow') = FromConsole(Flow)
    BY <1>3, <2>1, ConcatEmptySeq
  <2> QED BY <1>1, <1>4, <2>2 DEF ConsoleInv, Sent
<1>6. stage \in {"save", "disable", "done"}
  BY <1>1 DEF ConsoleInv, ConsoleTypes, Apart
<1>7. Apart' /\ Together'
  <2>1. /\ DriverOnly(Flow) => DriverOnly(Flow') /\ DriverFirst(Flow')
        /\ Unbroken(Flow) => Unbroken(Flow')
    <3>1. Foreign \in Bytes
      BY ByteFacts
    <3>2. Flow \o <<Foreign>> \in Seq(Bytes)
      BY <1>3, <3>1, ByteSnoc
    <3> QED BY <1>3, <3>1, <3>2, ApartSnoc
  <2> QED BY <1>1, <1>6, <2>1 DEF ConsoleInv, Apart, Together
<1> QED BY <1>1, <1>2, <1>5, <1>7 DEF ConsoleInv, FeedDue, BreakKept

(* A byte of the console is written. *)
LEMMA OutConsole ==
  ASSUME ConsoleInv, NEW b \in Bytes, b # Foreign, Out(b), ConsoleTypes', FeedDue',
         Written' = Written \o <<b>>
  PROVE  ConsoleInv'
<1>1. /\ stage = "out" /\ stage' = "wait_for_xmitr" /\ holding' = <<b>>
      /\ UNCHANGED <<line, shift, forced, ier, IER, broken, BI, lsr_break_flag>>
  BY DEF Out
<1> DEFINE base == line \o shift
<1>2. base \in Seq(Bytes) /\ Flow \in Seq(Bytes) /\ Flow = base \o holding /\ (holding = <<>> => Flow = base)
  BY FlowIs DEF ConsoleInv
<1>3. Flow' = base \o <<b>>
  BY <1>1 DEF Flow
<1> HIDE DEF base
<1>4. DriverFirst(Flow) /\ (forced \/ holding = <<>>) /\ IER = 0
  BY <1>1 DEF ConsoleInv, Together, Apart, BothEmpty
<1>5. holding # <<>> => \E c \in Bytes : holding = <<c>>
  BY DEF ConsoleInv, ConsoleTypes, AtMostOne
<1>6. DriverFirst(base)
  <2>1. CASE holding = <<>>
    BY <1>2, <1>4, <2>1
  <2>2. CASE holding # <<>>
    <3>1. PICK c \in Bytes : holding = <<c>>
      BY <1>5, <2>2
    <3> QED BY <1>2, <1>4, <3>1, ApartSnoc
  <2> QED BY <2>1, <2>2
<1>7. Together'
  <2>1. DriverFirst(base \o <<b>>)
    BY <1>2, <1>6, ApartSnoc
  <2>2. base \o <<b>> \in Seq(Bytes)
    BY <1>2, ByteSnoc
  <2>3. Unbroken(base \o <<b>>)
    BY <2>1, <2>2, ApartSnoc
  <2> QED BY <1>3, <2>1, <2>3 DEF Together
<1>8. /\ FromConsole(base \o <<b>>) = FromConsole(base) \o <<b>>
      /\ FromConsole(base) \in Seq(Bytes)
  BY <1>2, FromSnoc
<1>9. Written \in Seq(Bytes)
  BY WrittenIs DEF ConsoleInv
<1>10. Sent'
  <2>1. CASE forced
    <3>1. Subsequence(FromConsole(Flow), Written)
      BY <2>1 DEF ConsoleInv, Sent
    <3>2. Subsequence(FromConsole(base), Written)
      <4>1. CASE holding = <<>>
        BY <1>2, <3>1, <4>1
      <4>2. CASE holding # <<>>
        <5>1. PICK c \in Bytes : holding = <<c>>
          BY <1>5, <4>2
        <5> DEFINE x == IF c = Foreign THEN <<>> ELSE <<c>>
        <5>2. x \in Seq(Bytes)
          BY EmptySeq
        <5>3. FromConsole(Flow) = FromConsole(base) \o x
          BY <1>2, <5>1, FromSnoc
        <5> HIDE DEF x
        <5> QED BY <1>8, <3>1, <5>2, <5>3, SubFront
      <4> QED BY <4>1, <4>2
    <3>3. Subsequence(FromConsole(base) \o <<b>>, Written \o <<b>>)
      BY <1>8, <1>9, <3>2, SubSnoc
    <3> QED BY <1>1, <1>3, <1>8, <2>1, <3>3 DEF Sent
  <2>2. CASE ~forced
    <3>1. FromConsole(base) = Written
      BY <1>2, <1>4, <2>2 DEF ConsoleInv, Sent
    <3> QED BY <1>1, <1>3, <1>8, <2>2, <3>1 DEF Sent
  <2> QED BY <2>1, <2>2
<1>11. Apart'
  BY <1>1, <1>4 DEF Apart
<1> QED BY <1>1, <1>7, <1>10, <1>11 DEF ConsoleInv, BreakKept

LEMMA OutTypes ==
  ASSUME ConsoleInv, NEW b \in Bytes, Out(b), i' \in 0 .. Len(s), feed' \in BOOLEAN
  PROVE  ConsoleTypes'
<1>1. holding' \in AtMostOne /\ stage' \in {"wait_for_xmitr"} /\ UNCHANGED <<s, line, shift, forced>>
  BY DEF Out, AtMostOne
<1> QED BY <1>1 DEF ConsoleInv, ConsoleTypes

LEMMA CharConsole == ConsoleInv /\ OutChar => ConsoleInv'
<1> SUFFICES ASSUME ConsoleInv, OutChar PROVE ConsoleInv'
  OBVIOUS
<1> DEFINE b == s[i + 1]
<1>1. s \in Seq(Bytes) /\ i \in Nat /\ Len(s) \in Nat /\ i < Len(s) /\ ~feed
  <2>1. Len(s) \in Nat
    BY LenProperties DEF ConsoleInv, ConsoleTypes
  <2> QED BY <2>1 DEF ConsoleInv, ConsoleTypes, OutChar
<1>2. i + 1 \in 1 .. Len(s) /\ i + 1 \in 0 .. Len(s) /\ i \in 0 .. Len(s) /\ i <= Len(s)
  BY <1>1
<1>3. b \in Bytes /\ b # Foreign
  BY <1>1, <1>2, ElementOfSeq DEF ConsoleInv, ConsoleTypes
<1>4. Out(b) /\ s' = s /\ feed' = (b = LF) /\ i' = IF feed' THEN i ELSE i + 1
  BY DEF OutChar, Out
<1> HIDE DEF b
<1>5. feed' \in BOOLEAN /\ i' \in 0 .. Len(s)
  BY <1>2, <1>4
<1>6. ConsoleTypes'
  BY <1>3, <1>4, <1>5, OutTypes
<1>7. FeedDue'
  BY <1>1, <1>4 DEF FeedDue, b
<1>8. /\ Written = Done(s, i) \o <<>> /\ Done(s, i) \in Seq(Bytes)
      /\ Done(s, i + 1) = Done(s, i) \o (IF b = LF THEN <<LF, CR>> ELSE <<b>>)
  BY <1>1, <1>2, WrittenIs, DoneNext DEF ConsoleInv, b
<1>9. /\ Written' = Done(s, i') \o (IF feed' THEN <<LF>> ELSE <<>>)
  BY <1>4 DEF Written, Done
<1>10. Written' = Written \o <<b>>
  <2>1. Written = Done(s, i)
    BY <1>8, ConcatEmptySeq
  <2>2. CASE b = LF
    BY <1>4, <1>9, <2>1, <2>2
  <2>3. CASE b # LF
    <3>1. Written' = Done(s, i + 1) \o <<>>
      BY <1>4, <1>9, <2>3
    <3>2. Done(s, i + 1) = Done(s, i) \o <<b>>
      BY <1>8, <2>3
    <3>3. Done(s, i + 1) \in Seq(Bytes)
      BY <1>3, <1>8, <3>2, ByteSnoc
    <3> QED BY <2>1, <3>1, <3>2, <3>3, ConcatEmptySeq
  <2> QED BY <2>2, <2>3
<1> QED BY <1>3, <1>4, <1>6, <1>7, <1>10, OutConsole

LEMMA FeedConsole == ConsoleInv /\ OutFeed => ConsoleInv'
<1> SUFFICES ASSUME ConsoleInv, OutFeed PROVE ConsoleInv'
  OBVIOUS
<1>1. s \in Seq(Bytes) /\ i \in Nat /\ Len(s) \in Nat /\ i < Len(s) /\ feed /\ s[i + 1] = LF
  <2>1. Len(s) \in Nat
    BY LenProperties DEF ConsoleInv, ConsoleTypes
  <2> QED BY <2>1 DEF ConsoleInv, ConsoleTypes, FeedDue, OutFeed
<1>2. Out(CR) /\ s' = s /\ feed' = FALSE /\ i' = i + 1
  BY DEF OutFeed, Out
<1>3. CR \in Bytes /\ CR # Foreign /\ LF \in Bytes
  BY ByteFacts
<1>4. feed' \in BOOLEAN /\ i' \in 0 .. Len(s)
  <2>1. i + 1 \in 0 .. Len(s)
    BY <1>1
  <2> QED BY <1>2, <2>1, Zenon
<1>5. ConsoleTypes'
  BY <1>2, <1>3, <1>4, OutTypes
<1>6. FeedDue'
  BY <1>2 DEF FeedDue
<1>7. /\ Written = Done(s, i) \o <<LF>> /\ Done(s, i) \in Seq(Bytes)
      /\ Done(s, i + 1) = Done(s, i) \o <<LF, CR>>
  <2>1. i <= Len(s)
    BY <1>1
  <2>2. /\ Done(s, i) \in Seq(Bytes)
        /\ Done(s, i + 1) = Done(s, i) \o (IF s[i + 1] = LF THEN <<LF, CR>> ELSE <<s[i + 1]>>)
    BY <1>1, <2>1, DoneNext
  <2>3. Written = Done(s, i) \o (IF feed THEN <<LF>> ELSE <<>>)
    BY WrittenIs DEF ConsoleInv
  <2> QED BY <1>1, <2>2, <2>3
<1>8. Written' = Done(s, i + 1) \o <<>>
  BY <1>2 DEF Written, Done
<1>9. Written' = Written \o <<CR>>
  <2>1. /\ <<LF>> \in Seq(Bytes) /\ <<CR>> \in Seq(Bytes) /\ <<LF, CR>> \in Seq(Bytes)
        /\ <<LF>> \o <<CR>> = <<LF, CR>>
    <3>1. <<LF>> \in Seq(Bytes) /\ <<CR>> \in Seq(Bytes) /\ <<LF, CR>> \in Seq(Bytes)
      BY <1>3
    <3>2. <<LF>> \o <<CR>> = <<LF, CR>>
      <4> DEFINE v == <<LF>> \o <<CR>>
                 w == <<LF, CR>>
      <4>1. Len(<<LF>>) = 1 /\ <<LF>>[1] = LF /\ 1 + 1 = 2 /\ 1 \in 1 .. 1
        OBVIOUS
      <4>2. v \in Seq(Bytes) /\ Len(v) = 2 /\ v[1] = LF /\ v[2] = CR
        BY <1>3, <3>1, <4>1, ByteSnoc
      <4>3. w \in Seq(Bytes) /\ Len(w) = 2 /\ w[1] = LF /\ w[2] = CR
        BY <3>1
      <4> HIDE DEF v, w
      <4>4. \A n \in 1 .. 2 : n = 1 \/ n = 2
        OBVIOUS
      <4>5. Len(v) = Len(w) /\ \A n \in 1 .. Len(v) : v[n] = w[n]
        BY <4>2, <4>3, <4>4
      <4>6. v = w
        BY <4>2, <4>3, <4>5, SeqEqual
      <4> QED BY <4>6 DEF v, w
    <3> QED BY <3>1, <3>2
  <2>2. (Done(s, i) \o <<LF>>) \o <<CR>> = Done(s, i) \o (<<LF>> \o <<CR>>)
    BY <1>7, <2>1, ConcatAssociative
  <2>3. Done(s, i + 1) \in Seq(Bytes)
    BY <1>7, <2>1, ConcatProperties
  <2> QED BY <1>7, <1>8, <2>1, <2>2, <2>3, ConcatEmptySeq
<1> QED BY <1>2, <1>3, <1>5, <1>6, <1>9, OutConsole

(* The driver is in front, the console behind it, and nothing in between.  *)
LEMMA ConsoleInvHolds == SerialSpec => []ConsoleInv
<1>1. SerialInit => ConsoleInv
  BY InitConsole
<1>2. ConsoleInv /\ [SerialNext]_serialVars => ConsoleInv'
  BY LoadConsole, SendConsole, QuietConsole, DriverConsole, CharConsole, FeedConsole
     DEF SerialNext, SerialConsoleWrite
<1> QED BY <1>1, <1>2, PTL DEF SerialSpec

(* Whatever the text, the limit of polls and the pace of the UART: the     *)
(* bytes go out once and in order with their carriage returns, and apart   *)
(* from those of the driver; where a wait is given up a byte may be lost,  *)
(* none is sent twice.  A break that was received is remembered, and in    *)
(* the end the driver has its interrupts back.                             *)
THEOREM ConsoleIsExact == SerialSpec => []ConsoleExact
<1>1. ConsoleInv => ConsoleExact
  <2> SUFFICES ASSUME ConsoleInv PROVE ConsoleExact
    OBVIOUS
  <2>1. Flow \in Seq(Bytes)
    BY FlowIs DEF ConsoleInv
  <2>2. DOMAIN Flow = 1 .. Len(Flow)
    BY <2>1, LenProperties
  <2> QED BY <2>2 DEF ConsoleInv, ConsoleExact, Sent, Together, Unbroken, Apart, BreakKept
<1> QED BY <1>1, ConsoleInvHolds, PTL
(* What vsprintf writes: the format, the numbers and the text *)

(* A function that is defined step by step exists. *)
LEMMA Recursion ==
  ASSUME NEW S, NEW a \in S, NEW G \in [Nat -> [S -> S]], NEW N \in Nat
  PROVE  \E f \in [0 .. N -> S] : f[0] = a /\ \A n \in 1 .. N : f[n] = G[n][f[n - 1]]
<1> DEFINE Has(m) == \E f \in [0 .. m -> S] : f[0] = a /\ \A n \in 1 .. m : f[n] = G[n][f[n - 1]]
           Q == {m \in Nat : Has(m)}
<1>1. 0 \in Q
  <2>1. PICK f : f = [n \in 0 .. 0 |-> a]
    OBVIOUS
  <2>2. f \in [0 .. 0 -> S] /\ f[0] = a /\ \A n \in 1 .. 0 : f[n] = G[n][f[n - 1]]
    BY <2>1
  <2> QED BY <2>2
<1>2. ASSUME NEW m \in Q PROVE m + 1 \in Q
  <2>1. m \in Nat /\ m + 1 \in Nat
    OBVIOUS
  <2>2. PICK f \in [0 .. m -> S] : f[0] = a /\ \A n \in 1 .. m : f[n] = G[n][f[n - 1]]
    OBVIOUS
  <2> DEFINE g == [n \in 0 .. m + 1 |-> IF n <= m THEN f[n] ELSE G[m + 1][f[m]]]
  <2>3. /\ \A n \in 0 .. m + 1 : (n \in 0 .. m /\ n <= m) \/ (n = m + 1 /\ ~(n <= m))
        /\ \A n \in 1 .. m : n \in 0 .. m /\ n - 1 \in 0 .. m /\ n - 1 <= m /\ n <= m
        /\ (m + 1) - 1 = m /\ m \in 0 .. m /\ 0 \in 0 .. m /\ m <= m /\ 0 <= m /\ ~(m + 1 <= m)
        /\ \A n \in 0 .. m : n \in 0 .. m + 1 /\ n <= m
        /\ m + 1 \in 0 .. m + 1
        /\ \A n \in 1 .. m + 1 : n \in 1 .. m \/ n = m + 1
    BY <2>1
  <2>4. G[m + 1][f[m]] \in S
    BY <2>1, <2>2, <2>3
  <2>5. g \in [0 .. m + 1 -> S]
    BY <2>2, <2>3, <2>4
  <2>6. /\ \A n \in 0 .. m : g[n] = f[n]
        /\ g[m + 1] = G[m + 1][f[m]]
    BY <2>3
  <2> HIDE DEF g
  <2>7. g[0] = a /\ \A n \in 1 .. m : g[n] = G[n][g[n - 1]]
    BY <2>2, <2>3, <2>6
  <2>8. g[m + 1] = G[m + 1][g[(m + 1) - 1]]
    BY <2>3, <2>6
  <2>9. \A n \in 1 .. m + 1 : g[n] = G[n][g[n - 1]]
    BY <2>3, <2>7, <2>8
  <2> QED BY <2>1, <2>5, <2>7, <2>9
<1> HIDE DEF Q
<1>3. Q = Nat
  BY <1>1, <1>2, AllNat DEF Q
<1> QED BY <1>3 DEF Q

(* Powers *)
LEMMA Widths ==
  /\ IntBits \in Nat \ {0} /\ ShortBits \in Nat \ {0} /\ PointerDigits \in Nat \ {0}
  /\ ShortBits <= IntBits
BY VsprintfAssumption

LEMMA PowerAt ==
  ASSUME NEW b \in Nat \ {0}
  PROVE  /\ Power(b, 0) = 1
         /\ \A e \in 1 .. 2 * IntBits : Power(b, e) = b * Power(b, e - 1)
         /\ \A e \in 0 .. 2 * IntBits : Power(b, e) \in Nat \ {0}
<1>1. PICK N \in Nat : N = 2 * IntBits
  BY Widths
<1> DEFINE G == [n \in Nat |-> [v \in Nat \ {0} |-> b * v]]
<1>2. \A v \in Nat \ {0} : b * v \in Nat \ {0}
  OBVIOUS
<1>3. G \in [Nat -> [Nat \ {0} -> Nat \ {0}]] /\ 1 \in Nat \ {0}
  BY <1>2
<1>4. PICK f \in [0 .. N -> Nat \ {0}] :
        f[0] = 1 /\ \A n \in 1 .. N : f[n] = G[n][f[n - 1]]
  <2> DEFINE S == Nat \ {0}
             a == 1
  <2>1. a \in S /\ G \in [Nat -> [S -> S]]
    BY <1>3
  <2> HIDE DEF G, S, a
  <2>2. \E f \in [0 .. N -> S] : f[0] = a /\ \A n \in 1 .. N : f[n] = G[n][f[n - 1]]
    BY <2>1, Recursion
  <2> QED BY <2>2 DEF S, a
<1>5. \A n \in 1 .. N : f[n - 1] \in Nat \ {0} /\ n \in Nat /\ n # 0 /\ n \in 0 .. N
  BY <1>1
<1>6. \A n \in 1 .. N : f[n] = b * f[n - 1]
  BY <1>4, <1>5
<1>7. \A n \in 0 .. N : n = 0 \/ n \in 1 .. N
  BY <1>1
<1>8. f = [n \in 0 .. N |-> IF n = 0 THEN 1 ELSE b * f[n - 1]]
  BY <1>4, <1>5, <1>6, <1>7
<1> DEFINE h == CHOOSE P : P = [n \in 0 .. N |-> IF n = 0 THEN 1 ELSE b * P[n - 1]]
<1>9. h = [n \in 0 .. N |-> IF n = 0 THEN 1 ELSE b * h[n - 1]]
  BY <1>8
<1>10. \A e : Power(b, e) = h[e]
  BY <1>1 DEF Power
<1> HIDE DEF h
<1>11. h[0] = 1 /\ \A e \in 1 .. N : h[e] = b * h[e - 1]
  BY <1>1, <1>5, <1>7, <1>9
<1>12. \A e \in 0 .. N : h[e] \in Nat \ {0}
  <2> DEFINE Q == {n \in Nat : n <= N => h[n] \in Nat \ {0}}
  <2>1. 0 \in Q
    BY <1>11
  <2>2. ASSUME NEW n \in Q PROVE n + 1 \in Q
    <3>1. n \in Nat /\ n + 1 \in Nat /\ (n + 1) - 1 = n /\ (n + 1 <= N => n <= N /\ n + 1 \in 1 .. N)
      BY <1>1
    <3>2. ASSUME n + 1 <= N PROVE h[n + 1] \in Nat \ {0}
      <4>1. h[n] \in Nat \ {0} /\ h[n + 1] = b * h[n]
        BY <1>11, <3>1, <3>2
      <4> QED BY <1>2, <4>1
    <3> QED BY <3>1, <3>2
  <2> HIDE DEF Q
  <2>3. Q = Nat
    BY <2>1, <2>2, AllNat DEF Q
  <2>4. \A e \in 0 .. N : e \in Nat /\ e <= N
    BY <1>1
  <2> QED BY <2>3, <2>4 DEF Q
<1> QED BY <1>1, <1>10, <1>11, <1>12

LEMMA PowerGrows ==
  ASSUME NEW b \in Nat \ {0}, NEW e \in Nat, NEW d \in Nat, e + d <= 2 * IntBits
  PROVE  Power(b, e) <= Power(b, e + d)
<1> DEFINE Q == {n \in Nat : e + n <= 2 * IntBits => Power(b, e) <= Power(b, e + n)}
<1>1. PICK N \in Nat : N = 2 * IntBits
  BY Widths
<1>2. 0 \in Q
  <2>1. e + 0 = e /\ (e + 0 <= N => e \in 0 .. N)
    BY <1>1
  <2>2. e \in 0 .. N => Power(b, e) \in Nat
    BY <1>1, PowerAt
  <2> QED BY <1>1, <2>1, <2>2
<1>3. ASSUME NEW n \in Q PROVE n + 1 \in Q
  <2>1. SUFFICES ASSUME e + (n + 1) <= N PROVE Power(b, e) <= Power(b, e + (n + 1))
    BY <1>1
  <2>2. PICK m \in Nat : m = e + n
    OBVIOUS
  <2>3. /\ e + (n + 1) = m + 1 /\ m + 1 \in 1 .. N /\ m \in 0 .. N /\ (m + 1) - 1 = m /\ e \in 0 .. N
        /\ e + n <= N
    BY <1>1, <2>1, <2>2
  <2>4. Power(b, m + 1) = b * Power(b, m) /\ Power(b, m) \in Nat \ {0} /\ Power(b, e) \in Nat \ {0}
    BY <1>1, <2>3, PowerAt
  <2>5. Power(b, e) <= Power(b, m)
    BY <1>1, <2>2, <2>3
  <2>6. PICK x \in Nat, y \in Nat : x = Power(b, m) /\ y = b * x
    BY <2>4
  <2>7. x <= y
    BY <2>6
  <2>8. Power(b, e) <= y
    BY <2>4, <2>5, <2>6, <2>7
  <2> QED BY <2>3, <2>4, <2>6, <2>8
<1> HIDE DEF Q
<1>4. Q = Nat
  BY <1>2, <1>3, AllNat DEF Q
<1> QED BY <1>4 DEF Q

LEMMA PowerOfTwo ==
  ASSUME NEW b \in Nat, b >= 2, NEW e \in 0 .. 2 * IntBits
  PROVE  Power(2, e) <= Power(b, e)
<1> DEFINE Q == {n \in Nat : n <= 2 * IntBits => Power(2, n) <= Power(b, n)}
<1>1. PICK N \in Nat : N = 2 * IntBits
  BY Widths
<1>2. 2 \in Nat \ {0} /\ b \in Nat \ {0}
  OBVIOUS
<1>3. 0 \in Q
  BY <1>2, PowerAt
<1>4. ASSUME NEW n \in Q PROVE n + 1 \in Q
  <2>1. SUFFICES ASSUME n + 1 <= N PROVE Power(2, n + 1) <= Power(b, n + 1)
    BY <1>1
  <2>2. n \in Nat /\ n + 1 \in 1 .. N /\ n \in 0 .. N /\ (n + 1) - 1 = n /\ n <= N
    BY <1>1, <2>1
  <2>3. /\ Power(2, n + 1) = 2 * Power(2, n) /\ Power(b, n + 1) = b * Power(b, n)
        /\ Power(2, n) \in Nat /\ Power(b, n) \in Nat
    BY <1>1, <1>2, <2>2, PowerAt
  <2>4. Power(2, n) <= Power(b, n)
    BY <1>1, <2>2
  <2>5. PICK x \in Nat, y \in Nat, z \in Nat : x = Power(2, n) /\ y = Power(b, n) /\ z = b * y
    BY <2>3
  <2>6. 2 * y <= z
    BY <2>5
  <2>7. 2 * x <= z
    BY <2>4, <2>5, <2>6
  <2> QED BY <2>3, <2>5, <2>7
<1> HIDE DEF Q
<1>5. Q = Nat
  BY <1>3, <1>4, AllNat DEF Q
<1>6. e \in Nat /\ e <= 2 * IntBits
  BY <1>1
<1> QED BY <1>5, <1>6 DEF Q

(* The widths of the types. *)
LEMMA TypeSizes ==
  /\ \E h \in Nat \ {0} : IntMax = 2 * h
  /\ \E h \in Nat \ {0} : ShortMax = 2 * h
  /\ \E h \in Nat \ {0} : LongLongMax = 2 * h /\ IntMax <= h /\ ShortMax <= h
<1>1. PICK w \in Nat \ {0}, v \in Nat \ {0} : w = IntBits /\ v = ShortBits /\ v <= w
  BY Widths
<1>2. /\ w - 1 \in Nat /\ v - 1 \in Nat /\ 2 * w - 1 \in Nat
      /\ w \in 1 .. 2 * w /\ v \in 1 .. 2 * w /\ 2 * w \in 1 .. 2 * w
      /\ w - 1 \in 0 .. 2 * w /\ v - 1 \in 0 .. 2 * w /\ 2 * w - 1 \in 0 .. 2 * w
  BY <1>1
<1>3. \A e \in 1 .. 2 * w : Power(2, e) = 2 * Power(2, e - 1)
  BY <1>1, PowerAt
<1>4. \A e \in 0 .. 2 * w : Power(2, e) \in Nat \ {0}
  BY <1>1, PowerAt
<1>5. IntMax = 2 * Power(2, w - 1) /\ Power(2, w - 1) \in Nat \ {0}
  BY <1>1, <1>2, <1>3, <1>4 DEF IntMax
<1>6. ShortMax = 2 * Power(2, v - 1) /\ Power(2, v - 1) \in Nat \ {0}
  BY <1>1, <1>2, <1>3, <1>4 DEF ShortMax
<1>7. LongLongMax = 2 * Power(2, 2 * w - 1) /\ Power(2, 2 * w - 1) \in Nat \ {0}
  BY <1>1, <1>2, <1>3, <1>4 DEF LongLongMax
<1>8. IntMax <= Power(2, 2 * w - 1)
  <2>1. PICK d \in Nat : d = w - 1
    BY <1>2
  <2>2. w + d = 2 * w - 1 /\ w + d <= 2 * IntBits /\ w \in Nat
    BY <1>1, <2>1
  <2>3. Power(2, w) <= Power(2, w + d)
    BY <2>2, PowerGrows
  <2> QED BY <1>1, <2>2, <2>3 DEF IntMax
<1>9. ShortMax <= Power(2, 2 * w - 1)
  <2>1. PICK d \in Nat : d = 2 * w - 1 - v
    BY <1>1
  <2>2. v + d = 2 * w - 1 /\ v + d <= 2 * IntBits /\ v \in Nat
    BY <1>1, <2>1
  <2>3. Power(2, v) <= Power(2, v + d)
    BY <2>2, PowerGrows
  <2> QED BY <1>1, <2>2, <2>3 DEF ShortMax
<1> QED BY <1>5, <1>6, <1>7, <1>8, <1>9

(* Division *)
LEMMA Divided ==
  ASSUME NEW n \in Nat \ {0}, NEW x \in Nat
  PROVE  \E q \in Nat : \E r \in 0 .. n - 1 : x = q * n + r
<1>1. x \div n \in Nat /\ x % n \in 0 .. n - 1 /\ x = (x \div n) * n + (x % n)
  BY DivMod
<1> QED BY <1>1

(* Dividing twice *)
LEMMA DivTwice ==
  ASSUME NEW b \in Nat \ {0}, NEW pp \in Nat \ {0}, NEW n \in Nat
  PROVE  (n \div b) \div pp = n \div (b * pp)
<1>1. PICK c \in Nat \ {0} : c = b * pp
  OBVIOUS
<1>2. PICK q \in Nat, r \in 0 .. c - 1 : n = q * c + r
  BY Divided, Zenon
<1>3. PICK u \in Nat, v \in 0 .. b - 1 : r = u * b + v
  <2>1. r \in Nat
    BY <1>1, <1>2
  <2> QED BY <2>1, Divided, Zenon
<1>4. u < pp
  <2>1. CASE pp <= u
    <3>1. PICK z \in Nat : u = pp + z
      BY <2>1
    <3>2. u * b = c + z * b /\ z * b \in Nat
      BY <1>1, <3>1
    <3>3. PICK y \in Nat : y = z * b
      BY <3>2
    <3> QED BY <1>2, <1>3, <3>2, <3>3
  <2> QED BY <2>1
<1>5. PICK qp \in Nat : qp = q * pp
  OBVIOUS
<1>6. q * c = qp * b
  BY <1>1, <1>5
<1>7. PICK w \in Nat : w = qp + u
  OBVIOUS
<1>8. n = w * b + v
  BY <1>2, <1>3, <1>6, <1>7
<1>9. n \div b = w
  BY <1>8, DivUnique
<1>10. w = q * pp + u /\ u \in 0 .. pp - 1
  BY <1>4, <1>5, <1>7
<1>11. w \div pp = q
  BY <1>10, DivUnique
<1>12. n \div c = q
  BY <1>2, DivUnique
<1> QED BY <1>1, <1>9, <1>11, <1>12

(* do_div divides a long long in two steps of a word each: for every number *)
(* and every base this gives quotient and remainder, and the quotient of   *)
(* the second step fits its register (div64.h:21-33). *)
THEOREM DoDiv ==
  ASSUME NEW n \in Nat, NEW base \in Nat \ {0}
  PROVE  /\ do_div(n, base).quotient = n \div base /\ do_div(n, base).mod = n % base
         /\ (((n \div IntMax) % base) * IntMax + (n % IntMax)) \div base < IntMax
<1>1. PICK M \in Nat \ {0} : M = IntMax
  BY TypeSizes
<1>2. PICK high \in Nat, low \in 0 .. M - 1 : n = high * M + low
  BY DivMod
<1>3. n \div M = high /\ n % M = low
  BY <1>2, DivUnique
<1>4. PICK hq \in Nat, upper \in 0 .. base - 1 : high = hq * base + upper
  BY Divided, Zenon
<1>5. high \div base = hq /\ high % base = upper
  BY <1>4, DivUnique
<1>6. PICK both \in Nat : both = upper * M + low
  <2>1. upper * M \in Nat
    OBVIOUS
  <2>2. PICK x \in Nat : x = upper * M
    BY <2>1
  <2> QED BY <2>2
<1>7. PICK q \in Nat, r \in 0 .. base - 1 : both = q * base + r
  BY Divided, Zenon
<1>8. both \div base = q /\ both % base = r
  BY <1>7, DivUnique
<1>9. PICK hm \in Nat : hm = hq * M
  OBVIOUS
<1>10. PICK w \in Nat : w = hm + q
  OBVIOUS
<1>11. n = w * base + r
  <2>1. high * M = hm * base + upper * M
    BY <1>4, <1>9
  <2>2. n = hm * base + both
    BY <1>2, <1>6, <2>1
  <2>3. w * base = hm * base + q * base
    BY <1>10
  <2> QED BY <1>7, <2>2, <2>3
<1>12. n \div base = w /\ n % base = r
  BY <1>11, DivUnique
<1>13. high = 0 => hq = 0 /\ upper = 0 /\ hm = 0
  <2>1. ASSUME high = 0 PROVE hq = 0 /\ upper = 0
    <3>1. PICK x \in Nat : x = hq * base
      OBVIOUS
    <3>2. x = 0 /\ upper = 0
      BY <1>4, <2>1, <3>1
    <3>3. hq # 0 => x # 0
      BY <3>1
    <3> QED BY <3>2, <3>3
  <2> QED BY <1>9, <2>1
<1>14. q < M
  <2>1. CASE M <= q
    <3>1. PICK z \in Nat : q = M + z
      BY <2>1
    <3>2. PICK y \in Nat, x \in Nat, bm \in Nat : y = z * base /\ x = upper * M /\ bm = base * M
      OBVIOUS
    <3>3. q * base = bm + y
      BY <3>1, <3>2
    <3>4. PICK d \in Nat : base = upper + 1 + d
      BY <1>4
    <3>5. PICK e \in Nat : e = d * M
      OBVIOUS
    <3>6. bm = x + M + e
      BY <3>2, <3>4, <3>5
    <3> QED BY <1>2, <1>6, <1>7, <3>2, <3>3, <3>6
  <2> QED BY <2>1
<1> DEFINE H == n \div IntMax
           U == IF H # 0 THEN H % base ELSE H
           B == (U * IntMax) + (n % IntMax)
<1>15. H = high /\ U = upper /\ B = both
  BY <1>1, <1>3, <1>5, <1>6, <1>13
<1>16. (IF H # 0 THEN H \div base ELSE H) = hq
  BY <1>5, <1>13, <1>15
<1>17. do_div(n, base) =
         [quotient |-> ((IF H # 0 THEN H \div base ELSE H) * IntMax) + (B \div base),
          mod |-> B % base]
  BY Zenon DEF do_div
<1> HIDE DEF H, U, B
<1>18. do_div(n, base).quotient = hq * M + q /\ do_div(n, base).mod = r
  BY <1>1, <1>8, <1>15, <1>16, <1>17
<1>19. ((n \div IntMax) % base) * IntMax + (n % IntMax) = both
  BY <1>1, <1>3, <1>5, <1>6
<1> QED BY <1>1, <1>8, <1>9, <1>10, <1>12, <1>14, <1>18, <1>19

(* The digits of a number *)
LEMMA TmpAt ==
  ASSUME NEW base \in {8, 10, 16}
  PROVE  \A m \in 0 .. LongLongMax - 1 :
           /\ Tmp(m, base) \in Seq(Nat)
           /\ Tmp(m, base) = IF m < base THEN <<m % base>> ELSE <<m % base>> \o Tmp(m \div base, base)
<1> DEFINE Step(f, m) == IF m < base THEN <<do_div(m, base).mod>>
                         ELSE <<do_div(m, base).mod>> \o f[do_div(m, base).quotient]
           Plain(f, m) == IF m < base THEN <<m % base>> ELSE <<m % base>> \o f[m \div base]
           Has(N) == \E f \in [0 .. N -> Seq(Nat)] : \A m \in 0 .. N : f[m] = Plain(f, m)
           Q == {N \in Nat : Has(N)}
<1>1. base \in Nat \ {0} /\ base > 1
  OBVIOUS
<1>2. \A m \in Nat : do_div(m, base).mod = m % base /\ do_div(m, base).quotient = m \div base
  BY <1>1, DoDiv
<1>3. \A m \in Nat : <<m % base>> \in Seq(Nat) /\ m \div base \in Nat
                       /\ (m >= base => m \div base < m)
  <2>1. ASSUME NEW m \in Nat
        PROVE  m % base \in Nat /\ m \div base \in Nat /\ (m >= base => m \div base < m)
    <3>1. CASE base = 8
      BY <3>1
    <3>2. CASE base = 10
      BY <3>2
    <3>3. CASE base = 16
      BY <3>3
    <3> QED BY <3>1, <3>2, <3>3
  <2> QED BY <2>1
<1>4. 0 \in Q
  <2>1. PICK f : f = [m \in 0 .. 0 |-> <<m % base>>]
    OBVIOUS
  <2>2. \A m \in 0 .. 0 : m \in Nat /\ m < base
    BY <1>1
  <2>3. f \in [0 .. 0 -> Seq(Nat)] /\ \A m \in 0 .. 0 : f[m] = Plain(f, m)
    BY <1>3, <2>1, <2>2
  <2> QED BY <2>3
<1>5. ASSUME NEW N \in Q PROVE N + 1 \in Q
  <2>1. N \in Nat /\ N + 1 \in Nat
    OBVIOUS
  <2>2. PICK f \in [0 .. N -> Seq(Nat)] : \A m \in 0 .. N : f[m] = Plain(f, m)
    OBVIOUS
  <2> DEFINE last == Plain(f, N + 1)
             g == [m \in 0 .. N + 1 |-> IF m <= N THEN f[m] ELSE last]
  <2>3. /\ \A m \in 0 .. N + 1 : (m \in 0 .. N /\ m <= N) \/ (m = N + 1 /\ ~(m <= N))
        /\ \A m \in 0 .. N : m \in 0 .. N + 1 /\ m <= N /\ m \in Nat
        /\ N + 1 \in 0 .. N + 1 /\ ~(N + 1 <= N)
    BY <2>1
  <2>4. ASSUME NEW m \in Nat, m \in 0 .. N + 1, ~(m < base)
        PROVE  m \div base \in 0 .. N
    <3>1. m >= base
      BY <1>1, <2>4
    <3>2. PICK q \in Nat : q = m \div base /\ q < m
      BY <1>3, <3>1
    <3> QED BY <2>1, <2>4, <3>2
  <2>5. last \in Seq(Nat)
    <3>1. CASE N + 1 < base
      BY <1>3, <2>1, <3>1
    <3>2. CASE ~(N + 1 < base)
      <4>1. (N + 1) \div base \in 0 .. N
        BY <2>1, <2>3, <2>4, <3>2
      <4>2. f[(N + 1) \div base] \in Seq(Nat) /\ <<(N + 1) % base>> \in Seq(Nat)
        BY <1>3, <2>1, <4>1
      <4> QED BY <3>2, <4>2, ConcatProperties
    <3> QED BY <3>1, <3>2
  <2> HIDE DEF last
  <2>6. g \in [0 .. N + 1 -> Seq(Nat)]
    BY <2>2, <2>3, <2>5
  <2>7. g[N + 1] = last /\ \A m \in 0 .. N : g[m] = f[m]
    BY <2>3
  <2> HIDE DEF g
  <2>8. ASSUME NEW m \in 0 .. N + 1 PROVE g[m] = Plain(g, m)
    <3>1. m \in Nat /\ (m < base \/ m \div base \in 0 .. N)
      BY <2>1, <2>4
    <3>2. Plain(g, m) = Plain(f, m)
      BY <2>7, <3>1
    <3>3. g[m] = Plain(f, m)
      BY <2>2, <2>3, <2>7 DEF last
    <3> QED BY <3>2, <3>3
  <2> HIDE DEF Plain
  <2> QED BY <2>1, <2>6, <2>8
<1> HIDE DEF Q
<1>6. Q = Nat
  BY <1>4, <1>5, AllNat DEF Q
<1>7. PICK L \in Nat : L = LongLongMax - 1
  BY TypeSizes
<1>8. PICK f \in [0 .. L -> Seq(Nat)] : \A m \in 0 .. L : f[m] = Plain(f, m)
  BY <1>6 DEF Q
<1>9. \A m \in 0 .. L : m \in Nat
  OBVIOUS
<1>10. \A u, m : m \in Nat => Plain(u, m) = Step(u, m)
  BY <1>2
<1>11. \A m \in 0 .. L : f[m] = Step(f, m)
  BY <1>8, <1>9, <1>10
<1> DEFINE h == CHOOSE T : T = [m \in 0 .. L |->
                  IF m < base THEN <<do_div(m, base).mod>>
                  ELSE <<do_div(m, base).mod>> \o T[do_div(m, base).quotient]]
<1>12. f = [m \in 0 .. L |-> IF m < base THEN <<do_div(m, base).mod>>
                             ELSE <<do_div(m, base).mod>> \o f[do_div(m, base).quotient]]
  BY <1>11, Zenon
<1>13. h = [m \in 0 .. L |-> IF m < base THEN <<do_div(m, base).mod>>
                             ELSE <<do_div(m, base).mod>> \o h[do_div(m, base).quotient]]
  BY <1>12, Zenon
<1>14. \A m : Tmp(m, base) = h[m]
  BY <1>7, Zenon DEF Tmp
<1> HIDE DEF h
<1>15. \A m \in 0 .. L : h[m] = Step(h, m)
  BY <1>13, Zenon
<1>16. \A m \in 0 .. L : h[m] = Plain(h, m)
  BY <1>9, <1>10, <1>15
<1>17. \A m \in 0 .. L : h[m] \in Seq(Nat)
  <2> DEFINE C == {m \in 0 .. L : h[m] \notin Seq(Nat)}
  <2> SUFFICES ASSUME C # {} PROVE FALSE
    OBVIOUS
  <2>1. C \in SUBSET Nat
    OBVIOUS
  <2>2. PICK m \in C : \A c \in C : m <= c
    BY <2>1, LeastNat
  <2>3. m \in 0 .. L /\ m \in Nat /\ h[m] \notin Seq(Nat)
    OBVIOUS
  <2>4. ~(m < base) /\ h[m] = <<m % base>> \o h[m \div base] /\ <<m % base>> \in Seq(Nat)
    BY <1>3, <1>16, <2>3
  <2>5. m \div base \in 0 .. L /\ ~(m <= m \div base)
    <3>1. m >= base
      BY <1>1, <2>3, <2>4
    <3>2. PICK q \in Nat : q = m \div base /\ q < m
      BY <1>3, <2>3, <3>1
    <3> QED BY <2>3, <3>2
  <2>6. h[m \div base] \in Seq(Nat)
    BY <2>2, <2>5
  <2> QED BY <2>3, <2>4, <2>6, ConcatProperties
<1> QED BY <1>7, <1>14, <1>16, <1>17

(* So many digits, and no fewer, are needed. *)
Needs(n, base, d) == n < Power(base, d) /\ (d > 1 => n >= Power(base, d - 1))

LEMMA NeededUnique ==
  ASSUME NEW base \in Nat \ {0}, NEW n \in Nat,
         NEW d \in 1 .. 2 * IntBits, Needs(n, base, d)
  PROVE  DigitsNeeded(n, base) = d
<1>1. PICK N \in Nat : N = 2 * IntBits
  BY Widths
<1>2. ASSUME NEW c \in 1 .. N, NEW e \in 1 .. N, Needs(n, base, c), Needs(n, base, e), c < e
      PROVE  FALSE
  <2>1. PICK x \in Nat : e - 1 = c + x
    BY <1>2
  <2>2. c \in Nat /\ c + x <= 2 * IntBits /\ c \in 0 .. N /\ e - 1 \in 0 .. N /\ e > 1
    BY <1>1, <1>2, <2>1
  <2>3. Power(base, c) <= Power(base, c + x)
    BY <2>2, PowerGrows
  <2>4. n < Power(base, c) /\ n >= Power(base, e - 1)
    BY <1>2, <2>2 DEF Needs
  <2>5. Power(base, c) \in Nat /\ Power(base, e - 1) \in Nat
    BY <1>1, <2>2, PowerAt
  <2> QED BY <2>1, <2>3, <2>4, <2>5
<1>3. \A c, e \in 1 .. N : Needs(n, base, c) /\ Needs(n, base, e) => c = e
  <2>1. ASSUME NEW c \in 1 .. N, NEW e \in 1 .. N, Needs(n, base, c), Needs(n, base, e)
        PROVE  c = e
    <3>1. c < e \/ e < c \/ c = e
      BY <1>1
    <3> QED BY <1>2, <2>1, <3>1
  <2> QED BY <2>1
<1>4. DigitsNeeded(n, base) = CHOOSE e \in 1 .. N : Needs(n, base, e)
  BY <1>1 DEF DigitsNeeded, Needs
<1> HIDE DEF Needs
<1>5. d \in 1 .. N
  BY <1>1
<1> QED BY <1>3, <1>4, <1>5

(* number leaves in tmp the digits that a number has in its base, the last *)
(* first, as many as it needs and never more than it has bits: 64 where    *)
(* tmp has room for 66 (vsprintf.c:45, 90-98). *)
THEOREM TmpIs ==
  ASSUME NEW base \in {8, 10, 16}, NEW n \in 0 .. LongLongMax - 1
  PROVE  /\ Len(Tmp(n, base)) \in 1 .. 2 * IntBits /\ Needs(n, base, Len(Tmp(n, base)))
         /\ \A j \in 1 .. Len(Tmp(n, base)) : Tmp(n, base)[j] = (n \div Power(base, j - 1)) % base
<1> DEFINE Right(m) ==
             /\ Len(Tmp(m, base)) \in 1 .. 2 * IntBits /\ Needs(m, base, Len(Tmp(m, base)))
             /\ \A j \in 1 .. Len(Tmp(m, base)) : Tmp(m, base)[j] = (m \div Power(base, j - 1)) % base
           C == {m \in 0 .. LongLongMax - 1 : ~Right(m)}
<1>1. PICK N \in Nat : N = 2 * IntBits /\ N >= 1
  BY Widths
<1>2. base \in Nat \ {0} /\ base > 1
  OBVIOUS
<1>3. Power(base, 0) = 1 /\ 0 \in 0 .. N
  BY <1>1, <1>2, PowerAt
<1>4. /\ \A e \in 1 .. N : Power(base, e) = base * Power(base, e - 1)
      /\ \A e \in 0 .. N : Power(base, e) \in Nat \ {0}
  BY <1>1, <1>2, PowerAt
<1>5. PICK L \in Nat \ {0} : L = LongLongMax
  BY TypeSizes
<1> SUFFICES ASSUME C # {} PROVE FALSE
  OBVIOUS
<1> HIDE DEF Right
<1>6. C \in SUBSET Nat
  BY <1>5
<1>7. PICK m \in C : \A c \in C : m <= c
  BY <1>6, LeastNat
<1>8. m \in Nat /\ m \in 0 .. LongLongMax - 1 /\ m < L /\ ~Right(m)
  BY <1>5, <1>7
<1>9. Tmp(m, base) = IF m < base THEN <<m % base>> ELSE <<m % base>> \o Tmp(m \div base, base)
  BY <1>8, TmpAt
<1>10. CASE m < base
  <2>1. Tmp(m, base) = <<m % base>> /\ m % base = m
    <3>1. m = 0 * base + m /\ m \in 0 .. base - 1
      BY <1>2, <1>8, <1>10
    <3>2. m % base = m
      BY <1>2, <3>1, DivUnique
    <3> QED BY <1>9, <1>10, <3>2
  <2>2. Len(Tmp(m, base)) = 1 /\ Tmp(m, base)[1] = m
    BY <2>1
  <2>3. 1 \in 1 .. N /\ 1 - 1 = 0 /\ ~(1 > 1) /\ \A j \in 1 .. 1 : j = 1
    BY <1>1
  <2>4. Power(base, 1) = base
    BY <1>2, <1>3, <1>4, <2>3
  <2>5. m \div 1 = m
    BY <1>8
  <2>6. (m \div Power(base, 1 - 1)) % base = m
    BY <1>3, <2>1, <2>3, <2>5
  <2>7. Needs(m, base, 1)
    BY <1>10, <2>3, <2>4 DEF Needs
  <2>8. Right(m)
    BY <1>1, <2>2, <2>3, <2>6, <2>7 DEF Right
  <2> QED BY <1>8, <2>8
<1>11. CASE ~(m < base)
  <2>1. PICK q \in Nat, r \in 0 .. base - 1 : m = q * base + r
    BY <1>2, <1>8, DivMod
  <2>2. m \div base = q /\ m % base = r
    BY <1>2, <2>1, DivUnique
  <2>3. q < m /\ q > 0
    <3>1. CASE base = 8
      BY <1>8, <1>11, <2>1, <3>1
    <3>2. CASE base = 10
      BY <1>8, <1>11, <2>1, <3>2
    <3>3. CASE base = 16
      BY <1>8, <1>11, <2>1, <3>3
    <3> QED BY <3>1, <3>2, <3>3
  <2>4. Right(q)
    <3>1. q \in 0 .. LongLongMax - 1 /\ ~(m <= q)
      BY <1>5, <1>8, <2>3
    <3>2. q \notin C
      BY <1>7, <3>1
    <3> QED BY <3>1, <3>2
  <2> DEFINE t == Tmp(q, base)
             u == <<r>> \o t
  <2>5. t \in Seq(Nat)
    <3>1. q \in 0 .. LongLongMax - 1
      BY <1>5, <1>8, <2>3
    <3> QED BY <3>1, TmpAt
  <2>6. PICK d \in Nat : /\ d = Len(t) /\ d \in 1 .. N /\ Needs(q, base, d)
                         /\ \A j \in 1 .. d : t[j] = (q \div Power(base, j - 1)) % base
    BY <1>1, <2>4 DEF Right
  <2>7. Tmp(m, base) = u
    BY <1>9, <1>11, <2>2
  <2> HIDE DEF t
  <2>8. /\ u \in Seq(Nat) /\ Len(u) = d + 1 /\ u[1] = r
        /\ \A j \in 1 .. d : u[j + 1] = t[j]
    <3>1. <<r>> \in Seq(Nat) /\ Len(<<r>>) = 1 /\ <<r>>[1] = r
      OBVIOUS
    <3>2. /\ u \in Seq(Nat) /\ Len(u) = 1 + d
          /\ \A j \in 1 .. 1 + d : u[j] = IF j <= 1 THEN <<r>>[j] ELSE t[j - 1]
      BY <2>5, <2>6, <3>1, ConcatProperties
    <3> HIDE DEF u
    <3>3. /\ 1 \in 1 .. 1 + d /\ 1 <= 1 /\ 1 + d = d + 1
          /\ \A j \in 1 .. d : j + 1 \in 1 .. 1 + d /\ ~(j + 1 <= 1) /\ (j + 1) - 1 = j
      BY <2>6
    <3>4. Len(u) = d + 1 /\ u[1] = r
      <4>1. u[1] = <<r>>[1]
        BY <3>2, <3>3
      <4> QED BY <3>1, <3>2, <3>3, <4>1
    <3>5. ASSUME NEW j \in 1 .. d PROVE u[j + 1] = t[j]
      <4>1. u[j + 1] = t[(j + 1) - 1]
        BY <3>2, <3>3
      <4> QED BY <3>3, <4>1
    <3> QED BY <3>2, <3>4, <3>5
  <2> HIDE DEF u
  <2>9. Power(base, d) \in Nat \ {0} /\ Power(base, d) = base * Power(base, d - 1)
        /\ Power(base, d - 1) \in Nat \ {0}
    <3>1. d \in 0 .. N /\ d - 1 \in 0 .. N
      BY <2>6
    <3> QED BY <1>4, <2>6, <3>1
  <2>10. PICK pp \in Nat \ {0}, o \in Nat \ {0} : pp = Power(base, d) /\ o = Power(base, d - 1)
                                                /\ pp = base * o
    BY <2>9
  <2>11. m >= pp
    <3>1. q >= o
      <4>1. CASE d > 1
        BY <2>6, <2>10, <4>1 DEF Needs
      <4>2. CASE d = 1
        <5>1. d - 1 = 0
          BY <4>2
        <5>2. o = 1
          BY <1>3, <2>10, <5>1
        <5> QED BY <2>3, <5>2
      <4> QED BY <2>6, <4>1, <4>2
    <3>2. PICK x \in Nat, y \in Nat : q = o + x /\ y = x * base
      <4>1. PICK x \in Nat : q = o + x
        BY <3>1
      <4> QED BY <4>1
    <3>3. q * base = pp + y
      BY <2>10, <3>2
    <3> QED BY <2>1, <3>3
  <2>12. d + 1 \in 1 .. N
    <3>1. CASE d = N
      <4>1. Power(2, N) <= Power(base, N)
        BY <1>1, <1>2, <1>3, PowerOfTwo
      <4>2. L <= pp
        BY <1>1, <1>5, <2>10, <3>1, <4>1 DEF LongLongMax
      <4> QED BY <1>8, <2>11, <4>2
    <3> QED BY <2>6, <3>1
  <2>13. PICK c \in Nat \ {0} : c = Power(base, d + 1) /\ c = base * pp
    <3>1. (d + 1) - 1 = d /\ d + 1 \in 0 .. N
      BY <2>12
    <3> QED BY <1>4, <2>10, <2>12, <3>1
  <2>14. m < c
    <3>1. q < pp
      BY <2>6, <2>10 DEF Needs
    <3>2. PICK x \in Nat : pp = q + 1 + x
      BY <3>1
    <3>3. PICK y \in Nat : y = x * base
      OBVIOUS
    <3>4. c = q * base + base + y
      BY <2>13, <3>2, <3>3
    <3> QED BY <2>1, <3>4
  <2>15. Needs(m, base, d + 1)
    <3>1. (d + 1) - 1 = d
      OBVIOUS
    <3> QED BY <2>10, <2>11, <2>13, <2>14, <3>1 DEF Needs
  <2>16. ASSUME NEW j \in 1 .. d + 1 PROVE u[j] = (m \div Power(base, j - 1)) % base
    <3>1. CASE j = 1
      <4>1. Power(base, j - 1) = 1
        BY <1>3, <3>1
      <4>2. m \div 1 = m
        BY <1>8
      <4> QED BY <2>2, <2>8, <3>1, <4>1, <4>2
    <3>2. CASE j # 1
      <4>1. PICK x \in 1 .. d : j = x + 1
        <5>1. j - 1 \in 1 .. d /\ j = (j - 1) + 1
          BY <3>2, <2>6
        <5> QED BY <5>1
      <4>2. (x + 1) - 1 = x /\ x \in 1 .. N /\ x - 1 \in 0 .. N
        BY <2>6
      <4>3. Power(base, x) = base * Power(base, x - 1) /\ Power(base, x - 1) \in Nat \ {0}
        BY <1>4, <4>2
      <4>4. (m \div base) \div Power(base, x - 1) = m \div (base * Power(base, x - 1))
        BY <1>2, <1>8, <4>3, DivTwice
      <4>5. u[j] = (q \div Power(base, x - 1)) % base
        BY <2>6, <2>8, <4>1
      <4>6. q \div Power(base, x - 1) = m \div Power(base, x)
        BY <2>2, <4>3, <4>4, Zenon
      <4> QED BY <4>1, <4>2, <4>5, <4>6, Zenon
    <3> QED BY <3>1, <3>2
  <2>17. Right(m)
    BY <1>1, <2>7, <2>8, <2>12, <2>15, <2>16 DEF Right
  <2> QED BY <1>8, <2>17
<1> QED BY <1>10, <1>11

(* Sequences of one character *)
LEMMA TimesIs ==
  ASSUME NEW T, NEW c \in T, NEW n \in Int
  PROVE  /\ Times(n, c) \in Seq(T) /\ Len(Times(n, c)) = Largest(n, 0)
         /\ \A k \in 1 .. Largest(n, 0) : Times(n, c)[k] = c
<1>1. Largest(n, 0) \in Nat
  BY DEF Largest
<1>2. PICK m \in Nat : m = Largest(n, 0)
  BY <1>1
<1>3. Times(n, c) = [k \in 1 .. m |-> c]
  BY <1>2 DEF Times
<1> QED BY <1>2, <1>3

LEMMA TimesNone ==
  ASSUME NEW c, NEW n \in Int, n <= 0
  PROVE  Times(n, c) = <<>>
<1> DEFINE T == {c}
<1>1. c \in T /\ Largest(n, 0) = 0
  BY DEF Largest
<1> HIDE DEF T
<1>2. Times(n, c) \in Seq(T) /\ Len(Times(n, c)) = 0
  BY <1>1, TimesIs
<1> QED BY <1>2, EmptySeq

LEMMA TimesAdd ==
  ASSUME NEW c, NEW a \in Int, NEW b \in Int
  PROVE  Times(a, c) \o Times(b, c) = Times(Largest(a, 0) + Largest(b, 0), c)
<1>1. PICK m \in Nat, n \in Nat : m = Largest(a, 0) /\ n = Largest(b, 0)
  BY DEF Largest
<1>2. m + n \in Int /\ Largest(m + n, 0) = m + n
  BY DEF Largest
<1> DEFINE T == {c}
<1>3. c \in T
  OBVIOUS
<1> HIDE DEF T
<1> DEFINE ss == Times(a, c)
           t == Times(b, c)
           u == Times(m + n, c)
           z == ss \o t
<1>4. /\ ss \in Seq(T) /\ Len(ss) = m /\ \A k \in 1 .. m : ss[k] = c
      /\ t \in Seq(T) /\ Len(t) = n /\ \A k \in 1 .. n : t[k] = c
  BY <1>1, <1>3, TimesIs
<1>5. u \in Seq(T) /\ Len(u) = m + n /\ \A k \in 1 .. m + n : u[k] = c
  BY <1>2, <1>3, TimesIs
<1> HIDE DEF ss, t, u
<1>6. z \in Seq(T) /\ Len(z) = m + n /\ \A k \in 1 .. m + n : z[k] = IF k <= m THEN ss[k] ELSE t[k - m]
  BY <1>4, ConcatProperties
<1> HIDE DEF z
<1>7. \A k \in 1 .. m + n : (k <= m /\ k \in 1 .. m) \/ (~(k <= m) /\ k - m \in 1 .. n)
  OBVIOUS
<1>8. \A k \in 1 .. m + n : z[k] = c
  BY <1>4, <1>6, <1>7
<1>9. Len(z) = Len(u) /\ \A k \in 1 .. Len(z) : z[k] = u[k]
  BY <1>5, <1>6, <1>8
<1>10. z = u
  BY <1>5, <1>6, <1>9, SeqEqual
<1> QED BY <1>1, <1>10 DEF z, ss, t, u

(* Characters *)
LEMMA Known ==
  /\ \A d \in 1 .. 16 : LowerDigits[d] \in Characters /\ UpperDigits[d] \in Characters
  /\ "0" \in Characters /\ " " \in Characters /\ "+" \in Characters /\ "-" \in Characters
  /\ "x" \in Characters /\ "X" \in Characters /\ "%" \in Characters
BY VsprintfAssumption DEF FlagChars, Numbers

Bases == {8, 10, 16}

DigitLists == {LowerDigits, UpperDigits}

DigitRow(tmp, digits) == [k \in 1 .. Len(tmp) |-> digits[tmp[Len(tmp) + 1 - k] + 1]]

(* The digits that number writes are those of the numeral. *)
LEMMA DigitsAre ==
  ASSUME NEW base \in Bases, NEW n \in 0 .. LongLongMax - 1, NEW least \in Int,
         NEW digits \in DigitLists
  PROVE  /\ Len(Tmp(n, base)) \in Nat \ {0}
         /\ DigitRow(Tmp(n, base), digits) \in Seq(Characters)
         /\ Len(DigitRow(Tmp(n, base), digits)) = Len(Tmp(n, base))
         /\ Numeral(n, base, least, digits)
              = Times(least - Len(Tmp(n, base)), "0") \o DigitRow(Tmp(n, base), digits)
<1> DEFINE tmp == Tmp(n, base)
<1>0. base \in {8, 10, 16}
  BY DEF Bases
<1>1. PICK N \in Nat \ {0} : N = 2 * IntBits
  BY Widths
<1>2. /\ Len(tmp) \in 1 .. 2 * IntBits /\ Needs(n, base, Len(tmp))
      /\ \A j \in 1 .. Len(tmp) : tmp[j] = (n \div Power(base, j - 1)) % base
  BY <1>0, TmpIs
<1>3. PICK d \in 1 .. N : d = Len(tmp)
  BY <1>1, <1>2
<1>4. DigitsNeeded(n, base) = d
  <2>1. base \in Nat \ {0} /\ n \in Nat /\ d \in 1 .. 2 * IntBits
    <3>1. LongLongMax \in Nat
      BY TypeSizes
    <3> QED BY <1>0, <1>1, <3>1
  <2> QED BY <1>2, <1>3, <2>1, NeededUnique
<1> HIDE DEF tmp
<1> DEFINE ds == [k \in 1 .. d |-> digits[tmp[d + 1 - k] + 1]]
           es == [k \in 1 .. d |-> digits[((n \div Power(base, d - k)) % base) + 1]]
<1>5. ASSUME NEW k \in 1 .. d
      PROVE  /\ tmp[d + 1 - k] = (n \div Power(base, d - k)) % base
             /\ digits[((n \div Power(base, d - k)) % base) + 1] \in Characters
  <2>1. d + 1 - k \in 1 .. d /\ (d + 1 - k) - 1 = d - k /\ d - k \in 0 .. N
    BY <1>3
  <2>2. tmp[d + 1 - k] = (n \div Power(base, d - k)) % base
    BY <1>2, <1>3, <2>1
  <2>3. Power(base, d - k) \in Nat \ {0}
    BY <1>0, <1>1, <2>1, PowerAt
  <2>4. n \in Nat
    BY TypeSizes
  <2>5. PICK q \in Nat : q = n \div Power(base, d - k)
    BY <2>3, <2>4, DivMod
  <2>6. PICK r \in Nat : r = q % base /\ r < base
    BY <1>0
  <2>7. r + 1 \in 1 .. 16
    BY <1>0, <2>6
  <2>8. digits[r + 1] \in Characters
    BY <2>7, Known DEF DigitLists
  <2> QED BY <2>2, <2>5, <2>6, <2>8
<1>6. ds = es
  BY <1>5
<1>7. \A k \in 1 .. d : es[k] \in Characters
  BY <1>5
<1>8. es \in Seq(Characters) /\ Len(es) = d
  <2> DEFINE G(k) == digits[((n \div Power(base, d - k)) % base) + 1]
  <2>1. \A k \in 1 .. d : G(k) \in Characters
    BY <1>5
  <2> HIDE DEF G
  <2>2. [k \in 1 .. d |-> G(k)] \in Seq(Characters) /\ Len([k \in 1 .. d |-> G(k)]) = d
    BY <1>3, <2>1
  <2> QED BY <2>2 DEF G
<1>9. Numeral(n, base, least, digits) = Times(least - d, "0") \o es
  BY <1>4 DEF Numeral
<1> HIDE DEF es, ds
<1>10. ds \in Seq(Characters) /\ Len(ds) = d /\ Numeral(n, base, least, digits) = Times(least - d, "0") \o ds
  BY <1>6, <1>8, <1>9
<1>11. ds = DigitRow(tmp, digits)
  BY <1>3, Zenon DEF ds, DigitRow
<1> QED BY <1>3, <1>10, <1>11 DEF tmp

(* The prover is kept from forming ever longer sequences by a name for \o. *)
Cat(ss, t) == ss \o t

LEMMA Associative ==
  \A ss, t, u \in Seq(Characters) : Cat(Cat(ss, t), u) = Cat(ss, Cat(t, u))
BY ConcatAssociative DEF Cat

LEMMA Joined ==
  \A ss, t \in Seq(Characters) : Cat(ss, t) \in Seq(Characters)
BY ConcatProperties DEF Cat

(* How number lays out a sign, a prefix and digits in a field: the body is *)
(* what is not blank.                                                      *)
Body(sign, prefix, zeros, ds) == sign \o prefix \o (Times(zeros - Len(ds), "0") \o ds)

Laid(sign, prefix, least, ds, width, type) ==
  LET body == Body(sign, prefix, least, ds)
  IN IF "LEFT" \in type THEN body \o Times(width - Len(body), " ")
     ELSE IF "ZEROPAD" \in type
       THEN Body(sign, prefix, Largest(width - Len(sign) - Len(prefix), least), ds)
     ELSE Times(width - Len(body), " ") \o body

LEMMA BodyIs ==
  ASSUME NEW sign \in Seq(Characters), NEW prefix \in Seq(Characters), NEW zeros \in Int,
         NEW ds \in Seq(Characters)
  PROVE  /\ Body(sign, prefix, zeros, ds) \in Seq(Characters)
         /\ Len(Body(sign, prefix, zeros, ds)) = Len(sign) + Len(prefix) + Largest(zeros, Len(ds))
<1>1. PICK a \in Nat, b \in Nat, d \in Nat : a = Len(sign) /\ b = Len(prefix) /\ d = Len(ds)
  BY LenProperties
<1> DEFINE z == Times(zeros - d, "0")
<1>2. z \in Seq(Characters) /\ Len(z) = Largest(zeros - d, 0)
  <2>1. "0" \in Characters
    BY Known
  <2>2. zeros - d \in Int
    BY <1>1
  <2> QED BY <2>1, <2>2, TimesIs
<1> HIDE DEF z
<1>3. sign \o prefix \in Seq(Characters) /\ Len(sign \o prefix) = a + b
  BY <1>1, ConcatProperties
<1>4. z \o ds \in Seq(Characters) /\ Len(z \o ds) = Largest(zeros - d, 0) + d
  BY <1>1, <1>2, ConcatProperties
<1>5. /\ (sign \o prefix) \o (z \o ds) \in Seq(Characters)
      /\ Len((sign \o prefix) \o (z \o ds)) = a + b + (Largest(zeros - d, 0) + d)
  <2> DEFINE u == sign \o prefix
             v == z \o ds
  <2>1. u \in Seq(Characters) /\ v \in Seq(Characters) /\ Len(u) = a + b /\ Len(v) = Largest(zeros - d, 0) + d
    BY <1>3, <1>4
  <2> HIDE DEF u, v
  <2>2. u \o v \in Seq(Characters) /\ Len(u \o v) = a + b + (Largest(zeros - d, 0) + d)
    BY <2>1, ConcatProperties
  <2> QED BY <2>2 DEF u, v
<1>6. Largest(zeros - d, 0) + d = Largest(zeros, d)
  BY <1>1 DEF Largest
<1>7. Body(sign, prefix, zeros, ds) = (sign \o prefix) \o (z \o ds)
  BY <1>1, Zenon DEF Body, z
<1> QED BY <1>1, <1>5, <1>6, <1>7

(* Zeros in place of blanks are more of the zeros that the digits begin with. *)
ZerosFilled(sign, prefix, least, ds, width) ==
  (sign \o prefix) \o Times(width - Len(sign) - Len(prefix) - Largest(least, Len(ds)), "0")
    \o Times(least - Len(ds), "0") \o ds

LEMMA MoreZeros ==
  ASSUME NEW sign \in Seq(Characters), NEW prefix \in Seq(Characters), NEW ds \in Seq(Characters),
         NEW least \in Int, NEW width \in Int
  PROVE  ZerosFilled(sign, prefix, least, ds, width)
           = Body(sign, prefix, Largest(width - Len(sign) - Len(prefix), least), ds)
<1>1. PICK a \in Nat, b \in Nat, d \in Nat : a = Len(sign) /\ b = Len(prefix) /\ d = Len(ds)
  BY LenProperties
<1>2. PICK w \in Int, ii \in Int, j \in Int :
        w = width - a - b /\ ii = w - Largest(least, d) /\ j = least - d
  <2>1. PICK w \in Int : w = width - a - b
    OBVIOUS
  <2>2. PICK l \in Int : l = Largest(least, d)
    BY DEF Largest
  <2>3. PICK ii \in Int, j \in Int : ii = w - l /\ j = least - d
    OBVIOUS
  <2> QED BY <2>1, <2>2, <2>3
<1>3. /\ Largest(ii, 0) + Largest(j, 0) \in Int /\ Largest(w, least) - d \in Int
      /\ Largest(Largest(ii, 0) + Largest(j, 0), 0) = Largest(Largest(w, least) - d, 0)
  <2>1. CASE least > d
    <3>1. ii = w - least /\ j = least - d /\ j > 0
      BY <1>2, <2>1 DEF Largest
    <3> QED BY <3>1 DEF Largest
  <2>2. CASE ~(least > d)
    <3>1. ii = w - d /\ j = least - d /\ j <= 0
      BY <1>2, <2>2 DEF Largest
    <3> QED BY <3>1 DEF Largest
  <2> QED BY <2>1, <2>2
<1> DEFINE h == sign \o prefix
           y == Times(ii, "0")
           z == Times(j, "0")
           t == Times(Largest(w, least) - d, "0")
<1>4. y \o z = t
  <2>1. y \o z = Times(Largest(ii, 0) + Largest(j, 0), "0")
    BY <1>2, TimesAdd
  <2>2. Times(Largest(ii, 0) + Largest(j, 0), "0") = t
    BY <1>3, Zenon DEF Times
  <2> QED BY <2>1, <2>2
<1>5. h \in Seq(Characters) /\ y \in Seq(Characters) /\ z \in Seq(Characters)
  BY <1>1, <1>2, Known, TimesIs, ConcatProperties
<1>6. Body(sign, prefix, Largest(width - a - b, least), ds) = h \o (t \o ds)
  BY <1>1, <1>2, Zenon DEF Body
<1>7. width - Len(sign) - Len(prefix) - Largest(least, Len(ds)) = ii /\ least - Len(ds) = j
  BY <1>1, <1>2
<1>8. (sign \o prefix) \o Times(width - Len(sign) - Len(prefix) - Largest(least, Len(ds)), "0")
        \o Times(least - Len(ds), "0") \o ds = ((h \o y) \o z) \o ds
  BY <1>7, Zenon
<1> HIDE DEF h, y, z, t
<1>9. ((h \o y) \o z) \o ds = h \o ((y \o z) \o ds)
  <2>1. (h \o y) \o z = h \o (y \o z)
    <3>1. Cat(Cat(h, y), z) = Cat(h, Cat(y, z))
      BY <1>5, Associative
    <3> QED BY <3>1, Zenon DEF Cat
  <2>2. y \o z \in Seq(Characters)
    BY <1>5, ConcatProperties
  <2>3. PICK v \in Seq(Characters) : v = y \o z
    BY <2>2
  <2>4. (h \o v) \o ds = h \o (v \o ds)
    <3>1. Cat(Cat(h, v), ds) = Cat(h, Cat(v, ds))
      BY <1>5, Associative
    <3> QED BY <3>1, Zenon DEF Cat
  <2> QED BY <2>1, <2>3, <2>4
<1> QED BY <1>1, <1>4, <1>6, <1>8, <1>9, Zenon DEF ZerosFilled

(* What number writes, from what it has found out. *)
Output(sign, prefix, least, len, ds, width, type) ==
  LET size1 == width - Len(sign) - Len(prefix) - Largest(least, len)
      size2 == SizeAfterBlanks(size1, type)
      size3 == IF "LEFT" \in type THEN size2 ELSE Filled(size2)
      c     == IF "ZEROPAD" \in type THEN "0" ELSE " "
  IN (IF type \cap {"ZEROPAD", "LEFT"} = {} THEN Fill(size1, " ") ELSE <<>>)
       \o sign \o prefix
       \o (IF "LEFT" \in type THEN <<>> ELSE Fill(size2, c))
       \o Times(least - len, "0")
       \o ds
       \o Fill(size3, " ")

SignOf(type, n) ==
  IF "SIGN" \notin type THEN <<>>
  ELSE IF "SIGN" \in type /\ n >= LongLongMax \div 2 THEN <<"-">>
  ELSE IF "PLUS" \in type THEN <<"+">>
  ELSE IF "SPACE" \in type THEN <<" ">> ELSE <<>>

PrefixOf(type, base) ==
  IF "SPECIAL" \notin type THEN <<>>
  ELSE IF base = 16 THEN <<"0", IF "LARGE" \in type THEN "X" ELSE "x">>
  ELSE IF base = 8 THEN <<"0">> ELSE <<>>

SizeOf(type, n) == IF "SIGN" \in type /\ n >= LongLongMax \div 2 THEN (-n) % LongLongMax ELSE n

DigitsOf(type) == IF "LARGE" \in type THEN UpperDigits ELSE LowerDigits

TypeOf(type) == IF "LEFT" \in type THEN type \ {"ZEROPAD"} ELSE type

LEMMA NumberOut ==
  ASSUME NEW base, NEW n, NEW width, NEW least, NEW type0
  PROVE  LET type == TypeOf(type0)
             tmp  == Tmp(SizeOf(type, n), base)
             ds   == [k \in 1 .. Len(tmp) |-> DigitsOf(type0)[tmp[Len(tmp) + 1 - k] + 1]]
         IN number(n, base, width, least, type0)
              = Output(SignOf(type, n), PrefixOf(type, base), least, Len(tmp), ds, width, type)
BY Zenon DEF number, TypeOf, SignOf, PrefixOf, SizeOf, DigitsOf, Output

LEMMA OutIs ==
  ASSUME NEW sign \in Seq(Characters), NEW prefix \in Seq(Characters), NEW ds \in Seq(Characters),
         NEW least \in Int, NEW width \in Int, NEW type, ~("LEFT" \in type /\ "ZEROPAD" \in type)
  PROVE  Output(sign, prefix, least, Len(ds), ds, width, type) = Laid(sign, prefix, least, ds, width, type)
<1>1. PICK size \in Int : size = width - Len(sign) - Len(prefix) - Largest(least, Len(ds))
  <2>1. Len(sign) \in Nat /\ Len(prefix) \in Nat /\ Largest(least, Len(ds)) \in Int
    BY LenProperties DEF Largest
  <2> QED BY <2>1
<1>2. Filled(size) \in Int /\ Filled(size) <= 0 /\ Filled(Filled(size)) \in Int /\ Filled(Filled(size)) <= 0
  BY DEF Filled
<1>3. Times(Filled(size), " ") = <<>> /\ Times(Filled(Filled(size)), " ") = <<>>
  BY <1>2, TimesNone
<1> DEFINE h == sign \o prefix
           z == Times(least - Len(ds), "0")
           blanks == Times(size, " ")
           body == h \o (z \o ds)
<1>4. /\ h \in Seq(Characters) /\ z \in Seq(Characters) /\ blanks \in Seq(Characters)
      /\ z \o ds \in Seq(Characters) /\ body \in Seq(Characters)
  <2>1. h \in Seq(Characters)
    BY ConcatProperties
  <2>2. z \in Seq(Characters)
    <3>1. "0" \in Characters
      BY Known
    <3>2. least - Len(ds) \in Int
      BY LenProperties
    <3> QED BY <3>1, <3>2, TimesIs
  <2>3. blanks \in Seq(Characters)
    BY Known, TimesIs
  <2> HIDE DEF h, z, blanks
  <2>4. z \o ds \in Seq(Characters)
    BY <2>2, ConcatProperties
  <2> DEFINE y == z \o ds
  <2> HIDE DEF y
  <2>5. y \in Seq(Characters)
    BY <2>4 DEF y
  <2>6. h \o y \in Seq(Characters)
    BY <2>1, <2>5, ConcatProperties
  <2> QED BY <2>1, <2>2, <2>3, <2>4, <2>6 DEF y
<1>5. Body(sign, prefix, least, ds) = body
  BY Zenon DEF Body
<1> HIDE DEF h, z, blanks, body
<1>6. width - Len(body) = size
  <2>1. Len(body) = Len(sign) + Len(prefix) + Largest(least, Len(ds))
    BY <1>5, BodyIs
  <2>2. Len(sign) \in Nat /\ Len(prefix) \in Nat /\ Largest(least, Len(ds)) \in Int
    BY LenProperties DEF Largest
  <2> QED BY <1>1, <2>1, <2>2
<1>7. \A x \in Seq(Characters) : x \o <<>> = x /\ <<>> \o x = x
  BY ConcatEmptySeq
<1>8. <<>> \in Seq(Characters)
  BY EmptySeq
<1>9. (h \o z) \o ds = body
  <2>1. Cat(Cat(h, z), ds) = Cat(h, Cat(z, ds))
    BY <1>4, Associative
  <2> QED BY <2>1, Zenon DEF Cat, body
<1>10. CASE "LEFT" \in type
  <2>1. type \cap {"ZEROPAD", "LEFT"} # {} /\ "ZEROPAD" \notin type
    BY <1>10
  <2>2. SizeAfterBlanks(size, type) = size
    BY <2>1 DEF SizeAfterBlanks
  <2>3. Output(sign, prefix, least, Len(ds), ds, width, type)
          = <<>> \o sign \o prefix \o <<>> \o z \o ds \o blanks
    BY <1>1, <1>10, <2>1, <2>2, Zenon DEF Output, Fill, z, blanks
  <2>4. (<<>> \o sign) = sign /\ h \o <<>> = h
    BY <1>4, <1>7, Zenon
  <2>5. Output(sign, prefix, least, Len(ds), ds, width, type) = body \o blanks
    BY <1>9, <2>3, <2>4, Zenon DEF h
  <2>6. Laid(sign, prefix, least, ds, width, type) = body \o blanks
    BY <1>5, <1>6, <1>10, Zenon DEF Laid, blanks
  <2> QED BY <2>5, <2>6
<1>11. CASE "LEFT" \notin type /\ "ZEROPAD" \in type
  <2>1. type \cap {"ZEROPAD", "LEFT"} # {}
    BY <1>11
  <2>2. SizeAfterBlanks(size, type) = size
    BY <2>1 DEF SizeAfterBlanks
  <2> DEFINE y == Times(size, "0")
  <2> HIDE DEF y
  <2>3. Output(sign, prefix, least, Len(ds), ds, width, type)
          = <<>> \o sign \o prefix \o y \o z \o ds \o <<>>
    BY <1>1, <1>3, <1>11, <2>1, <2>2, Zenon DEF Output, Fill, y, z
  <2>4. ((h \o y) \o z) \o ds = Body(sign, prefix, Largest(width - Len(sign) - Len(prefix), least), ds)
    <3>1. width - Len(sign) - Len(prefix) - Largest(least, Len(ds)) = size
      BY <1>1
    <3>2. /\ sign \in Seq(Characters) /\ prefix \in Seq(Characters) /\ ds \in Seq(Characters)
          /\ least \in Int /\ width \in Int
      OBVIOUS
    <3>3. ZerosFilled(sign, prefix, least, ds, width)
           = Body(sign, prefix, Largest(width - Len(sign) - Len(prefix), least), ds)
      BY <3>2, MoreZeros
    <3> QED BY <3>1, <3>3, Zenon DEF h, y, z, ZerosFilled
  <2>5. ((h \o y) \o z) \o ds \in Seq(Characters)
    <3>1. width - Len(sign) - Len(prefix) \in Int
      BY LenProperties
    <3>2. Largest(width - Len(sign) - Len(prefix), least) \in Int
      BY <3>1 DEF Largest
    <3> QED BY <2>4, <3>2, BodyIs
  <2>6. <<>> \o sign = sign
    BY <1>7
  <2>7. Output(sign, prefix, least, Len(ds), ds, width, type) = (((h \o y) \o z) \o ds) \o <<>>
    BY <2>3, <2>6, Zenon DEF h
  <2>8. Output(sign, prefix, least, Len(ds), ds, width, type) = ((h \o y) \o z) \o ds
    BY <1>7, <2>5, <2>7, Zenon
  <2>9. Laid(sign, prefix, least, ds, width, type)
          = Body(sign, prefix, Largest(width - Len(sign) - Len(prefix), least), ds)
    BY <1>11, Zenon DEF Laid
  <2> QED BY <2>4, <2>8, <2>9, Zenon
<1>12. CASE "LEFT" \notin type /\ "ZEROPAD" \notin type
  <2>1. type \cap {"ZEROPAD", "LEFT"} = {}
    BY <1>12
  <2>2. SizeAfterBlanks(size, type) = Filled(size)
    BY <2>1 DEF SizeAfterBlanks
  <2>3. Output(sign, prefix, least, Len(ds), ds, width, type)
          = blanks \o sign \o prefix \o <<>> \o z \o ds \o <<>>
    BY <1>1, <1>3, <1>12, <2>1, <2>2, Zenon DEF Output, Fill, z, blanks
  <2>4. (blanks \o sign) \o prefix = blanks \o h
    <3>1. Cat(Cat(blanks, sign), prefix) = Cat(blanks, Cat(sign, prefix))
      BY <1>4, Associative
    <3> QED BY <3>1, Zenon DEF Cat, h
  <2>5. blanks \o h \in Seq(Characters)
    BY <1>4, ConcatProperties
  <2>6. (blanks \o h) \o <<>> = blanks \o h
    BY <1>7, <2>5, Zenon
  <2>7. ((blanks \o h) \o z) \o ds = blanks \o body
    <3>1. (blanks \o h) \o z = blanks \o (h \o z)
      <4>1. Cat(Cat(blanks, h), z) = Cat(blanks, Cat(h, z))
        BY <1>4, Associative
      <4> QED BY <4>1, Zenon DEF Cat
    <3> DEFINE v == h \o z
    <3>2. v \in Seq(Characters)
      <4>1. Cat(h, z) \in Seq(Characters)
        BY <1>4, Joined
      <4> QED BY <4>1, Zenon DEF Cat
    <3> HIDE DEF v
    <3>3. (blanks \o v) \o ds = blanks \o (v \o ds)
      <4>1. Cat(Cat(blanks, v), ds) = Cat(blanks, Cat(v, ds))
        BY <1>4, <3>2, Associative
      <4> QED BY <4>1, Zenon DEF Cat
    <3> QED BY <1>9, <3>1, <3>3, Zenon DEF v
  <2>8. blanks \o body \in Seq(Characters)
    BY <1>4, ConcatProperties
  <2>9. Output(sign, prefix, least, Len(ds), ds, width, type) = (blanks \o body) \o <<>>
    BY <2>3, <2>4, <2>6, <2>7, Zenon
  <2>10. (blanks \o body) \o <<>> = blanks \o body
    BY <1>7, <2>8, Zenon
  <2>11. Laid(sign, prefix, least, ds, width, type) = blanks \o body
    BY <1>5, <1>6, <1>12, Zenon DEF Laid, blanks
  <2> QED BY <2>9, <2>10, <2>11, Zenon
<1> QED BY <1>10, <1>11, <1>12

(* What number writes: the digits are those of the number, laid out. *)
Lays(base, n, width, least, type, ds) ==
  /\ Len(ds) \in Nat \ {0}
  /\ \A z \in Int : Numeral(SizeOf(type, n), base, z, DigitsOf(type)) = Times(z - Len(ds), "0") \o ds
  /\ number(n, base, width, least, type)
       = Laid(SignOf(type, n), PrefixOf(type, base), least, ds, width, type)

LEMMA NumberIs ==
  ASSUME NEW base \in Bases, NEW n \in 0 .. LongLongMax - 1, NEW width \in Int,
         NEW least \in Int, NEW type0
  PROVE  \E ds \in Seq(Characters) : Lays(base, n, width, least, type0, ds)
<1> DEFINE type == TypeOf(type0)
           abs  == SizeOf(type0, n)
           tmp  == Tmp(abs, base)
           ds   == [k \in 1 .. Len(tmp) |-> DigitsOf(type0)[tmp[Len(tmp) + 1 - k] + 1]]
           sign == SignOf(type0, n)
           prefix == PrefixOf(type0, base)
<1>1. /\ "SIGN" \in type <=> "SIGN" \in type0
      /\ "PLUS" \in type <=> "PLUS" \in type0
      /\ "SPACE" \in type <=> "SPACE" \in type0
      /\ "SPECIAL" \in type <=> "SPECIAL" \in type0
      /\ "LARGE" \in type <=> "LARGE" \in type0
      /\ "LEFT" \in type <=> "LEFT" \in type0
      /\ "LEFT" \notin type0 => ("ZEROPAD" \in type <=> "ZEROPAD" \in type0)
      /\ ~("LEFT" \in type /\ "ZEROPAD" \in type)
  BY DEF TypeOf
<1>2. SignOf(type, n) = sign /\ PrefixOf(type, base) = prefix /\ SizeOf(type, n) = abs
  <2> HIDE DEF type
  <2> QED BY <1>1, Zenon DEF SignOf, PrefixOf, SizeOf
<1>3. sign \in Seq(Characters) /\ prefix \in Seq(Characters)
  <2>1. \A c, e \in Characters : <<>> \in Seq(Characters) /\ <<c>> \in Seq(Characters) /\ <<c, e>> \in Seq(Characters)
    OBVIOUS
  <2>2. "0" \in Characters /\ " " \in Characters /\ "+" \in Characters /\ "-" \in Characters
        /\ "x" \in Characters /\ "X" \in Characters
    BY Known
  <2>3. sign \in Seq(Characters)
    BY <2>1, <2>2 DEF SignOf
  <2>4. prefix \in Seq(Characters)
    BY <2>1, <2>2 DEF PrefixOf
  <2> QED BY <2>3, <2>4
<1>4. abs \in 0 .. LongLongMax - 1
  <2>1. PICK L \in Nat \ {0} : L = LongLongMax
    BY TypeSizes
  <2>2. n \in Nat /\ -n \in Int /\ n \in 0 .. L - 1
    BY <2>1
  <2>3. (-n) % L \in 0 .. L - 1
    BY <2>1, <2>2
  <2> QED BY <2>1, <2>2, <2>3 DEF SizeOf
<1>5. DigitsOf(type0) \in DigitLists
  BY DEF DigitsOf, DigitLists
<1> HIDE DEF abs
<1>6. /\ Len(tmp) \in Nat \ {0} /\ ds \in Seq(Characters) /\ Len(ds) = Len(tmp)
      /\ \A z \in Int : Numeral(abs, base, z, DigitsOf(type0)) = Times(z - Len(tmp), "0") \o ds
  <2> DEFINE digits == DigitsOf(type0)
  <2> HIDE DEF digits
  <2>1. digits \in DigitLists
    BY <1>5 DEF digits
  <2>2. ASSUME NEW z \in Int
        PROVE  /\ Len(tmp) \in Nat \ {0}
               /\ DigitRow(tmp, digits) \in Seq(Characters)
               /\ Len(DigitRow(tmp, digits)) = Len(tmp)
               /\ Numeral(abs, base, z, digits) = Times(z - Len(tmp), "0") \o DigitRow(tmp, digits)
    <3>1. \A b \in Bases, ii \in 0 .. LongLongMax - 1, least0 \in Int, list \in DigitLists :
            /\ Len(Tmp(ii, b)) \in Nat \ {0}
            /\ DigitRow(Tmp(ii, b), list) \in Seq(Characters)
            /\ Len(DigitRow(Tmp(ii, b), list)) = Len(Tmp(ii, b))
            /\ Numeral(ii, b, least0, list)
                 = Times(least0 - Len(Tmp(ii, b)), "0") \o DigitRow(Tmp(ii, b), list)
      BY DigitsAre
    <3> QED BY <1>4, <2>1, <3>1, Zenon
  <2>3. 0 \in Int /\ DigitRow(tmp, digits) = ds
    BY DEF DigitRow, digits
  <2> HIDE DEF tmp, ds
  <2> QED BY <2>2, <2>3, Zenon DEF digits
<1>7. number(n, base, width, least, type0)
        = Output(SignOf(type, n), PrefixOf(type, base), least, Len(Tmp(SizeOf(type, n), base)),
              [k \in 1 .. Len(Tmp(SizeOf(type, n), base)) |->
                 DigitsOf(type0)[Tmp(SizeOf(type, n), base)[Len(Tmp(SizeOf(type, n), base)) + 1 - k] + 1]],
              width, type)
  BY NumberOut, Zenon
<1>8. number(n, base, width, least, type0) = Output(sign, prefix, least, Len(tmp), ds, width, type)
  <2> HIDE DEF type, sign, prefix
  <2> QED BY <1>2, <1>7, Zenon
<1> HIDE DEF type, sign, prefix, tmp, ds
<1>9. number(n, base, width, least, type0) = Output(sign, prefix, least, Len(ds), ds, width, type)
  BY <1>6, <1>8, Zenon
<1>10. Output(sign, prefix, least, Len(ds), ds, width, type) = Laid(sign, prefix, least, ds, width, type)
  <2>1. /\ sign \in Seq(Characters) /\ prefix \in Seq(Characters) /\ ds \in Seq(Characters)
        /\ least \in Int /\ width \in Int /\ ~("LEFT" \in type /\ "ZEROPAD" \in type)
    BY <1>1, <1>3, <1>6
  <2> QED BY <2>1, OutIs
<1>11. Laid(sign, prefix, least, ds, width, type) = Laid(sign, prefix, least, ds, width, type0)
  <2>1. CASE "LEFT" \in type
    BY <1>1, <2>1, Zenon DEF Laid
  <2>2. CASE "LEFT" \notin type
    BY <1>1, <2>2, Zenon DEF Laid
  <2> QED BY <2>1, <2>2
<1>12. number(n, base, width, least, type0) = Laid(sign, prefix, least, ds, width, type0)
  BY <1>9, <1>10, <1>11, Zenon
<1>13. /\ Len(ds) \in Nat \ {0}
       /\ \A z \in Int : Numeral(abs, base, z, DigitsOf(type0)) = Times(z - Len(ds), "0") \o ds
  BY <1>6, Zenon
<1> QED BY <1>6, <1>12, <1>13, Zenon DEF abs, sign, prefix, Lays

(* Numbers of a type, and as a long long *)
LEMMA Modulus ==
  ASSUME NEW m \in Nat \ {0}, NEW ii \in Int
  PROVE  ii % m \in Nat /\ ii % m < m
OBVIOUS

(* An argument of a type of this size, with its sign extended. *)
Widened(ii, size, signed) == Extended(ii % size, size, signed)
Signed(ii, size, signed)  == IF signed /\ 2 * (ii % size) >= size THEN (ii % size) - size ELSE ii % size

LEMMA WidenedIs ==
  ASSUME NEW size \in {ShortMax, IntMax, LongLongMax}, NEW ii \in Int, NEW signed \in BOOLEAN
  PROVE  /\ Widened(ii, size, signed) \in 0 .. LongLongMax - 1
         /\ Signed(ii, size, signed) \in Int
         /\ (Widened(ii, size, signed) >= LongLongMax \div 2 /\ signed) <=> Signed(ii, size, signed) < 0
         /\ Signed(ii, size, signed) < 0 =>
              (-Widened(ii, size, signed)) % LongLongMax = -Signed(ii, size, signed)
         /\ Signed(ii, size, signed) >= 0 => Widened(ii, size, signed) = Signed(ii, size, signed)
<1>1. PICK H \in Nat \ {0}, L \in Nat : L = LongLongMax /\ L = 2 * H /\ IntMax <= H /\ ShortMax <= H
  BY TypeSizes
<1>2. PICK h \in Nat \ {0}, ss \in Nat : ss = size /\ ss = 2 * h /\ ss <= L
  BY <1>1, TypeSizes
<1>3. L \div 2 = H /\ ss \div 2 = h
  BY <1>1, <1>2
<1>4. PICK u \in Nat : u = ii % ss /\ u < ss
  BY <1>2, Modulus
<1> DEFINE n == Widened(ii, size, signed)
           v == Signed(ii, size, signed)
<1>5. CASE signed /\ u >= h
  <2>1. v = u - ss
    BY <1>2, <1>4, <1>5 DEF Signed
  <2>2. n = (u - ss) % L
    BY <1>1, <1>2, <1>3, <1>4, <1>5 DEF Widened, Extended
  <2>3. PICK y \in Nat : y = L + u - ss /\ y < L /\ y >= H
    BY <1>1, <1>2, <1>4, <1>5
  <2>4. (u - ss) % L = y
    <3>1. u - ss = (-1) * L + y
      BY <2>3
    <3>2. y \in 0 .. L - 1
      BY <2>3
    <3> QED BY <1>1, <1>2, <1>4, <2>3
  <2>5. (-y) % L = ss - u
    BY <1>1, <1>2, <1>4, <1>5, <2>3
  <2> HIDE DEF n, v
  <2>6. n = y /\ v = u - ss /\ v < 0 /\ v \in Int /\ n \in 0 .. L - 1 /\ n >= H /\ -v = ss - u
    BY <1>1, <1>2, <1>4, <2>1, <2>2, <2>3, <2>4
  <2>7. /\ n \in 0 .. LongLongMax - 1 /\ v \in Int /\ v < 0 /\ ~(v >= 0)
        /\ n >= LongLongMax \div 2 /\ signed /\ (-n) % LongLongMax = -v
    <3>1. (-n) % LongLongMax = -v
      BY <1>1, <2>5, <2>6, Zenon
    <3>2. /\ n \in 0 .. LongLongMax - 1 /\ v \in Int /\ v < 0 /\ ~(v >= 0)
          /\ n >= LongLongMax \div 2 /\ signed
      BY <1>1, <1>3, <1>5, <2>6
    <3> QED BY <3>1, <3>2
  <2> QED BY <2>7, Zenon DEF n, v
<1>6. CASE ~(signed /\ u >= h)
  <2>1. v = u
    BY <1>2, <1>4, <1>6 DEF Signed
  <2>2. n = u
    BY <1>2, <1>3, <1>4, <1>6 DEF Widened, Extended
  <2>3. signed => u < H
    <3>1. CASE size = LongLongMax
      BY <1>1, <1>2, <1>4, <1>6, <3>1
    <3>2. CASE size # LongLongMax
      BY <1>1, <1>2, <1>4, <1>6, <3>2
    <3> QED BY <3>1, <3>2
  <2> HIDE DEF n, v
  <2>4. n \in 0 .. L - 1 /\ v \in Int /\ v >= 0 /\ ~(v < 0) /\ (signed => ~(n >= H)) /\ n = v
    BY <1>1, <1>2, <1>4, <2>1, <2>2, <2>3
  <2>5. /\ n \in 0 .. LongLongMax - 1 /\ v \in Int /\ v >= 0 /\ ~(v < 0) /\ n = v
        /\ ~(n >= LongLongMax \div 2 /\ signed)
    BY <1>1, <1>3, <2>4
  <2> QED BY <2>5, Zenon DEF n, v
<1> QED BY <1>5, <1>6

(* For a long long nothing is extended. *)
LEMMA WidenedLongLong ==
  ASSUME NEW ii \in Int, NEW signed
  PROVE  Widened(ii, LongLongMax, signed) = ii % LongLongMax
<1>1. PICK H \in Nat \ {0}, L \in Nat : L = LongLongMax /\ L = 2 * H
  BY TypeSizes
<1>2. PICK u \in Nat : u = ii % L /\ u < L
  BY <1>1, Modulus
<1>3. (u - L) % L = u
  BY <1>1, <1>2
<1> QED BY <1>1, <1>2, <1>3 DEF Widened, Extended

(* What is read of an item *)
Flags(x) ==
  {FlagOf[x.flags[j]] : j \in 1 .. Len(x.flags)}
    \cup (IF x.width.how = "star" /\ x.width.n < 0 THEN {"LEFT"} ELSE {})
WidthOf(x) ==
  IF x.width.how = "missing" THEN -1 ELSE IF x.width.n < 0 THEN -x.width.n ELSE x.width.n
PrecisionOf(x) == IF x.precision.how = "missing" THEN -1 ELSE Largest(x.precision.n, 0)

LEMMA ItemIs ==
  ASSUME NEW x \in FormatItems
  PROVE  /\ x.flags \in Seq(FlagChars)
         /\ x.width.how \in {"missing", "digits", "star"} /\ x.width.n \in Int
         /\ x.precision.how \in {"missing", "digits", "star", "point"} /\ x.precision.n \in Int
         /\ x.width.how = "missing" => x.width.n = -1
         /\ x.width.how = "digits" => x.width.n \in 1 .. LongLongMax - 1
         /\ x.precision.how = "digits" => x.precision.n \in 0 .. LongLongMax - 1
         /\ x.precision.how = "point" => x.precision.n = 0
         /\ x.qualifier \in QualifierChars \cup {"none"} /\ x.conversion \in Characters \cup {Nul, "text"}
         /\ x.number \in Int /\ x.string \in Seq(Characters \cup {Nul})
         /\ x.qualifier = "none" =>
              x.conversion \notin FlagChars \cup DecimalDigits \cup {"*", "."} \cup QualifierChars
         /\ x.conversion = "text" => \E c \in Characters \ {"%"} : x.string = <<c>>
         /\ x.conversion = "c" => Len(x.string) = 1
         /\ x.conversion = "s" => x.string = <<Nul>> \/ x.string \in Seq(Characters)
<1>1. /\ x.flags \in Seq(FlagChars)
      /\ x.width \in Amounts /\ x.precision \in Amounts
      /\ x.qualifier \in QualifierChars \cup {"none"} /\ x.conversion \in Characters \cup {Nul, "text"}
      /\ x.number \in Int /\ x.string \in Seq(Characters \cup {Nul})
  BY DEF FormatItems
<1>2. /\ x.width.how # "point"
      /\ x.width.how = "missing" => x.width.n = -1
      /\ x.width.how = "digits" => x.width.n > 0
      /\ x.precision.how = "digits" => x.precision.n >= 0
      /\ x.precision.how = "point" => x.precision.n = 0
      /\ x.qualifier = "none" =>
           x.conversion \notin FlagChars \cup DecimalDigits \cup {"*", "."} \cup QualifierChars
      /\ x.conversion = "text" => \E c \in Characters \ {"%"} : x.string = <<c>>
      /\ x.conversion = "c" => Len(x.string) = 1
      /\ x.conversion = "s" => x.string = <<Nul>> \/ x.string \in Seq(Characters)
  BY Zenon DEF FormatItems
<1>3. PICK m \in Nat, u \in Nat : m = IntMax \div 4 /\ u = LongLongMax /\ m <= u - 1
  <2>1. PICK ii \in Nat, h \in Nat \ {0} : ii = IntMax /\ LongLongMax = 2 * h /\ ii <= h
    BY TypeSizes
  <2>2. ii \div 4 \in Nat /\ ii \div 4 <= ii /\ 2 * h \in Nat /\ ii <= 2 * h - 1
    BY <2>1
  <2> QED BY <2>1, <2>2
<1>4. /\ x.width.how \in {"missing", "digits", "star", "point"} /\ x.width.n \in -m .. m
      /\ x.precision.how \in {"missing", "digits", "star", "point"} /\ x.precision.n \in -m .. m
  BY <1>1, <1>3, Zenon DEF Amounts
<1>5. PICK w \in -m .. m, pp \in -m .. m : w = x.width.n /\ pp = x.precision.n
  BY <1>4
<1>6. /\ w > 0 => w \in 1 .. LongLongMax - 1
      /\ pp >= 0 => pp \in 0 .. LongLongMax - 1
      /\ w \in Int /\ pp \in Int
  BY <1>3
<1>7. /\ x.width.n \in Int /\ x.precision.n \in Int
      /\ x.width.how = "digits" => x.width.n \in 1 .. LongLongMax - 1
      /\ x.precision.how = "digits" => x.precision.n \in 0 .. LongLongMax - 1
  BY <1>2, <1>5, <1>6, Zenon
<1>8. x.width.how \in {"missing", "digits", "star"}
  BY <1>2, <1>4
<1> QED BY <1>1, <1>2, <1>4, <1>7, <1>8, Zenon

(* Each flag has its bit. *)
LEMMA FlagsAre ==
  ASSUME NEW ss \in Seq(FlagChars)
  PROVE  LET bits == {FlagOf[ss[j]] : j \in 1 .. Len(ss)}
         IN  /\ "LEFT" \in bits <=> "-" \in ToSet(ss)
             /\ "PLUS" \in bits <=> "+" \in ToSet(ss)
             /\ "SPACE" \in bits <=> " " \in ToSet(ss)
             /\ "SPECIAL" \in bits <=> "#" \in ToSet(ss)
             /\ "ZEROPAD" \in bits <=> "0" \in ToSet(ss)
             /\ "LARGE" \notin bits /\ "SIGN" \notin bits
<1> DEFINE bits == {FlagOf[ss[j]] : j \in 1 .. Len(ss)}
<1>1. /\ FlagOf["-"] = "LEFT" /\ FlagOf["+"] = "PLUS" /\ FlagOf[" "] = "SPACE"
      /\ FlagOf["#"] = "SPECIAL" /\ FlagOf["0"] = "ZEROPAD"
  BY DEF FlagOf, FlagChars
<1>2. ToSet(ss) = {ss[j] : j \in 1 .. Len(ss)} /\ \A j \in 1 .. Len(ss) : ss[j] \in {"-", "+", " ", "#", "0"}
  <2>1. DOMAIN ss = 1 .. Len(ss)
    BY LenProperties
  <2>2. ToSet(ss) = {ss[j] : j \in 1 .. Len(ss)}
    BY <2>1, Zenon DEF ToSet
  <2>3. \A j \in 1 .. Len(ss) : ss[j] \in FlagChars
    OBVIOUS
  <2> QED BY <2>2, <2>3 DEF FlagChars
<1>3. \A c \in {"-", "+", " ", "#", "0"} :
        /\ FlagOf[c] = "LEFT" <=> c = "-"
        /\ FlagOf[c] = "PLUS" <=> c = "+"
        /\ FlagOf[c] = "SPACE" <=> c = " "
        /\ FlagOf[c] = "SPECIAL" <=> c = "#"
        /\ FlagOf[c] = "ZEROPAD" <=> c = "0"
        /\ FlagOf[c] # "LARGE" /\ FlagOf[c] # "SIGN"
  BY <1>1
<1> DEFINE Stands(c, bit) == \A e \in {"-", "+", " ", "#", "0"} : FlagOf[e] = bit <=> e = c
<1>4. ASSUME NEW bit, NEW c, Stands(c, bit)
      PROVE  bit \in bits <=> c \in ToSet(ss)
  <2>1. \A j \in 1 .. Len(ss) : FlagOf[ss[j]] = bit <=> ss[j] = c
    BY <1>2, <1>4, Zenon
  <2> QED BY <1>2, <2>1, Zenon
<1>5. "LARGE" \notin bits /\ "SIGN" \notin bits
  BY <1>2, <1>3, Zenon
<1> HIDE DEF bits
<1>6. /\ "LEFT" \in bits <=> "-" \in ToSet(ss)
      /\ "PLUS" \in bits <=> "+" \in ToSet(ss)
      /\ "SPACE" \in bits <=> " " \in ToSet(ss)
      /\ "SPECIAL" \in bits <=> "#" \in ToSet(ss)
      /\ "ZEROPAD" \in bits <=> "0" \in ToSet(ss)
  <2>1. /\ Stands("-", "LEFT") /\ Stands("+", "PLUS") /\ Stands(" ", "SPACE")
        /\ Stands("#", "SPECIAL") /\ Stands("0", "ZEROPAD")
    BY <1>3, Zenon
  <2> HIDE DEF Stands
  <2> QED BY <1>4, <2>1, Zenon
<1> QED BY <1>5, <1>6, Zenon DEF bits

(* Either side of a field *)
Side(left, width, body) ==
  IF left THEN body \o Times(width - Len(body), " ") ELSE Times(width - Len(body), " ") \o body

WidthKnown(x) ==
  /\ x.width.n \in Int
  /\ x.width.how # "missing" /\ x.width.n < 0 => x.width.how = "star"

LEMMA FieldIs ==
  ASSUME NEW x, x.flags \in Seq(FlagChars), WidthKnown(x), NEW T, NEW body \in Seq(T)
  PROVE  Field(x, body) = Side("LEFT" \in Flags(x), WidthOf(x), body)
<1>1. "LEFT" \in Flags(x) <=> "-" \in ToSet(x.flags) \/ (x.width.how = "star" /\ x.width.n < 0)
  <2> DEFINE bits == {FlagOf[x.flags[j]] : j \in 1 .. Len(x.flags)}
  <2>1. "LEFT" \in bits <=> "-" \in ToSet(x.flags)
    BY FlagsAre
  <2> HIDE DEF bits
  <2>2. Flags(x) = bits \cup (IF x.width.how = "star" /\ x.width.n < 0 THEN {"LEFT"} ELSE {})
    BY Zenon DEF Flags, bits
  <2> QED BY <2>1, <2>2
<1>2. CASE x.width.how = "missing"
  <2>1. WidthOf(x) = -1 /\ Field(x, body) = body
    BY <1>2 DEF WidthOf, Field
  <2>2. Len(body) \in Nat
    BY LenProperties
  <2>3. -1 - Len(body) \in Int /\ -1 - Len(body) <= 0
    BY <2>2
  <2>4. Times(-1 - Len(body), " ") = <<>>
    BY <2>3, TimesNone
  <2>5. body \o <<>> = body /\ <<>> \o body = body
    BY ConcatEmptySeq
  <2>6. Side("LEFT" \in Flags(x), WidthOf(x), body) = body
    BY <2>1, <2>4, <2>5, Zenon DEF Side
  <2> QED BY <2>1, <2>6
<1>3. CASE x.width.how # "missing"
  <2> DEFINE w == IF x.width.n < 0 THEN -x.width.n ELSE x.width.n
  <2>1. WidthOf(x) = w
    BY <1>3 DEF WidthOf
  <2>2. "-" \in ToSet(x.flags) \/ x.width.n < 0 <=> "LEFT" \in Flags(x)
    BY <1>1, <1>3 DEF WidthKnown
  <2>3. Field(x, body) = IF "-" \in ToSet(x.flags) \/ x.width.n < 0
                         THEN body \o Times(w - Len(body), " ") ELSE Times(w - Len(body), " ") \o body
    BY <1>3, Zenon DEF Field
  <2> HIDE DEF w
  <2> QED BY <2>1, <2>2, <2>3, Zenon DEF Side
<1> QED BY <1>2, <1>3

(* The zeros that a number begins with *)
LEMMA BodySame ==
  ASSUME NEW sign, NEW prefix, NEW ds, NEW a \in Int, NEW b \in Int,
         Largest(a - Len(ds), 0) = Largest(b - Len(ds), 0)
  PROVE  Body(sign, prefix, a, ds) = Body(sign, prefix, b, ds)
<1>1. Times(a - Len(ds), "0") = Times(b - Len(ds), "0")
  BY Zenon DEF Times
<1> QED BY <1>1, Zenon DEF Body

LaysOut(sign, prefix, least, ds, width, type, zeros, prec) ==
  /\ Laid(sign, prefix, least, ds, width, type)
       = Side("LEFT" \in type, width, Body(sign, prefix, Largest(zeros, prec), ds))
  /\ Body(sign, prefix, Largest(zeros, prec), ds) \in Seq(Characters)

LEMMA LaidIs ==
  ASSUME NEW sign \in Seq(Characters), NEW prefix \in Seq(Characters), NEW ds \in Seq(Characters),
         Len(ds) \in Nat \ {0}, NEW least \in Int, NEW width \in Int, NEW type,
         NEW prec \in Int, Largest(prec, 0) = Largest(least, 0), NEW zeros \in Int,
         zeros = IF "LEFT" \in type \/ "ZEROPAD" \notin type THEN 0
                 ELSE width - Len(sign) - Len(prefix)
  PROVE  LaysOut(sign, prefix, least, ds, width, type, zeros, prec)
<1>1. PICK d \in Nat \ {0}, a \in Nat, b \in Nat : d = Len(ds) /\ a = Len(sign) /\ b = Len(prefix)
  BY LenProperties
<1>2. Largest(zeros, prec) \in Int /\ Largest(zeros, least) \in Int
  BY DEF Largest
<1> DEFINE body == Body(sign, prefix, Largest(zeros, prec), ds)
<1>3. body \in Seq(Characters) /\ Len(body) = a + b + Largest(Largest(zeros, prec), d)
  BY <1>1, <1>2, BodyIs
<1>4. CASE "LEFT" \in type \/ "ZEROPAD" \notin type
  <2>1. zeros = 0
    BY <1>4
  <2>2. Largest(least - d, 0) = Largest(Largest(zeros, prec) - d, 0)
    BY <1>1, <2>1 DEF Largest
  <2>3. Body(sign, prefix, least, ds) = body
    BY <1>1, <1>2, <2>2, BodySame, SMTT(60)
  <2> HIDE DEF body
  <2>4. Laid(sign, prefix, least, ds, width, type) = Side("LEFT" \in type, width, body)
    BY <1>4, <2>3, Zenon DEF Laid, Side
  <2> QED BY <1>3, <2>4, Zenon DEF body, LaysOut
<1>5. CASE "LEFT" \notin type /\ "ZEROPAD" \in type
  <2>1. zeros = width - a - b
    BY <1>1, <1>5
  <2>2. Largest(Largest(zeros, least) - d, 0) = Largest(Largest(zeros, prec) - d, 0)
    <3>1. prec = least \/ (prec <= 0 /\ least <= 0)
      BY DEF Largest
    <3>2. CASE prec <= 0 /\ least <= 0
      BY <1>1, <3>2 DEF Largest
    <3> QED BY <3>1, <3>2
  <2>3. Body(sign, prefix, Largest(zeros, least), ds) = body
    BY <1>1, <1>2, <2>2, BodySame, SMTT(60)
  <2>4. Laid(sign, prefix, least, ds, width, type) = Body(sign, prefix, Largest(zeros, least), ds)
    <3>1. width - Len(sign) - Len(prefix) = zeros
      BY <1>5
    <3> QED BY <1>5, <3>1, Zenon DEF Laid
  <2> HIDE DEF body
  <2>5. width - Len(body) \in Int /\ width - Len(body) <= 0
    BY <1>1, <1>2, <1>3, <2>1 DEF Largest
  <2>6. Times(width - Len(body), " ") = <<>>
    BY <2>5, TimesNone
  <2>7. <<>> \o body = body
    BY <1>3, ConcatEmptySeq
  <2>8. Side("LEFT" \in type, width, body) = body
    BY <1>5, <2>6, <2>7, Zenon DEF Side
  <2> QED BY <1>3, <2>3, <2>4, <2>8, Zenon DEF body, LaysOut
<1> QED BY <1>4, <1>5

(* What PrintNumber and PrintPointer hand to number for an item. *)
BaseOf(x) == CASE x.conversion = "o" -> 8 [] x.conversion \in {"x", "X", "p"} -> 16 [] OTHER -> 10
KindOf(x) == Flags(x) \cup (IF x.conversion = "X" THEN {"LARGE"} ELSE {})
                      \cup (IF x.conversion \in {"d", "i"} THEN {"SIGN"} ELSE {})
Plain(x)  == x.conversion = "p" /\ x.width.how = "missing"

NumberOf(x) ==
  IF x.conversion = "p" THEN x.number % IntMax
  ELSE CASE x.qualifier = "L" -> x.number % LongLongMax
         [] x.qualifier = "Z" -> x.number % IntMax
         [] x.qualifier = "h" -> Extended(x.number % ShortMax, ShortMax, "SIGN" \in KindOf(x))
         [] OTHER -> Extended(x.number % IntMax, IntMax, "SIGN" \in KindOf(x))

(* The parts of NumberText *)
SignText(x) ==
  LET v == NumberMeant(x)
      flags0 == ToSet(x.flags)
      signed == x.conversion \in {"d", "i"}
  IN CASE signed /\ v < 0 -> <<"-">>
       [] signed /\ v >= 0 /\ "+" \in flags0 -> <<"+">>
       [] signed /\ v >= 0 /\ "+" \notin flags0 /\ " " \in flags0 -> <<" ">>
       [] OTHER -> <<>>

PrefixText(x) ==
  CASE "#" \in ToSet(x.flags) /\ BaseOf(x) = 8  -> <<"0">>
    [] "#" \in ToSet(x.flags) /\ BaseOf(x) = 16 -> <<"0", IF x.conversion = "X" THEN "X" ELSE "x">>
    [] OTHER -> <<>>

AbsText(x) == IF NumberMeant(x) < 0 THEN -NumberMeant(x) ELSE NumberMeant(x)

ZerosText(x) ==
  IF "-" \in ToSet(x.flags) \/ (x.width.how # "missing" /\ x.width.n < 0) THEN 0
  ELSE IF Plain(x) THEN PointerDigits - Len(PrefixText(x))
  ELSE IF "0" \in ToSet(x.flags) THEN x.width.n - Len(SignText(x)) - Len(PrefixText(x)) ELSE 0

ListText(x) == IF x.conversion = "X" THEN UpperDigits ELSE LowerDigits

LeastText(x) == IF x.precision.how = "missing" THEN 0 ELSE x.precision.n

BodyText(x) ==
  SignText(x) \o PrefixText(x)
    \o Numeral(AbsText(x), BaseOf(x), Largest(ZerosText(x), LeastText(x)), ListText(x))

LEMMA NumberTextIs ==
  ASSUME NEW x
  PROVE  NumberText(x) =
           IF Plain(x)
             THEN Field([x EXCEPT !.width = [how |-> "digits", n |-> PointerDigits]], BodyText(x))
             ELSE Field(x, BodyText(x))
BY Zenon DEF NumberText, Plain, BodyText, SignText, PrefixText, AbsText, BaseOf, ZerosText, ListText, LeastText

(* The number is the one that is meant. *)
LEMMA ValueRight ==
  ASSUME NEW x \in FormatItems, x.conversion \in Numbers \cup {"p"}
  PROVE  /\ NumberOf(x) \in 0 .. LongLongMax - 1
         /\ NumberMeant(x) \in Int
         /\ (NumberOf(x) >= LongLongMax \div 2 /\ x.conversion \in {"d", "i"}) <=> NumberMeant(x) < 0
         /\ NumberMeant(x) < 0 => (-NumberOf(x)) % LongLongMax = -NumberMeant(x)
         /\ NumberMeant(x) >= 0 => NumberOf(x) = NumberMeant(x)
<1> DEFINE sgn == x.conversion \in {"d", "i"}
           ii   == x.number
<1>1. x.number \in Int /\ x.qualifier \in QualifierChars \cup {"none"} /\ sgn \in BOOLEAN
      /\ x.flags \in Seq(FlagChars)
  BY ItemIs
<1>2. "SIGN" \in KindOf(x) <=> sgn
  <2>1. "SIGN" \notin {FlagOf[x.flags[j]] : j \in 1 .. Len(x.flags)}
    BY <1>1, FlagsAre
  <2>2. "SIGN" \notin Flags(x)
    BY <2>1 DEF Flags
  <2> HIDE DEF sgn
  <2>3. "SIGN" \in KindOf(x) <=> "SIGN" \in (IF x.conversion \in {"d", "i"} THEN {"SIGN"} ELSE {})
    BY <2>2 DEF KindOf
  <2> QED BY <2>3 DEF sgn
<1>3. ("SIGN" \in KindOf(x)) = sgn
  BY <1>2 DEF sgn
<1> HIDE DEF sgn
<1> DEFINE Right(n, v) ==
             /\ n \in 0 .. LongLongMax - 1 /\ v \in Int
             /\ (n >= LongLongMax \div 2 /\ sgn) <=> v < 0
             /\ v < 0 => (-n) % LongLongMax = -v
             /\ v >= 0 => n = v
<1>4. ASSUME NEW size \in {ShortMax, IntMax, LongLongMax} PROVE Right(Widened(ii, size, sgn), Signed(ii, size, sgn))
  BY <1>1, <1>4, WidenedIs, ZenonT(60)
<1>5. Right(ii % IntMax, ii % IntMax)
  <2>1. PICK H \in Nat \ {0}, L \in Nat, ss \in Nat \ {0} :
          L = LongLongMax /\ L = 2 * H /\ ss = IntMax /\ ss <= H
    BY TypeSizes
  <2>2. PICK u \in Nat : u = ii % ss /\ u < ss
    BY <1>1, <2>1, Modulus
  <2>3. L \div 2 = H
    BY <2>1
  <2> QED BY <2>1, <2>2, <2>3
<1>6. /\ NumberOf(x) = IF x.conversion = "p" THEN ii % IntMax
                       ELSE CASE x.qualifier = "L" -> ii % LongLongMax
                              [] x.qualifier = "Z" -> ii % IntMax
                              [] x.qualifier = "h" -> Widened(ii, ShortMax, sgn)
                              [] OTHER -> Widened(ii, IntMax, sgn)
  BY <1>3, Zenon DEF NumberOf, Widened
<1> DEFINE size == CASE x.conversion # "p" /\ x.qualifier = "L" -> LongLongMax
                     [] x.conversion # "p" /\ x.qualifier = "h" -> ShortMax
                     [] OTHER -> IntMax
<1>7. NumberMeant(x) = Signed(ii, size, sgn /\ x.qualifier # "Z")
  BY Zenon DEF NumberMeant, Signed, sgn
<1>8. x.conversion = "p" => ~sgn
  BY DEF sgn
<1> HIDE DEF Right
<1>9. Right(NumberOf(x), NumberMeant(x))
  <2>0. \A t : Signed(ii, t, FALSE) = ii % t
    BY DEF Signed
  <2>1. CASE x.conversion = "p"
    <3>1. NumberOf(x) = ii % IntMax /\ size = IntMax /\ (sgn /\ x.qualifier # "Z") = FALSE
      <4>1. NumberOf(x) = ii % IntMax
        BY <1>6, <1>8, <2>1
      <4>2. size = IntMax
        BY <1>6, <1>8, <2>1
      <4>3. (sgn /\ x.qualifier # "Z") = FALSE
        BY <1>8, <2>1, Zenon
      <4> QED BY <4>1, <4>2, <4>3, Zenon
    <3>2. NumberMeant(x) = ii % IntMax
      BY <1>7, <2>0, <3>1, Zenon
    <3> QED BY <1>5, <3>1, <3>2, Zenon
  <2>2. CASE x.conversion # "p" /\ x.qualifier = "L"
    <3>1. NumberOf(x) = ii % LongLongMax /\ size = LongLongMax /\ (sgn /\ x.qualifier # "Z") = sgn
      <4>1. NumberOf(x) = ii % LongLongMax
        BY <1>6, <2>2
      <4>2. size = LongLongMax
        BY <1>6, <2>2
      <4>3. (sgn /\ x.qualifier # "Z") = sgn
        BY <1>1, <2>2
      <4> QED BY <4>1, <4>2, <4>3, Zenon
    <3>2. NumberOf(x) = Widened(ii, LongLongMax, sgn)
      BY <1>1, <3>1, WidenedLongLong
    <3>3. NumberMeant(x) = Signed(ii, LongLongMax, sgn)
      BY <1>7, <3>1, Zenon
    <3> QED BY <1>4, <3>2, <3>3, Zenon
  <2>3. CASE x.conversion # "p" /\ x.qualifier = "Z"
    <3>1. NumberOf(x) = ii % IntMax /\ size = IntMax /\ (sgn /\ x.qualifier # "Z") = FALSE
      <4>1. NumberOf(x) = ii % IntMax
        BY <1>6, <2>3
      <4>2. size = IntMax
        BY <1>6, <2>3
      <4>3. (sgn /\ x.qualifier # "Z") = FALSE
        BY <1>6, <2>3, Zenon
      <4> QED BY <4>1, <4>2, <4>3, Zenon
    <3>2. NumberMeant(x) = ii % IntMax
      BY <1>7, <2>0, <3>1, Zenon
    <3> QED BY <1>5, <3>1, <3>2, Zenon
  <2>4. CASE x.conversion # "p" /\ x.qualifier = "h"
    <3>1. NumberOf(x) = Widened(ii, ShortMax, sgn) /\ size = ShortMax /\ (sgn /\ x.qualifier # "Z") = sgn
      <4>1. NumberOf(x) = Widened(ii, ShortMax, sgn)
        BY <1>6, <2>4
      <4>2. size = ShortMax
        BY <1>6, <2>4
      <4>3. (sgn /\ x.qualifier # "Z") = sgn
        BY <1>1, <2>4
      <4> QED BY <4>1, <4>2, <4>3, Zenon
    <3>2. NumberMeant(x) = Signed(ii, ShortMax, sgn)
      BY <1>7, <3>1, Zenon
    <3> QED BY <1>4, <3>1, <3>2, Zenon
  <2>5. CASE x.conversion # "p" /\ x.qualifier \notin {"L", "Z", "h"}
    <3>1. NumberOf(x) = Widened(ii, IntMax, sgn) /\ size = IntMax /\ (sgn /\ x.qualifier # "Z") = sgn
      <4>1. NumberOf(x) = Widened(ii, IntMax, sgn)
        BY <1>6, <2>5
      <4>2. size = IntMax
        BY <1>6, <2>5
      <4>3. (sgn /\ x.qualifier # "Z") = sgn
        BY <1>1, <2>5
      <4> QED BY <4>1, <4>2, <4>3, Zenon
    <3>2. NumberMeant(x) = Signed(ii, IntMax, sgn)
      BY <1>7, <3>1, Zenon
    <3> QED BY <1>4, <3>1, <3>2, Zenon
  <2> QED BY <2>1, <2>2, <2>3, <2>4, <2>5
<1> QED BY <1>9, Zenon DEF Right, sgn

(* The text of a number is the one that is meant. *)
NumberWidth(x) == IF Plain(x) THEN PointerDigits ELSE WidthOf(x)
NumberKind(x)  == IF Plain(x) THEN KindOf(x) \cup {"ZEROPAD"} ELSE KindOf(x)

LEMMA KindIs ==
  ASSUME NEW x \in FormatItems, x.conversion \in Numbers \cup {"p"}
  PROVE  LET k == NumberKind(x)
             set == ToSet(x.flags)
         IN  /\ "LEFT" \in k <=> "-" \in set \/ (x.width.how # "missing" /\ x.width.n < 0)
             /\ "PLUS" \in k <=> "+" \in set
             /\ "SPACE" \in k <=> " " \in set
             /\ "SPECIAL" \in k <=> "#" \in set
             /\ "ZEROPAD" \in k <=> "0" \in set \/ Plain(x)
             /\ "LARGE" \in k <=> x.conversion = "X"
             /\ "SIGN" \in k <=> x.conversion \in {"d", "i"}
             /\ "LEFT" \in k <=> "LEFT" \in Flags(x)
<1> DEFINE bits == {FlagOf[x.flags[j]] : j \in 1 .. Len(x.flags)}
           set  == ToSet(x.flags)
           star == IF x.width.how = "star" /\ x.width.n < 0 THEN {"LEFT"} ELSE {}
           large == IF x.conversion = "X" THEN {"LARGE"} ELSE {}
           sgn  == IF x.conversion \in {"d", "i"} THEN {"SIGN"} ELSE {}
           zero == IF Plain(x) THEN {"ZEROPAD"} ELSE {}
           k == NumberKind(x)
<1>1. /\ x.flags \in Seq(FlagChars) /\ x.width.how \in {"missing", "digits", "star"} /\ x.width.n \in Int
      /\ x.width.how = "missing" => x.width.n = -1
      /\ x.width.how = "digits" => x.width.n >= 0
  BY ItemIs
<1>2. /\ "LEFT" \in bits <=> "-" \in set
      /\ "PLUS" \in bits <=> "+" \in set
      /\ "SPACE" \in bits <=> " " \in set
      /\ "SPECIAL" \in bits <=> "#" \in set
      /\ "ZEROPAD" \in bits <=> "0" \in set
      /\ "LARGE" \notin bits /\ "SIGN" \notin bits
  BY <1>1, FlagsAre
<1>3. Flags(x) = bits \cup star
  BY Zenon DEF Flags
<1>4. KindOf(x) = (bits \cup star) \cup large \cup sgn
  BY <1>3, Zenon DEF KindOf
<1>5. NumberKind(x) = ((bits \cup star) \cup large \cup sgn) \cup zero
  BY <1>4 DEF NumberKind
<1>6. "LEFT" \in star <=> x.width.how # "missing" /\ x.width.n < 0
  BY <1>1
<1>7. /\ "PLUS" \notin star /\ "SPACE" \notin star /\ "SPECIAL" \notin star /\ "ZEROPAD" \notin star
      /\ "LARGE" \notin star /\ "SIGN" \notin star
  OBVIOUS
<1>8. /\ "LEFT" \notin large /\ "PLUS" \notin large /\ "SPACE" \notin large /\ "SPECIAL" \notin large
      /\ "ZEROPAD" \notin large /\ "SIGN" \notin large /\ ("LARGE" \in large <=> x.conversion = "X")
  OBVIOUS
<1>9. /\ "LEFT" \notin sgn /\ "PLUS" \notin sgn /\ "SPACE" \notin sgn /\ "SPECIAL" \notin sgn
      /\ "ZEROPAD" \notin sgn /\ "LARGE" \notin sgn /\ ("SIGN" \in sgn <=> x.conversion \in {"d", "i"})
  OBVIOUS
<1>10. /\ "LEFT" \notin zero /\ "PLUS" \notin zero /\ "SPACE" \notin zero /\ "SPECIAL" \notin zero
       /\ "SIGN" \notin zero /\ "LARGE" \notin zero /\ ("ZEROPAD" \in zero <=> Plain(x))
  OBVIOUS
<1> HIDE DEF bits, set, star, large, sgn, zero
<1>11. /\ "LEFT" \in k <=> "-" \in set \/ (x.width.how # "missing" /\ x.width.n < 0)
       /\ "PLUS" \in k <=> "+" \in set
       /\ "SPACE" \in k <=> " " \in set
       /\ "SPECIAL" \in k <=> "#" \in set
  BY <1>2, <1>5, <1>6, <1>7, <1>8, <1>9, <1>10
<1>12. /\ "ZEROPAD" \in k <=> "0" \in set \/ Plain(x)
       /\ "LARGE" \in k <=> x.conversion = "X"
       /\ "SIGN" \in k <=> x.conversion \in {"d", "i"}
       /\ "LEFT" \in k <=> "LEFT" \in Flags(x)
  BY <1>2, <1>3, <1>5, <1>7, <1>8, <1>9, <1>10
<1> QED BY <1>11, <1>12, Zenon DEF set

(* For every number, flags, width, precision and qualifier: number writes  *)
(* the sign, prefix, digits and padding that the conversion asks for, and  *)
(* the number it is given is that of the type that the qualifier names     *)
(* (vsprintf.c:42-137, 281-289, 349-373). *)
THEOREM NumberRight ==
  ASSUME NEW x \in FormatItems, x.conversion \in Numbers \cup {"p"}
  PROVE  /\ number(NumberOf(x), BaseOf(x), NumberWidth(x), PrecisionOf(x), NumberKind(x)) = NumberText(x)
         /\ NumberText(x) \in Seq(Characters)
<1> DEFINE k == NumberKind(x)
           set == ToSet(x.flags)
           n == NumberOf(x)
           base == BaseOf(x)
           width == NumberWidth(x)
           least == PrecisionOf(x)
           sign == SignText(x)
           prefix == PrefixText(x)
           zeros == ZerosText(x)
           prec == LeastText(x)
           body == BodyText(x)
           y == IF Plain(x) THEN [x EXCEPT !.width = [how |-> "digits", n |-> PointerDigits]] ELSE x
<1>1. /\ x.flags \in Seq(FlagChars) /\ x.width.how \in {"missing", "digits", "star"} /\ x.width.n \in Int
      /\ x.width.how = "missing" => x.width.n = -1
      /\ x.width.how = "digits" => x.width.n >= 0
      /\ x.precision.n \in Int
  BY ItemIs
<1>2. /\ "LEFT" \in k <=> "-" \in set \/ (x.width.how # "missing" /\ x.width.n < 0)
      /\ "PLUS" \in k <=> "+" \in set
      /\ "SPACE" \in k <=> " " \in set
      /\ "SPECIAL" \in k <=> "#" \in set
      /\ "ZEROPAD" \in k <=> "0" \in set \/ Plain(x)
      /\ "LARGE" \in k <=> x.conversion = "X"
      /\ "SIGN" \in k <=> x.conversion \in {"d", "i"}
      /\ "LEFT" \in k <=> "LEFT" \in Flags(x)
  BY KindIs, Zenon
<1>3. /\ n \in 0 .. LongLongMax - 1
      /\ NumberMeant(x) \in Int
      /\ (n >= LongLongMax \div 2 /\ x.conversion \in {"d", "i"}) <=> NumberMeant(x) < 0
      /\ NumberMeant(x) < 0 => (-n) % LongLongMax = -NumberMeant(x)
      /\ NumberMeant(x) >= 0 => n = NumberMeant(x)
  BY ValueRight, Zenon
<1>4. PICK P \in Nat \ {0} : P = PointerDigits
  BY Widths
<1>5. base \in Bases
  BY DEF BaseOf, Bases
<1>6. width \in Int /\ least \in Int
  BY <1>1, <1>4 DEF NumberWidth, WidthOf, PrecisionOf, Largest
<1>7. prec \in Int /\ Largest(prec, 0) = Largest(least, 0)
  BY <1>1 DEF LeastText, PrecisionOf, Largest
<1>8. SizeOf(k, n) = AbsText(x)
  <2>1. NumberMeant(x) < 0 \/ NumberMeant(x) >= 0
    BY <1>3
  <2> HIDE DEF k, n
  <2>2. CASE NumberMeant(x) < 0
    BY <1>2, <1>3, <2>2, Zenon DEF SizeOf, AbsText
  <2>3. CASE NumberMeant(x) >= 0
    <3>1. ~(NumberMeant(x) < 0)
      BY <1>3, <2>3
    <3> QED BY <1>2, <1>3, <2>3, <3>1, Zenon DEF SizeOf, AbsText
  <2> QED BY <2>1, <2>2, <2>3
<1>9. SignOf(k, n) = sign
  <2> HIDE DEF k, n, set
  <2>1. CASE x.conversion \notin {"d", "i"}
    <3>1. SignOf(k, n) = <<>>
      BY <1>2, <2>1, Zenon DEF SignOf
    <3>2. sign = <<>>
      BY <2>1, <1>3 DEF SignText
    <3> QED BY <3>1, <3>2
  <2>2. CASE x.conversion \in {"d", "i"} /\ NumberMeant(x) < 0
    <3>1. SignOf(k, n) = <<"-">>
      BY <1>2, <1>3, <2>2, Zenon DEF SignOf
    <3>2. ~(NumberMeant(x) >= 0)
      BY <1>3, <2>2
    <3>3. sign = <<"-">>
      BY <2>2, <3>2 DEF SignText
    <3> QED BY <3>1, <3>3
  <2>3. CASE x.conversion \in {"d", "i"} /\ NumberMeant(x) >= 0
    <3>1. ~(NumberMeant(x) < 0)
      BY <1>3, <2>3
    <3> DEFINE t == IF "+" \in set THEN <<"+">> ELSE IF " " \in set THEN <<" ">> ELSE <<>>
    <3>2. SignOf(k, n) = t
      BY <1>2, <1>3, <2>3, <3>1, Zenon DEF SignOf
    <3>3. sign = t
      BY <2>3, <3>1 DEF SignText, set
    <3> HIDE DEF t
    <3> QED BY <3>2, <3>3, Zenon
  <2>4. NumberMeant(x) < 0 \/ NumberMeant(x) >= 0
    BY <1>3
  <2>5. /\ x.conversion \notin {"d", "i"} => SignOf(k, n) = sign
        /\ x.conversion \in {"d", "i"} /\ NumberMeant(x) < 0 => SignOf(k, n) = sign
        /\ x.conversion \in {"d", "i"} /\ NumberMeant(x) >= 0 => SignOf(k, n) = sign
    BY <2>1, <2>2, <2>3, Zenon
  <2> QED BY <2>4, <2>5
<1>10. PrefixOf(k, base) = prefix
  <2>1. (base = 16 \/ base = 8 \/ base = 10) /\ ~(8 = 16) /\ ~(10 = 16) /\ ~(10 = 8) /\ ~(16 = 8)
    BY <1>5 DEF Bases
  <2>2. x.conversion = "X" <=> "LARGE" \in k
    BY <1>2
  <2> HIDE DEF k, base, set
  <2>3. PrefixOf(k, base) =
          IF "#" \notin set THEN <<>>
          ELSE IF base = 16 THEN <<"0", IF x.conversion = "X" THEN "X" ELSE "x">>
          ELSE IF base = 8 THEN <<"0">> ELSE <<>>
    BY <1>2, <2>2, Zenon DEF PrefixOf
  <2>4. prefix = IF "#" \notin set THEN <<>>
          ELSE IF base = 16 THEN <<"0", IF x.conversion = "X" THEN "X" ELSE "x">>
          ELSE IF base = 8 THEN <<"0">> ELSE <<>>
    BY <2>1 DEF PrefixText, set, base
  <2> HIDE DEF prefix
  <2> QED BY <2>3, <2>4, Zenon
<1>11. DigitsOf(k) = ListText(x)
  BY <1>2 DEF DigitsOf, ListText
<1>12. PICK ds \in Seq(Characters) :
         /\ Len(ds) \in Nat \ {0}
         /\ \A z \in Int : Numeral(SizeOf(k, n), base, z, DigitsOf(k)) = Times(z - Len(ds), "0") \o ds
         /\ number(n, base, width, least, k) = Laid(SignOf(k, n), PrefixOf(k, base), least, ds, width, k)
  <2> HIDE DEF k, n, base, width, least
  <2>1. \E ds \in Seq(Characters) : Lays(base, n, width, least, k, ds)
    BY <1>3, <1>5, <1>6, NumberIs
  <2> QED BY <2>1, Zenon DEF Lays
<1>13. sign \in Seq(Characters) /\ prefix \in Seq(Characters)
  <2>1. \A c, e \in Characters : <<>> \in Seq(Characters) /\ <<c>> \in Seq(Characters) /\ <<c, e>> \in Seq(Characters)
    OBVIOUS
  <2>2. "0" \in Characters /\ " " \in Characters /\ "+" \in Characters /\ "-" \in Characters
        /\ "x" \in Characters /\ "X" \in Characters
    BY Known
  <2>3. SignOf(k, n) \in Seq(Characters)
    BY <2>1, <2>2 DEF SignOf
  <2>4. PrefixOf(k, base) \in Seq(Characters)
    BY <2>1, <2>2 DEF PrefixOf
  <2> QED BY <1>9, <1>10, <2>3, <2>4, Zenon
<1>14. /\ zeros \in Int
       /\ zeros = IF "LEFT" \in k \/ "ZEROPAD" \notin k THEN 0 ELSE width - Len(sign) - Len(prefix)
  <2>1. PICK a \in Nat, b \in Nat : a = Len(sign) /\ b = Len(prefix)
    BY <1>13, LenProperties
  <2>2. CASE "LEFT" \in k
    <3>1. zeros = 0
      BY <1>2, <2>2, Zenon DEF ZerosText
    <3> QED BY <2>2, <3>1
  <2>3. CASE "LEFT" \notin k /\ Plain(x)
    <3>1. zeros = PointerDigits - Len(prefix)
      BY <1>2, <2>3, Zenon DEF ZerosText
    <3>2. sign = <<>>
      BY <2>3, <1>3 DEF SignText, Plain
    <3>3. width = PointerDigits /\ a = 0 /\ "ZEROPAD" \in k
      BY <1>2, <2>1, <2>3, <3>2 DEF NumberWidth
    <3> HIDE DEF zeros, width, sign, prefix, k
    <3> QED BY <1>4, <2>1, <2>3, <3>1, <3>3
  <2>4. CASE "LEFT" \notin k /\ ~Plain(x) /\ "0" \in set
    <3>1. zeros = x.width.n - Len(sign) - Len(prefix)
      BY <1>2, <2>4, Zenon DEF ZerosText
    <3>2. width = x.width.n /\ "ZEROPAD" \in k
      <4>1. x.width.how = "missing" \/ ~(x.width.n < 0)
        BY <1>2, <2>4
      <4>2. width = x.width.n
        BY <1>1, <2>4, <4>1 DEF NumberWidth, WidthOf
      <4> QED BY <1>2, <2>4, <4>2
    <3> HIDE DEF zeros, width, sign, prefix, k
    <3> QED BY <1>1, <2>1, <2>4, <3>1, <3>2
  <2>5. CASE "LEFT" \notin k /\ ~Plain(x) /\ "0" \notin set
    <3>1. zeros = 0 /\ "ZEROPAD" \notin k
      BY <1>2, <2>5, Zenon DEF ZerosText
    <3> QED BY <2>5, <3>1
  <2> QED BY <2>2, <2>3, <2>4, <2>5
<1>15. body = Body(sign, prefix, Largest(zeros, prec), ds)
  <2>1. Largest(zeros, prec) \in Int
    BY <1>7, <1>14 DEF Largest
  <2> HIDE DEF zeros, prec, sign, prefix, k, n, base
  <2>2. Numeral(AbsText(x), base, Largest(zeros, prec), ListText(x))
          = Times(Largest(zeros, prec) - Len(ds), "0") \o ds
    BY <1>8, <1>11, <1>12, <2>1, Zenon
  <2> QED BY <2>2, Zenon DEF BodyText, Body, zeros, prec, sign, prefix, base
<1>16. /\ Laid(sign, prefix, least, ds, width, k) = Side("LEFT" \in k, width, body)
       /\ body \in Seq(Characters)
  <2> HIDE DEF zeros, prec, sign, prefix, k, n, base, width, least, body
  <2>1. LaysOut(sign, prefix, least, ds, width, k, zeros, prec)
    BY <1>6, <1>7, <1>12, <1>13, <1>14, LaidIs
  <2> QED BY <1>15, <2>1, Zenon DEF LaysOut
<1>17. /\ WidthKnown(y) /\ y.flags \in Seq(FlagChars) /\ WidthOf(y) = width
       /\ "LEFT" \in Flags(y) <=> "LEFT" \in k
  <2>1. CASE Plain(x)
    <3>1. y.flags = x.flags /\ y.width = [how |-> "digits", n |-> PointerDigits]
      BY <2>1 DEF FormatItems
    <3>2. y.width.how = "digits" /\ y.width.n = P /\ P > 0
      BY <1>4, <3>1
    <3> HIDE DEF y
    <3>3. WidthKnown(y) /\ WidthOf(y) = P
      BY <3>2 DEF WidthKnown, WidthOf
    <3>4. width = P
      BY <1>4, <2>1 DEF NumberWidth
    <3>5. Flags(y) = {FlagOf[x.flags[j]] : j \in 1 .. Len(x.flags)}
      BY <3>1, <3>2 DEF Flags
    <3>6. Flags(x) = {FlagOf[x.flags[j]] : j \in 1 .. Len(x.flags)}
      BY <2>1 DEF Flags, Plain
    <3> QED BY <1>1, <1>2, <3>1, <3>3, <3>4, <3>5, <3>6, Zenon
  <2>2. CASE ~Plain(x)
    <3>1. y = x /\ width = WidthOf(x)
      BY <2>2 DEF NumberWidth
    <3>2. WidthKnown(x)
      BY <1>1 DEF WidthKnown
    <3> HIDE DEF y, width
    <3> QED BY <1>1, <1>2, <3>1, <3>2, Zenon
  <2> QED BY <2>1, <2>2
<1>18. NumberText(x) = Field(y, body)
  BY NumberTextIs, Zenon
<1> HIDE DEF y, body, k, width, n, base, sign, prefix, least
<1>19. Field(y, body) = Side("LEFT" \in Flags(y), WidthOf(y), body)
  BY <1>16, <1>17, FieldIs
<1>20. ("LEFT" \in Flags(y)) = ("LEFT" \in k)
  BY <1>17
<1>21. number(n, base, width, least, k) = NumberText(x)
  BY <1>9, <1>10, <1>12, <1>16, <1>17, <1>18, <1>19, <1>20, Zenon
<1>22. Side("LEFT" \in k, width, body) \in Seq(Characters)
  <2> DEFINE z == Times(width - Len(body), " ")
  <2>1. width - Len(body) \in Int
    BY <1>6, <1>16, LenProperties
  <2>2. z \in Seq(Characters)
    BY <2>1, Known, TimesIs
  <2> HIDE DEF z
  <2>3. body \o z \in Seq(Characters) /\ z \o body \in Seq(Characters)
    BY <1>16, <2>2, ConcatProperties
  <2> QED BY <2>3, Zenon DEF Side, z
<1> QED BY <1>17, <1>18, <1>19, <1>20, <1>21, <1>22, Zenon DEF k, width, n, base, least

(* Numbers in a format *)
LEMMA DigitKnown ==
  ASSUME NEW r \in 0 .. 9
  PROVE  /\ LowerDigits[r + 1] \in DecimalDigits
         /\ DigitValue[LowerDigits[r + 1]] = r
         /\ LowerDigits[r + 1] = "0" <=> r = 0
         /\ LowerDigits[r + 1] \notin {"-", "+", " ", "#", "*", ".", "h", "l", "L", "Z"}
<1>1. r + 1 \in 1 .. 10
  OBVIOUS
<1>2. LowerDigits[r + 1] \in DecimalDigits
  BY <1>1, Zenon DEF DecimalDigits
<1>3. \A d \in 0 .. 9 : d + 1 \in {1, 2, 3, 4, 5, 6, 7, 8, 9, 10}
  OBVIOUS
<1>4. /\ LowerDigits[1] = "0" /\ LowerDigits[2] = "1" /\ LowerDigits[3] = "2" /\ LowerDigits[4] = "3"
      /\ LowerDigits[5] = "4" /\ LowerDigits[6] = "5" /\ LowerDigits[7] = "6" /\ LowerDigits[8] = "7"
      /\ LowerDigits[9] = "8" /\ LowerDigits[10] = "9"
  BY DEF LowerDigits
<1>5. r = 0 \/ r = 1 \/ r = 2 \/ r = 3 \/ r = 4 \/ r = 5 \/ r = 6 \/ r = 7 \/ r = 8 \/ r = 9
  OBVIOUS
<1>6. \A d \in 0 .. 9 : LowerDigits[d + 1] = LowerDigits[r + 1] => d = r
  <2>1. SUFFICES ASSUME NEW d \in 0 .. 9, LowerDigits[d + 1] = LowerDigits[r + 1] PROVE d = r
    OBVIOUS
  <2>2. d = 0 \/ d = 1 \/ d = 2 \/ d = 3 \/ d = 4 \/ d = 5 \/ d = 6 \/ d = 7 \/ d = 8 \/ d = 9
    OBVIOUS
  <2> QED BY <1>4, <1>5, <2>1, <2>2
<1>7. DigitValue[LowerDigits[r + 1]] = CHOOSE d \in 0 .. 9 : LowerDigits[d + 1] = LowerDigits[r + 1]
  BY <1>2, Zenon DEF DigitValue
<1>8. DigitValue[LowerDigits[r + 1]] = r
  BY <1>6, <1>7
<1>9. LowerDigits[r + 1] = "0" <=> r = 0
  BY <1>4, <1>5
<1>10. LowerDigits[r + 1] \notin {"-", "+", " ", "#", "*", ".", "h", "l", "L", "Z"}
  <2>1. LowerDigits[r + 1] \in {"0", "1", "2", "3", "4", "5", "6", "7", "8", "9"}
    BY <1>4, <1>5
  <2>2. \A c \in {"0", "1", "2", "3", "4", "5", "6", "7", "8", "9"} :
          c \notin {"-", "+", " ", "#", "*", ".", "h", "l", "L", "Z"}
    OBVIOUS
  <2> QED BY <2>1, <2>2
<1> QED BY <1>2, <1>8, <1>9, <1>10

LEMMA DecimalIs ==
  ASSUME NEW n \in 0 .. LongLongMax - 1
  PROVE  \E d \in 1 .. 2 * IntBits :
           /\ Decimal(n) \in Seq(Characters) /\ Len(Decimal(n)) = d /\ Needs(n, 10, d)
           /\ \A j \in 1 .. d : /\ (n \div Power(10, d - j)) % 10 \in 0 .. 9
                                /\ Decimal(n)[j] = LowerDigits[((n \div Power(10, d - j)) % 10) + 1]
<1> DEFINE tmp == Tmp(n, 10)
           row == DigitRow(tmp, LowerDigits)
<1>1. 10 \in Bases /\ 10 \in {8, 10, 16} /\ LowerDigits \in DigitLists /\ 1 \in Int
  BY DEF Bases, DigitLists
<1>2. /\ Len(tmp) \in Nat \ {0} /\ row \in Seq(Characters) /\ Len(row) = Len(tmp)
      /\ Decimal(n) = Times(1 - Len(tmp), "0") \o row
  BY <1>1, DigitsAre DEF Decimal
<1>3. /\ Len(tmp) \in 1 .. 2 * IntBits /\ Needs(n, 10, Len(tmp))
      /\ \A j \in 1 .. Len(tmp) : tmp[j] = (n \div Power(10, j - 1)) % 10
  BY <1>1, TmpIs
<1>4. PICK d \in 1 .. 2 * IntBits : d = Len(tmp)
  BY <1>3
<1> HIDE DEF tmp
<1>5. \A j \in 1 .. d : row[j] = LowerDigits[tmp[d + 1 - j] + 1]
  BY <1>4 DEF DigitRow
<1>6. \A j \in 1 .. d : d + 1 - j \in 1 .. d /\ (d + 1 - j) - 1 = d - j
  BY <1>2, <1>4
<1>7. \A j \in 1 .. d : row[j] = LowerDigits[((n \div Power(10, d - j)) % 10) + 1]
  BY <1>3, <1>4, <1>5, <1>6
<1>8. ASSUME NEW j \in 1 .. d PROVE (n \div Power(10, d - j)) % 10 \in 0 .. 9
  <2>1. n \in Nat /\ 10 \in Nat \ {0}
    BY TypeSizes
  <2>2. d - j \in 0 .. 2 * IntBits
    BY <1>2, <1>4, Widths
  <2>3. Power(10, d - j) \in Nat \ {0}
    BY <2>1, <2>2, PowerAt
  <2>4. PICK q \in Nat : q = n \div Power(10, d - j)
    BY <2>1, <2>3, DivMod
  <2>5. q % 10 \in 0 .. 9
    OBVIOUS
  <2> QED BY <2>4, <2>5
<1> HIDE DEF row
<1>9. Decimal(n) = row
  <2>1. 1 - Len(tmp) \in Int /\ 1 - Len(tmp) <= 0
    BY <1>2
  <2>2. Times(1 - Len(tmp), "0") = <<>>
    BY <2>1, TimesNone
  <2>3. <<>> \o row = row
    BY <1>2, ConcatEmptySeq
  <2> QED BY <1>2, <2>2, <2>3, Zenon
<1>10. Decimal(n) \in Seq(Characters) /\ Len(Decimal(n)) = d /\ Needs(n, 10, d)
  BY <1>2, <1>3, <1>4, <1>9, Zenon
<1>11. \A j \in 1 .. d : /\ (n \div Power(10, d - j)) % 10 \in 0 .. 9
                         /\ Decimal(n)[j] = LowerDigits[((n \div Power(10, d - j)) % 10) + 1]
  BY <1>7, <1>8, <1>9, Zenon
<1> QED BY <1>10, <1>11, Zenon

(* skip_atoi gives back each number that is written out in the format, and *)
(* stops at the first character behind it (vsprintf.c:22-32). *)
THEOREM NumberRead ==
  ASSUME NEW n \in 0 .. LongLongMax - 1, NEW k \in Nat \ {0}, format \in Seq(Characters),
         k + Len(Decimal(n)) \in 1 .. Len(format) + 1,
         \A j \in 1 .. Len(Decimal(n)) : Char(k + j - 1) = Decimal(n)[j],
         Char(k + Len(Decimal(n))) \notin DecimalDigits
  PROVE  DigitsEnd(k) = k + Len(Decimal(n)) /\ skip_atoi(k) = n
<1>1. PICK d \in 1 .. 2 * IntBits :
           /\ Len(Decimal(n)) = d /\ Needs(n, 10, d)
           /\ \A j \in 1 .. d : /\ (n \div Power(10, d - j)) % 10 \in 0 .. 9
                                /\ Decimal(n)[j] = LowerDigits[((n \div Power(10, d - j)) % 10) + 1]
  BY DecimalIs
<1>2. PICK N \in Nat : N = 2 * IntBits
  BY Widths
<1>3. d \in Nat /\ d <= N /\ n \in Nat /\ Len(format) \in Nat /\ k + d <= Len(format) + 1
  BY <1>1, <1>2, TypeSizes
<1>4. \A j \in 1 .. d : /\ Char(k + j - 1) \in DecimalDigits
                        /\ DigitValue[Char(k + j - 1)] = (n \div Power(10, d - j)) % 10
  <2>1. ASSUME NEW j \in 1 .. d
        PROVE  /\ Char(k + j - 1) \in DecimalDigits
               /\ DigitValue[Char(k + j - 1)] = (n \div Power(10, d - j)) % 10
    <3>1. PICK r \in 0 .. 9 : r = (n \div Power(10, d - j)) % 10
      BY <1>1
    <3>2. Char(k + j - 1) = LowerDigits[r + 1]
      BY <1>1, <3>1, Zenon
    <3>3. LowerDigits[r + 1] \in DecimalDigits /\ DigitValue[LowerDigits[r + 1]] = r
      BY DigitKnown
    <3> QED BY <3>1, <3>2, <3>3, Zenon
  <2> QED BY <2>1
<1>5. \A e \in k .. k + d - 1 : Char(e) \in DecimalDigits
  <2>1. ASSUME NEW e \in k .. k + d - 1 PROVE Char(e) \in DecimalDigits
    <3>1. PICK j \in 1 .. d : k + j - 1 = e
      <4>1. e - k + 1 \in 1 .. d /\ k + (e - k + 1) - 1 = e
        BY <1>3
      <4> QED BY <4>1
    <3> QED BY <1>4, <3>1
  <2> QED BY <2>1
<1>6. DigitsEnd(k) = k + d
  <2> DEFINE Ends(e) == /\ Char(e) \notin DecimalDigits
                        /\ \A j \in k .. e - 1 : Char(j) \in DecimalDigits
             E == k + d
  <2>1. Char(E) \notin DecimalDigits
    BY <1>1
  <2>2. Ends(E) /\ E \in k .. Len(format) + 1
    BY <1>3, <1>5, <2>1
  <2>3. ASSUME NEW e \in k .. Len(format) + 1, Ends(e) PROVE e = E
    <3>1. CASE e < E
      <4>1. e \in k .. k + d - 1
        BY <1>3, <3>1
      <4> QED BY <1>5, <2>3, <4>1
    <3>2. CASE e > E
      <4>1. E \in k .. e - 1
        BY <1>3, <3>2
      <4> HIDE DEF E
      <4> QED BY <2>1, <2>3, <4>1
    <3> QED BY <1>3, <3>1, <3>2
  <2>4. DigitsEnd(k) = CHOOSE e \in k .. Len(format) + 1 : Ends(e)
    BY Zenon DEF DigitsEnd
  <2> HIDE DEF Ends, E
  <2>5. DigitsEnd(k) = E
    BY <2>2, <2>3, <2>4
  <2> QED BY <2>5 DEF E
<1>7. DigitsEnd(k) - k = d
  BY <1>3, <1>6
<1> DEFINE D == [n0 \in Nat |-> (n \div Power(10, d - n0)) % 10]
           G == [j \in Nat |-> [v \in Nat |-> v * 10 + D[j]]]
           h == CHOOSE V : V = [j \in 0 .. d |-> IF j = 0 THEN 0 ELSE V[j - 1] * 10 + DigitValue[Char(k + j - 1)]]
           q(j) == n \div Power(10, d - j)
<1>8. skip_atoi(k) = h[d]
  BY <1>7, Zenon DEF skip_atoi
<1>9. \A j \in 0 .. d : Power(10, d - j) \in Nat \ {0} /\ q(j) \in Nat
  <2>1. ASSUME NEW j \in 0 .. d PROVE Power(10, d - j) \in Nat \ {0} /\ q(j) \in Nat
    <3>1. d - j \in 0 .. 2 * IntBits /\ 10 \in Nat \ {0}
      BY <1>2, <1>3
    <3>2. Power(10, d - j) \in Nat \ {0}
      BY <3>1, PowerAt
    <3> QED BY <1>3, <3>2, DivMod
  <2> QED BY <2>1
<1>10. q(0) = 0 /\ q(d) = n
  <2>1. d - 0 = d /\ d - d = 0 /\ 0 \in 0 .. d /\ 10 \in Nat \ {0}
    BY <1>3
  <2>2. Power(10, 0) = 1
    BY <2>1, PowerAt
  <2>3. q(d) = n
    BY <1>3, <2>1, <2>2
  <2>4. PICK pp \in Nat \ {0} : pp = Power(10, d)
    BY <1>9, <2>1
  <2>5. n < pp
    BY <1>1, <2>4 DEF Needs
  <2>6. n = 0 * pp + n /\ n \in 0 .. pp - 1
    BY <1>3, <2>5
  <2>7. n \div pp = 0
    BY <2>4, <2>6, DivUnique
  <2> QED BY <2>1, <2>3, <2>4, <2>7
<1>11. \A j \in 1 .. d : q(j) = q(j - 1) * 10 + DigitValue[Char(k + j - 1)]
  <2>1. ASSUME NEW j \in 1 .. d PROVE q(j) = q(j - 1) * 10 + DigitValue[Char(k + j - 1)]
    <3>1. d - (j - 1) \in 1 .. 2 * IntBits /\ (d - (j - 1)) - 1 = d - j /\ 10 \in Nat \ {0}
          /\ j \in 0 .. d /\ j - 1 \in 0 .. d
      BY <1>2, <1>3
    <3>2. PICK pp \in Nat \ {0}, u \in Nat : pp = Power(10, d - j) /\ u = q(j) /\ u = n \div pp
      BY <1>9, <3>1
    <3>3. Power(10, d - (j - 1)) = 10 * pp
      BY <3>1, <3>2, PowerAt
    <3>4. (n \div pp) \div 10 = n \div (pp * 10)
      BY <1>3, <3>1, DivTwice
    <3>5. pp * 10 = 10 * pp
      OBVIOUS
    <3>6. q(j - 1) = u \div 10
      BY <3>2, <3>3, <3>4, <3>5, Zenon
    <3>7. DigitValue[Char(k + j - 1)] = u % 10
      BY <1>4, <3>2
    <3>8. u = (u \div 10) * 10 + (u % 10)
      OBVIOUS
    <3> QED BY <3>2, <3>6, <3>7, <3>8, Zenon
  <2> QED BY <2>1
<1> HIDE DEF q
<1> DEFINE f == [j \in 0 .. d |-> q(j)]
<1>12. f = [j \in 0 .. d |-> IF j = 0 THEN 0 ELSE f[j - 1] * 10 + DigitValue[Char(k + j - 1)]]
  <2>1. \A j \in 0 .. d : j = 0 \/ (j # 0 /\ j \in 1 .. d /\ j - 1 \in 0 .. d)
    BY <1>3
  <2>2. \A j \in 0 .. d : q(j) = IF j = 0 THEN 0 ELSE f[j - 1] * 10 + DigitValue[Char(k + j - 1)]
    BY <1>10, <1>11, <2>1
  <2> QED BY <2>2, Zenon
<1>13. h = [j \in 0 .. d |-> IF j = 0 THEN 0 ELSE h[j - 1] * 10 + DigitValue[Char(k + j - 1)]]
  BY <1>12, Zenon
<1> HIDE DEF h
<1>14. h[0] = 0 /\ \A j \in 1 .. d : h[j] = h[j - 1] * 10 + DigitValue[Char(k + j - 1)]
  <2>1. 0 \in 0 .. d /\ \A j \in 1 .. d : j \in 0 .. d /\ j # 0
    BY <1>3
  <2> QED BY <1>13, <2>1, Zenon
<1> DEFINE Q == {j \in Nat : j <= d => h[j] = q(j)}
<1>15. 0 \in Q
  BY <1>10, <1>14
<1>16. ASSUME NEW j \in Q PROVE j + 1 \in Q
  <2>1. j \in Nat /\ j + 1 \in Nat /\ (j + 1) - 1 = j
        /\ (j + 1 <= d => j <= d /\ j + 1 \in 1 .. d)
    BY <1>3
  <2>2. ASSUME j + 1 <= d PROVE h[j + 1] = q(j + 1)
    BY <1>11, <1>14, <2>1, <2>2, ZenonT(60)
  <2> QED BY <2>1, <2>2
<1> HIDE DEF Q
<1>17. Q = Nat
  BY <1>15, <1>16, AllNat DEF Q
<1>18. d \in Q /\ d <= d
  BY <1>3, <1>17
<1>19. h[d] = q(d)
  BY <1>18 DEF Q
<1> QED BY <1>1, <1>6, <1>8, <1>10, <1>19

(* The parts that an item is written of *)
PrecisionPart(x)  == IF x.precision.how = "missing" THEN <<>> ELSE <<".">> \o AmountText(x.precision)
QualifierPart(x)  == IF x.qualifier = "none" THEN <<>> ELSE <<x.qualifier>>
ConversionPart(x) == IF x.conversion = Nul THEN <<>> ELSE <<x.conversion>>

LEMMA AmountIs ==
  ASSUME NEW a, a.how \in {"missing", "star", "point"} \/ a.n \in 0 .. LongLongMax - 1
  PROVE  /\ AmountText(a) \in Seq(Characters)
         /\ a.how = "digits" => AmountText(a) = Decimal(a.n)
         /\ a.how = "star" => AmountText(a) = <<"*">>
         /\ a.how \notin {"digits", "star"} => AmountText(a) = <<>>
<1>1. "*" \in Characters
  BY VsprintfAssumption
<1>2. a.how = "digits" => AmountText(a) = Decimal(a.n)
  BY DEF AmountText
<1>3. a.how = "star" => AmountText(a) = <<"*">>
  BY DEF AmountText
<1>4. a.how \notin {"digits", "star"} => AmountText(a) = <<>>
  BY DEF AmountText
<1>5. a.how = "digits" => Decimal(a.n) \in Seq(Characters)
  BY DecimalIs
<1>6. <<"*">> \in Seq(Characters) /\ <<>> \in Seq(Characters)
  BY <1>1
<1> QED BY <1>2, <1>3, <1>4, <1>5, <1>6, Zenon

LEMMA PartsAre ==
  ASSUME NEW x \in FormatItems
  PROVE  /\ FormatOf(x) \in Seq(Characters)
         /\ x.conversion = "text" => FormatOf(x) = x.string
         /\ x.conversion # "text" =>
              /\ <<"%">> \in Seq(Characters) /\ x.flags \in Seq(Characters) /\ AmountText(x.width) \in Seq(Characters)
              /\ PrecisionPart(x) \in Seq(Characters) /\ QualifierPart(x) \in Seq(Characters)
              /\ ConversionPart(x) \in Seq(Characters)
              /\ FormatOf(x) = ((((<<"%">> \o x.flags) \o AmountText(x.width)) \o PrecisionPart(x))
                                  \o QualifierPart(x)) \o ConversionPart(x)
<1>1. /\ x.flags \in Seq(FlagChars)
      /\ x.width.how \in {"missing", "star"} \/ x.width.n \in 1 .. LongLongMax - 1
      /\ x.precision.how \in {"missing", "star", "point"} \/ x.precision.n \in 0 .. LongLongMax - 1
      /\ x.qualifier \in QualifierChars \cup {"none"} /\ x.conversion \in Characters \cup {Nul, "text"}
      /\ x.conversion = "text" => \E c \in Characters \ {"%"} : x.string = <<c>>
  BY ItemIs
<1>2. FlagChars \subseteq Characters /\ QualifierChars \subseteq Characters /\ "%" \in Characters /\ "." \in Characters
  BY VsprintfAssumption
<1>3. x.flags \in Seq(Characters) /\ <<"%">> \in Seq(Characters) /\ <<".">> \in Seq(Characters)
  BY <1>1, <1>2
<1>4. AmountText(x.width) \in Seq(Characters)
  <2>1. x.width.how \in {"missing", "star", "point"} \/ x.width.n \in 0 .. LongLongMax - 1
    BY <1>1
  <2> QED BY <2>1, AmountIs
<1>5. AmountText(x.precision) \in Seq(Characters)
  BY <1>1, AmountIs
<1>6. PrecisionPart(x) \in Seq(Characters)
  <2>1. <<".">> \o AmountText(x.precision) \in Seq(Characters)
    BY <1>3, <1>5
  <2>2. <<>> \in Seq(Characters)
    OBVIOUS
  <2> QED BY <2>1, <2>2, Zenon DEF PrecisionPart
<1>7. QualifierPart(x) \in Seq(Characters)
  BY <1>1, <1>2 DEF QualifierPart
<1>8. x.conversion # "text" => ConversionPart(x) \in Seq(Characters)
  BY <1>1 DEF ConversionPart
<1>9. x.conversion = "text" => FormatOf(x) = x.string /\ FormatOf(x) \in Seq(Characters)
  <2>1. x.conversion = "text" => FormatOf(x) = x.string
    BY Zenon DEF FormatOf
  <2>2. ASSUME x.conversion = "text" PROVE x.string \in Seq(Characters)
    <3>1. PICK c \in Characters \ {"%"} : x.string = <<c>>
      BY <1>1, <2>2
    <3> QED BY <3>1
  <2> QED BY <2>1, <2>2
<1>10. ASSUME x.conversion # "text"
       PROVE  /\ FormatOf(x) = ((((<<"%">> \o x.flags) \o AmountText(x.width)) \o PrecisionPart(x))
                                  \o QualifierPart(x)) \o ConversionPart(x)
              /\ FormatOf(x) \in Seq(Characters)
  <2> DEFINE a == <<"%">>
             w == AmountText(x.width)
             pp == PrecisionPart(x)
             q == QualifierPart(x)
             c == ConversionPart(x)
  <2>1. FormatOf(x) = ((((a \o x.flags) \o w) \o pp) \o q) \o c
    BY <1>10, Zenon DEF FormatOf, PrecisionPart, QualifierPart, ConversionPart
  <2>2. a \in Seq(Characters) /\ w \in Seq(Characters) /\ pp \in Seq(Characters) /\ q \in Seq(Characters) /\ c \in Seq(Characters)
    BY <1>3, <1>4, <1>6, <1>7, <1>8, <1>10
  <2> HIDE DEF a, w, pp, q, c
  <2>3. a \o x.flags \in Seq(Characters)
    BY <1>3, <2>2
  <2>4. (a \o x.flags) \o w \in Seq(Characters)
    BY <2>2, <2>3
  <2>5. ((a \o x.flags) \o w) \o pp \in Seq(Characters)
    BY <2>2, <2>4
  <2>6. (((a \o x.flags) \o w) \o pp) \o q \in Seq(Characters)
    BY <2>2, <2>5
  <2>7. ((((a \o x.flags) \o w) \o pp) \o q) \o c \in Seq(Characters)
    BY <2>2, <2>6
  <2> QED BY <2>1, <2>7 DEF a, w, pp, q, c
<1> QED BY <1>3, <1>4, <1>6, <1>7, <1>8, <1>9, <1>10, Zenon

(* The format goes on with these characters behind its first o. *)
Holds(o, ss) == \A j \in 1 .. Len(ss) : o + j <= Len(format) /\ format[o + j] = ss[j]

LEMMA HoldsBoth ==
  ASSUME NEW ss \in Seq(Characters), NEW t \in Seq(Characters), NEW o \in Nat, Holds(o, ss \o t)
  PROVE  Holds(o, ss) /\ Holds(o + Len(ss), t)
<1> DEFINE u == ss \o t
<1>1. /\ Len(u) = Len(ss) + Len(t) /\ Len(ss) \in Nat /\ Len(t) \in Nat
      /\ \A j \in 1 .. Len(ss) : u[j] = ss[j]
      /\ \A j \in 1 .. Len(t) : u[Len(ss) + j] = t[j]
  BY ConcatProperties
<1>2. \A j \in 1 .. Len(u) : o + j <= Len(format) /\ format[o + j] = u[j]
  BY DEF Holds
<1> HIDE DEF u
<1>3. \A j \in 1 .. Len(ss) : j \in 1 .. Len(u)
  BY <1>1
<1>4. \A j \in 1 .. Len(t) : Len(ss) + j \in 1 .. Len(u) /\ o + (Len(ss) + j) = (o + Len(ss)) + j
  BY <1>1
<1>5. Holds(o, ss)
  BY <1>1, <1>2, <1>3 DEF Holds
<1>6. Holds(o + Len(ss), t)
  <2>1. ASSUME NEW j \in 1 .. Len(t)
        PROVE  (o + Len(ss)) + j <= Len(format) /\ format[(o + Len(ss)) + j] = t[j]
    <3>1. PICK ii : ii = Len(ss) + j
      OBVIOUS
    <3>2. ii \in 1 .. Len(u) /\ o + ii = (o + Len(ss)) + j /\ u[ii] = t[j]
      BY <1>1, <1>4, <3>1
    <3> QED BY <1>2, <3>2
  <2> QED BY <2>1 DEF Holds
<1> QED BY <1>5, <1>6

LEMMA HoldsChar ==
  ASSUME NEW ss, NEW o \in Nat, Holds(o, ss), NEW j \in 1 .. Len(ss)
  PROVE  Char(o + j) = ss[j]
BY DEF Holds, Char

LEMMA PiecesFlat ==
  ASSUME NEW T, NEW m \in Nat, NEW f \in [1 .. m -> Seq(T)]
  PROVE  FlattenSeq(f) \in Seq(T) /\ (m = 0 => FlattenSeq(f) = <<>>)
<1>1. f \in Seq(Seq(T)) /\ Len(f) = m /\ <<>> \in Seq(T)
  OBVIOUS
<1>2. FlattenSeq(f) \in Seq(T)
  BY <1>1, FlattenSnoc
<1>3. m = 0 => FlattenSeq(f) = f /\ f = <<>>
  BY <1>1, EmptySeq DEF FlattenSeq
<1> QED BY <1>2, <1>3

LEMMA FormatToIs ==
  ASSUME items \in Seq(FormatItems), NEW k \in 0 .. Len(items)
  PROVE  /\ FormatTo(k) \in Seq(Characters)
         /\ k = 0 => FormatTo(k) = <<>>
         /\ k < Len(items) => FormatTo(k + 1) = FormatTo(k) \o FormatOf(items[k + 1])
<1> DEFINE S(m) == [j \in 1 .. m |-> FormatOf(items[j])]
<1>1. Len(items) \in Nat /\ k \in Nat /\ \A j \in 1 .. Len(items) : items[j] \in FormatItems
  OBVIOUS
<1>2. \A j \in 1 .. Len(items) : FormatOf(items[j]) \in Seq(Characters)
  BY <1>1, PartsAre
<1>3. \A m \in 0 .. Len(items) : S(m) \in [1 .. m -> Seq(Characters)]
  BY <1>1, <1>2
<1>4. \A m : FormatTo(m) = FlattenSeq(S(m))
  BY Zenon DEF FormatTo
<1>5. FormatTo(k) \in Seq(Characters) /\ (k = 0 => FormatTo(k) = <<>>)
  <2>1. S(k) \in [1 .. k -> Seq(Characters)]
    BY <1>3
  <2> HIDE DEF S
  <2> QED BY <1>1, <1>4, <2>1, PiecesFlat
<1>6. ASSUME k < Len(items)
      PROVE  FormatTo(k + 1) = FormatTo(k) \o FormatOf(items[k + 1])
  <2>1. k + 1 \in 0 .. Len(items) /\ k + 1 \in 1 .. k + 1
        /\ \A n \in 1 .. k : n \in 1 .. k + 1
    BY <1>1, <1>6
  <2>2. \A n \in 1 .. k : S(k + 1)[n] = S(k)[n]
    BY <2>1, Zenon
  <2>3. S(k + 1)[k + 1] = FormatOf(items[k + 1])
    BY <2>1, Zenon
  <2>4. S(k) \in [1 .. k -> Seq(Characters)] /\ S(k + 1) \in [1 .. k + 1 -> Seq(Characters)]
    BY <1>3, <2>1, Zenon
  <2> HIDE DEF S
  <2>5. FlattenSeq(S(k + 1)) = FlattenSeq(S(k)) \o S(k + 1)[k + 1]
    BY <1>1, <2>2, <2>4, PiecesSnoc, ZenonT(60)
  <2> QED BY <1>4, <2>3, <2>5
<1> QED BY <1>5, <1>6

(* What the format holds where an item begins *)
BeginsWith(x, o) ==
  IF x.conversion = "text" THEN Holds(o, x.string)
  ELSE /\ Holds(o, <<"%">>)
       /\ Holds(o + 1, x.flags)
       /\ Holds(o + 1 + Len(x.flags), AmountText(x.width))
       /\ Holds(o + 1 + Len(x.flags) + Len(AmountText(x.width)), PrecisionPart(x))
       /\ Holds(o + 1 + Len(x.flags) + Len(AmountText(x.width)) + Len(PrecisionPart(x)), QualifierPart(x))
       /\ Holds(o + 1 + Len(x.flags) + Len(AmountText(x.width)) + Len(PrecisionPart(x))
                  + Len(QualifierPart(x)), ConversionPart(x))

LEMMA BeginsAt ==
  ASSUME NEW x \in FormatItems, NEW o \in Nat, Holds(o, FormatOf(x))
  PROVE  /\ BeginsWith(x, o)
         /\ x.conversion # "text" =>
              Len(FormatOf(x)) = 1 + Len(x.flags) + Len(AmountText(x.width)) + Len(PrecisionPart(x))
                                   + Len(QualifierPart(x)) + Len(ConversionPart(x))
<1>1. CASE x.conversion = "text"
  BY <1>1, PartsAre DEF BeginsWith
<1>2. CASE x.conversion # "text"
  <2> DEFINE a == <<"%">>
             w == AmountText(x.width)
             pp == PrecisionPart(x)
             q == QualifierPart(x)
             c == ConversionPart(x)
             s1 == a \o x.flags
             s2 == s1 \o w
             s3 == s2 \o pp
             s4 == s3 \o q
  <2>1. /\ a \in Seq(Characters) /\ x.flags \in Seq(Characters) /\ w \in Seq(Characters) /\ pp \in Seq(Characters)
        /\ q \in Seq(Characters) /\ c \in Seq(Characters)
        /\ FormatOf(x) = s4 \o c
    BY <1>2, PartsAre
  <2>2. Len(a) = 1
    OBVIOUS
  <2> HIDE DEF a, w, pp, q, c
  <2>3. s1 \in Seq(Characters) /\ Len(s1) = 1 + Len(x.flags)
    <3>1. s1 \in Seq(Characters) /\ Len(s1) = Len(a) + Len(x.flags)
      BY <2>1, ConcatProperties
    <3> HIDE DEF s1
    <3> QED BY <2>2, <3>1
  <2>4. s2 \in Seq(Characters) /\ Len(s2) = Len(s1) + Len(w)
    <3> HIDE DEF s1
    <3> QED BY <2>1, <2>3, ConcatProperties
  <2>5. s3 \in Seq(Characters) /\ Len(s3) = Len(s2) + Len(pp)
    <3> HIDE DEF s2
    <3> QED BY <2>1, <2>4, ConcatProperties
  <2>6. s4 \in Seq(Characters) /\ Len(s4) = Len(s3) + Len(q)
    <3> HIDE DEF s3
    <3> QED BY <2>1, <2>5, ConcatProperties
  <2>7. Len(FormatOf(x)) = Len(s4) + Len(c) /\ Holds(o, s4) /\ Holds(o + Len(s4), c)
    <3> HIDE DEF s4
    <3>1. Len(s4 \o c) = Len(s4) + Len(c)
      BY <2>1, <2>6, ConcatProperties
    <3>2. Holds(o, s4 \o c)
      BY <2>1
    <3>3. Holds(o, s4) /\ Holds(o + Len(s4), c)
      BY <2>1, <2>6, <3>2, HoldsBoth
    <3> QED BY <2>1, <3>1, <3>3, Zenon
  <2>8. Holds(o, s3) /\ Holds(o + Len(s3), q)
    <3> HIDE DEF s3
    <3> QED BY <2>1, <2>5, <2>7, HoldsBoth DEF s4
  <2>9. Holds(o, s2) /\ Holds(o + Len(s2), pp)
    <3> HIDE DEF s2
    <3> QED BY <2>1, <2>4, <2>8, HoldsBoth DEF s3
  <2>10. Holds(o, s1) /\ Holds(o + Len(s1), w)
    <3> HIDE DEF s1
    <3> QED BY <2>1, <2>3, <2>9, HoldsBoth DEF s2
  <2>11. Holds(o, a) /\ Holds(o + 1, x.flags)
    BY <2>1, <2>2, <2>10, HoldsBoth DEF s1
  <2>12. /\ Len(x.flags) \in Nat /\ Len(w) \in Nat /\ Len(pp) \in Nat /\ Len(q) \in Nat /\ Len(c) \in Nat
    BY <2>1, LenProperties
  <2> HIDE DEF s1, s2, s3, s4
  <2>13. /\ o + Len(s1) = o + 1 + Len(x.flags)
         /\ o + Len(s2) = o + 1 + Len(x.flags) + Len(w)
         /\ o + Len(s3) = o + 1 + Len(x.flags) + Len(w) + Len(pp)
         /\ o + Len(s4) = o + 1 + Len(x.flags) + Len(w) + Len(pp) + Len(q)
         /\ Len(FormatOf(x)) = 1 + Len(x.flags) + Len(w) + Len(pp) + Len(q) + Len(c)
    <3>1. PICK lf \in Nat, lw \in Nat, lp \in Nat, lq \in Nat, lc \in Nat :
            lf = Len(x.flags) /\ lw = Len(w) /\ lp = Len(pp) /\ lq = Len(q) /\ lc = Len(c)
      BY <2>12
    <3>2. Len(s1) = 1 + lf /\ Len(s2) = (1 + lf) + lw /\ Len(s3) = ((1 + lf) + lw) + lp
      BY <2>3, <2>4, <2>5, <3>1, Zenon
    <3>3. Len(s4) = (((1 + lf) + lw) + lp) + lq /\ Len(FormatOf(x)) = ((((1 + lf) + lw) + lp) + lq) + lc
      BY <2>6, <2>7, <3>1, <3>2, Zenon
    <3>4. /\ o + (1 + lf) = o + 1 + lf
          /\ o + ((1 + lf) + lw) = o + 1 + lf + lw
          /\ o + (((1 + lf) + lw) + lp) = o + 1 + lf + lw + lp
          /\ o + ((((1 + lf) + lw) + lp) + lq) = o + 1 + lf + lw + lp + lq
          /\ ((((1 + lf) + lw) + lp) + lq) + lc = 1 + lf + lw + lp + lq + lc
      OBVIOUS
    <3> QED BY <3>1, <3>2, <3>3, <3>4, Zenon
  <2> QED BY <1>2, <2>7, <2>8, <2>9, <2>10, <2>11, <2>13, Zenon DEF BeginsWith, a, w, pp, q, c
<1> QED BY <1>1, <1>2

(* Each item is where the items before it end. *)
LEMMA ItemAt ==
  ASSUME items \in Seq(FormatItems), format = FormatTo(Len(items)), NEW k \in 0 .. Len(items) - 1
  PROVE  /\ FormatTo(k) \in Seq(Characters)
         /\ Holds(Len(FormatTo(k)), FormatOf(items[k + 1]))
         /\ Len(FormatTo(k + 1)) = Len(FormatTo(k)) + Len(FormatOf(items[k + 1]))
         /\ Len(FormatTo(k + 1)) <= Len(format)
<1>1. PICK n \in Nat : n = Len(items)
  BY LenProperties
<1>2. /\ \A m \in 0 .. n : FormatTo(m) \in Seq(Characters)
      /\ \A m \in 0 .. n - 1 : FormatTo(m + 1) = FormatTo(m) \o FormatOf(items[m + 1])
      /\ \A m \in 0 .. n - 1 : FormatOf(items[m + 1]) \in Seq(Characters)
  <2>1. \A m \in 0 .. n - 1 : m \in 0 .. n /\ m < n /\ m + 1 \in 1 .. n
    BY <1>1
  <2>2. \A m \in 0 .. n - 1 : items[m + 1] \in FormatItems
    BY <1>1, <2>1
  <2> QED BY <1>1, <2>1, <2>2, FormatToIs, PartsAre
<1> DEFINE S == {e \in Nat : e <= n => Holds(0, FormatTo(n - e))}
<1>3. 0 \in S
  <2>1. n - 0 = n
    OBVIOUS
  <2>2. \A j \in 1 .. Len(format) : 0 + j <= Len(format) /\ format[0 + j] = format[j]
    <3>1. Len(format) \in Nat
      BY <1>1, <1>2
    <3> QED BY <3>1
  <2> QED BY <1>1, <2>1, <2>2 DEF Holds
<1>4. ASSUME NEW m \in 0 .. n - 1, Holds(0, FormatTo(m + 1))
      PROVE  Holds(0, FormatTo(m)) /\ Holds(Len(FormatTo(m)), FormatOf(items[m + 1]))
  <2>1. m \in 0 .. n
    OBVIOUS
  <2>2. FormatTo(m) \in Seq(Characters) /\ FormatOf(items[m + 1]) \in Seq(Characters)
        /\ Holds(0, FormatTo(m) \o FormatOf(items[m + 1])) /\ 0 \in Nat
    BY <1>2, <1>4, <2>1
  <2>3. Holds(0, FormatTo(m)) /\ Holds(0 + Len(FormatTo(m)), FormatOf(items[m + 1]))
    BY <2>2, HoldsBoth
  <2>4. 0 + Len(FormatTo(m)) = Len(FormatTo(m))
    BY <2>2
  <2> QED BY <2>3, <2>4
<1>5. ASSUME NEW e \in S PROVE e + 1 \in S
  <2>1. e \in Nat /\ e + 1 \in Nat
    OBVIOUS
  <2>2. ASSUME e + 1 <= n PROVE Holds(0, FormatTo(n - (e + 1)))
    <3>1. PICK m \in 0 .. n - 1 : m = n - (e + 1) /\ m + 1 = n - e
      <4>1. n - (e + 1) \in 0 .. n - 1 /\ (n - (e + 1)) + 1 = n - e
        BY <2>2
      <4> QED BY <4>1
    <3>2. Holds(0, FormatTo(m + 1))
      BY <2>2, <3>1
    <3> QED BY <1>4, <3>1, <3>2
  <2> QED BY <2>1, <2>2
<1> HIDE DEF S
<1>6. S = Nat
  BY <1>3, <1>5, AllNat DEF S
<1>7. k \in 0 .. n - 1 /\ n - (k + 1) \in S /\ n - (k + 1) <= n /\ n - (n - (k + 1)) = k + 1
      /\ k \in 0 .. n /\ k + 1 \in 0 .. n
  BY <1>1, <1>6
<1>8. Holds(0, FormatTo(k + 1))
  BY <1>7 DEF S
<1>9. Holds(Len(FormatTo(k)), FormatOf(items[k + 1]))
  BY <1>4, <1>7, <1>8
<1>10. Len(FormatTo(k + 1)) = Len(FormatTo(k)) + Len(FormatOf(items[k + 1]))
  BY <1>2, <1>7, ConcatProperties
<1>11. Len(FormatTo(k + 1)) <= Len(format)
  <2>1. Len(FormatTo(k + 1)) \in Nat /\ Len(format) \in Nat
    BY <1>1, <1>2, <1>7
  <2>2. CASE Len(FormatTo(k + 1)) = 0
    BY <2>1, <2>2
  <2>3. CASE Len(FormatTo(k + 1)) # 0
    <3>1. Len(FormatTo(k + 1)) \in 1 .. Len(FormatTo(k + 1))
      BY <2>1, <2>3
    <3>2. 0 + Len(FormatTo(k + 1)) <= Len(format)
      BY <1>8, <3>1 DEF Holds
    <3> QED BY <2>1, <3>2
  <2> QED BY <2>2, <2>3
<1> QED BY <1>2, <1>7, <1>9, <1>10, <1>11

LEMMA DigitsApart ==
  /\ \A c \in DecimalDigits : c \notin {"-", "+", " ", "#", "*", ".", "h", "l", "L", "Z"}
  /\ \A c \in DecimalDigits : c \in FlagChars <=> c = "0"
  /\ \A c \in QualifierChars : c \notin FlagChars \cup DecimalDigits \cup {"*", "."}
  /\ "*" \notin FlagChars \cup DecimalDigits \cup {"."} \cup QualifierChars
  /\ "." \notin FlagChars \cup DecimalDigits \cup {"*"} \cup QualifierChars
<1>1. \A c \in DecimalDigits : c \notin {"-", "+", " ", "#", "*", ".", "h", "l", "L", "Z"}
  <2>1. ASSUME NEW c \in DecimalDigits PROVE c \notin {"-", "+", " ", "#", "*", ".", "h", "l", "L", "Z"}
    <3>1. PICK m \in 1 .. 10 : c = LowerDigits[m]
      BY Zenon DEF DecimalDigits
    <3>2. PICK r \in 0 .. 9 : r + 1 = m
      <4>1. m - 1 \in 0 .. 9 /\ (m - 1) + 1 = m
        OBVIOUS
      <4> QED BY <4>1
    <3> QED BY <3>1, <3>2, DigitKnown
  <2> QED BY <2>1
<1>2. \A c \in QualifierChars : c \notin FlagChars \cup {"*", "."}
  BY DEF QualifierChars, FlagChars
<1>3. "*" \notin FlagChars \cup {"."} \cup QualifierChars /\ "." \notin FlagChars \cup {"*"} \cup QualifierChars
  BY DEF QualifierChars, FlagChars
<1>4. \A c \in QualifierChars : c \notin DecimalDigits
  BY <1>1 DEF QualifierChars
<1>5. "*" \notin DecimalDigits /\ "." \notin DecimalDigits
  BY <1>1
<1>6. \A c \in DecimalDigits : c \in FlagChars <=> c = "0"
  BY <1>1 DEF FlagChars
<1> QED BY <1>1, <1>2, <1>3, <1>4, <1>5, <1>6, Zenon

(* No number but 0 is written with a 0 in front. *)
LEMMA FirstDigit ==
  ASSUME NEW n \in 0 .. LongLongMax - 1
  PROVE  /\ Len(Decimal(n)) \in Nat \ {0}
         /\ Decimal(n)[1] \in DecimalDigits
         /\ n # 0 => Decimal(n)[1] \notin FlagChars
<1>1. PICK d \in 1 .. 2 * IntBits :
           /\ Len(Decimal(n)) = d /\ Needs(n, 10, d)
           /\ \A j \in 1 .. d : /\ (n \div Power(10, d - j)) % 10 \in 0 .. 9
                                /\ Decimal(n)[j] = LowerDigits[((n \div Power(10, d - j)) % 10) + 1]
  BY DecimalIs
<1>2. PICK N \in Nat : N = 2 * IntBits
  BY Widths
<1>3. /\ d \in Nat \ {0} /\ n \in Nat /\ 1 \in 1 .. d /\ d \in 1 .. 2 * IntBits
      /\ d - 1 \in 0 .. 2 * IntBits /\ d \in 0 .. 2 * IntBits /\ 10 \in Nat \ {0}
  BY <1>1, <1>2, TypeSizes, SMTT(60)
<1>4. PICK r \in 0 .. 9 : r = (n \div Power(10, d - 1)) % 10 /\ Decimal(n)[1] = LowerDigits[r + 1]
  <2>1. /\ (n \div Power(10, d - 1)) % 10 \in 0 .. 9
        /\ Decimal(n)[1] = LowerDigits[((n \div Power(10, d - 1)) % 10) + 1]
    BY <1>1, <1>3, ZenonT(60)
  <2> QED BY <2>1, ZenonT(60)
<1>5. Decimal(n)[1] \in DecimalDigits /\ (Decimal(n)[1] = "0" <=> r = 0)
  <2>1. /\ LowerDigits[r + 1] \in DecimalDigits
        /\ LowerDigits[r + 1] = "0" <=> r = 0
    BY <1>4, DigitKnown, ZenonT(60)
  <2> QED BY <1>4, <2>1, ZenonT(60)
<1>6. ASSUME n # 0 PROVE r # 0
  <2>1. PICK pp \in Nat \ {0} : pp = Power(10, d - 1)
    BY <1>3, PowerAt
  <2>2. Power(10, d) = 10 * pp
    BY <1>3, <2>1, PowerAt
  <2>3. n < 10 * pp
    BY <1>1, <2>2 DEF Needs
  <2>4. d > 1 => n >= pp
    BY <1>1, <2>1 DEF Needs
  <2>5. d = 1 => pp = 1
    <3>1. d = 1 => Power(10, d - 1) = 1
      BY <1>3, PowerAt
    <3> QED BY <2>1, <3>1
  <2>6. n >= pp
    BY <1>3, <1>6, <2>4, <2>5
  <2>7. PICK q \in Nat, ss \in 0 .. pp - 1 : n = q * pp + ss /\ q = n \div pp
    BY <1>3, DivMod
  <2>8. q >= 1
    <3>1. q = 0 => n = ss
      BY <2>7
    <3> QED BY <2>6, <2>7, <3>1
  <2>9. q < 10
    <3>1. SUFFICES ASSUME q >= 10 PROVE FALSE
      BY <2>7
    <3>2. PICK u \in Nat : u = q - 10
      BY <3>1
    <3>3. q = 10 + u
      BY <3>2
    <3>4. PICK v \in Nat : v = u * pp
      OBVIOUS
    <3>5. q * pp = 10 * pp + v
      BY <3>3, <3>4
    <3> QED BY <2>3, <2>7, <3>4, <3>5
  <2>10. q % 10 = q
    BY <2>8, <2>9
  <2> QED BY <1>4, <2>1, <2>7, <2>8, <2>10
<1>7. n # 0 => Decimal(n)[1] \notin FlagChars
  BY <1>5, <1>6, DigitsApart, Zenon
<1> QED BY <1>1, <1>3, <1>5, <1>7

(* How many characters of the format each step of the loop has behind it. *)
AfterFlags(x, o)     == o + 1 + Len(x.flags)
AfterWidth(x, o)     == AfterFlags(x, o) + Len(AmountText(x.width))
AfterPrecision(x, o) == AfterWidth(x, o) + Len(PrecisionPart(x))
AfterQualifier(x, o) == AfterPrecision(x, o) + Len(QualifierPart(x))

(* An item, and its place in the format. *)
Placed(x, o) ==
  /\ x \in FormatItems /\ o \in Nat /\ x.conversion # "text"
  /\ Holds(o, FormatOf(x))
  /\ format \in Seq(Characters) /\ o + Len(FormatOf(x)) <= Len(format)
  /\ x.conversion = Nul => o + Len(FormatOf(x)) = Len(format)

LEMMA PlacesAre ==
  ASSUME NEW x, NEW o, Placed(x, o)
  PROVE  /\ AfterFlags(x, o) \in Nat /\ AfterWidth(x, o) \in Nat
         /\ AfterPrecision(x, o) \in Nat /\ AfterQualifier(x, o) \in Nat
         /\ Len(x.flags) \in Nat /\ Len(AmountText(x.width)) \in Nat
         /\ Len(PrecisionPart(x)) \in Nat /\ Len(QualifierPart(x)) \in Nat /\ Len(ConversionPart(x)) \in Nat
         /\ AfterFlags(x, o) <= AfterWidth(x, o) /\ AfterWidth(x, o) <= AfterPrecision(x, o)
         /\ AfterPrecision(x, o) <= AfterQualifier(x, o)
         /\ AfterQualifier(x, o) + Len(ConversionPart(x)) = o + Len(FormatOf(x))
         /\ AfterQualifier(x, o) + Len(ConversionPart(x)) <= Len(format) /\ Len(format) \in Nat
         /\ Holds(o, <<"%">>)
         /\ Holds(o + 1, x.flags)
         /\ Holds(AfterFlags(x, o), AmountText(x.width))
         /\ Holds(AfterWidth(x, o), PrecisionPart(x))
         /\ Holds(AfterPrecision(x, o), QualifierPart(x))
         /\ Holds(AfterQualifier(x, o), ConversionPart(x))
<1>1. /\ x \in FormatItems /\ o \in Nat /\ x.conversion # "text" /\ Holds(o, FormatOf(x))
      /\ format \in Seq(Characters) /\ o + Len(FormatOf(x)) <= Len(format)
  BY DEF Placed
<1>2. /\ x.flags \in Seq(Characters) /\ AmountText(x.width) \in Seq(Characters) /\ PrecisionPart(x) \in Seq(Characters)
      /\ QualifierPart(x) \in Seq(Characters) /\ ConversionPart(x) \in Seq(Characters)
  BY <1>1, PartsAre
<1>3. Len(FormatOf(x)) = 1 + Len(x.flags) + Len(AmountText(x.width)) + Len(PrecisionPart(x))
                                   + Len(QualifierPart(x)) + Len(ConversionPart(x))
      /\ BeginsWith(x, o)
  BY <1>1, BeginsAt
<1>4. /\ Holds(o, <<"%">>)
      /\ Holds(o + 1, x.flags)
      /\ Holds(AfterFlags(x, o), AmountText(x.width))
      /\ Holds(AfterWidth(x, o), PrecisionPart(x))
      /\ Holds(AfterPrecision(x, o), QualifierPart(x))
      /\ Holds(AfterQualifier(x, o), ConversionPart(x))
  BY <1>1, <1>3, Zenon DEF BeginsWith, AfterFlags, AfterWidth, AfterPrecision, AfterQualifier
<1>5. PICK lf \in Nat, lw \in Nat, lp \in Nat, lq \in Nat, lc \in Nat, lo \in Nat, m \in Nat :
        /\ lf = Len(x.flags) /\ lw = Len(AmountText(x.width)) /\ lp = Len(PrecisionPart(x))
        /\ lq = Len(QualifierPart(x)) /\ lc = Len(ConversionPart(x)) /\ lo = o /\ m = Len(format)
  BY <1>1, <1>2, LenProperties
<1>6. /\ AfterFlags(x, o) = lo + 1 + lf /\ AfterWidth(x, o) = lo + 1 + lf + lw
      /\ AfterPrecision(x, o) = lo + 1 + lf + lw + lp
      /\ AfterQualifier(x, o) = lo + 1 + lf + lw + lp + lq
      /\ Len(FormatOf(x)) = 1 + lf + lw + lp + lq + lc
  BY <1>3, <1>5, Zenon DEF AfterFlags, AfterWidth, AfterPrecision, AfterQualifier
<1>7. lo + (1 + lf + lw + lp + lq + lc) <= m
  BY <1>1, <1>5, <1>6, Zenon
<1>8. /\ lo + 1 + lf \in Nat /\ lo + 1 + lf + lw \in Nat /\ lo + 1 + lf + lw + lp \in Nat
      /\ lo + 1 + lf + lw + lp + lq \in Nat
      /\ lo + 1 + lf <= lo + 1 + lf + lw /\ lo + 1 + lf + lw <= lo + 1 + lf + lw + lp
      /\ lo + 1 + lf + lw + lp <= lo + 1 + lf + lw + lp + lq
      /\ (lo + 1 + lf + lw + lp + lq) + lc = lo + (1 + lf + lw + lp + lq + lc)
      /\ (lo + 1 + lf + lw + lp + lq) + lc <= m
  BY <1>7
<1> QED BY <1>4, <1>5, <1>6, <1>8, Zenon

(* What vsprintf meets behind the parts of an item: none of it could       *)
(* belong to the part before it. *)
LEMMA MeetsConversion ==
  ASSUME NEW x, NEW o, Placed(x, o)
  PROVE  Char(AfterQualifier(x, o) + 1) = x.conversion
<1>1. PICK q \in Nat, m \in Nat : q = AfterQualifier(x, o) /\ m = Len(format)
  BY PlacesAre
<1>2. CASE x.conversion = Nul
  <2>1. ConversionPart(x) = <<>>
    BY <1>2 DEF ConversionPart
  <2>2. q + 0 = m
    BY <1>1, <1>2, <2>1, PlacesAre DEF Placed
  <2>3. ~(q + 1 <= Len(format))
    BY <1>1, <2>2
  <2> QED BY <1>1, <1>2, <2>3, Zenon DEF Char
<1>3. CASE x.conversion # Nul
  <2>1. ConversionPart(x) = <<x.conversion>>
    BY <1>3 DEF ConversionPart
  <2>2. Holds(q, <<x.conversion>>)
    BY <1>1, <2>1, PlacesAre
  <2>3. 1 \in 1 .. Len(<<x.conversion>>) /\ <<x.conversion>>[1] = x.conversion
    OBVIOUS
  <2>4. Char(q + 1) = x.conversion
    BY <2>2, <2>3, HoldsChar, SMTT(60)
  <2> QED BY <1>1, <2>4
<1> QED BY <1>2, <1>3

LEMMA MeetsQualifier ==
  ASSUME NEW x, NEW o, Placed(x, o)
  PROVE  LET q == AfterPrecision(x, o)
         IN  /\ Char(q + 1) \notin FlagChars \cup DecimalDigits \cup {"*", "."}
             /\ x.qualifier = "none" => Char(q + 1) \notin QualifierChars /\ AfterQualifier(x, o) = q
             /\ x.qualifier # "none" =>
                  /\ Char(q + 1) \in QualifierChars /\ Char(q + 1) = x.qualifier
                  /\ AfterQualifier(x, o) = q + 1
<1>1. PICK q \in Nat : q = AfterPrecision(x, o)
  BY PlacesAre
<1>2. x \in FormatItems
  BY DEF Placed
<1>3. CASE x.qualifier = "none"
  <2>1. QualifierPart(x) = <<>>
    BY <1>3 DEF QualifierPart
  <2>2. AfterQualifier(x, o) = q + 0
    BY <1>1, <2>1 DEF AfterQualifier
  <2>3. AfterQualifier(x, o) = q
    BY <1>1, <2>2
  <2>4. Char(q + 1) = x.conversion
    BY <2>3, MeetsConversion
  <2>5. x.conversion \notin FlagChars \cup DecimalDigits \cup {"*", "."} \cup QualifierChars
    BY <1>2, <1>3, ItemIs
  <2> QED BY <1>1, <1>3, <2>3, <2>4, <2>5, Zenon
<1>4. CASE x.qualifier # "none"
  <2>1. QualifierPart(x) = <<x.qualifier>> /\ x.qualifier \in QualifierChars
    BY <1>2, <1>4, ItemIs DEF QualifierPart
  <2>2. Holds(q, <<x.qualifier>>) /\ AfterQualifier(x, o) = q + Len(<<x.qualifier>>)
    BY <1>1, <2>1, PlacesAre DEF AfterQualifier
  <2>3. 1 \in 1 .. Len(<<x.qualifier>>) /\ <<x.qualifier>>[1] = x.qualifier /\ Len(<<x.qualifier>>) = 1
    OBVIOUS
  <2>4. Char(q + 1) = x.qualifier
    BY <2>2, <2>3, HoldsChar, SMTT(60)
  <2>5. x.qualifier \notin FlagChars \cup DecimalDigits \cup {"*", "."}
    BY <2>1, DigitsApart
  <2> QED BY <1>1, <1>4, <2>1, <2>2, <2>3, <2>4, <2>5, Zenon
<1> QED BY <1>3, <1>4

(* A number that is written behind the format's first k characters, and    *)
(* what follows it. *)
LEMMA MeetsNumber ==
  ASSUME NEW n \in 0 .. LongLongMax - 1, NEW k \in Nat, format \in Seq(Characters),
         Holds(k, Decimal(n)),
         Char(k + Len(Decimal(n)) + 1) \notin DecimalDigits
  PROVE  /\ Char(k + 1) \in DecimalDigits
         /\ n # 0 => Char(k + 1) \notin FlagChars
         /\ DigitsEnd(k + 1) = k + Len(Decimal(n)) + 1
         /\ skip_atoi(k + 1) = n
<1>1. PICK d \in Nat \ {0}, m \in Nat : d = Len(Decimal(n)) /\ m = Len(format)
  BY FirstDigit, LenProperties
<1>2. \A j \in 1 .. d : k + j <= m /\ Char(k + j) = Decimal(n)[j]
  <2>1. ASSUME NEW j \in 1 .. d PROVE k + j <= m /\ Char(k + j) = Decimal(n)[j]
    <3>1. Char(k + j) = Decimal(n)[j]
      BY <1>1, HoldsChar, SMTT(60)
    <3> QED BY <1>1, <3>1 DEF Holds
  <2> QED BY <2>1
<1>3. 1 \in 1 .. d /\ d \in 1 .. d /\ k + 1 \in Nat \ {0}
  OBVIOUS
<1>4. Char(k + 1) \in DecimalDigits /\ (n # 0 => Char(k + 1) \notin FlagChars)
  BY <1>2, <1>3, FirstDigit
<1>5. \A j \in 1 .. d : (k + 1) + j - 1 = k + j
  OBVIOUS
<1>6. \A j \in 1 .. Len(Decimal(n)) : Char((k + 1) + j - 1) = Decimal(n)[j]
  BY <1>1, <1>2, <1>5, Zenon
<1>7. k + d <= m /\ (k + 1) + d \in 1 .. m + 1 /\ (k + 1) + d = k + d + 1
  BY <1>2, <1>3
<1>8. (k + 1) + Len(Decimal(n)) \in 1 .. Len(format) + 1 /\ Char((k + 1) + Len(Decimal(n))) \notin DecimalDigits
  BY <1>1, <1>7, Zenon
<1>9. DigitsEnd(k + 1) = (k + 1) + Len(Decimal(n)) /\ skip_atoi(k + 1) = n
  BY <1>3, <1>6, <1>8, NumberRead
<1> QED BY <1>1, <1>4, <1>7, <1>9, Zenon

LEMMA MeetsPrecision ==
  ASSUME NEW x, NEW o, Placed(x, o)
  PROVE  LET pp == AfterWidth(x, o)
         IN  /\ Char(pp + 1) \notin FlagChars \cup DecimalDigits \cup {"*"}
             /\ x.precision.how = "missing" => Char(pp + 1) # "." /\ AfterPrecision(x, o) = pp
             /\ x.precision.how # "missing" => Char(pp + 1) = "."
             /\ x.precision.how = "digits" =>
                  /\ Char(pp + 2) \in DecimalDigits
                  /\ DigitsEnd(pp + 2) = AfterPrecision(x, o) + 1 /\ skip_atoi(pp + 2) = x.precision.n
             /\ x.precision.how = "star" => Char(pp + 2) = "*" /\ AfterPrecision(x, o) = pp + 2
             /\ x.precision.how = "point" =>
                  Char(pp + 2) \notin DecimalDigits \cup {"*"} /\ AfterPrecision(x, o) = pp + 1
<1>1. PICK pp \in Nat, q \in Nat : pp = AfterWidth(x, o) /\ q = AfterPrecision(x, o)
  BY PlacesAre
<1>2. x \in FormatItems /\ format \in Seq(Characters)
  BY DEF Placed
<1>3. /\ x.precision.how \in {"missing", "digits", "star", "point"}
      /\ x.precision.how = "digits" => x.precision.n \in 0 .. LongLongMax - 1
  BY <1>2, ItemIs
<1>4. /\ Char(q + 1) \notin FlagChars \cup DecimalDigits \cup {"*", "."}
      /\ q = pp + Len(PrecisionPart(x))
      /\ Holds(pp, PrecisionPart(x))
  BY <1>1, MeetsQualifier, PlacesAre DEF AfterPrecision
<1>5. CASE x.precision.how = "missing"
  <2>1. PrecisionPart(x) = <<>>
    BY <1>5 DEF PrecisionPart
  <2>2. q = pp + 0
    BY <1>4, <2>1
  <2>3. q = pp
    BY <2>2
  <2> QED BY <1>1, <1>4, <1>5, <2>3, Zenon
<1>6. CASE x.precision.how # "missing"
  <2> DEFINE w == AmountText(x.precision)
             a == <<".">>
  <2>1. PrecisionPart(x) = a \o w
    BY <1>6, Zenon DEF PrecisionPart
  <2>2. /\ w \in Seq(Characters)
        /\ x.precision.how = "digits" => w = Decimal(x.precision.n)
        /\ x.precision.how = "star" => w = <<"*">>
        /\ x.precision.how \notin {"digits", "star"} => w = <<>>
    BY <1>3, AmountIs
  <2>3. a \in Seq(Characters) /\ Len(a) = 1 /\ a[1] = "."
    BY VsprintfAssumption
  <2> HIDE DEF a, w
  <2>4. Holds(pp, a) /\ Holds(pp + Len(a), w)
    BY <1>4, <2>1, <2>2, <2>3, HoldsBoth
  <2>5. Len(a \o w) = Len(a) + Len(w) /\ Len(w) \in Nat
    BY <2>2, <2>3, ConcatProperties, SMTT(60)
  <2>6. Char(pp + 1) = "."
    <3>1. 1 \in 1 .. Len(a)
      BY <2>3
    <3> QED BY <2>3, <2>4, <3>1, HoldsChar, ZenonT(60)
  <2>7. Holds(pp + 1, w) /\ q = pp + (1 + Len(w))
    BY <1>4, <2>1, <2>3, <2>4, <2>5, Zenon
  <2>8. pp + 1 \in Nat /\ (pp + 1) + 1 = pp + 2 /\ pp + (1 + 1) = pp + 2 /\ pp + (1 + 0) = pp + 1
        /\ pp + (1 + Len(w)) = (pp + 1) + Len(w)
    BY <2>5
  <2>9. CASE x.precision.how = "digits"
    <3>1. PICK n \in 0 .. LongLongMax - 1 : n = x.precision.n
      BY <1>3, <2>9
    <3>2. Holds(pp + 1, Decimal(n)) /\ q = (pp + 1) + Len(Decimal(n))
      BY <2>2, <2>7, <2>8, <2>9, <3>1, Zenon
    <3>3. Char((pp + 1) + Len(Decimal(n)) + 1) \notin DecimalDigits
      BY <1>4, <3>2
    <3>4. /\ Char((pp + 1) + 1) \in DecimalDigits
          /\ DigitsEnd((pp + 1) + 1) = (pp + 1) + Len(Decimal(n)) + 1
          /\ skip_atoi((pp + 1) + 1) = n
      BY <1>2, <2>8, <3>2, <3>3, MeetsNumber
    <3> QED BY <1>1, <2>6, <2>8, <2>9, <3>1, <3>2, <3>4, DigitsApart
  <2>10. CASE x.precision.how = "star"
    <3>1. w = <<"*">> /\ Len(w) = 1 /\ w[1] = "*" /\ 1 \in 1 .. Len(w)
      BY <2>2, <2>10
    <3>2. Char((pp + 1) + 1) = "*" /\ q = pp + (1 + 1)
      BY <2>7, <2>8, <3>1, HoldsChar, SMTT(60)
    <3> QED BY <1>1, <2>6, <2>8, <2>10, <3>2, DigitsApart
  <2>11. CASE x.precision.how = "point"
    <3>1. w = <<>> /\ Len(w) = 0
      BY <2>2, <2>11
    <3>2. q = pp + (1 + 0)
      BY <2>7, <3>1
    <3>3. q = pp + 1 /\ Char(pp + 2) \notin DecimalDigits \cup {"*"}
      BY <1>4, <2>8, <3>2
    <3> QED BY <1>1, <2>6, <2>11, <3>3, DigitsApart
  <2> QED BY <1>3, <1>6, <2>9, <2>10, <2>11
<1> QED BY <1>5, <1>6

LEMMA MeetsWidth ==
  ASSUME NEW x, NEW o, Placed(x, o)
  PROVE  LET w == AfterFlags(x, o)
         IN  /\ Char(w + 1) \notin FlagChars
             /\ x.width.how = "missing" =>
                  Char(w + 1) \notin DecimalDigits \cup {"*"} /\ AfterWidth(x, o) = w
             /\ x.width.how = "digits" =>
                  /\ Char(w + 1) \in DecimalDigits
                  /\ DigitsEnd(w + 1) = AfterWidth(x, o) + 1 /\ skip_atoi(w + 1) = x.width.n
             /\ x.width.how = "star" => Char(w + 1) = "*" /\ AfterWidth(x, o) = w + 1
<1>1. PICK w \in Nat, pp \in Nat : w = AfterFlags(x, o) /\ pp = AfterWidth(x, o)
  BY PlacesAre
<1>2. x \in FormatItems /\ format \in Seq(Characters)
  BY DEF Placed
<1>3. /\ x.width.how \in {"missing", "digits", "star"}
      /\ x.width.how = "digits" => x.width.n \in 1 .. LongLongMax - 1
  BY <1>2, ItemIs
<1>4. /\ Char(pp + 1) \notin FlagChars \cup DecimalDigits \cup {"*"}
      /\ pp = w + Len(AmountText(x.width))
      /\ Holds(w, AmountText(x.width))
  BY <1>1, MeetsPrecision, PlacesAre DEF AfterWidth
<1>5. /\ x.width.how = "digits" => AmountText(x.width) = Decimal(x.width.n)
      /\ x.width.how = "star" => AmountText(x.width) = <<"*">>
      /\ x.width.how = "missing" => AmountText(x.width) = <<>>
  <2>1. x.width.how \in {"missing", "star", "point"} \/ x.width.n \in 0 .. LongLongMax - 1
    BY <1>3
  <2> QED BY <2>1, AmountIs
<1>6. CASE x.width.how = "missing"
  <2>1. pp = w + 0
    BY <1>4, <1>5, <1>6
  <2>2. pp = w
    BY <2>1
  <2> QED BY <1>1, <1>4, <1>6, <2>2, Zenon
<1>7. CASE x.width.how = "digits"
  <2>1. PICK n \in 0 .. LongLongMax - 1 : n = x.width.n /\ n # 0
    BY <1>3, <1>7
  <2>2. Holds(w, Decimal(n)) /\ pp = w + Len(Decimal(n))
    BY <1>4, <1>5, <1>7, <2>1, Zenon
  <2>3. Char(w + Len(Decimal(n)) + 1) \notin DecimalDigits
    BY <1>4, <2>2
  <2>4. /\ Char(w + 1) \in DecimalDigits /\ Char(w + 1) \notin FlagChars
        /\ DigitsEnd(w + 1) = w + Len(Decimal(n)) + 1
        /\ skip_atoi(w + 1) = n
    BY <1>2, <2>1, <2>2, <2>3, MeetsNumber
  <2> QED BY <1>1, <1>7, <2>1, <2>2, <2>4
<1>8. CASE x.width.how = "star"
  <2>1. /\ AmountText(x.width) = <<"*">> /\ Len(<<"*">>) = 1 /\ <<"*">>[1] = "*" /\ 1 \in 1 .. Len(<<"*">>)
    BY <1>5, <1>8
  <2>2. Char(w + 1) = "*" /\ pp = w + 1
    BY <1>4, <2>1, HoldsChar, SMTT(60)
  <2> QED BY <1>1, <1>8, <2>2, DigitsApart
<1> QED BY <1>3, <1>6, <1>7, <1>8

(* The arguments that an item takes *)
Arguments == Int \cup Seq(Characters \cup {Nul})

WidthArgument(x)     == IF x.width.how = "star" THEN <<x.width.n>> ELSE <<>>
PrecisionArgument(x) == IF x.precision.how = "star" THEN <<x.precision.n>> ELSE <<>>
ValueArgument(x)     == CASE x.conversion \in Numbers \cup {"p", "n"} -> <<x.number>>
                          [] x.conversion \in {"c", "s"} -> <<x.string>>
                          [] OTHER -> <<>>

LEMMA AnyAssociative ==
  ASSUME NEW T
  PROVE  \A ss, t, u \in Seq(T) : Cat(Cat(ss, t), u) = Cat(ss, Cat(t, u))
BY ConcatAssociative DEF Cat

LEMMA ArgumentsAre ==
  ASSUME NEW x \in FormatItems
  PROVE  /\ ArgumentsOf(x) \in Seq(Arguments)
         /\ x.conversion = "text" => ArgumentsOf(x) = <<>>
         /\ x.conversion # "text" =>
              /\ WidthArgument(x) \in Seq(Arguments) /\ PrecisionArgument(x) \in Seq(Arguments)
              /\ ValueArgument(x) \in Seq(Arguments)
              /\ ArgumentsOf(x) = (WidthArgument(x) \o PrecisionArgument(x)) \o ValueArgument(x)
<1>1. /\ x.width.n \in Int /\ x.precision.n \in Int /\ x.number \in Int /\ x.string \in Seq(Characters \cup {Nul})
  BY ItemIs
<1>2. x.width.n \in Arguments /\ x.precision.n \in Arguments /\ x.number \in Arguments /\ x.string \in Arguments
  BY <1>1, Zenon DEF Arguments
<1>3. <<x.width.n>> \in Seq(Arguments) /\ <<x.precision.n>> \in Seq(Arguments)
      /\ <<x.number>> \in Seq(Arguments) /\ <<x.string>> \in Seq(Arguments) /\ <<>> \in Seq(Arguments)
  BY <1>2
<1>4. WidthArgument(x) \in Seq(Arguments) /\ PrecisionArgument(x) \in Seq(Arguments)
  BY <1>3 DEF WidthArgument, PrecisionArgument
<1>5. ValueArgument(x) \in Seq(Arguments)
  BY <1>3 DEF ValueArgument
<1>6. x.conversion = "text" => ArgumentsOf(x) = <<>>
  BY Zenon DEF ArgumentsOf
<1>7. x.conversion # "text" =>
        ArgumentsOf(x) = (WidthArgument(x) \o PrecisionArgument(x)) \o ValueArgument(x)
  BY Zenon DEF ArgumentsOf, WidthArgument, PrecisionArgument, ValueArgument
<1>8. ArgumentsOf(x) \in Seq(Arguments)
  <2>1. WidthArgument(x) \o PrecisionArgument(x) \in Seq(Arguments)
    BY <1>4
  <2>2. (WidthArgument(x) \o PrecisionArgument(x)) \o ValueArgument(x) \in Seq(Arguments)
    BY <1>5, <2>1
  <2> QED BY <1>3, <1>6, <1>7, <2>2, Zenon
<1> QED BY <1>4, <1>5, <1>6, <1>7, <1>8, Zenon

LEMMA ArgumentsFromIs ==
  ASSUME items \in Seq(FormatItems), NEW k \in 0 .. Len(items)
  PROVE  /\ ArgumentsFrom(k) \in Seq(Arguments)
         /\ k < Len(items) => ArgumentsFrom(k) = ArgumentsOf(items[k + 1]) \o ArgumentsFrom(k + 1)
<1> DEFINE S(m) == [j \in 1 .. Len(items) - m |-> ArgumentsOf(items[m + j])]
<1>1. Len(items) \in Nat /\ k \in Nat /\ \A j \in 1 .. Len(items) : items[j] \in FormatItems
  OBVIOUS
<1>2. \A j \in 1 .. Len(items) : ArgumentsOf(items[j]) \in Seq(Arguments)
  BY <1>1, ArgumentsAre
<1>3. \A m : ArgumentsFrom(m) = FlattenSeq(S(m))
  BY Zenon DEF ArgumentsFrom
<1>4. Len(items) - k \in Nat /\ \A j \in 1 .. Len(items) - k : k + j \in 1 .. Len(items)
  BY <1>1
<1>5. S(k) \in [1 .. Len(items) - k -> Seq(Arguments)]
  BY <1>2, <1>4
<1>6. ArgumentsFrom(k) \in Seq(Arguments)
  <2> HIDE DEF S
  <2> QED BY <1>3, <1>4, <1>5, PiecesFlat
<1>7. ASSUME k < Len(items)
      PROVE  ArgumentsFrom(k) = ArgumentsOf(items[k + 1]) \o ArgumentsFrom(k + 1)
  <2>1. PICK n \in Nat \ {0} : n = Len(items) - k
    BY <1>1, <1>7
  <2>2. S(k) \in Seq(Seq(Arguments)) /\ Len(S(k)) = n
    <3> HIDE DEF S
    <3> QED BY <1>5, <2>1
  <2>3. S(k)[1] = ArgumentsOf(items[k + 1])
    BY <2>1
  <2>4. /\ Len(items) - (k + 1) = n - 1 /\ \A j \in 1 .. n - 1 : j + 1 \in 1 .. n /\ k + (j + 1) = (k + 1) + j
    BY <1>1, <2>1
  <2>5. \A j \in 1 .. n - 1 : S(k)[j + 1] = ArgumentsOf(items[(k + 1) + j])
    <3>1. \A ii \in 1 .. n : S(k)[ii] = ArgumentsOf(items[k + ii])
      BY <2>1, Zenon
    <3> HIDE DEF S
    <3> QED BY <2>4, <3>1, Zenon
  <2>6. S(k + 1) = [j \in 1 .. n - 1 |-> ArgumentsOf(items[(k + 1) + j])]
    BY <2>4, Zenon
  <2> HIDE DEF S
  <2>7. S(k) # <<>>
    BY <2>2
  <2> DEFINE t == Tail(S(k))
  <2>8. t \in Seq(Seq(Arguments)) /\ Len(t) = n - 1 /\ \A j \in 1 .. n - 1 : t[j] = S(k)[j + 1]
    <3>1. t \in Seq(Seq(Arguments)) /\ Len(t) = Len(S(k)) - 1
          /\ \A j \in 1 .. Len(t) : t[j] = S(k)[j + 1]
      BY <2>2, <2>7, HeadTailProperties
    <3> HIDE DEF t
    <3> QED BY <2>2, <3>1
  <2> HIDE DEF t
  <2>9. t = [j \in 1 .. n - 1 |-> t[j]]
    <3>1. n - 1 = Len(t)
      BY <2>8
    <3> QED BY <2>8, <3>1
  <2>10. t = S(k + 1)
    BY <2>5, <2>6, <2>8, <2>9
  <2>11. FlattenSeq(S(k)) = S(k)[1] \o FlattenSeq(t)
    BY <2>2, FlattenCons DEF t
  <2> QED BY <1>3, <2>3, <2>10, <2>11, Zenon
<1> QED BY <1>6, <1>7

(* The arguments at an item: its own come first, in the order in which they *)
(* are asked for. *)
LEMMA ArgumentsAt ==
  ASSUME items \in Seq(FormatItems), NEW k \in 0 .. Len(items) - 1
  PROVE  LET x == items[k + 1]
         IN  /\ ArgumentsFrom(k + 1) \in Seq(Arguments)
             /\ x.conversion = "text" => ArgumentsFrom(k) = ArgumentsFrom(k + 1)
             /\ x.conversion # "text" =>
                  /\ ValueArgument(x) \o ArgumentsFrom(k + 1) \in Seq(Arguments)
                  /\ PrecisionArgument(x) \o (ValueArgument(x) \o ArgumentsFrom(k + 1)) \in Seq(Arguments)
                  /\ ArgumentsFrom(k) =
                       WidthArgument(x) \o (PrecisionArgument(x) \o (ValueArgument(x) \o ArgumentsFrom(k + 1)))
<1>1. k \in 0 .. Len(items) /\ k + 1 \in 0 .. Len(items) /\ k + 1 \in 1 .. Len(items) /\ k < Len(items)
  OBVIOUS
<1>2. PICK x \in FormatItems : x = items[k + 1]
  BY <1>1
<1>3. PICK others \in Seq(Arguments) : others = ArgumentsFrom(k + 1)
  BY <1>1, ArgumentsFromIs
<1>4. ArgumentsFrom(k) = ArgumentsOf(x) \o others
  BY <1>1, <1>2, <1>3, ArgumentsFromIs
<1>5. x.conversion = "text" => ArgumentsFrom(k) = others
  <2>1. <<>> \o others = others
    BY ConcatEmptySeq
  <2> QED BY <1>4, <2>1, ArgumentsAre
<1>6. ASSUME x.conversion # "text"
      PROVE  /\ ValueArgument(x) \o others \in Seq(Arguments)
             /\ PrecisionArgument(x) \o (ValueArgument(x) \o others) \in Seq(Arguments)
             /\ ArgumentsFrom(k) = WidthArgument(x) \o (PrecisionArgument(x) \o (ValueArgument(x) \o others))
  <2> DEFINE w == WidthArgument(x)
             pp == PrecisionArgument(x)
             v == ValueArgument(x)
  <2>1. /\ w \in Seq(Arguments) /\ pp \in Seq(Arguments) /\ v \in Seq(Arguments)
        /\ ArgumentsOf(x) = (w \o pp) \o v
    BY <1>6, ArgumentsAre
  <2> HIDE DEF w, pp, v
  <2>2. v \o others \in Seq(Arguments) /\ w \o pp \in Seq(Arguments)
    BY <2>1
  <2>3. pp \o (v \o others) \in Seq(Arguments)
    BY <2>1, <2>2
  <2>4. Cat(Cat(Cat(w, pp), v), others) = Cat(Cat(w, pp), Cat(v, others))
    <3>1. Cat(w, pp) \in Seq(Arguments)
      BY <2>2, Zenon DEF Cat
    <3> QED BY <2>1, <3>1, AnyAssociative
  <2>5. Cat(Cat(w, pp), Cat(v, others)) = Cat(w, Cat(pp, Cat(v, others)))
    <3>1. Cat(v, others) \in Seq(Arguments)
      BY <2>2, Zenon DEF Cat
    <3> QED BY <2>1, <3>1, AnyAssociative
  <2>6. ((w \o pp) \o v) \o others = w \o (pp \o (v \o others))
    BY <2>4, <2>5, Zenon DEF Cat
  <2> QED BY <1>4, <2>1, <2>2, <2>3, <2>6, Zenon DEF w, pp, v
<1> QED BY <1>2, <1>3, <1>5, <1>6, Zenon

LEMMA FirstArgument ==
  ASSUME NEW T, NEW a \in T, NEW ss \in Seq(T)
  PROVE  Head(<<a>> \o ss) = a /\ Tail(<<a>> \o ss) = ss
<1> DEFINE u == <<a>> \o ss
<1>1. <<a>> \in Seq(T) /\ Len(<<a>>) = 1 /\ <<a>>[1] = a
  OBVIOUS
<1>2. /\ u \in Seq(T) /\ Len(u) = 1 + Len(ss)
      /\ \A j \in 1 .. 1 : u[j] = <<a>>[j]
      /\ \A j \in 1 .. Len(ss) : u[1 + j] = ss[j]
  <2>1. /\ u \in Seq(T) /\ Len(u) = Len(<<a>>) + Len(ss)
        /\ \A j \in 1 .. Len(<<a>>) : u[j] = <<a>>[j]
        /\ \A j \in 1 .. Len(ss) : u[Len(<<a>>) + j] = ss[j]
    BY <1>1, ConcatProperties
  <2> HIDE DEF u
  <2> QED BY <1>1, <2>1, Zenon
<1> HIDE DEF u
<1>3. Len(ss) \in Nat /\ u # <<>> /\ u[1] = a
  BY <1>1, <1>2
<1>4. Head(u) = a
  BY <1>2, <1>3, HeadTailProperties
<1> DEFINE t == Tail(u)
<1>5. t \in Seq(T) /\ Len(t) = Len(u) - 1 /\ \A j \in 1 .. Len(t) : t[j] = u[j + 1]
  BY <1>2, <1>3, HeadTailProperties
<1> HIDE DEF t
<1>6. Len(t) = Len(ss) /\ \A j \in 1 .. Len(ss) : t[j] = ss[j]
  BY <1>2, <1>3, <1>5
<1>7. t = ss
  BY <1>5, <1>6, SeqEqual
<1> QED BY <1>4, <1>7 DEF u, t

(* Everything that is written *)
Shown == Characters \cup {Nul}

Blank == " "

LEMMA Singles ==
  ASSUME NEW T
  PROVE  \A c, d \in T : <<c>> \in Seq(T) /\ <<c, d>> \in Seq(T)
OBVIOUS

LEMMA SideIs ==
  ASSUME NEW T, Blank \in T, NEW body \in Seq(T), NEW width \in Int, NEW left
  PROVE  Side(left, width, body) \in Seq(T)
<1>1. Len(body) \in Nat /\ width - Len(body) \in Int
  OBVIOUS
<1> DEFINE t == Times(width - Len(body), Blank)
<1>2. t \in Seq(T)
  BY <1>1, TimesIs
<1> HIDE DEF t
<1>3. body \o t \in Seq(T) /\ t \o body \in Seq(T)
  BY <1>2
<1> QED BY <1>3, Zenon DEF Side, Blank, t

LEMMA FieldText ==
  ASSUME NEW x \in FormatItems, NEW T, Blank \in T, NEW body \in Seq(T)
  PROVE  Field(x, body) = Side("LEFT" \in Flags(x), WidthOf(x), body) /\ Field(x, body) \in Seq(T)
<1>1. /\ x.flags \in Seq(FlagChars) /\ x.width.how \in {"missing", "digits", "star"} /\ x.width.n \in Int
      /\ x.width.how = "missing" => x.width.n = -1
      /\ x.width.how = "digits" => x.width.n >= 0
  BY ItemIs
<1>2. WidthKnown(x)
  BY <1>1 DEF WidthKnown
<1>3. Field(x, body) = Side("LEFT" \in Flags(x), WidthOf(x), body)
  BY <1>1, <1>2, FieldIs
<1>4. WidthOf(x) \in Int
  BY <1>1 DEF WidthOf
<1>5. Side("LEFT" \in Flags(x), WidthOf(x), body) \in Seq(T)
  BY <1>4, SideIs
<1> QED BY <1>3, <1>5

(* What PrintString shows of a string *)
NullText == <<"<", "N", "U", "L", "L", ">">>
StringShown(x) ==
  LET ss == IF x.string = <<Nul>> THEN NullText ELSE x.string
  IN SubSeq(ss, 1, strnlen(ss, PrecisionOf(x)))

LEMMA StringIs ==
  ASSUME NEW x \in FormatItems, x.conversion = "s"
  PROVE  LET ss == IF x.string = <<Nul>> THEN NullText ELSE x.string
         IN  /\ StringShown(x) \in Seq(Characters)
             /\ Len(StringShown(x)) = strnlen(ss, PrecisionOf(x))
             /\ StringText(x) = Field(x, StringShown(x))
<1> DEFINE ss == IF x.string = <<Nul>> THEN NullText ELSE x.string
           m == strnlen(ss, PrecisionOf(x))
<1>1. x.precision.n \in Int /\ (x.string = <<Nul>> \/ x.string \in Seq(Characters))
  BY ItemIs
<1>2. NullText \in Seq(Characters)
  BY VsprintfAssumption DEF NullText
<1>3. ss \in Seq(Characters)
  BY <1>1, <1>2
<1>4. StringShown(x) = SubSeq(ss, 1, m)
  BY Zenon DEF StringShown
<1>5. StringText(x) = Field(x, IF x.precision.how = "missing" THEN ss
                               ELSE SubSeq(ss, 1, Smallest(Len(ss), Largest(x.precision.n, 0))))
  BY Zenon DEF StringText, NullText
<1> HIDE DEF ss
<1>6. PICK l \in Nat : l = Len(ss)
  BY <1>3, LenProperties
<1>7. CASE x.precision.how = "missing"
  <2>1. m = l
    BY <1>6, <1>7 DEF strnlen, PrecisionOf
  <2>2. SubSeq(ss, 1, Len(ss)) = ss
    BY <1>3, SubSeqFull
  <2>3. StringShown(x) = ss
    BY <1>4, <1>6, <2>1, <2>2, Zenon
  <2> QED BY <1>3, <1>5, <1>6, <1>7, <2>1, <2>3, Zenon DEF ss
<1>8. CASE x.precision.how # "missing"
  <2>1. PICK pp \in Nat : pp = Largest(x.precision.n, 0)
    BY <1>1 DEF Largest
  <2>2. PrecisionOf(x) = pp
    BY <1>8, <2>1, Zenon DEF PrecisionOf
  <2>3. m = Smallest(l, pp)
    BY <1>6, <2>2 DEF strnlen
  <2>4. m \in 0 .. l
    BY <2>3 DEF Smallest
  <2>5. SubSeq(ss, 1, m) \in Seq(Characters) /\ Len(SubSeq(ss, 1, m)) = m
    <3> HIDE DEF m
    <3>1. \A ii \in 1 .. m : ss[ii] \in Characters
      BY <1>3, <1>6, <2>4
    <3>2. 1 \in 1 .. l + 1 /\ m \in 0 .. l /\ Len(ss) = l
      BY <1>6, <2>4
    <3> QED BY <1>3, <2>4, <3>1, <3>2, SubSeqProperties
  <2>6. StringText(x) = Field(x, SubSeq(ss, 1, m))
    BY <1>5, <1>6, <1>8, <2>1, <2>3, Zenon
  <2> QED BY <1>4, <2>5, <2>6, Zenon DEF ss
<1> QED BY <1>7, <1>8

(* Nothing is shown of a string whose precision is negative, all of it if  *)
(* it has none. *)
LEMMA StringTextIs ==
  ASSUME NEW x \in FormatItems, x.conversion = "s"
  PROVE  TextOf(x) = Field(x, StringShown(x))
<1> DEFINE ss == IF x.string = <<Nul>> THEN NullText ELSE x.string
           y == [x EXCEPT !.precision = Missing]
<1>1. /\ x.precision.n \in Int /\ x.precision.how \in {"missing", "digits", "star", "point"}
      /\ x.precision.how = "digits" => x.precision.n >= 0
      /\ x.precision.how = "point" => x.precision.n = 0
  BY ItemIs
<1>2. /\ StringShown(x) \in Seq(Characters) /\ Len(StringShown(x)) = strnlen(ss, PrecisionOf(x))
      /\ StringText(x) = Field(x, StringShown(x))
  BY StringIs, Zenon
<1>3. x.conversion = "s" /\ x.conversion \notin Numbers \cup {"p", "text", "c", "n", "%", Nul}
  BY DEF Numbers, Nul
<1>4. Meaning(x) = StringText(IF x.precision.n < 0 THEN y ELSE x)
  <2>1. Meaning(x) = StringText(WithLimit(x))
    BY <1>3, Zenon DEF Meaning
  <2> QED BY <2>1 DEF WithLimit
<1>5. CASE NothingShown(x)
  <2>1. x.precision.how = "star" /\ x.precision.n < 0
    BY <1>5 DEF NothingShown
  <2>2. PrecisionOf(x) = 0
    BY <1>1, <2>1 DEF PrecisionOf, Largest
  <2>3. Len(ss) \in Nat
    <3>1. x.string = <<Nul>> \/ x.string \in Seq(Characters)
      BY ItemIs
    <3>2. NullText \in Seq(Characters)
      BY VsprintfAssumption DEF NullText
    <3>3. ss \in Seq(Characters)
      BY <3>1, <3>2
    <3> QED BY <3>3, LenProperties
  <2> HIDE DEF ss
  <2>4. strnlen(ss, 0) = 0
    BY <2>3 DEF strnlen, Smallest
  <2>5. StringShown(x) = <<>>
    BY <1>2, <2>2, <2>4, EmptySeq
  <2> QED BY <1>5, <2>5, Zenon DEF TextOf
<1>6. CASE ~NothingShown(x) /\ x.precision.n < 0
  <2>1. x.precision.how = "missing"
    BY <1>1, <1>6 DEF NothingShown
  <2>2. y.precision = Missing /\ y.string = x.string /\ y.flags = x.flags /\ y.width = x.width
    BY DEF FormatItems
  <2> HIDE DEF y
  <2>3. \A body : Field(y, body) = Field(x, body)
    BY <2>2, Zenon DEF Field
  <2>4. y.precision.how = "missing"
    BY <2>2 DEF Missing
  <2>5. StringText(y) = StringText(x)
    BY <2>1, <2>2, <2>3, <2>4, Zenon DEF StringText
  <2> QED BY <1>2, <1>4, <1>6, <2>5, Zenon DEF TextOf
<1>7. CASE ~NothingShown(x) /\ ~(x.precision.n < 0)
  BY <1>2, <1>4, <1>7, Zenon DEF TextOf
<1> QED BY <1>5, <1>6, <1>7, Zenon

LEMMA TextOfIs ==
  ASSUME NEW x \in FormatItems
  PROVE  /\ TextOf(x) \in Seq(Shown)
         /\ x.conversion = "text" => TextOf(x) = x.string
         /\ x.conversion \in Numbers \cup {"p"} => TextOf(x) = NumberText(x)
         /\ x.conversion = "c" => TextOf(x) = Side("LEFT" \in Flags(x), WidthOf(x), x.string)
         /\ x.conversion = "s" => TextOf(x) = Side("LEFT" \in Flags(x), WidthOf(x), StringShown(x))
         /\ x.conversion = "n" => TextOf(x) = <<>>
         /\ x.conversion \in {"%", Nul} => TextOf(x) = <<"%">>
         /\ x.conversion \notin Numbers \cup {"p", "c", "s", "n", "%", Nul, "text"} =>
              TextOf(x) = <<"%", x.conversion>>
<1>1. /\ x.conversion \in Characters \cup {Nul, "text"} /\ x.string \in Seq(Shown)
      /\ x.conversion = "text" => \E c \in Characters \ {"%"} : x.string = <<c>>
  BY ItemIs, Zenon DEF Shown
<1>2. "%" \in Characters /\ " " \in Characters /\ Characters \subseteq Shown /\ Blank \in Shown /\ "%" \in Shown
  BY VsprintfAssumption DEF Shown, FlagChars, Blank
<1>3. \A T : T \in Seq(Characters) => T \in Seq(Shown)
  BY <1>2, SeqMonotonic
<1>4. /\ "text" \notin Numbers \cup {"p", "c", "s", "n", "%", Nul}
      /\ "c" \notin Numbers \cup {"p", "s", "n", "%", Nul}
      /\ "s" \notin Numbers \cup {"p", "n", "%", Nul}
      /\ "n" \notin Numbers \cup {"p", "%", Nul}
      /\ "%" \notin Numbers \cup {"p", Nul} /\ Nul \notin Numbers \cup {"p"}
  BY DEF Numbers, Nul
<1>5. CASE x.conversion = "text"
  <2>1. x.conversion \notin Numbers \cup {"p", "c", "s", "n", "%", Nul}
    BY <1>4, <1>5
  <2>2. TextOf(x) = x.string
    BY <1>5, <2>1, Zenon DEF TextOf, NothingShown, Meaning
  <2> QED BY <1>1, <1>5, <2>1, <2>2, Zenon
<1>6. CASE x.conversion \in Numbers \cup {"p"}
  <2>1. x.conversion \notin {"text", "c", "s", "n", "%", Nul}
    BY <1>4, <1>6
  <2>2. TextOf(x) = NumberText(x)
    BY <1>6, <2>1, Zenon DEF TextOf, NothingShown, Meaning
  <2>3. NumberText(x) \in Seq(Shown)
    BY <1>3, <1>6, NumberRight
  <2> QED BY <1>6, <2>1, <2>2, <2>3, Zenon
<1>7. CASE x.conversion = "c"
  <2>1. x.conversion \notin Numbers \cup {"p", "text", "s", "n", "%", Nul}
    BY <1>4, <1>7
  <2>2. TextOf(x) = Field(x, x.string)
    BY <1>7, <2>1, Zenon DEF TextOf, NothingShown, Meaning
  <2>3. Field(x, x.string) = Side("LEFT" \in Flags(x), WidthOf(x), x.string) /\ Field(x, x.string) \in Seq(Shown)
    BY <1>1, <1>2, FieldText
  <2> QED BY <1>7, <2>1, <2>2, <2>3, Zenon
<1>8. CASE x.conversion = "s"
  <2>1. x.conversion \notin Numbers \cup {"p", "text", "c", "n", "%", Nul}
    BY <1>4, <1>8
  <2>2. TextOf(x) = Field(x, StringShown(x))
    BY <1>8, StringTextIs
  <2>3. StringShown(x) \in Seq(Shown)
    BY <1>3, <1>8, StringIs
  <2>4. Field(x, StringShown(x)) = Side("LEFT" \in Flags(x), WidthOf(x), StringShown(x))
        /\ Field(x, StringShown(x)) \in Seq(Shown)
    BY <1>2, <2>3, FieldText
  <2> QED BY <1>8, <2>1, <2>2, <2>3, <2>4, Zenon
<1>9. CASE x.conversion = "n"
  <2>1. x.conversion \notin Numbers \cup {"p", "text", "c", "s", "%", Nul}
    BY <1>4, <1>9
  <2>2. TextOf(x) = <<>>
    BY <1>9, <2>1, Zenon DEF TextOf, NothingShown, Meaning
  <2>3. <<>> \in Seq(Shown)
    BY EmptySeq
  <2> QED BY <1>9, <2>1, <2>2, <2>3, Zenon
<1>10. CASE x.conversion \in {"%", Nul}
  <2>1. x.conversion \notin Numbers \cup {"p", "text", "c", "s", "n"}
    BY <1>4, <1>10
  <2>2. TextOf(x) = <<"%">>
    BY <1>10, <2>1, Zenon DEF TextOf, NothingShown, Meaning
  <2>3. <<"%">> \in Seq(Shown)
    BY <1>2, Singles, Zenon
  <2> QED BY <1>10, <2>1, <2>2, <2>3, Zenon
<1>11. CASE x.conversion \notin Numbers \cup {"p", "c", "s", "n", "%", Nul, "text"}
  <2>1. TextOf(x) = <<"%", x.conversion>>
    BY <1>11, Zenon DEF TextOf, NothingShown, Meaning
  <2>2. x.conversion \in Shown
    BY <1>1, <1>11 DEF Shown
  <2>3. <<"%", x.conversion>> \in Seq(Shown)
    BY <1>2, <2>2, Singles, Zenon
  <2> QED BY <1>11, <2>1, <2>3, Zenon
<1> QED BY <1>5, <1>6, <1>7, <1>8, <1>9, <1>10, <1>11, Zenon

(* The text and the counts grow item by item. *)
LEMMA TextToIs ==
  ASSUME items \in Seq(FormatItems), NEW k \in 0 .. Len(items)
  PROVE  /\ TextTo(k) \in Seq(Shown)
         /\ k = 0 => TextTo(k) = <<>>
         /\ k < Len(items) => TextTo(k + 1) = TextTo(k) \o TextOf(items[k + 1])
<1> DEFINE S(m) == [j \in 1 .. m |-> TextOf(items[j])]
<1>1. Len(items) \in Nat /\ k \in Nat /\ \A j \in 1 .. Len(items) : items[j] \in FormatItems
  OBVIOUS
<1>2. \A j \in 1 .. Len(items) : TextOf(items[j]) \in Seq(Shown)
  BY <1>1, TextOfIs
<1>3. \A m \in 0 .. Len(items) : S(m) \in [1 .. m -> Seq(Shown)]
  BY <1>1, <1>2
<1>4. \A m : TextTo(m) = FlattenSeq(S(m))
  BY Zenon DEF TextTo
<1>5. TextTo(k) \in Seq(Shown) /\ (k = 0 => TextTo(k) = <<>>)
  <2>1. S(k) \in [1 .. k -> Seq(Shown)]
    BY <1>3
  <2> HIDE DEF S
  <2> QED BY <1>1, <1>4, <2>1, PiecesFlat
<1>6. ASSUME k < Len(items)
      PROVE  TextTo(k + 1) = TextTo(k) \o TextOf(items[k + 1])
  <2>1. k + 1 \in 0 .. Len(items) /\ k + 1 \in 1 .. k + 1
        /\ \A n \in 1 .. k : n \in 1 .. k + 1
    BY <1>1, <1>6
  <2>2. \A n \in 1 .. k : S(k + 1)[n] = S(k)[n]
    BY <2>1, Zenon
  <2>3. S(k + 1)[k + 1] = TextOf(items[k + 1])
    BY <2>1, Zenon
  <2>4. S(k) \in [1 .. k -> Seq(Shown)] /\ S(k + 1) \in [1 .. k + 1 -> Seq(Shown)]
    BY <1>3, <2>1, Zenon
  <2> HIDE DEF S
  <2>5. FlattenSeq(S(k + 1)) = FlattenSeq(S(k)) \o S(k + 1)[k + 1]
    BY <1>1, <2>2, <2>4, PiecesSnoc, ZenonT(60)
  <2> QED BY <1>4, <2>3, <2>5
<1> QED BY <1>5, <1>6

StoredAt(j) == [pointer |-> items[j].number, length |-> Len(TextTo(j))]
Stored      == [pointer : Int, length : Nat]

LEMMA StoredIs ==
  ASSUME items \in Seq(FormatItems), NEW j \in 0 .. Len(items), items[j] \in FormatItems
  PROVE  StoredAt(j) \in Stored
<1>1. TextTo(j) \in Seq(Shown)
  BY TextToIs
<1>2. Len(TextTo(j)) \in Nat
  BY <1>1, LenProperties
<1>3. items[j].number \in Int
  BY ItemIs
<1> QED BY <1>2, <1>3 DEF StoredAt, Stored

LEMMA CountsToIs ==
  ASSUME items \in Seq(FormatItems), NEW k \in 0 .. Len(items)
  PROVE  /\ CountsTo(k) \in Seq(Stored)
         /\ k = 0 => CountsTo(k) = <<>>
         /\ k < Len(items) =>
              CountsTo(k + 1) = IF items[k + 1].conversion = "n"
                                THEN Append(CountsTo(k), StoredAt(k + 1)) ELSE CountsTo(k)
<1> DEFINE c(j) == IF items[j].conversion = "n" THEN <<StoredAt(j)>> ELSE <<>>
           S(m) == [j \in 1 .. m |-> c(j)]
<1>1. Len(items) \in Nat /\ k \in Nat /\ \A j \in 1 .. Len(items) : items[j] \in FormatItems
  OBVIOUS
<1>2. \A j \in 1 .. Len(items) : c(j) \in Seq(Stored)
  <2>1. ASSUME NEW j \in 1 .. Len(items) PROVE c(j) \in Seq(Stored)
    <3>1. j \in 0 .. Len(items) /\ items[j] \in FormatItems
      OBVIOUS
    <3>2. StoredAt(j) \in Stored
      BY <3>1, StoredIs
    <3>3. <<StoredAt(j)>> \in Seq(Stored) /\ <<>> \in Seq(Stored)
      BY <3>2
    <3> QED BY <3>3, Zenon
  <2> QED BY <2>1
<1> HIDE DEF c
<1>3. \A m \in 0 .. Len(items) : S(m) \in [1 .. m -> Seq(Stored)]
  BY <1>1, <1>2
<1>4. \A m : CountsTo(m) = FlattenSeq(S(m))
  BY Zenon DEF CountsTo, StoredAt, c
<1>5. CountsTo(k) \in Seq(Stored) /\ (k = 0 => CountsTo(k) = <<>>)
  <2>1. S(k) \in [1 .. k -> Seq(Stored)]
    BY <1>3
  <2> HIDE DEF S
  <2> QED BY <1>1, <1>4, <2>1, PiecesFlat
<1>6. ASSUME k < Len(items)
      PROVE  CountsTo(k + 1) = IF items[k + 1].conversion = "n"
                               THEN Append(CountsTo(k), StoredAt(k + 1)) ELSE CountsTo(k)
  <2>1. k + 1 \in 0 .. Len(items) /\ k + 1 \in 1 .. k + 1
        /\ \A n \in 1 .. k : n \in 1 .. k + 1
    BY <1>1, <1>6
  <2>2. \A n \in 1 .. k : S(k + 1)[n] = S(k)[n]
    BY <2>1, Zenon
  <2>3. S(k + 1)[k + 1] = c(k + 1)
    BY <2>1, Zenon
  <2>4. S(k) \in [1 .. k -> Seq(Stored)] /\ S(k + 1) \in [1 .. k + 1 -> Seq(Stored)]
    BY <1>3, <2>1, Zenon
  <2> HIDE DEF S
  <2>5. FlattenSeq(S(k + 1)) = FlattenSeq(S(k)) \o S(k + 1)[k + 1]
    BY <1>1, <2>2, <2>4, PiecesSnoc, ZenonT(60)
  <2>6. CountsTo(k + 1) = CountsTo(k) \o c(k + 1)
    BY <1>4, <2>3, <2>5
  <2>7. CASE items[k + 1].conversion = "n"
    <3>1. c(k + 1) = <<StoredAt(k + 1)>> /\ StoredAt(k + 1) \in Stored
      BY <1>1, <2>1, <2>7, StoredIs DEF c
    <3>2. Append(CountsTo(k), StoredAt(k + 1)) = CountsTo(k) \o <<StoredAt(k + 1)>>
      BY <1>5, <3>1, AppendIsConcat
    <3> QED BY <2>6, <2>7, <3>1, <3>2, Zenon
  <2>8. CASE items[k + 1].conversion # "n"
    <3>1. c(k + 1) = <<>>
      BY <2>8, Zenon DEF c
    <3>2. CountsTo(k) \o <<>> = CountsTo(k)
      BY <1>5, ConcatEmptySeq
    <3> QED BY <2>6, <2>8, <3>1, <3>2, Zenon
  <2> QED BY <2>7, <2>8
<1> QED BY <1>5, <1>6

(* How far vsprintf has read an item x, of which the first character is    *)
(* behind the first o of the format; value are the arguments from that of  *)
(* its conversion on.                                                      *)
ReadingFlags(x, o, value) ==
  /\ at = "flags"
  /\ \E f \in 0 .. Len(x.flags) :
       fmt = o + 2 + f /\ flags = {FlagOf[x.flags[j]] : j \in 1 .. f}
  /\ args = WidthArgument(x) \o (PrecisionArgument(x) \o value)

ReadingPrecision(x, o, value) ==
  /\ at = "precision" /\ fmt = AfterWidth(x, o) + 1
  /\ flags = Flags(x) /\ field_width = WidthOf(x)
  /\ args = PrecisionArgument(x) \o value

ReadingQualifier(x, o, value) ==
  /\ at = "qualifier" /\ fmt = AfterPrecision(x, o) + 1
  /\ flags = Flags(x) /\ field_width = WidthOf(x) /\ precision = PrecisionOf(x)
  /\ args = value

ReadingConversion(x, o, value) ==
  /\ at = "conversion" /\ fmt = AfterQualifier(x, o) + 1
  /\ flags = Flags(x) /\ field_width = WidthOf(x) /\ precision = PrecisionOf(x)
  /\ qualifier = x.qualifier
  /\ args = value

Reading(x, o, value) ==
  \/ ReadingFlags(x, o, value) \/ ReadingPrecision(x, o, value)
  \/ ReadingQualifier(x, o, value) \/ ReadingConversion(x, o, value)

Between(k) ==
  /\ at \in {"text", "done"}
  /\ fmt = Len(FormatTo(k)) + 1 /\ args = ArgumentsFrom(k)
  /\ at = "done" => k = Len(items)

Within(k) ==
  /\ k < Len(items)
  /\ items[k + 1].conversion # "text"
  /\ Reading(items[k + 1], Len(FormatTo(k)), ValueArgument(items[k + 1]) \o ArgumentsFrom(k + 1))

(* The inductive invariant: the first k items are done, and the next has   *)
(* been read so far. *)
ItemsRead ==
  /\ items \in Formats /\ format = FormatTo(Len(items))
  /\ \E k \in 0 .. Len(items) :
       (Between(k) \/ Within(k)) /\ str = TextTo(k) /\ counts = CountsTo(k)

LEMMA TextsAre ==
  ASSUME items \in Formats
  PROVE  /\ items \in Seq(FormatItems) /\ Len(items) \in Nat
         /\ \A k \in 1 .. Len(items) : items[k] \in FormatItems
         /\ \A k \in 1 .. Len(items) - 1 : items[k].conversion # Nul
BY VsprintfAssumption

(* Where an item is read. *)
LEMMA PlacedAt ==
  ASSUME items \in Formats, format = FormatTo(Len(items)), NEW k \in 0 .. Len(items), k < Len(items)
  PROVE  LET x == items[k + 1]
             o == Len(FormatTo(k))
         IN  /\ x \in FormatItems /\ k + 1 \in 0 .. Len(items) /\ k \in 0 .. Len(items) - 1
             /\ o \in Nat /\ format \in Seq(Characters)
             /\ Holds(o, FormatOf(x))
             /\ Len(FormatTo(k + 1)) = o + Len(FormatOf(x))
             /\ x.conversion # "text" => Placed(x, o)
<1>1. /\ items \in Seq(FormatItems) /\ Len(items) \in Nat
      /\ \A j \in 1 .. Len(items) : items[j] \in FormatItems
      /\ \A j \in 1 .. Len(items) - 1 : items[j].conversion # Nul
  BY TextsAre
<1>2. k \in Nat /\ k \in 0 .. Len(items) - 1 /\ k + 1 \in 1 .. Len(items) /\ k + 1 \in 0 .. Len(items)
  BY <1>1
<1>3. PICK x \in FormatItems : x = items[k + 1]
  BY <1>1, <1>2
<1>4. /\ FormatTo(k) \in Seq(Characters)
      /\ Holds(Len(FormatTo(k)), FormatOf(x))
      /\ Len(FormatTo(k + 1)) = Len(FormatTo(k)) + Len(FormatOf(x))
      /\ Len(FormatTo(k + 1)) <= Len(format)
  BY <1>1, <1>2, <1>3, ItemAt
<1>5. PICK o \in Nat : o = Len(FormatTo(k))
  BY <1>4, LenProperties
<1>6. format \in Seq(Characters)
  <2>1. Len(items) \in 0 .. Len(items)
    BY <1>1
  <2> QED BY <1>1, <2>1, FormatToIs
<1>7. x.conversion = Nul => o + Len(FormatOf(x)) = Len(format)
  <2>1. SUFFICES ASSUME x.conversion = Nul PROVE o + Len(FormatOf(x)) = Len(format)
    OBVIOUS
  <2>2. ~(k + 1 \in 1 .. Len(items) - 1)
    BY <1>1, <1>3, <2>1
  <2>3. k + 1 = Len(items)
    BY <1>1, <1>2, <2>2
  <2> QED BY <1>4, <1>5, <2>3
<1>8. o + Len(FormatOf(x)) <= Len(format)
  BY <1>4, <1>5
<1>9. x.conversion # "text" => Placed(x, o)
  BY <1>4, <1>5, <1>6, <1>7, <1>8, Zenon DEF Placed
<1> QED BY <1>2, <1>3, <1>4, <1>5, <1>6, <1>9, Zenon

LEMMA SameItems ==
  ASSUME items' = items
  PROVE  \A k : /\ FormatTo(k)' = FormatTo(k) /\ TextTo(k)' = TextTo(k)
                /\ CountsTo(k)' = CountsTo(k) /\ ArgumentsFrom(k)' = ArgumentsFrom(k)
BY Zenon DEF FormatTo, TextTo, CountsTo, ArgumentsFrom

(* A step that ends an item. *)
Storing(x) == [pointer |-> x.number, length |-> Len(str)]

LEMMA ItemDone ==
  ASSUME items \in Formats, format = FormatTo(Len(items)), items' = items, format' = format,
         NEW k \in 0 .. Len(items), k < Len(items),
         str = TextTo(k), counts = CountsTo(k),
         at' = "text", fmt' = Len(FormatTo(k + 1)) + 1, args' = ArgumentsFrom(k + 1),
         str' = str \o TextOf(items[k + 1]),
         IF items[k + 1].conversion = "n" THEN counts' = Append(counts, Storing(items[k + 1])) ELSE counts' = counts
  PROVE  ItemsRead'
<1>1. k + 1 \in 0 .. Len(items) /\ items \in Seq(FormatItems) /\ items[k + 1] \in FormatItems
  BY TextsAre, PlacedAt
<1>2. str' = TextTo(k + 1)
  BY <1>1, TextToIs
<1>3. counts' = CountsTo(k + 1)
  <2>1. CASE items[k + 1].conversion = "n"
    <3>1. TextOf(items[k + 1]) = <<>>
      BY <1>1, <2>1, TextOfIs
    <3>2. str \in Seq(Shown)
      BY <1>1, TextToIs
    <3>3. str \o <<>> = str
      BY <3>2, ConcatEmptySeq
    <3>4. TextTo(k + 1) = str
      BY <1>2, <3>1, <3>3, Zenon
    <3>5. CountsTo(k + 1) = Append(CountsTo(k), StoredAt(k + 1))
      BY <1>1, <2>1, CountsToIs
    <3>6. StoredAt(k + 1) = Storing(items[k + 1])
      BY <3>4, Zenon DEF StoredAt, Storing
    <3> QED BY <2>1, <3>5, <3>6, Zenon
  <2>2. CASE items[k + 1].conversion # "n"
    <3>1. CountsTo(k + 1) = CountsTo(k)
      BY <1>1, <2>2, CountsToIs
    <3> QED BY <2>2, <3>1, Zenon
  <2> QED BY <2>1, <2>2
<1>4. /\ FormatTo(k + 1)' = FormatTo(k + 1) /\ TextTo(k + 1)' = TextTo(k + 1)
      /\ CountsTo(k + 1)' = CountsTo(k + 1) /\ ArgumentsFrom(k + 1)' = ArgumentsFrom(k + 1)
      /\ FormatTo(Len(items))' = FormatTo(Len(items))
  BY SameItems, Zenon
<1>5. Between(k + 1)'
  <2>1. at' \in {"text", "done"} /\ at' # "done"
    OBVIOUS
  <2> QED BY <1>4, <2>1, Zenon DEF Between
<1>6. (str = TextTo(k + 1))' /\ (counts = CountsTo(k + 1))'
  BY <1>2, <1>3, <1>4, Zenon
<1>7. (items \in Formats)' /\ (format = FormatTo(Len(items)))'
  BY <1>4, Zenon
<1> QED BY <1>1, <1>5, <1>6, <1>7, Zenon DEF ItemsRead

(* A step within an item. *)
LEMMA ItemGoesOn ==
  ASSUME items \in Formats, format = FormatTo(Len(items)), items' = items, format' = format,
         NEW k \in 0 .. Len(items), k < Len(items), items[k + 1].conversion # "text",
         str = TextTo(k), counts = CountsTo(k), str' = str, counts' = counts,
         NEW x, NEW o, NEW value, x = items[k + 1], o = Len(FormatTo(k)),
         value = ValueArgument(x) \o ArgumentsFrom(k + 1),
         Reading(x, o, value)'
  PROVE  ItemsRead'
<1>1. /\ FormatTo(k)' = FormatTo(k) /\ TextTo(k)' = TextTo(k)
      /\ CountsTo(k)' = CountsTo(k) /\ FormatTo(Len(items))' = FormatTo(Len(items))
      /\ ArgumentsFrom(k + 1)' = ArgumentsFrom(k + 1)
  BY SameItems, Zenon
<1>2. (x = items[k + 1])' /\ (o = Len(FormatTo(k)))' /\ (value = ValueArgument(items[k + 1]) \o ArgumentsFrom(k + 1))'
  BY <1>1, Zenon
<1>3. Within(k)'
  BY <1>2, Zenon DEF Within
<1>4. (str = TextTo(k))' /\ (counts = CountsTo(k))'
  BY <1>1, Zenon
<1>5. (items \in Formats)' /\ (format = FormatTo(Len(items)))'
  BY <1>1, Zenon
<1> QED BY <1>3, <1>4, <1>5, Zenon DEF ItemsRead

(* What vsprintf has before it between two items, and at a conversion *)
AtText(k) ==
  /\ items \in Formats /\ format = FormatTo(Len(items))
  /\ str = TextTo(k) /\ counts = CountsTo(k)
  /\ fmt = Len(FormatTo(k)) + 1 /\ args = ArgumentsFrom(k) /\ fmt \in Nat
  /\ k = Len(items) => Char(fmt) = Nul
  /\ k # Len(items) =>
       /\ k < Len(items) /\ items[k + 1] \in FormatItems
       /\ items[k + 1].conversion = "text" =>
            items[k + 1].string = <<Char(fmt)>> /\ Char(fmt) \notin {"%", Nul}
       /\ items[k + 1].conversion # "text" => Char(fmt) = "%"

LEMMA TextAt ==
  ASSUME ItemsRead, at = "text"
  PROVE  \E k \in 0 .. Len(items) : AtText(k)
<1>1. PICK k \in 0 .. Len(items) :
        /\ str = TextTo(k) /\ counts = CountsTo(k) /\ (Between(k) \/ Within(k))
  BY Zenon DEF ItemsRead
<1>2. ~Within(k)
  BY DEF Within, Reading, ReadingFlags, ReadingPrecision, ReadingQualifier, ReadingConversion
<1>3. fmt = Len(FormatTo(k)) + 1 /\ args = ArgumentsFrom(k)
  BY <1>1, <1>2, Zenon DEF Between
<1>4. items \in Formats /\ format = FormatTo(Len(items)) /\ items \in Seq(FormatItems) /\ Len(items) \in Nat
  BY TextsAre, Zenon DEF ItemsRead
<1>5. PICK o \in Nat : o = Len(FormatTo(k))
  BY <1>4, FormatToIs, LenProperties
<1>6. fmt = o + 1 /\ fmt \in Nat
  BY <1>3, <1>5
<1>7. ASSUME k = Len(items) PROVE Char(fmt) = Nul
  <2>1. o = Len(format)
    BY <1>4, <1>5, <1>7
  <2>2. ~(fmt <= Len(format))
    BY <1>6, <2>1
  <2> QED BY <2>2, Zenon DEF Char
<1>8. ASSUME k # Len(items)
      PROVE  /\ k < Len(items) /\ items[k + 1] \in FormatItems
             /\ items[k + 1].conversion = "text" =>
                  items[k + 1].string = <<Char(fmt)>> /\ Char(fmt) \notin {"%", Nul}
             /\ items[k + 1].conversion # "text" => Char(fmt) = "%"
  <2>1. k < Len(items)
    BY <1>4, <1>8
  <2>2. PICK x \in FormatItems : x = items[k + 1]
    BY <1>4, <2>1, PlacedAt, Zenon
  <2>3. Holds(o, FormatOf(x)) /\ (x.conversion # "text" => Placed(x, o))
    BY <1>4, <1>5, <2>1, <2>2, PlacedAt, Zenon
  <2>4. ASSUME x.conversion = "text"
        PROVE  x.string = <<Char(fmt)>> /\ Char(fmt) \notin {"%", Nul}
    <3>1. PICK c \in Characters \ {"%"} : x.string = <<c>>
      BY <2>4, ItemIs
    <3>2. FormatOf(x) = <<c>>
      BY <2>4, <3>1, PartsAre
    <3>3. 1 \in 1 .. Len(<<c>>) /\ <<c>>[1] = c
      OBVIOUS
    <3>4. Char(o + 1) = c
      BY <2>3, <3>2, <3>3, HoldsChar, ZenonT(60)
    <3>5. c # Nul
      BY VsprintfAssumption
    <3> QED BY <1>6, <3>1, <3>4, <3>5
  <2>5. ASSUME x.conversion # "text" PROVE Char(fmt) = "%"
    <3>1. Holds(o, <<"%">>)
      BY <2>3, <2>5, PlacesAre
    <3>2. 1 \in 1 .. Len(<<"%">>) /\ <<"%">>[1] = "%"
      OBVIOUS
    <3> QED BY <1>6, <3>1, <3>2, HoldsChar, SMTT(60)
  <2> QED BY <2>1, <2>2, <2>4, <2>5, Zenon
<1>9. AtText(k)
  BY <1>1, <1>3, <1>4, <1>6, <1>7, <1>8, Zenon DEF AtText
<1> QED BY <1>9

AtConversion(k, x) ==
  /\ k < Len(items) /\ items \in Formats /\ format = FormatTo(Len(items))
  /\ x = items[k + 1] /\ x \in FormatItems /\ x.conversion # "text"
  /\ str = TextTo(k) /\ counts = CountsTo(k) /\ str \in Seq(Shown)
  /\ Char(fmt) = x.conversion
  /\ Len(FormatTo(k + 1)) + 1 = IF x.conversion = Nul THEN fmt ELSE fmt + 1
  /\ flags = Flags(x) /\ field_width = WidthOf(x) /\ precision = PrecisionOf(x) /\ qualifier = x.qualifier
  /\ x.conversion \in Numbers \cup {"p", "n"} => Head(args) = x.number /\ Tail(args) = ArgumentsFrom(k + 1)
  /\ x.conversion \in {"c", "s"} => Head(args) = x.string /\ Tail(args) = ArgumentsFrom(k + 1)
  /\ x.conversion \notin Numbers \cup {"p", "n", "c", "s"} => args = ArgumentsFrom(k + 1)

LEMMA ConversionAt ==
  ASSUME ItemsRead, at = "conversion"
  PROVE  \E k \in 0 .. Len(items) : \E x \in FormatItems : AtConversion(k, x)
<1>1. PICK k \in 0 .. Len(items) :
        /\ str = TextTo(k) /\ counts = CountsTo(k) /\ (Between(k) \/ Within(k))
  BY Zenon DEF ItemsRead
<1>2. ~Between(k)
  BY DEF Between
<1>3. /\ k < Len(items) /\ items[k + 1].conversion # "text"
      /\ Reading(items[k + 1], Len(FormatTo(k)), ValueArgument(items[k + 1]) \o ArgumentsFrom(k + 1))
  BY <1>1, <1>2, Zenon DEF Within
<1>4. items \in Formats /\ format = FormatTo(Len(items)) /\ items \in Seq(FormatItems)
  BY TextsAre, Zenon DEF ItemsRead
<1>5. PICK x \in FormatItems : x = items[k + 1] /\ Placed(x, Len(FormatTo(k)))
  BY <1>3, <1>4, PlacedAt, Zenon
<1>6. k \in 0 .. Len(items) - 1 /\ Len(FormatTo(k + 1)) = Len(FormatTo(k)) + Len(FormatOf(x))
  BY <1>3, <1>4, <1>5, PlacedAt, Zenon
<1>7. PICK o \in Nat : o = Len(FormatTo(k)) /\ Placed(x, o)
  BY <1>5 DEF Placed
<1>8. PICK others \in Seq(Arguments) : others = ArgumentsFrom(k + 1)
  BY <1>4, <1>6, ArgumentsAt, Zenon
<1>9. /\ fmt = AfterQualifier(x, o) + 1 /\ args = ValueArgument(x) \o others
      /\ flags = Flags(x) /\ field_width = WidthOf(x) /\ precision = PrecisionOf(x) /\ qualifier = x.qualifier
  <2>1. ReadingConversion(x, o, ValueArgument(x) \o others)
    BY <1>3, <1>5, <1>7, <1>8, Zenon DEF Reading, ReadingFlags, ReadingPrecision, ReadingQualifier
  <2> QED BY <2>1, Zenon DEF ReadingConversion
<1>10. Char(fmt) = x.conversion
  BY <1>7, <1>9, MeetsConversion
<1>11. Len(FormatTo(k + 1)) + 1 = IF x.conversion = Nul THEN fmt ELSE fmt + 1
  <2>1. PICK q \in Nat : q = AfterQualifier(x, o) /\ q + Len(ConversionPart(x)) = o + Len(FormatOf(x))
    BY <1>7, PlacesAre
  <2>2. x.conversion = Nul => Len(ConversionPart(x)) = 0
    BY DEF ConversionPart
  <2>3. x.conversion # Nul => Len(ConversionPart(x)) = 1
    BY DEF ConversionPart
  <2>4. Len(FormatTo(k + 1)) = q + Len(ConversionPart(x)) /\ fmt = q + 1
    BY <1>6, <1>7, <1>9, <2>1
  <2>5. CASE x.conversion = Nul
    <3>1. Len(FormatTo(k + 1)) = q + 0
      BY <2>2, <2>4, <2>5
    <3>2. Len(FormatTo(k + 1)) + 1 = fmt
      BY <2>4, <3>1
    <3> QED BY <2>5, <3>2, Zenon
  <2>6. CASE x.conversion # Nul
    <3>1. Len(FormatTo(k + 1)) = q + 1
      BY <2>3, <2>4, <2>6
    <3>2. Len(FormatTo(k + 1)) + 1 = fmt + 1
      BY <2>4, <3>1
    <3> QED BY <2>6, <3>2, Zenon
  <2> QED BY <2>5, <2>6
<1>12. /\ x.conversion \in Numbers \cup {"p", "n"} => Head(args) = x.number /\ Tail(args) = others
       /\ x.conversion \in {"c", "s"} => Head(args) = x.string /\ Tail(args) = others
       /\ x.conversion \notin Numbers \cup {"p", "n", "c", "s"} => args = others
  <2>1. x.number \in Arguments /\ x.string \in Arguments
    BY ItemIs, Zenon DEF Arguments
  <2>2. ASSUME x.conversion \in Numbers \cup {"p", "n"} PROVE Head(args) = x.number /\ Tail(args) = others
    <3>1. ValueArgument(x) = <<x.number>>
      <4>1. x.conversion \notin {"c", "s"}
        BY <2>2 DEF Numbers
      <4> QED BY <2>2, <4>1, Zenon DEF ValueArgument
    <3> QED BY <1>9, <2>1, <3>1, FirstArgument
  <2>3. ASSUME x.conversion \in {"c", "s"} PROVE Head(args) = x.string /\ Tail(args) = others
    <3>1. ValueArgument(x) = <<x.string>>
      <4>1. x.conversion \notin Numbers \cup {"p", "n"}
        BY <2>3 DEF Numbers
      <4> QED BY <2>3, <4>1, Zenon DEF ValueArgument
    <3> QED BY <1>9, <2>1, <3>1, FirstArgument
  <2>4. ASSUME x.conversion \notin Numbers \cup {"p", "n", "c", "s"} PROVE args = others
    <3>1. ValueArgument(x) = <<>>
      BY <2>4, Zenon DEF ValueArgument
    <3>2. <<>> \o others = others
      BY ConcatEmptySeq
    <3> QED BY <1>9, <3>1, <3>2, Zenon
  <2> QED BY <2>2, <2>3, <2>4, Zenon
<1>13. str \in Seq(Shown)
  BY <1>1, <1>4, TextToIs
<1>14. AtConversion(k, x)
  BY <1>1, <1>3, <1>4, <1>5, <1>8, <1>9, <1>10, <1>11, <1>12, <1>13, Zenon DEF AtConversion
<1> QED BY <1>14, Zenon

(* A step that writes what the item means and takes its argument. *)
LEMMA ItemConverted ==
  ASSUME NEW k \in 0 .. Len(items), NEW x \in FormatItems, AtConversion(k, x),
         str' = str \o TextOf(x), x.conversion \notin {Nul, "n"},
         x.conversion \in Numbers \cup {"p", "n", "c", "s"} => args' = Tail(args),
         x.conversion \notin Numbers \cup {"p", "n", "c", "s"} => args' = args,
         NextChar, UNCHANGED <<items, format, counts>>
  PROVE  ItemsRead'
<1>1. /\ items \in Formats /\ format = FormatTo(Len(items)) /\ k < Len(items)
      /\ str = TextTo(k) /\ counts = CountsTo(k) /\ x = items[k + 1]
      /\ Len(FormatTo(k + 1)) + 1 = fmt + 1
  BY Zenon DEF AtConversion
<1>2. at' = "text" /\ fmt' = Len(FormatTo(k + 1)) + 1
  BY <1>1 DEF NextChar
<1>3. args' = ArgumentsFrom(k + 1)
  BY Zenon DEF AtConversion
<1>4. items' = items /\ format' = format /\ counts' = counts
  OBVIOUS
<1>5. IF items[k + 1].conversion = "n" THEN counts' = Append(counts, Storing(items[k + 1])) ELSE counts' = counts
  BY <1>1, <1>4
<1> QED BY <1>1, <1>2, <1>3, <1>4, <1>5, ItemDone

(* Each step keeps the invariant. *)
LEMMA CopyCharReads ==
  ASSUME ItemsRead, CopyChar
  PROVE  ItemsRead'
<1>1. /\ at = "text" /\ Char(fmt) \notin {"%", Nul} /\ str' = str \o <<Char(fmt)>>
      /\ fmt' = fmt + 1 /\ at' = "text"
      /\ items' = items /\ format' = format /\ args' = args /\ counts' = counts
  BY DEF CopyChar, Emit, NextChar
<1>2. PICK k \in 0 .. Len(items) : AtText(k)
  BY <1>1, TextAt
<1>3. PICK x \in FormatItems : /\ x = items[k + 1] /\ k < Len(items)
                               /\ x.conversion = "text" /\ x.string = <<Char(fmt)>>
  BY <1>1, <1>2, Zenon DEF AtText
<1>4. TextOf(x) = <<Char(fmt)>> /\ FormatOf(x) = <<Char(fmt)>>
  BY <1>3, TextOfIs, PartsAre
<1>5. /\ items \in Formats /\ format = FormatTo(Len(items)) /\ str = TextTo(k) /\ counts = CountsTo(k)
      /\ fmt = Len(FormatTo(k)) + 1 /\ args = ArgumentsFrom(k)
  BY <1>2, Zenon DEF AtText
<1>6. /\ k \in 0 .. Len(items) - 1 /\ Len(FormatTo(k + 1)) = Len(FormatTo(k)) + Len(FormatOf(x))
      /\ Len(FormatTo(k)) \in Nat
  BY <1>3, <1>5, PlacedAt, Zenon
<1>7. Len(<<Char(fmt)>>) = 1
  OBVIOUS
<1>8. fmt' = Len(FormatTo(k + 1)) + 1
  BY <1>1, <1>4, <1>5, <1>6, <1>7
<1>9. args' = ArgumentsFrom(k + 1)
  BY <1>1, <1>3, <1>5, <1>6, TextsAre, ArgumentsAt, Zenon
<1>10. IF items[k + 1].conversion = "n" THEN counts' = Append(counts, Storing(items[k + 1])) ELSE counts' = counts
  BY <1>1, <1>3
<1>11. str' = str \o TextOf(items[k + 1])
  BY <1>1, <1>3, <1>4, Zenon
<1> QED BY <1>1, <1>3, <1>5, <1>8, <1>9, <1>10, <1>11, ItemDone

LEMMA ReturnReads ==
  ASSUME ItemsRead, Return
  PROVE  ItemsRead'
<1>1. /\ at = "text" /\ Char(fmt) = Nul /\ at' = "done"
      /\ items' = items /\ format' = format /\ fmt' = fmt /\ args' = args /\ str' = str /\ counts' = counts
  BY DEF Return
<1>2. PICK k \in 0 .. Len(items) : AtText(k)
  BY <1>1, TextAt
<1>3. Nul # "%"
  BY DEF Nul
<1>4. k = Len(items)
  BY <1>1, <1>2, <1>3, Zenon DEF AtText
<1>5. /\ items \in Formats /\ format = FormatTo(Len(items)) /\ str = TextTo(k) /\ counts = CountsTo(k)
      /\ fmt = Len(FormatTo(k)) + 1 /\ args = ArgumentsFrom(k)
  BY <1>2, Zenon DEF AtText
<1>6. /\ FormatTo(k)' = FormatTo(k) /\ TextTo(k)' = TextTo(k) /\ CountsTo(k)' = CountsTo(k)
      /\ ArgumentsFrom(k)' = ArgumentsFrom(k) /\ FormatTo(Len(items))' = FormatTo(Len(items))
  BY <1>1, SameItems, Zenon
<1>7. Between(k)'
  <2>1. at' \in {"text", "done"}
    BY <1>1
  <2> QED BY <1>1, <1>4, <1>5, <1>6, <2>1, Zenon DEF Between
<1>8. (items \in Formats)' /\ (format = FormatTo(Len(items)))' /\ (str = TextTo(k))' /\ (counts = CountsTo(k))'
  BY <1>1, <1>5, <1>6, Zenon
<1>9. (k \in 0 .. Len(items))'
  BY <1>1, Zenon
<1> QED BY <1>7, <1>8, <1>9, Zenon DEF ItemsRead

LEMMA BeginConversionReads ==
  ASSUME ItemsRead, BeginConversion
  PROVE  ItemsRead'
<1>1. /\ at = "text" /\ Char(fmt) = "%" /\ flags' = {} /\ fmt' = fmt + 1 /\ at' = "flags"
      /\ items' = items /\ format' = format /\ args' = args /\ str' = str /\ counts' = counts
  BY DEF BeginConversion
<1>2. PICK k \in 0 .. Len(items) : AtText(k)
  BY <1>1, TextAt
<1>3. Nul # "%"
  BY DEF Nul
<1>4. PICK x \in FormatItems : x = items[k + 1] /\ k < Len(items) /\ x.conversion # "text"
  <2>1. k # Len(items)
    BY <1>1, <1>2, <1>3, Zenon DEF AtText
  <2>2. items[k + 1].conversion # "text"
    <3>1. items[k + 1].conversion = "text" => Char(fmt) \notin {"%", Nul}
      BY <1>2, <2>1, Zenon DEF AtText
    <3> QED BY <1>1, <3>1
  <2> QED BY <1>2, <2>1, <2>2, Zenon DEF AtText
<1>5. /\ items \in Formats /\ format = FormatTo(Len(items)) /\ str = TextTo(k) /\ counts = CountsTo(k)
      /\ fmt = Len(FormatTo(k)) + 1 /\ args = ArgumentsFrom(k)
  BY <1>2, Zenon DEF AtText
<1>6. PICK o \in Nat : o = Len(FormatTo(k)) /\ k \in 0 .. Len(items) - 1
  BY <1>4, <1>5, PlacedAt, Zenon
<1>7. PICK value : value = ValueArgument(x) \o ArgumentsFrom(k + 1)
  OBVIOUS
<1>8. args = WidthArgument(x) \o (PrecisionArgument(x) \o value)
  BY <1>4, <1>5, <1>6, <1>7, TextsAre, ArgumentsAt, Zenon
<1>9. fmt' = o + 2 + 0
  BY <1>1, <1>5, <1>6
<1>10. flags' = {FlagOf[x.flags[j]] : j \in 1 .. 0}
  BY <1>1
<1>11. 0 \in 0 .. Len(x.flags)
  BY <1>4, ItemIs, LenProperties
<1>12. ReadingFlags(x, o, value)'
  BY <1>1, <1>8, <1>9, <1>10, <1>11, Zenon DEF ReadingFlags
<1>13. Reading(x, o, value)'
  BY <1>12, Zenon DEF Reading
<1> QED BY <1>1, <1>4, <1>5, <1>6, <1>7, <1>13, ItemGoesOn, Zenon

(* Within an item *)
AtPart(k, x, o, value) ==
  /\ k < Len(items) /\ items \in Formats /\ format = FormatTo(Len(items))
  /\ x = items[k + 1] /\ x \in FormatItems /\ x.conversion # "text"
  /\ o = Len(FormatTo(k)) /\ Placed(x, o)
  /\ value = ValueArgument(x) \o ArgumentsFrom(k + 1)
  /\ value \in Seq(Arguments) /\ PrecisionArgument(x) \o value \in Seq(Arguments)
  /\ str = TextTo(k) /\ counts = CountsTo(k)
  /\ Reading(x, o, value)

LEMMA PartAt ==
  ASSUME ItemsRead, at \notin {"text", "done"}
  PROVE  \E k \in 0 .. Len(items) : \E x \in FormatItems : \E o \in Nat : \E value : AtPart(k, x, o, value)
<1>1. PICK k \in 0 .. Len(items) :
        /\ str = TextTo(k) /\ counts = CountsTo(k) /\ (Between(k) \/ Within(k))
  BY Zenon DEF ItemsRead
<1>2. ~Between(k)
  BY Zenon DEF Between
<1>3. /\ k < Len(items) /\ items[k + 1].conversion # "text"
      /\ Reading(items[k + 1], Len(FormatTo(k)), ValueArgument(items[k + 1]) \o ArgumentsFrom(k + 1))
  BY <1>1, <1>2, Zenon DEF Within
<1>4. items \in Formats /\ format = FormatTo(Len(items)) /\ items \in Seq(FormatItems)
  BY TextsAre, Zenon DEF ItemsRead
<1>5. PICK x \in FormatItems : /\ x = items[k + 1] /\ Placed(x, Len(FormatTo(k)))
                               /\ k \in 0 .. Len(items) - 1 /\ Len(FormatTo(k)) \in Nat
  BY <1>3, <1>4, PlacedAt, Zenon
<1>6. PICK o \in Nat : o = Len(FormatTo(k))
  BY <1>5
<1>7. PICK value : value = ValueArgument(x) \o ArgumentsFrom(k + 1)
  OBVIOUS
<1>8. value \in Seq(Arguments) /\ PrecisionArgument(x) \o value \in Seq(Arguments)
  BY <1>3, <1>4, <1>5, <1>7, ArgumentsAt, Zenon
<1>9. AtPart(k, x, o, value)
  BY <1>1, <1>3, <1>4, <1>5, <1>6, <1>7, <1>8, Zenon DEF AtPart
<1> QED BY <1>9, Zenon

LEMMA PartGoesOn ==
  ASSUME NEW k \in 0 .. Len(items), NEW x, NEW o, NEW value, AtPart(k, x, o, value),
         UNCHANGED <<items, format, str, counts>>, Reading(x, o, value)'
  PROVE  ItemsRead'
<1>1. /\ items \in Formats /\ format = FormatTo(Len(items)) /\ k < Len(items) /\ x = items[k + 1]
      /\ items[k + 1].conversion # "text" /\ o = Len(FormatTo(k))
      /\ value = ValueArgument(x) \o ArgumentsFrom(k + 1) /\ str = TextTo(k) /\ counts = CountsTo(k)
  BY Zenon DEF AtPart
<1>2. items' = items /\ format' = format /\ str' = str /\ counts' = counts
  OBVIOUS
<1> QED BY <1>1, <1>2, ItemGoesOn, Zenon

LEMMA ReadFlagReads ==
  ASSUME ItemsRead, ReadFlag
  PROVE  ItemsRead'
<1>1. /\ at = "flags" /\ Char(fmt) \in FlagChars /\ flags' = flags \cup {FlagOf[Char(fmt)]}
      /\ fmt' = fmt + 1 /\ at' = at /\ args' = args
      /\ UNCHANGED <<items, format, str, counts>>
  BY DEF ReadFlag
<1>2. PICK k \in 0 .. Len(items), x \in FormatItems, o \in Nat : \E value : AtPart(k, x, o, value)
  BY <1>1, PartAt
<1>3. PICK value : AtPart(k, x, o, value)
  BY <1>2
<1>4. Placed(x, o) /\ Reading(x, o, value)
  BY <1>3, Zenon DEF AtPart
<1>5. ReadingFlags(x, o, value)
  BY <1>1, <1>4 DEF Reading, ReadingPrecision, ReadingQualifier, ReadingConversion
<1>6. PICK f \in 0 .. Len(x.flags) : fmt = o + 2 + f /\ flags = {FlagOf[x.flags[j]] : j \in 1 .. f}
  BY <1>5, Zenon DEF ReadingFlags
<1>7. PICK n \in Nat : n = Len(x.flags) /\ Holds(o + 1, x.flags)
  BY <1>4, PlacesAre
<1>8. f # n
  <2>1. SUFFICES ASSUME f = n PROVE FALSE
    OBVIOUS
  <2>2. AfterFlags(x, o) + 1 = fmt
    <3>1. AfterFlags(x, o) = o + 1 + n /\ fmt = o + 2 + n
      BY <1>6, <1>7, <2>1, Zenon DEF AfterFlags
    <3>2. \A a, b \in Nat : (a + 1 + b) + 1 = a + 2 + b /\ a + 1 + b \in Nat
      OBVIOUS
    <3> QED BY <3>1, <3>2, Zenon
  <2> QED BY <1>1, <1>4, <2>2, MeetsWidth
<1>9. f + 1 \in 1 .. n /\ f + 1 \in 0 .. n /\ (o + 1) + (f + 1) = o + 2 + f /\ o + 1 \in Nat
  BY <1>6, <1>7, <1>8, SMTT(60)
<1>10. Char(fmt) = x.flags[f + 1]
  BY <1>6, <1>7, <1>9, HoldsChar, SMTT(60)
<1>11. flags' = {FlagOf[x.flags[j]] : j \in 1 .. f + 1}
  <2>1. \A j : j \in 1 .. f + 1 <=> j \in 1 .. f \/ j = f + 1
    BY <1>6, <1>7
  <2> QED BY <1>1, <1>6, <1>10, <2>1, Zenon
<1>12. fmt' = o + 2 + (f + 1)
  BY <1>1, <1>6, <1>7
<1>13. ReadingFlags(x, o, value)'
  BY <1>1, <1>5, <1>7, <1>9, <1>11, <1>12, Zenon DEF ReadingFlags
<1>14. Reading(x, o, value)'
  BY <1>13, Zenon DEF Reading
<1> QED BY <1>1, <1>3, <1>14, PartGoesOn, Zenon

LEMMA ReadWidthReads ==
  ASSUME ItemsRead, ReadWidth
  PROVE  ItemsRead'
<1>1. /\ at = "flags" /\ Char(fmt) \notin FlagChars /\ at' = "precision"
      /\ UNCHANGED <<items, format, str, counts>>
  BY DEF ReadWidth
<1>2. PICK k \in 0 .. Len(items), x \in FormatItems, o \in Nat : \E value : AtPart(k, x, o, value)
  BY <1>1, PartAt
<1>3. PICK value : AtPart(k, x, o, value)
  BY <1>2
<1>4. /\ Placed(x, o) /\ Reading(x, o, value)
      /\ value \in Seq(Arguments) /\ PrecisionArgument(x) \o value \in Seq(Arguments)
  BY <1>3, Zenon DEF AtPart
<1>5. ReadingFlags(x, o, value)
  BY <1>1, <1>4 DEF Reading, ReadingPrecision, ReadingQualifier, ReadingConversion
<1>6. PICK f \in 0 .. Len(x.flags) : fmt = o + 2 + f /\ flags = {FlagOf[x.flags[j]] : j \in 1 .. f}
  BY <1>5, Zenon DEF ReadingFlags
<1>7. PICK n \in Nat : n = Len(x.flags) /\ Holds(o + 1, x.flags)
  BY <1>4, PlacesAre
<1>8. f = n
  <2>1. SUFFICES ASSUME f # n PROVE FALSE
    OBVIOUS
  <2>2. f + 1 \in 1 .. n /\ (o + 1) + (f + 1) = o + 2 + f /\ o + 1 \in Nat
    BY <1>6, <1>7, <2>1, SMTT(60)
  <2>3. Char(fmt) = x.flags[f + 1]
    BY <1>6, <1>7, <2>2, HoldsChar, SMTT(60)
  <2>4. x.flags[f + 1] \in FlagChars
    BY <1>7, <2>2, ItemIs, SMTT(60)
  <2> QED BY <1>1, <2>3, <2>4
<1>9. PICK w \in Nat : w = AfterFlags(x, o) /\ fmt = w + 1
  <2>1. AfterFlags(x, o) = o + 1 + n /\ fmt = o + 2 + n
    BY <1>6, <1>7, <1>8, Zenon DEF AfterFlags
  <2>2. \A a, b \in Nat : (a + 1 + b) + 1 = a + 2 + b /\ a + 1 + b \in Nat
    OBVIOUS
  <2> QED BY <2>1, <2>2, Zenon
<1> DEFINE bits == {FlagOf[x.flags[j]] : j \in 1 .. Len(x.flags)}
<1>10. flags = bits
  BY <1>6, <1>7, <1>8, Zenon
<1>11. /\ x.width.how \in {"missing", "digits", "star"} /\ x.width.n \in Int
       /\ x.width.how = "missing" => x.width.n = -1
       /\ x.width.how = "digits" => x.width.n >= 0
  BY ItemIs
<1>12. args = WidthArgument(x) \o (PrecisionArgument(x) \o value)
  BY <1>5, Zenon DEF ReadingFlags
<1>13. Flags(x) = bits \cup (IF x.width.how = "star" /\ x.width.n < 0 THEN {"LEFT"} ELSE {})
  BY Zenon DEF Flags
<1> HIDE DEF bits
<1>14. x.width.how # "star" => Flags(x) = flags /\ args = PrecisionArgument(x) \o value
  <2>1. SUFFICES ASSUME x.width.how # "star" PROVE Flags(x) = flags /\ args = PrecisionArgument(x) \o value
    OBVIOUS
  <2>2. Flags(x) = bits
    BY <1>13, <2>1
  <2>3. WidthArgument(x) = <<>>
    BY <2>1, Zenon DEF WidthArgument
  <2>4. <<>> \o (PrecisionArgument(x) \o value) = PrecisionArgument(x) \o value
    BY <1>4, ConcatEmptySeq
  <2> QED BY <1>10, <1>12, <2>2, <2>3, <2>4, Zenon
<1>15. /\ fmt' = AfterWidth(x, o) + 1 /\ flags' = Flags(x) /\ field_width' = WidthOf(x)
       /\ args' = PrecisionArgument(x) \o value
  <2>1. CASE x.width.how = "missing"
    <3>1. Char(fmt) \notin DecimalDigits \cup {"*"} /\ AfterWidth(x, o) = w
      BY <1>4, <1>9, <2>1, MeetsWidth
    <3>2. field_width' = -1 /\ flags' = flags /\ fmt' = fmt /\ args' = args
      BY <3>1 DEF ReadWidth
    <3>3. WidthOf(x) = -1 /\ x.width.how # "star"
      BY <2>1 DEF WidthOf
    <3> QED BY <1>9, <1>14, <3>1, <3>2, <3>3
  <2>2. CASE x.width.how = "digits"
    <3>1. /\ Char(fmt) \in DecimalDigits /\ DigitsEnd(fmt) = AfterWidth(x, o) + 1 /\ skip_atoi(fmt) = x.width.n
      BY <1>4, <1>9, <2>2, MeetsWidth
    <3>2. Char(fmt) # "*"
      BY <3>1, DigitsApart
    <3>3. field_width' = skip_atoi(fmt) /\ fmt' = DigitsEnd(fmt) /\ flags' = flags /\ args' = args
      BY <3>1, <3>2, Zenon DEF ReadWidth
    <3>4. WidthOf(x) = x.width.n /\ x.width.how # "star"
      BY <1>11, <2>2 DEF WidthOf
    <3> QED BY <1>14, <3>1, <3>3, <3>4
  <2>3. CASE x.width.how = "star"
    <3>1. Char(fmt) = "*" /\ AfterWidth(x, o) = w + 1
      BY <1>4, <1>9, <2>3, MeetsWidth
    <3>2. Char(fmt) \notin DecimalDigits
      BY <3>1, DigitsApart
    <3>3. /\ field_width' = (IF Head(args) < 0 THEN -Head(args) ELSE Head(args))
          /\ flags' = (IF Head(args) < 0 THEN flags \cup {"LEFT"} ELSE flags)
          /\ fmt' = fmt + 1 /\ args' = Tail(args)
      BY <3>1, <3>2, Zenon DEF ReadWidth
    <3>4. args = <<x.width.n>> \o (PrecisionArgument(x) \o value)
      BY <1>12, <2>3, Zenon DEF WidthArgument
    <3>5. x.width.n \in Arguments
      BY <1>11, Zenon DEF Arguments
    <3>6. Head(args) = x.width.n /\ Tail(args) = PrecisionArgument(x) \o value
      BY <1>4, <3>4, <3>5, FirstArgument
    <3>7. WidthOf(x) = field_width'
      BY <2>3, <3>3, <3>6, Zenon DEF WidthOf
    <3>8. Flags(x) = flags'
      BY <1>10, <1>13, <2>3, <3>3, <3>6
    <3> QED BY <1>9, <3>1, <3>3, <3>6, <3>7, <3>8
  <2> QED BY <1>11, <2>1, <2>2, <2>3
<1>16. ReadingPrecision(x, o, value)'
  BY <1>1, <1>15, Zenon DEF ReadingPrecision
<1>17. Reading(x, o, value)'
  BY <1>16, Zenon DEF Reading
<1> QED BY <1>1, <1>3, <1>17, PartGoesOn, Zenon

LEMMA ReadPrecisionReads ==
  ASSUME ItemsRead, ReadPrecision
  PROVE  ItemsRead'
<1>1. /\ at = "precision" /\ at' = "qualifier"
      /\ UNCHANGED <<items, format, str, counts>> /\ flags' = flags /\ field_width' = field_width
  BY DEF ReadPrecision
<1>2. PICK k \in 0 .. Len(items), x \in FormatItems, o \in Nat : \E value : AtPart(k, x, o, value)
  BY <1>1, PartAt
<1>3. PICK value : AtPart(k, x, o, value)
  BY <1>2
<1>4. Placed(x, o) /\ Reading(x, o, value) /\ value \in Seq(Arguments)
  BY <1>3, Zenon DEF AtPart
<1>5. ReadingPrecision(x, o, value)
  BY <1>1, <1>4 DEF Reading, ReadingFlags, ReadingQualifier, ReadingConversion
<1>6. PICK pp \in Nat : pp = AfterWidth(x, o) /\ fmt = pp + 1 /\ fmt + 1 = pp + 2
  <2>1. AfterWidth(x, o) \in Nat /\ fmt = AfterWidth(x, o) + 1
    BY <1>4, <1>5, PlacesAre, Zenon DEF ReadingPrecision
  <2> QED BY <2>1
<1>7. flags = Flags(x) /\ field_width = WidthOf(x) /\ args = PrecisionArgument(x) \o value
  BY <1>5, Zenon DEF ReadingPrecision
<1>8. /\ x.precision.how \in {"missing", "digits", "star", "point"} /\ x.precision.n \in Int
      /\ x.precision.how = "point" => x.precision.n = 0
  BY ItemIs
<1>9. x.precision.how # "star" => args = value
  <2>1. x.precision.how # "star" => PrecisionArgument(x) = <<>>
    BY Zenon DEF PrecisionArgument
  <2>2. <<>> \o value = value
    BY <1>4, ConcatEmptySeq
  <2> QED BY <1>7, <2>1, <2>2, Zenon
<1>10. fmt' = AfterPrecision(x, o) + 1 /\ precision' = PrecisionOf(x) /\ args' = value
  <2>1. CASE x.precision.how = "missing"
    <3>1. Char(fmt) # "." /\ AfterPrecision(x, o) = pp
      BY <1>4, <1>6, <2>1, MeetsPrecision
    <3>2. precision' = -1 /\ fmt' = fmt /\ args' = args
      BY <3>1, Zenon DEF ReadPrecision
    <3>3. PrecisionOf(x) = -1 /\ x.precision.how # "star"
      BY <2>1 DEF PrecisionOf
    <3> QED BY <1>6, <1>9, <3>1, <3>2, <3>3
  <2>2. CASE x.precision.how = "digits"
    <3>1. /\ Char(fmt) = "." /\ Char(fmt + 1) \in DecimalDigits
          /\ DigitsEnd(fmt + 1) = AfterPrecision(x, o) + 1 /\ skip_atoi(fmt + 1) = x.precision.n
      BY <1>4, <1>6, <2>2, MeetsPrecision
    <3>2. Char(fmt + 1) # "*"
      BY <3>1, DigitsApart
    <3>3. precision' = LeastPrecision(skip_atoi(fmt + 1)) /\ fmt' = DigitsEnd(fmt + 1) /\ args' = args
      BY <3>1, <3>2, Zenon DEF ReadPrecision
    <3>4. PrecisionOf(x) = Largest(x.precision.n, 0) /\ x.precision.how # "star"
      BY <2>2 DEF PrecisionOf
    <3> QED BY <1>9, <3>1, <3>3, <3>4, Zenon DEF LeastPrecision
  <2>3. CASE x.precision.how = "star"
    <3>1. Char(fmt) = "." /\ Char(fmt + 1) = "*" /\ AfterPrecision(x, o) = pp + 2
      BY <1>4, <1>6, <2>3, MeetsPrecision
    <3>2. Char(fmt + 1) \notin DecimalDigits
      BY <3>1, DigitsApart
    <3>3. precision' = LeastPrecision(Head(args)) /\ fmt' = fmt + 2 /\ args' = Tail(args)
      BY <3>1, <3>2, Zenon DEF ReadPrecision
    <3>4. args = <<x.precision.n>> \o value
      BY <1>7, <2>3, Zenon DEF PrecisionArgument
    <3>5. x.precision.n \in Arguments
      BY <1>8, Zenon DEF Arguments
    <3>6. Head(args) = x.precision.n /\ Tail(args) = value
      BY <1>4, <3>4, <3>5, FirstArgument
    <3>7. PrecisionOf(x) = Largest(x.precision.n, 0)
      BY <2>3 DEF PrecisionOf
    <3>8. fmt + 2 = AfterPrecision(x, o) + 1
      BY <1>6, <3>1
    <3> QED BY <3>3, <3>6, <3>7, <3>8, Zenon DEF LeastPrecision
  <2>4. CASE x.precision.how = "point"
    <3>1. Char(fmt) = "." /\ Char(fmt + 1) \notin DecimalDigits \cup {"*"} /\ AfterPrecision(x, o) = pp + 1
      BY <1>4, <1>6, <2>4, MeetsPrecision
    <3>2. precision' = LeastPrecision(-1) /\ fmt' = fmt + 1 /\ args' = args
      BY <3>1, Zenon DEF ReadPrecision
    <3>3. PrecisionOf(x) = Largest(0, 0) /\ x.precision.how # "star"
      BY <1>8, <2>4 DEF PrecisionOf
    <3>4. LeastPrecision(-1) = Largest(0, 0)
      BY DEF LeastPrecision, Largest
    <3> QED BY <1>6, <1>9, <3>1, <3>2, <3>3, <3>4
  <2> QED BY <1>8, <2>1, <2>2, <2>3, <2>4
<1>11. ReadingQualifier(x, o, value)'
  BY <1>1, <1>7, <1>10, Zenon DEF ReadingQualifier
<1>12. Reading(x, o, value)'
  BY <1>11, Zenon DEF Reading
<1> QED BY <1>1, <1>3, <1>12, PartGoesOn, Zenon

LEMMA ReadQualifierReads ==
  ASSUME ItemsRead, ReadQualifier
  PROVE  ItemsRead'
<1>1. /\ at = "qualifier" /\ at' = "conversion"
      /\ UNCHANGED <<items, format, str, counts>>
      /\ flags' = flags /\ field_width' = field_width /\ precision' = precision /\ args' = args
  BY DEF ReadQualifier
<1>2. PICK k \in 0 .. Len(items), x \in FormatItems, o \in Nat : \E value : AtPart(k, x, o, value)
  BY <1>1, PartAt
<1>3. PICK value : AtPart(k, x, o, value)
  BY <1>2
<1>4. Placed(x, o) /\ Reading(x, o, value)
  BY <1>3, Zenon DEF AtPart
<1>5. ReadingQualifier(x, o, value)
  BY <1>1, <1>4 DEF Reading, ReadingFlags, ReadingPrecision, ReadingConversion
<1>6. PICK q \in Nat : q = AfterPrecision(x, o) /\ fmt = q + 1
  BY <1>4, <1>5, PlacesAre, Zenon DEF ReadingQualifier
<1>7. fmt' = AfterQualifier(x, o) + 1 /\ qualifier' = x.qualifier
  <2>1. CASE x.qualifier = "none"
    <3>1. Char(fmt) \notin QualifierChars /\ AfterQualifier(x, o) = q
      BY <1>4, <1>6, <2>1, MeetsQualifier
    <3>2. qualifier' = "none" /\ fmt' = fmt
      BY <3>1, Zenon DEF ReadQualifier
    <3> QED BY <1>6, <2>1, <3>1, <3>2
  <2>2. CASE x.qualifier # "none"
    <3>1. Char(fmt) \in QualifierChars /\ Char(fmt) = x.qualifier /\ AfterQualifier(x, o) = q + 1
      BY <1>4, <1>6, <2>2, MeetsQualifier
    <3>2. qualifier' = Char(fmt) /\ fmt' = fmt + 1
      BY <3>1, Zenon DEF ReadQualifier
    <3> QED BY <1>6, <3>1, <3>2
  <2> QED BY <2>1, <2>2
<1>8. ReadingConversion(x, o, value)'
  BY <1>1, <1>5, <1>7, Zenon DEF ReadingQualifier, ReadingConversion
<1>9. Reading(x, o, value)'
  BY <1>8, Zenon DEF Reading
<1> QED BY <1>1, <1>3, <1>9, PartGoesOn, Zenon

LEMMA PrintCharReads ==
  ASSUME ItemsRead, PrintChar
  PROVE  ItemsRead'
<1>1. /\ at = "conversion" /\ Char(fmt) = "c"
      /\ str' = str \o (IF "LEFT" \in flags THEN Head(args) \o Times(field_width - 1, " ")
                        ELSE Times(field_width - 1, " ") \o Head(args))
      /\ args' = Tail(args) /\ NextChar /\ UNCHANGED <<items, format, counts>>
  BY Zenon DEF PrintChar, Converts, Emit
<1>2. PICK k \in 0 .. Len(items), x \in FormatItems : AtConversion(k, x)
  BY <1>1, ConversionAt
<1>3. x.conversion = "c"
  BY <1>1, <1>2, Zenon DEF AtConversion
<1>4. Head(args) = x.string /\ flags = Flags(x) /\ field_width = WidthOf(x)
  <2>1. "c" \in {"c", "s"}
    OBVIOUS
  <2> QED BY <1>2, <1>3, <2>1, Zenon DEF AtConversion
<1>5. Len(x.string) = 1 /\ TextOf(x) = Side("LEFT" \in Flags(x), WidthOf(x), x.string)
  BY <1>3, ItemIs, TextOfIs, Zenon
<1>6. str' = str \o TextOf(x)
  BY <1>1, <1>4, <1>5, Zenon DEF Side
<1>7. "c" \notin {Nul, "n"} /\ "c" \in Numbers \cup {"p", "n", "c", "s"}
  BY DEF Nul
<1> QED BY <1>1, <1>2, <1>3, <1>6, <1>7, ItemConverted, Zenon

LEMMA PrintStringReads ==
  ASSUME ItemsRead, PrintString
  PROVE  ItemsRead'
<1> DEFINE ss == IF Head(args) = <<Nul>> THEN NullText ELSE Head(args)
           len == strnlen(ss, precision)
           blanks == Times(field_width - len, " ")
           shown == SubSeq(ss, 1, len)
<1>1. /\ at = "conversion" /\ Char(fmt) = "s"
      /\ str' = str \o (IF "LEFT" \in flags THEN shown \o blanks ELSE blanks \o shown)
      /\ args' = Tail(args) /\ NextChar /\ UNCHANGED <<items, format, counts>>
  BY Zenon DEF PrintString, Converts, Emit, NullText
<1>2. PICK k \in 0 .. Len(items), x \in FormatItems : AtConversion(k, x)
  BY <1>1, ConversionAt
<1>3. x.conversion = "s"
  BY <1>1, <1>2, Zenon DEF AtConversion
<1>4. Head(args) = x.string /\ flags = Flags(x) /\ field_width = WidthOf(x) /\ precision = PrecisionOf(x)
  <2>1. "s" \in {"c", "s"}
    OBVIOUS
  <2> QED BY <1>2, <1>3, <2>1, Zenon DEF AtConversion
<1>5. shown = StringShown(x) /\ len = Len(StringShown(x))
  <2>1. ss = IF x.string = <<Nul>> THEN NullText ELSE x.string
    BY <1>4, Zenon
  <2>2. len = strnlen(ss, PrecisionOf(x))
    BY <1>4, Zenon
  <2>3. StringShown(x) = SubSeq(ss, 1, strnlen(ss, PrecisionOf(x)))
    BY <2>1, Zenon DEF StringShown
  <2>4. Len(StringShown(x)) = strnlen(ss, PrecisionOf(x))
    BY <1>3, <2>1, StringIs, Zenon
  <2> QED BY <2>2, <2>3, <2>4, Zenon
<1>6. TextOf(x) = Side("LEFT" \in Flags(x), WidthOf(x), StringShown(x))
  BY <1>3, TextOfIs, Zenon
<1>7. str' = str \o TextOf(x)
  BY <1>1, <1>4, <1>5, <1>6, Zenon DEF Side
<1>8. "s" \notin {Nul, "n"} /\ "s" \in Numbers \cup {"p", "n", "c", "s"}
  BY DEF Nul
<1> QED BY <1>1, <1>2, <1>3, <1>7, <1>8, ItemConverted, Zenon

LEMMA WidthMissing ==
  ASSUME NEW x \in FormatItems
  PROVE  WidthOf(x) = -1 <=> x.width.how = "missing"
<1>1. x.width.n \in Int
  BY ItemIs
<1>2. PICK w \in Int : w = x.width.n
  BY <1>1
<1>3. (IF w < 0 THEN -w ELSE w) # -1
  OBVIOUS
<1> QED BY <1>2, <1>3 DEF WidthOf

LEMMA PrintPointerReads ==
  ASSUME ItemsRead, PrintPointer
  PROVE  ItemsRead'
<1>1. /\ at = "conversion" /\ Char(fmt) = "p"
      /\ str' = str \o number(Head(args) % IntMax, 16,
                              IF field_width = -1 THEN PointerDigits ELSE field_width, precision,
                              IF field_width = -1 THEN flags \cup {"ZEROPAD"} ELSE flags)
      /\ args' = Tail(args) /\ NextChar /\ UNCHANGED <<items, format, counts>>
  BY Zenon DEF PrintPointer, Converts, Emit
<1>2. PICK k \in 0 .. Len(items), x \in FormatItems : AtConversion(k, x)
  BY <1>1, ConversionAt
<1>3. x.conversion = "p"
  BY <1>1, <1>2, Zenon DEF AtConversion
<1>4. "p" \in Numbers \cup {"p"} /\ "p" \in Numbers \cup {"p", "n"} /\ "p" \notin {Nul, "n"} /\ "p" \in Numbers \cup {"p", "n", "c", "s"}
      /\ "p" # "o" /\ "p" \in {"x", "X", "p"} /\ "p" # "X" /\ "p" \notin {"d", "i"}
  BY DEF Nul
<1>5. Head(args) = x.number /\ flags = Flags(x) /\ field_width = WidthOf(x) /\ precision = PrecisionOf(x)
  BY <1>2, <1>3, <1>4, Zenon DEF AtConversion
<1>6. field_width = -1 <=> Plain(x)
  BY <1>3, <1>5, WidthMissing, Zenon DEF Plain
<1>7. BaseOf(x) = 16
  BY <1>3, <1>4, Zenon DEF BaseOf
<1>8. NumberOf(x) = x.number % IntMax
  BY <1>3, Zenon DEF NumberOf
<1>9. KindOf(x) = Flags(x)
  <2>1. KindOf(x) = (Flags(x) \cup {}) \cup {}
    BY <1>3, <1>4, Zenon DEF KindOf
  <2> QED BY <2>1
<1>10. /\ NumberWidth(x) = IF field_width = -1 THEN PointerDigits ELSE field_width
       /\ NumberKind(x) = IF field_width = -1 THEN flags \cup {"ZEROPAD"} ELSE flags
  BY <1>5, <1>6, <1>9, Zenon DEF NumberWidth, NumberKind
<1>11. str' = str \o number(NumberOf(x), BaseOf(x), NumberWidth(x), PrecisionOf(x), NumberKind(x))
  BY <1>1, <1>5, <1>7, <1>8, <1>10, Zenon
<1>12. number(NumberOf(x), BaseOf(x), NumberWidth(x), PrecisionOf(x), NumberKind(x)) = TextOf(x)
  BY <1>3, <1>4, NumberRight, TextOfIs, Zenon
<1>13. str' = str \o TextOf(x)
  BY <1>11, <1>12, Zenon
<1> QED BY <1>1, <1>2, <1>3, <1>4, <1>13, ItemConverted, Zenon

LEMMA PrintNumberReads ==
  ASSUME ItemsRead, PrintNumber
  PROVE  ItemsRead'
<1> DEFINE c == Char(fmt)
           type == flags \cup (IF c = "X" THEN {"LARGE"} ELSE {})
                         \cup (IF c \in {"d", "i"} THEN {"SIGN"} ELSE {})
           base == CASE c = "o" -> 8 [] c \in {"x", "X"} -> 16 [] OTHER -> 10
<1>1. /\ at = "conversion" /\ c \in Numbers
      /\ str' = str \o number(Num("SIGN" \in type), base, field_width, precision, type)
      /\ args' = Tail(args) /\ NextChar /\ UNCHANGED <<items, format, counts>>
  BY Zenon DEF PrintNumber, Emit
<1>2. PICK k \in 0 .. Len(items), x \in FormatItems : AtConversion(k, x)
  BY <1>1, ConversionAt
<1>3. x.conversion = c
  BY <1>2, Zenon DEF AtConversion
<1>4. c \in Numbers \cup {"p"} /\ c \in Numbers \cup {"p", "n"} /\ c \notin {Nul, "n"} /\ c \in Numbers \cup {"p", "n", "c", "s"} /\ c # "p"
  <2> HIDE DEF c
  <2> QED BY <1>1 DEF Nul, Numbers
<1>5. /\ Head(args) = x.number /\ flags = Flags(x) /\ field_width = WidthOf(x) /\ precision = PrecisionOf(x)
      /\ qualifier = x.qualifier
  BY <1>2, <1>3, <1>4, Zenon DEF AtConversion
<1>6. type = KindOf(x)
  BY <1>3, <1>5, Zenon DEF KindOf
<1>7. base = BaseOf(x)
  <2>1. CASE c = "o"
    <3>1. BaseOf(x) = 8
      BY <1>3, <2>1 DEF BaseOf
    <3>2. base = 8
      <4> HIDE DEF c
      <4> QED BY <2>1
    <3> QED BY <3>1, <3>2
  <2>2. CASE c \in {"x", "X"}
    <3>1. BaseOf(x) = 16
      BY <1>3, <2>2 DEF BaseOf
    <3>2. base = 16
      <4> HIDE DEF c
      <4> QED BY <2>2
    <3> QED BY <3>1, <3>2
  <2>3. CASE c \notin {"o", "x", "X"}
    <3>1. BaseOf(x) = 10
      <4>1. x.conversion # "o" /\ x.conversion \notin {"x", "X", "p"}
        BY <1>3, <1>4, <2>3
      <4> QED BY <4>1 DEF BaseOf
    <3>2. base = 10
      <4> HIDE DEF c
      <4> QED BY <2>3
    <3> QED BY <3>1, <3>2
  <2> QED BY <2>1, <2>2, <2>3
<1> HIDE DEF base, type
<1>8. Num("SIGN" \in type) = NumberOf(x)
  BY <1>3, <1>4, <1>5, <1>6, Zenon DEF Num, NumberOf
<1>9. NumberWidth(x) = field_width /\ NumberKind(x) = type
  <2>1. ~Plain(x)
    BY <1>3, <1>4, Zenon DEF Plain
  <2> QED BY <1>5, <1>6, <2>1, Zenon DEF NumberWidth, NumberKind
<1>10. str' = str \o number(NumberOf(x), BaseOf(x), NumberWidth(x), PrecisionOf(x), NumberKind(x))
  BY <1>1, <1>5, <1>7, <1>8, <1>9, Zenon
<1>11. number(NumberOf(x), BaseOf(x), NumberWidth(x), PrecisionOf(x), NumberKind(x)) = TextOf(x)
  BY <1>3, <1>4, NumberRight, TextOfIs, Zenon
<1>12. str' = str \o TextOf(x)
  BY <1>10, <1>11, Zenon
<1> QED BY <1>1, <1>2, <1>3, <1>4, <1>12, ItemConverted, Zenon

LEMMA PrintPercentReads ==
  ASSUME ItemsRead, PrintPercent
  PROVE  ItemsRead'
<1>1. /\ at = "conversion" /\ Char(fmt) = "%" /\ str' = str \o <<"%">>
      /\ args' = args /\ NextChar /\ UNCHANGED <<items, format, counts>>
  BY DEF PrintPercent, Converts, Emit
<1>2. PICK k \in 0 .. Len(items), x \in FormatItems : AtConversion(k, x)
  BY <1>1, ConversionAt
<1>3. x.conversion = "%"
  BY <1>1, <1>2, Zenon DEF AtConversion
<1>4. "%" \in {"%", Nul} /\ "%" \notin {Nul, "n"} /\ "%" \notin Numbers \cup {"p", "n", "c", "s"}
  BY DEF Nul, Numbers
<1>5. TextOf(x) = <<"%">>
  BY <1>3, <1>4, TextOfIs, Zenon
<1>6. str' = str \o TextOf(x)
  BY <1>1, <1>5, Zenon
<1> QED BY <1>1, <1>2, <1>3, <1>4, <1>6, ItemConverted, Zenon

LEMMA StoreCountReads ==
  ASSUME ItemsRead, StoreCount
  PROVE  ItemsRead'
<1>1. /\ at = "conversion" /\ Char(fmt) = "n" /\ counts' = Append(counts, [pointer |-> Head(args), length |-> Len(str)])
      /\ fmt' = fmt + 1 /\ at' = "text" /\ items' = items /\ format' = format /\ args' = Tail(args) /\ str' = str
  BY DEF StoreCount, Converts, NextChar
<1>2. PICK k \in 0 .. Len(items), x \in FormatItems : AtConversion(k, x)
  BY <1>1, ConversionAt
<1>3. x.conversion = "n"
  BY <1>1, <1>2, Zenon DEF AtConversion
<1>4. "n" # Nul /\ "n" \in Numbers \cup {"p", "n"}
  BY DEF Nul
<1>5. /\ k < Len(items) /\ items \in Formats /\ format = FormatTo(Len(items)) /\ x = items[k + 1]
      /\ str = TextTo(k) /\ counts = CountsTo(k) /\ str \in Seq(Shown)
      /\ Len(FormatTo(k + 1)) + 1 = fmt + 1 /\ Head(args) = x.number /\ Tail(args) = ArgumentsFrom(k + 1)
  BY <1>2, <1>3, <1>4, Zenon DEF AtConversion
<1>6. TextOf(x) = <<>>
  BY <1>3, TextOfIs, Zenon
<1>7. str \o <<>> = str
  BY <1>5, ConcatEmptySeq
<1>8. str' = str \o TextOf(items[k + 1])
  BY <1>1, <1>5, <1>6, <1>7, Zenon
<1>9. IF items[k + 1].conversion = "n" THEN counts' = Append(counts, Storing(items[k + 1])) ELSE counts' = counts
  BY <1>1, <1>3, <1>5, Zenon DEF Storing
<1>10. fmt' = Len(FormatTo(k + 1)) + 1 /\ args' = ArgumentsFrom(k + 1)
  BY <1>1, <1>5, Zenon
<1> QED BY <1>1, <1>5, <1>8, <1>9, <1>10, ItemDone

LEMMA PrintUnknownReads ==
  ASSUME ItemsRead, PrintUnknown
  PROVE  ItemsRead'
<1>1. /\ at = "conversion" /\ Char(fmt) \notin Numbers \cup {"c", "s", "p", "n", "%"}
      /\ args' = args /\ items' = items /\ format' = format /\ counts' = counts
  BY DEF PrintUnknown
<1>2. PICK k \in 0 .. Len(items), x \in FormatItems : AtConversion(k, x)
  BY <1>1, ConversionAt
<1>3. x.conversion = Char(fmt) /\ x.conversion # "text"
  BY <1>2, Zenon DEF AtConversion
<1>4. x.conversion \notin Numbers \cup {"p", "n", "c", "s"} /\ x.conversion \notin {"n", "%"}
  BY <1>1, <1>3
<1>5. CASE x.conversion = Nul
  <2>1. str' = str \o <<"%">> /\ fmt' = fmt /\ at' = "text"
    BY <1>3, <1>5, Zenon DEF PrintUnknown, Emit
  <2>2. /\ k < Len(items) /\ items \in Formats /\ format = FormatTo(Len(items)) /\ x = items[k + 1]
        /\ str = TextTo(k) /\ counts = CountsTo(k)
        /\ Len(FormatTo(k + 1)) + 1 = fmt /\ args = ArgumentsFrom(k + 1)
    BY <1>2, <1>4, <1>5, Zenon DEF AtConversion
  <2>3. Nul \in {"%", Nul}
    OBVIOUS
  <2>4. TextOf(x) = <<"%">>
    BY <1>5, <2>3, TextOfIs, Zenon
  <2>5. str' = str \o TextOf(items[k + 1]) /\ fmt' = Len(FormatTo(k + 1)) + 1 /\ args' = ArgumentsFrom(k + 1)
    BY <1>1, <2>1, <2>2, <2>4, Zenon
  <2>6. IF items[k + 1].conversion = "n" THEN counts' = Append(counts, Storing(items[k + 1])) ELSE counts' = counts
    <3>1. items[k + 1].conversion # "n"
      BY <1>4, <2>2
    <3> QED BY <1>1, <3>1, Zenon
  <2> QED BY <1>1, <2>1, <2>2, <2>5, <2>6, ItemDone
<1>6. CASE x.conversion # Nul
  <2>1. str' = str \o <<"%", Char(fmt)>> /\ NextChar
    BY <1>3, <1>6, Zenon DEF PrintUnknown, Emit
  <2>2. x.conversion \notin Numbers \cup {"p", "c", "s", "n", "%", Nul, "text"} /\ x.conversion \notin {Nul, "n"}
    BY <1>3, <1>4, <1>6
  <2>3. TextOf(x) = <<"%", x.conversion>>
    BY <2>2, TextOfIs, Zenon
  <2>4. str' = str \o TextOf(x)
    BY <1>3, <2>1, <2>3, Zenon
  <2> QED BY <1>1, <1>2, <1>4, <2>1, <2>2, <2>4, ItemConverted, Zenon
<1> QED BY <1>5, <1>6

LEMMA ItemsReadFirst ==
  ASSUME VsprintfInit
  PROVE  ItemsRead
<1>1. /\ items \in Formats /\ format = FormatTo(Len(items)) /\ fmt = 1 /\ args = ArgumentsFrom(0)
      /\ str = <<>> /\ counts = <<>> /\ at = "text"
  BY DEF VsprintfInit
<1>2. 0 \in 0 .. Len(items) /\ items \in Seq(FormatItems)
  BY <1>1, TextsAre
<1>3. TextTo(0) = <<>> /\ CountsTo(0) = <<>> /\ FormatTo(0) = <<>>
  BY <1>2, TextToIs, CountsToIs, FormatToIs
<1>4. fmt = Len(FormatTo(0)) + 1
  BY <1>1, <1>3
<1>5. at \in {"text", "done"} /\ at # "done"
  BY <1>1
<1>6. Between(0)
  BY <1>1, <1>4, <1>5, Zenon DEF Between
<1>7. str = TextTo(0) /\ counts = CountsTo(0)
  BY <1>1, <1>3, Zenon
<1> QED BY <1>1, <1>2, <1>6, <1>7, Zenon DEF ItemsRead

LEMMA ItemsReadStays ==
  ASSUME ItemsRead, UNCHANGED vsprintfVars
  PROVE  ItemsRead'
<1>1. /\ items' = items /\ format' = format /\ fmt' = fmt /\ args' = args /\ str' = str
      /\ counts' = counts /\ at' = at /\ flags' = flags /\ field_width' = field_width
      /\ precision' = precision /\ qualifier' = qualifier
  BY DEF vsprintfVars, reading
<1>2. PICK k \in 0 .. Len(items) :
        /\ str = TextTo(k) /\ counts = CountsTo(k) /\ (Between(k) \/ Within(k))
  BY Zenon DEF ItemsRead
<1>3. items \in Formats /\ format = FormatTo(Len(items))
  BY Zenon DEF ItemsRead
<1>4. /\ FormatTo(k)' = FormatTo(k) /\ TextTo(k)' = TextTo(k) /\ CountsTo(k)' = CountsTo(k)
      /\ ArgumentsFrom(k)' = ArgumentsFrom(k) /\ ArgumentsFrom(k + 1)' = ArgumentsFrom(k + 1)
      /\ FormatTo(Len(items))' = FormatTo(Len(items))
  BY <1>1, SameItems, Zenon
<1>5. Between(k) => Between(k)'
  BY <1>1, <1>4, Zenon DEF Between
<1>6. Between(k) => ItemsRead'
  <2>1. (items \in Formats)' /\ (format = FormatTo(Len(items)))' /\ (str = TextTo(k))' /\ (counts = CountsTo(k))'
        /\ (k \in 0 .. Len(items))'
    BY <1>1, <1>2, <1>3, <1>4, Zenon
  <2> QED BY <1>5, <2>1, Zenon DEF ItemsRead
<1>7. Within(k) => ItemsRead'
  <2>1. SUFFICES ASSUME Within(k) PROVE ItemsRead'
    OBVIOUS
  <2>2. PICK x : x = items[k + 1]
    OBVIOUS
  <2>3. PICK o : o = Len(FormatTo(k))
    OBVIOUS
  <2>4. PICK value : value = ValueArgument(x) \o ArgumentsFrom(k + 1)
    OBVIOUS
  <2>5. k < Len(items) /\ items[k + 1].conversion # "text" /\ Reading(x, o, value)
    BY <2>1, <2>2, <2>3, <2>4, Zenon DEF Within
  <2>6. /\ ReadingFlags(x, o, value) => ReadingFlags(x, o, value)'
        /\ ReadingPrecision(x, o, value) => ReadingPrecision(x, o, value)'
        /\ ReadingQualifier(x, o, value) => ReadingQualifier(x, o, value)'
        /\ ReadingConversion(x, o, value) => ReadingConversion(x, o, value)'
    BY <1>1, Zenon DEF ReadingFlags, ReadingPrecision, ReadingQualifier, ReadingConversion
  <2>7. Reading(x, o, value)'
    BY <2>5, <2>6, Zenon DEF Reading
  <2> QED BY <1>1, <1>2, <1>3, <2>2, <2>3, <2>4, <2>5, <2>7, ItemGoesOn, Zenon
<1> QED BY <1>2, <1>6, <1>7

LEMMA ItemsReadHolds == VsprintfSpec => []ItemsRead
<1>1. VsprintfInit => ItemsRead
  BY ItemsReadFirst
<1>2. ItemsRead /\ [VsprintfNext]_vsprintfVars => ItemsRead'
  <2>1. SUFFICES ASSUME ItemsRead, [VsprintfNext]_vsprintfVars PROVE ItemsRead'
    OBVIOUS
  <2> QED BY <2>1, CopyCharReads, BeginConversionReads, ReadFlagReads, ReadWidthReads, ReadPrecisionReads,
             ReadQualifierReads, PrintCharReads, PrintStringReads, PrintPointerReads, StoreCountReads,
             PrintPercentReads, PrintNumberReads, PrintUnknownReads, ReturnReads, ItemsReadStays, Zenon
          DEF VsprintfNext
<1> QED BY <1>1, <1>2, PTL DEF VsprintfSpec

(* For every format, every arguments and every width of the types: when    *)
(* vsprintf is back at the head of its loop it is at the end of an item,   *)
(* has written what the items up to there mean (but that it shows nothing  *)
(* of a string whose precision is negative), has taken just their          *)
(* arguments, the pointers of %n among them, and has stored through each   *)
(* of these how long the text was at its place; at its return all items    *)
(* are done (vsprintf.c:146-376). *)
THEOREM TextIsRight == VsprintfSpec => []TextRight
<1>1. ItemsRead => TextRight
  <2>1. SUFFICES ASSUME ItemsRead, at \in {"text", "done"}
                 PROVE  \E k \in 0 .. Len(items) :
                          /\ fmt = Len(FormatTo(k)) + 1 /\ str = TextTo(k) /\ args = ArgumentsFrom(k)
                          /\ counts = CountsTo(k) /\ (at = "done" => k = Len(items))
    BY Zenon DEF TextRight
  <2>2. PICK k \in 0 .. Len(items) :
          /\ str = TextTo(k) /\ counts = CountsTo(k) /\ (Between(k) \/ Within(k))
    BY <2>1, Zenon DEF ItemsRead
  <2>3. ~Within(k)
    BY <2>1 DEF Within, Reading, ReadingFlags, ReadingPrecision, ReadingQualifier, ReadingConversion
  <2> QED BY <2>2, <2>3, Zenon DEF Between
<1> QED BY <1>1, ItemsReadHolds, PTL

(* The steps that take an argument: a number, which the pointer of %n is,  *)
(* or a string. *)
TakesNumber ==
  \/ at = "flags" /\ Char(fmt) = "*"
  \/ at = "precision" /\ Char(fmt) = "." /\ Char(fmt + 1) = "*"
  \/ at = "conversion" /\ Char(fmt) \in Numbers \cup {"p", "n"}
TakesString == at = "conversion" /\ Char(fmt) \in {"c", "s"}

(* The position does not leave the format, and an argument that is taken   *)
(* is there, and of the type that it is taken for. *)
StaysWithin ==
  /\ fmt \in 1 .. Len(format) + 1
  /\ TakesNumber => args # <<>> /\ Head(args) \in Int
  /\ TakesString => args # <<>> /\ Head(args) \in Seq(Characters \cup {Nul})

LEMMA NotEmpty ==
  ASSUME NEW T, NEW a \in T, NEW t \in Seq(T)
  PROVE  <<a>> \o t # <<>>
<1>1. <<a>> \in Seq(T) /\ Len(<<a>>) = 1
  OBVIOUS
<1>2. Len(<<a>> \o t) = 1 + Len(t) /\ Len(t) \in Nat
  BY <1>1, ConcatProperties, LenProperties
<1>3. Len(<<>>) = 0
  OBVIOUS
<1>4. Len(<<a>> \o t) # 0
  BY <1>2
<1> QED BY <1>3, <1>4, Zenon

LEMMA ReadingPlace ==
  ASSUME NEW x, NEW o, NEW value, Placed(x, o), Reading(x, o, value)
  PROVE  fmt \in 1 .. Len(format) + 1
<1>1. PICK a \in Nat, w \in Nat, pp \in Nat, q \in Nat, m \in Nat, c \in Nat :
        /\ a = AfterFlags(x, o) /\ w = AfterWidth(x, o) /\ pp = AfterPrecision(x, o)
        /\ q = AfterQualifier(x, o) /\ m = Len(format) /\ c = Len(ConversionPart(x))
        /\ a <= w /\ w <= pp /\ pp <= q /\ q + c <= m
  BY PlacesAre, Zenon
<1>2. a <= m /\ w <= m /\ pp <= m /\ q <= m
  BY <1>1
<1>3. PICK n \in Nat, l \in Nat : n = Len(x.flags) /\ l = o
  BY PlacesAre DEF Placed
<1>4. a = l + 1 + n
  BY <1>1, <1>3, Zenon DEF AfterFlags
<1>5. CASE ReadingFlags(x, o, value)
  <2>1. PICK f \in 0 .. n : fmt = l + 2 + f
    BY <1>3, <1>5, Zenon DEF ReadingFlags
  <2>2. fmt \in 1 .. m + 1
    BY <1>2, <1>4, <2>1
  <2> QED BY <1>1, <2>2
<1>6. CASE ReadingPrecision(x, o, value) \/ ReadingQualifier(x, o, value) \/ ReadingConversion(x, o, value)
  <2>1. fmt = w + 1 \/ fmt = pp + 1 \/ fmt = q + 1
    BY <1>1, <1>6, Zenon DEF ReadingPrecision, ReadingQualifier, ReadingConversion
  <2>2. fmt \in 1 .. m + 1
    BY <1>2, <2>1
  <2> QED BY <1>1, <2>2
<1> QED BY <1>5, <1>6, Zenon DEF Reading

LEMMA TextPlace ==
  ASSUME items \in Formats, format = FormatTo(Len(items)), NEW k \in 0 .. Len(items), Between(k)
  PROVE  fmt \in 1 .. Len(format) + 1
<1>1. items \in Seq(FormatItems) /\ Len(items) \in Nat /\ k \in Nat
  BY TextsAre
<1>2. fmt = Len(FormatTo(k)) + 1
  BY DEF Between
<1>3. CASE k < Len(items)
  <2>1. PICK o \in Nat, l \in Nat, m \in Nat :
          /\ o = Len(FormatTo(k)) /\ l = Len(FormatOf(items[k + 1])) /\ m = Len(format)
          /\ Len(FormatTo(k + 1)) = o + l /\ Len(FormatTo(k + 1)) <= m
    <3>1. k \in 0 .. Len(items) - 1 /\ items[k + 1] \in FormatItems
      BY <1>1, <1>3, TextsAre
    <3>2. /\ Len(FormatTo(k + 1)) = Len(FormatTo(k)) + Len(FormatOf(items[k + 1]))
          /\ Len(FormatTo(k + 1)) <= Len(format) /\ FormatTo(k) \in Seq(Characters)
      BY <1>1, <3>1, ItemAt
    <3>3. FormatOf(items[k + 1]) \in Seq(Characters) /\ format \in Seq(Characters)
      BY <1>3, <3>1, PlacedAt, PartsAre, Zenon
    <3> QED BY <3>2, <3>3, LenProperties
  <2>2. o + 1 \in 1 .. m + 1
    BY <2>1
  <2> QED BY <1>2, <2>1, <2>2
<1>4. CASE k = Len(items)
  <2>1. format \in Seq(Characters) /\ fmt = Len(format) + 1
    BY <1>1, <1>2, <1>4, FormatToIs
  <2>2. Len(format) \in Nat
    BY <2>1, LenProperties
  <2> QED BY <2>1, <2>2
<1> QED BY <1>1, <1>3, <1>4

(* A star stands only where the item has one. *)
LEMMA StarArgument ==
  ASSUME NEW k \in 0 .. Len(items), NEW x \in FormatItems, NEW o \in Nat, NEW value,
         AtPart(k, x, o, value), TakesNumber, at # "conversion"
  PROVE  args # <<>> /\ Head(args) \in Int
<1>1. /\ Placed(x, o) /\ Reading(x, o, value)
      /\ value \in Seq(Arguments) /\ PrecisionArgument(x) \o value \in Seq(Arguments)
  BY Zenon DEF AtPart
<1>2. x.width.n \in Int /\ x.precision.n \in Int /\ x.width.n \in Arguments /\ x.precision.n \in Arguments
  BY ItemIs DEF Arguments
<1>3. CASE at = "flags"
  <2>1. Char(fmt) = "*"
    BY <1>3 DEF TakesNumber
  <2>2. ReadingFlags(x, o, value)
    BY <1>1, <1>3 DEF Reading, ReadingPrecision, ReadingQualifier, ReadingConversion
  <2>3. PICK n \in Nat : n = Len(x.flags) /\ Holds(o + 1, x.flags)
    BY <1>1, PlacesAre
  <2>4. PICK f \in 0 .. n : fmt = o + 2 + f
    BY <2>2, <2>3, Zenon DEF ReadingFlags
  <2>5. f = n
    <3>1. SUFFICES ASSUME f # n PROVE FALSE
      OBVIOUS
    <3>2. f + 1 \in 1 .. n /\ (o + 1) + (f + 1) = o + 2 + f /\ o + 1 \in Nat
      BY <2>4, <3>1
    <3>3. Char(fmt) = x.flags[f + 1]
      BY <2>3, <2>4, <3>2, HoldsChar, SMTT(60)
    <3>4. x.flags[f + 1] \in FlagChars
      BY <2>3, <3>2, ItemIs
    <3> QED BY <2>1, <3>3, <3>4 DEF FlagChars
  <2>6. fmt = AfterFlags(x, o) + 1
    <3>1. AfterFlags(x, o) = o + 1 + n /\ fmt = o + 2 + n
      BY <2>3, <2>4, <2>5, Zenon DEF AfterFlags
    <3> QED BY <3>1
  <2>7. x.width.how = "star"
    <3>1. /\ x.width.how = "missing" => Char(fmt) # "*"
          /\ x.width.how = "digits" => Char(fmt) \in DecimalDigits
      BY <1>1, <2>6, MeetsWidth
    <3>2. "*" \notin DecimalDigits
      BY DigitsApart
    <3>3. x.width.how \in {"missing", "digits", "star"}
      BY ItemIs
    <3> QED BY <2>1, <3>1, <3>2, <3>3
  <2>8. args = <<x.width.n>> \o (PrecisionArgument(x) \o value)
    BY <2>2, <2>7, Zenon DEF ReadingFlags, WidthArgument
  <2> QED BY <1>1, <1>2, <2>8, FirstArgument, NotEmpty, Zenon
<1>4. CASE at = "precision"
  <2>1. Char(fmt) = "." /\ Char(fmt + 1) = "*"
    BY <1>4 DEF TakesNumber
  <2>2. ReadingPrecision(x, o, value)
    BY <1>1, <1>4 DEF Reading, ReadingFlags, ReadingQualifier, ReadingConversion
  <2>3. AfterWidth(x, o) \in Nat /\ fmt = AfterWidth(x, o) + 1 /\ fmt + 1 = AfterWidth(x, o) + 2
    <3>1. AfterWidth(x, o) \in Nat /\ fmt = AfterWidth(x, o) + 1
      BY <1>1, <2>2, PlacesAre, Zenon DEF ReadingPrecision
    <3> QED BY <3>1
  <2>4. x.precision.how = "star"
    <3>1. /\ x.precision.how = "missing" => Char(fmt) # "."
          /\ x.precision.how = "digits" => Char(fmt + 1) \in DecimalDigits
          /\ x.precision.how = "point" => Char(fmt + 1) # "*"
      BY <1>1, <2>3, MeetsPrecision
    <3>2. "*" \notin DecimalDigits
      BY DigitsApart
    <3>3. x.precision.how \in {"missing", "digits", "star", "point"}
      BY ItemIs
    <3> QED BY <2>1, <3>1, <3>2, <3>3
  <2>5. args = <<x.precision.n>> \o value
    BY <2>2, <2>4, Zenon DEF ReadingPrecision, PrecisionArgument
  <2> QED BY <1>1, <1>2, <2>5, FirstArgument, NotEmpty, Zenon
<1> QED BY <1>3, <1>4 DEF TakesNumber

LEMMA ValueTaken ==
  ASSUME NEW k \in 0 .. Len(items), NEW x \in FormatItems, NEW o \in Nat, NEW value,
         AtPart(k, x, o, value), at = "conversion"
  PROVE  /\ Char(fmt) \in Numbers \cup {"p", "n"} => args # <<>> /\ Head(args) \in Int
         /\ Char(fmt) \in {"c", "s"} => args # <<>> /\ Head(args) \in Seq(Characters \cup {Nul})
<1>1. /\ Placed(x, o) /\ Reading(x, o, value) /\ k < Len(items) /\ items \in Formats
      /\ value = ValueArgument(x) \o ArgumentsFrom(k + 1)
  BY Zenon DEF AtPart
<1>2. ReadingConversion(x, o, value)
  BY <1>1 DEF Reading, ReadingFlags, ReadingPrecision, ReadingQualifier
<1>3. Char(fmt) = x.conversion /\ args = value
  BY <1>1, <1>2, MeetsConversion, Zenon DEF ReadingConversion
<1>4. PICK others \in Seq(Arguments) : others = ArgumentsFrom(k + 1)
  <2>1. items \in Seq(FormatItems) /\ k \in 0 .. Len(items) - 1
    BY <1>1, TextsAre
  <2> QED BY <2>1, ArgumentsAt, Zenon
<1>5. /\ x.number \in Int /\ x.string \in Seq(Characters \cup {Nul})
      /\ x.number \in Arguments /\ x.string \in Arguments
  BY ItemIs, Zenon DEF Arguments
<1>6. ASSUME x.conversion \in Numbers \cup {"p", "n"} PROVE args # <<>> /\ Head(args) \in Int
  <2>1. ValueArgument(x) = <<x.number>>
    <3>1. x.conversion \notin {"c", "s"}
      BY <1>6 DEF Numbers
    <3> QED BY <1>6, <3>1, Zenon DEF ValueArgument
  <2>2. args = <<x.number>> \o others
    BY <1>1, <1>3, <1>4, <2>1, Zenon
  <2> QED BY <1>5, <2>2, FirstArgument, NotEmpty, Zenon
<1>7. ASSUME x.conversion \in {"c", "s"} PROVE args # <<>> /\ Head(args) \in Seq(Characters \cup {Nul})
  <2>1. ValueArgument(x) = <<x.string>>
    <3>1. x.conversion \notin Numbers \cup {"p", "n"}
      BY <1>7 DEF Numbers
    <3> QED BY <1>7, <3>1, Zenon DEF ValueArgument
  <2>2. args = <<x.string>> \o others
    BY <1>1, <1>3, <1>4, <2>1, Zenon
  <2> QED BY <1>5, <2>2, FirstArgument, NotEmpty, Zenon
<1> QED BY <1>3, <1>6, <1>7, Zenon

(* At every step, also in the middle of a conversion: vsprintf reads no    *)
(* character behind the format's NUL, and each va_arg finds an argument of *)
(* the type it names, as long as the arguments are those that the items    *)
(* need (vsprintf.c:146-376). *)
THEOREM ReadsWithin == VsprintfSpec => []StaysWithin
<1>1. ItemsRead => StaysWithin
  <2>1. SUFFICES ASSUME ItemsRead PROVE StaysWithin
    OBVIOUS
  <2>2. CASE at \in {"text", "done"}
    <3>1. PICK k \in 0 .. Len(items) : Between(k) \/ Within(k)
      BY <2>1, Zenon DEF ItemsRead
    <3>2. ~Within(k)
      BY <2>2 DEF Within, Reading, ReadingFlags, ReadingPrecision, ReadingQualifier, ReadingConversion
    <3>3. fmt \in 1 .. Len(format) + 1
      BY <2>1, <3>1, <3>2, TextPlace, Zenon DEF ItemsRead
    <3>4. ~TakesNumber /\ ~TakesString
      BY <2>2 DEF TakesNumber, TakesString
    <3> QED BY <3>3, <3>4, Zenon DEF StaysWithin
  <2>3. CASE at \notin {"text", "done"}
    <3>1. PICK k \in 0 .. Len(items), x \in FormatItems, o \in Nat : \E value : AtPart(k, x, o, value)
      BY <2>1, <2>3, PartAt
    <3>2. PICK value : AtPart(k, x, o, value)
      BY <3>1
    <3>3. fmt \in 1 .. Len(format) + 1
      BY <3>2, ReadingPlace, Zenon DEF AtPart
    <3>4. TakesNumber => args # <<>> /\ Head(args) \in Int
      <4>1. CASE at = "conversion"
        <5>1. TakesNumber => Char(fmt) \in Numbers \cup {"p", "n"}
          BY <4>1 DEF TakesNumber
        <5> QED BY <3>2, <4>1, <5>1, ValueTaken, Zenon
      <4>2. CASE at # "conversion"
        BY <3>2, <4>2, StarArgument, Zenon
      <4> QED BY <4>1, <4>2
    <3>5. TakesString => args # <<>> /\ Head(args) \in Seq(Characters \cup {Nul})
      BY <3>2, ValueTaken, Zenon DEF TakesString
    <3> QED BY <3>3, <3>4, <3>5, Zenon DEF StaysWithin
  <2> QED BY <2>2, <2>3
<1> QED BY <1>1, ItemsReadHolds, PTL
=============================================================================
