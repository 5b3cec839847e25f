------------------------------- MODULE Printk -------------------------------
(***************************************************************************)
(* printk (kernel/printk.c).  The text is formatted into buf from index 3  *)
(* on, then copied line by line into the ring log_buf.  A line without a   *)
(* level gets the mark of the default level: it is written into buf over   *)
(* the three characters before the line, which have been copied, or are    *)
(* the three that were left free.                                          *)
(*                                                                         *)
(* It holds console_lock with interrupts off, so a call is never           *)
(* interrupted; each turn of its loops is a step.  vsprintf is abstracted  *)
(* to the text that it produces.  A level is written by its digit.         *)
(***************************************************************************)
EXTENDS LogMarks

CONSTANTS
  LOG_BUF_LEN,        \* characters in log_buf
  BufLen,             \* characters in buf, 1024 in the source
  WordSize,           \* 2^32: unsigned long arithmetic is modulo this
  Chars,              \* characters, Digits among them
  NUL,                \* the one that ends a string
  Messages            \* the texts that vsprintf may produce

NoLevel == "none"     \* a msg_level of -1

ASSUME PrintkAssumption ==
  /\ LOG_BUF_LEN \in Nat \ {0} /\ WordSize \in Nat /\ WordSize % LOG_BUF_LEN = 0
  /\ LOG_BUF_LEN < WordSize
  /\ BufLen \in Nat
  /\ {"<", ">", "newline"} \subseteq Chars \ Digits /\ NUL \notin Chars
  /\ Digits \subseteq Chars /\ NoLevel \notin Digits
  /\ default_message_loglevel \in Digits
  /\ \A m \in Messages : m \in Seq(Chars) /\ Len(m) + 4 <= BufLen

VARIABLES
  buf, log_buf,
  log_start, log_size, logged_chars,
  msg_level,          \* of the line that is not finished, kept between calls
  pc,                 \* "idle"; in printk: at the outer loop "line", the inner "char"
  p, buf_end          \* pointers, as indices of buf

ring == <<log_buf, log_start, log_size, logged_chars>>
vars == <<buf, ring, msg_level, pc, p, buf_end>>
----------------------------------------------------------------------------
(* What has static storage is zero, and the level is unknown. *)
Init ==
  /\ buf = [k \in 0 .. BufLen - 1 |-> NUL]
  /\ log_buf = [k \in 0 .. LOG_BUF_LEN - 1 |-> NUL]
  /\ log_start = 0 /\ log_size = 0 /\ logged_chars = 0
  /\ msg_level = NoLevel
  /\ pc = "idle"
  /\ p = 0 /\ buf_end = 0

(* Where the outer loop goes with its next p.  What printk has no more use *)
(* for is set back. *)
Proceed(next, last) ==
  IF next < last THEN pc' = "line" /\ p' = next /\ buf_end' = last
                 ELSE pc' = "idle" /\ p' = 0 /\ buf_end' = 0

(* The text and its NUL are written from index 3 on; the rest of buf       *)
(* still holds what earlier messages left there. *)
Format(text) ==
  /\ pc = "idle"
  /\ buf' = [k \in DOMAIN buf |->
               CASE k - 2 \in DOMAIN text -> text[k - 2]
                 [] k = 3 + Len(text)     -> NUL
                 [] OTHER                 -> buf[k]]
  /\ Proceed(3, 3 + Len(text))
  /\ UNCHANGED <<ring, msg_level>>

HasMark == buf[p] = "<" /\ buf[p + 1] \in Digits /\ buf[p + 2] = ">"

(* The line goes on with what an earlier call has left unfinished. *)
ContinueLine ==
  /\ pc = "line"
  /\ msg_level # NoLevel
  /\ pc' = "char"
  /\ UNCHANGED <<buf, ring, msg_level, p, buf_end>>

ReadLevel ==
  /\ pc = "line"
  /\ msg_level = NoLevel
  /\ HasMark
  /\ msg_level' = buf[p + 1]
  /\ pc' = "char"
  /\ UNCHANGED <<buf, ring, p, buf_end>>

(* Fault: the mark is written over the line. *)
AddLevelInLine ==
  /\ pc = "line"
  /\ msg_level = NoLevel
  /\ ~HasMark
  /\ buf' = [buf EXCEPT ![p] = "<", ![p + 1] = default_message_loglevel, ![p + 2] = ">"]
  /\ msg_level' = default_message_loglevel
  /\ pc' = "char"
  /\ UNCHANGED <<ring, p, buf_end>>

AddLevel ==
  /\ pc = "line"
  /\ msg_level = NoLevel
  /\ ~HasMark
  /\ p' = p - 3
  /\ buf' = [buf EXCEPT ![p'] = "<", ![p' + 1] = default_message_loglevel, ![p' + 2] = ">"]
  /\ msg_level' = default_message_loglevel
  /\ pc' = "char"
  /\ UNCHANGED <<ring, buf_end>>

(* Fault: log_start does not follow when the ring is full. *)
StoreWithoutMoving(c) ==
  /\ log_buf' = [log_buf EXCEPT ![(log_start + log_size) % LOG_BUF_LEN] = c]
  /\ log_size' = IF log_size < LOG_BUF_LEN THEN log_size + 1 ELSE log_size
  /\ logged_chars' = (logged_chars + 1) % WordSize
  /\ UNCHANGED log_start

(* A character is put into the ring, in place of the oldest if it is full. *)
Store(c) ==
  /\ log_buf' = [log_buf EXCEPT ![(log_start + log_size) % LOG_BUF_LEN] = c]
  /\ IF log_size < LOG_BUF_LEN
       THEN log_size' = log_size + 1 /\ UNCHANGED log_start
       ELSE log_start' = (log_start + 1) % WordSize /\ UNCHANGED log_size
  /\ logged_chars' = (logged_chars + 1) % WordSize

(* Fault: the level outlives its line. *)
LogCharKeepingLevel ==
  /\ pc = "char"
  /\ Store(buf[p])
  /\ IF buf[p] = "newline" \/ p + 1 = buf_end
       THEN Proceed(p + 1, buf_end)
       ELSE p' = p + 1 /\ UNCHANGED <<pc, buf_end>>
  /\ UNCHANGED <<buf, msg_level>>

(* Fault: the outer loop begins with the newline again. *)
LogCharStaying ==
  /\ pc = "char"
  /\ Store(buf[p])
  /\ IF buf[p] = "newline" THEN Proceed(p, buf_end)
     ELSE IF p + 1 = buf_end THEN Proceed(p + 1, buf_end)
     ELSE p' = p + 1 /\ UNCHANGED <<pc, buf_end>>
  /\ msg_level' = IF buf[p] = "newline" THEN NoLevel ELSE msg_level
  /\ UNCHANGED buf

(* A turn of the inner loop, and what follows the loop if it is the last:  *)
(* after a newline the level is unknown. *)
LogChar ==
  /\ pc = "char"
  /\ Store(buf[p])
  /\ IF buf[p] = "newline" \/ p + 1 = buf_end
       THEN Proceed(p + 1, buf_end)
       ELSE p' = p + 1 /\ UNCHANGED <<pc, buf_end>>
  /\ msg_level' = IF buf[p] = "newline" THEN NoLevel ELSE msg_level
  /\ UNCHANGED buf

InPrintk == ContinueLine \/ ReadLevel \/ AddLevel \/ LogChar

Next == InPrintk \/ \E text \in Messages : Format(text)

Spec == Init /\ [][Next]_vars

(* A call waits for nothing. *)
FairSpec == Spec /\ WF_vars(InPrintk)
----------------------------------------------------------------------------
(* The log, oldest character first. *)
kept == [k \in 1 .. log_size |-> log_buf[(log_start + k - 1) % LOG_BUF_LEN]]

(* What of the message is still to be copied, without marks to come. *)
rest == IF pc = "idle" THEN <<>> ELSE [k \in 1 .. buf_end - p |-> buf[p + k - 1]]

(* A line in the log that began with a mark keeps that level until it      *)
(* ends, however many calls it takes, and no line begins without one: no   *)
(* text is taken for a mark in the middle of a line.  log_start counts the *)
(* characters that have been overwritten, also when the counters wrap.     *)
LinesMarked ==
  /\ logged_chars = (log_start + log_size) % WordSize
  /\ \A k \in 0 .. log_size :
      (IF k = 0 THEN log_size < LOG_BUF_LEN ELSE kept[k] = "newline") =>
        /\ k + 1 <= log_size => kept[k + 1] = "<"
        /\ k + 2 <= log_size => kept[k + 2] \in Digits
        /\ k + 3 <= log_size => kept[k + 3] = ">"
        /\ k + 2 <= log_size /\ (\A j \in k + 3 .. log_size : kept[j] # "newline")
             => msg_level = kept[k + 2]

(* The ring with its marks written in place implements the log: no         *)
(* character is overwritten before it is copied, none is copied twice.     *)
Log == INSTANCE KernelLog WITH todo <- Marked(rest, msg_level # NoLevel)
LogSpec == Log!Spec

(* Each call returns: p is moved back for a mark, but not twice. *)
CallReturns == pc = "line" ~> pc = "idle"
=============================================================================
