----------------------------- MODULE KernelLog -----------------------------
(***************************************************************************)
(* What printk (kernel/printk.c) promises of the log: it holds the last    *)
(* characters of all messages, one after the other, where each line has    *)
(* the mark of its level in front, its own or else the default.  How the   *)
(* marks get there and how the log is stored is absent: Printk implements  *)
(* this specification.                                                     *)
(***************************************************************************)
EXTENDS LogMarks

CONSTANTS
  LOG_BUF_LEN,        \* how many characters are kept
  Messages            \* the messages: sequences of characters

VARIABLES
  kept,               \* the log
  todo                \* what of the message is not in the log yet

logVars == <<kept, todo>>

Newest(s) == IF Len(s) <= LOG_BUF_LEN THEN s
             ELSE SubSeq(s, Len(s) - LOG_BUF_LEN + 1, Len(s))

InLine(s) == s # <<>> /\ Last(s) # "newline"

Init == kept = <<>> /\ todo = <<>>

Say(message) ==
  /\ todo = <<>>
  /\ todo' = Marked(message, InLine(kept))
  /\ UNCHANGED kept

Keep ==
  /\ todo # <<>>
  /\ kept' = Newest(Append(kept, Head(todo)))
  /\ todo' = Tail(todo)

Next == Keep \/ \E message \in Messages : Say(message)

Spec == Init /\ [][Next]_logVars
=============================================================================
