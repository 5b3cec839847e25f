------------------------------ MODULE LogMarks ------------------------------
(***************************************************************************)
(* The marks "<4>" that tell the level of a line in the log                *)
(* (kernel/printk.c), as a function of the text.  A newline is a character.*)
(***************************************************************************)
EXTENDS Integers, Sequences, SequencesExt

CONSTANTS
  Digits,             \* '0' .. '7'
  default_message_loglevel   \* one of them

IsMark(s) == Len(s) = 3 /\ s[1] = "<" /\ s[2] \in Digits /\ s[3] = ">"

(* The text with a mark before each line that has none.  Its first line    *)
(* may go on with one that is in the log.                                  *)
Marked(text, goesOn) ==
  LET StartsLine(k) == IF k = 1 THEN ~goesOn ELSE text[k - 1] = "newline"
      HasMark(k)    == k + 2 <= Len(text) /\ IsMark(SubSeq(text, k, k + 2))
      Piece(k)      == IF StartsLine(k) /\ ~HasMark(k)
                         THEN <<"<", default_message_loglevel, ">", text[k]>>
                         ELSE <<text[k]>>
  IN FlattenSeq([k \in DOMAIN text |-> Piece(k)])
=============================================================================
