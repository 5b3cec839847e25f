------------------------------ MODULE MCPrintk ------------------------------
(* A ring of six characters, and messages with no, one and two newlines,  *)
(* with marks, parts of marks, and what looks like one.                    *)
EXTENDS Printk

MCMessages ==
  {<<>>, <<"x">>, <<"newline", "newline">>, <<"x", "newline", "x">>,
   <<"<", "6", ">", "newline">>, <<"newline", "<", "6", ">">>,
   <<"<", "6">>, <<">", "newline">>, <<"newline", "<", "x", ">">>}
=============================================================================
