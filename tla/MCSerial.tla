------------------------------ MODULE MCSerial ------------------------------
(* Three polls; texts with a line feed first, last, and two in a row.      *)
EXTENDS Serial

MCTexts == {<<>>, <<"a", "LF", "b">>, <<"LF", "LF">>, <<"a", "b", "LF">>}
=============================================================================
