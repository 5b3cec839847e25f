----------------------------- MODULE MCResource -----------------------------
(* Four resources that are given ranges of three addresses and requested   *)
(* within each other in every order.  One of them starts as a bus that has *)
(* room for the rest.                                                      *)
EXTENDS Resource

CONSTANT bus

MCStart == [r \in Resources |-> 0]
MCEnd   == [r \in Resources |-> IF r = bus THEN WordSize - 1 ELSE 0]
=============================================================================
