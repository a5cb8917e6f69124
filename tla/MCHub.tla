-------------------------------- MODULE MCHub --------------------------------
(* Hub for TLC: one authenticated client and one that is not.              *)
EXTENDS Hub

CONSTANTS c1, c2

Users == [c \in Client |-> IF c = c1 THEN 1 ELSE 0]
=============================================================================
