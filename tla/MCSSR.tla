-------------------------------- MODULE MCSSR --------------------------------
(* SSR for TLC: requests and props are interchangeable.                    *)
EXTENDS SSR, TLC

Symmetry == Permutations(Req) \cup Permutations(Props)
=============================================================================
