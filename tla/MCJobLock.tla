----------------------------- MODULE MCJobLock ------------------------------
(* Instances of JobLock for TLC.                                           *)
EXTENDS JobLock, TLC

CONSTANTS w1, w2, w3, p1, p2

\* Two workers in one process, one in another.
TwoPools == w1 :> p1 @@ w2 :> p1 @@ w3 :> p2
=============================================================================
