---------------------------- MODULE MCWorkerPool ----------------------------
(* Instances of WorkerPool for TLC.                                        *)
EXTENDS WorkerPool, TLC

CONSTANTS k1, w1, w2, p1

\* Both workers in one process, where they are alike.
OnePool == w1 :> p1 @@ w2 :> p1

Symmetry == Permutations({w1, w2})

Submit(key, at, max) == [key |-> key, prio |-> 1, at |-> at, max |-> max]

\* One attempt only, with or without a key; with a retry.
Either  == {Submit(k1, "nil", 1), Submit(NoKey, "nil", 1)}
Retried == {Submit(k1, "nil", 2)}
=============================================================================
