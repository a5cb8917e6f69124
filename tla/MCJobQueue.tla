----------------------------- MODULE MCJobQueue -----------------------------
(* Instances of JobQueue for TLC.                                          *)
EXTENDS JobQueue, TLC

\* An immediate and a delayed job with MaxRetries r, in the first and in the
\* last priority.
Immediate(k, r) == [key |-> k, prio |-> 1, at |-> "nil", max |-> r]
Delayed(k, r)   == [key |-> k, prio |-> NPrio, at |-> "set", max |-> r]

KeyedSubmissions == UNION {{Immediate(k, 0), Delayed(k, 2)} : k \in Key}

Symmetry == Permutations(Job) \cup Permutations(Worker)
              \cup Permutations(Processor) \cup Permutations(Client)
=============================================================================
