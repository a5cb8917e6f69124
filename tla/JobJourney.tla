----------------------------- MODULE JobJourney -----------------------------
(***************************************************************************)
(* What the job queue promises about a job: it is submitted once, then     *)
(* moves between the queues, the delayed jobs and the hands of a caller,   *)
(* one job at a time, until it is over; only an operation that is cut      *)
(* short loses a job, and only the one it holds; a job that is over stays  *)
(* over.  The promise ends when somebody retries or deletes a job by hand. *)
(***************************************************************************)
EXTENDS Naturals

CONSTANT Job

VARIABLES
  place,   \* new, held, queued, delayed, lost or over, for each job
  cut,     \* number of operations that were cut short
  tended   \* whether a job was retried or deleted by hand

JourneyInit ==
  /\ place = [j \in Job |-> "new"]
  /\ cut = 0
  /\ tended = FALSE

Moves(j, from, to) ==
  /\ place[j] \in from /\ place'[j] = to
  /\ \A i \in Job \ {j} : place'[i] = place[i]

Submitted(j) == Moves(j, {"new"}, "held")
Put(j)       == Moves(j, {"held"}, "queued") \/ Moves(j, {"held"}, "delayed")
Taken(j)     == Moves(j, {"queued", "delayed"}, "held")
Ended(j)     == Moves(j, {"held"}, "over")
Forgotten(j) == Moves(j, {"lost"}, "over")

Regular ==
  /\ UNCHANGED <<cut, tended>>
  /\ \E j \in Job : Submitted(j) \/ Put(j) \/ Taken(j) \/ Ended(j) \/ Forgotten(j)

\* An operation is cut short: the job it holds, if any, is lost or over.
CutShort ==
  /\ cut' = cut + 1
  /\ UNCHANGED tended
  /\ \/ UNCHANGED place
     \/ \E j \in Job : Moves(j, {"held"}, "lost") \/ Ended(j)

\* Nothing is promised any more: the jobs may be anywhere.
ByHand == tended'

JourneyNext == ByHand \/ CutShort \/ Regular

JourneySpec == JourneyInit /\ [][JourneyNext]_<<place, cut, tended>>
=============================================================================
