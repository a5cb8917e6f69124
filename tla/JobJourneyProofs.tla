------------------------- MODULE JobJourneyProofs -------------------------
(***************************************************************************)
(* The job queue (JobQueue) implements the journey of a job (JobJourney).  *)
(*                                                                         *)
(* A job is found where its journey says only if no other place has it     *)
(* too, which is the invariant Tidy of JobPlacesProofs, and if a final     *)
(* record means that nobody will store, push or run the job again, which   *)
(* is Settled below.                                                       *)
(***************************************************************************)
EXTENDS JobPlacesProofs

\* For the leaves that name no other prover.
USE Zenon

\* What a caller at command l with the payload r knows of the stored record s.
EnqueuePC == {"enq_check", "enq_store"}
FinalPC   == {"fail_dlq", "drop_unique"}

Settles(l, r, s) ==
  /\ l \in EnqueuePC => s.status = "absent"
  /\ l \in EnqueuePC \cup {"deq_update", "sched_remove", "sched_update"} => r.status \in Going
  /\ l \in HeldPC => s.status \notin Final
  /\ l \in FinalPC => s.status \in Final

\* A job with a final record is in no place and in nobody's hands, and a job
\* not submitted yet has no record.
Settled ==
  /\ \A p \in Proc : Settles(pc[p], loc[p], job[id[p]])
  /\ \A j \in Job : Queued(j) \/ scheduled[j] # "no" => job[j].status \notin Final
  /\ \A j \in Job \ issued : job[j].status = "absent"

\* The commands, by what they say about the job.
LEMMA CommandKinds ==
  /\ HeldPC \subseteq OwnPC /\ FinalPC \subseteq OwnPC /\ EnqueuePC \subseteq HeldPC
  /\ HeldPC \cap FinalPC = {} /\ "deq_get" \in HeldPC
  /\ \A l \in {"idle", "ret", "enq_unique", "sched_get", "sched_remove"} :
       l \notin OwnPC /\ l \notin HeldPC /\ l \notin FinalPC /\ l \notin EnqueuePC
BY DEF HeldPC, OwnPC, CarryPC, FinalPC, EnqueuePC

\* A final status is not the one of a job that is still going, nor is none.
LEMMA StatusKinds ==
  /\ Going \cap Final = {} /\ "absent" \notin Going /\ "absent" \notin Final
  /\ Absent.status = "absent" /\ \A j : Unfinished(j) <=> job[j].status \in Going
BY SMT DEF Going, Final, Absent, Unfinished

\* A step of p that stores no record.
LEMMA ReadingSettled ==
  ASSUME Settled, NEW p \in Proc, OthersKeep(p), UNCHANGED job, issued \subseteq issued',
         Settles(pc'[p], loc'[p], job[id'[p]]),
         \A x \in Job : Queued(x)' \/ scheduled'[x] # "no" =>
           Queued(x) \/ scheduled[x] # "no" \/ job[x].status \notin Final
  PROVE  Settled'
<1>1. \A q \in Proc : Settles(pc'[q], loc'[q], job'[id'[q]])
  BY DEF Settled, OthersKeep
<1>2. QED BY <1>1 DEF Settled

\* A step of p that stores the record r of the job in its hands.
LEMMA StoringSettled ==
  ASSUME TypeOK, LocalOK, Tidy, Settled, NEW p \in Proc, NEW j \in Job, Owns(p, j),
         OthersKeep(p), NEW r, Store(j, r), UNCHANGED <<queue, scheduled, issued>>,
         id'[p] = j, Settles(pc'[p], loc'[p], r)
  PROVE  Settled'
<1>1. job'[j] = r /\ \A x \in Job \ {j} : job'[x] = job[x]
  BY DEF Store, TypeOK
<1> USE <1>1
<1>2. ~Queued(j) /\ scheduled[j] = "no" /\ j \in issued
  BY DEF Tidy, InOnePlace, Apart, Owned
<1>3. ASSUME NEW q \in Proc PROVE Settles(pc'[q], loc'[q], job'[id'[q]])
  <2>1. CASE q = p
    BY <2>1
  <2>2. CASE q # p /\ id[q] \in Job \ {j}
    BY <2>2 DEF Settled, OthersKeep
  <2>3. CASE q # p /\ id[q] = j
    <3>1. pc[q] \notin OwnPC /\ Settles(pc[q], loc[q], job[id[q]])
      BY <2>3 DEF Tidy, InOnePlace, OneOwner, Owns, Settled
    <3>2. pc[q] \notin HeldPC /\ pc[q] \notin FinalPC /\ pc[q] \notin EnqueuePC
      BY <3>1, CommandKinds
    <3>3. Settles(pc[q], loc[q], r)
      BY <3>1, <3>2 DEF Settles
    <3>4. QED BY <2>3, <3>3 DEF OthersKeep
  <2>4. CASE q # p /\ id[q] \notin Job
    <3>1. pc[q] \in {"idle", "sched_get", "ret"} /\ pc'[q] = pc[q]
      BY <2>4 DEF LocalOK, HoldsAt, OthersKeep
    <3>2. QED BY <3>1, CommandKinds DEF Settles
  <2>5. QED BY <2>1, <2>2, <2>3, <2>4
<1>4. \A x \in Job : Queued(x)' <=> Queued(x)
  BY DEF Queued
<1>5. QED BY <1>2, <1>3, <1>4 DEF Settled

\* A caller goes to a command at which it knows nothing.
LEMMA SettlesIdle ==
  ASSUME NEW l \in {"idle", "ret", "enq_unique", "sched_get"}, NEW r, NEW s
  PROVE  Settles(l, r, s)
<1>1. l \notin {"deq_update", "sched_remove", "sched_update"}
  OBVIOUS
<1>2. QED BY <1>1, CommandKinds DEF Settles

\* A job in the hands of a caller has no final record.
LEMMA HeldSettled ==
  ASSUME LocalOK, Tidy, Settled, NEW p \in Proc, pc[p] \in HeldPC
  PROVE  /\ id[p] \in Job /\ Owns(p, id[p]) /\ job[id[p]].status \notin Final
         /\ ~Queued(id[p]) /\ scheduled[id[p]] = "no" /\ id[p] \in issued
<1>1. pc[p] \in OwnPC /\ pc[p] \notin {"idle", "sched_get", "ret"}
  BY CommandKinds
<1>2. id[p] \in Job /\ Owns(p, id[p])
  BY <1>1 DEF LocalOK, HoldsAt, Owns
<1>3. job[id[p]].status \notin Final
  BY DEF Settled, Settles
<1>4. QED BY <1>2, <1>3 DEF Tidy, InOnePlace, Apart, Owned

\* The statuses that the queue stores.
LEMMA StoredStatus ==
  ASSUME NEW r \in Record
  PROVE  /\ [r EXCEPT !.status = "running", !.attempts = @ + 1].status = "running"
         /\ [r EXCEPT !.status = "completed"].status = "completed"
         /\ [r EXCEPT !.status = "retrying", !.at = "set"].status = "retrying"
         /\ [r EXCEPT !.status = "dead"].status = "dead"
         /\ [r EXCEPT !.status = "pending", !.attempts = @ - 1].status = "pending"
         /\ [r EXCEPT !.at = "nil", !.status = "pending"].status = "pending"
         /\ {"running", "retrying", "pending"} \subseteq Going
         /\ {"completed", "dead"} \subseteq Final
BY SMT DEF Record, Going, Final

\* A step that does not touch the jobs' places.
LEMMA QuietSettled ==
  ASSUME Settled, NEW p \in Proc, OthersKeep(p), UNCHANGED <<job, queue, scheduled, issued>>,
         Settles(pc'[p], loc'[p], job[id'[p]])
  PROVE  Settled'
<1>1. \A x \in Job : Queued(x)' <=> Queued(x)
  BY DEF Queued
<1>2. QED BY <1>1, ReadingSettled

\* A caller puts a job into a queue or into the scheduled set.
LEMMA PutSettled ==
  ASSUME TypeOK, LocalOK, Tidy, Settled, NEW p \in Proc, pc[p] \in HeldPC, OthersKeep(p),
         UNCHANGED <<job, issued>>, pc'[p] \in {"idle", "ret", "enq_unique", "sched_get"},
         \/ (\E r \in Record : Push(id[p], r)) /\ UNCHANGED scheduled
         \/ SetScheduled(id[p], "future") /\ UNCHANGED queue
  PROVE  Settled'
<1>1. PICK j \in Job : j = id[p] /\ job[j].status \notin Final
  BY HeldSettled
<1> USE <1>1
<1>2. Settles(pc'[p], loc'[p], job[id'[p]])
  BY SettlesIdle
<1>3. CASE (\E r \in Record : Push(j, r)) /\ UNCHANGED scheduled
  <2>1. PICK q, n : \A m, i, x : Entry(queue', m, i, x) =>
                      Entry(queue, m, i, x) \/ (m = q /\ i = n /\ x = j)
    BY <1>3, PushEntries
  <2>2. ASSUME NEW x \in Job, Queued(x)' PROVE Queued(x) \/ x = j
    <3>1. PICK m, i : Entry(queue', m, i, x)
      BY <2>2 DEF Queued, InList, Entry
    <3>2. QED BY SMT, <2>1, <3>1, QueuedEntry
  <2>3. QED BY <1>2, <1>3, <2>2, ReadingSettled
<1>4. CASE SetScheduled(j, "future") /\ UNCHANGED queue
  <2>1. \A x \in Job : x # j => scheduled'[x] = scheduled[x]
    BY <1>4 DEF SetScheduled, TypeOK
  <2>2. \A x \in Job : Queued(x)' <=> Queued(x)
    BY <1>4 DEF Queued
  <2>3. QED BY <1>2, <2>1, <2>2, ReadingSettled
<1>5. QED BY <1>3, <1>4

\* A caller goes to a command at which it holds the job, or has ended it.
LEMMA SettlesHeld ==
  ASSUME NEW l, NEW r, NEW s
  PROVE  /\ /\ l \in CarryPC /\ s.status \notin Final
            /\ l \in {"deq_update", "sched_update"} => r.status \in Going
            => Settles(l, r, s)
         /\ l \in FinalPC /\ s.status \in Final => Settles(l, r, s)
BY DEF Settles, HeldPC, CarryPC, FinalPC, EnqueuePC

\* A client that calls Enqueue only does not get to the later commands of
\* RetryDLQJob and DeleteJob.
LEMMA EnqueueOnlySteps ==
  ASSUME NEW c \in Client, EnqueuesOnly(c), ClientStep(c) \/ DeleteFails(c)
  PROVE  \/ \E j \in Job : (\E s \in Submission : EnqueueCall(c, j, s))
            \/ RetryJob(c, j) \/ RetryDLQGet(c, j) \/ DeleteCall(c, j)
         \/ EnqueueCheck(c) \/ EnqueueStore(c) \/ EnqueuePush(c) \/ EnqueueUnique(c)
<1>1. ~\E j \in Job : RetryDLQRemove(c, j)
  BY DEF RetryDLQRemove, EnqueuesOnly
<1>2. /\ ~DeleteRecord(c) /\ ~DeleteQueued(c) /\ ~DeleteScheduled(c) /\ ~DeleteDead(c)
      /\ ~DropUnique(c) /\ ~DeleteFails(c)
  BY DEF DeleteRecord, DeleteQueued, DeleteScheduled, DeleteDead, DropUnique,
     DeleteFails, EnqueuesOnly
<1>3. QED BY <1>1, <1>2 DEF ClientStep

\* The steps of a client, RetryJob, RetryDLQJob and DeleteJob aside.
LEMMA ClientSettled ==
  ASSUME TypeOK, LocalOK, Tidy, Settled, NEW c \in Client, ClientStep(c) \/ DeleteFails(c)
  PROVE  Settled' \/ calls' = calls + 1
<1>1. c \in Proc /\ OthersKeep(c) /\ EnqueuesOnly(c) /\ Settles(pc[c], loc[c], job[id[c]])
  BY OwnMoves DEF Proc, Tidy, Settled
<1> USE <1>1
<1>2. ASSUME NEW j \in Job, NEW s \in Submission, EnqueueCall(c, j, s) PROVE Settled'
  <2>1. /\ pc'[c] = "enq_check" /\ id'[c] = j /\ loc'[c] = NewJobPayload(s) /\ j \notin issued
        /\ UNCHANGED <<job, queue, scheduled>> /\ issued \subseteq issued'
    BY <1>2 DEF EnqueueCall, Goto, Keep, redis, LocalOK
  <2> USE <2>1
  <2>2. NewJobPayload(s).status \in Going
    BY SMT DEF NewJobPayload, Going
  <2>3. job[j].status = "absent" /\ job[j].status \notin Final
    BY StatusKinds DEF Settled
  <2>4. Settles("enq_check", NewJobPayload(s), job[j])
    BY <2>2, <2>3, CommandKinds DEF Settles, EnqueuePC
  <2>5. \A x \in Job : Queued(x)' <=> Queued(x)
    BY DEF Queued
  <2>6. QED BY <2>4, <2>5, ReadingSettled
<1>3. CASE EnqueueCheck(c)
  <2>1. /\ UNCHANGED <<job, queue, scheduled, issued>> /\ pc[c] = "enq_check"
        /\ pc'[c] = "idle" \/ (pc'[c] = "enq_store" /\ id'[c] = id[c] /\ loc'[c] = loc[c])
    BY <1>3 DEF EnqueueCheck, Return, Goto, redis, ghost, LocalOK
  <2>2. Settles("enq_store", loc[c], job[id[c]])
    BY <2>1, CommandKinds DEF Settles, EnqueuePC
  <2>3. Settles("idle", loc'[c], job[id'[c]])
    BY SettlesIdle
  <2>4. QED BY <2>1, <2>2, <2>3, QuietSettled
<1>4. CASE EnqueueStore(c)
  <2>1. /\ UNCHANGED <<queue, scheduled, issued>> /\ pc[c] = "enq_store"
        /\ pc'[c] = "enq_push" /\ id'[c] = id[c] /\ loc'[c] = loc[c] /\ Store(id[c], loc[c])
    BY <1>4 DEF EnqueueStore, Goto, ghost, LocalOK
  <2> USE <2>1
  <2>2. loc[c].status \notin Final
    BY StatusKinds DEF Settles, EnqueuePC
  <2>3. Settles("enq_push", loc[c], loc[c])
    BY <2>2, SettlesHeld DEF CarryPC
  <2>4. pc[c] \in HeldPC
    BY DEF HeldPC
  <2>5. id[c] \in Job /\ Owns(c, id[c])
    BY <2>4, HeldSettled
  <2>6. QED BY <2>3, <2>5, StoringSettled
<1>5. CASE EnqueuePush(c)
  <2>1. /\ pc[c] = "enq_push" /\ UNCHANGED <<job, issued>>
        /\ pc'[c] = "enq_unique" \/ pc'[c] = "idle"
    BY <1>5 DEF EnqueuePush, Return, Goto, ghost, LocalOK
  <2>2. pc[c] \in HeldPC /\ loc[c] \in Record
    BY <2>1 DEF HeldPC, CarryPC, LocalOK
  <2>3. \/ (\E r \in Record : Push(id[c], r)) /\ UNCHANGED scheduled
        \/ SetScheduled(id[c], "future") /\ UNCHANGED queue
    BY <1>5, <2>2 DEF EnqueuePush
  <2>4. QED BY <2>1, <2>2, <2>3, PutSettled
<1>6. CASE EnqueueUnique(c)
  <2>1. UNCHANGED <<job, queue, scheduled, issued>> /\ pc'[c] = "idle"
    BY <1>6 DEF EnqueueUnique, Return, Goto, ghost, LocalOK
  <2>2. QED BY <2>1, SettlesIdle, QuietSettled
<1>7. ASSUME NEW j \in Job, RetryJob(c, j) \/ RetryDLQGet(c, j) \/ DeleteCall(c, j)
      PROVE  calls' = calls + 1
  BY <1>7 DEF RetryJob, RetryDLQGet, DeleteCall
<1>8. QED BY <1>2, <1>3, <1>4, <1>5, <1>6, <1>7, EnqueueOnlySteps

\* Dequeue takes the first ID of a list: what is left was there before.
LEMMA PopLeaves ==
  ASSUME TypeOK, NEW q \in Prio, queue[q] # <<>>,
         queue' = [queue EXCEPT ![q] = Tail(queue[q])]
  PROVE  /\ Head(queue[q]) \in Job /\ Queued(Head(queue[q]))
         /\ \A x : Queued(x)' => Queued(x)
<1>1. /\ Entry(queue, q, 1, Head(queue[q])) /\ Head(queue[q]) \in Job
      /\ \A p, i, j : Entry(queue', p, i, j) =>
           \/ p # q /\ Entry(queue, p, i, j)
           \/ p = q /\ i \in Nat \ {0} /\ Entry(queue, p, i + 1, j)
  BY PopEntries
<1>2. ASSUME NEW x, Queued(x)' PROVE Queued(x)
  <2>1. PICK p, i : Entry(queue', p, i, x)
    BY <1>2 DEF Queued, InList, Entry
  <2>2. \E k : Entry(queue, p, k, x)
    BY <1>1, <2>1
  <2>3. QED BY <2>2, QueuedEntry
<1>3. QED BY <1>1, <1>2, QueuedEntry

\* The steps of Dequeue.
LEMMA DequeueSettled ==
  ASSUME TypeOK, LocalOK, Tidy, Settled, NEW w \in Worker, DequeueStep(w)
  PROVE  Settled'
<1>1. w \in Proc /\ OthersKeep(w) /\ Settles(pc[w], loc[w], job[id[w]])
  BY OwnMoves DEF Proc, Settled, WorkerStep
<1> USE <1>1
<1>2. CASE DequeuePop(w) /\ queue[scan[w]] = <<>>
  <2>1. UNCHANGED <<job, queue, scheduled, issued, pc, id, loc>>
    BY <1>2 DEF DequeuePop, ghost
  <2>2. QED BY <2>1, QuietSettled
<1>3. CASE DequeuePop(w) /\ queue[scan[w]] # <<>>
  <2>1. PICK q \in Prio : q = scan[w] /\ queue[q] # <<>>
    BY <1>3 DEF TypeOK
  <2>2. /\ queue' = [queue EXCEPT ![q] = Tail(queue[q])] /\ id'[w] = Head(queue[q])
        /\ pc'[w] = "deq_get" /\ UNCHANGED <<job, scheduled, issued>>
    BY <1>3, <2>1 DEF DequeuePop, Keep, Goto, ghost, LocalOK
  <2>3. /\ Head(queue[q]) \in Job /\ Queued(Head(queue[q]))
        /\ \A x : Queued(x)' => Queued(x)
    BY <2>1, <2>2, PopLeaves
  <2>4. job[Head(queue[q])].status \notin Final
    BY <2>3 DEF Settled
  <2>5. Settles("deq_get", loc'[w], job[Head(queue[q])])
    BY <2>4, SettlesHeld DEF CarryPC
  <2>6. QED BY <2>2, <2>3, <2>5, ReadingSettled
<1>4. CASE DequeueGet(w)
  <2>1. UNCHANGED <<job, queue, scheduled, issued>> /\ pc[w] = "deq_get"
    BY <1>4 DEF DequeueGet, redis, ghost
  <2>2. id[w] \in Job /\ job[id[w]].status \notin Final
    BY <2>1, CommandKinds, HeldSettled
  <2>3. [job[id[w]] EXCEPT !.status = "running", !.attempts = @ + 1].status \in Going
    <3>1. PICK r \in Record : r = job[id[w]]
      BY <2>2 DEF TypeOK
    <3>2. [r EXCEPT !.status = "running", !.attempts = @ + 1].status \in Going
      BY StoredStatus
    <3>3. QED BY SMT, <3>1, <3>2
  <2>4. \/ pc'[w] = "idle"
        \/ /\ pc'[w] = "deq_update" /\ id'[w] = id[w]
           /\ loc'[w] = [job[id[w]] EXCEPT !.status = "running", !.attempts = @ + 1]
    BY <1>4 DEF DequeueGet, Keep, Return, Goto, LocalOK
  <2>5. pc'[w] = "deq_update" => Settles(pc'[w], loc'[w], job[id'[w]])
    BY <2>2, <2>3, <2>4, SettlesHeld DEF CarryPC
  <2>6. QED BY <2>1, <2>4, <2>5, SettlesIdle, QuietSettled
<1>5. CASE DequeueUpdate(w)
  <2>1. /\ UNCHANGED <<queue, scheduled, issued>> /\ pc[w] = "deq_update"
        /\ pc'[w] = "got" /\ id'[w] = id[w] /\ Store(id[w], loc[w])
    BY <1>5 DEF DequeueUpdate, Goto, ghost, LocalOK
  <2> USE <2>1
  <2>2. pc[w] \in HeldPC /\ "got" \in CarryPC
    BY DEF HeldPC, CarryPC
  <2>3. id[w] \in Job /\ Owns(w, id[w])
    BY <2>2, HeldSettled
  <2>4. loc[w].status \notin Final
    BY StatusKinds DEF Settles
  <2>5. Settles("got", loc'[w], loc[w])
    BY <2>2, <2>4, SettlesHeld
  <2>6. QED BY <2>3, <2>5, StoringSettled
<1>6. QED BY <1>2, <1>3, <1>4, <1>5 DEF DequeueStep

\* Complete, Fail and requeueJob store the record of the job they hold.
LEMMA UpdateSettled ==
  ASSUME TypeOK, LocalOK, Tidy, Settled, NEW w \in Worker,
         CompleteUpdate(w) \/ FailUpdate(w) \/ RequeueUpdate(w)
  PROVE  Settled'
<1>1. w \in Proc /\ OthersKeep(w) /\ UNCHANGED <<queue, scheduled, issued>> /\ id'[w] = id[w]
  <2>1. w \in Proc /\ OthersKeep(w)
    BY OwnMoves DEF Proc, WorkerStep, OutcomeStep
  <2>2. QED BY <2>1 DEF CompleteUpdate, FailUpdate, RequeueUpdate, Keep, ghost, LocalOK
<1> USE <1>1
<1>2. pc[w] \in HeldPC
  BY DEF CompleteUpdate, FailUpdate, RequeueUpdate, HeldPC, CarryPC
<1>3. id[w] \in Job /\ Owns(w, id[w])
  BY <1>2, HeldSettled
<1> USE <1>3
<1>4. CASE CompleteUpdate(w)
  <2>1. Store(id[w], loc[w]) /\ pc'[w] \in {"drop_unique", "ret"} /\ pc[w] = "complete_update"
    BY <1>4 DEF CompleteUpdate, Goto, LocalOK
  <2> USE <2>1
  <2>2. loc[w].status \in Final
    BY DEF LocalOK, HoldsAt, Final
  <2>3. Settles(pc'[w], loc'[w], loc[w])
    BY <2>2, SettlesIdle, SettlesHeld DEF FinalPC
  <2>4. QED BY <2>3, StoringSettled
<1>5. CASE FailUpdate(w)
  <2>1. /\ Store(id[w], loc[w]) /\ pc[w] = "fail_update"
        /\ pc'[w] = IF loc[w].status = "retrying" THEN "fail_schedule" ELSE "fail_dlq"
    BY <1>5 DEF FailUpdate, Goto, LocalOK
  <2> USE <2>1
  <2>2. loc[w].status \in {"retrying", "dead"}
    BY DEF LocalOK, HoldsAt
  <2>3. Settles(pc'[w], loc'[w], loc[w])
    BY <2>2, SettlesHeld DEF FinalPC, CarryPC, Final
  <2>4. QED BY <2>3, StoringSettled
<1>6. CASE RequeueUpdate(w)
  <2>1. PICK r : r = [loc[w] EXCEPT !.status = "pending", !.attempts = @ - 1]
    OBVIOUS
  <2>2. Store(id[w], r) /\ pc'[w] = "requeue_push"
    BY <1>6, <2>1 DEF RequeueUpdate, Goto, LocalOK
  <2>3. r.status \notin Final
    <3>1. loc[w] \in Record
      BY DEF LocalOK
    <3>2. r.status = "pending"
      BY SMT, <2>1, <3>1, StoredStatus
    <3>3. QED BY <3>2 DEF Final
  <2>4. Settles("requeue_push", loc'[w], r)
    BY <2>3, SettlesHeld DEF CarryPC
  <2>5. QED BY <2>2, <2>4, StoringSettled
<1>7. QED BY <1>4, <1>5, <1>6

\* The steps of a worker.
LEMMA WorkerSettled ==
  ASSUME TypeOK, LocalOK, Tidy, Settled, NEW w \in Worker, WorkerStep(w) \/ DequeueSkips(w)
  PROVE  Settled'
<1>1. w \in Proc /\ OthersKeep(w) /\ w \notin Client /\ Settles(pc[w], loc[w], job[id[w]])
  BY OwnMoves, QueueAssumption DEF Proc, Settled
<1> USE <1>1
<1>2. CASE CompleteGet(w) \/ FailGet(w)
  <2>1. /\ UNCHANGED <<job, queue, scheduled, issued>> /\ pc[w] = "got" /\ id'[w] = id[w]
        /\ pc'[w] \in {"ret", "complete_update", "fail_update"}
    BY <1>2 DEF CompleteGet, FailGet, Keep, Goto, redis, ghost, LocalOK
  <2> USE <2>1
  <2>2. pc[w] \in HeldPC
    BY DEF HeldPC, CarryPC
  <2>3. job[id[w]].status \notin Final
    BY <2>2, HeldSettled
  <2>4. Settles(pc'[w], loc'[w], job[id'[w]])
    BY <2>3, SettlesIdle, SettlesHeld DEF CarryPC
  <2>5. QED BY <2>4, QuietSettled
<1>3. CASE FailDLQ(w)
  <2>1. /\ UNCHANGED <<job, queue, scheduled, issued>> /\ pc[w] = "fail_dlq" /\ id'[w] = id[w]
        /\ pc'[w] \in {"ret", "drop_unique"}
    BY <1>3 DEF FailDLQ, Goto, ghost, LocalOK
  <2> USE <2>1
  <2>2. job[id[w]].status \in Final
    BY DEF Settles, FinalPC
  <2>3. Settles(pc'[w], loc'[w], job[id'[w]])
    BY <2>2, SettlesIdle, SettlesHeld DEF FinalPC
  <2>4. QED BY <2>3, QuietSettled
<1>4. CASE DropUnique(w) \/ WorkerReturn(w) \/ DequeueSkips(w)
  <2>1. UNCHANGED <<job, queue, scheduled, issued>> /\ pc'[w] \in {"ret", "idle"}
    BY <1>4 DEF DropUnique, WorkerReturn, DequeueSkips, Return, Goto, redis, ghost,
       LocalOK
  <2>2. QED BY <2>1, SettlesIdle, QuietSettled
<1>5. CASE FailSchedule(w) \/ RequeuePush(w)
  <2>1. /\ pc[w] \in {"fail_schedule", "requeue_push"} /\ pc'[w] = "ret"
        /\ UNCHANGED <<job, issued>> /\ loc[w] \in Record
    BY <1>5 DEF FailSchedule, RequeuePush, Goto, ghost, LocalOK
  <2> USE <2>1
  <2>2. pc[w] \in HeldPC
    BY DEF HeldPC, CarryPC
  <2>3. \/ (\E r \in Record : Push(id[w], r)) /\ UNCHANGED scheduled
        \/ SetScheduled(id[w], "future") /\ UNCHANGED queue
    BY <1>5 DEF FailSchedule, RequeuePush
  <2>4. QED BY <2>2, <2>3, PutSettled
<1>6. QED BY <1>2, <1>3, <1>4, <1>5, DequeueSettled, UpdateSettled
          DEF WorkerStep, OutcomeStep

\* The steps of a processor.
LEMMA ProcessorSettled ==
  ASSUME TypeOK, LocalOK, Tidy, Settled, NEW p \in Processor,
         ProcessorStep(p) \/ \E j \in Job : ScheduledSkips(p, j)
  PROVE  Settled'
<1>1. p \in Proc /\ OthersKeep(p) /\ StillDue(p) /\ Settles(pc[p], loc[p], job[id[p]])
  BY OwnMoves DEF Proc, Tidy, Settled
<1> USE <1>1
<1>2. ASSUME NEW j \in Job, \/ ScheduledScan(p) \/ ScheduledSkips(p, j)
                            \/ ScheduledGet(p, j) /\ ~Exists(j)
      PROVE  Settled'
  <2>1. UNCHANGED <<job, queue, scheduled, issued>> /\ pc'[p] \in {"idle", "sched_get"}
    BY <1>2 DEF ScheduledScan, ScheduledSkips, ScheduledGet, Advance, Goto, redis,
       ghost, LocalOK
  <2>2. QED BY <2>1, SettlesIdle, QuietSettled
<1>3. ASSUME NEW j \in Job, ScheduledGet(p, j), Exists(j) PROVE Settled'
  <2>1. /\ UNCHANGED <<job, queue, scheduled, issued>> /\ pc'[p] = "sched_remove"
        /\ loc'[p] = [job[j] EXCEPT !.at = "nil", !.status = "pending"]
    BY <1>3 DEF ScheduledGet, Keep, Goto, redis, ghost, LocalOK
  <2>2. loc'[p].status \in Going
    <3>1. job[j] \in Record
      BY DEF TypeOK
    <3>2. loc'[p].status = "pending"
      BY SMT, <2>1, <3>1, StoredStatus
    <3>3. QED BY <3>2 DEF Going
  <2>3. Settles("sched_remove", loc'[p], job[id'[p]])
    BY <2>2, CommandKinds DEF Settles
  <2>4. QED BY <2>1, <2>3, QuietSettled
<1>4. CASE ScheduledRemove(p)
  <2>1. /\ UNCHANGED <<job, queue, issued>> /\ SetScheduled(id[p], "no")
        /\ pc[p] = "sched_remove" /\ pc'[p] = "sched_update" /\ id'[p] = id[p] /\ loc'[p] = loc[p]
    BY <1>4 DEF ScheduledRemove, Goto, ghost, LocalOK
  <2> USE <2>1
  <2>2. id[p] \in Job /\ scheduled[id[p]] = "due"
    BY DEF StillDue, TypeOK
  <2>3. job[id[p]].status \notin Final
    BY <2>2 DEF Settled
  <2>4. loc[p].status \in Going
    BY DEF Settles
  <2>5. Settles("sched_update", loc[p], job[id[p]])
    BY <2>3, <2>4, SettlesHeld DEF CarryPC
  <2>6. \A x \in Job : (scheduled'[x] # "no" => scheduled[x] # "no") /\ (Queued(x)' <=> Queued(x))
    BY DEF SetScheduled, Queued, TypeOK
  <2>7. QED BY <2>5, <2>6, ReadingSettled
<1>5. CASE ScheduledUpdate(p)
  <2>1. /\ UNCHANGED <<queue, scheduled, issued>> /\ Store(id[p], loc[p])
        /\ pc[p] = "sched_update" /\ pc'[p] = "sched_push" /\ id'[p] = id[p]
    BY <1>5 DEF ScheduledUpdate, Goto, ghost, LocalOK
  <2> USE <2>1
  <2>2. pc[p] \in HeldPC
    BY DEF HeldPC, CarryPC
  <2>3. id[p] \in Job /\ Owns(p, id[p])
    BY <2>2, HeldSettled
  <2>4. loc[p].status \notin Final
    BY StatusKinds DEF Settles
  <2>5. Settles("sched_push", loc'[p], loc[p])
    BY <2>4, SettlesHeld DEF CarryPC
  <2>6. QED BY <2>3, <2>5, StoringSettled
<1>6. CASE ScheduledPush(p)
  <2>1. /\ UNCHANGED <<job, scheduled, issued>> /\ Push(id[p], loc[p]) /\ loc[p] \in Record
        /\ pc[p] = "sched_push" /\ pc'[p] \in {"idle", "sched_get"}
    BY <1>6 DEF ScheduledPush, Advance, Goto, ghost, LocalOK
  <2>2. pc[p] \in HeldPC
    BY <2>1 DEF HeldPC, CarryPC
  <2>3. QED BY <2>1, <2>2, PutSettled
<1>7. ASSUME ScheduledScan(p) PROVE Settled'
  <2>1. \E j \in Job : scheduled[j] = "due"
    BY <1>7 DEF ScheduledScan
  <2>2. QED BY <1>2, <1>7, <2>1
<1>8. QED BY <1>2, <1>3, <1>4, <1>5, <1>6, <1>7 DEF ProcessorStep

\* A record's TTL runs out.
LEMMA ExpireSettled ==
  ASSUME TypeOK, LocalOK, Settled, NEW j \in Job, ExpireRecord(j)
  PROVE  Settled'
<1>1. /\ UNCHANGED <<queue, scheduled, issued, pc, id, loc>> /\ \A p \in Proc : id[p] # j
      /\ job'[j].status = "absent" /\ \A x \in Job \ {j} : job'[x] = job[x]
  BY StatusKinds DEF ExpireRecord, Store, local, ghost, TypeOK
<1> USE <1>1
<1>2. ASSUME NEW p \in Proc PROVE Settles(pc[p], loc[p], job'[id[p]])
  <2>1. CASE id[p] \in Job
    BY <2>1 DEF Settled
  <2>2. CASE id[p] \notin Job
    <3>1. pc[p] \in {"idle", "sched_get", "ret"}
      BY <2>2 DEF LocalOK, HoldsAt
    <3>2. QED BY <3>1, SettlesIdle
  <2>3. QED BY <2>1, <2>2
<1>3. \A x \in Job : Queued(x)' <=> Queued(x)
  BY DEF Queued
<1>4. QED BY <1>2, <1>3, StatusKinds DEF Settled

\* Every step, RetryJob, RetryDLQJob and DeleteJob calls aside.
LEMMA SettledStep ==
  ASSUME TypeOK, LocalOK, Tidy, Settled, Next
  PROVE  Settled' \/ calls' = calls + 1
<1>1. ASSUME NEW j \in Job, BecomeDue(j) PROVE Settled'
  <2>1. /\ UNCHANGED <<job, queue, issued, pc, id, loc>>
        /\ \A x \in Job : scheduled'[x] # "no" => scheduled[x] # "no"
    BY <1>1 DEF BecomeDue, SetScheduled, local, ghost, TypeOK
  <2>2. \A x \in Job : Queued(x)' <=> Queued(x)
    BY <2>1 DEF Queued
  <2>3. QED BY <2>1, <2>2 DEF Settled
<1>2. ASSUME NEW k \in Key, ExpireUnique(k) PROVE Settled'
  <2>1. UNCHANGED <<job, queue, scheduled, issued, pc, id, loc>>
    BY <1>2 DEF ExpireUnique, local
  <2>2. \A x \in Job : Queued(x)' <=> Queued(x)
    BY <2>1 DEF Queued
  <2>3. QED BY <2>1, <2>2 DEF Settled
<1>3. ASSUME NEW p \in Proc, Abort(p) PROVE Settled'
  <2>1. OthersKeep(p) /\ UNCHANGED <<job, queue, scheduled, issued>> /\ pc'[p] = "idle"
    BY <1>3, OwnMoves DEF Abort, Return, Goto, redis, LocalOK
  <2>2. QED BY <2>1, SettlesIdle, QuietSettled
<1>4. QED BY <1>1, <1>2, <1>3, ClientSettled, WorkerSettled, ProcessorSettled,
          ExpireSettled DEF Next

\* At the start no job has a record.
LEMMA SettledStarts ==
  ASSUME Init
  PROVE  Settled
<1>1. /\ \A p \in Proc : pc[p] = "idle"
      /\ \A j \in Job : job[j].status = "absent"
  BY SMT DEF Init, Absent
<1>2. QED BY <1>1, SettlesIdle, StatusKinds DEF Settled

\* The places of the journey, one by one.
Found(j) ==
  /\ j \notin issued => PlaceOf(j) = "new"
  /\ Queued(j) => PlaceOf(j) = "queued"
  /\ scheduled[j] # "no" => PlaceOf(j) = "delayed"
  /\ Held(j) => PlaceOf(j) = "held"
  /\ j \in issued /\ ~Queued(j) /\ scheduled[j] = "no" /\ ~Held(j) =>
       PlaceOf(j) = IF Unfinished(j) THEN "lost" ELSE "over"
AllFound == \A j \in Job : Found(j)

\* A job has one place, and PlaceOf is that place.
LEMMA PlacesFound == Tidy /\ Settled => AllFound
<1> SUFFICES ASSUME Tidy, Settled, NEW j \in Job PROVE Found(j)
  BY DEF AllFound
<1>1. Held(j) => Owned(j) /\ job[j].status \notin Final
  <2> SUFFICES ASSUME NEW p \in Proc, id[p] = j, pc[p] \in HeldPC
               PROVE  Owned(j) /\ job[j].status \notin Final
    BY DEF Held
  <2>1. Owns(p, j)
    BY CommandKinds DEF Owns
  <2>2. QED BY <2>1 DEF Owned, Settled, Settles
<1>2. Queued(j) \/ scheduled[j] # "no" => job[j].status \notin Final
  BY DEF Settled
<1>3. Unfinished(j) => job[j].status \notin Final
  BY StatusKinds
<1>4. QED BY <1>1, <1>2, <1>3 DEF Found, PlaceOf, Tidy, InOnePlace, Apart

\* One job moves, the others stay.
Moved(j, from, to) ==
  PlaceOf(j) \in from /\ PlaceOf(j)' = to /\ \A i \in Job \ {j} : PlaceOf(i)' = PlaceOf(i)

\* The same, said of the journey.
LEMMA MovesJourney ==
  ASSUME NEW j \in Job, NEW from, NEW to, Moved(j, from, to)
  PROVE  Journey!Moves(j, from, to)
<1>1. Where[j] = PlaceOf(j) /\ Where'[j] = PlaceOf(j)'
  BY DEF Where
<1>2. \A i \in Job \ {j} : Where[i] = PlaceOf(i) /\ Where'[i] = PlaceOf(i)'
  BY DEF Where
<1>3. QED BY <1>1, <1>2 DEF Moved, Journey!Moves

\* The job i is where it was.
LEMMA StaysIn ==
  ASSUME NEW i, job'[i] = job[i], Queued(i)' <=> Queued(i), i \in issued' <=> i \in issued,
         scheduled'[i] = "no" <=> scheduled[i] = "no", Held(i)' <=> Held(i)
  PROVE  PlaceOf(i)' = PlaceOf(i)
BY DEF PlaceOf, Unfinished

\* A caller p that has j in its hands, before a step or after it, or nothing.
AtMost(p, j) == (pc[p] \in HeldPC => id[p] = j) /\ (pc'[p] \in HeldPC => id'[p] = j)

\* In a step of p with j the other jobs stay where they are.
LEMMA OthersStay ==
  ASSUME NEW p \in Proc, OthersKeep(p), NEW j \in Job, AtMost(p, j),
         \A i \in Job \ {j} : /\ job'[i] = job[i] /\ (Queued(i)' <=> Queued(i))
                              /\ i \in issued' <=> i \in issued
                              /\ scheduled'[i] = "no" <=> scheduled[i] = "no"
  PROVE  \A i \in Job \ {j} : PlaceOf(i)' = PlaceOf(i)
<1> SUFFICES ASSUME NEW i \in Job \ {j} PROVE PlaceOf(i)' = PlaceOf(i)
  BY SMT
<1>1. ASSUME NEW q \in Proc
      PROVE  (id'[q] = i /\ pc'[q] \in HeldPC) <=> (id[q] = i /\ pc[q] \in HeldPC)
  <2>1. CASE q = p
    BY <2>1 DEF AtMost
  <2>2. CASE q # p
    BY <2>2 DEF OthersKeep
  <2>3. QED BY <2>1, <2>2
<1>2. Held(i)' <=> Held(i)
  BY <1>1 DEF Held
<1>3. QED BY <1>2, StaysIn

\* p keeps what it has in its hands, and no place changes.
LEMMA QuietStays ==
  ASSUME NEW p \in Proc, OthersKeep(p), UNCHANGED <<job, queue, issued>>,
         \A i \in Job : scheduled'[i] = "no" <=> scheduled[i] = "no",
         pc[p] \in HeldPC <=> pc'[p] \in HeldPC, pc[p] \in HeldPC => id'[p] = id[p]
  PROVE  UNCHANGED Where
<1>1. \A q \in Proc : \A i : (id'[q] = i /\ pc'[q] \in HeldPC) <=> (id[q] = i /\ pc[q] \in HeldPC)
  BY DEF OthersKeep
<1>2. ASSUME NEW i \in Job PROVE PlaceOf(i)' = PlaceOf(i)
  <2>1. (Held(i)' <=> Held(i)) /\ (Queued(i)' <=> Queued(i))
    BY <1>1 DEF Held, Queued
  <2>2. QED BY <2>1, StaysIn
<1>3. QED BY <1>2 DEF Where

\* p stores the record of the job in its hands, or leaves it: either p keeps the
\* job, or lets go of it.
LEMMA StoreMoves ==
  ASSUME TypeOK, LocalOK, Tidy, Settled, AllFound, AllFound',
         NEW p \in Proc, OthersKeep(p), NEW j \in Job, id[p] = j, pc[p] \in HeldPC,
         pc'[p] \in HeldPC => id'[p] = j,
         UNCHANGED job \/ \E r : Store(j, r), UNCHANGED <<queue, scheduled, issued>>
  PROVE  /\ pc'[p] \in HeldPC => UNCHANGED Where
         /\ pc'[p] \notin HeldPC =>
              Moved(j, {"held"}, IF job'[j].status \in Going THEN "lost" ELSE "over")
<1>1. j \in issued /\ ~Queued(j) /\ scheduled[j] = "no" /\ Owns(p, j)
  BY HeldSettled
<1> USE <1>1
<1>2. \A i \in Job \ {j} : job'[i] = job[i]
  BY DEF Store, TypeOK
<1>3. \A i : Queued(i)' <=> Queued(i)
  BY DEF Queued
<1>4. \A i \in Job \ {j} : PlaceOf(i)' = PlaceOf(i)
  BY <1>2, <1>3, OthersStay DEF AtMost
<1>5. PlaceOf(j) = "held"
  BY DEF AllFound, Found, Held
<1>6. ASSUME pc'[p] \in HeldPC PROVE UNCHANGED Where
  <2>1. PlaceOf(j)' = "held"
    BY <1>6 DEF AllFound, Found, Held
  <2>2. \A i \in Job : PlaceOf(i)' = PlaceOf(i)
    BY <1>4, <1>5, <2>1
  <2>3. QED BY <2>2 DEF Where
<1>7. ASSUME pc'[p] \notin HeldPC
      PROVE  Moved(j, {"held"}, IF job'[j].status \in Going THEN "lost" ELSE "over")
  <2>1. ASSUME NEW q \in Proc, q # p, id[q] = j PROVE pc[q] \notin HeldPC
    BY <2>1, CommandKinds DEF Tidy, InOnePlace, OneOwner, Owns
  <2>2. ~Held(j)'
    BY <1>7, <2>1 DEF Held, OthersKeep
  <2>3. PlaceOf(j)' = IF job'[j].status \in Going THEN "lost" ELSE "over"
    BY <1>3, <2>2 DEF AllFound, Found, Unfinished, Going
  <2>4. QED BY <1>4, <1>5, <2>3 DEF Moved
<1>8. QED BY <1>6, <1>7

\* p puts the job in its hands into a queue or into the scheduled set.
LEMMA PutMoves ==
  ASSUME TypeOK, LocalOK, Tidy, Settled, AllFound, AllFound',
         NEW p \in Proc, OthersKeep(p), NEW j \in Job, id[p] = j, pc[p] \in HeldPC,
         pc'[p] \notin HeldPC, UNCHANGED <<job, issued>>,
         \/ (\E r \in Record : Push(j, r)) /\ UNCHANGED scheduled
         \/ SetScheduled(j, "future") /\ UNCHANGED queue
  PROVE  Moved(j, {"held"}, "queued") \/ Moved(j, {"held"}, "delayed")
<1>1. PlaceOf(j) = "held" /\ AtMost(p, j)
  BY DEF AllFound, Found, Held, AtMost
<1> USE <1>1
<1>2. CASE (\E r \in Record : Push(j, r)) /\ UNCHANGED scheduled
  <2> USE <1>2
  <2>1. PICK q, n : \A m, i, x : Entry(queue', m, i, x) =>
                      Entry(queue, m, i, x) \/ (m = q /\ i = n /\ x = j)
    BY PushEntries
  <2>2. Queued(j)' /\ \A x : Queued(x) => Queued(x)'
    BY PushTyped
  <2>3. ASSUME NEW x \in Job \ {j}, Queued(x)' PROVE Queued(x)
    <3>1. PICK m, i : Entry(queue', m, i, x)
      BY <2>3 DEF Queued, InList, Entry
    <3>2. Entry(queue, m, i, x)
      BY <2>1, <3>1
    <3>3. QED BY <3>2, QueuedEntry
  <2>4. \A i \in Job \ {j} : PlaceOf(i)' = PlaceOf(i)
    BY <2>2, <2>3, OthersStay
  <2>5. PlaceOf(j)' = "queued"
    BY <2>2 DEF AllFound, Found
  <2>6. QED BY <2>4, <2>5 DEF Moved
<1>3. CASE SetScheduled(j, "future") /\ UNCHANGED queue
  <2>1. scheduled'[j] = "future" /\ \A x \in Job \ {j} : scheduled'[x] = scheduled[x]
    BY <1>3 DEF SetScheduled, TypeOK
  <2>2. \A x : Queued(x)' <=> Queued(x)
    BY <1>3 DEF Queued
  <2>3. \A i \in Job \ {j} : PlaceOf(i)' = PlaceOf(i)
    BY <2>1, <2>2, OthersStay
  <2>4. PlaceOf(j)' = "delayed"
    BY <2>1 DEF AllFound, Found
  <2>5. QED BY <2>3, <2>4 DEF Moved
<1>4. QED BY <1>2, <1>3

\* Dequeue takes the first ID of a list that is not empty.
LEMMA PopMoves ==
  ASSUME TypeOK, LocalOK, AllFound, AllFound', NEW w \in Worker, DequeuePop(w),
         queue[scan[w]] # <<>>
  PROVE  \E j \in Job : Moved(j, {"queued"}, "held")
<1>1. w \in Proc /\ OthersKeep(w) /\ pc[w] = "idle"
  BY OwnMoves DEF Proc, WorkerStep, DequeueStep, DequeuePop
<1> USE <1>1
<1>2. PICK q \in Prio : q = scan[w] /\ queue[q] # <<>>
  BY DEF TypeOK
<1> USE <1>2
<1>3. PICK j : j = Head(queue[q])
  OBVIOUS
<1> USE <1>3
<1>4. /\ queue' = [queue EXCEPT ![q] = Tail(queue[q])] /\ id'[w] = j
      /\ pc'[w] = "deq_get" /\ UNCHANGED <<job, scheduled, issued>>
  BY DEF DequeuePop, Keep, Goto, ghost, LocalOK
<1> USE <1>4
<1>5. j \in Job /\ Queued(j) /\ \A x : Queued(x)' => Queued(x)
  BY PopLeaves
<1> USE <1>5
<1>6. ASSUME NEW x \in Job \ {j}, Queued(x) PROVE Queued(x)'
  <2>1. PICK m \in Prio : InList(queue[m], x)
    BY <1>6 DEF Queued
  <2>2. queue[q] \in Seq(Job) /\ queue'[q] = Tail(queue[q])
    BY DEF TypeOK
  <2>3. InList(queue[q], x) => InList(queue'[q], x)
    BY <2>2, PopKeeps
  <2>4. m # q => queue'[m] = queue[m]
    BY DEF TypeOK
  <2>5. QED BY <2>1, <2>3, <2>4 DEF Queued
<1>7. AtMost(w, j)
  BY CommandKinds DEF AtMost
<1>8. \A i \in Job \ {j} : PlaceOf(i)' = PlaceOf(i)
  BY <1>6, <1>7, OthersStay
<1>9. Held(j)'
  BY CommandKinds DEF Held
<1>10. PlaceOf(j) = "queued" /\ PlaceOf(j)' = "held"
  BY <1>9 DEF AllFound, Found
<1>11. QED BY <1>8, <1>10 DEF Moved

\* A step of the journey, or one that the journey does not see.
Goes == Journey!JourneyNext \/ UNCHANGED <<Where, faults, calls>>

\* The moves that the journey knows.
LEMMA MoveGoes ==
  ASSUME UNCHANGED <<faults, calls>>, NEW j \in Job,
         \/ Moved(j, {"new"}, "held") \/ Moved(j, {"queued"}, "held")
         \/ Moved(j, {"delayed"}, "held") \/ Moved(j, {"held"}, "queued")
         \/ Moved(j, {"held"}, "delayed") \/ Moved(j, {"held"}, "over")
         \/ Moved(j, {"lost"}, "over")
  PROVE  Goes
<1>1. \/ Moved(j, {"new"}, "held") \/ Moved(j, {"queued", "delayed"}, "held")
      \/ Moved(j, {"held"}, "queued") \/ Moved(j, {"held"}, "delayed")
      \/ Moved(j, {"held"}, "over") \/ Moved(j, {"lost"}, "over")
  BY DEF Moved
<1>2. \/ Journey!Submitted(j) \/ Journey!Taken(j) \/ Journey!Put(j)
      \/ Journey!Ended(j) \/ Journey!Forgotten(j)
  BY <1>1, MovesJourney
     DEF Journey!Submitted, Journey!Taken, Journey!Put, Journey!Ended, Journey!Forgotten
<1>3. UNCHANGED <<faults, calls > 0>>
  OBVIOUS
<1>4. QED BY <1>2, <1>3 DEF Goes, Journey!JourneyNext, Journey!Regular

\* An operation is cut short.
LEMMA CutGoes ==
  ASSUME faults' = faults + 1, UNCHANGED calls,
         \/ UNCHANGED Where
         \/ \E j \in Job : Moved(j, {"held"}, "lost") \/ Moved(j, {"held"}, "over")
  PROVE  Goes
<1>1. \/ UNCHANGED Where
      \/ \E j \in Job : Journey!Moves(j, {"held"}, "lost") \/ Journey!Ended(j)
  BY MovesJourney DEF Journey!Ended
<1>2. UNCHANGED (calls > 0)
  OBVIOUS
<1>3. QED BY <1>1, <1>2 DEF Goes, Journey!JourneyNext, Journey!CutShort

\* The invariants the journey rests on, before the step and after it.
Whole == TypeOK /\ LocalOK /\ Tidy /\ Settled /\ AllFound

\* p goes on with the job in its hands, or lets go of it.
LEMMA HolderGoes ==
  ASSUME Whole, AllFound', NEW p \in Proc, OthersKeep(p), pc[p] \in HeldPC,
         pc'[p] \in HeldPC => id'[p] = id[p],
         UNCHANGED job \/ \E r : Store(id[p], r), UNCHANGED <<queue, scheduled, issued, calls>>,
         \/ UNCHANGED faults /\ (pc'[p] \in HeldPC \/ job'[id[p]].status \notin Going)
         \/ faults' = faults + 1
  PROVE  Goes
<1>1. PICK j \in Job : id[p] = j
  BY HeldSettled DEF Whole
<1>2. /\ pc'[p] \in HeldPC => UNCHANGED Where
      /\ pc'[p] \notin HeldPC =>
           Moved(j, {"held"}, IF job'[j].status \in Going THEN "lost" ELSE "over")
  BY <1>1, StoreMoves DEF Whole
<1>3. CASE pc'[p] \in HeldPC
  BY <1>2, <1>3, CutGoes DEF Goes
<1>4. CASE pc'[p] \notin HeldPC
  <2>1. \/ Moved(j, {"held"}, "over")
        \/ Moved(j, {"held"}, "lost") /\ job'[j].status \in Going
    BY <1>2, <1>4
  <2>2. QED BY <1>1, <1>4, <2>1, MoveGoes, CutGoes
<1>5. QED BY <1>3, <1>4

\* p puts the job in its hands into a place.
LEMMA PutGoes ==
  ASSUME Whole, AllFound', NEW p \in Proc, OthersKeep(p), pc[p] \in HeldPC,
         pc'[p] \notin HeldPC, UNCHANGED <<job, issued, faults, calls>>,
         \/ (\E r \in Record : Push(id[p], r)) /\ UNCHANGED scheduled
         \/ SetScheduled(id[p], "future") /\ UNCHANGED queue
  PROVE  Goes
<1>1. PICK j \in Job : id[p] = j
  BY HeldSettled DEF Whole
<1>2. Moved(j, {"held"}, "queued") \/ Moved(j, {"held"}, "delayed")
  BY <1>1, PutMoves DEF Whole
<1>3. QED BY <1>2, MoveGoes

\* The steps of a client.
LEMMA ClientGoes ==
  ASSUME Whole, AllFound', UNCHANGED calls, calls # calls + 1,
         NEW c \in Client, ClientStep(c) \/ DeleteFails(c)
  PROVE  Goes
<1>1. c \in Proc /\ OthersKeep(c) /\ EnqueuesOnly(c) /\ Settles(pc[c], loc[c], job[id[c]])
  BY OwnMoves DEF Proc, Whole, Tidy, Settled
<1> USE <1>1
<1>2. ASSUME NEW j \in Job, NEW s \in Submission, EnqueueCall(c, j, s) PROVE Goes
  <2>1. /\ pc[c] = "idle" /\ pc'[c] = "enq_check" /\ id'[c] = j /\ j \notin issued
        /\ issued' = issued \cup {j} /\ UNCHANGED <<job, queue, scheduled, faults>>
    BY <1>2 DEF EnqueueCall, Goto, Keep, redis, Whole, LocalOK
  <2> USE <2>1
  <2>2. AtMost(c, j) /\ Held(j)'
    BY CommandKinds DEF AtMost, Held, EnqueuePC
  <2>3. \A x : Queued(x)' <=> Queued(x)
    BY DEF Queued
  <2>4. \A i \in Job \ {j} : PlaceOf(i)' = PlaceOf(i)
    BY <2>2, <2>3, OthersStay
  <2>5. PlaceOf(j) = "new" /\ PlaceOf(j)' = "held"
    BY <2>2 DEF Whole, AllFound, Found
  <2>6. QED BY <2>4, <2>5, MoveGoes DEF Moved
<1>3. CASE EnqueueCheck(c)
  <2>1. /\ UNCHANGED <<job, queue, scheduled, issued, faults>> /\ pc[c] = "enq_check"
        /\ pc'[c] = "idle" \/ (pc'[c] = "enq_store" /\ id'[c] = id[c])
    BY <1>3 DEF EnqueueCheck, Return, Goto, redis, ghost, Whole, LocalOK
  <2> USE <2>1
  <2>2. pc[c] \in HeldPC /\ "idle" \notin HeldPC
    BY DEF HeldPC, CarryPC
  <2>3. job[id[c]].status \notin Going
    BY StatusKinds DEF Settles, EnqueuePC
  <2>4. QED BY <2>2, <2>3, HolderGoes
<1>4. CASE EnqueueStore(c)
  <2>1. /\ UNCHANGED <<queue, scheduled, issued, faults>> /\ pc[c] = "enq_store"
        /\ pc'[c] = "enq_push" /\ id'[c] = id[c] /\ Store(id[c], loc[c])
    BY <1>4 DEF EnqueueStore, Goto, ghost, Whole, LocalOK
  <2>2. pc[c] \in HeldPC /\ pc'[c] \in HeldPC
    BY <2>1 DEF HeldPC, CarryPC
  <2>3. QED BY <2>1, <2>2, HolderGoes
<1>5. CASE EnqueuePush(c)
  <2>1. /\ pc[c] = "enq_push" /\ UNCHANGED <<job, issued, faults>> /\ loc[c] \in Record
        /\ pc'[c] = "enq_unique" \/ pc'[c] = "idle"
    BY <1>5 DEF EnqueuePush, Return, Goto, ghost, Whole, LocalOK
  <2> USE <2>1
  <2>2. pc[c] \in HeldPC /\ pc'[c] \notin HeldPC
    BY DEF HeldPC, CarryPC
  <2>3. \/ (\E r \in Record : Push(id[c], r)) /\ UNCHANGED scheduled
        \/ SetScheduled(id[c], "future") /\ UNCHANGED queue
    BY <1>5 DEF EnqueuePush
  <2>4. QED BY <2>2, <2>3, PutGoes
<1>6. CASE EnqueueUnique(c)
  <2>1. /\ UNCHANGED <<job, queue, scheduled, issued, faults>>
        /\ pc[c] = "enq_unique" /\ pc'[c] = "idle"
    BY <1>6 DEF EnqueueUnique, Return, Goto, ghost, Whole, LocalOK
  <2>2. UNCHANGED Where
    BY <2>1, CommandKinds, QuietStays
  <2>3. QED BY <2>1, <2>2 DEF Goes
<1>7. ~\E j \in Job : RetryJob(c, j) \/ RetryDLQGet(c, j) \/ DeleteCall(c, j)
  BY DEF RetryJob, RetryDLQGet, DeleteCall
<1>8. QED BY <1>2, <1>3, <1>4, <1>5, <1>6, <1>7, EnqueueOnlySteps

\* The steps of a worker.
LEMMA WorkerGoes ==
  ASSUME Whole, AllFound', UNCHANGED calls, NEW w \in Worker, WorkerStep(w) \/ DequeueSkips(w)
  PROVE  Goes
<1>1. w \in Proc /\ OthersKeep(w) /\ w \notin Client
  BY OwnMoves, QueueAssumption DEF Proc, Whole
<1> USE <1>1
<1>2. CASE DequeuePop(w)
  <2> USE <1>2
  <2>1. UNCHANGED faults /\ TypeOK /\ LocalOK /\ AllFound
    BY DEF DequeuePop, ghost, Whole
  <2>2. CASE queue[scan[w]] = <<>>
    <3>1. UNCHANGED <<job, queue, scheduled, issued, pc, id>>
      BY <2>2 DEF DequeuePop, ghost
    <3>2. UNCHANGED Where
      BY <3>1, QuietStays
    <3>3. QED BY <2>1, <3>2 DEF Goes
  <2>3. CASE queue[scan[w]] # <<>>
    BY <2>1, <2>3, PopMoves, MoveGoes
  <2>4. QED BY <2>2, <2>3
<1>3. CASE DequeueGet(w) \/ CompleteGet(w) \/ FailGet(w) \/ DequeueSkips(w)
  <2>1. /\ pc[w] \in {"deq_get", "got"} /\ UNCHANGED <<job, queue, scheduled, issued>>
        /\ faults' = faults + 1 \/ UNCHANGED faults
    BY <1>3 DEF DequeueGet, CompleteGet, FailGet, DequeueSkips, redis, ghost
  <2>2. \/ pc'[w] \in {"deq_update", "complete_update", "fail_update"} /\ id'[w] = id[w]
        \/ pc'[w] \in {"idle", "ret"} /\ (~Exists(id[w]) \/ faults' = faults + 1)
    BY <1>3 DEF DequeueGet, CompleteGet, FailGet, DequeueSkips, Keep, Return, Goto,
       Whole, LocalOK
  <2>3. /\ pc[w] \in HeldPC /\ {"deq_update", "complete_update", "fail_update"} \subseteq HeldPC
        /\ "idle" \notin HeldPC /\ "ret" \notin HeldPC
    BY <2>1 DEF HeldPC, CarryPC
  <2>4. ~Exists(id[w]) => job[id[w]].status \notin Going
    BY StatusKinds DEF Exists
  <2>5. QED BY <2>1, <2>2, <2>3, <2>4, HolderGoes
<1>4. CASE DequeueUpdate(w) \/ CompleteUpdate(w) \/ FailUpdate(w) \/ RequeueUpdate(w)
  <2>1. /\ pc[w] \in {"deq_update", "complete_update", "fail_update", "got"} /\ id'[w] = id[w]
        /\ UNCHANGED <<queue, scheduled, issued, faults>> /\ \E r : Store(id[w], r)
    BY <1>4 DEF DequeueUpdate, CompleteUpdate, FailUpdate, RequeueUpdate, Keep,
       ghost, Whole, LocalOK
  <2> USE <2>1
  <2>2. pc[w] \in HeldPC
    BY DEF HeldPC, CarryPC
  <2> USE <2>2
  <2>3. CASE DequeueUpdate(w) \/ RequeueUpdate(w)
    <3>1. pc'[w] \in {"got", "requeue_push"}
      BY <2>3 DEF DequeueUpdate, RequeueUpdate, Goto, Whole, LocalOK
    <3>2. pc'[w] \in HeldPC
      BY <3>1 DEF HeldPC, CarryPC
    <3>3. QED BY <3>2, HolderGoes
  <2>4. CASE CompleteUpdate(w) \/ FailUpdate(w)
    <3>1. id[w] \in Job
      BY HeldSettled DEF Whole
    <3>2. job'[id[w]] = loc[w]
      BY <2>4, <3>1 DEF CompleteUpdate, FailUpdate, Store, Whole, TypeOK
    <3>3. pc'[w] = "fail_schedule" \/ loc[w].status \in Final
      BY <2>4
         DEF CompleteUpdate, FailUpdate, Goto, Whole, LocalOK, HoldsAt, Final
    <3>4. pc'[w] \in HeldPC \/ job'[id[w]].status \notin Going
      BY <3>2, <3>3, StatusKinds DEF HeldPC, CarryPC
    <3>5. QED BY <3>4, HolderGoes
  <2>5. QED BY <1>4, <2>3, <2>4
<1>5. CASE FailSchedule(w) \/ RequeuePush(w)
  <2>1. /\ pc[w] \in {"fail_schedule", "requeue_push"} /\ pc'[w] = "ret"
        /\ UNCHANGED <<job, issued, faults>> /\ loc[w] \in Record
    BY <1>5 DEF FailSchedule, RequeuePush, Goto, ghost, Whole, LocalOK
  <2> USE <2>1
  <2>2. pc[w] \in HeldPC /\ pc'[w] \notin HeldPC
    BY DEF HeldPC, CarryPC
  <2>3. \/ (\E r \in Record : Push(id[w], r)) /\ UNCHANGED scheduled
        \/ SetScheduled(id[w], "future") /\ UNCHANGED queue
    BY <1>5 DEF FailSchedule, RequeuePush
  <2>4. QED BY <2>2, <2>3, PutGoes
<1>6. CASE FailDLQ(w) \/ DropUnique(w) \/ WorkerReturn(w)
  <2>1. /\ UNCHANGED <<job, queue, scheduled, issued, faults>>
        /\ pc[w] \in {"fail_dlq", "drop_unique", "ret"}
        /\ pc'[w] \in {"drop_unique", "ret", "idle"}
    BY <1>6 DEF FailDLQ, DropUnique, WorkerReturn, Return, Goto, redis, ghost,
       Whole, LocalOK
  <2> USE <2>1
  <2>2. pc[w] \notin HeldPC /\ pc'[w] \notin HeldPC
    BY DEF HeldPC, CarryPC
  <2>3. UNCHANGED Where
    BY <2>2, QuietStays
  <2>4. QED BY <2>3 DEF Goes
<1>7. QED BY <1>2, <1>3, <1>4, <1>5, <1>6 DEF WorkerStep, DequeueStep, OutcomeStep

\* The steps of a processor.
LEMMA ProcessorGoes ==
  ASSUME Whole, AllFound', UNCHANGED calls, NEW p \in Processor,
         ProcessorStep(p) \/ \E j \in Job : ScheduledSkips(p, j)
  PROVE  Goes
<1>1. p \in Proc /\ OthersKeep(p) /\ StillDue(p)
  BY OwnMoves DEF Proc, Whole, Tidy
<1> USE <1>1
<1>2. ASSUME NEW j \in Job, ScheduledScan(p) \/ ScheduledGet(p, j) PROVE Goes
  <2>1. /\ UNCHANGED <<job, queue, scheduled, issued, faults>> /\ pc[p] \in {"idle", "sched_get"}
        /\ pc'[p] \in {"idle", "sched_get", "sched_remove"}
    BY <1>2 DEF ScheduledScan, ScheduledGet, Advance, Goto, redis, ghost, Whole,
       LocalOK
  <2>2. UNCHANGED Where
    BY <2>1, CommandKinds, QuietStays
  <2>3. QED BY <2>1, <2>2 DEF Goes
<1>3. ASSUME NEW j \in Job, ScheduledSkips(p, j) PROVE Goes
  <2>1. /\ UNCHANGED <<job, queue, scheduled, issued>> /\ faults' = faults + 1
        /\ pc'[p] \in {"idle", "sched_get"}
    BY <1>3 DEF ScheduledSkips, Advance, Goto, redis, Whole, LocalOK
  <2> USE <2>1
  <2>2. pc'[p] \notin HeldPC
    BY CommandKinds
  <2>3. CASE pc[p] \in HeldPC
    BY <2>2, <2>3, HolderGoes
  <2>4. CASE pc[p] \notin HeldPC
    BY <2>2, <2>4, QuietStays, CutGoes
  <2>5. QED BY <2>3, <2>4
<1>4. CASE ScheduledRemove(p)
  <2>1. /\ UNCHANGED <<job, queue, issued, faults>> /\ SetScheduled(id[p], "no")
        /\ pc[p] = "sched_remove" /\ pc'[p] = "sched_update" /\ id'[p] = id[p]
    BY <1>4 DEF ScheduledRemove, Goto, ghost, Whole, LocalOK
  <2> USE <2>1
  <2>2. PICK j \in Job : j = id[p] /\ scheduled[j] = "due"
    BY DEF StillDue, Whole, TypeOK
  <2> USE <2>2
  <2>3. scheduled'[j] = "no" /\ \A x \in Job \ {j} : scheduled'[x] = scheduled[x]
    BY DEF SetScheduled, Whole, TypeOK
  <2>4. pc[p] \notin HeldPC /\ pc'[p] \in HeldPC
    BY DEF HeldPC, CarryPC
  <2>5. AtMost(p, j) /\ Held(j)'
    BY <2>4 DEF AtMost, Held
  <2>6. \A x : Queued(x)' <=> Queued(x)
    BY DEF Queued
  <2>7. \A i \in Job \ {j} : PlaceOf(i)' = PlaceOf(i)
    BY <2>3, <2>5, <2>6, OthersStay
  <2>8. PlaceOf(j) = "delayed" /\ PlaceOf(j)' = "held"
    BY <2>5 DEF Whole, AllFound, Found
  <2>9. QED BY <2>7, <2>8, MoveGoes DEF Moved
<1>5. CASE ScheduledUpdate(p)
  <2>1. /\ UNCHANGED <<queue, scheduled, issued, faults>> /\ Store(id[p], loc[p])
        /\ pc[p] = "sched_update" /\ pc'[p] = "sched_push" /\ id'[p] = id[p]
    BY <1>5 DEF ScheduledUpdate, Goto, ghost, Whole, LocalOK
  <2>2. pc[p] \in HeldPC /\ pc'[p] \in HeldPC
    BY <2>1 DEF HeldPC, CarryPC
  <2>3. QED BY <2>1, <2>2, HolderGoes
<1>6. CASE ScheduledPush(p)
  <2>1. /\ UNCHANGED <<job, scheduled, issued, faults>> /\ Push(id[p], loc[p]) /\ loc[p] \in Record
        /\ pc[p] = "sched_push" /\ pc'[p] \in {"idle", "sched_get"}
    BY <1>6 DEF ScheduledPush, Advance, Goto, ghost, Whole, LocalOK
  <2>2. pc[p] \in HeldPC /\ pc'[p] \notin HeldPC
    BY <2>1 DEF HeldPC, CarryPC
  <2>3. QED BY <2>1, <2>2, PutGoes
<1>7. ASSUME ScheduledScan(p) PROVE Goes
  <2>1. \E j \in Job : scheduled[j] = "due"
    BY <1>7 DEF ScheduledScan
  <2>2. QED BY <1>2, <1>7, <2>1
<1>8. QED BY <1>2, <1>3, <1>4, <1>5, <1>6, <1>7 DEF ProcessorStep

\* The steps of no caller, and callers that give up.
LEMMA OtherGoes ==
  ASSUME Whole, AllFound', UNCHANGED calls,
         \/ \E j \in Job : BecomeDue(j) \/ ExpireRecord(j)
         \/ \E k \in Key : ExpireUnique(k)
         \/ \E p \in Proc : Abort(p)
  PROVE  Goes
<1>1. ASSUME NEW j \in Job, BecomeDue(j) \/ \E k \in Key : ExpireUnique(k) PROVE Goes
  <2>1. /\ UNCHANGED <<job, queue, issued, pc, id, faults>>
        /\ \A i \in Job : scheduled'[i] = "no" <=> scheduled[i] = "no"
    BY <1>1 DEF BecomeDue, ExpireUnique, SetScheduled, local, ghost, Whole, TypeOK
  <2> USE <2>1
  <2>2. \A i : (Held(i)' <=> Held(i)) /\ (Queued(i)' <=> Queued(i))
    BY DEF Held, Queued
  <2>3. \A i \in Job : PlaceOf(i)' = PlaceOf(i)
    BY <2>2, StaysIn
  <2>4. QED BY <2>3 DEF Goes, Where
<1>2. ASSUME NEW k \in Key, ExpireUnique(k) PROVE Goes
  <2>1. CASE Job = {}
    <3>1. UNCHANGED <<Where, faults>>
      BY <1>2, <2>1 DEF ExpireUnique, Where
    <3>2. QED BY <3>1 DEF Goes
  <2>2. QED BY <1>1, <1>2, <2>1
<1>3. ASSUME NEW j \in Job, ExpireRecord(j) PROVE Goes
  <2>1. /\ UNCHANGED <<queue, scheduled, issued, pc, id, faults>> /\ \A p \in Proc : id[p] # j
        /\ job'[j].status = "absent" /\ job[j].status # "absent"
        /\ \A x \in Job \ {j} : job'[x] = job[x]
    BY <1>3, StatusKinds DEF ExpireRecord, Exists, Store, local, ghost, Whole, TypeOK
  <2> USE <2>1
  <2>2. \A i : (Held(i)' <=> Held(i)) /\ (Queued(i)' <=> Queued(i))
    BY DEF Held, Queued
  <2>3. \A i \in Job \ {j} : PlaceOf(i)' = PlaceOf(i)
    BY <2>2, StaysIn
  <2>4. ~Held(j) /\ j \in issued /\ ~Unfinished(j)'
    BY DEF Held, Whole, Settled, Unfinished
  <2>5. PlaceOf(j)' = PlaceOf(j) \/ (PlaceOf(j) = "lost" /\ PlaceOf(j)' = "over")
    BY <2>2, <2>4 DEF Whole, AllFound, Found
  <2>6. CASE PlaceOf(j)' = PlaceOf(j)
    BY <2>3, <2>6 DEF Goes, Where
  <2>7. CASE PlaceOf(j) = "lost" /\ PlaceOf(j)' = "over"
    BY <2>3, <2>7, MoveGoes DEF Moved
  <2>8. QED BY <2>5, <2>6, <2>7
<1>4. ASSUME NEW p \in Proc, Abort(p) PROVE Goes
  <2>1. /\ OthersKeep(p) /\ UNCHANGED <<job, queue, scheduled, issued>> /\ pc'[p] = "idle"
        /\ faults' = faults + 1
    BY <1>4, OwnMoves DEF Abort, Return, Goto, redis, Whole, LocalOK
  <2> USE <2>1
  <2>2. pc'[p] \notin HeldPC
    BY CommandKinds
  <2>3. CASE pc[p] \in HeldPC
    BY <2>2, <2>3, HolderGoes
  <2>4. CASE pc[p] \notin HeldPC
    BY <2>2, <2>4, QuietStays, CutGoes
  <2>5. QED BY <2>3, <2>4
<1>5. QED BY <1>1, <1>2, <1>3, <1>4

\* The queue implements the journey of a job: with one processor, and until
\* RetryJob, RetryDLQJob or DeleteJob is called, one command moves one job at
\* most; Dequeue and ProcessScheduled take a job into their hands before it
\* leaves its place; a caller that is not cut short puts the job it holds into
\* a place or ends it; and a completed or dead job never comes back.  For any
\* number of clients, workers, jobs and priorities, also when calls are cut
\* short and keys expire.
THEOREM JourneyKept ==
  ASSUME \A p, q \in Processor : p = q
  PROVE  Spec => FollowsJourney
<1> DEFINE Inv  == TypeOK /\ LocalOK /\ (calls = 0 => Tidy /\ Settled)
           Full == Inv /\ (calls = 0 => AllFound)
<1>1. Init => Inv
  BY InitTyped, TidyStarts, SettledStarts
<1>2. Inv /\ [Next]_vars => Inv'
  <2> SUFFICES ASSUME Inv, [Next]_vars PROVE Inv'
    OBVIOUS
  <2>1. CASE Next
    <3> USE <2>1
    <3>1. TypeOK' /\ LocalOK'
      BY LocalStep, TypedStep
    <3>2. calls \in Nat /\ calls' \in Nat
      BY <3>1 DEF TypeOK
    <3>3. calls' = 0 => calls = 0 /\ calls' # calls + 1
      BY SMT, <3>2, CallsStep
    <3>4. QED BY <3>1, <3>3, TidyStep, SettledStep
  <2>2. CASE UNCHANGED vars
    <3>1. TypeOK' /\ LocalOK' /\ calls' = calls
      BY <2>2 DEF TypeOK, LocalOK, vars
    <3>2. UNCHANGED <<job, queue, pc, id, loc, batch, issued, scheduled>>
      BY <2>2 DEF vars
    <3>3. Settled => Settled'
      BY <3>2 DEF Settled, Queued
    <3>4. QED BY <3>1, <3>2, <3>3, TimeTidy
  <2>3. QED BY <2>1, <2>2
<1>3. Inv => Full
  BY PlacesFound
<1>4. Init => Journey!JourneyInit
  <2> SUFFICES ASSUME Init PROVE Journey!JourneyInit
    OBVIOUS
  <2>1. issued = {} /\ faults = 0 /\ calls = 0
    BY DEF Init
  <2> USE <2>1
  <2>2. Where = [j \in Job |-> "new"]
    BY DEF Where, PlaceOf
  <2>3. (calls > 0) = FALSE
    BY SMT, <2>1
  <2>4. QED BY <2>2, <2>3 DEF Journey!JourneyInit
<1>5. Full /\ Full' /\ [Next]_vars => [Journey!JourneyNext]_<<Where, faults, calls > 0>>
  <2> SUFFICES ASSUME Full, Full', [Next]_vars
               PROVE  Journey!JourneyNext \/ UNCHANGED <<Where, faults, calls > 0>>
    OBVIOUS
  <2>1. calls \in Nat /\ calls' \in Nat
    BY DEF TypeOK
  <2>2. CASE calls' # 0
    <3>1. (calls > 0)'
      BY SMT, <2>1, <2>2
    <3>2. QED BY <3>1 DEF Journey!JourneyNext, Journey!ByHand
  <2>3. CASE calls' = 0 /\ Next
    <3> USE <2>3
    <3>1. calls = 0 /\ UNCHANGED calls /\ calls # calls + 1
      BY SMT, <2>1, CallsStep
    <3>2. Whole /\ AllFound'
      BY <3>1 DEF Whole
    <3>3. Goes
      BY <3>1, <3>2, ClientGoes, WorkerGoes, ProcessorGoes, OtherGoes DEF Next
    <3>4. QED BY <3>3 DEF Goes
  <2>4. CASE UNCHANGED vars
    <3>1. UNCHANGED <<Where, faults, calls>>
      BY <2>4 DEF vars, Where, PlaceOf, Queued, Held, Unfinished
    <3>2. QED BY <3>1
  <2>5. QED BY <2>2, <2>3, <2>4
<1> HIDE DEF Inv, Full
<1>6. QED BY <1>1, <1>2, <1>3, <1>4, <1>5, PTL
          DEF Spec, FollowsJourney, Journey!JourneySpec
=============================================================================
