------------------------------ MODULE JobQueue ------------------------------
(***************************************************************************)
(* The Redis-backed job queue (internal/jobs/queue/redis_queue.go) as the  *)
(* job service, the workers and the scheduled-job processors use it.       *)
(*                                                                         *)
(* Every method of RedisQueue is a sequence of separate Redis commands     *)
(* without a transaction around them.  One action is one command together  *)
(* with the local code up to the next command, so every interleaving of    *)
(* two callers that Redis can see is a behaviour.  The HINCRBY commands on *)
(* the statistics hash are left out: no method reads them back to decide   *)
(* anything.                                                               *)
(***************************************************************************)
EXTENDS Jobs, Integers, Sequences, FiniteSets

CONSTANTS
  Key, NoKey,      \* values of JobPayload.UniqueKey; the empty one
  Client,          \* goroutines that call the job service
  Processor,       \* scheduledProcessor goroutines, one per pool
  NPrio,           \* number of priorities; 1 is the most urgent
  Submission,      \* what clients may submit: key, prio, at, max
  MaxCalls,        \* bound on RetryJob, RetryDLQJob and DeleteJob calls
  MaxFaults,       \* bound on aborted operations
  RecordsExpire    \* whether the 24 h TTLs may run out

Prio   == 1..NPrio
Proc   == Client \cup Worker \cup Processor
Status == {"absent", "pending", "running", "completed", "retrying", "dead"}

\* A stored JobPayload.  "at" is ScheduledAt: nil, or set to some time.
Record == [status: Status, attempts: Int, key: Key \cup {NoKey},
           prio: Prio, at: {"nil", "set"}, max: Int]

\* What GET finds under a job key that does not exist (redis.Nil).
Absent == [status |-> "absent", attempts |-> 0, key |-> NoKey,
           prio |-> 1, at |-> "nil", max |-> 0]

ASSUME QueueAssumption ==
  /\ NoJob \notin Job
  /\ NoKey \notin Key
  /\ Client \cap Worker = {} /\ Client \cap Processor = {}
  /\ Worker \cap Processor = {}
  /\ NPrio \in Nat \ {0}
  /\ Submission \subseteq [key: Key \cup {NoKey}, prio: Prio,
                           at: {"nil", "set"}, max: Int]
  /\ MaxCalls \in Nat
  /\ MaxFaults \in Nat
  /\ RecordsExpire \in BOOLEAN

VARIABLES
  job,         \* arcana:jobs:job:<id>
  queue,       \* arcana:jobs:queue:<prio>, oldest entry first
  scheduled,   \* arcana:jobs:scheduled, with whether the score is reached
  dlq,         \* arcana:jobs:dlq, as a count per ID
  unique,      \* arcana:jobs:unique:<key>
  pc,          \* the next command of each caller
  id,          \* the job ID of a caller's operation
  loc,         \* a caller's local copy of the payload
  scan,        \* the priority a worker's Dequeue loop tries next
  batch,       \* IDs a processor has read and not handled yet
  issued,      \* IDs already handed out (uuid.New never repeats one)
  succ,        \* history: the ID RetryDLQJob gave a dead job
  deleted,     \* history: IDs DeleteJob was called on
  expired,     \* history: unique keys whose TTL has run out
  calls,       \* RetryJob, RetryDLQJob and DeleteJob calls so far
  faults       \* aborted operations so far

redis == <<job, queue, scheduled, dlq, unique>>
local == <<pc, id, loc, scan, batch>>
ghost == <<issued, succ, deleted, expired, calls, faults>>
vars  == <<job, queue, scheduled, dlq, unique, pc, id, loc, scan, batch,
           issued, succ, deleted, expired, calls, faults>>

PC == {"idle", "ret", "enq_check", "enq_store", "enq_push", "enq_unique",
       "deq_get", "deq_update", "got", "complete_update", "fail_update",
       "fail_schedule", "fail_dlq", "drop_unique", "requeue_push",
       "sched_get", "sched_remove", "sched_update", "sched_push",
       "rdlq_remove", "del_job", "del_queue", "del_scheduled", "del_dlq"}

Init ==
  /\ job       = [j \in Job |-> Absent]
  /\ queue     = [p \in Prio |-> <<>>]
  /\ scheduled = [j \in Job |-> "no"]
  /\ dlq       = [j \in Job |-> 0]
  /\ unique    = [k \in Key |-> NoJob]
  /\ pc        = [p \in Proc |-> "idle"]
  /\ id        = [p \in Proc |-> NoJob]
  /\ loc       = [p \in Proc |-> Absent]
  /\ scan      = [w \in Worker |-> 1]
  /\ batch     = [p \in Processor |-> {}]
  /\ issued    = {}
  /\ succ      = [j \in Job |-> NoJob]
  /\ deleted   = {}
  /\ expired   = {}
  /\ calls     = 0
  /\ faults    = 0

Exists(j) == job[j].status # "absent"

\* LREM key 0 e: the entries of s other than e, in their order.
Without(s, e) ==
  LET keep      == {i \in 1..Len(s) : s[i] # e}
      rank(i)   == Cardinality({m \in keep : m <= i})
  IN  [n \in 1..Cardinality(keep) |-> s[CHOOSE i \in keep : rank(i) = n]]

\* GETs that succeed keep the payload in the caller's variable; SET stores it.
Goto(p, l)     == pc' = [pc EXCEPT ![p] = l]
Keep(p, j, r)  == id' = [id EXCEPT ![p] = j] /\ loc' = [loc EXCEPT ![p] = r]
Store(j, r)    == job' = [job EXCEPT ![j] = r]
Push(j, r)     == queue' = [queue EXCEPT ![r.prio] = Append(@, j)]
SetUnique(k,j) == unique' = [unique EXCEPT ![k] = j]
SetScheduled(j, t) == scheduled' = [scheduled EXCEPT ![j] = t]

\* The operation of a client returns.
Return(p) == Goto(p, "idle") /\ Keep(p, NoJob, Absent)
-----------------------------------------------------------------------------
(* Enqueue, called by the job service for a new payload, by RetryJob for a *)
(* stored one and by RetryDLQJob for a copy under a new ID.                *)

\* What NewJobPayload makes of a submission: the caller's options over the
\* defaults.
NewJobPayload(s) ==
  [status |-> "pending", attempts |-> 0, key |-> s.key, prio |-> s.prio,
   at |-> s.at, max |-> s.max]

\* jobService.Enqueue / EnqueueAt / EnqueueIn: the payload has an ID of its own.
EnqueueCall(c, j, s) ==
  /\ pc[c] = "idle" /\ j \notin issued
  /\ issued' = issued \cup {j}
  /\ Keep(c, j, NewJobPayload(s))
  /\ Goto(c, "enq_check")
  /\ UNCHANGED <<redis, scan, batch, succ, deleted, expired, calls, faults>>

\* Mutant: Enqueue without checkDuplicate.
EnqueueUnchecked(c) ==
  /\ pc[c] = "enq_check"
  /\ Goto(c, "enq_store")
  /\ UNCHANGED <<redis, id, loc, scan, batch, ghost>>

\* EXISTS unique:<key>; a hit makes Enqueue return ErrDuplicateJob.
EnqueueCheck(c) ==
  /\ pc[c] = "enq_check"
  /\ IF loc[c].key \in Key /\ unique[loc[c].key] # NoJob
       THEN Return(c)
       ELSE Goto(c, "enq_store") /\ UNCHANGED <<id, loc>>
  /\ UNCHANGED <<redis, scan, batch, ghost>>

\* SET job:<id>
EnqueueStore(c) ==
  /\ pc[c] = "enq_store"
  /\ Store(id[c], loc[c])
  /\ Goto(c, "enq_push")
  /\ UNCHANGED <<queue, scheduled, dlq, unique, id, loc, scan, batch, ghost>>

\* scheduleOrEnqueue: ZADD when ScheduledAt is still ahead, LPUSH otherwise.
EnqueuePush(c) ==
  /\ pc[c] = "enq_push"
  /\ \/ /\ loc[c].at = "set"
        /\ SetScheduled(id[c], "future")
        /\ UNCHANGED queue
     \/ /\ Push(id[c], loc[c])
        /\ UNCHANGED scheduled
  /\ IF loc[c].key \in Key
       THEN Goto(c, "enq_unique") /\ UNCHANGED <<id, loc>>
       ELSE Return(c)
  /\ UNCHANGED <<job, dlq, unique, scan, batch, ghost>>

\* SET unique:<key> <id>
EnqueueUnique(c) ==
  /\ pc[c] = "enq_unique"
  /\ SetUnique(loc[c].key, id[c])
  /\ Return(c)
  /\ UNCHANGED <<job, queue, scheduled, dlq, scan, batch, ghost>>

\* jobService.RetryJob: GET, reset, Enqueue under the same ID.
RetryJob(c, j) ==
  /\ pc[c] = "idle" /\ calls < MaxCalls
  /\ Exists(j)
  /\ calls' = calls + 1
  /\ Keep(c, j, [job[j] EXCEPT !.status = "pending", !.attempts = 0,
                               !.at = "nil"])
  /\ Goto(c, "enq_check")
  /\ UNCHANGED <<redis, scan, batch, issued, succ, deleted, expired, faults>>

\* RetryDLQJob, first command: GET.
RetryDLQGet(c, j) ==
  /\ pc[c] = "idle" /\ calls < MaxCalls
  /\ Exists(j)
  /\ calls' = calls + 1
  /\ Keep(c, j, job[j])
  /\ Goto(c, "rdlq_remove")
  /\ UNCHANGED <<redis, scan, batch, issued, succ, deleted, expired, faults>>

\* LREM dlq 1 <id> (its count is not looked at), reset, new ID n, Enqueue.
RetryDLQRemove(c, n) ==
  /\ pc[c] = "rdlq_remove" /\ n \notin issued
  /\ dlq' = [dlq EXCEPT ![id[c]] = IF @ > 0 THEN @ - 1 ELSE 0]
  /\ issued' = issued \cup {n}
  /\ succ' = [succ EXCEPT ![id[c]] = n]
  /\ Keep(c, n, [loc[c] EXCEPT !.status = "pending", !.attempts = 0])
  /\ Goto(c, "enq_check")
  /\ UNCHANGED <<job, queue, scheduled, unique, scan, batch, deleted, expired,
                 calls, faults>>

-----------------------------------------------------------------------------
(* DeleteJob (jobService.CancelJob, PurgeDLQ): one command per location.   *)

DeleteCall(c, j) ==
  /\ pc[c] = "idle" /\ calls < MaxCalls
  /\ Exists(j)
  /\ calls' = calls + 1
  /\ deleted' = deleted \cup {j}
  /\ Keep(c, j, job[j])
  /\ Goto(c, "del_job")
  /\ UNCHANGED <<redis, scan, batch, issued, succ, expired, faults>>

DeleteRecord(c) ==
  /\ pc[c] = "del_job"
  /\ Store(id[c], Absent)
  /\ Goto(c, "del_queue")
  /\ UNCHANGED <<queue, scheduled, dlq, unique, id, loc, scan, batch, ghost>>

DeleteQueued(c) ==
  /\ pc[c] = "del_queue"
  /\ queue' = [queue EXCEPT ![loc[c].prio] = Without(@, id[c])]
  /\ Goto(c, "del_scheduled")
  /\ UNCHANGED <<job, scheduled, dlq, unique, id, loc, scan, batch, ghost>>

DeleteScheduled(c) ==
  /\ pc[c] = "del_scheduled"
  /\ SetScheduled(id[c], "no")
  /\ Goto(c, "del_dlq")
  /\ UNCHANGED <<job, queue, dlq, unique, id, loc, scan, batch, ghost>>

DeleteDead(c) ==
  /\ pc[c] = "del_dlq"
  /\ dlq' = [dlq EXCEPT ![id[c]] = 0]
  /\ IF loc[c].key \in Key
       THEN Goto(c, "drop_unique") /\ UNCHANGED <<id, loc>>
       ELSE Return(c)
  /\ UNCHANGED <<job, queue, scheduled, unique, scan, batch, ghost>>

\* One of these commands fails: nobody looks at its error, and the next one
\* is sent.
DeleteFails(c) ==
  /\ faults < MaxFaults
  /\ faults' = faults + 1
  /\ \/ pc[c] = "del_job" /\ Goto(c, "del_queue")
     \/ pc[c] = "del_queue" /\ Goto(c, "del_scheduled")
     \/ pc[c] = "del_scheduled" /\ Goto(c, "del_dlq")
     \/ pc[c] = "del_dlq" /\ loc[c].key \in Key /\ Goto(c, "drop_unique")
  /\ UNCHANGED <<redis, id, loc, scan, batch, issued, succ, deleted, expired,
                 calls>>
-----------------------------------------------------------------------------
(* Dequeue: RPOP each priority in turn until a job turns up.               *)

NextPrio(i) == IF i = NPrio THEN 1 ELSE i + 1

\* RPOP queue:<prio>; an empty list moves on to the next priority, and past
\* the last one Dequeue returns ErrQueueEmpty and the next poll starts over.
DequeuePop(w) ==
  /\ pc[w] = "idle"
  /\ LET q == queue[scan[w]] IN
     IF q = <<>>
       THEN /\ scan' = [scan EXCEPT ![w] = NextPrio(@)]
            /\ UNCHANGED <<queue, pc, id, loc>>
       ELSE /\ queue' = [queue EXCEPT ![scan[w]] = Tail(@)]
            /\ Keep(w, Head(q), Absent)
            /\ Goto(w, "deq_get")
            /\ UNCHANGED scan
  /\ UNCHANGED <<job, scheduled, dlq, unique, batch, ghost>>

\* GET job:<id>; when it fails the loop continues with the next priority and
\* the popped ID is forgotten.
DequeueGet(w) ==
  /\ pc[w] = "deq_get"
  /\ IF Exists(id[w])
       THEN /\ Keep(w, id[w], [job[id[w]] EXCEPT !.status = "running",
                                                 !.attempts = @ + 1])
            /\ Goto(w, "deq_update")
            /\ UNCHANGED scan
       ELSE /\ scan' = [scan EXCEPT ![w] = NextPrio(@)]
            /\ Return(w)
  /\ UNCHANGED <<redis, batch, ghost>>

\* UpdateJob, then the job is handed to the worker.
DequeueUpdate(w) ==
  /\ pc[w] = "deq_update"
  /\ Store(id[w], loc[w])
  /\ scan' = [scan EXCEPT ![w] = 1]
  /\ Goto(w, "got")
  /\ UNCHANGED <<queue, scheduled, dlq, unique, id, loc, batch, ghost>>

-----------------------------------------------------------------------------
(* Complete, Fail and requeueJob, called by the worker that got the job.   *)

\* Complete: GET; ErrJobNotFound is returned when the record is gone.
CompleteGet(w) ==
  /\ pc[w] = "got"
  /\ IF Exists(id[w])
       THEN /\ Keep(w, id[w], [job[id[w]] EXCEPT !.status = "completed"])
            /\ Goto(w, "complete_update")
       ELSE Goto(w, "ret") /\ UNCHANGED <<id, loc>>
  /\ UNCHANGED <<redis, scan, batch, ghost>>

CompleteUpdate(w) ==
  /\ pc[w] = "complete_update"
  /\ Store(id[w], loc[w])
  /\ Goto(w, IF loc[w].key \in Key THEN "drop_unique" ELSE "ret")
  /\ UNCHANGED <<queue, scheduled, dlq, unique, id, loc, scan, batch, ghost>>

\* Fail: GET, then a retry while Attempts < MaxRetries, otherwise the DLQ.
FailGet(w) ==
  /\ pc[w] = "got"
  /\ IF Exists(id[w])
       THEN LET r == job[id[w]] IN
            /\ Keep(w, id[w],
                    IF r.attempts < r.max
                      THEN [r EXCEPT !.status = "retrying", !.at = "set"]
                      ELSE [r EXCEPT !.status = "dead"])
            /\ Goto(w, "fail_update")
       ELSE Goto(w, "ret") /\ UNCHANGED <<id, loc>>
  /\ UNCHANGED <<redis, scan, batch, ghost>>

\* Mutant: Fail schedules the next attempt of a dead job as well.
FailAlwaysRetries(w) ==
  /\ pc[w] = "fail_update"
  /\ Store(id[w], loc[w])
  /\ Goto(w, "fail_schedule")
  /\ UNCHANGED <<queue, scheduled, dlq, unique, id, loc, scan, batch, ghost>>

FailUpdate(w) ==
  /\ pc[w] = "fail_update"
  /\ Store(id[w], loc[w])
  /\ Goto(w, IF loc[w].status = "retrying" THEN "fail_schedule"
                                           ELSE "fail_dlq")
  /\ UNCHANGED <<queue, scheduled, dlq, unique, id, loc, scan, batch, ghost>>

\* ZADD scheduled with the time of the next attempt
FailSchedule(w) ==
  /\ pc[w] = "fail_schedule"
  /\ SetScheduled(id[w], "future")
  /\ Goto(w, "ret")
  /\ UNCHANGED <<job, queue, dlq, unique, id, loc, scan, batch, ghost>>

\* Mutant: a job with a UniqueKey is not pushed to the DLQ.
FailWithoutDLQ(w) ==
  /\ pc[w] = "fail_dlq"
  /\ dlq' = [dlq EXCEPT ![id[w]] = IF loc[w].key \in Key THEN @ ELSE @ + 1]
  /\ Goto(w, IF loc[w].key \in Key THEN "drop_unique" ELSE "ret")
  /\ UNCHANGED <<job, queue, scheduled, unique, id, loc, scan, batch, ghost>>

\* LPUSH dlq
FailDLQ(w) ==
  /\ pc[w] = "fail_dlq"
  /\ dlq' = [dlq EXCEPT ![id[w]] = @ + 1]
  /\ Goto(w, IF loc[w].key \in Key THEN "drop_unique" ELSE "ret")
  /\ UNCHANGED <<job, queue, scheduled, unique, id, loc, scan, batch, ghost>>

\* DEL unique:<key>, whichever job the key names by now (Complete, Fail and
\* DeleteJob).
DropUnique(p) ==
  /\ pc[p] = "drop_unique"
  /\ SetUnique(loc[p].key, NoJob)
  /\ IF p \in Client THEN Return(p)
                     ELSE Goto(p, "ret") /\ UNCHANGED <<id, loc>>
  /\ UNCHANGED <<job, queue, scheduled, dlq, scan, batch, ghost>>

\* WorkerPool.requeueJob: UpdateJob with the copy Dequeue returned ...
RequeueUpdate(w) ==
  /\ pc[w] = "got"
  /\ LET r == [loc[w] EXCEPT !.status = "pending", !.attempts = @ - 1] IN
     Keep(w, id[w], r) /\ Store(id[w], r)
  /\ Goto(w, "requeue_push")
  /\ UNCHANGED <<queue, scheduled, dlq, unique, scan, batch, ghost>>

\* Mutant: requeueJob updates the record and forgets the LPUSH.
RequeueWithoutPush(w) ==
  /\ pc[w] = "requeue_push"
  /\ Goto(w, "ret")
  /\ UNCHANGED <<redis, id, loc, scan, batch, ghost>>

\* ... and RequeueJob: LPUSH
RequeuePush(w) ==
  /\ pc[w] = "requeue_push"
  /\ Push(id[w], loc[w])
  /\ Goto(w, "ret")
  /\ UNCHANGED <<job, scheduled, dlq, unique, id, loc, scan, batch, ghost>>

\* The worker has dealt with the job and polls again.
WorkerReturn(w) ==
  /\ pc[w] = "ret"
  /\ Return(w)
  /\ UNCHANGED <<redis, scan, batch, ghost>>
-----------------------------------------------------------------------------
(* ProcessScheduled, run every second by each pool's scheduledProcessor.   *)

\* The rest of the batch once j is dealt with.
Advance(p, j) ==
  /\ batch' = [batch EXCEPT ![p] = @ \ {j}]
  /\ Keep(p, NoJob, Absent)
  /\ Goto(p, IF batch[p] \subseteq {j} THEN "idle" ELSE "sched_get")

\* ZRANGEBYSCORE -inf now
ScheduledScan(p) ==
  /\ pc[p] = "idle"
  /\ \E j \in Job : scheduled[j] = "due"
  /\ batch' = [batch EXCEPT ![p] = {j \in Job : scheduled[j] = "due"}]
  /\ Goto(p, "sched_get")
  /\ UNCHANGED <<redis, id, loc, scan, ghost>>

\* GET job:<id>; an ID without a record is skipped and stays in the set.
ScheduledGet(p, j) ==
  /\ pc[p] = "sched_get" /\ j \in batch[p]
  /\ IF Exists(j)
       THEN /\ Keep(p, j, [job[j] EXCEPT !.at = "nil", !.status = "pending"])
            /\ Goto(p, "sched_remove")
            /\ UNCHANGED batch
       ELSE Advance(p, j)
  /\ UNCHANGED <<redis, scan, ghost>>

\* Mutant: a due ID is pushed to its queue and stays in the scheduled set.
ScheduledKeep(p) ==
  /\ pc[p] = "sched_remove"
  /\ Goto(p, "sched_update")
  /\ UNCHANGED <<redis, id, loc, scan, batch, ghost>>

\* ZREM; only its error is looked at, not whether it removed the ID.
ScheduledRemove(p) ==
  /\ pc[p] = "sched_remove"
  /\ SetScheduled(id[p], "no")
  /\ Goto(p, "sched_update")
  /\ UNCHANGED <<job, queue, dlq, unique, id, loc, scan, batch, ghost>>

ScheduledUpdate(p) ==
  /\ pc[p] = "sched_update"
  /\ Store(id[p], loc[p])
  /\ Goto(p, "sched_push")
  /\ UNCHANGED <<queue, scheduled, dlq, unique, id, loc, scan, batch, ghost>>

ScheduledPush(p) ==
  /\ pc[p] = "sched_push"
  /\ Push(id[p], loc[p])
  /\ Advance(p, id[p])
  /\ UNCHANGED <<job, scheduled, dlq, unique, scan, ghost>>

-----------------------------------------------------------------------------
(* Time and failures.                                                      *)

\* The score of a scheduled ID is reached.
BecomeDue(j) ==
  /\ scheduled[j] = "future"
  /\ SetScheduled(j, "due")
  /\ UNCHANGED <<job, queue, dlq, unique, local, ghost>>

\* The 24 h TTL of a record nobody has worked on for that long runs out.
ExpireRecord(j) ==
  /\ RecordsExpire /\ Exists(j)
  /\ \A p \in Proc : id[p] # j
  /\ Store(j, Absent)
  /\ UNCHANGED <<queue, scheduled, dlq, unique, local, ghost>>

\* The TTL of a unique key runs out.  It is set once, by Enqueue, while every
\* UpdateJob renews that of the record: a job that takes longer loses its key.
ExpireUnique(k) ==
  /\ RecordsExpire /\ unique[k] # NoJob
  /\ SetUnique(k, NoJob)
  /\ expired' = expired \cup {k}
  /\ UNCHANGED <<job, queue, scheduled, dlq, local, issued, succ, deleted,
                 calls, faults>>

\* The GET of Dequeue fails: the ID is forgotten, and the next priority tried.
DequeueSkips(w) ==
  /\ pc[w] = "deq_get" /\ faults < MaxFaults
  /\ faults' = faults + 1
  /\ scan' = [scan EXCEPT ![w] = NextPrio(@)]
  /\ Return(w)
  /\ UNCHANGED <<redis, batch, issued, succ, deleted, expired, calls>>

\* A command of ProcessScheduled fails: the loop goes on with the next ID.
ScheduledSkips(p, j) ==
  /\ \/ pc[p] = "sched_get" /\ j \in batch[p]
     \/ pc[p] \in {"sched_remove", "sched_update", "sched_push"} /\ j = id[p]
  /\ faults < MaxFaults
  /\ faults' = faults + 1
  /\ Advance(p, j)
  /\ UNCHANGED <<redis, scan, issued, succ, deleted, expired, calls>>

\* Another command fails and the method returns early, or the caller dies:
\* what it had in hand is gone, what it has stored stays.
Abort(p) ==
  /\ faults < MaxFaults /\ pc[p] # "idle"
  /\ faults' = faults + 1
  /\ Return(p)
  /\ scan' = IF p \in Worker THEN [scan EXCEPT ![p] = 1] ELSE scan
  /\ batch' = IF p \in Processor THEN [batch EXCEPT ![p] = {}] ELSE batch
  /\ UNCHANGED <<redis, issued, succ, deleted, expired, calls>>

ClientStep(c) ==
  \/ \E j \in Job, s \in Submission : EnqueueCall(c, j, s)
  \/ EnqueueCheck(c) \/ EnqueueStore(c) \/ EnqueuePush(c) \/ EnqueueUnique(c)
  \/ \E j \in Job : \/ RetryJob(c, j) \/ RetryDLQGet(c, j)
                    \/ RetryDLQRemove(c, j) \/ DeleteCall(c, j)
  \/ DeleteRecord(c) \/ DeleteQueued(c) \/ DeleteScheduled(c)
  \/ DeleteDead(c) \/ DropUnique(c)

DequeueStep(w) == DequeuePop(w) \/ DequeueGet(w) \/ DequeueUpdate(w)

\* The steps after the first one of Complete, Fail and requeueJob.
OutcomeStep(w) ==
  \/ CompleteUpdate(w) \/ FailUpdate(w) \/ FailSchedule(w) \/ FailDLQ(w)
  \/ DropUnique(w) \/ RequeuePush(w)

WorkerStep(w) ==
  \/ DequeueStep(w) \/ OutcomeStep(w)
  \/ CompleteGet(w) \/ FailGet(w) \/ RequeueUpdate(w) \/ WorkerReturn(w)

ProcessorStep(p) ==
  \/ ScheduledScan(p) \/ \E j \in Job : ScheduledGet(p, j)
  \/ ScheduledRemove(p) \/ ScheduledUpdate(p) \/ ScheduledPush(p)

Next ==
  \/ \E c \in Client : ClientStep(c) \/ DeleteFails(c)
  \/ \E w \in Worker : WorkerStep(w) \/ DequeueSkips(w)
  \/ \E p \in Processor : ProcessorStep(p) \/ \E j \in Job : ScheduledSkips(p, j)
  \/ \E j \in Job : BecomeDue(j) \/ ExpireRecord(j)
  \/ \E k \in Key : ExpireUnique(k)
  \/ \E p \in Proc : Abort(p)

Spec == Init /\ [][Next]_vars
-----------------------------------------------------------------------------
(* Properties.                                                             *)

\* Every key, list, set and local variable holds the kind of value the code
\* puts there.
TypeOK ==
  /\ job \in [Job -> Record]
  /\ queue \in [Prio -> Seq(Job)]
  /\ scheduled \in [Job -> {"no", "future", "due"}]
  /\ dlq \in [Job -> Nat]
  /\ unique \in [Key -> Job \cup {NoJob}]
  /\ pc \in [Proc -> PC]
  /\ id \in [Proc -> Job \cup {NoJob}]
  /\ loc \in [Proc -> Record]
  /\ scan \in [Worker -> Prio]
  /\ batch \in [Processor -> SUBSET Job]
  /\ issued \subseteq Job
  /\ succ \in [Job -> Job \cup {NoJob}]
  /\ deleted \subseteq Job
  /\ expired \subseteq Key
  /\ calls \in Nat
  /\ faults \in Nat

InList(s, e) == \E i \in 1..Len(s) : s[i] = e
Queued(j)    == \E p \in Prio : InList(queue[p], j)

\* Between these commands a caller is the only one who remembers the job.
CarryPC == {"enq_push", "deq_get", "deq_update", "got", "complete_update",
            "fail_update", "fail_schedule", "requeue_push", "sched_update",
            "sched_push"}
Carried(j) == \E p \in Proc : id[p] = j /\ pc[p] \in CarryPC

Located(j)    == Queued(j) \/ scheduled[j] # "no" \/ Carried(j)
Unfinished(j) == job[j].status \in {"pending", "running", "retrying"}

\* The jobs that are stored, neither finished nor cancelled, and nowhere.
Lost == {j \in Job \ deleted : Unfinished(j) /\ ~Located(j)}

\* However the commands of the callers interleave, a job that is stored and
\* neither finished nor cancelled is in a priority queue, in the scheduled
\* set or in the hands of a caller that still has to put it somewhere; an
\* operation of Enqueue, Dequeue, Complete, Fail, requeueJob or
\* ProcessScheduled that is cut short loses at most the one job it had.
LossBounded == Cardinality(Lost) <= faults

\* How many places hold the ID of j: entries of the queues, the scheduled
\* set, and callers that took it out of one of them.
Places(j) ==
  LET entries(p) == {i \in DOMAIN queue[p] : queue[p][i] = j}
      carriers   == {p \in Proc : id[p] = j /\ pc[p] \in CarryPC}
  IN  Cardinality(UNION {{p} \X entries(p) : p \in Prio})
        + Cardinality(carriers) + (IF scheduled[j] = "no" THEN 0 ELSE 1)

\* Without RetryJob, RetryDLQJob and DeleteJob calls a job is never in two
\* places: Dequeue, Fail, requeueJob and ProcessScheduled move it.  With one
\* processor this holds; of two that have read the same due job both push it.
OnePlace == calls = 0 => \A j \in Job : Places(j) <= 1

\* Deduplication: two unfinished jobs never have the same UniqueKey.  Aborts,
\* administrative calls and jobs that outlive the TTL of their key aside, this
\* is what Enqueue's check and the DELs of Complete and Fail are there for.
OneActivePerKey ==
  calls = 0 /\ faults = 0 =>
    \A i, j \in Job : /\ Unfinished(i) /\ Unfinished(j)
                      /\ job[i].key \in Key \ expired /\ job[i].key = job[j].key
                      => i = j

\* The jobs that are stored as dead, not cancelled, and that nobody can find:
\* not in the DLQ, not on their way there and not taken out by RetryDLQJob.
DeadAway == {j \in Job \ deleted :
               /\ job[j].status = "dead" /\ dlq[j] = 0 /\ succ[j] = NoJob
               /\ \A w \in Worker : id[w] = j => pc[w] # "fail_dlq"}

\* A job whose attempts are used up can be found in the DLQ until it is retried
\* from there or cancelled, whatever RetryJob, RetryDLQJob and DeleteJob calls
\* overlap with Fail; a Fail that is cut short costs at most its own job.
DeadAccounted == Cardinality(DeadAway) <= faults

\* The place of a job on its way: the first of these that holds.
Final   == {"completed", "dead"}
HeldPC  == CarryPC \cup {"enq_check", "enq_store"}
Held(j) == \E p \in Proc : id[p] = j /\ pc[p] \in HeldPC

PlaceOf(j) ==
  IF j \notin issued THEN "new"
  ELSE IF job[j].status \in Final THEN "over"
  ELSE IF Queued(j) THEN "queued"
  ELSE IF scheduled[j] # "no" THEN "delayed"
  ELSE IF Held(j) THEN "held"
  ELSE IF Unfinished(j) THEN "lost" ELSE "over"

Where == [j \in Job |-> PlaceOf(j)]

Journey == INSTANCE JobJourney WITH place <- Where, cut <- faults, tended <- calls > 0

\* The queue implements the journey of a job: one command moves one job at
\* most; a queue or the scheduled set gives a job up only into the hands of a
\* caller; a job leaves these hands for another place, or completed, dead,
\* refused or without a record, unless the caller is cut short; and a job that
\* has been completed or is dead is never queued, delayed or run again.  With
\* one processor, and until RetryJob, RetryDLQJob or DeleteJob is called.
FollowsJourney == Journey!JourneySpec
=============================================================================
