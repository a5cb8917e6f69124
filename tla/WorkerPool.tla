----------------------------- MODULE WorkerPool -----------------------------
(***************************************************************************)
(* The worker pools (internal/jobs/worker/pool.go): how a worker goroutine *)
(* takes a job through the queue (JobQueue) and the lock manager (JobLock) *)
(* of its process, while clients submit jobs, processes crash or stop, and *)
(* Redis commands fail.                                                    *)
(*                                                                         *)
(* Metrics and counters are left out: nothing reads them to decide.  A     *)
(* goroutine of a process that is stopping takes any number of further     *)
(* steps or none, as select does when both channels are ready.             *)
(***************************************************************************)
EXTENDS JobLock, JobQueue

CONSTANT
  MaxAttempts   \* bound on Attempts of a record a worker dequeues

ASSUME PoolAssumption ==
  /\ Processor = Pool     \* each pool runs one scheduledProcessor
  /\ IsFiniteSet(Worker)
  /\ MaxAttempts \in Nat

VARIABLES
  stage,   \* where each worker is in processNextJob
  idem     \* the keys MarkCompleted has stored

poolVars  == <<stage, idem>>
allVars   == <<vars, lockVars, poolVars>>

PoolInit ==
  /\ Init /\ LockInit
  /\ stage = [w \in Worker |-> "poll"]
  /\ idem  = {}

To(w, s) == stage' = [stage EXCEPT ![w] = s]
-----------------------------------------------------------------------------
(* processNextJob.                                                         *)

\* Dequeue; nothing else happens while the queues are empty.
Poll(w) ==
  /\ stage[w] = "poll"
  /\ pc[w] = "deq_get" => job[id[w]].attempts < MaxAttempts
  /\ DequeueStep(w)
  /\ To(w, IF pc'[w] = "got" THEN "idem" ELSE "poll")
  /\ UNCHANGED <<lockVars, idem>>

\* EXISTS idempotency:<key>, for jobs with a key
CheckIdempotency(w) ==
  /\ stage[w] = "idem"
  /\ To(w, IF loc[w].key \in idem THEN "skip" ELSE "lock")
  /\ UNCHANGED <<vars, lockVars, idem>>

\* The EXISTS fails: the job is executed anyway.
IdempotencyFails(w) ==
  /\ stage[w] = "idem" /\ loc[w].key \in Key /\ faults < MaxFaults
  /\ faults' = faults + 1
  /\ To(w, "lock")
  /\ UNCHANGED <<redis, local, issued, succ, deleted, expired, calls,
                 lockVars, idem>>

\* A job whose key is marked is completed without being run.
SkipJob(w) ==
  /\ stage[w] = "skip"
  /\ CompleteGet(w)
  /\ To(w, "outcome")
  /\ UNCHANGED <<lockVars, idem>>

\* AcquireLock succeeds ...
Lock(w) ==
  /\ stage[w] = "lock"
  /\ AcquireLock(w, id[w])
  /\ To(w, "enter")
  /\ UNCHANGED <<vars, idem>>

\* ... or returns ErrLockNotAcquired, and the job goes back to its queue.
LockTaken(w) ==
  /\ stage[w] = "lock" /\ lock[id[w]] # None
  /\ To(w, "requeue")
  /\ UNCHANGED <<vars, lockVars, idem>>

Requeue(w) ==
  /\ stage[w] = "requeue"
  /\ RequeueUpdate(w)
  /\ To(w, "outcome")
  /\ UNCHANGED <<lockVars, idem>>

Enter(w) ==
  /\ stage[w] = "enter"
  /\ Acquiring(w)
  /\ To(w, IF lpc'[w] = "hold" THEN "exec" ELSE "enter")
  /\ UNCHANGED <<vars, idem>>

\* executeJob: the handler returns nil, and Complete begins; ...
HandlerSucceeds(w) ==
  /\ stage[w] = "exec"
  /\ CompleteGet(w)
  /\ To(w, "complete")
  /\ UNCHANGED <<lockVars, idem>>

\* ... or it returns an error, or there is none for the type: Fail begins.
HandlerFails(w) ==
  /\ stage[w] = "exec"
  /\ FailGet(w)
  /\ To(w, "outcome")
  /\ UNCHANGED <<lockVars, idem>>

\* The further commands of Complete, Fail and requeueJob.
Outcome(w) ==
  /\ stage[w] \in {"complete", "outcome"}
  /\ OutcomeStep(w)
  /\ UNCHANGED <<lockVars, poolVars>>

\* MarkCompleted, for jobs with a key
MarkCompleted(w) ==
  /\ stage[w] = "complete" /\ pc[w] = "ret"
  /\ idem' = idem \cup ({loc[w].key} \cap Key)
  /\ To(w, "release")
  /\ UNCHANGED <<vars, lockVars>>

\* A failed, skipped or requeued job is not marked.
Unmarked(w) ==
  /\ stage[w] = "outcome" /\ pc[w] = "ret"
  /\ To(w, IF lpc[w] = "hold" THEN "release" ELSE "done")
  /\ UNCHANGED <<vars, lockVars, idem>>

\* The deferred ReleaseLock
Release(w) ==
  /\ stage[w] = "release"
  /\ Releasing(w)
  /\ To(w, IF lpc'[w] = "idle" THEN "done" ELSE "release")
  /\ UNCHANGED <<vars, idem>>

Done(w) ==
  /\ stage[w] = "done"
  /\ WorkerReturn(w)
  /\ To(w, "poll")
  /\ UNCHANGED <<lockVars, idem>>
-----------------------------------------------------------------------------
(* Failures.                                                               *)

\* A command of Dequeue, AcquireLock or requeueJob, or the first one of a
\* skipped job's Complete, fails: processNextJob returns.
GiveUp(w) ==
  /\ stage[w] \in {"poll", "lock", "requeue", "skip"}
  /\ Abort(w)
  /\ To(w, "poll")
  /\ UNCHANGED <<lockVars, idem>>

\* Dequeue goes on after a failed GET.
SkipLost(w) ==
  /\ stage[w] = "poll"
  /\ DequeueSkips(w)
  /\ UNCHANGED <<lockVars, poolVars>>

\* The same as GiveUp for an AcquireLock whose SETNX has set the key.
LockFails(w) ==
  /\ stage[w] = "lock"
  /\ AcquireFails(w, id[w])
  /\ Abort(w)
  /\ To(w, "poll")
  /\ UNCHANGED idem

\* A command of Complete, Fail or requeueJob fails: its error is ignored.
OutcomeFails(w) ==
  /\ stage[w] \in {"complete", "outcome"} /\ pc[w] # "ret"
  /\ faults < MaxFaults
  /\ faults' = faults + 1
  /\ pc' = [pc EXCEPT ![w] = "ret"]
  /\ UNCHANGED <<redis, id, loc, scan, batch, issued, succ, deleted,
                 expired, calls, lockVars, poolVars>>

\* The SET of MarkCompleted fails: its error is logged.
MarkFails(w) ==
  /\ stage[w] = "complete" /\ pc[w] = "ret" /\ loc[w].key \in Key
  /\ faults < MaxFaults
  /\ faults' = faults + 1
  /\ To(w, "release")
  /\ UNCHANGED <<redis, local, issued, succ, deleted, expired, calls,
                 lockVars, idem>>

\* A process dies, or exits after ShutdownTimeout with jobs in hand, and is
\* restarted.
Crash(p) ==
  LET gone    == {w \in Worker : PoolOf[w] = p} \cup {p}
      reset(f, v) == [x \in DOMAIN f |-> IF x \in gone THEN v ELSE f[x]]
  IN
  /\ faults < MaxFaults
  /\ LockCrash(p)
  /\ pc'    = reset(pc, "idle")
  /\ id'    = reset(id, NoJob)
  /\ loc'   = reset(loc, Absent)
  /\ scan'  = reset(scan, 1)
  /\ batch' = reset(batch, {})
  /\ stage' = reset(stage, "poll")
  /\ faults' = faults + Cardinality({x \in gone : pc[x] # "idle"})
  /\ UNCHANGED <<redis, issued, succ, deleted, expired, calls, idem>>

\* The TTL of an idempotency key runs out.
ForgetKey(k) ==
  /\ RecordsExpire /\ k \in idem
  /\ idem' = idem \ {k}
  /\ UNCHANGED <<vars, lockVars, stage>>
-----------------------------------------------------------------------------
JobStep(w) ==
  \/ CheckIdempotency(w) \/ SkipJob(w) \/ Lock(w) \/ LockTaken(w)
  \/ Requeue(w) \/ Enter(w) \/ HandlerSucceeds(w) \/ HandlerFails(w)
  \/ Outcome(w) \/ MarkCompleted(w) \/ Unmarked(w) \/ Release(w) \/ Done(w)

\* A handler of the job controller: enqueue, retry, cancel, retry from the DLQ.
JobRequest(c) == ClientStep(c) \/ DeleteFails(c) \/ Abort(c)

QueueStep ==
  /\ \/ \E c \in Client : JobRequest(c)
     \/ \E p \in Pool : ProcessorStep(p) \/ Abort(p)
     \/ \E p \in Pool, j \in Job : ScheduledSkips(p, j)
     \/ \E j \in Job : BecomeDue(j) \/ ExpireRecord(j)
     \/ \E k \in Key : ExpireUnique(k)
  /\ UNCHANGED <<lockVars, poolVars>>

PoolNext ==
  \/ \E w \in Worker : \/ Poll(w) \/ JobStep(w) \/ IdempotencyFails(w)
                       \/ GiveUp(w) \/ SkipLost(w) \/ LockFails(w)
                       \/ OutcomeFails(w) \/ MarkFails(w)
  \/ QueueStep
  \/ LockEnvironment /\ UNCHANGED <<vars, poolVars>>
  \/ \E p \in Pool : Crash(p)
  \/ \E k \in Key : ForgetKey(k)

PoolSpec == PoolInit /\ [][PoolNext]_allVars

\* Goroutines run, tickers tick, handlers return within the job's timeout,
\* scores are reached and TTLs run out.  Nothing makes a client begin a call,
\* and nothing keeps the goroutines of a stopping process polling after what
\* they have begun.
ClientRuns(c) == pc[c] # "idle" /\ ClientStep(c) /\ UNCHANGED <<lockVars, poolVars>>
Polls(w)      == (PoolOf[w] \notin stopped \/ pc[w] # "idle") /\ Poll(w)
Processes(p)  == /\ p \notin stopped \/ pc[p] # "idle"
                 /\ ProcessorStep(p) /\ UNCHANGED <<lockVars, poolVars>>
ComesDue(j)   == BecomeDue(j) /\ UNCHANGED <<lockVars, poolVars>>
TimesOut(j)   == Expire(j) /\ UNCHANGED <<vars, poolVars>>
Stopping(p)   == p \in stopped /\ StopStep(p) /\ UNCHANGED <<vars, poolVars>>

Fairness ==
  /\ \A c \in Client : WF_allVars(ClientRuns(c))
  /\ \A w \in Worker : WF_allVars(Polls(w)) /\ WF_allVars(JobStep(w))
  /\ \A p \in Pool : WF_allVars(Processes(p)) /\ WF_allVars(Stopping(p))
  /\ \A j \in Job : WF_allVars(ComesDue(j)) /\ WF_allVars(TimesOut(j))

FairSpec == PoolSpec /\ Fairness
-----------------------------------------------------------------------------
(* Properties.                                                             *)

\* As long as no cleaner has run, two workers of processes that are neither
\* slow nor stopping never run the handler of the same job at the same time,
\* however often the job's ID is in the queues.  They may run it one after the
\* other: checkIdempotency comes before the lock.
OneHandlerPerJob ==
  cleanups = 0 => \A v, w \in Worker :
    /\ stage[v] = "exec" /\ Timely(v) /\ stage[w] = "exec" /\ Timely(w)
    /\ id[v] = id[w]
    => v = w

\* Every stored job is completed, dead or gone in the end, also when an
\* earlier run of it crashed and left its lock behind, unless an operation
\* that was cut short has lost it or every process stops.  RetryJob calls are
\* excepted: with a second entry of a job in the queues, requeueJob of one
\* worker undoes the attempts another one counts, and a job that always fails
\* is retried for ever.  Two processors that push a due job twice do the same.
Progress ==
  \A j \in Job :
    Unfinished(j) ~> \/ ~Unfinished(j) \/ j \in Lost \/ calls > 0
                       \/ stopped = Pool
=============================================================================
