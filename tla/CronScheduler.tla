---------------------------- MODULE CronScheduler ----------------------------
(***************************************************************************)
(* The cron scheduler (internal/jobs/scheduler/scheduler.go): instances    *)
(* elect a leader through a Redis lease, and each leader's cron entries    *)
(* claim the execution window before they enqueue the window's job.        *)
(*                                                                         *)
(* One action is one Redis command or one section under leaderMu.  Time    *)
(* counts minutes.  An instance that restarts is another Instance: its     *)
(* instanceID is a fresh UUID.  Registered jobs are named by Job.  Enqueue *)
(* is one step that succeeds or fails; its inner steps are in JobQueue.    *)
(***************************************************************************)
EXTENDS Integers

CONSTANTS
  Instance,     \* scheduler instances, one per process
  Job,          \* names of scheduled jobs
  None,         \* the Redis key does not exist
  Fields,       \* the number of fields of each job's cron expression
  CronFields,   \* the number of fields the parser of s.cron takes: six in the
                \* code, with which NothingFires; all else is about five
  Period,       \* minutes from one time the schedule names to the next
  Width,        \* minutes of each job's execution window
  Singleton,    \* jobs registered with Singleton set
  DedupTTL,     \* CronDeduplicationTTL, in minutes
  Slow,         \* instances whose renewals may come later than LeaderLockTTL
  Stoppable,    \* instances that may be stopped or lose their context
  MaxTime,      \* bound on the clock
  MaxFaults     \* bound on failed Redis calls and crashes

Time   == 0..MaxTime
Run    == Instance \X Job \X Time    \* a goroutine, by the time it was due
Status == {"new", "running", "stopping", "released", "stopped", "dead"}

\* getExecutionWindow numbers the windows of equal width from time zero.
GetExecutionWindow(j, t) == t \div Width[j]

ASSUME CronAssumption ==
  /\ None \notin Instance
  /\ Singleton \subseteq Job /\ Slow \subseteq Instance /\ Stoppable \subseteq Instance
  /\ Fields \in [Job -> Nat] /\ CronFields \in Nat
  /\ Period \in [Job -> Nat \ {0}] /\ Width \in [Job -> Nat \ {0}]
  /\ MaxTime \in Nat /\ MaxFaults \in Nat /\ DedupTTL \in Nat

\* No execution window outlasts the key that claims it.  The hourly and the
\* daily window meet this with CronDeduplicationTTL at 24 hours; the weekly
\* and the monthly one do not.
ASSUME WindowAssumption ==
  \A j \in Job : \A t, u \in Time :
    /\ GetExecutionWindow(j, t) \in Time
    /\ u >= t + DedupTTL => GetExecutionWindow(j, t) # GetExecutionWindow(j, u)

VARIABLES
  now,         \* the clock
  status,      \* of each instance: Start and Stop
  registered,  \* s.jobs of each instance
  entries,     \* the entries of s.cron, by job
  due,         \* the next time each entry is due
  loop,        \* leaderElectionLoop is running
  mu,          \* who holds leaderMu for writing, and where they are
  isLeader,    \* s.isLeader
  leader,      \* the leader key: the instance that wrote it, or None
  pc, win,     \* of each goroutine in executeScheduledJob: its window
  claims,      \* execution keys: job, window and the time of the SETNX
  singleton,   \* the singleton lock of each job: the instance, or None
  enqueued,    \* history: the goroutines that enqueued, with their window
  dropped,     \* history: claimed windows that were given up
  faults       \* failed Redis calls and crashes so far

instanceVars == <<status, registered, entries, due>>
leaderVars   == <<loop, mu, isLeader, leader>>
runVars      == <<pc, win, claims, enqueued, dropped>>
cronVars     == <<now, instanceVars, leaderVars, runVars, singleton, faults>>

CronInit ==
  /\ now = 0
  /\ status     = [p \in Instance |-> "new"]
  /\ registered = [p \in Instance |-> {}]
  /\ entries    = [p \in Instance |-> {}]
  /\ due        = [p \in Instance |-> [j \in Job |-> 0]]
  /\ loop       = [p \in Instance |-> FALSE]
  /\ mu         = [p \in Instance |-> "free"]
  /\ isLeader   = [p \in Instance |-> FALSE]
  /\ leader     = None
  /\ pc  = [r \in Run |-> "none"]
  /\ win = [r \in Run |-> 0]
  /\ claims = {} /\ enqueued = {} /\ dropped = {}
  /\ singleton = [j \in Job |-> None]
  /\ faults = 0

Fault == faults < MaxFaults /\ faults' = faults + 1

Up(p) == status[p] \notin {"new", "dead"}

----------------------------------------------------------------------------
\* Start and Stop.

\* RegisterJob refuses a name it has and an expression that does not have
\* the five fields of its own parser.
RegisterJob(p, j) ==
  /\ status[p] = "new" /\ j \notin registered[p]
  /\ Fields[j] = 5
  /\ registered' = [registered EXCEPT ![p] = @ \cup {j}]
  /\ UNCHANGED <<now, status, entries, due, leaderVars, runVars, singleton, faults>>

\* The first time after t that the schedule names.
NextDue(j, t) == ((t \div Period[j]) + 1) * Period[j]

\* AddFunc refuses an expression without the fields s.cron parses;
\* setupCronJobs logs the error and goes on with the next job.
SetupCronJobs(p) ==
  /\ entries' = [entries EXCEPT ![p] = {j \in registered[p] : Fields[j] = CronFields}]
  /\ due' = [due EXCEPT ![p] = [j \in Job |-> NextDue(j, now)]]

\* Both programs register their jobs before Start.
RegisterDefaultScheduledJobs(p) == \A j \in Job : Fields[j] = 5 => j \in registered[p]

Start(p) ==
  /\ status[p] = "new"
  /\ RegisterDefaultScheduledJobs(p)
  /\ status' = [status EXCEPT ![p] = "running"]
  /\ loop' = [loop EXCEPT ![p] = TRUE]
  /\ SetupCronJobs(p)
  /\ UNCHANGED <<now, registered, mu, isLeader, leader, runVars, singleton, faults>>

\* Stop closes stopCh and stops the cron: no entry fires any more.
Stop(p) ==
  /\ p \in Stoppable /\ status[p] = "running"
  /\ status' = [status EXCEPT ![p] = "stopping"]
  /\ entries' = [entries EXCEPT ![p] = {}]
  /\ UNCHANGED <<now, registered, due, leaderVars, runVars, singleton, faults>>

\* wg.Wait returns once the election loop is gone.
StopReturns(p) ==
  /\ status[p] = "released" /\ ~loop[p]
  /\ status' = [status EXCEPT ![p] = "stopped"]
  /\ UNCHANGED <<now, registered, entries, due, leaderVars, runVars, singleton, faults>>

----------------------------------------------------------------------------
\* Leader election.

\* The loop also ends when the context of Start is done: cmd/worker cancels
\* it before Stop, and a start hook's context is done after the start-up.
LoopEnds(p) ==
  /\ p \in Stoppable /\ loop[p] /\ mu[p] \notin {"get", "renew"}
  /\ loop' = [loop EXCEPT ![p] = FALSE]
  /\ UNCHANGED <<now, instanceVars, mu, isLeader, leader, runVars, singleton, faults>>

\* SETNX of the leader key, at the start of the loop and on each tick.
TryAcquireLeadership(p) ==
  /\ loop[p] /\ mu[p] = "free"
  /\ IF leader = None
       THEN /\ leader' = p
            /\ isLeader' = [isLeader EXCEPT ![p] = TRUE]
            /\ UNCHANGED mu
       ELSE /\ mu' = [mu EXCEPT ![p] = "get"]
            /\ UNCHANGED <<leader, isLeader>>
  /\ UNCHANGED <<now, instanceVars, loop, runVars, singleton, faults>>

\* The SETNX returns an error: Redis may have run it all the same.
AcquireFails(p) ==
  /\ loop[p] /\ mu[p] = "free" /\ Fault
  /\ leader' \in {leader, IF leader = None THEN p ELSE leader}
  /\ isLeader' = [isLeader EXCEPT ![p] = FALSE]
  /\ UNCHANGED <<now, instanceVars, loop, mu, runVars, singleton>>

\* Mutant: the lease is renewed whoever has the key.
RenewAnyLease(p) ==
  /\ mu[p] = "get"
  /\ mu' = [mu EXCEPT ![p] = "renew"]
  /\ UNCHANGED <<now, instanceVars, loop, isLeader, leader, runVars, singleton, faults>>

\* GET of the leader key, which may be gone by now.
CheckLeader(p) ==
  /\ mu[p] = "get"
  /\ IF leader = p
       THEN mu' = [mu EXCEPT ![p] = "renew"] /\ UNCHANGED isLeader
       ELSE /\ mu' = [mu EXCEPT ![p] = "free"]
            /\ isLeader' = [isLeader EXCEPT ![p] = FALSE]
  /\ UNCHANGED <<now, instanceVars, loop, leader, runVars, singleton, faults>>

CheckFails(p) ==
  /\ mu[p] = "get" /\ Fault
  /\ mu' = [mu EXCEPT ![p] = "free"]
  /\ isLeader' = [isLeader EXCEPT ![p] = FALSE]
  /\ UNCHANGED <<now, instanceVars, loop, leader, runVars, singleton>>

\* Mutant: a renewal does not set isLeader.
RenewForgetsFlag(p) ==
  /\ mu[p] = "renew"
  /\ mu' = [mu EXCEPT ![p] = "free"]
  /\ UNCHANGED <<now, instanceVars, loop, isLeader, leader, runVars, singleton, faults>>

\* EXPIRE of the leader key, whoever owns it now; its error is ignored.
RenewLease(p) ==
  /\ mu[p] = "renew"
  /\ mu' = [mu EXCEPT ![p] = "free"]
  /\ isLeader' = [isLeader EXCEPT ![p] = TRUE]
  /\ UNCHANGED <<now, instanceVars, loop, leader, runVars, singleton, faults>>

\* releaseLeadership, which Stop calls once the running entries are done or
\* its context is: the GET, or the early return of an instance that is not
\* leader.  A failed GET only drops the flag.
ReleaseLeadership(p) ==
  /\ status[p] = "stopping" /\ mu[p] = "free"
  /\ IF isLeader[p] /\ leader = p
       THEN mu' = [mu EXCEPT ![p] = "delete"] /\ UNCHANGED <<status, isLeader>>
       ELSE /\ status' = [status EXCEPT ![p] = "released"]
            /\ isLeader' = [isLeader EXCEPT ![p] = FALSE]
            /\ UNCHANGED mu
  /\ UNCHANGED <<now, registered, entries, due, loop, leader, runVars, singleton, faults>>

ReleaseFails(p) ==
  /\ status[p] = "stopping" /\ mu[p] = "free" /\ isLeader[p] /\ Fault
  /\ status' = [status EXCEPT ![p] = "released"]
  /\ isLeader' = [isLeader EXCEPT ![p] = FALSE]
  /\ UNCHANGED <<now, registered, entries, due, loop, mu, leader, runVars, singleton>>

\* DEL of the leader key.
DeleteLeader(p) ==
  /\ mu[p] = "delete"
  /\ leader' = None
  /\ mu' = [mu EXCEPT ![p] = "free"]
  /\ isLeader' = [isLeader EXCEPT ![p] = FALSE]
  /\ status' = [status EXCEPT ![p] = "released"]
  /\ UNCHANGED <<now, registered, entries, due, loop, runVars, singleton, faults>>

DeleteFails(p) ==
  /\ mu[p] = "delete" /\ Fault
  /\ mu' = [mu EXCEPT ![p] = "free"]
  /\ isLeader' = [isLeader EXCEPT ![p] = FALSE]
  /\ status' = [status EXCEPT ![p] = "released"]
  /\ UNCHANGED <<now, registered, entries, due, loop, leader, runVars, singleton>>

\* The lease runs out.  The loop renews it three times per TTL, so the key of
\* an instance whose loop runs goes only when the instance is slow.
LeaseExpires ==
  /\ leader # None
  /\ leader \in Slow \/ ~loop[leader]
  /\ leader' = None
  /\ UNCHANGED <<now, instanceVars, loop, mu, isLeader, runVars, singleton, faults>>

----------------------------------------------------------------------------
\* A cron entry: executeScheduledJob.

InstanceOf(r) == r[1]
JobOf(r)      == r[2]

RGoto(r, l) == pc' = [pc EXCEPT ![r] = l]

Return(r) == RGoto(r, "done") /\ win' = [win EXCEPT ![r] = 0]

\* The cron runs an entry that is due in a goroutine of its own, and the
\* entry's next time is counted from now: times that were missed are skipped.
Fire(p, j) ==
  /\ status[p] = "running" /\ j \in entries[p] /\ now >= due[p][j]
  /\ RGoto(<<p, j, due[p][j]>>, "start")
  /\ due' = [due EXCEPT ![p][j] = NextDue(j, now)]
  /\ UNCHANGED <<now, status, registered, entries, leaderVars, win, claims,
                 enqueued, dropped, singleton, faults>>

\* The flag is read under leaderMu, the window computed after that.
CheckLeadership(r) ==
  /\ pc[r] = "start" /\ mu[InstanceOf(r)] = "free"
  /\ IF isLeader[InstanceOf(r)]
       THEN /\ RGoto(r, "claim")
            /\ win' = [win EXCEPT ![r] = GetExecutionWindow(JobOf(r), now)]
       ELSE Return(r)
  /\ UNCHANGED <<now, instanceVars, leaderVars, claims, enqueued, dropped,
                 singleton, faults>>

Key(r) == <<JobOf(r), win[r]>>
Claimed(k) == \E t \in Time : <<k, t>> \in claims

\* Mutant: SET instead of SETNX.
ClaimUnchecked(r) ==
  /\ pc[r] = "claim"
  /\ claims' = claims \cup {<<Key(r), now>>}
  /\ RGoto(r, IF JobOf(r) \in Singleton THEN "singleton" ELSE "enqueue")
  /\ UNCHANGED <<now, instanceVars, leaderVars, win, enqueued, dropped,
                 singleton, faults>>

\* SETNX of the execution key.
AcquireCronExecutionLock(r) ==
  /\ pc[r] = "claim"
  /\ IF Claimed(Key(r))
       THEN Return(r) /\ UNCHANGED claims
       ELSE /\ claims' = claims \cup {<<Key(r), now>>}
            /\ RGoto(r, IF JobOf(r) \in Singleton THEN "singleton" ELSE "enqueue")
            /\ UNCHANGED win
  /\ UNCHANGED <<now, instanceVars, leaderVars, enqueued, dropped, singleton,
                 faults>>

\* Its reply is an error.  The key may be there: the window is given up.
ClaimFails(r) ==
  /\ pc[r] = "claim" /\ Fault
  /\ Return(r)
  /\ \/ UNCHANGED <<claims, dropped>>
     \/ /\ ~Claimed(Key(r))
        /\ claims' = claims \cup {<<Key(r), now>>}
        /\ dropped' = dropped \cup {Key(r)}
  /\ UNCHANGED <<now, instanceVars, leaderVars, enqueued, singleton>>

\* Mutant: an unknown singleton status skips the job without a trace.
SkipsOnError(r) ==
  /\ pc[r] = "singleton" /\ Fault
  /\ Return(r)
  /\ UNCHANGED <<now, instanceVars, leaderVars, claims, enqueued, dropped,
                 singleton>>

\* EXISTS of the singleton lock: the window is given up if it is held.
IsSingletonJobRunning(r) ==
  /\ pc[r] = "singleton"
  /\ IF singleton[JobOf(r)] # None
       THEN Return(r) /\ dropped' = dropped \cup {Key(r)}
       ELSE RGoto(r, "enqueue") /\ UNCHANGED <<win, dropped>>
  /\ UNCHANGED <<now, instanceVars, leaderVars, claims, enqueued, singleton,
                 faults>>

\* On an error the job is enqueued without the check.
SingletonUnknown(r) ==
  /\ pc[r] = "singleton" /\ Fault
  /\ RGoto(r, "enqueue")
  /\ UNCHANGED <<now, instanceVars, leaderVars, win, claims, enqueued, dropped,
                 singleton>>

Enqueue(r) ==
  /\ pc[r] = "enqueue"
  /\ Return(r)
  /\ enqueued' = enqueued \cup {<<r, Key(r)>>}
  /\ UNCHANGED <<now, instanceVars, leaderVars, claims, dropped,
                 singleton, faults>>

\* Enqueue returns an error, with the job pushed or not.
EnqueueFails(r) ==
  /\ pc[r] = "enqueue" /\ Fault
  /\ Return(r)
  /\ \/ enqueued' = enqueued \cup {<<r, Key(r)>>} /\ UNCHANGED dropped
     \/ dropped' = dropped \cup {Key(r)} /\ UNCHANGED enqueued
  /\ UNCHANGED <<now, instanceVars, leaderVars, claims, singleton>>

\* The execution key goes after its TTL.  No SETNX takes that long.
ClaimExpires(c) ==
  /\ now >= c[2] + DedupTTL
  /\ \A r \in Run : pc[r] = "claim" => Key(r) # c[1]
  /\ claims' = claims \ {c}
  /\ UNCHANGED <<now, instanceVars, leaderVars, pc, win, enqueued, dropped,
                 singleton, faults>>

----------------------------------------------------------------------------
\* The singleton lock, which the handler of an enqueued singleton job takes.

AcquireSingletonLock(p, j) ==
  /\ Up(p) /\ j \in Singleton /\ singleton[j] = None
  /\ \E e \in enqueued : e[2][1] = j
  /\ singleton' = [singleton EXCEPT ![j] = p]
  /\ UNCHANGED <<now, instanceVars, leaderVars, runVars, faults>>

ReleaseSingletonLock(p, j) ==
  /\ Up(p) /\ singleton[j] = p
  /\ singleton' = [singleton EXCEPT ![j] = None]
  /\ UNCHANGED <<now, instanceVars, leaderVars, runVars, faults>>

\* The caller's ttl runs out, at any time.
SingletonExpires(j) ==
  /\ singleton[j] # None
  /\ singleton' = [singleton EXCEPT ![j] = None]
  /\ UNCHANGED <<now, instanceVars, leaderVars, runVars, faults>>

----------------------------------------------------------------------------
\* The environment.

\* The process dies, or exits after Stop: what its goroutines held is gone,
\* and a window that one of them had claimed is given up.
Crash(p) ==
  /\ Up(p) /\ Fault
  /\ status'   = [status EXCEPT ![p] = "dead"]
  /\ entries'  = [entries EXCEPT ![p] = {}]
  /\ due'      = [due EXCEPT ![p] = [j \in Job |-> 0]]
  /\ loop'     = [loop EXCEPT ![p] = FALSE]
  /\ mu'       = [mu EXCEPT ![p] = "free"]
  /\ isLeader' = [isLeader EXCEPT ![p] = FALSE]
  /\ pc' = [r \in Run |-> IF InstanceOf(r) = p THEN "done" ELSE pc[r]]
  /\ win' = [r \in Run |-> IF InstanceOf(r) = p THEN 0 ELSE win[r]]
  /\ dropped' = dropped \cup
       {Key(r) : r \in {s \in Run : InstanceOf(s) = p /\ pc[s] \in {"singleton", "enqueue"}}}
  /\ UNCHANGED <<now, registered, leader, claims, singleton, enqueued>>

Tick ==
  /\ now < MaxTime
  /\ now' = now + 1
  /\ UNCHANGED <<instanceVars, leaderVars, runVars, singleton, faults>>

----------------------------------------------------------------------------
Election(p) ==
  \/ TryAcquireLeadership(p) \/ AcquireFails(p)
  \/ CheckLeader(p) \/ CheckFails(p) \/ RenewLease(p) \/ LoopEnds(p)

Lifecycle(p) ==
  \/ Start(p) \/ Stop(p) \/ StopReturns(p) \/ Crash(p)
  \/ ReleaseLeadership(p) \/ ReleaseFails(p) \/ DeleteLeader(p) \/ DeleteFails(p)

ExecuteScheduledJob(r) ==
  \/ CheckLeadership(r) \/ AcquireCronExecutionLock(r) \/ ClaimFails(r)
  \/ IsSingletonJobRunning(r) \/ SingletonUnknown(r)
  \/ Enqueue(r) \/ EnqueueFails(r)

JobOperation(p, j) ==
  \/ RegisterJob(p, j) \/ Fire(p, j)
  \/ AcquireSingletonLock(p, j) \/ ReleaseSingletonLock(p, j)

CronNext ==
  \/ \E p \in Instance : Election(p) \/ Lifecycle(p)
  \/ \E p \in Instance, j \in Job : JobOperation(p, j)
  \/ \E r \in Run : ExecuteScheduledJob(r)
  \/ \E j \in Job : SingletonExpires(j)
  \/ \E c \in claims : ClaimExpires(c)
  \/ LeaseExpires \/ Tick

CronSpec == CronInit /\ [][CronNext]_cronVars

\* The ticker drives the election loop, a Redis call under leaderMu returns,
\* and Redis drops a lease that nobody renews.
CronFairness ==
  /\ \A p \in Instance :
       /\ WF_cronVars(TryAcquireLeadership(p))
       /\ WF_cronVars(CheckLeader(p))
       /\ WF_cronVars(RenewLease(p))
       /\ WF_cronVars(DeleteLeader(p))
  /\ WF_cronVars(LeaseExpires)

FairCronSpec == CronSpec /\ CronFairness

----------------------------------------------------------------------------
\* Properties.

\* acquireCronExecutionLock "prevents duplicate execution in same window":
\* however many instances take themselves for the leader, and whatever
\* crashes or fails, one execution window enqueues its job at most once.
AtMostOncePerWindow ==
  \A a, b \in enqueued : a[2] = b[2] => a = b

\* A window that was claimed is not forgotten: its job was enqueued, a
\* goroutine is about to do it, or executeScheduledJob gave the window up
\* (a failed call, a crash, or a singleton job that was running).
ClaimedAccounted ==
  \A c \in claims :
    \/ \E e \in enqueued : e[2] = c[1]
    \/ c[1] \in dropped
    \/ \E r \in Run : pc[r] \in {"singleton", "enqueue"} /\ Key(r) = c[1]

\* tryAcquireLeadership: an instance that renews in time is leader only while
\* the leader key is its own, unless another instance's Stop deleted the key.
LeaderHoldsKey ==
  \A p \in Instance \ Slow :
    isLeader[p] /\ loop[p]
      => leader = p \/ \E q \in Instance \ {p} : status[q] \in {"released", "stopped", "dead"}

\* Again and again, as long as election loops run, one of them has the key
\* and the flag: a lost reply or a dead leader costs at most a lease.
Elected ==
  []<>(\/ \A p \in Instance : ~loop[p]
       \/ \E p \in Instance : loop[p] /\ isLeader[p] /\ leader = p)

\* RegisterJob lets only five fields pass, and s.cron takes CronFields of
\* them: unless both are five no entry is ever set up, and the scheduler
\* enqueues nothing.  The code makes s.cron with WithSeconds: six fields.
NothingFires == CronFields # 5 => enqueued = {}
=============================================================================
