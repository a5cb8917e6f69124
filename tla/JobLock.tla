------------------------------- MODULE JobLock -------------------------------
(***************************************************************************)
(* The distributed job lock (internal/jobs/lock/distributed_lock.go).      *)
(*                                                                         *)
(* Each process has one LockManager; its workers acquire a lock per job, a *)
(* heartbeat goroutine per lock object extends the TTL, the cleaner of     *)
(* each process deletes locks it takes for stale, and Stop releases what   *)
(* the process still holds.  One action is one Redis command or one        *)
(* section under a mutex.  The per-worker job lists are left out: they are *)
(* only reported.                                                          *)
(***************************************************************************)
EXTENDS Jobs, Integers, FiniteSets

CONSTANTS
  Pool,           \* processes: one WorkerPool and one LockManager each
  PoolOf,         \* the process of each worker
  Slow,           \* processes whose Redis calls may fail or come too late
  Stoppable,      \* processes that may be told to stop
  None,           \* the lock key does not exist
  Orphan,         \* a lock value written by a process that has died since
  Now,            \* Unix time, in seconds
  StaleAfter,     \* StaleJobThreshold, in seconds
  MaxCleanups     \* bound on the cleaners' rounds

ASSUME LockAssumption ==
  /\ PoolOf \in [Worker -> Pool]
  /\ Slow \subseteq Pool /\ Stoppable \subseteq Pool
  /\ NoJob \notin Job
  /\ None \notin Worker /\ Orphan \notin Worker /\ None # Orphan
  /\ Now \in Nat /\ StaleAfter \in Nat /\ Now > StaleAfter
  /\ MaxCleanups \in Nat

VARIABLES
  lock,      \* arcana:jobs:lock:<job>, by the worker that wrote the value
  running,   \* the hash of running jobs: the start time of each, 0 for none
  active,    \* activeLocks of each process: the worker of the lock object
  obj,       \* each worker's lock object: its job and the held flag
  lpc,       \* where each worker is in AcquireLock and ReleaseLock
  cleaner,   \* each cleaner: jobs still to clean up, the one it has deleted
  stopper,   \* each Stop: lock objects still to release, and where it is
  cleanups   \* rounds the cleaners have begun

lockVars == <<lock, running, active, obj, lpc, cleaner, stopper, cleanups>>

Start  == Now            \* when a job in the running hash was started
Object == Worker \X Job  \* lock objects, by their worker and job
NoLock == <<None, NoJob>>
stopped == {p \in Pool : stopper[p].at # "no"}

Cleaner == [todo: SUBSET Job, cur: Job \cup {NoJob}]
Stopper == [at: {"no", "loop", "untrack", "unregister"}, todo: SUBSET Object,
            cur: Object \cup {NoLock}]

LPC == {"idle", "track", "register", "hold", "untrack", "unregister"}

LockInit ==
  /\ lock     = [j \in Job |-> None]
  /\ running  = [j \in Job |-> 0]
  /\ active   = [p \in Pool |-> [j \in Job |-> None]]
  /\ obj      = [w \in Worker |-> [job |-> NoJob, held |-> FALSE]]
  /\ lpc      = [w \in Worker |-> "idle"]
  /\ cleaner  = [p \in Pool |-> [todo |-> {}, cur |-> NoJob]]
  /\ stopper  = [p \in Pool |-> [at |-> "no", todo |-> {}, cur |-> NoLock]]
  /\ cleanups = 0

LGoto(w, l) == lpc' = [lpc EXCEPT ![w] = l]

\* The Lua scripts compare the value's prefix with the process's worker ID:
\* all workers of a process have the same one.
OwnedBy(j, p) == lock[j] \in Worker /\ PoolOf[lock[j]] = p
-----------------------------------------------------------------------------
(* AcquireLock.                                                            *)

\* Mutant: SET instead of SETNX.
AcquireUnchecked(w, j) ==
  /\ lpc[w] = "idle"
  /\ lock' = [lock EXCEPT ![j] = w]
  /\ obj' = [obj EXCEPT ![w] = [job |-> j, held |-> TRUE]]
  /\ LGoto(w, "track")
  /\ stopper' = [stopper EXCEPT ![PoolOf[w]].todo = @ \ {<<w, j>>}]
  /\ UNCHANGED <<running, active, cleaner, cleanups>>

\* SETNX; the lock object is created held and its heartbeat starts.
AcquireLock(w, j) ==
  /\ lpc[w] = "idle" /\ lock[j] = None
  /\ lock' = [lock EXCEPT ![j] = w]
  /\ obj' = [obj EXCEPT ![w] = [job |-> j, held |-> TRUE]]
  /\ LGoto(w, "track")
  \* the new object is none of those a Stop of the process has listed
  /\ stopper' = [stopper EXCEPT ![PoolOf[w]].todo = @ \ {<<w, j>>}]
  /\ UNCHANGED <<running, active, cleaner, cleanups>>

\* The SETNX returns an error: Redis may have run it all the same.
AcquireFails(w, j) ==
  /\ lpc[w] = "idle" /\ lock[j] = None /\ PoolOf[w] \in Slow
  /\ lock' = [lock EXCEPT ![j] = w]
  /\ UNCHANGED <<running, active, obj, lpc, cleaner, stopper, cleanups>>

\* Nobody looks at the errors of HSET and HDEL.
SetRunning(p, j, t) ==
  \/ running' = [running EXCEPT ![j] = t]
  \/ p \in Slow /\ UNCHANGED running

\* trackRunningJob: HSET
TrackRunningJob(w) ==
  /\ lpc[w] = "track"
  /\ SetRunning(PoolOf[w], obj[w].job, Start)
  /\ LGoto(w, "register")
  /\ UNCHANGED <<lock, active, obj, cleaner, stopper, cleanups>>

\* activeLocks[jobID] = lock
Register(w) ==
  /\ lpc[w] = "register"
  /\ active' = [active EXCEPT ![PoolOf[w]][obj[w].job] = w]
  /\ LGoto(w, "hold")
  /\ UNCHANGED <<lock, running, obj, cleaner, stopper, cleanups>>
-----------------------------------------------------------------------------
(* ReleaseLock, by the worker or, for every lock object of the process, by *)
(* ReleaseAllLocks.                                                        *)

DropHeld(w) == obj' = [obj EXCEPT ![w].held = FALSE]

\* The mutex of the object is taken while Stop releases it.
Locked(w) == \E p \in Pool : /\ stopper[p].at \in {"untrack", "unregister"}
                             /\ stopper[p].cur = <<w, obj[w].job>>

\* Mutant: a plain DEL.
DeleteAny(j, p) == lock' = [lock EXCEPT ![j] = None]

\* EVAL: delete the key if the prefix matches.
DeleteOwn(j, p) == lock' = IF OwnedBy(j, p) THEN [lock EXCEPT ![j] = None]
                                            ELSE lock

\* Mutant: ReleaseLock returns before it stops the heartbeat.
ReleaseNothing(w) ==
  /\ lpc[w] = "hold" /\ ~Locked(w)
  /\ LGoto(w, "idle")
  /\ UNCHANGED <<lock, obj, running, active, cleaner, stopper, cleanups>>

\* Nothing happens to a lock that is no longer held; otherwise the heartbeat
\* is stopped and the key is deleted.
ReleaseLock(w) ==
  /\ lpc[w] = "hold" /\ ~Locked(w)
  /\ IF obj[w].held
       THEN /\ DropHeld(w)
            /\ DeleteOwn(obj[w].job, PoolOf[w])
            /\ LGoto(w, "untrack")
       ELSE LGoto(w, "idle") /\ UNCHANGED <<lock, obj>>
  /\ UNCHANGED <<running, active, cleaner, stopper, cleanups>>

\* The EVAL fails: ReleaseLock returns the error, and the key, the entry of
\* the running hash and the one in activeLocks stay.
ReleaseFails(w) ==
  /\ lpc[w] = "hold" /\ obj[w].held /\ PoolOf[w] \in Slow
  /\ DropHeld(w)
  /\ LGoto(w, "idle")
  /\ UNCHANGED <<lock, running, active, cleaner, stopper, cleanups>>

\* untrackRunningJob: HDEL
UntrackRunningJob(w) ==
  /\ lpc[w] = "untrack"
  /\ SetRunning(PoolOf[w], obj[w].job, 0)
  /\ LGoto(w, "unregister")
  /\ UNCHANGED <<lock, active, obj, cleaner, stopper, cleanups>>

\* delete(activeLocks, jobID)
Unregister(w) ==
  /\ lpc[w] = "unregister"
  /\ active' = [active EXCEPT ![PoolOf[w]][obj[w].job] = None]
  /\ LGoto(w, "idle")
  /\ UNCHANGED <<lock, running, obj, cleaner, stopper, cleanups>>

\* WorkerPool.Stop calls ReleaseAllLocks before it waits for the workers, and
\* both programs call it again after that: it copies activeLocks ...
ReleaseAllLocks(p) ==
  /\ stopper[p].at \in {"no", "loop"} /\ stopper[p].todo = {} /\ p \in Stoppable
  /\ stopper' = [stopper EXCEPT ![p] =
       [at |-> "loop", cur |-> NoLock,
        todo |-> {o \in Object : active[p][o[2]] = o[1]
                                 /\ obj[o[1]].job = o[2]}]]
  /\ UNCHANGED <<lock, running, active, obj, lpc, cleaner, cleanups>>

\* ... and calls ReleaseLock for each object: EVAL,
StopRelease(p, o) ==
  LET w == o[1]  j == o[2] IN
  /\ stopper[p].at = "loop" /\ o \in stopper[p].todo
  /\ ~(obj[w].job = j /\ lpc[w] \in {"untrack", "unregister"})
  /\ IF obj[w].job = j /\ obj[w].held
       THEN /\ DropHeld(w)
            /\ DeleteOwn(j, p)
            /\ stopper' = [stopper EXCEPT ![p] = [at |-> "untrack", cur |-> o,
                                                  todo |-> @.todo \ {o}]]
       ELSE /\ stopper' = [stopper EXCEPT ![p].todo = @ \ {o}]
            /\ UNCHANGED <<lock, obj>>
  /\ UNCHANGED <<running, active, lpc, cleaner, cleanups>>

\* whose error only ends the release of this object,
StopReleaseFails(p, o) ==
  /\ stopper[p].at = "loop" /\ o \in stopper[p].todo /\ p \in Slow
  /\ obj[o[1]] = [job |-> o[2], held |-> TRUE]
  /\ DropHeld(o[1])
  /\ stopper' = [stopper EXCEPT ![p].todo = @ \ {o}]
  /\ UNCHANGED <<lock, running, active, lpc, cleaner, cleanups>>

\* HDEL,
StopUntrack(p) ==
  /\ stopper[p].at = "untrack"
  /\ SetRunning(p, stopper[p].cur[2], 0)
  /\ stopper' = [stopper EXCEPT ![p].at = "unregister"]
  /\ UNCHANGED <<lock, active, obj, lpc, cleaner, cleanups>>

\* and the entry in activeLocks.
StopUnregister(p) ==
  /\ stopper[p].at = "unregister"
  /\ active' = [active EXCEPT ![p][stopper[p].cur[2]] = None]
  /\ stopper' = [stopper EXCEPT ![p] = [at |-> "loop", cur |-> NoLock,
                                        todo |-> @.todo]]
  /\ UNCHANGED <<lock, running, obj, lpc, cleaner, cleanups>>
-----------------------------------------------------------------------------
(* Heartbeats, time and the stale-job cleaner.                             *)

\* A tick that finds the prefix extends the TTL and changes nothing else; one
\* that does not, or fails, marks the lock as lost and ends the goroutine.
\* Nobody tells the handler.
LoseLock(w) ==
  /\ lpc[w] \in {"track", "register", "hold"} /\ obj[w].held
  /\ ~OwnedBy(obj[w].job, PoolOf[w]) \/ PoolOf[w] \in Slow
  /\ DropHeld(w)
  /\ UNCHANGED <<lock, running, active, lpc, cleaner, stopper, cleanups>>

\* Some heartbeat of process p keeps extending the key of job j.
KeptAlive(j, p) ==
  \E w \in Worker : PoolOf[w] = p /\ obj[w].job = j /\ obj[w].held

\* Mutant: SETNX without a TTL; only a heartbeat ever sets one.
ExpireUnlessOrphan(j) ==
  /\ lock[j] \notin {None, Orphan}
  /\ \A p \in Pool \ Slow : OwnedBy(j, p) => ~KeptAlive(j, p)
  /\ lock' = [lock EXCEPT ![j] = None]
  /\ UNCHANGED <<running, active, obj, lpc, cleaner, stopper, cleanups>>

\* The TTL of a lock that no heartbeat extends in time runs out.
Expire(j) ==
  /\ lock[j] # None
  /\ \A p \in Pool \ Slow : OwnedBy(j, p) => ~KeptAlive(j, p)
  /\ lock' = [lock EXCEPT ![j] = None]
  /\ UNCHANGED <<running, active, obj, lpc, cleaner, stopper, cleanups>>

\* CleanupStaleJobs reads "worker:timestamp" with Sscanf("%s:%d"): %s takes the
\* whole word, so the timestamp keeps its zero value.
ParsedTimestamp(v) == 0

\* HGETALL, and the judgement on each entry.
CleanupScan(p) ==
  /\ cleaner[p].todo = {} /\ cleaner[p].cur = NoJob /\ cleanups < MaxCleanups
  /\ cleanups' = cleanups + 1
  /\ cleaner' = [cleaner EXCEPT ![p].todo =
       {j \in Job : running[j] # 0 /\ Now - ParsedTimestamp(running[j]) > StaleAfter}]
  /\ UNCHANGED <<lock, running, active, obj, lpc, stopper>>

\* DEL lock:<job>, whoever holds the lock by now; its error is ignored; ...
CleanupDelete(p, j) ==
  /\ j \in cleaner[p].todo /\ cleaner[p].cur = NoJob
  /\ \/ lock' = [lock EXCEPT ![j] = None]
     \/ p \in Slow /\ UNCHANGED lock
  /\ cleaner' = [cleaner EXCEPT ![p] = [todo |-> @.todo \ {j}, cur |-> j]]
  /\ UNCHANGED <<running, active, obj, lpc, stopper, cleanups>>

\* ... and HDEL running
CleanupUntrack(p) ==
  /\ cleaner[p].cur # NoJob
  /\ SetRunning(p, cleaner[p].cur, 0)
  /\ cleaner' = [cleaner EXCEPT ![p].cur = NoJob]
  /\ UNCHANGED <<lock, active, obj, lpc, stopper, cleanups>>

\* The process dies: its keys stay, written by an ID nobody has any more.
LockCrash(p) ==
  /\ lock' = [j \in Job |-> IF OwnedBy(j, p) THEN Orphan ELSE lock[j]]
  /\ active' = [active EXCEPT ![p] = [j \in Job |-> None]]
  /\ obj' = [w \in Worker |-> IF PoolOf[w] = p THEN [job |-> NoJob, held |-> FALSE]
                                                ELSE obj[w]]
  /\ lpc' = [w \in Worker |-> IF PoolOf[w] = p THEN "idle" ELSE lpc[w]]
  /\ cleaner' = [cleaner EXCEPT ![p] = [todo |-> {}, cur |-> NoJob]]
  /\ stopper' = [stopper EXCEPT ![p] = [at |-> "no", todo |-> {}, cur |-> NoLock]]
  /\ UNCHANGED <<running, cleanups>>

\* What happens in a lock manager besides the workers' own calls.
StopStep(p) ==
  \/ ReleaseAllLocks(p) \/ StopUntrack(p) \/ StopUnregister(p)
  \/ \E o \in Object : StopRelease(p, o) \/ StopReleaseFails(p, o)
CleanupStep(p) ==
  CleanupScan(p) \/ CleanupUntrack(p) \/ \E j \in Job : CleanupDelete(p, j)

LockEnvironment ==
  \/ \E w \in Worker : LoseLock(w)
  \/ \E j \in Job : Expire(j)
  \/ \E p \in Pool : StopStep(p) \/ CleanupStep(p)

\* The steps of AcquireLock after the SETNX, and those of ReleaseLock.
Acquiring(w) == TrackRunningJob(w) \/ Register(w)
Releasing(w) ==
  ReleaseLock(w) \/ ReleaseFails(w) \/ UntrackRunningJob(w) \/ Unregister(w)

LockNext ==
  \/ \E w \in Worker : \/ \E j \in Job : AcquireLock(w, j) \/ AcquireFails(w, j)
                       \/ Acquiring(w) \/ Releasing(w)
  \/ LockEnvironment
  \/ \E p \in Pool : LockCrash(p)

LockSpec == LockInit /\ [][LockNext]_lockVars
-----------------------------------------------------------------------------
(* Properties.                                                             *)

\* Every key and variable holds the kind of value the code puts there; a
\* worker inside AcquireLock or ReleaseLock has a lock object.
LockTypeOK ==
  /\ lock \in [Job -> Worker \cup {None, Orphan}]
  /\ running \in [Job -> Nat]
  /\ active \in [Pool -> [Job -> Worker \cup {None}]]
  /\ obj \in [Worker -> [job: Job \cup {NoJob}, held: BOOLEAN]]
  /\ lpc \in [Worker -> LPC]
  /\ cleaner \in [Pool -> Cleaner]
  /\ stopper \in [Pool -> Stopper]
  /\ cleanups \in Nat
  /\ \A w \in Worker : lpc[w] # "idle" => obj[w].job \in Job

\* w is between a successful AcquireLock and its ReleaseLock.
InSection(w) == lpc[w] \in {"track", "register", "hold"}
Timely(w)    == PoolOf[w] \notin Slow \cup stopped

\* As long as no cleaner has run, a worker whose heartbeats are in time and
\* whose process has not begun to stop owns the lock from AcquireLock to
\* ReleaseLock, whatever other processes, slow or crashed ones included, do.
KeepsLock ==
  cleanups = 0 => \A w \in Worker :
    InSection(w) /\ Timely(w) => obj[w].held /\ lock[obj[w].job] = w

\* Two such workers are never in the section for the same job.
Exclusive ==
  cleanups = 0 => \A v, w \in Worker :
    /\ InSection(v) /\ Timely(v) /\ InSection(w) /\ Timely(w)
    /\ obj[v].job = obj[w].job
    => v = w

\* No lock is left behind: a key in Redis that a worker of a live process
\* wrote is one that the worker will release and a heartbeat extends till
\* then, also while the process stops and whatever the cleaners delete.
NoLockLeaked ==
  \A j \in Job : lock[j] \in Worker /\ PoolOf[lock[j]] \notin Slow =>
    InSection(lock[j]) /\ obj[lock[j]] = [job |-> j, held |-> TRUE]
=============================================================================
