-------------------------- MODULE WorkerPoolProofs --------------------------
(***************************************************************************)
(* The job lock (JobLock) excludes and leaks nothing; and the worker pools *)
(* (WorkerPool) run on the queue and on the lock as those are proved to    *)
(* be: no job has two handlers at once and no job is lost.  For any number *)
(* of jobs, workers and processes.                                         *)
(***************************************************************************)
EXTENDS WorkerPool, JobQueueProofs

-----------------------------------------------------------------------------
(* The job lock (JobLock), on its own.                                     *)

\* Only the lock of a worker that has not released it is held; activeLocks and
\* Stop's list have locks of the process itself; and a cleaner that has never
\* scanned has nothing to delete.
Coherent ==
  /\ \A p \in Pool, j \in Job : active[p][j] # None => PoolOf[active[p][j]] = p
  /\ \A p \in Pool : \A o \in stopper[p].todo : PoolOf[o[1]] = p
  /\ \A w \in Worker : obj[w].held => InSection(w)
  /\ cleanups = 0 => \A p \in Pool : cleaner[p] = [todo |-> {}, cur |-> NoJob]

\* The inductive invariant.
LockInv == LockTypeOK /\ Coherent /\ NoLockLeaked /\ KeepsLock

\* Clearing the held flag of one object.
LEMMA DropUpdates ==
  ASSUME LockTypeOK, NEW w \in Worker, DropHeld(w)
  PROVE  /\ obj' \in [Worker -> [job: Job \cup {NoJob}, held: BOOLEAN]]
         /\ obj'[w].job = obj[w].job /\ obj'[w].held = FALSE
         /\ \A v \in Worker : v # w => obj'[v] = obj[v]
         /\ \A v \in Worker : obj'[v].job = obj[v].job
         /\ \A v \in Worker : obj'[v].held => v # w /\ obj[v].held
<1>1. obj \in [Worker -> [job: Job \cup {NoJob}, held: BOOLEAN]]
  BY Zenon DEF LockTypeOK
<1>2. obj' = [obj EXCEPT ![w] = [obj[w] EXCEPT !.held = FALSE]]
  BY Zenon DEF DropHeld
<1>3. [obj[w] EXCEPT !.held = FALSE] \in [job: Job \cup {NoJob}, held: BOOLEAN]
  BY Zenon, <1>1
<1>4. /\ [obj[w] EXCEPT !.held = FALSE].job = obj[w].job
      /\ [obj[w] EXCEPT !.held = FALSE].held = FALSE
  BY Zenon, <1>1
<1>. QED
  BY Zenon, <1>1, <1>2, <1>3, <1>4

\* Deleting a lock key that the process owns.
LEMMA DeleteUpdates ==
  ASSUME LockTypeOK, NEW j \in Job, NEW p \in Pool, DeleteOwn(j, p)
  PROVE  /\ lock' \in [Job -> Worker \cup {None, Orphan}]
         /\ \A i \in Job : i # j => lock'[i] = lock[i]
         /\ OwnedBy(j, p) => lock'[j] = None
         /\ ~OwnedBy(j, p) => lock'[j] = lock[j]
  BY Zenon DEF LockTypeOK, DeleteOwn

\* Setting one entry of the running hash.
LEMMA RunningUpdates ==
  ASSUME LockTypeOK, NEW p, NEW j, NEW t \in Nat, SetRunning(p, j, t)
  PROVE  running' \in [Job -> Nat]
  BY Zenon DEF LockTypeOK, SetRunning


\* The steps over the objects to release keep the record of Stop.
LEMMA StopperUpdates ==
  ASSUME NEW s \in Stopper, NEW o \in Object
  PROVE  /\ [s EXCEPT !.todo = @ \ {o}] \in Stopper
         /\ [s EXCEPT !.todo = @ \ {o}].at = s.at
         /\ [s EXCEPT !.todo = @ \ {o}].todo = s.todo \ {o}
         /\ [at |-> "untrack", cur |-> o, todo |-> s.todo \ {o}] \in Stopper
  BY Zenon DEF Stopper

\* The steps of one release keep the record of Stop.
LEMMA StopperMoves ==
  ASSUME NEW s \in Stopper
  PROVE  /\ [s EXCEPT !.at = "unregister"] \in Stopper
         /\ [s EXCEPT !.at = "unregister"].at = "unregister"
         /\ [s EXCEPT !.at = "unregister"].todo = s.todo
         /\ [at |-> "loop", cur |-> NoLock, todo |-> s.todo] \in Stopper
  BY Zenon DEF Stopper

\* ReleaseAllLocks and a crash set the record of Stop.
LEMMA StopperStarts ==
  ASSUME NEW t \in SUBSET Object
  PROVE  /\ [at |-> "loop", cur |-> NoLock, todo |-> t] \in Stopper
         /\ [at |-> "no", cur |-> NoLock, todo |-> {}] \in Stopper
  BY Zenon DEF Stopper

\* The steps of CleanupStaleJobs keep the record of a cleaner.
LEMMA CleanerUpdates ==
  ASSUME NEW c \in Cleaner, NEW t \in SUBSET Job
  PROVE  /\ [c EXCEPT !.todo = t] \in Cleaner
         /\ [c EXCEPT !.cur = NoJob] \in Cleaner
         /\ [todo |-> {}, cur |-> NoJob] \in Cleaner
         /\ \A j \in Job : [todo |-> c.todo \ {j}, cur |-> j] \in Cleaner
  BY Zenon DEF Cleaner

\* What ReleaseLock does to the key and the object of a lock that is held.
LEMMA ReleaseEffect ==
  ASSUME LockTypeOK, NEW w \in Worker, obj[w].job \in Job,
         DropHeld(w), DeleteOwn(obj[w].job, PoolOf[w])
  PROVE  /\ \A v \in Worker : v # w => obj'[v] = obj[v]
         /\ \A v \in Worker : obj'[v].job = obj[v].job
         /\ ~obj'[w].held
         /\ \A i \in Job : lock'[i] = lock[i] \/ lock'[i] = None
         /\ \A i \in Job : lock'[i] = lock[i]
                           \/ (i = obj[w].job /\ OwnedBy(i, PoolOf[w]))
         /\ lock[obj[w].job] = w => lock'[obj[w].job] = None
<1>1. PoolOf[w] \in Pool
  BY Zenon, LockAssumption
<1>2. lock[obj[w].job] = w => OwnedBy(obj[w].job, PoolOf[w])
  BY Zenon DEF OwnedBy
<1>3. /\ \A v \in Worker : v # w => obj'[v] = obj[v]
      /\ \A v \in Worker : obj'[v].job = obj[v].job
      /\ ~obj'[w].held
  BY Zenon, DropUpdates
<1>4. /\ \A i \in Job : i # obj[w].job => lock'[i] = lock[i]
      /\ OwnedBy(obj[w].job, PoolOf[w]) => lock'[obj[w].job] = None
      /\ ~OwnedBy(obj[w].job, PoolOf[w]) => lock'[obj[w].job] = lock[obj[w].job]
  BY Zenon, <1>1, DeleteUpdates
<1>5. /\ \A i \in Job : lock'[i] = lock[i] \/ lock'[i] = None
      /\ \A i \in Job : lock'[i] = lock[i]
                        \/ (i = obj[w].job /\ OwnedBy(i, PoolOf[w]))
      /\ lock[obj[w].job] = w => lock'[obj[w].job] = None
  BY Zenon, <1>2, <1>4
<1>. QED
  BY Zenon, <1>3, <1>5

\* A release by the worker or by Stop keeps NoLockLeaked: the key goes with
\* the held flag.
LEMMA BackedRelease ==
  ASSUME LockTypeOK, NoLockLeaked, NEW w \in Worker, obj[w].job \in Job,
         DropHeld(w), DeleteOwn(obj[w].job, PoolOf[w]),
         \A v \in Worker : v # w => lpc'[v] = lpc[v]
  PROVE  NoLockLeaked'
<1> SUFFICES ASSUME NEW i \in Job, NEW v \in Worker, lock'[i] = v,
                    PoolOf[v] \notin Slow
             PROVE  /\ lpc'[v] \in {"track", "register", "hold"}
                    /\ obj'[v] = [job |-> i, held |-> TRUE]
  BY Zenon DEF NoLockLeaked, InSection
<1>1. lock[i] = v
  BY Zenon, LockAssumption, ReleaseEffect
<1>2. InSection(v) /\ obj[v] = [job |-> i, held |-> TRUE]
  BY Zenon, <1>1 DEF NoLockLeaked
<1>3. v # w
  BY LockAssumption, <1>1, <1>2, ReleaseEffect
<1>4. obj'[v] = obj[v] /\ lpc'[v] = lpc[v]
  BY Zenon, <1>3, ReleaseEffect
<1>. QED
  BY Zenon, <1>2, <1>4 DEF InSection

\* A release keeps KeepsLock: another worker of the same process that owns a
\* lock for the same job would contradict it.
LEMMA KeptRelease ==
  ASSUME LockTypeOK, Coherent, KeepsLock, NEW w \in Worker, obj[w].job \in Job,
         obj[w].held, DropHeld(w), DeleteOwn(obj[w].job, PoolOf[w]),
         \A v \in Worker : v # w => lpc'[v] = lpc[v],
         lpc'[w] = "untrack" \/ PoolOf[w] \in stopped,
         UNCHANGED cleanups, stopped' = stopped
  PROVE  KeepsLock'
<1> SUFFICES ASSUME cleanups = 0, NEW v \in Worker, InSection(v)', Timely(v)
             PROVE  obj'[v].held /\ lock'[obj'[v].job] = v
  BY Zenon DEF KeepsLock, Timely
<1>1. v # w
  BY Zenon DEF InSection, Timely
<1>2. obj'[v] = obj[v] /\ InSection(v)
  BY Zenon, <1>1, ReleaseEffect DEF InSection
<1>3. obj[v].held /\ lock[obj[v].job] = v /\ obj[v].job \in Job
  BY Zenon, <1>2 DEF KeepsLock, LockTypeOK, InSection
<1>4. PoolOf[v] = PoolOf[w] => obj[v].job # obj[w].job
  <2> SUFFICES ASSUME PoolOf[v] = PoolOf[w] PROVE obj[v].job # obj[w].job
    BY Zenon
  <2>1. InSection(w) /\ Timely(w)
    BY Zenon DEF Coherent, Timely
  <2>. QED  BY Zenon, <1>1, <1>3, <2>1 DEF KeepsLock
<1>5. lock'[obj[v].job] = lock[obj[v].job]
  BY <1>3, <1>4, ReleaseEffect DEF OwnedBy
<1>. QED
  BY Zenon, <1>2, <1>3, <1>5

\* Every step keeps the types.
LEMMA LockTyped ==
  ASSUME LockTypeOK, [LockNext]_lockVars
  PROVE  LockTypeOK'
<1> USE LockAssumption DEF LockTypeOK, LPC, LGoto
<1>1. ASSUME NEW w \in Worker, NEW j \in Job, AcquireLock(w, j) PROVE LockTypeOK'
  <2>1. stopper' \in [Pool -> Stopper]
    BY ZenonT(40), <1>1, StopperUpdates DEF AcquireLock, Object
  <2>2. obj' \in [Worker -> [job: Job \cup {NoJob}, held: BOOLEAN]]
    BY Zenon, <1>1 DEF AcquireLock
  <2>. QED  BY Zenon, <1>1, <2>1, <2>2 DEF AcquireLock
<1>2. ASSUME NEW w \in Worker, TrackRunningJob(w) PROVE LockTypeOK'
  <2>1. running' \in [Job -> Nat]
    BY Zenon, <1>2, RunningUpdates DEF TrackRunningJob, Start
  <2>. QED  BY Zenon, <1>2, <2>1 DEF TrackRunningJob
<1>3. ASSUME NEW w \in Worker, Register(w) PROVE LockTypeOK'
  BY Zenon, <1>3 DEF Register
<1>4. ASSUME NEW w \in Worker, ReleaseLock(w) PROVE LockTypeOK'
  <2>1. CASE obj[w].held
    <3>1. DropHeld(w) /\ DeleteOwn(obj[w].job, PoolOf[w]) /\ obj[w].job \in Job
      BY Zenon, <1>4, <2>1 DEF ReleaseLock
    <3>2. /\ obj' \in [Worker -> [job: Job \cup {NoJob}, held: BOOLEAN]]
          /\ \A v \in Worker : obj'[v].job = obj[v].job
      BY Zenon, <3>1, DropUpdates
    <3>3. lock' \in [Job -> Worker \cup {None, Orphan}]
      BY Zenon, <3>1, DeleteUpdates
    <3>. QED  BY ZenonT(40), <1>4, <2>1, <3>2, <3>3 DEF ReleaseLock
  <2>2. CASE ~obj[w].held
    BY ZenonT(30), <1>4, <2>2 DEF ReleaseLock
  <2>. QED  BY Zenon, <2>1, <2>2
<1>5. ASSUME NEW w \in Worker, ReleaseFails(w) PROVE LockTypeOK'
  <2>1. DropHeld(w)
    BY Zenon, <1>5 DEF ReleaseFails
  <2>2. /\ obj' \in [Worker -> [job: Job \cup {NoJob}, held: BOOLEAN]]
        /\ \A v \in Worker : obj'[v].job = obj[v].job
    BY Zenon, <2>1, DropUpdates
  <2>. QED  BY Zenon, <1>5, <2>2 DEF ReleaseFails
<1>6. ASSUME NEW w \in Worker, UntrackRunningJob(w) PROVE LockTypeOK'
  <2>1. running' \in [Job -> Nat]
    BY Zenon, <1>6, RunningUpdates DEF UntrackRunningJob
  <2>. QED  BY Zenon, <1>6, <2>1 DEF UntrackRunningJob
<1>7. ASSUME NEW w \in Worker, Unregister(w) PROVE LockTypeOK'
  BY Zenon, <1>7 DEF Unregister
<1>8. ASSUME NEW w \in Worker, LoseLock(w) PROVE LockTypeOK'
  <2>1. DropHeld(w)
    BY Zenon, <1>8 DEF LoseLock
  <2>2. /\ obj' \in [Worker -> [job: Job \cup {NoJob}, held: BOOLEAN]]
        /\ \A v \in Worker : obj'[v].job = obj[v].job
    BY Zenon, <2>1, DropUpdates
  <2>. QED  BY Zenon, <1>8, <2>2 DEF LoseLock
<1>9. ASSUME NEW j \in Job, Expire(j) PROVE LockTypeOK'
  BY Zenon, <1>9 DEF Expire, KeptAlive, OwnedBy
<1>10. ASSUME NEW p \in Pool, ReleaseAllLocks(p) PROVE LockTypeOK'
  <2>1. stopper' \in [Pool -> Stopper]
    BY Zenon, <1>10, StopperStarts DEF ReleaseAllLocks
  <2>. QED  BY Zenon, <1>10, <2>1 DEF ReleaseAllLocks
<1>11. ASSUME NEW p \in Pool, NEW o \in Object, StopRelease(p, o) PROVE LockTypeOK'
  <2>1. o[1] \in Worker /\ o[2] \in Job
    BY Zenon DEF Object
  <2>2. stopper' \in [Pool -> Stopper]
    <3>1. \/ stopper' = [stopper EXCEPT ![p] = [at |-> "untrack", cur |-> o,
                                                todo |-> @.todo \ {o}]]
          \/ stopper' = [stopper EXCEPT ![p].todo = @ \ {o}]
      BY Zenon, <1>11 DEF StopRelease
    <3>2. CASE stopper' = [stopper EXCEPT ![p].todo = @ \ {o}]
      BY Zenon, <3>2, StopperUpdates
    <3>3. CASE stopper' = [stopper EXCEPT ![p] = [at |-> "untrack", cur |-> o,
                                                  todo |-> @.todo \ {o}]]
      BY Zenon, <3>3, StopperUpdates
    <3>. QED  BY Zenon, <3>1, <3>2, <3>3
  <2>3. CASE obj[o[1]].job = o[2] /\ obj[o[1]].held
    <3>1. DropHeld(o[1]) /\ DeleteOwn(o[2], p)
      BY Zenon, <1>11, <2>3 DEF StopRelease
    <3>2. /\ obj' \in [Worker -> [job: Job \cup {NoJob}, held: BOOLEAN]]
          /\ \A v \in Worker : obj'[v].job = obj[v].job
      BY Zenon, <2>1, <3>1, DropUpdates
    <3>3. lock' \in [Job -> Worker \cup {None, Orphan}]
      BY Zenon, <2>1, <3>1, DeleteUpdates
    <3>. QED  BY Zenon, <1>11, <2>2, <3>2, <3>3 DEF StopRelease
  <2>4. CASE ~(obj[o[1]].job = o[2] /\ obj[o[1]].held)
    BY Zenon, <1>11, <2>2, <2>4 DEF StopRelease
  <2>. QED  BY Zenon, <2>3, <2>4
<1>12. ASSUME NEW p \in Pool, StopUntrack(p) PROVE LockTypeOK'
  <2>1. running' \in [Job -> Nat]
    BY Zenon, <1>12, RunningUpdates DEF StopUntrack
  <2>2. stopper' \in [Pool -> Stopper]
    BY Zenon, <1>12, StopperMoves DEF StopUntrack
  <2>. QED  BY Zenon, <1>12, <2>1, <2>2 DEF StopUntrack
<1>13. ASSUME NEW p \in Pool, StopUnregister(p) PROVE LockTypeOK'
  <2>1. active' \in [Pool -> [Job -> Worker \cup {None}]]
    BY Zenon, <1>13 DEF StopUnregister
  <2>2. stopper' \in [Pool -> Stopper]
    BY Zenon, <1>13, StopperMoves DEF StopUnregister
  <2>. QED  BY Zenon, <1>13, <2>1, <2>2 DEF StopUnregister
<1>14. ASSUME NEW p \in Pool, CleanupScan(p) PROVE LockTypeOK'
  <2>1. cleaner' \in [Pool -> Cleaner]
    BY Zenon, <1>14, CleanerUpdates DEF CleanupScan
  <2>. QED  BY <1>14, <2>1 DEF CleanupScan
<1>15. ASSUME NEW p \in Pool, NEW j \in Job, CleanupDelete(p, j) PROVE LockTypeOK'
  <2>1. cleaner' \in [Pool -> Cleaner]
    BY Zenon, <1>15, CleanerUpdates DEF CleanupDelete
  <2>. QED  BY Zenon, <1>15, <2>1 DEF CleanupDelete
<1>16. ASSUME NEW p \in Pool, CleanupUntrack(p) PROVE LockTypeOK'
  <2>1. running' \in [Job -> Nat]
    BY Zenon, <1>16, RunningUpdates DEF CleanupUntrack
  <2>2. cleaner' \in [Pool -> Cleaner]
    BY Zenon, <1>16, CleanerUpdates DEF CleanupUntrack
  <2>. QED  BY Zenon, <1>16, <2>1, <2>2 DEF CleanupUntrack
<1>17. ASSUME NEW p \in Pool, LockCrash(p) PROVE LockTypeOK'
  <2>1. stopper' \in [Pool -> Stopper]
    BY Zenon, <1>17, StopperStarts DEF LockCrash
  <2>2. cleaner' \in [Pool -> Cleaner]
    BY ZenonT(30), <1>17, CleanerUpdates DEF LockCrash
  <2>3. lock' \in [Job -> Worker \cup {None, Orphan}]
    BY Zenon, <1>17 DEF LockCrash
  <2>. QED  BY Zenon, <1>17, <2>1, <2>2, <2>3 DEF LockCrash
<1>18. CASE UNCHANGED lockVars
  BY Zenon, <1>18 DEF lockVars
<1>19. ASSUME NEW w \in Worker, NEW j \in Job, AcquireFails(w, j) PROVE LockTypeOK'
  BY Zenon, <1>19 DEF AcquireFails
<1>20. ASSUME NEW p \in Pool, NEW o \in Object, StopReleaseFails(p, o) PROVE LockTypeOK'
  <2>1. o[1] \in Worker /\ DropHeld(o[1])
    BY Zenon, <1>20 DEF StopReleaseFails, Object
  <2>2. /\ obj' \in [Worker -> [job: Job \cup {NoJob}, held: BOOLEAN]]
        /\ \A v \in Worker : obj'[v].job = obj[v].job
    BY Zenon, <2>1, DropUpdates
  <2>3. stopper' \in [Pool -> Stopper]
    BY Zenon, <1>20, StopperUpdates DEF StopReleaseFails
  <2>. QED  BY Zenon, <1>20, <2>2, <2>3 DEF StopReleaseFails
<1>. QED
  BY ZenonT(40), <1>1, <1>2, <1>3, <1>4, <1>5, <1>6, <1>7, <1>8, <1>9, <1>10, <1>11, <1>12, <1>13,
     <1>14, <1>15, <1>16, <1>17, <1>18,
     <1>19, <1>20 DEF LockNext, LockEnvironment, StopStep, CleanupStep, Acquiring, Releasing

\* Every step keeps Coherent.
LEMMA StaysCoherent ==
  ASSUME LockTypeOK, Coherent, [LockNext]_lockVars
  PROVE  Coherent'
<1> USE LockAssumption DEF Coherent, InSection, LockTypeOK, LPC, LGoto
<1>1. ASSUME NEW w \in Worker, NEW j \in Job, AcquireLock(w, j) PROVE Coherent'
  BY <1>1 DEF AcquireLock
<1>2. ASSUME NEW w \in Worker, TrackRunningJob(w) PROVE Coherent'
  BY Zenon, <1>2 DEF TrackRunningJob
<1>3. ASSUME NEW w \in Worker, Register(w) PROVE Coherent'
  BY Zenon, <1>3 DEF Register
<1>4. ASSUME NEW w \in Worker, ReleaseLock(w) PROVE Coherent'
  <2>1. CASE obj[w].held
    <3>1. /\ DropHeld(w) /\ DeleteOwn(obj[w].job, PoolOf[w]) /\ obj[w].job \in Job
          /\ lpc' = [lpc EXCEPT ![w] = "untrack"]
          /\ UNCHANGED <<active, stopper, cleaner, cleanups>>
      BY Zenon, <1>4, <2>1 DEF ReleaseLock
    <3>2. \A v \in Worker : obj'[v].held => v # w /\ obj[v].held
      BY Zenon, <3>1, DropUpdates
    <3>. QED  BY <3>1, <3>2
  <2>2. CASE ~obj[w].held
    BY ZenonT(40), <1>4, <2>2 DEF ReleaseLock
  <2>. QED  BY Zenon, <2>1, <2>2
<1>5. ASSUME NEW w \in Worker, ReleaseFails(w) PROVE Coherent'
  BY <1>5 DEF ReleaseFails, DropHeld
<1>6. ASSUME NEW w \in Worker, UntrackRunningJob(w) PROVE Coherent'
  BY Zenon, <1>6 DEF UntrackRunningJob
<1>7. ASSUME NEW w \in Worker, Unregister(w) PROVE Coherent'
  BY Zenon, <1>7 DEF Unregister
<1>8. ASSUME NEW w \in Worker, LoseLock(w) PROVE Coherent'
  BY Zenon, <1>8 DEF LoseLock, DropHeld, OwnedBy
<1>9. ASSUME NEW j \in Job, Expire(j) PROVE Coherent'
  BY Zenon, <1>9 DEF Expire, KeptAlive, OwnedBy
<1>10. ASSUME NEW p \in Pool, ReleaseAllLocks(p) PROVE Coherent'
  <2>1. \A o \in stopper'[p].todo : o \in Object /\ active[p][o[2]] = o[1]
    BY Zenon, <1>10 DEF ReleaseAllLocks
  <2>2. \A o \in stopper'[p].todo : PoolOf[o[1]] = p
    BY <2>1 DEF Object
  <2>. QED  BY <1>10, <2>2 DEF ReleaseAllLocks
<1>11. ASSUME NEW p \in Pool, NEW o \in Object, StopRelease(p, o) PROVE Coherent'
  <2> DEFINE w == o[1]
  <2>1. w \in Worker /\ o[2] \in Job /\ PoolOf[w] = p /\ p \in stopped
    BY Zenon, <1>11 DEF StopRelease, Object, stopped, Coherent
  <2>2. CASE obj[w].job = o[2] /\ obj[w].held
    <3>1. /\ DropHeld(w) /\ DeleteOwn(obj[w].job, PoolOf[w])
          /\ stopper' = [stopper EXCEPT ![p] = [at |-> "untrack", cur |-> o,
                                                todo |-> @.todo \ {o}]]
          /\ UNCHANGED <<lpc, active, cleaner, cleanups>>
      BY Zenon, <1>11, <2>1, <2>2 DEF StopRelease
    <3> HIDE DEF w
    <3>2. \A v \in Worker : obj'[v].held => obj[v].held
      BY ZenonT(30), <2>1, <3>1, DropUpdates
    <3>3. \A q \in Pool : stopper'[q].todo \subseteq stopper[q].todo
      BY Zenon, <3>1
    <3>. QED  BY Zenon, <3>1, <3>2, <3>3
  <2>3. CASE ~(obj[w].job = o[2] /\ obj[w].held)
    <3>1. /\ stopper' = [stopper EXCEPT ![p].todo = @ \ {o}]
          /\ UNCHANGED <<lock, obj, lpc, active, cleaner, cleanups>>
      BY Zenon, <1>11, <2>3 DEF StopRelease
    <3>2. \A q \in Pool : stopper'[q].todo \subseteq stopper[q].todo
      BY <3>1, StopperUpdates
    <3>. QED  BY Zenon, <3>1, <3>2
  <2>. QED  BY Zenon, <2>2, <2>3
<1>12. ASSUME NEW p \in Pool, StopUntrack(p) PROVE Coherent'
  BY <1>12 DEF StopUntrack
<1>13. ASSUME NEW p \in Pool, StopUnregister(p) PROVE Coherent'
  BY Zenon, <1>13 DEF StopUnregister
<1>14. ASSUME NEW p \in Pool, CleanupScan(p) PROVE Coherent'
  BY <1>14 DEF CleanupScan
<1>15. ASSUME NEW p \in Pool, NEW j \in Job, CleanupDelete(p, j) PROVE Coherent'
  BY <1>15 DEF CleanupDelete
<1>16. ASSUME NEW p \in Pool, CleanupUntrack(p) PROVE Coherent'
  BY <1>16 DEF CleanupUntrack
<1>17. ASSUME NEW p \in Pool, LockCrash(p) PROVE Coherent'
  BY ZenonT(40), <1>17 DEF LockCrash, OwnedBy
<1>18. CASE UNCHANGED lockVars
  BY Zenon, <1>18 DEF lockVars
<1>19. ASSUME NEW w \in Worker, NEW j \in Job, AcquireFails(w, j) PROVE Coherent'
  BY Zenon, <1>19 DEF AcquireFails
<1>20. ASSUME NEW p \in Pool, NEW o \in Object, StopReleaseFails(p, o) PROVE Coherent'
  <2>1. /\ o[1] \in Worker /\ DropHeld(o[1])
        /\ stopper' = [stopper EXCEPT ![p].todo = @ \ {o}]
        /\ UNCHANGED <<lock, lpc, active, cleaner, cleanups>>
    BY Zenon, <1>20 DEF StopReleaseFails, Object
  <2>2. \A v \in Worker : obj'[v].held => obj[v].held
    BY Zenon, <2>1, DropUpdates
  <2>3. \A q \in Pool : stopper'[q].todo \subseteq stopper[q].todo
    BY <2>1, StopperUpdates
  <2>. QED  BY Zenon, <2>1, <2>2, <2>3
<1>. QED
  BY ZenonT(40), <1>1, <1>2, <1>3, <1>4, <1>5, <1>6, <1>7, <1>8, <1>9, <1>10, <1>11, <1>12, <1>13,
     <1>14, <1>15, <1>16, <1>17, <1>18,
     <1>19, <1>20 DEF LockNext, LockEnvironment, StopStep, CleanupStep, Acquiring, Releasing

\* The steps around a lock that touch neither it nor its object.
LEMMA MovesAround ==
  ASSUME LockTypeOK, NEW w \in Worker,
         TrackRunningJob(w) \/ Register(w) \/ UntrackRunningJob(w) \/ Unregister(w)
  PROVE  /\ \A v \in Worker : InSection(v)' <=> InSection(v)
         /\ UNCHANGED <<lock, obj, stopper, cleanups>>
<1>1. /\ UNCHANGED <<lock, obj, stopper, cleanups>>
      /\ \/ lpc[w] = "track" /\ lpc' = [lpc EXCEPT ![w] = "register"]
         \/ lpc[w] = "register" /\ lpc' = [lpc EXCEPT ![w] = "hold"]
         \/ lpc[w] = "untrack" /\ lpc' = [lpc EXCEPT ![w] = "unregister"]
         \/ lpc[w] = "unregister" /\ lpc' = [lpc EXCEPT ![w] = "idle"]
  BY Zenon DEF TrackRunningJob, Register, UntrackRunningJob, Unregister, LGoto
<1>2. lpc \in [Worker -> LPC]
  BY Zenon DEF LockTypeOK
<1>3. (\A v \in Worker : v # w => lpc'[v] = lpc[v]) /\ (InSection(w)' <=> InSection(w))
  BY Zenon, <1>1, <1>2 DEF InSection
<1>. QED  BY Zenon, <1>1, <1>3 DEF InSection

\* They keep both invariants.
LEMMA MovesKeep ==
  ASSUME \A v \in Worker : InSection(v)' <=> InSection(v),
         UNCHANGED <<lock, obj, stopper, cleanups>>
  PROVE  (KeepsLock => KeepsLock') /\ (NoLockLeaked => NoLockLeaked')
<1>1. \A v \in Worker : Timely(v)' <=> Timely(v)
  BY Zenon DEF Timely, stopped
<1>2. KeepsLock => KeepsLock'
  BY Zenon, <1>1 DEF KeepsLock
<1>3. ASSUME NoLockLeaked, NEW j \in Job, lock[j] \in Worker, PoolOf[lock[j]] \notin Slow
      PROVE  lpc'[lock[j]] \in {"track", "register", "hold"}
             /\ obj'[lock[j]] = [job |-> j, held |-> TRUE]
  <2>1. InSection(lock[j]) /\ obj[lock[j]] = [job |-> j, held |-> TRUE]
    BY Zenon, <1>3 DEF NoLockLeaked
  <2>2. \A v \in Worker : lpc[v] \in {"track", "register", "hold"}
                       => lpc'[v] \in {"track", "register", "hold"}
    BY Zenon DEF InSection
  <2>. QED  BY Zenon, <1>3, <2>1, <2>2 DEF InSection
<1>4. NoLockLeaked => NoLockLeaked'
  BY Zenon, <1>3 DEF NoLockLeaked, InSection
<1>. QED  BY Zenon, <1>2, <1>4

\* Every step keeps NoLockLeaked.
LEMMA StaysBacked ==
  ASSUME LockTypeOK, Coherent, NoLockLeaked, [LockNext]_lockVars
  PROVE  NoLockLeaked'
<1> USE LockAssumption DEF Coherent, NoLockLeaked, InSection, LockTypeOK, LPC, LGoto
<1>1. ASSUME NEW w \in Worker, NEW j \in Job, AcquireLock(w, j) PROVE NoLockLeaked'
  BY ZenonT(60), <1>1 DEF AcquireLock
<1>2. ASSUME NEW w \in Worker, TrackRunningJob(w) PROVE NoLockLeaked'
  <2> HIDE DEF NoLockLeaked, Coherent, LockTypeOK, InSection
  <2>. QED  BY Zenon, <1>2, MovesAround, MovesKeep
<1>3. ASSUME NEW w \in Worker, Register(w) PROVE NoLockLeaked'
  <2> HIDE DEF NoLockLeaked, Coherent, LockTypeOK, InSection
  <2>. QED  BY Zenon, <1>3, MovesAround, MovesKeep
<1>4. ASSUME NEW w \in Worker, ReleaseLock(w) PROVE NoLockLeaked'
  <2>1. CASE obj[w].held
    <3>1. /\ DropHeld(w) /\ DeleteOwn(obj[w].job, PoolOf[w]) /\ obj[w].job \in Job
          /\ lpc' = [lpc EXCEPT ![w] = "untrack"]
          /\ UNCHANGED <<active, stopper, cleaner, cleanups>>
      BY Zenon, <1>4, <2>1 DEF ReleaseLock
    <3>. QED  BY Zenon, <3>1, BackedRelease
  <2>2. CASE ~obj[w].held
    <3>1. UNCHANGED <<lock, obj>> /\ \A v \in Worker : v # w => lpc'[v] = lpc[v]
      BY ZenonT(40), <1>4, <2>2 DEF ReleaseLock
    <3>2. \A i \in Job : lock[i] = w => PoolOf[w] \in Slow
      BY <2>2
    <3>. QED  BY Zenon, <3>1, <3>2
  <2>. QED  BY Zenon, <2>1, <2>2
<1>5. ASSUME NEW w \in Worker, ReleaseFails(w) PROVE NoLockLeaked'
  <2>1. DropHeld(w) /\ obj[w].job \in Job
    BY Zenon, <1>5 DEF ReleaseFails
  <2>2. \A v \in Worker : v # w => obj'[v] = obj[v]
    BY ZenonT(40), <2>1, DropUpdates
  <2>3. PoolOf[w] \in Slow \/ \A i \in Job : lock[i] # w
    BY Zenon, <1>5, <2>1 DEF ReleaseFails, OwnedBy
  <2>4. UNCHANGED lock /\ \A v \in Worker : v # w => lpc'[v] = lpc[v]
    BY <1>5 DEF ReleaseFails
  <2>. QED  BY ZenonT(40), <2>2, <2>3, <2>4
<1>6. ASSUME NEW w \in Worker, UntrackRunningJob(w) PROVE NoLockLeaked'
  <2> HIDE DEF NoLockLeaked, Coherent, LockTypeOK, InSection
  <2>. QED  BY Zenon, <1>6, MovesAround, MovesKeep
<1>7. ASSUME NEW w \in Worker, Unregister(w) PROVE NoLockLeaked'
  <2> HIDE DEF NoLockLeaked, Coherent, LockTypeOK, InSection
  <2>. QED  BY Zenon, <1>7, MovesAround, MovesKeep
<1>8. ASSUME NEW w \in Worker, LoseLock(w) PROVE NoLockLeaked'
  <2>1. DropHeld(w) /\ obj[w].job \in Job
    BY Zenon, <1>8 DEF LoseLock
  <2>2. \A v \in Worker : v # w => obj'[v] = obj[v]
    BY Zenon, <2>1, DropUpdates
  <2>3. PoolOf[w] \in Slow \/ \A i \in Job : lock[i] # w
    BY <1>8, <2>1 DEF LoseLock, OwnedBy
  <2>4. UNCHANGED lock /\ \A v \in Worker : v # w => lpc'[v] = lpc[v]
    BY Zenon, <1>8 DEF LoseLock
  <2>. QED  BY Zenon, <2>2, <2>3, <2>4
<1>9. ASSUME NEW j \in Job, Expire(j) PROVE NoLockLeaked'
  BY Zenon, <1>9 DEF Expire, KeptAlive, OwnedBy
<1>10. ASSUME NEW p \in Pool, ReleaseAllLocks(p) PROVE NoLockLeaked'
  BY Zenon, <1>10 DEF ReleaseAllLocks
<1>11. ASSUME NEW p \in Pool, NEW o \in Object, StopRelease(p, o) PROVE NoLockLeaked'
  <2> DEFINE w == o[1]
  <2>1. w \in Worker /\ o[2] \in Job /\ PoolOf[w] = p /\ p \in stopped
    BY Zenon, <1>11 DEF StopRelease, Object, stopped, Coherent
  <2>2. CASE obj[w].job = o[2] /\ obj[w].held
    <3>1. /\ DropHeld(w) /\ DeleteOwn(obj[w].job, PoolOf[w])
          /\ stopper' = [stopper EXCEPT ![p] = [at |-> "untrack", cur |-> o,
                                                todo |-> @.todo \ {o}]]
          /\ UNCHANGED <<lpc, active, cleaner, cleanups>>
      BY Zenon, <1>11, <2>1, <2>2 DEF StopRelease
    <3> HIDE DEF w
    <3>. QED  BY ZenonT(30), <2>1, <2>2, <3>1, BackedRelease
  <2>3. CASE ~(obj[w].job = o[2] /\ obj[w].held)
    <3>1. /\ stopper' = [stopper EXCEPT ![p].todo = @ \ {o}]
          /\ UNCHANGED <<lock, obj, lpc, active, cleaner, cleanups>>
      BY Zenon, <1>11, <2>3 DEF StopRelease
    <3>. QED  BY Zenon, <3>1
  <2>. QED  BY Zenon, <2>2, <2>3
<1>12. ASSUME NEW p \in Pool, StopUntrack(p) PROVE NoLockLeaked'
  BY Zenon, <1>12 DEF StopUntrack
<1>13. ASSUME NEW p \in Pool, StopUnregister(p) PROVE NoLockLeaked'
  BY Zenon, <1>13 DEF StopUnregister
<1>14. ASSUME NEW p \in Pool, CleanupScan(p) PROVE NoLockLeaked'
  BY Zenon, <1>14 DEF CleanupScan
<1>15. ASSUME NEW p \in Pool, NEW j \in Job, CleanupDelete(p, j) PROVE NoLockLeaked'
  BY ZenonT(60), <1>15 DEF CleanupDelete
<1>16. ASSUME NEW p \in Pool, CleanupUntrack(p) PROVE NoLockLeaked'
  BY Zenon, <1>16 DEF CleanupUntrack
<1>17. ASSUME NEW p \in Pool, LockCrash(p) PROVE NoLockLeaked'
  BY ZenonT(30), <1>17 DEF LockCrash, OwnedBy
<1>18. CASE UNCHANGED lockVars
  BY Zenon, <1>18 DEF lockVars
<1>19. ASSUME NEW w \in Worker, NEW j \in Job, AcquireFails(w, j) PROVE NoLockLeaked'
  BY ZenonT(40), <1>19 DEF AcquireFails
<1>20. ASSUME NEW p \in Pool, NEW o \in Object, StopReleaseFails(p, o) PROVE NoLockLeaked'
  <2>1. /\ o[1] \in Worker /\ DropHeld(o[1]) /\ PoolOf[o[1]] \in Slow
        /\ UNCHANGED <<lock, lpc>>
    BY <1>20 DEF StopReleaseFails, Object
  <2>2. \A v \in Worker : v # o[1] => obj'[v] = obj[v]
    BY ZenonT(80), <2>1, DropUpdates
  <2>. QED  BY Zenon, <2>1, <2>2
<1>. QED
  BY ZenonT(40), <1>1, <1>2, <1>3, <1>4, <1>5, <1>6, <1>7, <1>8, <1>9, <1>10, <1>11, <1>12, <1>13,
     <1>14, <1>15, <1>16, <1>17, <1>18,
     <1>19, <1>20 DEF LockNext, LockEnvironment, StopStep, CleanupStep, Acquiring, Releasing

\* Every step keeps KeepsLock.
LEMMA StaysKept ==
  ASSUME LockTypeOK, Coherent, KeepsLock, [LockNext]_lockVars
  PROVE  KeepsLock'
<1> USE LockAssumption DEF Coherent, KeepsLock, InSection, Timely, stopped, LockTypeOK, LPC, LGoto
<1>1. ASSUME NEW w \in Worker, NEW j \in Job, AcquireLock(w, j) PROVE KeepsLock'
  BY <1>1 DEF AcquireLock
<1>2. ASSUME NEW w \in Worker, TrackRunningJob(w) PROVE KeepsLock'
  <2> HIDE DEF KeepsLock, Coherent, LockTypeOK, InSection, Timely, stopped
  <2>. QED  BY <1>2, MovesAround, MovesKeep
<1>3. ASSUME NEW w \in Worker, Register(w) PROVE KeepsLock'
  <2> HIDE DEF KeepsLock, Coherent, LockTypeOK, InSection, Timely, stopped
  <2>. QED  BY <1>3, MovesAround, MovesKeep
<1>4. ASSUME NEW w \in Worker, ReleaseLock(w) PROVE KeepsLock'
  <2>1. CASE obj[w].held
    <3>1. /\ DropHeld(w) /\ DeleteOwn(obj[w].job, PoolOf[w]) /\ obj[w].job \in Job
          /\ lpc' = [lpc EXCEPT ![w] = "untrack"]
          /\ UNCHANGED <<active, stopper, cleaner, cleanups>>
      BY Zenon, <1>4, <2>1 DEF ReleaseLock
    <3>2. /\ \A v \in Worker : v # w => lpc'[v] = lpc[v]
          /\ lpc'[w] = "untrack"
      BY <3>1
    <3>3. stopped' = stopped
      BY Zenon, <3>1
    <3> HIDE DEF KeepsLock, Coherent, LockTypeOK, InSection, Timely, stopped
    <3>. QED  BY Zenon, <2>1, <3>1, <3>2, <3>3, KeptRelease
  <2>2. CASE ~obj[w].held
    BY <1>4, <2>2 DEF ReleaseLock
  <2>. QED  BY Zenon, <2>1, <2>2
<1>5. ASSUME NEW w \in Worker, ReleaseFails(w) PROVE KeepsLock'
  BY <1>5 DEF ReleaseFails, DropHeld
<1>6. ASSUME NEW w \in Worker, UntrackRunningJob(w) PROVE KeepsLock'
  <2> HIDE DEF KeepsLock, Coherent, LockTypeOK, InSection, Timely, stopped
  <2>. QED  BY <1>6, MovesAround, MovesKeep
<1>7. ASSUME NEW w \in Worker, Unregister(w) PROVE KeepsLock'
  <2> HIDE DEF KeepsLock, Coherent, LockTypeOK, InSection, Timely, stopped
  <2>. QED  BY <1>7, MovesAround, MovesKeep
<1>8. ASSUME NEW w \in Worker, LoseLock(w) PROVE KeepsLock'
  BY SMTT(30), <1>8 DEF LoseLock, DropHeld, OwnedBy
<1>9. ASSUME NEW j \in Job, Expire(j) PROVE KeepsLock'
  BY SMTT(30), <1>9 DEF Expire, KeptAlive, OwnedBy
<1>10. ASSUME NEW p \in Pool, ReleaseAllLocks(p) PROVE KeepsLock'
  BY Zenon, <1>10 DEF ReleaseAllLocks
<1>11. ASSUME NEW p \in Pool, NEW o \in Object, StopRelease(p, o) PROVE KeepsLock'
  <2> DEFINE w == o[1]
  <2>1. w \in Worker /\ o[2] \in Job /\ PoolOf[w] = p /\ p \in stopped
    BY Zenon, <1>11 DEF StopRelease, Object, stopped, Coherent
  <2>2. CASE obj[w].job = o[2] /\ obj[w].held
    <3>1. /\ DropHeld(w) /\ DeleteOwn(obj[w].job, PoolOf[w])
          /\ stopper' = [stopper EXCEPT ![p] = [at |-> "untrack", cur |-> o,
                                                todo |-> @.todo \ {o}]]
          /\ UNCHANGED <<lpc, active, cleaner, cleanups>>
      BY Zenon, <1>11, <2>1, <2>2 DEF StopRelease
    <3> HIDE DEF w
    <3>2. stopped' = stopped
      BY <2>1, <3>1
    <3> HIDE DEF KeepsLock, Coherent, LockTypeOK, InSection, Timely, stopped
    <3>. QED  BY Zenon, <2>1, <2>2, <3>1, <3>2, KeptRelease
  <2>3. CASE ~(obj[w].job = o[2] /\ obj[w].held)
    <3>1. /\ stopper' = [stopper EXCEPT ![p].todo = @ \ {o}]
          /\ UNCHANGED <<lock, obj, lpc, active, cleaner, cleanups>>
      BY Zenon, <1>11, <2>3 DEF StopRelease
    <3>2. stopped' = stopped
      BY <3>1, StopperUpdates
    <3>. QED  BY Zenon, <3>1, <3>2
  <2>. QED  BY Zenon, <2>2, <2>3
<1>12. ASSUME NEW p \in Pool, StopUntrack(p) PROVE KeepsLock'
  BY <1>12 DEF StopUntrack
<1>13. ASSUME NEW p \in Pool, StopUnregister(p) PROVE KeepsLock'
  BY Zenon, <1>13 DEF StopUnregister
<1>14. ASSUME NEW p \in Pool, CleanupScan(p) PROVE KeepsLock'
  BY SMTT(20), <1>14 DEF CleanupScan
<1>15. ASSUME NEW p \in Pool, NEW j \in Job, CleanupDelete(p, j) PROVE KeepsLock'
  BY <1>15 DEF CleanupDelete
<1>16. ASSUME NEW p \in Pool, CleanupUntrack(p) PROVE KeepsLock'
  BY Zenon, <1>16 DEF CleanupUntrack
<1>17. ASSUME NEW p \in Pool, LockCrash(p) PROVE KeepsLock'
  BY Zenon, <1>17 DEF LockCrash, OwnedBy
<1>18. CASE UNCHANGED lockVars
  BY Zenon, <1>18 DEF lockVars
<1>19. ASSUME NEW w \in Worker, NEW j \in Job, AcquireFails(w, j) PROVE KeepsLock'
  BY <1>19 DEF AcquireFails
<1>20. ASSUME NEW p \in Pool, NEW o \in Object, StopReleaseFails(p, o) PROVE KeepsLock'
  <2> DEFINE w == o[1]
  <2>1. /\ w \in Worker /\ DropHeld(w) /\ PoolOf[w] \in Slow
        /\ stopper' = [stopper EXCEPT ![p].todo = @ \ {o}]
        /\ UNCHANGED <<lock, lpc, cleanups>>
    BY <1>20 DEF StopReleaseFails, Object
  <2> HIDE DEF w
  <2>2. \A v \in Worker : v # w => obj'[v] = obj[v]
    <3> HIDE DEF KeepsLock, Coherent, LockTypeOK, InSection, Timely, stopped
    <3>. QED  BY Zenon, <2>1, DropUpdates
  <2>3. stopped' = stopped
    BY SMTT(20), <2>1, StopperUpdates
  <2>. QED  BY ZenonT(60), <2>1, <2>2, <2>3
<1>. QED
  BY ZenonT(30), <1>1, <1>2, <1>3, <1>4, <1>5, <1>6, <1>7, <1>8, <1>9, <1>10, <1>11, <1>12, <1>13,
     <1>14, <1>15, <1>16, <1>17, <1>18,
     <1>19, <1>20 DEF LockNext, LockEnvironment, StopStep, CleanupStep, Acquiring, Releasing

\* At first nothing is locked.
LEMMA LockStarts == LockInit => LockInv
  BY LockAssumption DEF LockInit, LockInv, LockTypeOK, Coherent, NoLockLeaked,
     KeepsLock, InSection, LPC, Cleaner, Stopper, Object, NoLock

\* Every step of the lock manager keeps its invariant.
LEMMA LockStep == LockInv /\ [LockNext]_lockVars => LockInv'
  BY Zenon, LockTyped, StaysCoherent, StaysBacked, StaysKept DEF LockInv

\* LockInv is an inductive invariant of the lock manager.
THEOREM LockInvariant == LockSpec => []LockInv
  BY LockStarts, LockStep, PTL DEF LockSpec

\* KeepsLock: from AcquireLock to ReleaseLock a worker with timely heartbeats
\* owns its lock, as long as no cleaner has run and its process is not
\* stopping.
THEOREM WorkersKeepLocks == LockSpec => []KeepsLock
  BY LockInvariant, PTL DEF LockInv

\* NoLockLeaked: ReleaseLock, ReleaseAllLocks, lost heartbeats and crashes
\* leave no key of a live, timely process behind without a holder.
THEOREM LocksAreBacked == LockSpec => []NoLockLeaked
  BY LockInvariant, PTL DEF LockInv

\* Exclusive: AcquireLock gives a job to one such worker at a time.
THEOREM LockExcludes == LockSpec => []Exclusive
<1>1. LockInv => Exclusive
  BY DEF LockInv, KeepsLock, Exclusive
<1>. QED
  BY <1>1, LockInvariant, PTL

-----------------------------------------------------------------------------
(* The pools.                                                              *)

Stages == {"poll", "idem", "skip", "lock", "requeue", "enter", "exec",
           "complete", "outcome", "release", "done"}

\* Where a worker is in processNextJob fits with where it is in the queue and
\* in the lock manager: it has a job from Dequeue on, and from AcquireLock to
\* the end of the handler the lock is the one of this job.
StageOf(w) ==
  /\ stage[w] \in {"idem", "skip", "lock", "requeue", "enter", "exec"} => pc[w] = "got"
  /\ stage[w] \in {"poll", "idem", "skip", "lock", "requeue", "done"} => lpc[w] = "idle"
  /\ stage[w] = "enter" => lpc[w] \in {"track", "register"}
  /\ stage[w] \in {"exec", "complete"} => lpc[w] = "hold"
  /\ stage[w] = "outcome" => lpc[w] \in {"idle", "hold"}
  /\ stage[w] = "release" => lpc[w] \in {"hold", "untrack", "unregister"}
  /\ stage[w] \in {"enter", "exec"} => obj[w].job = id[w]

StageOK == stage \in [Worker -> Stages] /\ \A w \in Worker : StageOf(w)

PoolInv == QueueInv /\ LockInv /\ StageOK

-----------------------------------------------------------------------------
(* Every step of the pools is one of the lock manager or leaves it alone.  *)

\* From Dequeue to the end of the handler a worker has a job.
LEMMA JobInHand ==
  ASSUME PoolInv, NEW w \in Worker,
         stage[w] \in {"idem", "skip", "lock", "requeue", "enter", "exec"}
  PROVE  id[w] \in Job
<1>1. pc[w] = "got"
  BY Zenon DEF PoolInv, StageOK, StageOf
<1>2. HoldsAt(pc[w], id[w], loc[w], deleted)
  BY Zenon DEF PoolInv, QueueInv, LocalOK, Proc
<1>3. QED BY <1>1, <1>2 DEF HoldsAt

\* The part of processNextJob outside AcquireLock and ReleaseLock.
LEMMA LockUntouched ==
  ASSUME NEW w,
         \/ Poll(w) \/ CheckIdempotency(w) \/ SkipJob(w) \/ LockTaken(w)
         \/ Requeue(w) \/ HandlerSucceeds(w) \/ HandlerFails(w) \/ Outcome(w)
         \/ MarkCompleted(w) \/ Unmarked(w) \/ Done(w) \/ IdempotencyFails(w)
         \/ GiveUp(w) \/ SkipLost(w) \/ OutcomeFails(w) \/ MarkFails(w)
  PROVE  UNCHANGED lockVars
  BY Zenon DEF Poll, CheckIdempotency, SkipJob, LockTaken, Requeue,
     HandlerSucceeds, HandlerFails, Outcome, MarkCompleted, Unmarked, Done,
     IdempotencyFails, GiveUp, SkipLost, OutcomeFails, MarkFails

\* What the pools do with the lock manager is what it is made for.
LEMMA PoolLocks ==
  ASSUME PoolInv, [PoolNext]_allVars
  PROVE  [LockNext]_lockVars
<1>1. ASSUME NEW w \in Worker, Lock(w) \/ LockFails(w)
      PROVE  LockNext
  <2>1. id[w] \in Job
    BY Zenon, <1>1, JobInHand DEF Lock, LockFails
  <2>2. QED BY Zenon, <1>1, <2>1 DEF Lock, LockFails, LockNext
<1>2. ASSUME NEW w \in Worker, Enter(w) \/ Release(w)
      PROVE  LockNext
  BY Zenon, <1>2 DEF Enter, Release, LockNext
<1>3. ASSUME NEW p \in Pool, Crash(p) PROVE LockNext
  BY Zenon, <1>3 DEF Crash, LockNext
<1>4. QueueStep => UNCHANGED lockVars
  BY Zenon DEF QueueStep
<1>5. ASSUME NEW k, ForgetKey(k) PROVE UNCHANGED lockVars
  BY Zenon, <1>5 DEF ForgetKey
<1>6. LockEnvironment => LockNext
  BY Zenon DEF LockNext
<1>7. UNCHANGED allVars => UNCHANGED lockVars
  BY Zenon DEF allVars
<1>8. QED BY Zenon, <1>1, <1>2, <1>3, <1>4, <1>5, <1>6, <1>7, LockUntouched
          DEF PoolNext, JobStep

-----------------------------------------------------------------------------
(* The stages.                                                             *)

\* A worker that nothing happens to.
LEMMA WorkerKeeps ==
  ASSUME NEW w \in Worker, StageOf(w), pc'[w] = pc[w], id'[w] = id[w],
         lpc'[w] = lpc[w], obj'[w].job = obj[w].job, stage'[w] = stage[w]
  PROVE  StageOf(w)'
  BY DEF StageOf

\* A step of one worker.
LEMMA WorkerMoves ==
  ASSUME StageOK, NEW w \in Worker, NEW s \in Stages, To(w, s), OthersKeep(w),
         \A v \in Worker \ {w} : lpc'[v] = lpc[v] /\ obj'[v].job = obj[v].job,
         stage'[w] = s => StageOf(w)'
  PROVE  StageOK'
<1>1. /\ stage' \in [Worker -> Stages]
      /\ stage'[w] = s
      /\ \A v \in Worker \ {w} : stage'[v] = stage[v]
  BY Zenon DEF StageOK, To
<1>2. ASSUME NEW v \in Worker PROVE StageOf(v)'
  <2>1. CASE v = w
    BY Zenon, <1>1, <2>1
  <2>2. CASE v # w
    <3>1. StageOf(v) /\ pc'[v] = pc[v] /\ id'[v] = id[v]
      BY Zenon, <2>2 DEF StageOK, OthersKeep, Proc
    <3>2. QED BY Zenon, <1>1, <2>2, <3>1, WorkerKeeps
  <2>3. QED BY Zenon, <2>1, <2>2
<1>3. QED BY Zenon, <1>1, <1>2 DEF StageOK

\* A step of nobody in the pools.
LEMMA AllKeep ==
  ASSUME StageOK, UNCHANGED <<stage, lpc>>,
         \A v \in Worker : /\ pc'[v] = pc[v] /\ id'[v] = id[v]
                           /\ obj'[v].job = obj[v].job
  PROVE  StageOK'
<1>1. \A v \in Worker : StageOf(v)'
  BY Zenon, WorkerKeeps DEF StageOK
<1>2. QED BY Zenon, <1>1 DEF StageOK

\* Heartbeats, cleaners, Stop and the TTLs change no lock object's job.
LEMMA EnvironmentKeeps ==
  ASSUME LockTypeOK, LockEnvironment
  PROVE  UNCHANGED lpc /\ \A v \in Worker : obj'[v].job = obj[v].job
<1>1. ASSUME NEW w \in Worker, DropHeld(w)
      PROVE  \A v \in Worker : obj'[v].job = obj[v].job
  BY Zenon, <1>1, DropUpdates
<1>2. ASSUME NEW w \in Worker, LoseLock(w)
      PROVE  UNCHANGED lpc /\ DropHeld(w)
  BY Zenon, <1>2 DEF LoseLock
<1>3. ASSUME NEW j \in Job, Expire(j) PROVE UNCHANGED <<lpc, obj>>
  BY Zenon, <1>3 DEF Expire
<1>4. ASSUME NEW p \in Pool, ReleaseAllLocks(p) \/ StopUntrack(p)
                             \/ StopUnregister(p) \/ CleanupStep(p)
      PROVE  UNCHANGED <<lpc, obj>>
  BY Zenon, <1>4 DEF ReleaseAllLocks, StopUntrack, StopUnregister, CleanupStep,
     CleanupScan, CleanupUntrack, CleanupDelete
<1>5. ASSUME NEW p \in Pool, NEW o \in Object,
             StopRelease(p, o) \/ StopReleaseFails(p, o)
      PROVE  /\ o[1] \in Worker /\ UNCHANGED lpc
             /\ UNCHANGED obj \/ DropHeld(o[1])
  <2>1. o[1] \in Worker
    BY DEF Object
  <2>2. QED BY Zenon, <1>5, <2>1 DEF StopRelease, StopReleaseFails
<1>6. QED BY Zenon, <1>1, <1>2, <1>3, <1>4, <1>5 DEF LockEnvironment, StopStep

\* A worker's step between Dequeue and ReleaseLock is a step of this worker in
\* the queue, or none.
LEMMA WorkersAlone ==
  ASSUME LocalOK, NEW w \in Worker,
         \/ Poll(w) \/ CheckIdempotency(w) \/ IdempotencyFails(w) \/ SkipJob(w)
         \/ Lock(w) \/ LockTaken(w) \/ Requeue(w) \/ Enter(w)
         \/ HandlerSucceeds(w) \/ HandlerFails(w) \/ Outcome(w)
         \/ MarkCompleted(w) \/ Unmarked(w) \/ Release(w) \/ Done(w)
         \/ GiveUp(w) \/ SkipLost(w) \/ LockFails(w) \/ OutcomeFails(w)
         \/ MarkFails(w)
  PROVE  OthersKeep(w)
<1>1. w \in Proc
  BY Zenon DEF Proc
<1>2. CASE WorkerStep(w) \/ DequeueSkips(w) \/ Abort(w)
  BY Zenon, <1>1, <1>2, OwnMoves
<1>3. CASE UNCHANGED <<pc, id, loc>>
  BY Zenon, <1>3 DEF OthersKeep
<1>4. CASE OutcomeFails(w)
  BY Zenon, <1>4 DEF OutcomeFails, OthersKeep, LocalOK
<1>5. CASE Poll(w) \/ SkipJob(w) \/ Requeue(w) \/ HandlerSucceeds(w)
           \/ HandlerFails(w) \/ Outcome(w) \/ Done(w) \/ GiveUp(w)
           \/ SkipLost(w) \/ LockFails(w)
  BY Zenon, <1>2, <1>5 DEF Poll, SkipJob, Requeue, HandlerSucceeds, HandlerFails,
     Outcome, Done, GiveUp, SkipLost, LockFails, WorkerStep
<1>6. CASE CheckIdempotency(w) \/ Lock(w) \/ LockTaken(w) \/ Enter(w)
           \/ MarkCompleted(w) \/ Unmarked(w) \/ Release(w)
  BY Zenon, <1>3, <1>6 DEF CheckIdempotency, Lock, LockTaken, Enter, MarkCompleted,
     Unmarked, Release, vars
<1>7. CASE IdempotencyFails(w) \/ MarkFails(w)
  BY Zenon, <1>3, <1>7 DEF IdempotencyFails, MarkFails, local
<1>8. QED BY Zenon, <1>4, <1>5, <1>6, <1>7

\* The other workers' lock objects.
LEMMA LocksAlone ==
  ASSUME LockTypeOK, NEW w \in Worker, NEW j,
         \/ AcquireLock(w, j) \/ AcquireFails(w, j) \/ Acquiring(w)
         \/ Releasing(w) \/ UNCHANGED lockVars
  PROVE  \A v \in Worker \ {w} : lpc'[v] = lpc[v] /\ obj'[v] = obj[v]
<1> USE DEF LockTypeOK, LGoto, DropHeld
<1>1. CASE AcquireLock(w, j)
  BY Zenon, <1>1 DEF AcquireLock
<1>2. CASE AcquireFails(w, j)
  BY Zenon, <1>2 DEF AcquireFails
<1>3. CASE Acquiring(w)
  BY Zenon, <1>3 DEF Acquiring, TrackRunningJob, Register
<1>4. CASE Releasing(w)
  <2>1. CASE ReleaseLock(w)
    BY Zenon, <2>1 DEF ReleaseLock
  <2>2. CASE ReleaseFails(w)
    BY Zenon, <2>2 DEF ReleaseFails
  <2>3. CASE UntrackRunningJob(w) \/ Unregister(w)
    BY Zenon, <2>3 DEF UntrackRunningJob, Unregister
  <2>4. QED BY Zenon, <1>4, <2>1, <2>2, <2>3 DEF Releasing
<1>5. CASE UNCHANGED lockVars
  BY Zenon, <1>5 DEF lockVars
<1>6. QED BY Zenon, <1>1, <1>2, <1>3, <1>4, <1>5

\* The stages of processNextJob after every step of worker w.
LEMMA WorkerStages ==
  ASSUME PoolInv, LocalOK', LockTypeOK', NEW w \in Worker,
         \/ Poll(w) \/ JobStep(w) \/ IdempotencyFails(w) \/ GiveUp(w)
         \/ SkipLost(w) \/ LockFails(w) \/ OutcomeFails(w) \/ MarkFails(w)
  PROVE  StageOK'
<1>1. LocalOK /\ LockTypeOK /\ StageOK /\ StageOf(w)
  BY Zenon DEF PoolInv, QueueInv, LockInv, StageOK
<1>2. OthersKeep(w)
  BY Zenon, <1>1, WorkersAlone DEF JobStep
<1>3. \A v \in Worker \ {w} : lpc'[v] = lpc[v] /\ obj'[v].job = obj[v].job
  <2>1. \E j : \/ AcquireLock(w, j) \/ AcquireFails(w, j) \/ Acquiring(w)
               \/ Releasing(w) \/ UNCHANGED lockVars
    <3>1. CASE Lock(w) \/ LockFails(w)
      BY Zenon, <3>1 DEF Lock, LockFails
    <3>2. CASE Enter(w) \/ Release(w)
      BY Zenon, <3>2 DEF Enter, Release
    <3>3. QED BY Zenon, <3>1, <3>2, LockUntouched DEF JobStep
  <2>2. QED BY Zenon, <1>1, <2>1, LocksAlone
<1>4. w \in Proc /\ pc \in [Proc -> PC] /\ id \in [Proc -> Job \cup {NoJob}]
      /\ lpc \in [Worker -> LPC] /\ stage \in [Worker -> Stages]
  BY Zenon, <1>1 DEF Proc, LocalOK, LockTypeOK, StageOK
<1>5. ASSUME NEW s \in Stages, To(w, s), stage'[w] = s => StageOf(w)'
      PROVE  StageOK'
  BY Zenon, <1>1, <1>2, <1>3, <1>5, WorkerMoves
<1>6. ASSUME UNCHANGED stage, StageOf(w)' PROVE StageOK'
  <2>1. To(w, stage[w]) /\ stage[w] \in Stages
    BY Zenon, <1>4, <1>6 DEF To
  <2>2. QED BY Zenon, <1>5, <1>6, <2>1
<1> USE <1>4 DEF StageOf, Stages
<1>7. CASE Poll(w)
  <2>1. UNCHANGED <<lpc, obj>> /\ lpc[w] = "idle"
    BY Zenon, <1>1, <1>7 DEF Poll, lockVars
  <2>2. CASE pc'[w] = "got"
    BY Zenon, <1>5, <1>7, <2>1, <2>2 DEF Poll
  <2>3. CASE pc'[w] # "got"
    BY Zenon, <1>5, <1>7, <2>1, <2>3 DEF Poll
  <2>4. QED BY Zenon, <2>2, <2>3
<1>8. CASE CheckIdempotency(w) \/ IdempotencyFails(w)
  <2>1. UNCHANGED <<pc, lpc, obj>> /\ lpc[w] = "idle" /\ pc[w] = "got"
    BY Zenon, <1>1, <1>8 DEF CheckIdempotency, IdempotencyFails, lockVars, vars, local
  <2>2. QED BY Zenon, <1>5, <1>8, <2>1 DEF CheckIdempotency, IdempotencyFails
<1>9. CASE SkipJob(w) \/ Requeue(w)
  <2>1. UNCHANGED <<lpc, obj>> /\ lpc[w] = "idle"
    BY Zenon, <1>1, <1>9 DEF SkipJob, Requeue, lockVars
  <2>2. QED BY Zenon, <1>5, <1>9, <2>1 DEF SkipJob, Requeue
<1>10. CASE Lock(w)
  <2>1. UNCHANGED <<pc, id>> /\ pc[w] = "got" /\ AcquireLock(w, id[w]) /\ To(w, "enter")
    BY Zenon, <1>1, <1>10 DEF Lock, vars
  <2>2. lpc'[w] = "track" /\ obj'[w].job = id[w]
    BY <1>1, <2>1 DEF AcquireLock, LGoto, LockTypeOK
  <2>3. QED BY Zenon, <1>5, <2>1, <2>2
<1>11. CASE LockTaken(w)
  <2>1. UNCHANGED <<pc, lpc, obj>> /\ lpc[w] = "idle" /\ pc[w] = "got"
    BY Zenon, <1>1, <1>11 DEF LockTaken, lockVars, vars
  <2>2. QED BY Zenon, <1>5, <1>11, <2>1 DEF LockTaken
<1>12. CASE Enter(w)
  <2>1. /\ UNCHANGED <<pc, id, obj>> /\ pc[w] = "got" /\ obj[w].job = id[w]
        /\ lpc'[w] \in {"register", "hold"}
    BY Zenon, <1>1, <1>12 DEF Enter, vars, Acquiring, TrackRunningJob, Register, LGoto
  <2>2. CASE lpc'[w] = "hold"
    BY Zenon, <1>5, <1>12, <2>1, <2>2 DEF Enter
  <2>3. CASE lpc'[w] # "hold"
    BY Zenon, <1>5, <1>12, <2>1, <2>3 DEF Enter
  <2>4. QED BY Zenon, <2>2, <2>3
<1>13. CASE HandlerSucceeds(w) \/ HandlerFails(w)
  <2>1. UNCHANGED <<lpc, obj>> /\ lpc[w] = "hold"
    BY Zenon, <1>1, <1>13 DEF HandlerSucceeds, HandlerFails, lockVars
  <2>2. QED BY Zenon, <1>5, <1>13, <2>1 DEF HandlerSucceeds, HandlerFails
<1>14. CASE Outcome(w) \/ OutcomeFails(w)
  <2>1. UNCHANGED <<lpc, obj, stage>> /\ stage[w] \in {"complete", "outcome"}
    BY Zenon, <1>14 DEF Outcome, OutcomeFails, lockVars, poolVars
  <2>2. QED BY Zenon, <1>1, <1>6, <2>1
<1>15. CASE MarkCompleted(w) \/ MarkFails(w)
  <2>1. UNCHANGED <<lpc, obj>> /\ lpc[w] = "hold" /\ To(w, "release")
    BY Zenon, <1>1, <1>15 DEF MarkCompleted, MarkFails, lockVars
  <2>2. QED BY Zenon, <1>5, <2>1
<1>16. CASE Unmarked(w)
  <2>1. UNCHANGED <<lpc, obj>> /\ lpc[w] \in {"idle", "hold"}
    BY Zenon, <1>1, <1>16 DEF Unmarked, lockVars
  <2>2. CASE lpc[w] = "hold"
    BY Zenon, <1>5, <1>16, <2>1, <2>2 DEF Unmarked
  <2>3. CASE lpc[w] # "hold"
    BY Zenon, <1>5, <1>16, <2>1, <2>3 DEF Unmarked
  <2>4. QED BY Zenon, <2>2, <2>3
<1>17. CASE Release(w)
  <2>1. lpc'[w] \in {"idle", "untrack", "unregister"}
    BY Zenon, <1>1, <1>17 DEF Release, Releasing, ReleaseLock, ReleaseFails,
       UntrackRunningJob, Unregister, LGoto
  <2>2. CASE lpc'[w] = "idle"
    BY Zenon, <1>5, <1>17, <2>1, <2>2 DEF Release
  <2>3. CASE lpc'[w] # "idle"
    BY Zenon, <1>5, <1>17, <2>1, <2>3 DEF Release
  <2>4. QED BY Zenon, <2>2, <2>3
<1>18. CASE Done(w) \/ GiveUp(w) \/ LockFails(w)
  <2>1. UNCHANGED <<lpc, obj>> /\ lpc[w] = "idle" /\ To(w, "poll")
    BY Zenon, <1>1, <1>18 DEF Done, GiveUp, LockFails, AcquireFails, lockVars
  <2>2. QED BY Zenon, <1>5, <2>1
<1>19. CASE SkipLost(w)
  <2>1. UNCHANGED <<lpc, obj, stage>> /\ stage[w] = "poll"
    BY Zenon, <1>19 DEF SkipLost, lockVars, poolVars
  <2>2. QED BY Zenon, <1>1, <1>6, <2>1
<1>20. QED
  BY Zenon, <1>7, <1>8, <1>9, <1>10, <1>11, <1>12, <1>13, <1>14, <1>15, <1>16,
     <1>17, <1>18, <1>19 DEF JobStep

\* The goroutines that die with process p.
Gone(p) == {w \in Worker : PoolOf[w] = p} \cup {p}

\* A crash, caller by caller.
LEMMA CrashEffect ==
  ASSUME LocalOK, NEW p \in Pool, Crash(p)
  PROVE  /\ Gone(p) \subseteq Proc
         /\ pc' = [x \in Proc |-> IF x \in Gone(p) THEN "idle" ELSE pc[x]]
         /\ id' = [x \in Proc |-> IF x \in Gone(p) THEN NoJob ELSE id[x]]
         /\ loc' = [x \in Proc |-> IF x \in Gone(p) THEN Absent ELSE loc[x]]
         /\ \A x \in Proc \ Gone(p) : pc'[x] = pc[x] /\ id'[x] = id[x]
         /\ faults' = faults + Cardinality({x \in Gone(p) : pc[x] # "idle"})
<1>1. Gone(p) \subseteq Proc
  BY Zenon, PoolAssumption DEF Gone, Proc
<1>2. DOMAIN pc = Proc /\ DOMAIN id = Proc /\ DOMAIN loc = Proc
  BY Zenon DEF LocalOK
<1>3. /\ pc' = [x \in Proc |-> IF x \in Gone(p) THEN "idle" ELSE pc[x]]
      /\ id' = [x \in Proc |-> IF x \in Gone(p) THEN NoJob ELSE id[x]]
      /\ loc' = [x \in Proc |-> IF x \in Gone(p) THEN Absent ELSE loc[x]]
      /\ faults' = faults + Cardinality({x \in Gone(p) : pc[x] # "idle"})
  BY Zenon, <1>2 DEF Crash, Gone
<1>4. \A x \in Proc \ Gone(p) : pc'[x] = pc[x] /\ id'[x] = id[x]
  BY Zenon, <1>3
<1>5. QED BY Zenon, <1>1, <1>3, <1>4

\* The stages after every step.
LEMMA StageStep ==
  ASSUME PoolInv, PoolNext, LocalOK', LockTypeOK'
  PROVE  StageOK'
<1>1. LocalOK /\ LockTypeOK /\ StageOK
  BY Zenon DEF PoolInv, QueueInv, LockInv
<1>2. ASSUME NEW p \in Proc \ Worker, OthersKeep(p), UNCHANGED <<lockVars, poolVars>>
      PROVE  StageOK'
  <2>1. \A v \in Worker : pc'[v] = pc[v] /\ id'[v] = id[v]
    BY Zenon, <1>2 DEF OthersKeep, Proc
  <2>2. UNCHANGED <<lpc, obj, stage>>
    BY Zenon, <1>2 DEF lockVars, poolVars
  <2>3. QED BY Zenon, <1>1, <2>1, <2>2, AllKeep
<1>3. ASSUME UNCHANGED <<pc, id, lockVars, stage>> PROVE StageOK'
  <2>1. UNCHANGED <<lpc, obj>>
    BY Zenon, <1>3 DEF lockVars
  <2>2. QED BY Zenon, <1>1, <1>3, <2>1, AllKeep
<1>4. CASE QueueStep
  <2>1. UNCHANGED <<lockVars, poolVars>>
    BY Zenon, <1>4 DEF QueueStep
  <2>2. ASSUME NEW c \in Client, JobRequest(c) PROVE StageOK'
    <3>1. c \in Proc \ Worker
      BY Zenon, QueueAssumption DEF Proc
    <3>2. OthersKeep(c)
      BY Zenon, <1>1, <2>2, <3>1, OwnMoves DEF JobRequest
    <3>3. QED BY Zenon, <1>2, <2>1, <3>1, <3>2
  <2>3. ASSUME NEW p \in Pool, ProcessorStep(p) \/ Abort(p) \/ \E j \in Job : ScheduledSkips(p, j)
        PROVE  StageOK'
    <3>1. p \in Proc \ Worker
      BY Zenon, QueueAssumption, PoolAssumption DEF Proc
    <3>2. OthersKeep(p)
      BY Zenon, <1>1, <2>3, <3>1, OwnMoves
    <3>3. QED BY Zenon, <1>2, <2>1, <3>1, <3>2
  <2>4. ASSUME NEW j \in Job, BecomeDue(j) \/ ExpireRecord(j) PROVE StageOK'
    BY Zenon, <1>3, <2>1, <2>4 DEF BecomeDue, ExpireRecord, local, poolVars
  <2>5. ASSUME NEW k \in Key, ExpireUnique(k) PROVE StageOK'
    BY Zenon, <1>3, <2>1, <2>5 DEF ExpireUnique, local, poolVars
  <2>6. QED BY Zenon, <1>4, <2>2, <2>3, <2>4, <2>5 DEF QueueStep
<1>5. CASE LockEnvironment /\ UNCHANGED <<vars, poolVars>>
  <2>1. UNCHANGED <<pc, id, stage>>
    BY Zenon, <1>5 DEF vars, poolVars
  <2>2. UNCHANGED lpc /\ \A v \in Worker : obj'[v].job = obj[v].job
    BY Zenon, <1>1, <1>5, EnvironmentKeeps
  <2>3. QED BY Zenon, <1>1, <2>1, <2>2, AllKeep
<1>6. ASSUME NEW p \in Pool, Crash(p) PROVE StageOK'
  <2>1. DOMAIN stage = Worker
    BY Zenon, <1>1 DEF StageOK
  <2>2. stage' = [w \in Worker |-> IF w \in Gone(p) THEN "poll" ELSE stage[w]]
    BY Zenon, <1>6, <2>1 DEF Crash, Gone
  <2>3. \A w \in Worker : w \in Gone(p) <=> PoolOf[w] = p
    BY Zenon, QueueAssumption, PoolAssumption DEF Gone
  <2>4. stage' \in [Worker -> Stages]
    BY Zenon, <1>1, <2>2 DEF StageOK, Stages
  <2>5. ASSUME NEW w \in Worker PROVE StageOf(w)'
    <3>1. w \in Proc
      BY Zenon DEF Proc
    <3>2. CASE w \in Gone(p)
      <4>1. stage'[w] = "poll" /\ lpc'[w] = "idle"
        BY Zenon, <1>6, <2>2, <2>3, <3>2 DEF Crash, LockCrash
      <4>2. QED BY Zenon, <4>1 DEF StageOf
    <3>3. CASE w \notin Gone(p)
      <4>1. stage'[w] = stage[w] /\ lpc'[w] = lpc[w] /\ obj'[w] = obj[w]
        BY Zenon, <1>6, <2>2, <2>3, <3>3 DEF Crash, LockCrash
      <4>2. pc'[w] = pc[w] /\ id'[w] = id[w]
        BY Zenon, <1>1, <1>6, <3>1, <3>3, CrashEffect
      <4>3. QED BY Zenon, <1>1, <4>1, <4>2, WorkerKeeps DEF StageOK
    <3>4. QED BY Zenon, <3>2, <3>3
  <2>6. QED BY Zenon, <2>4, <2>5 DEF StageOK
<1>7. ASSUME NEW k \in Key, ForgetKey(k) PROVE StageOK'
  BY Zenon, <1>3, <1>7 DEF ForgetKey, vars
<1>8. QED BY Zenon, <1>4, <1>5, <1>6, <1>7, WorkerStages DEF PoolNext

-----------------------------------------------------------------------------
(* Every step of the pools is one of the queue's, or fails as they do.     *)

\* A failure that loses nothing but what worker w has in hand.
LEMMA FailureLoses ==
  ASSUME QueueInv, NEW w \in Worker, TypeOK', LocalOK', OthersKeep(w),
         UNCHANGED <<job, queue, scheduled, deleted>>, faults' = faults + 1
  PROVE  QueueInv'
<1>1. w \in Proc
  BY Zenon DEF Proc
<1>2. Forgets(w)
  BY Zenon, <1>1, ForgetStep DEF OthersKeep
<1>3. IsFiniteSet(Lost) /\ faults \in Nat /\ Cardinality(Lost) <= faults
  BY Zenon DEF QueueInv, TypeOK
<1>4. IsFiniteSet(Lost') /\ Cardinality(Lost') <= faults'
  BY Zenon, <1>2, <1>3, Counted DEF Forgets
<1>5. QED BY Zenon, <1>4 DEF QueueInv

\* A crash loses at most the jobs that the process has in hand.
LEMMA CrashLoses ==
  ASSUME QueueInv, NEW p \in Pool, Crash(p), TypeOK', LocalOK'
  PROVE  QueueInv'
<1> DEFINE busy == {x \in Gone(p) : pc[x] # "idle"}
           hand == {id[x] : x \in busy}
<1>1. LocalOK /\ faults \in Nat /\ IsFiniteSet(Lost) /\ Cardinality(Lost) <= faults
  BY Zenon DEF QueueInv, TypeOK
<1>2. IsFiniteSet(Gone(p))
  <2>1. IsFiniteSet({w \in Worker : PoolOf[w] = p})
    BY Zenon, PoolAssumption, FS_Subset
  <2>2. QED BY Zenon, <2>1, FS_AddElement DEF Gone
<1>3. IsFiniteSet(busy)
  BY Zenon, <1>2, FS_Subset
<1>4. IsFiniteSet(hand) /\ Cardinality(hand) <= Cardinality(busy)
  <2> DEFINE f == [x \in busy |-> id[x]]
  <2>1. f \in Surjection(busy, hand)
    BY Zenon DEF Surjection
  <2>2. QED BY Zenon, <1>3, <2>1, FS_Surjection
<1>5. faults' = faults + Cardinality(busy)
  BY Zenon, <1>1, CrashEffect
<1>6. Lost' \subseteq Lost \cup hand
  <2>1. UNCHANGED <<job, queue, scheduled, deleted>>
    BY Zenon DEF Crash, redis
  <2>2. ASSUME NEW j, Carried(j), j \notin hand PROVE Carried(j)'
    <3>1. PICK x \in Proc : id[x] = j /\ pc[x] \in CarryPC
      BY Zenon, <2>2 DEF Carried
    <3>2. x \notin Gone(p)
      BY Zenon, <2>2, <3>1 DEF CarryPC
    <3>3. id'[x] = j /\ pc'[x] \in CarryPC
      BY Zenon, <1>1, <3>1, <3>2, CrashEffect
    <3>4. QED BY Zenon, <3>3 DEF Carried
  <2>3. QED BY Zenon, <2>1, <2>2 DEF Lost, Located, Unfinished, Queued
<1> HIDE DEF busy, hand
<1>7. /\ Cardinality(Lost) \in Nat /\ Cardinality(busy) \in Nat
      /\ Cardinality(hand) \in Nat /\ Cardinality(Lost \cap hand) \in Nat
      /\ IsFiniteSet(Lost \cup hand)
      /\ Cardinality(Lost \cup hand)
           = Cardinality(Lost) + Cardinality(hand) - Cardinality(Lost \cap hand)
  <2>1. IsFiniteSet(Lost \cap hand)
    BY Zenon, <1>1, FS_Subset
  <2>2. QED BY Zenon, <1>1, <1>3, <1>4, <2>1, FS_Union, FS_CardinalityType
<1>8. IsFiniteSet(Lost') /\ Cardinality(Lost') <= Cardinality(Lost \cup hand)
  BY Zenon, <1>6, <1>7, FS_Subset
<1>9. Cardinality(Lost') \in Nat
  BY Zenon, <1>8, FS_CardinalityType
<1>10. Cardinality(Lost') <= faults'
  BY <1>1, <1>4, <1>5, <1>7, <1>8, <1>9
<1>11. QED BY Zenon, <1>8, <1>10 DEF QueueInv

\* A failed EXISTS or SET of the idempotency check, or a command of Complete,
\* Fail or requeueJob that fails.
LEMMA WorkerFails ==
  ASSUME QueueInv, NEW w \in Worker,
         IdempotencyFails(w) \/ MarkFails(w) \/ OutcomeFails(w)
  PROVE  QueueInv'
<1>1. TypeOK /\ LocalOK /\ faults \in Nat /\ w \in Proc
  BY Zenon DEF QueueInv, TypeOK, Proc
<1>2. OthersKeep(w)
  BY Zenon, <1>1, WorkersAlone
<1>3. /\ UNCHANGED <<redis, id, loc, scan, batch, issued, succ, deleted,
                     expired, calls>>
      /\ faults' = faults + 1
      /\ UNCHANGED pc \/ Goto(w, "ret")
  BY Zenon DEF IdempotencyFails, MarkFails, OutcomeFails, local, Goto
<1>4. LocalOK'
  <2>1. CASE UNCHANGED pc
    BY Zenon, <1>1, <1>3, <2>1 DEF LocalOK
  <2>2. CASE Goto(w, "ret")
    <3>1. HoldsAt("ret", id[w], loc[w], deleted') /\ "ret" \in PC
      BY Zenon DEF HoldsAt, PC
    <3>2. deleted \subseteq deleted' /\ UNCHANGED <<id, loc>>
      BY Zenon, <1>3
    <3>3. QED BY Zenon, <1>1, <2>2, <3>1, <3>2, CallerMoves
  <2>3. QED BY Zenon, <1>3, <2>1, <2>2
<1>5. faults' \in Nat
  BY <1>1, <1>3
<1>6. TypeOK'
  BY Zenon, <1>1, <1>3, <1>4, <1>5 DEF TypeOK, LocalOK, redis
<1>7. QED BY Zenon, <1>2, <1>3, <1>4, <1>6, FailureLoses DEF redis

\* The queue's variables after a crash.
LEMMA CrashTyped ==
  ASSUME QueueInv, NEW p \in Pool, Crash(p)
  PROVE  TypeOK' /\ LocalOK'
<1>1. TypeOK /\ LocalOK
  BY Zenon DEF QueueInv
<1>2. /\ pc' \in [Proc -> PC]
      /\ id' \in [Proc -> Job \cup {NoJob}]
      /\ loc' \in [Proc -> Record]
  <2>1. "idle" \in PC /\ Absent \in Record
    BY Zenon, RecordFacts DEF PC
  <2>2. /\ pc \in [Proc -> PC]
        /\ id \in [Proc -> Job \cup {NoJob}]
        /\ loc \in [Proc -> Record]
    BY Zenon, <1>1 DEF LocalOK
  <2>3. /\ pc' = [x \in Proc |-> IF x \in Gone(p) THEN "idle" ELSE pc[x]]
        /\ id' = [x \in Proc |-> IF x \in Gone(p) THEN NoJob ELSE id[x]]
        /\ loc' = [x \in Proc |-> IF x \in Gone(p) THEN Absent ELSE loc[x]]
    BY Zenon, <1>1, CrashEffect
  <2>4. QED BY Zenon, <2>1, <2>2, <2>3
<1>3. UNCHANGED <<redis, issued, succ, deleted, expired, calls>>
  BY Zenon DEF Crash
<1>4. ASSUME NEW x \in Proc PROVE HoldsAt(pc'[x], id'[x], loc'[x], deleted')
  <2>1. CASE x \in Gone(p)
    <3>1. pc'[x] = "idle"
      BY Zenon, <1>1, <2>1, CrashEffect
    <3>2. QED BY Zenon, <3>1 DEF HoldsAt
  <2>2. CASE x \notin Gone(p)
    <3>1. pc'[x] = pc[x] /\ id'[x] = id[x]
      BY Zenon, <1>1, <2>2, CrashEffect
    <3>2. loc'[x] = loc[x]
      <4>1. loc' = [y \in Proc |-> IF y \in Gone(p) THEN Absent ELSE loc[y]]
        BY Zenon, <1>1, CrashEffect
      <4>2. QED BY Zenon, <2>2, <4>1
    <3>3. HoldsAt(pc[x], id[x], loc[x], deleted)
      BY Zenon, <1>1 DEF LocalOK
    <3>4. QED BY Zenon, <1>3, <3>1, <3>2, <3>3
  <2>3. QED BY Zenon, <2>1, <2>2
<1>5. LocalOK'
  BY Zenon, <1>2, <1>4 DEF LocalOK
<1>6. scan' \in [Worker -> Prio] /\ batch' \in [Processor -> SUBSET Job]
  <2>1. scan \in [Worker -> Prio] /\ batch \in [Processor -> SUBSET Job] /\ 1 \in Prio
    BY Zenon, <1>1, NextPrioTyped DEF TypeOK
  <2>2. /\ scan' = [x \in DOMAIN scan |-> IF x \in Gone(p) THEN 1 ELSE scan[x]]
        /\ batch' = [x \in DOMAIN batch |-> IF x \in Gone(p) THEN {} ELSE batch[x]]
    BY Zenon DEF Crash, Gone
  <2>3. DOMAIN scan = Worker /\ DOMAIN batch = Processor
    BY Zenon, <2>1
  <2>4. QED BY Zenon, <2>1, <2>2, <2>3
<1>7. faults' \in Nat
  <2> DEFINE busy == {x \in Gone(p) : pc[x] # "idle"}
  <2>1. IsFiniteSet({w \in Worker : PoolOf[w] = p})
    BY Zenon, PoolAssumption, FS_Subset
  <2>2. IsFiniteSet(Gone(p))
    BY Zenon, <2>1, FS_AddElement DEF Gone
  <2>3. IsFiniteSet(busy)
    BY Zenon, <2>2, FS_Subset
  <2>4. Cardinality(busy) \in Nat
    BY Zenon, <2>3, FS_CardinalityType
  <2>5. faults' = faults + Cardinality(busy) /\ faults \in Nat
    BY Zenon, <1>1, CrashEffect DEF TypeOK
  <2> HIDE DEF busy
  <2>6. QED BY <2>4, <2>5
<1>8. QED BY Zenon, <1>1, <1>2, <1>3, <1>5, <1>6, <1>7 DEF TypeOK, redis

\* The queue's invariant after every step of the pools.
LEMMA PoolQueues ==
  ASSUME QueueInv, PoolNext
  PROVE  QueueInv'
<1>1. ASSUME NEW w \in Worker,
             \/ Poll(w) \/ SkipJob(w) \/ Requeue(w) \/ HandlerSucceeds(w)
             \/ HandlerFails(w) \/ Outcome(w) \/ Done(w) \/ GiveUp(w)
             \/ SkipLost(w) \/ LockFails(w)
      PROVE  Next
  <2>1. WorkerStep(w) \/ DequeueSkips(w) \/ Abort(w)
    BY Zenon, <1>1 DEF Poll, SkipJob, Requeue, HandlerSucceeds, HandlerFails,
       Outcome, Done, GiveUp, SkipLost, LockFails, WorkerStep
  <2>2. QED BY Zenon, <2>1 DEF Next, Proc
<1>2. ASSUME NEW w \in Worker,
             \/ CheckIdempotency(w) \/ Lock(w) \/ LockTaken(w) \/ Enter(w)
             \/ MarkCompleted(w) \/ Unmarked(w) \/ Release(w)
      PROVE  UNCHANGED vars
  BY Zenon, <1>2 DEF CheckIdempotency, Lock, LockTaken, Enter, MarkCompleted,
     Unmarked, Release
<1>3. QueueStep => Next
  BY Zenon, PoolAssumption DEF QueueStep, JobRequest, Next, Proc
<1>4. ASSUME NEW p \in Pool, Crash(p) PROVE QueueInv'
  BY Zenon, <1>4, CrashTyped, CrashLoses
<1>5. ASSUME NEW k \in Key, ForgetKey(k) PROVE UNCHANGED vars
  BY Zenon, <1>5 DEF ForgetKey
<1>6. QED BY Zenon, <1>1, <1>2, <1>3, <1>4, <1>5, WorkerFails, LossStep,
             LossStutters DEF PoolNext, JobStep

-----------------------------------------------------------------------------
\* PoolInv is an inductive invariant of the pools on the queue and the lock.
THEOREM PoolInvariant == PoolSpec => []PoolInv
<1>1. PoolInit => PoolInv
  <2> SUFFICES ASSUME PoolInit PROVE PoolInv
    BY Zenon
  <2>1. QueueInv /\ LockInv
    BY Zenon, LossStarts, LockStarts DEF PoolInit
  <2>2. stage = [w \in Worker |-> "poll"] /\ lpc = [w \in Worker |-> "idle"]
    BY Zenon DEF PoolInit, LockInit
  <2>3. StageOK
    BY Zenon, <2>2 DEF StageOK, StageOf, Stages
  <2>4. QED BY Zenon, <2>1, <2>3 DEF PoolInv
<1>2. PoolInv /\ [PoolNext]_allVars => PoolInv'
  <2> SUFFICES ASSUME PoolInv, [PoolNext]_allVars PROVE PoolInv'
    BY Zenon
  <2>1. LockInv'
    BY Zenon, PoolLocks, LockStep DEF PoolInv
  <2>2. CASE UNCHANGED allVars
    <3>1. QueueInv'
      BY Zenon, <2>2, LossStutters DEF PoolInv, allVars
    <3>2. StageOK'
      BY Zenon, <2>2, AllKeep DEF PoolInv, allVars, vars, lockVars, poolVars
    <3>3. QED BY Zenon, <2>1, <3>1, <3>2 DEF PoolInv
  <2>3. CASE PoolNext
    <3>1. QueueInv'
      BY Zenon, <2>3, PoolQueues DEF PoolInv
    <3>2. StageOK'
      BY Zenon, <2>1, <2>3, <3>1, StageStep DEF QueueInv, LockInv
    <3>3. QED BY Zenon, <2>1, <3>1, <3>2 DEF PoolInv
  <2>4. QED BY Zenon, <2>2, <2>3
<1>3. QED BY <1>1, <1>2, PTL DEF PoolSpec

\* The pools use the lock manager as JobLock lets its callers use it, so that
\* everything proved of the lock holds in the pools.
THEOREM PoolUsesLock == PoolSpec => LockSpec
<1>1. PoolInit => LockInit
  BY Zenon DEF PoolInit
<1>2. PoolInv /\ [PoolNext]_allVars => [LockNext]_lockVars
  BY Zenon, PoolLocks
<1>3. QED BY <1>1, <1>2, PoolInvariant, PTL DEF PoolSpec, LockSpec

\* OneHandlerPerJob: processNextJob's checkIdempotency, AcquireLock, executeJob
\* and ReleaseLock never let two timely workers run the handler of one job at
\* the same time while no cleaner has run, however often the job is queued and
\* whatever crashes, failing commands and stopping processes come between.
THEOREM OneHandler == PoolSpec => []OneHandlerPerJob
<1>1. PoolInv => OneHandlerPerJob
  <2> SUFFICES ASSUME PoolInv, cleanups = 0, NEW v \in Worker, NEW w \in Worker,
                      stage[v] = "exec", Timely(v), stage[w] = "exec", Timely(w),
                      id[v] = id[w]
               PROVE  v = w
    BY Zenon DEF OneHandlerPerJob
  <2>1. /\ lpc[v] = "hold" /\ obj[v].job = id[v]
        /\ lpc[w] = "hold" /\ obj[w].job = id[w]
    BY Zenon DEF PoolInv, StageOK, StageOf
  <2>2. InSection(v) /\ InSection(w)
    BY Zenon, <2>1 DEF InSection
  <2>3. lock[obj[v].job] = v /\ lock[obj[w].job] = w
    BY Zenon, <2>2 DEF PoolInv, LockInv, KeepsLock
  <2>4. QED BY Zenon, <2>1, <2>3
<1>2. QED BY <1>1, PoolInvariant, PTL

\* LossBounded in the pools: a job is lost only by an operation that a failing
\* command or a crash cut short while it had the job in hand.
THEOREM PoolLosesNothing == PoolSpec => []LossBounded
<1>1. PoolInv => LossBounded
  BY Zenon DEF PoolInv, QueueInv, LossBounded
<1>2. QED BY <1>1, PoolInvariant, PTL
=============================================================================
