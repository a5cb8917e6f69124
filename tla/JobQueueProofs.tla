--------------------------- MODULE JobQueueProofs ---------------------------
(***************************************************************************)
(* The queue keeps its types, its callers hold what they have to, and with *)
(* that: a job is lost only to a call cut short, and a dead job can be     *)
(* found.                                                                  *)
(***************************************************************************)
EXTENDS JobQueue, FiniteSetTheorems, TLAPS

\* LPUSH keeps every entry of a list and adds the new one.
LEMMA PushKeeps ==
  ASSUME NEW s \in Seq(Job), NEW e \in Job
  PROVE  /\ Append(s, e) \in Seq(Job)
         /\ InList(Append(s, e), e)
         /\ \A x : InList(s, x) => InList(Append(s, e), x)
<1>1. /\ Append(s, e) \in Seq(Job)
      /\ Len(s) \in Nat
      /\ Len(Append(s, e)) = Len(s) + 1
      /\ \A i \in 1..Len(s) : Append(s, e)[i] = s[i]
      /\ Append(s, e)[Len(s) + 1] = e
  OBVIOUS
<1>2. InList(Append(s, e), e)
  BY <1>1 DEF InList
<1>3. ASSUME NEW x, InList(s, x) PROVE InList(Append(s, e), x)
  BY <1>1, <1>3 DEF InList
<1>4. QED BY Zenon, <1>1, <1>2, <1>3

\* RPOP removes one entry: every other ID of the list is still there.
LEMMA PopKeeps ==
  ASSUME NEW s \in Seq(Job), s # <<>>
  PROVE  /\ Head(s) \in Job
         /\ Tail(s) \in Seq(Job)
         /\ \A x : InList(s, x) => x = Head(s) \/ InList(Tail(s), x)
<1>1. /\ Head(s) \in Job
      /\ Tail(s) \in Seq(Job)
      /\ Len(s) \in Nat
      /\ Len(Tail(s)) = Len(s) - 1
      /\ \A i \in 1..Len(Tail(s)) : Tail(s)[i] = s[i + 1]
  OBVIOUS
<1>2. Head(s) = s[1]
  OBVIOUS
<1>3. ASSUME NEW x, InList(s, x), x # Head(s) PROVE InList(Tail(s), x)
  <2>1. PICK i \in 1..Len(s) : s[i] = x
    BY Zenon, <1>3 DEF InList
  <2>2. i # 1
    BY Zenon, <2>1, <1>2, <1>3
  <2>3. i - 1 \in 1..Len(Tail(s)) /\ Tail(s)[i - 1] = s[i - 1 + 1]
    BY <2>1, <2>2, <1>1
  <2>4. i - 1 + 1 = i
    BY <2>1, <1>1
  <2>5. QED BY Zenon, <2>1, <2>3, <2>4 DEF InList
<1>4. QED BY Zenon, <1>1, <1>3

\* LREM leaves a list of job IDs that still has every ID but the removed one.
LEMMA RemoveKeeps ==
  ASSUME NEW s \in Seq(Job), NEW e
  PROVE  /\ Without(s, e) \in Seq(Job)
         /\ \A x : InList(s, x) => x = e \/ InList(Without(s, e), x)
<1> DEFINE keep    == {i \in 1..Len(s) : s[i] # e}
           upto(i) == {m \in keep : m <= i}
           rank(i) == Cardinality(upto(i))
           N       == Cardinality(keep)
           f       == [i \in keep |-> rank(i)]
           pos(n)  == CHOOSE i \in keep : rank(i) = n
<1>1. Len(s) \in Nat /\ \A i \in 1..Len(s) : s[i] \in Job
  OBVIOUS
<1>2. IsFiniteSet(1..Len(s)) /\ keep \in SUBSET (1..Len(s))
  BY <1>1, FS_Interval
<1>3. IsFiniteSet(keep) /\ N \in Nat
  BY Zenon, <1>2, FS_Subset, FS_CardinalityType
<1>4. \A i \in keep : IsFiniteSet(upto(i)) /\ rank(i) \in 1..N
  <2> TAKE i \in keep
  <2>1. upto(i) \in SUBSET keep
    BY Zenon
  <2>2. IsFiniteSet(upto(i)) /\ rank(i) <= N
    BY Zenon, <2>1, <1>3, FS_Subset
  <2>3. rank(i) \in Nat
    BY Zenon, <2>2, FS_CardinalityType
  <2>4. i \in upto(i)
    BY <1>1
  <2>5. rank(i) # 0
    BY <2>2, <2>4, FS_EmptySet, Zenon
  <2> HIDE DEF rank, N
  <2>6. rank(i) \in 1..N
    BY <1>3, <2>2, <2>3, <2>5
  <2>7. QED BY Zenon, <2>2, <2>6
<1>5. \A i, k \in keep : i < k => rank(i) # rank(k)
  <2> SUFFICES ASSUME NEW i \in keep, NEW k \in keep, i < k
               PROVE  rank(i) # rank(k)
    BY Zenon
  <2>1. upto(i) \in SUBSET upto(k)
    BY <1>1
  <2>2. k \in upto(k) /\ k \notin upto(i)
    BY <1>1
  <2>3. IsFiniteSet(upto(k))
    BY <1>4, Zenon
  <2>4. upto(i) # upto(k)
    BY Zenon, <2>2
  <2>5. QED BY Zenon, <2>1, <2>3, <2>4, FS_Subset
<1>6. \A i, k \in keep : rank(i) = rank(k) => i = k
  BY <1>1, <1>5
<1>7. f \in Injection(keep, 1..N)
  <2>1. f \in [keep -> 1..N]
    <3>1. \A i \in keep : rank(i) \in 1..N
      BY Zenon, <1>4
    <3> HIDE DEF rank, N, keep
    <3>2. QED BY Zenon, <3>1
  <2>2. \A i, k \in keep : f[i] = f[k] => i = k
    BY Zenon, <1>6
  <2> HIDE DEF f
  <2>3. QED BY Zenon, <2>1, <2>2 DEF Injection, IsInjective
<1>8. IsFiniteSet(1..N) /\ Cardinality(1..N) = N
  BY <1>3, FS_Interval
<1>9. f \in Surjection(keep, 1..N)
  BY Zenon, <1>7, <1>8, FS_Injection
<1>10. \A n \in 1..N : \E i \in keep : rank(i) = n
  BY <1>9, Zenon DEF Surjection
<1>11. \A n \in 1..N : pos(n) \in keep /\ rank(pos(n)) = n
  BY <1>10, Zenon
<1>12. Without(s, e) = [n \in 1..N |-> s[pos(n)]]
  BY Zenon DEF Without
<1>13. Without(s, e) \in Seq(Job)
  <2>1. \A n \in 1..N : s[pos(n)] \in Job
    BY <1>1, <1>11, Zenon
  <2> HIDE DEF N, pos
  <2>2. [n \in 1..N |-> s[pos(n)]] \in [1..N -> Job]
    BY Zenon, <2>1
  <2>3. Without(s, e) \in [1..N -> Job] /\ N \in Nat
    BY Zenon, <2>2, <1>3, <1>12
  <2>4. \A m \in Nat : [1..m -> Job] \subseteq Seq(Job)
    OBVIOUS
  <2>5. QED BY Zenon, <2>3, <2>4
<1>14. ASSUME NEW x, InList(s, x), x # e PROVE InList(Without(s, e), x)
  <2>1. PICK i \in 1..Len(s) : s[i] = x
    BY Zenon, <1>14 DEF InList
  <2>2. i \in keep
    BY Zenon, <2>1, <1>14
  <2>3. rank(i) \in 1..N
    BY Zenon, <2>2, <1>3, <1>4
  <2>4. pos(rank(i)) = i
    BY Zenon, <2>2, <2>3, <1>11, <1>6
  <2>5. Len(Without(s, e)) = N
    BY <1>3, <1>12
  <2>6. Without(s, e)[rank(i)] = x
    BY <1>12, <2>1, <2>3, <2>4, Zenon
  <2>7. QED BY <2>3, <2>5, <2>6, Zenon DEF InList
<1>15. QED BY Zenon, <1>13, <1>14
-----------------------------------------------------------------------------
\* The payload updates the code makes yield payloads again.
LEMMA RecordUpdates ==
  /\ Absent \in Record
  /\ \A r \in Record : /\ r.prio \in Prio
                       /\ r.attempts \in Int
                       /\ r.max \in Int
                       /\ r.status \in Status
  /\ \A r \in Record, t \in Status :
       /\ [r EXCEPT !.status = t] \in Record
       /\ [r EXCEPT !.status = t].status = t
  /\ \A r \in Record, t \in Status, n \in Int :
       [r EXCEPT !.status = t, !.attempts = n] \in Record
  /\ \A r \in Record, t \in Status, n \in Int :
       [r EXCEPT !.status = t, !.attempts = n, !.at = "nil"] \in Record
  /\ \A r \in Record, t \in Status, a \in {"nil", "set"} :
       /\ [r EXCEPT !.status = t, !.at = a] \in Record
       /\ [r EXCEPT !.status = t, !.at = a].status = t
       /\ [r EXCEPT !.at = a, !.status = t] \in Record
  /\ \A s \in Submission :
       [status |-> "pending", attempts |-> 0, key |-> s.key,
        prio |-> s.prio, at |-> s.at, max |-> s.max] \in Record
<1> USE QueueAssumption DEF Prio
<1>1. Absent \in Record
  BY DEF Record, Absent, Status
<1>2. \A r \in Record : /\ r.prio \in Prio
                        /\ r.attempts \in Int
                        /\ r.max \in Int
                        /\ r.status \in Status
  BY Zenon DEF Record
<1>3. \A r \in Record, t \in Status : /\ [r EXCEPT !.status = t] \in Record
                                      /\ [r EXCEPT !.status = t].status = t
  BY Zenon DEF Record
<1>4. \A r \in Record, t \in Status, n \in Int :
        [r EXCEPT !.status = t, !.attempts = n] \in Record
  BY Zenon DEF Record
<1>5. \A r \in Record, t \in Status, n \in Int :
        [r EXCEPT !.status = t, !.attempts = n, !.at = "nil"] \in Record
  BY Zenon DEF Record
<1>6. \A r \in Record, t \in Status, a \in {"nil", "set"} :
        /\ [r EXCEPT !.status = t, !.at = a] \in Record
        /\ [r EXCEPT !.status = t, !.at = a].status = t
        /\ [r EXCEPT !.at = a, !.status = t] \in Record
  BY Zenon DEF Record
<1>7. \A s \in Submission :
        [status |-> "pending", attempts |-> 0, key |-> s.key,
         prio |-> s.prio, at |-> s.at, max |-> s.max] \in Record
  BY DEF Record, Status
<1>8. QED BY <1>1, <1>2, <1>3, <1>4, <1>5, <1>6, <1>7, Zenon

\* Its first two facts by themselves.
LEMMA RecordFacts == Absent \in Record /\ \A r \in Record : r.prio \in Prio
BY RecordUpdates, Zenon

\* The same for the updates that count attempts.
LEMMA AttemptUpdates ==
  ASSUME NEW r \in Record
  PROVE  /\ [r EXCEPT !.status = "pending", !.attempts = 0] \in Record
         /\ [r EXCEPT !.status = "pending", !.attempts = 0, !.at = "nil"] \in Record
         /\ [r EXCEPT !.status = "running", !.attempts = @ + 1] \in Record
         /\ [r EXCEPT !.status = "pending", !.attempts = @ - 1] \in Record
         /\ [r EXCEPT !.status = "pending", !.attempts = 0].status = "pending"
         /\ [r EXCEPT !.status = "pending", !.attempts = 0, !.at = "nil"].status = "pending"
         /\ [r EXCEPT !.status = "running", !.attempts = @ + 1].status = "running"
         /\ [r EXCEPT !.at = "nil", !.status = "pending"].status = "pending"
<1>1. "pending" \in Status /\ "running" \in Status
  BY Zenon DEF Status
<1>2. r.attempts + 1 \in Int /\ r.attempts - 1 \in Int
  BY DEF Record
<1>0. 0 \in Int
  OBVIOUS
<1>3. [r EXCEPT !.status = "pending", !.attempts = 0] \in Record
  BY <1>0, <1>1, RecordUpdates, Zenon
<1>4. [r EXCEPT !.status = "pending", !.attempts = 0, !.at = "nil"] \in Record
  BY <1>0, <1>1, RecordUpdates, Zenon
<1>5. [r EXCEPT !.status = "running", !.attempts = @ + 1] \in Record
  BY <1>1, <1>2, Zenon DEF Record
<1>6. [r EXCEPT !.status = "pending", !.attempts = @ - 1] \in Record
  BY <1>1, <1>2, Zenon DEF Record
<1>7. /\ [r EXCEPT !.status = "pending", !.attempts = 0].status = "pending"
      /\ [r EXCEPT !.status = "pending", !.attempts = 0, !.at = "nil"].status = "pending"
      /\ [r EXCEPT !.status = "running", !.attempts = @ + 1].status = "running"
      /\ [r EXCEPT !.at = "nil", !.status = "pending"].status = "pending"
  BY DEF Record
<1>8. QED BY Zenon, <1>3, <1>4, <1>5, <1>6, <1>7

\* What a caller holds at command l: an ID k whenever it is inside an
\* operation, as payload r the outcome it is about to store, which only Fail
\* makes dead, and, inside DeleteJob, the ID of a job that is among the
\* cancelled ones d.
HoldsAt(l, k, r, d) ==
  /\ l \notin {"idle", "sched_get", "ret"} => k \in Job
  /\ l = "complete_update" => r.status = "completed"
  /\ l = "fail_update" => r.status \in {"retrying", "dead"}
  /\ l \in {"enq_check", "enq_store", "deq_update", "sched_remove", "sched_update"}
       => r.status # "dead"
  /\ l \in {"del_job", "del_queue", "del_scheduled", "del_dlq"} => k \in d

LocalOK ==
  /\ pc \in [Proc -> PC]
  /\ id \in [Proc -> Job \cup {NoJob}]
  /\ loc \in [Proc -> Record]
  /\ \A p \in Proc : HoldsAt(pc[p], id[p], loc[p], deleted)

\* A caller goes on to command l with new local variables ...
LEMMA CallerKeeps ==
  ASSUME LocalOK, deleted \subseteq deleted',
         NEW p \in Proc, NEW l \in PC, NEW k \in Job \cup {NoJob},
         NEW r \in Record, Goto(p, l), Keep(p, k, r),
         HoldsAt(l, k, r, deleted')
  PROVE  LocalOK'
<1>1. /\ pc' \in [Proc -> PC]
      /\ id' \in [Proc -> Job \cup {NoJob}]
      /\ loc' \in [Proc -> Record]
  BY Zenon DEF LocalOK, Goto, Keep
<1>2. ASSUME NEW q \in Proc PROVE HoldsAt(pc'[q], id'[q], loc'[q], deleted')
  <2>1. CASE q = p
    BY Zenon, <2>1 DEF LocalOK, Goto, Keep
  <2>2. CASE q # p
    <3>1. pc'[q] = pc[q] /\ id'[q] = id[q] /\ loc'[q] = loc[q]
      BY Zenon, <2>2 DEF LocalOK, Goto, Keep
    <3>2. HoldsAt(pc[q], id[q], loc[q], deleted)
      BY Zenon DEF LocalOK
    <3>3. QED BY Zenon, <3>1, <3>2 DEF HoldsAt
  <2>3. QED BY Zenon, <2>1, <2>2
<1>3. QED BY Zenon, <1>1, <1>2 DEF LocalOK

\* ... or with the ones it has.
LEMMA CallerMoves ==
  ASSUME LocalOK, deleted \subseteq deleted',
         NEW p \in Proc, NEW l \in PC, Goto(p, l), UNCHANGED <<id, loc>>,
         HoldsAt(l, id[p], loc[p], deleted')
  PROVE  LocalOK'
<1>1. /\ Keep(p, id[p], loc[p])
      /\ id[p] \in Job \cup {NoJob}
      /\ loc[p] \in Record
  BY Zenon DEF LocalOK, Keep
<1>2. QED BY Zenon, <1>1, CallerKeeps

\* SET and LPUSH of well-typed values.
LEMMA StoreTyped ==
  ASSUME TypeOK, NEW j, NEW r \in Record, Store(j, r)
  PROVE  job' \in [Job -> Record]
BY Zenon DEF TypeOK, Store

\* LPUSH of a typed record's ID: the job is queued and no other one is dropped.
LEMMA PushTyped ==
  ASSUME TypeOK, NEW j \in Job, NEW r \in Record, Push(j, r)
  PROVE  /\ queue' \in [Prio -> Seq(Job)]
         /\ Queued(j)'
         /\ \A x : Queued(x) => Queued(x)'
<1> DEFINE q == r.prio
<1>1. q \in Prio /\ queue[q] \in Seq(Job)
  BY RecordUpdates, Zenon DEF TypeOK
<1>2. /\ Append(queue[q], j) \in Seq(Job)
      /\ InList(Append(queue[q], j), j)
      /\ \A x : InList(queue[q], x) => InList(Append(queue[q], j), x)
  BY Zenon, <1>1, PushKeeps
<1>3. queue' = [queue EXCEPT ![q] = Append(queue[q], j)]
  BY Zenon DEF Push
<1> HIDE DEF q
<1>4. queue' \in [Prio -> Seq(Job)]
  BY Zenon, <1>1, <1>2, <1>3 DEF TypeOK
<1>5. queue'[q] = Append(queue[q], j) /\ \A i \in Prio \ {q} : queue'[i] = queue[i]
  BY Zenon, <1>1, <1>3 DEF TypeOK
<1>6. Queued(j)'
  BY <1>1, <1>2, <1>5 DEF Queued, InList
<1>7. ASSUME NEW x, Queued(x) PROVE Queued(x)'
  BY <1>1, <1>2, <1>5, <1>7 DEF Queued, InList
<1>8. QED BY Zenon, <1>4, <1>6, <1>7

\* A caller that returns holds nothing, and so does a processor between two
\* IDs of its batch.
LEMMA CallerReturns ==
  ASSUME LocalOK, deleted \subseteq deleted', NEW p \in Proc, Return(p)
  PROVE  LocalOK'
<1>1. HoldsAt("idle", NoJob, Absent, deleted')
  BY Zenon DEF HoldsAt
<1>2. QED BY <1>1, RecordUpdates, CallerKeeps, Zenon DEF Return, PC

\* A processor that goes on to the next ID of its batch, or ends the batch,
\* holds nothing.
LEMMA CallerAdvances ==
  ASSUME LocalOK, deleted \subseteq deleted', NEW p \in Proc, NEW j,
         Advance(p, j)
  PROVE  LocalOK'
<1>1. /\ HoldsAt("idle", NoJob, Absent, deleted')
      /\ HoldsAt("sched_get", NoJob, Absent, deleted')
  BY Zenon DEF HoldsAt
<1>2. Goto(p, "idle") \/ Goto(p, "sched_get")
  BY Zenon DEF Advance
<1>3. QED BY <1>1, <1>2, RecordUpdates, CallerKeeps, Zenon DEF Advance, PC

-----------------------------------------------------------------------------
\* The callers other than p stay where they are, with the job they have.
OthersKeep(p) ==
  \A q \in Proc \ {p} : pc'[q] = pc[q] /\ id'[q] = id[q] /\ loc'[q] = loc[q]

\* Every step of a caller leaves the others alone.
LEMMA OwnMoves ==
  ASSUME LocalOK, NEW p \in Proc,
         \/ ClientStep(p) \/ WorkerStep(p) \/ ProcessorStep(p) \/ DeleteFails(p)
         \/ DequeueSkips(p) \/ (\E j : ScheduledSkips(p, j)) \/ Abort(p)
  PROVE  OthersKeep(p)
<1> USE DEF LocalOK, OthersKeep
<1>1. CASE ClientStep(p)
  <2>1. \A j, s : EnqueueCall(p, j, s) => OthersKeep(p)
    BY Zenon DEF EnqueueCall, Goto, Keep
  <2>2. EnqueueCheck(p) => OthersKeep(p)
    BY Zenon DEF EnqueueCheck, Goto, Keep, Return
  <2>3. EnqueueStore(p) => OthersKeep(p)
    BY Zenon DEF EnqueueStore, Goto
  <2>4. EnqueuePush(p) => OthersKeep(p)
    BY Zenon DEF EnqueuePush, Goto, Keep, Return
  <2>5. EnqueueUnique(p) => OthersKeep(p)
    BY Zenon DEF EnqueueUnique, Goto, Keep, Return
  <2>6. \A j : RetryJob(p, j) => OthersKeep(p)
    BY Zenon DEF RetryJob, Goto, Keep
  <2>7. \A j : RetryDLQGet(p, j) => OthersKeep(p)
    BY Zenon DEF RetryDLQGet, Goto, Keep
  <2>8. \A j : RetryDLQRemove(p, j) => OthersKeep(p)
    BY Zenon DEF RetryDLQRemove, Goto, Keep
  <2>9. \A j : DeleteCall(p, j) => OthersKeep(p)
    BY Zenon DEF DeleteCall, Goto, Keep
  <2>10. DeleteRecord(p) => OthersKeep(p)
    BY Zenon DEF DeleteRecord, Goto
  <2>11. DeleteQueued(p) => OthersKeep(p)
    BY Zenon DEF DeleteQueued, Goto
  <2>12. DeleteScheduled(p) => OthersKeep(p)
    BY Zenon DEF DeleteScheduled, Goto
  <2>13. DeleteDead(p) => OthersKeep(p)
    BY Zenon DEF DeleteDead, Goto, Keep, Return
  <2>14. DropUnique(p) => OthersKeep(p)
    BY Zenon DEF DropUnique, Goto, Keep, Return
  <2>15. QED BY Zenon, <1>1, <2>1, <2>2, <2>3, <2>4, <2>5, <2>6, <2>7, <2>8, <2>9, <2>10, <2>11,
                <2>12, <2>13, <2>14 DEF ClientStep
<1>2. CASE WorkerStep(p)
  <2>1. DequeuePop(p) => OthersKeep(p)
    BY Zenon DEF DequeuePop, Goto, Keep
  <2>2. DequeueGet(p) => OthersKeep(p)
    BY Zenon DEF DequeueGet, Goto, Keep, Return
  <2>3. DequeueUpdate(p) => OthersKeep(p)
    BY Zenon DEF DequeueUpdate, Goto
  <2>4. CompleteGet(p) => OthersKeep(p)
    BY Zenon DEF CompleteGet, Goto, Keep
  <2>5. CompleteUpdate(p) => OthersKeep(p)
    BY Zenon DEF CompleteUpdate, Goto
  <2>6. FailGet(p) => OthersKeep(p)
    BY Zenon DEF FailGet, Goto, Keep
  <2>7. FailUpdate(p) => OthersKeep(p)
    BY Zenon DEF FailUpdate, Goto
  <2>8. FailSchedule(p) => OthersKeep(p)
    BY Zenon DEF FailSchedule, Goto
  <2>9. FailDLQ(p) => OthersKeep(p)
    BY Zenon DEF FailDLQ, Goto
  <2>10. DropUnique(p) => OthersKeep(p)
    BY Zenon DEF DropUnique, Goto, Keep, Return
  <2>11. RequeueUpdate(p) => OthersKeep(p)
    BY Zenon DEF RequeueUpdate, Goto, Keep
  <2>12. RequeuePush(p) => OthersKeep(p)
    BY Zenon DEF RequeuePush, Goto
  <2>13. WorkerReturn(p) => OthersKeep(p)
    BY Zenon DEF WorkerReturn, Goto, Keep, Return
  <2>14. QED BY Zenon, <1>2, <2>1, <2>2, <2>3, <2>4, <2>5, <2>6, <2>7, <2>8, <2>9, <2>10, <2>11,
                <2>12, <2>13 DEF WorkerStep, DequeueStep, OutcomeStep
<1>3. CASE ProcessorStep(p)
  <2>1. ScheduledScan(p) => OthersKeep(p)
    BY Zenon DEF ScheduledScan, Goto
  <2>2. \A j : ScheduledGet(p, j) => OthersKeep(p)
    BY Zenon DEF ScheduledGet, Advance, Goto, Keep
  <2>3. ScheduledRemove(p) => OthersKeep(p)
    BY Zenon DEF ScheduledRemove, Goto
  <2>4. ScheduledUpdate(p) => OthersKeep(p)
    BY Zenon DEF ScheduledUpdate, Goto
  <2>5. ScheduledPush(p) => OthersKeep(p)
    BY Zenon DEF ScheduledPush, Advance, Goto, Keep
  <2>6. QED BY Zenon, <1>3, <2>1, <2>2, <2>3, <2>4, <2>5 DEF ProcessorStep
<1>4. CASE DeleteFails(p)
  BY Zenon, <1>4 DEF DeleteFails, Goto
<1>5. CASE DequeueSkips(p)
  BY Zenon, <1>5 DEF DequeueSkips, Goto, Keep, Return
<1>6. CASE \E j : ScheduledSkips(p, j)
  BY Zenon, <1>6 DEF ScheduledSkips, Advance, Goto, Keep
<1>7. CASE Abort(p)
  BY Zenon, <1>7 DEF Abort, Goto, Keep, Return
<1>8. QED BY Zenon, <1>1, <1>2, <1>3, <1>4, <1>5, <1>6, <1>7

-----------------------------------------------------------------------------
\* The callers' local variables after every step.
LEMMA LocalStep ==
  ASSUME TypeOK, LocalOK, Next
  PROVE  LocalOK'
<1> USE DEF Proc
<1>0. LocalOK /\ UNCHANGED <<pc, id, loc, deleted>> => LocalOK'
  BY Zenon DEF LocalOK
<1>1. ASSUME NEW p \in Client, NEW j \in Job, NEW s \in Submission, EnqueueCall(p, j, s)
      PROVE  LocalOK'
  <2> DEFINE r == NewJobPayload(s)
  <2>1. r \in Record
    BY RecordUpdates, Zenon DEF NewJobPayload
  <2>2. HoldsAt("enq_check", j, r, deleted')
    BY Zenon, <1>1 DEF LocalOK, HoldsAt, EnqueueCall, NewJobPayload
  <2>3. Keep(p, j, r) /\ Goto(p, "enq_check") /\ deleted \subseteq deleted'
    BY Zenon, <1>1 DEF EnqueueCall, ghost
  <2> HIDE DEF r
  <2>4. QED BY Zenon, <2>1, <2>2, <2>3, CallerKeeps DEF PC
<1>2. ASSUME NEW p \in Client, EnqueueCheck(p) PROVE LocalOK'
  <2>1. CASE Goto(p, "enq_store") /\ UNCHANGED <<id, loc>>
    <3>1. HoldsAt("enq_store", id[p], loc[p], deleted)
      BY Zenon, <1>2, <2>1 DEF LocalOK, HoldsAt, EnqueueCheck
    <3>2. QED BY Zenon, <1>2, <2>1, <3>1, CallerMoves DEF PC, EnqueueCheck, ghost
  <2>2. CASE Return(p)
    BY Zenon, <1>2, <2>2, CallerReturns DEF EnqueueCheck, ghost
  <2>3. QED BY Zenon, <1>2, <2>1, <2>2 DEF EnqueueCheck
<1>3. ASSUME NEW p \in Client, EnqueueStore(p) PROVE LocalOK'
  <2>1. HoldsAt("enq_push", id[p], loc[p], deleted)
    BY Zenon, <1>3 DEF LocalOK, HoldsAt, EnqueueStore
  <2>2. QED BY Zenon, <1>3, <2>1, CallerMoves DEF PC, EnqueueStore, ghost
<1>4. ASSUME NEW p \in Client, EnqueuePush(p) PROVE LocalOK'
  <2>1. CASE Goto(p, "enq_unique") /\ UNCHANGED <<id, loc>>
    <3>1. HoldsAt("enq_unique", id[p], loc[p], deleted)
      BY Zenon, <1>4, <2>1 DEF LocalOK, HoldsAt, EnqueuePush
    <3>2. QED BY Zenon, <1>4, <2>1, <3>1, CallerMoves DEF PC, EnqueuePush, ghost
  <2>2. CASE Return(p)
    BY Zenon, <1>4, <2>2, CallerReturns DEF EnqueuePush, ghost
  <2>3. QED BY Zenon, <1>4, <2>1, <2>2 DEF EnqueuePush
<1>5. ASSUME NEW p \in Client, EnqueueUnique(p) PROVE LocalOK'
  BY Zenon, <1>5, CallerReturns DEF EnqueueUnique, ghost
<1>6. ASSUME NEW p \in Client, NEW j \in Job, RetryJob(p, j) PROVE LocalOK'
  <2> DEFINE r == [job[j] EXCEPT !.status = "pending", !.attempts = 0,
                                       !.at = "nil"]
  <2>1. r \in Record /\ r.status = "pending"
    <3>1. job[j] \in Record
      BY Zenon DEF TypeOK
    <3>2. QED BY <3>1, AttemptUpdates, Zenon
  <2>2. HoldsAt("enq_check", j, r, deleted')
    BY Zenon, <2>1, <1>6 DEF LocalOK, HoldsAt, RetryJob
  <2>3. Keep(p, j, r) /\ Goto(p, "enq_check") /\ deleted \subseteq deleted'
    BY Zenon, <1>6 DEF RetryJob, ghost
  <2> HIDE DEF r
  <2>4. QED BY Zenon, <2>1, <2>2, <2>3, CallerKeeps DEF PC
<1>7. ASSUME NEW p \in Client, NEW j \in Job, RetryDLQGet(p, j) PROVE LocalOK'
  <2> DEFINE r == job[j]
  <2>1. r \in Record
    BY Zenon DEF TypeOK
  <2>2. HoldsAt("rdlq_remove", j, r, deleted')
    BY Zenon, <1>7 DEF LocalOK, HoldsAt, RetryDLQGet
  <2>3. Keep(p, j, r) /\ Goto(p, "rdlq_remove") /\ deleted \subseteq deleted'
    BY Zenon, <1>7 DEF RetryDLQGet, ghost
  <2> HIDE DEF r
  <2>4. QED BY Zenon, <2>1, <2>2, <2>3, CallerKeeps DEF PC
<1>8. ASSUME NEW p \in Client, NEW j \in Job, RetryDLQRemove(p, j) PROVE LocalOK'
  <2> DEFINE r == [loc[p] EXCEPT !.status = "pending", !.attempts = 0]
  <2>1. r \in Record /\ r.status = "pending"
    <3>1. loc[p] \in Record
      BY Zenon DEF LocalOK
    <3>2. QED BY <3>1, AttemptUpdates, Zenon
  <2>2. HoldsAt("enq_check", j, r, deleted')
    BY Zenon, <2>1, <1>8 DEF LocalOK, HoldsAt, RetryDLQRemove
  <2>3. Keep(p, j, r) /\ Goto(p, "enq_check") /\ deleted \subseteq deleted'
    BY Zenon, <1>8 DEF RetryDLQRemove, ghost
  <2> HIDE DEF r
  <2>4. QED BY <2>1, <2>2, <2>3, CallerKeeps DEF PC
<1>9. ASSUME NEW p \in Client, NEW j \in Job, DeleteCall(p, j) PROVE LocalOK'
  <2> DEFINE r == job[j]
  <2>1. r \in Record
    BY DEF TypeOK
  <2>2. HoldsAt("del_job", j, r, deleted')
    BY Zenon, <1>9 DEF LocalOK, HoldsAt, DeleteCall
  <2>3. Keep(p, j, r) /\ Goto(p, "del_job") /\ deleted \subseteq deleted'
    BY Zenon, <1>9 DEF DeleteCall, ghost
  <2> HIDE DEF r
  <2>4. QED BY Zenon, <2>1, <2>2, <2>3, CallerKeeps DEF PC
<1>10. ASSUME NEW p \in Client, DeleteRecord(p) PROVE LocalOK'
  <2>1. HoldsAt("del_queue", id[p], loc[p], deleted)
    BY Zenon, <1>10 DEF LocalOK, HoldsAt, DeleteRecord
  <2>2. QED BY Zenon, <1>10, <2>1, CallerMoves DEF PC, DeleteRecord, ghost
<1>11. ASSUME NEW p \in Client, DeleteQueued(p) PROVE LocalOK'
  <2>1. HoldsAt("del_scheduled", id[p], loc[p], deleted)
    BY Zenon, <1>11 DEF LocalOK, HoldsAt, DeleteQueued
  <2>2. QED BY Zenon, <1>11, <2>1, CallerMoves DEF PC, DeleteQueued, ghost
<1>12. ASSUME NEW p \in Client, DeleteScheduled(p) PROVE LocalOK'
  <2>1. HoldsAt("del_dlq", id[p], loc[p], deleted)
    BY Zenon, <1>12 DEF LocalOK, HoldsAt, DeleteScheduled
  <2>2. QED BY Zenon, <1>12, <2>1, CallerMoves DEF PC, DeleteScheduled, ghost
<1>13. ASSUME NEW p \in Client, DeleteDead(p) PROVE LocalOK'
  <2>1. CASE Goto(p, "drop_unique") /\ UNCHANGED <<id, loc>>
    <3>1. HoldsAt("drop_unique", id[p], loc[p], deleted)
      BY Zenon, <1>13, <2>1 DEF LocalOK, HoldsAt, DeleteDead
    <3>2. QED BY Zenon, <1>13, <2>1, <3>1, CallerMoves DEF PC, DeleteDead, ghost
  <2>2. CASE Return(p)
    BY Zenon, <1>13, <2>2, CallerReturns DEF DeleteDead, ghost
  <2>3. QED BY Zenon, <1>13, <2>1, <2>2 DEF DeleteDead
<1>14. ASSUME NEW p \in Proc, DropUnique(p) PROVE LocalOK'
  <2>1. CASE Goto(p, "ret") /\ UNCHANGED <<id, loc>>
    <3>1. HoldsAt("ret", id[p], loc[p], deleted)
      BY Zenon, <1>14, <2>1 DEF LocalOK, HoldsAt, DropUnique
    <3>2. QED BY Zenon, <1>14, <2>1, <3>1, CallerMoves DEF PC, DropUnique, ghost
  <2>2. CASE Return(p)
    BY Zenon, <1>14, <2>2, CallerReturns DEF DropUnique, ghost
  <2>3. QED BY Zenon, <1>14, <2>1, <2>2 DEF DropUnique
<1>15. ASSUME NEW p \in Worker, DequeuePop(p) PROVE LocalOK'
  <2>1. CASE queue[scan[p]] = <<>>
    BY Zenon, <1>0, <1>15, <2>1 DEF DequeuePop, ghost
  <2>2. CASE queue[scan[p]] # <<>>
    <3>1. Head(queue[scan[p]]) \in Job
      BY Zenon, <2>2, PopKeeps DEF TypeOK
    <3>2. HoldsAt("deq_get", Head(queue[scan[p]]), Absent, deleted')
      BY Zenon, <3>1 DEF HoldsAt
    <3>3. QED BY <1>15, <2>2, <3>1, <3>2, RecordUpdates, CallerKeeps, Zenon
              DEF DequeuePop, PC, ghost
  <2>3. QED BY Zenon, <2>1, <2>2
<1>16. ASSUME NEW p \in Worker, DequeueGet(p) PROVE LocalOK'
  <2>1. CASE Exists(id[p])
    <3> DEFINE r == [job[id[p]] EXCEPT !.status = "running", !.attempts = @ + 1]
    <3>1. r \in Record /\ r.status = "running"
      <4>1. job[id[p]] \in Record
        BY <1>16, Zenon DEF TypeOK, LocalOK, HoldsAt, DequeueGet
      <4>2. QED BY <4>1, AttemptUpdates, Zenon
    <3>2. HoldsAt("deq_update", id[p], r, deleted')
      BY Zenon, <1>16, <2>1, <3>1 DEF LocalOK, HoldsAt, DequeueGet
    <3>3. Keep(p, id[p], r) /\ Goto(p, "deq_update") /\ UNCHANGED deleted
      BY Zenon, <1>16, <2>1 DEF DequeueGet, ghost
    <3>4. id[p] \in Job
      BY Zenon, <1>16, <2>1 DEF LocalOK, HoldsAt, DequeueGet
    <3> HIDE DEF r
    <3>5. QED BY Zenon, <3>1, <3>2, <3>3, <3>4, CallerKeeps DEF PC
  <2>2. CASE ~Exists(id[p])
    BY Zenon, <1>16, <2>2, CallerReturns DEF DequeueGet, ghost
  <2>3. QED BY Zenon, <2>1, <2>2
<1>17. ASSUME NEW p \in Worker, DequeueUpdate(p) PROVE LocalOK'
  <2>1. HoldsAt("got", id[p], loc[p], deleted)
    BY Zenon, <1>17 DEF LocalOK, HoldsAt, DequeueUpdate
  <2>2. QED BY Zenon, <1>17, <2>1, CallerMoves DEF PC, DequeueUpdate, ghost
<1>18. ASSUME NEW p \in Worker, CompleteGet(p) PROVE LocalOK'
  <2>1. CASE Exists(id[p])
    <3> DEFINE r == [job[id[p]] EXCEPT !.status = "completed"]
    <3>1. r \in Record
      <4>1. job[id[p]] \in Record
        BY <1>18, Zenon DEF TypeOK, LocalOK, HoldsAt, CompleteGet
      <4>2. QED BY Zenon, <4>1, QueueAssumption DEF Record, Status
    <3>2. HoldsAt("complete_update", id[p], r, deleted')
      BY <1>18, <2>1 DEF LocalOK, HoldsAt, CompleteGet
    <3>3. Keep(p, id[p], r) /\ Goto(p, "complete_update") /\ deleted \subseteq deleted'
      BY Zenon, <1>18, <2>1 DEF CompleteGet, ghost
    <3> HIDE DEF r
    <3>4. id[p] \in Job
      BY Zenon, <1>18 DEF LocalOK, HoldsAt, CompleteGet
    <3>5. QED BY Zenon, <3>1, <3>2, <3>3, <3>4, CallerKeeps DEF PC
  <2>2. CASE ~Exists(id[p])
    <3>1. HoldsAt("ret", id[p], loc[p], deleted)
      BY Zenon, <1>18, <2>2 DEF LocalOK, HoldsAt, CompleteGet
    <3>2. QED BY Zenon, <1>18, <2>2, <3>1, CallerMoves DEF PC, CompleteGet, ghost
  <2>3. QED BY Zenon, <1>18, <2>1, <2>2 DEF CompleteGet
<1>19. ASSUME NEW p \in Worker, CompleteUpdate(p) PROVE LocalOK'
  <2>1. CASE Goto(p, "drop_unique")
    <3>1. HoldsAt("drop_unique", id[p], loc[p], deleted)
      BY Zenon, <1>19, <2>1 DEF LocalOK, HoldsAt, CompleteUpdate
    <3>2. QED BY Zenon, <1>19, <2>1, <3>1, CallerMoves DEF PC, CompleteUpdate, ghost
  <2>2. CASE Goto(p, "ret")
    <3>1. HoldsAt("ret", id[p], loc[p], deleted)
      BY Zenon, <1>19, <2>2 DEF LocalOK, HoldsAt, CompleteUpdate
    <3>2. QED BY Zenon, <1>19, <2>2, <3>1, CallerMoves DEF PC, CompleteUpdate, ghost
  <2>3. QED BY Zenon, <1>19, <2>1, <2>2 DEF CompleteUpdate
<1>20. ASSUME NEW p \in Worker, FailGet(p) PROVE LocalOK'
  <2>0. id[p] \in Job
    BY Zenon, <1>20 DEF LocalOK, HoldsAt, FailGet
  <2>1. CASE Exists(id[p])
    <3> DEFINE r == job[id[p]]
               t == IF r.attempts < r.max
                      THEN [r EXCEPT !.status = "retrying", !.at = "set"]
                      ELSE [r EXCEPT !.status = "dead"]
    <3>1. r \in Record
      BY Zenon, <2>0 DEF TypeOK
    <3>2. t \in Record /\ t.status \in {"retrying", "dead"}
      BY <3>1, RecordUpdates, Zenon DEF Status
    <3>3. Keep(p, id[p], t) /\ Goto(p, "fail_update") /\ UNCHANGED deleted
      BY Zenon, <1>20, <2>1 DEF FailGet, ghost
    <3> HIDE DEF t
    <3>4. HoldsAt("fail_update", id[p], t, deleted')
      BY Zenon, <2>0, <3>2 DEF HoldsAt
    <3>5. QED BY Zenon, <2>0, <3>2, <3>3, <3>4, CallerKeeps DEF PC
  <2>2. CASE ~Exists(id[p])
    <3>1. HoldsAt("ret", id[p], loc[p], deleted)
      BY Zenon DEF HoldsAt
    <3>2. QED BY Zenon, <1>20, <2>2, <3>1, CallerMoves DEF PC, FailGet, ghost
  <2>3. QED BY <2>1, <2>2
<1>21. ASSUME NEW p \in Worker, FailUpdate(p) PROVE LocalOK'
  <2>1. CASE Goto(p, "fail_schedule")
    <3>1. HoldsAt("fail_schedule", id[p], loc[p], deleted)
      BY Zenon, <1>21, <2>1 DEF LocalOK, HoldsAt, FailUpdate
    <3>2. QED BY Zenon, <1>21, <2>1, <3>1, CallerMoves DEF PC, FailUpdate, ghost
  <2>2. CASE Goto(p, "fail_dlq")
    <3>1. HoldsAt("fail_dlq", id[p], loc[p], deleted)
      BY Zenon, <1>21, <2>2 DEF LocalOK, HoldsAt, FailUpdate
    <3>2. QED BY Zenon, <1>21, <2>2, <3>1, CallerMoves DEF PC, FailUpdate, ghost
  <2>3. QED BY Zenon, <1>21, <2>1, <2>2 DEF FailUpdate
<1>22. ASSUME NEW p \in Worker, FailSchedule(p) PROVE LocalOK'
  <2>1. HoldsAt("ret", id[p], loc[p], deleted)
    BY Zenon, <1>22 DEF LocalOK, HoldsAt, FailSchedule
  <2>2. QED BY Zenon, <1>22, <2>1, CallerMoves DEF PC, FailSchedule, ghost
<1>23. ASSUME NEW p \in Worker, FailDLQ(p) PROVE LocalOK'
  <2>1. CASE Goto(p, "drop_unique")
    <3>1. HoldsAt("drop_unique", id[p], loc[p], deleted)
      BY Zenon, <1>23, <2>1 DEF LocalOK, HoldsAt, FailDLQ
    <3>2. QED BY Zenon, <1>23, <2>1, <3>1, CallerMoves DEF PC, FailDLQ, ghost
  <2>2. CASE Goto(p, "ret")
    <3>1. HoldsAt("ret", id[p], loc[p], deleted)
      BY Zenon, <1>23, <2>2 DEF LocalOK, HoldsAt, FailDLQ
    <3>2. QED BY Zenon, <1>23, <2>2, <3>1, CallerMoves DEF PC, FailDLQ, ghost
  <2>3. QED BY Zenon, <1>23, <2>1, <2>2 DEF FailDLQ
<1>24. ASSUME NEW p \in Worker, RequeueUpdate(p) PROVE LocalOK'
  <2> DEFINE r == [loc[p] EXCEPT !.status = "pending", !.attempts = @ - 1]
  <2>1. r \in Record
    <3>1. loc[p] \in Record
      BY Zenon DEF LocalOK
    <3>2. QED BY <3>1, AttemptUpdates, Zenon
  <2>2. HoldsAt("requeue_push", id[p], r, deleted')
    BY Zenon, <1>24 DEF LocalOK, HoldsAt, RequeueUpdate
  <2>3. Keep(p, id[p], r) /\ Goto(p, "requeue_push") /\ deleted \subseteq deleted'
    BY Zenon, <1>24 DEF RequeueUpdate, ghost
  <2> HIDE DEF r
  <2>4. id[p] \in Job
    BY Zenon, <1>24 DEF LocalOK, HoldsAt, RequeueUpdate
  <2>5. QED BY Zenon, <2>1, <2>2, <2>3, <2>4, CallerKeeps DEF PC
<1>25. ASSUME NEW p \in Worker, RequeuePush(p) PROVE LocalOK'
  <2>1. HoldsAt("ret", id[p], loc[p], deleted)
    BY Zenon, <1>25 DEF LocalOK, HoldsAt, RequeuePush
  <2>2. QED BY Zenon, <1>25, <2>1, CallerMoves DEF PC, RequeuePush, ghost
<1>26. ASSUME NEW p \in Worker, WorkerReturn(p) PROVE LocalOK'
  BY Zenon, <1>26, CallerReturns DEF WorkerReturn, ghost
<1>27. ASSUME NEW p \in Processor, ScheduledScan(p) PROVE LocalOK'
  <2>1. HoldsAt("sched_get", id[p], loc[p], deleted)
    BY Zenon, <1>27 DEF LocalOK, HoldsAt, ScheduledScan
  <2>2. QED BY Zenon, <1>27, <2>1, CallerMoves DEF PC, ScheduledScan, ghost
<1>28. ASSUME NEW p \in Processor, NEW j \in Job, ScheduledGet(p, j) PROVE LocalOK'
  <2>1. CASE Exists(j)
    <3> DEFINE r == [job[j] EXCEPT !.at = "nil", !.status = "pending"]
    <3>1. r \in Record /\ r.status = "pending"
      <4>1. job[j] \in Record
        BY Zenon DEF TypeOK
      <4>2. r \in Record
        BY <4>1, QueueAssumption, Zenon DEF Record, Status
      <4>3. QED BY <4>1, <4>2, AttemptUpdates, Zenon
    <3>2. HoldsAt("sched_remove", j, r, deleted')
      BY Zenon, <1>28, <2>1, <3>1 DEF LocalOK, HoldsAt, ScheduledGet
    <3>3. Keep(p, j, r) /\ Goto(p, "sched_remove") /\ UNCHANGED deleted
      BY Zenon, <1>28, <2>1 DEF ScheduledGet, ghost
    <3>4. j \in Job
      BY Zenon, <1>28, <2>1 DEF LocalOK, HoldsAt, ScheduledGet
    <3> HIDE DEF r
    <3>5. QED BY Zenon, <3>1, <3>2, <3>3, <3>4, CallerKeeps DEF PC
  <2>2. CASE ~Exists(j)
    BY Zenon, <1>28, <2>2, CallerAdvances DEF ScheduledGet, ghost
  <2>3. QED BY Zenon, <2>1, <2>2
<1>29. ASSUME NEW p \in Processor, ScheduledRemove(p) PROVE LocalOK'
  <2>1. HoldsAt("sched_update", id[p], loc[p], deleted)
    BY Zenon, <1>29 DEF LocalOK, HoldsAt, ScheduledRemove
  <2>2. QED BY Zenon, <1>29, <2>1, CallerMoves DEF PC, ScheduledRemove, ghost
<1>30. ASSUME NEW p \in Processor, ScheduledUpdate(p) PROVE LocalOK'
  <2>1. HoldsAt("sched_push", id[p], loc[p], deleted)
    BY Zenon, <1>30 DEF LocalOK, HoldsAt, ScheduledUpdate
  <2>2. QED BY Zenon, <1>30, <2>1, CallerMoves DEF PC, ScheduledUpdate, ghost
<1>31. ASSUME NEW p \in Processor, ScheduledPush(p) PROVE LocalOK'
  BY Zenon, <1>31, CallerAdvances DEF ScheduledPush, ghost
<1>32. ASSUME NEW j \in Job, BecomeDue(j) PROVE LocalOK'
  BY Zenon, <1>0, <1>32 DEF BecomeDue, local, ghost
<1>33. ASSUME NEW j \in Job, ExpireRecord(j) PROVE LocalOK'
  BY Zenon, <1>0, <1>33 DEF ExpireRecord, local, ghost
<1>34. ASSUME NEW p \in Proc, Abort(p) PROVE LocalOK'
  BY Zenon, <1>34, CallerReturns DEF Abort, ghost
<1>35. ASSUME NEW p \in Client, ClientStep(p) PROVE LocalOK'
  BY <1>35, <1>1, <1>2, <1>3, <1>4, <1>5, <1>6, <1>7, <1>8, <1>9, <1>10, <1>11, <1>12, <1>13,
     <1>14 DEF ClientStep
<1>36. ASSUME NEW p \in Worker, WorkerStep(p) PROVE LocalOK'
  BY <1>36, <1>14, <1>15, <1>16, <1>17, <1>18, <1>19, <1>20, <1>21, <1>22, <1>23, <1>24, <1>25,
     <1>26
  DEF WorkerStep, DequeueStep, OutcomeStep
<1>37. ASSUME NEW p \in Processor, ProcessorStep(p) PROVE LocalOK'
  BY Zenon, <1>37, <1>27, <1>28, <1>29, <1>30, <1>31 DEF ProcessorStep
<1>38. ASSUME NEW p \in Client, DeleteFails(p) PROVE LocalOK'
  <2>1. /\ deleted' = deleted /\ UNCHANGED <<id, loc>>
        /\ pc[p] \in {"del_job", "del_queue", "del_scheduled", "del_dlq"}
    BY Zenon, <1>38 DEF DeleteFails
  <2>2. id[p] \in Job
    BY Zenon, <2>1 DEF LocalOK, HoldsAt
  <2>3. pc[p] \in {"del_job", "del_queue", "del_scheduled"} => id[p] \in deleted
    BY Zenon DEF LocalOK, HoldsAt
  <2>4. PICK l \in {"del_queue", "del_scheduled", "del_dlq", "drop_unique"} :
          Goto(p, l) /\ HoldsAt(l, id[p], loc[p], deleted')
    BY Zenon, <1>38, <2>1, <2>2, <2>3 DEF DeleteFails, HoldsAt
  <2>5. QED BY Zenon, <2>1, <2>4, CallerMoves DEF PC
<1>39. ASSUME NEW k \in Key, ExpireUnique(k) PROVE LocalOK'
  BY Zenon, <1>0, <1>39 DEF ExpireUnique, local, ghost
<1>40. ASSUME NEW p \in Worker, DequeueSkips(p) PROVE LocalOK'
  BY Zenon, <1>40, CallerReturns DEF DequeueSkips
<1>41. ASSUME NEW p \in Processor, NEW j \in Job, ScheduledSkips(p, j) PROVE LocalOK'
  BY Zenon, <1>41, CallerAdvances DEF ScheduledSkips
<1>42. QED BY <1>32, <1>33, <1>34, <1>35, <1>36, <1>37, <1>38, <1>39, <1>40, <1>41 DEF Next
\* The Dequeue loop stays among the priorities.
LEMMA NextPrioTyped == 1 \in Prio /\ \A i \in Prio : NextPrio(i) \in Prio
BY QueueAssumption DEF Prio, NextPrio

\* Every step keeps the types.
LEMMA TypedStep ==
  ASSUME TypeOK, LocalOK, Next, LocalOK'
  PROVE  TypeOK'
<1> USE DEF Proc
<1>0. pc' \in [Proc -> PC] /\ id' \in [Proc -> Job \cup {NoJob}] /\ loc' \in [Proc -> Record]
  BY Zenon DEF LocalOK
<1>1. ASSUME NEW p \in Client, NEW j \in Job, NEW s \in Submission, EnqueueCall(p, j, s)
      PROVE  TypeOK'
  BY Zenon, <1>0, <1>1 DEF TypeOK, redis, local, ghost, EnqueueCall
<1>2. ASSUME NEW p \in Client, EnqueueCheck(p) PROVE TypeOK'
  BY Zenon, <1>0, <1>2 DEF TypeOK, redis, local, ghost, EnqueueCheck
<1>3. ASSUME NEW p \in Client, EnqueueStore(p) PROVE TypeOK'
  <2>1. job' \in [Job -> Record]
    BY <1>3, StoreTyped, RecordUpdates, ZenonT(40) DEF LocalOK, EnqueueStore
  <2>2. QED BY Zenon, <1>0, <1>3, <2>1 DEF TypeOK, ghost, EnqueueStore
<1>4. ASSUME NEW p \in Client, EnqueuePush(p) PROVE TypeOK'
  <2>1. id[p] \in Job /\ loc[p] \in Record
    BY Zenon, <1>4 DEF LocalOK, HoldsAt, EnqueuePush
  <2>2. queue' \in [Prio -> Seq(Job)]
    BY Zenon, <1>4, <2>1, PushTyped DEF TypeOK, EnqueuePush
  <2>3. QED BY <1>0, <1>4, <2>1, <2>2, ZenonT(40) DEF TypeOK, ghost, EnqueuePush, SetScheduled
<1>5. ASSUME NEW p \in Client, EnqueueUnique(p) PROVE TypeOK'
  BY <1>0, <1>5, Zenon DEF TypeOK, redis, local, ghost, EnqueueUnique, SetUnique
<1>6. ASSUME NEW p \in Client, NEW j \in Job, RetryJob(p, j) PROVE TypeOK'
  BY <1>0, <1>6 DEF TypeOK, redis, local, ghost, RetryJob
<1>7. ASSUME NEW p \in Client, NEW j \in Job, RetryDLQGet(p, j) PROVE TypeOK'
  BY <1>0, <1>7 DEF TypeOK, redis, local, ghost, RetryDLQGet
<1>8. ASSUME NEW p \in Client, NEW j \in Job, RetryDLQRemove(p, j) PROVE TypeOK'
  <2>1. dlq[id[p]] \in Nat => (IF dlq[id[p]] > 0 THEN dlq[id[p]] - 1 ELSE 0) \in Nat
    OBVIOUS
  <2>2. dlq' \in [Job -> Nat]
    BY <1>8, <2>1, ZenonT(40) DEF TypeOK, RetryDLQRemove
  <2>3. QED BY Zenon, <1>0, <1>8, <2>2 DEF TypeOK, RetryDLQRemove
<1>9. ASSUME NEW p \in Client, NEW j \in Job, DeleteCall(p, j) PROVE TypeOK'
  BY <1>0, <1>9 DEF TypeOK, redis, local, ghost, DeleteCall
<1>10. ASSUME NEW p \in Client, DeleteRecord(p) PROVE TypeOK'
  <2>1. job' \in [Job -> Record]
    BY <1>10, StoreTyped, RecordUpdates, ZenonT(40) DEF LocalOK, DeleteRecord
  <2>2. QED BY Zenon, <1>0, <1>10, <2>1 DEF TypeOK, ghost, DeleteRecord
<1>11. ASSUME NEW p \in Client, DeleteQueued(p) PROVE TypeOK'
  <2>1. queue' \in [Prio -> Seq(Job)]
    BY <1>11, RemoveKeeps, ZenonT(40) DEF TypeOK, DeleteQueued
  <2>2. QED BY Zenon, <1>0, <1>11, <2>1 DEF TypeOK, ghost, DeleteQueued
<1>12. ASSUME NEW p \in Client, DeleteScheduled(p) PROVE TypeOK'
  BY <1>0, <1>12, Zenon DEF TypeOK, redis, local, ghost, DeleteScheduled, SetScheduled
<1>13. ASSUME NEW p \in Client, DeleteDead(p) PROVE TypeOK'
  BY <1>0, <1>13, Zenon DEF TypeOK, redis, local, ghost, DeleteDead
<1>14. ASSUME NEW p \in Proc, DropUnique(p) PROVE TypeOK'
  BY <1>0, <1>14, Zenon DEF TypeOK, redis, local, ghost, DropUnique, SetUnique
<1>15. ASSUME NEW p \in Worker, DequeuePop(p) PROVE TypeOK'
  <2>1. CASE queue[scan[p]] = <<>>
    <3>1. scan' \in [Worker -> Prio] /\ queue' = queue
      BY <1>15, <2>1, NextPrioTyped, ZenonT(40) DEF TypeOK, DequeuePop
    <3>2. QED BY Zenon, <1>0, <1>15, <3>1 DEF TypeOK, ghost, DequeuePop
  <2>2. CASE queue[scan[p]] # <<>>
    <3>1. Tail(queue[scan[p]]) \in Seq(Job)
      BY Zenon, <2>2, PopKeeps DEF TypeOK
    <3>2. queue' = [queue EXCEPT ![scan[p]] = Tail(queue[scan[p]])] /\ scan' = scan
      BY <1>15, <2>2, Zenon DEF DequeuePop
    <3>3. queue' \in [Prio -> Seq(Job)]
      BY Zenon, <3>1, <3>2 DEF TypeOK
    <3>4. QED BY Zenon, <1>0, <1>15, <3>2, <3>3 DEF TypeOK, ghost, DequeuePop
  <2>3. QED BY Zenon, <2>1, <2>2
<1>16. ASSUME NEW p \in Worker, DequeueGet(p) PROVE TypeOK'
  <2>1. scan' \in [Worker -> Prio]
    BY <1>16, NextPrioTyped, Zenon DEF TypeOK, DequeueGet
  <2>2. QED BY Zenon, <1>0, <1>16, <2>1 DEF TypeOK, redis, ghost, DequeueGet
<1>17. ASSUME NEW p \in Worker, DequeueUpdate(p) PROVE TypeOK'
  <2>1. job' \in [Job -> Record]
    BY <1>17, StoreTyped, RecordUpdates, Zenon DEF LocalOK, DequeueUpdate
  <2>2. scan' \in [Worker -> Prio]
    BY Zenon, <1>17, NextPrioTyped DEF TypeOK, DequeueUpdate
  <2>3. QED BY Zenon, <1>0, <1>17, <2>1, <2>2 DEF TypeOK, ghost, DequeueUpdate
<1>18. ASSUME NEW p \in Worker, CompleteGet(p) PROVE TypeOK'
  BY Zenon, <1>0, <1>18 DEF TypeOK, redis, local, ghost, CompleteGet
<1>19. ASSUME NEW p \in Worker, CompleteUpdate(p) PROVE TypeOK'
  <2>1. job' \in [Job -> Record]
    BY <1>19, StoreTyped, RecordUpdates, Zenon DEF LocalOK, CompleteUpdate
  <2>2. QED BY Zenon, <1>0, <1>19, <2>1 DEF TypeOK, ghost, CompleteUpdate
<1>20. ASSUME NEW p \in Worker, FailGet(p) PROVE TypeOK'
  BY Zenon, <1>0, <1>20 DEF TypeOK, redis, local, ghost, FailGet
<1>21. ASSUME NEW p \in Worker, FailUpdate(p) PROVE TypeOK'
  <2>1. job' \in [Job -> Record]
    BY <1>21, StoreTyped, RecordUpdates, ZenonT(40) DEF LocalOK, FailUpdate
  <2>2. QED BY Zenon, <1>0, <1>21, <2>1 DEF TypeOK, ghost, FailUpdate
<1>22. ASSUME NEW p \in Worker, FailSchedule(p) PROVE TypeOK'
  BY <1>0, <1>22, Zenon DEF TypeOK, redis, local, ghost, FailSchedule, SetScheduled
<1>23. ASSUME NEW p \in Worker, FailDLQ(p) PROVE TypeOK'
  <2>1. dlq[id[p]] \in Nat => dlq[id[p]] + 1 \in Nat
    OBVIOUS
  <2>2. dlq' \in [Job -> Nat]
    BY <1>23, <2>1, ZenonT(40) DEF TypeOK, FailDLQ
  <2>3. QED BY Zenon, <1>0, <1>23, <2>2 DEF TypeOK, ghost, FailDLQ
<1>24. ASSUME NEW p \in Worker, RequeueUpdate(p) PROVE TypeOK'
  <2>1. loc[p] \in Record
    BY Zenon DEF LocalOK
  <2>2. job' \in [Job -> Record]
    BY <1>24, <2>1, AttemptUpdates, StoreTyped, Zenon DEF RequeueUpdate
  <2>3. QED BY Zenon, <1>0, <1>24, <2>2 DEF TypeOK, ghost, RequeueUpdate
<1>25. ASSUME NEW p \in Worker, RequeuePush(p) PROVE TypeOK'
  <2>1. id[p] \in Job /\ loc[p] \in Record
    BY Zenon, <1>25 DEF LocalOK, HoldsAt, RequeuePush
  <2>2. queue' \in [Prio -> Seq(Job)]
    BY Zenon, <1>25, <2>1, PushTyped DEF TypeOK, RequeuePush
  <2>3. QED BY Zenon, <1>0, <1>25, <2>1, <2>2 DEF TypeOK, ghost, RequeuePush
<1>26. ASSUME NEW p \in Worker, WorkerReturn(p) PROVE TypeOK'
  BY Zenon, <1>0, <1>26 DEF TypeOK, redis, local, ghost, WorkerReturn
<1>27. ASSUME NEW p \in Processor, ScheduledScan(p) PROVE TypeOK'
  BY Zenon, <1>0, <1>27 DEF TypeOK, redis, local, ghost, ScheduledScan
<1>28. ASSUME NEW p \in Processor, NEW j \in Job, ScheduledGet(p, j) PROVE TypeOK'
  BY <1>0, <1>28, ZenonT(40) DEF TypeOK, redis, local, ghost, ScheduledGet, Advance
<1>29. ASSUME NEW p \in Processor, ScheduledRemove(p) PROVE TypeOK'
  BY <1>0, <1>29, Zenon DEF TypeOK, redis, local, ghost, ScheduledRemove, SetScheduled
<1>30. ASSUME NEW p \in Processor, ScheduledUpdate(p) PROVE TypeOK'
  <2>1. job' \in [Job -> Record]
    BY <1>30, StoreTyped, RecordUpdates, ZenonT(40) DEF LocalOK, ScheduledUpdate
  <2>2. QED BY Zenon, <1>0, <1>30, <2>1 DEF TypeOK, ghost, ScheduledUpdate
<1>31. ASSUME NEW p \in Processor, ScheduledPush(p) PROVE TypeOK'
  <2>1. id[p] \in Job /\ loc[p] \in Record
    BY Zenon, <1>31 DEF LocalOK, HoldsAt, ScheduledPush
  <2>2. queue' \in [Prio -> Seq(Job)]
    BY Zenon, <1>31, <2>1, PushTyped DEF TypeOK, ScheduledPush
  <2>3. QED BY Zenon, <1>0, <1>31, <2>1, <2>2 DEF TypeOK, ghost, ScheduledPush, Advance
<1>32. ASSUME NEW j \in Job, BecomeDue(j) PROVE TypeOK'
  BY Zenon, <1>0, <1>32 DEF TypeOK, redis, local, ghost, BecomeDue, SetScheduled
<1>33. ASSUME NEW j \in Job, ExpireRecord(j) PROVE TypeOK'
  <2>1. job' \in [Job -> Record]
    BY <1>33, StoreTyped, RecordUpdates, ZenonT(40) DEF ExpireRecord
  <2>2. QED BY Zenon, <1>33, <2>1 DEF TypeOK, local, ghost, ExpireRecord
<1>34. ASSUME NEW p \in Proc, Abort(p) PROVE TypeOK'
  <2>1. scan' \in [Worker -> Prio]
    BY Zenon, <1>34, NextPrioTyped DEF TypeOK, Abort
  <2>2. batch' \in [Processor -> SUBSET Job]
    BY Zenon, <1>34 DEF TypeOK, Abort
  <2>3. QED BY SMTT(30), <1>0, <1>34, <2>1, <2>2 DEF TypeOK, redis, Abort
<1>35. ASSUME NEW p \in Client, ClientStep(p) PROVE TypeOK'
  BY <1>35, <1>1, <1>2, <1>3, <1>4, <1>5, <1>6, <1>7, <1>8, <1>9, <1>10, <1>11, <1>12, <1>13,
     <1>14 DEF ClientStep
<1>36. ASSUME NEW p \in Worker, WorkerStep(p) PROVE TypeOK'
  BY <1>36, <1>14, <1>15, <1>16, <1>17, <1>18, <1>19, <1>20, <1>21, <1>22, <1>23, <1>24, <1>25,
     <1>26
  DEF WorkerStep, DequeueStep, OutcomeStep
<1>37. ASSUME NEW p \in Processor, ProcessorStep(p) PROVE TypeOK'
  BY Zenon, <1>37, <1>27, <1>28, <1>29, <1>30, <1>31 DEF ProcessorStep
<1>38. ASSUME NEW p \in Client, DeleteFails(p) PROVE TypeOK'
  BY <1>0, <1>38 DEF TypeOK, redis, DeleteFails
<1>39. ASSUME NEW k \in Key, ExpireUnique(k) PROVE TypeOK'
  BY Zenon, <1>39 DEF TypeOK, local, ghost, ExpireUnique, SetUnique
<1>40. ASSUME NEW p \in Worker, DequeueSkips(p) PROVE TypeOK'
  <2>1. scan' \in [Worker -> Prio]
    BY Zenon, <1>40, NextPrioTyped DEF TypeOK, DequeueSkips
  <2>2. QED BY SMTT(30), <1>0, <1>40, <2>1 DEF TypeOK, redis, DequeueSkips
<1>41. ASSUME NEW p \in Processor, NEW j \in Job, ScheduledSkips(p, j) PROVE TypeOK'
  <2>1. batch' \in [Processor -> SUBSET Job]
    BY Zenon, <1>41 DEF TypeOK, ScheduledSkips, Advance
  <2>2. QED BY SMTT(30), <1>0, <1>41, <2>1 DEF TypeOK, redis, ScheduledSkips
<1>42. QED BY Zenon, <1>32, <1>33, <1>34, <1>35, <1>36, <1>37, <1>38, <1>39, <1>40, <1>41 DEF Next
\* The initial state.
LEMMA InitTyped == Init => TypeOK /\ LocalOK
<1> SUFFICES ASSUME Init PROVE TypeOK /\ LocalOK
  BY Zenon
<1>1. LocalOK
  <2>1. pc \in [Proc -> PC] /\ id \in [Proc -> Job \cup {NoJob}]
    BY Zenon DEF Init, PC
  <2>2. loc \in [Proc -> Record]
    BY Zenon, RecordFacts DEF Init
  <2>3. \A p \in Proc : HoldsAt(pc[p], id[p], loc[p], deleted)
    BY Zenon DEF Init, HoldsAt
  <2>4. QED BY Zenon, <2>1, <2>2, <2>3 DEF LocalOK
<1>2. <<>> \in Seq(Job)
  OBVIOUS
<1>3. TypeOK
  <2>1. job \in [Job -> Record] /\ queue \in [Prio -> Seq(Job)]
    BY Zenon, <1>2, RecordFacts DEF Init
  <2>2. /\ scheduled \in [Job -> {"no", "future", "due"}]
        /\ dlq \in [Job -> Nat]
        /\ unique \in [Key -> Job \cup {NoJob}]
        /\ succ \in [Job -> Job \cup {NoJob}]
    BY Zenon DEF Init
  <2>3. scan \in [Worker -> Prio] /\ batch \in [Processor -> SUBSET Job]
    BY Zenon, NextPrioTyped DEF Init
  <2>4. /\ issued \subseteq Job /\ deleted \subseteq Job /\ expired \subseteq Key
        /\ calls \in Nat /\ faults \in Nat
    BY Zenon DEF Init
  <2>5. QED BY Zenon, <1>1, <2>1, <2>2, <2>3, <2>4 DEF TypeOK, LocalOK
<1>4. QED BY Zenon, <1>1, <1>3

\* Types hold in every reachable state, for any number of callers, jobs,
\* keys and priorities, and so do the facts about the callers' variables.
THEOREM QueueTyped == Spec => [](TypeOK /\ LocalOK)
<1>1. Init => TypeOK /\ LocalOK
  BY Zenon, InitTyped
<1>2. TypeOK /\ LocalOK /\ [Next]_vars => (TypeOK /\ LocalOK)'
  <2>1. TypeOK /\ LocalOK /\ Next => (TypeOK /\ LocalOK)'
    BY Zenon, LocalStep, TypedStep
  <2>2. TypeOK /\ LocalOK /\ UNCHANGED vars => (TypeOK /\ LocalOK)'
    BY Zenon DEF TypeOK, LocalOK, vars
  <2>3. QED BY Zenon, <2>1, <2>2
<1>3. QED BY <1>1, <1>2, PTL DEF Spec

-----------------------------------------------------------------------------
(* No job is lost.                                                         *)

\* The inductive invariant.
QueueInv ==
  TypeOK /\ LocalOK /\ IsFiniteSet(Lost) /\ Cardinality(Lost) <= faults

-----------------------------------------------------------------------------
\* What a step of caller p may not do: leave a job unfinished and nowhere,
\* unless it was so before and p was not the one who held it.
Strands(p, j) ==
  /\ Unfinished(j)' /\ ~Located(j)'
  /\ Unfinished(j) => \/ Queued(j)
                      \/ scheduled[j] # "no"
                      \/ id[p] = j /\ pc[p] \in CarryPC

\* The other callers keep what they hold, so it is enough to look at p.
LEMMA NothingStranded ==
  ASSUME LocalOK, LocalOK', NEW p \in Proc,
         \A q \in Proc \ {p} : pc'[q] = pc[q] /\ id'[q] = id[q],
         deleted \subseteq deleted', \A j \in Job \ deleted' : ~Strands(p, j)
  PROVE  Lost' \subseteq Lost
<1> SUFFICES ASSUME NEW j \in Job \ deleted', Unfinished(j)', ~Located(j)'
             PROVE  j \notin deleted /\ Unfinished(j) /\ ~Located(j)
  BY Zenon DEF Lost
<1>1. /\ Unfinished(j)
      /\ ~Queued(j)
      /\ scheduled[j] = "no"
      /\ ~(id[p] = j /\ pc[p] \in CarryPC)
  BY Zenon DEF Strands
<1>2. ASSUME Carried(j) PROVE FALSE
  <2>1. PICK q \in Proc : id[q] = j /\ pc[q] \in CarryPC
    BY Zenon, <1>2 DEF Carried
  <2>2. id'[q] = j /\ pc'[q] \in CarryPC
    BY Zenon, <1>1, <2>1
  <2>3. Carried(j)'
    BY Zenon, <2>2 DEF Carried
  <2>4. QED BY Zenon, <2>3 DEF Located
<1>3. QED BY Zenon, <1>1, <1>2 DEF Located

\* A step that stores no record and moves no ID loses nothing unless p lets
\* go of the job in its hands.
LEMMA ReadOnlyStep ==
  ASSUME LocalOK, LocalOK', NEW p \in Proc, NEW l, Goto(p, l),
         UNCHANGED <<job, queue, scheduled>>, deleted \subseteq deleted',
         \/ pc[p] \notin CarryPC /\ \A q \in Proc \ {p} : id'[q] = id[q]
         \/ l \in CarryPC /\ UNCHANGED id
  PROVE  Lost' \subseteq Lost
<1>1. \A q \in Proc \ {p} : pc'[q] = pc[q] /\ id'[q] = id[q]
  BY Zenon DEF LocalOK, Goto
<1>2. ASSUME NEW j \in Job \ deleted', Strands(p, j) PROVE FALSE
  <2>1. (Unfinished(j)' <=> Unfinished(j)) /\ (Queued(j)' <=> Queued(j))
        /\ scheduled' = scheduled
    BY Zenon DEF Unfinished, Queued
  <2>2. id[p] = j /\ pc[p] \in CarryPC
    BY Zenon, <1>2, <2>1 DEF Strands, Located
  <2>3. id'[p] = j /\ pc'[p] \in CarryPC
    BY Zenon, <2>2 DEF LocalOK, Goto
  <2>4. Carried(j)'
    BY Zenon, <2>3 DEF Carried
  <2>5. QED BY Zenon, <1>2, <2>4 DEF Strands, Located
<1>3. QED BY Zenon, <1>1, <1>2, NothingStranded

\* SET of the record of the job in hand: p goes on holding it, or the job is
\* finished or gone.
LEMMA StoreStep ==
  ASSUME TypeOK, LocalOK, LocalOK', NEW p \in Proc, NEW l, NEW r,
         Goto(p, l), Store(id[p], r),
         UNCHANGED <<queue, scheduled, id, deleted>>,
         \/ l \in CarryPC
         \/ /\ pc[p] \in CarryPC \/ pc[p] = "del_job"
            /\ r.status \notin {"pending", "running", "retrying"}
  PROVE  Lost' \subseteq Lost
<1>1. \A q \in Proc \ {p} : pc'[q] = pc[q] /\ id'[q] = id[q]
  BY Zenon DEF LocalOK, Goto
<1>2. ASSUME NEW j \in Job \ deleted', Strands(p, j) PROVE FALSE
  <2>1. (Queued(j)' <=> Queued(j)) /\ scheduled' = scheduled
    BY Zenon DEF Queued
  <2>2. CASE id[p] # j
    <3>1. Unfinished(j)' <=> Unfinished(j)
      BY Zenon, <2>2 DEF TypeOK, Unfinished, Store
    <3>2. QED BY Zenon, <1>2, <2>1, <2>2, <3>1 DEF Strands, Located
  <2>3. CASE id[p] = j
    <3>1. Unfinished(j)' => l \in CarryPC
      BY Zenon, <2>3 DEF TypeOK, Unfinished, Store
    <3>2. l \in CarryPC => Carried(j)'
      BY Zenon, <2>3 DEF LocalOK, Goto, Carried
    <3>3. QED BY <1>2, <3>1, <3>2, Zenon DEF Strands, Located
  <2>4. QED BY Zenon, <2>2, <2>3
<1>3. QED BY Zenon, <1>1, <1>2, NothingStranded

\* LPUSH or ZADD of the job in hand, by a caller that may then forget it.
LEMMA PlaceStep ==
  ASSUME TypeOK, LocalOK, LocalOK', NEW p \in Proc, id[p] \in Job,
         \A q \in Proc \ {p} : pc'[q] = pc[q] /\ id'[q] = id[q],
         UNCHANGED <<job, deleted>>,
         \/ Push(id[p], loc[p]) /\ UNCHANGED scheduled
         \/ /\ SetScheduled(id[p], "future")
            /\ UNCHANGED queue
  PROVE  Lost' \subseteq Lost
<1>1. ASSUME NEW j \in Job \ deleted', Strands(p, j) PROVE FALSE
  <2>1. Unfinished(j)' <=> Unfinished(j)
    BY Zenon DEF Unfinished
  <2>2. CASE Push(id[p], loc[p]) /\ UNCHANGED scheduled
    <3>1. PICK k \in Job, r \in Record : k = id[p] /\ r = loc[p]
      BY Zenon DEF LocalOK
    <3>2. Push(k, r)
      BY Zenon, <2>2, <3>1
    <3>3. Queued(k)' /\ (Queued(j) => Queued(j)')
      BY Zenon, <3>2, PushTyped
    <3>4. QED BY Zenon, <1>1, <2>1, <2>2, <3>1, <3>3 DEF Strands, Located
  <2>3. CASE SetScheduled(id[p], "future") /\ UNCHANGED queue
    <3>1. Queued(j)' <=> Queued(j)
      BY Zenon, <2>3 DEF Queued
    <3>2. scheduled[j] # "no" \/ id[p] = j => scheduled'[j] # "no"
      BY Zenon, <2>3 DEF TypeOK, SetScheduled
    <3>3. QED BY Zenon, <1>1, <2>1, <3>1, <3>2 DEF Strands, Located
  <2>4. QED BY Zenon, <2>2, <2>3
<1>2. QED BY Zenon, <1>1, NothingStranded

\* ZREM, by a caller that then holds the job or is deleting it.
LEMMA UnscheduleStep ==
  ASSUME TypeOK, LocalOK, LocalOK', NEW p \in Proc, NEW l,
         Goto(p, l), SetScheduled(id[p], "no"),
         UNCHANGED <<job, queue, id, deleted>>,
         pc[p] \notin CarryPC, l \in CarryPC \/ id[p] \in deleted
  PROVE  Lost' \subseteq Lost
<1>1. \A q \in Proc \ {p} : pc'[q] = pc[q] /\ id'[q] = id[q]
  BY Zenon DEF LocalOK, Goto
<1>2. ASSUME NEW j \in Job \ deleted', Strands(p, j) PROVE FALSE
  <2>1. (Unfinished(j)' <=> Unfinished(j)) /\ (Queued(j)' <=> Queued(j))
    BY Zenon DEF Unfinished, Queued
  <2>2. CASE id[p] # j
    <3>1. scheduled'[j] = scheduled[j]
      BY Zenon, <2>2 DEF TypeOK, SetScheduled
    <3>2. QED BY Zenon, <1>2, <2>1, <2>2, <3>1 DEF Strands, Located
  <2>3. CASE id[p] = j
    <3>1. l \in CarryPC
      BY Zenon, <2>3
    <3>2. Carried(j)'
      BY Zenon, <2>3, <3>1 DEF LocalOK, Goto, Carried
    <3>3. QED BY <1>2, <3>2, Zenon DEF Strands, Located
  <2>4. QED BY Zenon, <2>2, <2>3
<1>3. QED BY Zenon, <1>1, <1>2, NothingStranded
-----------------------------------------------------------------------------
\* A failure makes caller p forget the job in its hands, and is counted.
Forgets(p) == faults' = faults + 1 /\ Lost' \subseteq Lost \cup {id[p]}

\* A step of p that changes nothing in Redis loses at most what p has.
LEMMA ForgetStep ==
  ASSUME NEW p \in Proc,
         UNCHANGED <<job, queue, scheduled, deleted>>, faults' = faults + 1,
         \A q \in Proc \ {p} : pc'[q] = pc[q] /\ id'[q] = id[q]
  PROVE  Forgets(p)
<1>1. \A k : Carried(k) => k = id[p] \/ Carried(k)'
  BY Zenon DEF Carried
<1>2. QED BY Zenon, <1>1 DEF Forgets, Lost, Located, Unfinished, Queued

\* No step loses a job, unless a failure makes a caller forget it.
LEMMA LosesNothing ==
  ASSUME TypeOK, LocalOK, Next, LocalOK'
  PROVE  \/ Lost' \subseteq Lost
         \/ \E p \in Proc : Forgets(p)
<1> USE DEF Proc
<1>1. ASSUME NEW p \in Client, NEW j \in Job, NEW s \in Submission, EnqueueCall(p, j, s)
      PROVE  Lost' \subseteq Lost
  <2>1. \E l : Goto(p, l)
    BY Zenon, <1>1 DEF EnqueueCall, Return
  <2>2. pc[p] \notin CarryPC /\ \A q \in Proc \ {p} : id'[q] = id[q]
    BY <1>1, Zenon DEF LocalOK, CarryPC, EnqueueCall, Return, Keep
  <2>3. QED BY Zenon, <1>1, <2>1, <2>2, ReadOnlyStep DEF EnqueueCall, redis, ghost
<1>2. ASSUME NEW p \in Client, EnqueueCheck(p) PROVE Lost' \subseteq Lost
  <2>1. \E l : Goto(p, l)
    BY <1>2, Zenon DEF EnqueueCheck, Return
  <2>2. pc[p] \notin CarryPC /\ \A q \in Proc \ {p} : id'[q] = id[q]
    BY <1>2, Zenon DEF LocalOK, CarryPC, EnqueueCheck, Return, Keep
  <2>3. QED BY <1>2, <2>1, <2>2, ReadOnlyStep, Zenon DEF EnqueueCheck, redis, ghost
<1>3. ASSUME NEW p \in Client, EnqueueStore(p) PROVE Lost' \subseteq Lost
  BY Zenon, <1>3, StoreStep DEF EnqueueStore, CarryPC, ghost
<1>4. ASSUME NEW p \in Client, EnqueuePush(p) PROVE Lost' \subseteq Lost
  <2>1. id[p] \in Job
    BY Zenon, <1>4 DEF LocalOK, HoldsAt, EnqueuePush
  <2>2. \A q \in Proc \ {p} : pc'[q] = pc[q] /\ id'[q] = id[q]
    BY Zenon, <1>4 DEF LocalOK, EnqueuePush, Advance, Return, Goto, Keep
  <2>3. QED BY Zenon, <1>4, <2>1, <2>2, PlaceStep DEF EnqueuePush, ghost
<1>5. ASSUME NEW p \in Client, EnqueueUnique(p) PROVE Lost' \subseteq Lost
  <2>1. \E l : Goto(p, l)
    BY Zenon, <1>5 DEF EnqueueUnique, Return
  <2>2. pc[p] \notin CarryPC /\ \A q \in Proc \ {p} : id'[q] = id[q]
    BY Zenon, <1>5 DEF LocalOK, CarryPC, EnqueueUnique, Return, Keep
  <2>3. QED BY <1>5, <2>1, <2>2, ReadOnlyStep, Zenon DEF EnqueueUnique, redis, ghost
<1>6. ASSUME NEW p \in Client, NEW j \in Job, RetryJob(p, j) PROVE Lost' \subseteq Lost
  <2>1. \E l : Goto(p, l)
    BY Zenon, <1>6 DEF RetryJob, Return
  <2>2. pc[p] \notin CarryPC /\ \A q \in Proc \ {p} : id'[q] = id[q]
    BY Zenon, <1>6 DEF LocalOK, CarryPC, RetryJob, Return, Keep
  <2>3. QED BY Zenon, <1>6, <2>1, <2>2, ReadOnlyStep DEF RetryJob, redis, ghost
<1>7. ASSUME NEW p \in Client, NEW j \in Job, RetryDLQGet(p, j) PROVE Lost' \subseteq Lost
  <2>1. \E l : Goto(p, l)
    BY Zenon, <1>7 DEF RetryDLQGet, Return
  <2>2. pc[p] \notin CarryPC /\ \A q \in Proc \ {p} : id'[q] = id[q]
    BY <1>7, Zenon DEF LocalOK, CarryPC, RetryDLQGet, Return, Keep
  <2>3. QED BY Zenon, <1>7, <2>1, <2>2, ReadOnlyStep DEF RetryDLQGet, redis, ghost
<1>8. ASSUME NEW p \in Client, NEW j \in Job, RetryDLQRemove(p, j) PROVE Lost' \subseteq Lost
  <2>1. \E l : Goto(p, l)
    BY Zenon, <1>8 DEF RetryDLQRemove, Return
  <2>2. pc[p] \notin CarryPC /\ \A q \in Proc \ {p} : id'[q] = id[q]
    BY Zenon, <1>8 DEF LocalOK, CarryPC, RetryDLQRemove, Return, Keep
  <2>3. QED BY Zenon, <1>8, <2>1, <2>2, ReadOnlyStep DEF RetryDLQRemove, redis, ghost
<1>9. ASSUME NEW p \in Client, NEW j \in Job, DeleteCall(p, j) PROVE Lost' \subseteq Lost
  <2>1. \E l : Goto(p, l)
    BY Zenon, <1>9 DEF DeleteCall, Return
  <2>2. pc[p] \notin CarryPC /\ \A q \in Proc \ {p} : id'[q] = id[q]
    BY Zenon, <1>9 DEF LocalOK, CarryPC, DeleteCall, Return, Keep
  <2>3. QED BY Zenon, <1>9, <2>1, <2>2, ReadOnlyStep DEF DeleteCall, redis, ghost
<1>10. ASSUME NEW p \in Client, DeleteRecord(p) PROVE Lost' \subseteq Lost
  BY <1>10, StoreStep, Zenon DEF DeleteRecord, Absent, ghost
<1>11. ASSUME NEW p \in Client, DeleteQueued(p) PROVE Lost' \subseteq Lost
  <2> DEFINE i == loc[p].prio
  <2>0. loc[p] \in Record
    BY Zenon DEF LocalOK
  <2>1. i \in Prio /\ queue[i] \in Seq(Job)
    BY Zenon, <2>0, RecordFacts DEF TypeOK
  <2>2. \A x : InList(queue[i], x) => x = id[p] \/ InList(Without(queue[i], id[p]), x)
    BY Zenon, <2>1, RemoveKeeps
  <2>3. /\ queue' = [queue EXCEPT ![i] = Without(queue[i], id[p])]
        /\ Goto(p, "del_scheduled")
        /\ UNCHANGED <<job, scheduled, id, deleted>>
    BY Zenon, <1>11 DEF DeleteQueued, ghost
  <2>4. id[p] \in deleted /\ pc[p] \notin CarryPC
    BY Zenon, <1>11 DEF LocalOK, HoldsAt, CarryPC, DeleteQueued
  <2> HIDE DEF i
  <2>5. \A k \in Prio : queue'[k] = IF k = i THEN Without(queue[i], id[p]) ELSE queue[k]
    BY Zenon, <2>1, <2>3 DEF TypeOK
  <2>6. ASSUME NEW j \in Job \ deleted', Strands(p, j) PROVE FALSE
    <3>1. j # id[p]
      BY <2>3, <2>4, Zenon
    <3>2. Queued(j) => Queued(j)'
      BY Zenon, <2>1, <2>2, <2>5, <3>1 DEF Queued
    <3>3. (Unfinished(j)' <=> Unfinished(j)) /\ scheduled' = scheduled
      BY Zenon, <2>3 DEF Unfinished
    <3>4. QED BY <2>4, <2>6, <3>2, <3>3, Zenon DEF Strands, Located
  <2>7. \A q \in Proc \ {p} : pc'[q] = pc[q] /\ id'[q] = id[q]
    BY Zenon, <2>3 DEF LocalOK, Goto
  <2>8. QED BY <2>3, <2>6, <2>7, NothingStranded, Zenon
<1>12. ASSUME NEW p \in Client, DeleteScheduled(p) PROVE Lost' \subseteq Lost
  <2>1. id[p] \in deleted
    BY Zenon, <1>12 DEF LocalOK, HoldsAt, DeleteScheduled
  <2>2. /\ Goto(p, "del_dlq") /\ pc[p] \notin CarryPC
        /\ SetScheduled(id[p], "no")
        /\ UNCHANGED <<job, queue, id, deleted>>
    BY Zenon, <1>12 DEF DeleteScheduled, CarryPC, ghost
  <2>3. QED BY Zenon, <2>1, <2>2, UnscheduleStep
<1>13. ASSUME NEW p \in Client, DeleteDead(p) PROVE Lost' \subseteq Lost
  <2>1. \E l : Goto(p, l)
    BY Zenon, <1>13 DEF DeleteDead, Return
  <2>2. pc[p] \notin CarryPC /\ \A q \in Proc \ {p} : id'[q] = id[q]
    BY Zenon, <1>13 DEF LocalOK, CarryPC, DeleteDead, Return, Keep
  <2>3. QED BY <1>13, <2>1, <2>2, ReadOnlyStep, Zenon DEF DeleteDead, redis, ghost
<1>14. ASSUME NEW p \in Proc, DropUnique(p) PROVE Lost' \subseteq Lost
  <2>1. \E l : Goto(p, l)
    BY Zenon, <1>14 DEF DropUnique, Return
  <2>2. pc[p] \notin CarryPC /\ \A q \in Proc \ {p} : id'[q] = id[q]
    BY Zenon, <1>14 DEF LocalOK, CarryPC, DropUnique, Return, Keep
  <2>3. QED BY Zenon, <1>14, <2>1, <2>2, ReadOnlyStep DEF DropUnique, redis, ghost
<1>15. ASSUME NEW p \in Worker, DequeuePop(p) PROVE Lost' \subseteq Lost
  <2>1. CASE queue[scan[p]] = <<>>
    <3>1. UNCHANGED <<job, queue, scheduled, pc, id, deleted>>
      BY <1>15, <2>1, Zenon DEF DequeuePop, ghost
    <3>2. QED BY <3>1, Zenon DEF Lost, Located, Unfinished, Queued, Carried
  <2>2. CASE queue[scan[p]] # <<>>
    <3> DEFINE q == queue[scan[p]]
    <3>1. scan[p] \in Prio /\ q \in Seq(Job)
      BY Zenon DEF TypeOK
    <3>2. \A x : InList(q, x) => x = Head(q) \/ InList(Tail(q), x)
      BY Zenon, <2>2, <3>1, PopKeeps
    <3>3. /\ queue' = [queue EXCEPT ![scan[p]] = Tail(q)]
          /\ Goto(p, "deq_get") /\ id' = [id EXCEPT ![p] = Head(q)]
          /\ UNCHANGED <<job, scheduled, deleted>>
      BY Zenon, <1>15, <2>2 DEF DequeuePop, Keep, ghost
    <3> HIDE DEF q
    <3>4. \A i \in Prio : queue'[i] = IF i = scan[p] THEN Tail(q) ELSE queue[i]
      BY Zenon, <3>1, <3>3 DEF TypeOK
    <3>6. \A k \in Proc \ {p} : pc'[k] = pc[k] /\ id'[k] = id[k]
      BY Zenon, <3>3 DEF LocalOK, Goto
    <3>7. ASSUME NEW j \in Job \ deleted', Strands(p, j) PROVE FALSE
      <4>1. Queued(j) => j = Head(q) \/ Queued(j)'
        BY Zenon, <3>1, <3>2, <3>4 DEF Queued, q
      <4>2. j = Head(q) => Carried(j)'
        BY Zenon, <3>3 DEF LocalOK, Goto, Carried, CarryPC
      <4>3. (Unfinished(j)' <=> Unfinished(j)) /\ scheduled' = scheduled
        BY Zenon, <3>3 DEF Unfinished
      <4>4. pc[p] \notin CarryPC
        BY Zenon, <1>15 DEF DequeuePop, CarryPC
      <4>5. QED BY Zenon, <3>7, <4>1, <4>2, <4>3, <4>4 DEF Strands, Located
    <3>8. QED BY Zenon, <3>3, <3>6, <3>7, NothingStranded
  <2>3. QED BY Zenon, <2>1, <2>2
<1>16. ASSUME NEW p \in Worker, DequeueGet(p) PROVE Lost' \subseteq Lost
  <2>1. CASE Exists(id[p])
    <3>1. Goto(p, "deq_update") /\ UNCHANGED <<id, job, queue, scheduled, deleted>>
      BY Zenon, <1>16, <2>1 DEF LocalOK, DequeueGet, Keep, redis, ghost
    <3>2. QED BY Zenon, <3>1, ReadOnlyStep DEF CarryPC
  <2>2. CASE ~Exists(id[p])
    <3>1. \A q \in Proc \ {p} : pc'[q] = pc[q] /\ id'[q] = id[q]
      BY Zenon, <1>16, <2>2 DEF LocalOK, DequeueGet, Return, Goto, Keep
    <3>2. UNCHANGED <<job, queue, scheduled, deleted>>
      BY Zenon, <1>16 DEF DequeueGet, redis, ghost
    <3>3. ASSUME NEW j \in Job \ deleted', Strands(p, j) PROVE FALSE
      <4>1. (Unfinished(j)' <=> Unfinished(j)) /\ (Queued(j)' <=> Queued(j))
        BY Zenon, <3>2 DEF Unfinished, Queued
      <4>2. id[p] = j
        BY Zenon, <3>2, <3>3, <4>1 DEF Strands, Located
      <4>3. ~Unfinished(j)
        BY Zenon, <2>2, <4>2 DEF Exists, Unfinished
      <4>4. QED BY Zenon, <3>3, <4>1, <4>3 DEF Strands
    <3>4. QED BY Zenon, <3>1, <3>2, <3>3, NothingStranded
  <2>3. QED BY Zenon, <2>1, <2>2
<1>17. ASSUME NEW p \in Worker, DequeueUpdate(p) PROVE Lost' \subseteq Lost
  <2>1. /\ Goto(p, "got") /\ Store(id[p], loc[p])
        /\ UNCHANGED <<queue, scheduled, id, deleted>>
    BY Zenon, <1>17 DEF DequeueUpdate, ghost
  <2>2. "got" \in CarryPC
    BY Zenon DEF CarryPC
  <2>3. QED BY <2>1, <2>2, StoreStep, Zenon
<1>18. ASSUME NEW p \in Worker, CompleteGet(p) PROVE Lost' \subseteq Lost
  <2>1. CASE Exists(id[p])
    <3>1. Goto(p, "complete_update") /\ UNCHANGED <<id, job, queue, scheduled, deleted>>
      BY Zenon, <1>18, <2>1 DEF LocalOK, CompleteGet, Keep, redis, ghost
    <3>2. QED BY Zenon, <3>1, ReadOnlyStep DEF CarryPC
  <2>2. CASE ~Exists(id[p])
    <3>1. \A q \in Proc \ {p} : pc'[q] = pc[q] /\ id'[q] = id[q]
      BY Zenon, <1>18, <2>2 DEF LocalOK, CompleteGet, Return, Goto, Keep
    <3>2. UNCHANGED <<job, queue, scheduled, deleted>>
      BY Zenon, <1>18 DEF CompleteGet, redis, ghost
    <3>3. ASSUME NEW j \in Job \ deleted', Strands(p, j) PROVE FALSE
      <4>1. (Unfinished(j)' <=> Unfinished(j)) /\ (Queued(j)' <=> Queued(j))
        BY <3>2 DEF Unfinished, Queued
      <4>2. id[p] = j
        BY <3>2, <3>3, <4>1 DEF Strands, Located
      <4>3. ~Unfinished(j)
        BY <2>2, <4>2 DEF Exists, Unfinished
      <4>4. QED BY <3>3, <4>1, <4>3 DEF Strands
    <3>4. QED BY <3>1, <3>2, <3>3, NothingStranded
  <2>3. QED BY <2>1, <2>2
<1>19. ASSUME NEW p \in Worker, CompleteUpdate(p) PROVE Lost' \subseteq Lost
  <2>1. loc[p].status = "completed"
    BY Zenon, <1>19 DEF LocalOK, HoldsAt, CompleteUpdate
  <2>2. QED BY Zenon, <1>19, <2>1, StoreStep DEF CompleteUpdate, CarryPC, ghost
<1>20. ASSUME NEW p \in Worker, FailGet(p) PROVE Lost' \subseteq Lost
  <2>1. CASE Exists(id[p])
    <3>1. Goto(p, "fail_update") /\ UNCHANGED <<id, job, queue, scheduled, deleted>>
      BY Zenon, <1>20, <2>1 DEF LocalOK, FailGet, Keep, redis, ghost
    <3>2. QED BY Zenon, <3>1, ReadOnlyStep DEF CarryPC
  <2>2. CASE ~Exists(id[p])
    <3>1. \A q \in Proc \ {p} : pc'[q] = pc[q] /\ id'[q] = id[q]
      BY Zenon, <1>20, <2>2 DEF LocalOK, FailGet, Return, Goto, Keep
    <3>2. UNCHANGED <<job, queue, scheduled, deleted>>
      BY Zenon, <1>20 DEF FailGet, redis, ghost
    <3>3. ASSUME NEW j \in Job \ deleted', Strands(p, j) PROVE FALSE
      <4>1. (Unfinished(j)' <=> Unfinished(j)) /\ (Queued(j)' <=> Queued(j))
        BY <3>2 DEF Unfinished, Queued
      <4>2. id[p] = j
        BY <3>2, <3>3, <4>1 DEF Strands, Located
      <4>3. ~Unfinished(j)
        BY <2>2, <4>2 DEF Exists, Unfinished
      <4>4. QED BY <3>3, <4>1, <4>3 DEF Strands
    <3>4. QED BY <3>1, <3>2, <3>3, NothingStranded
  <2>3. QED BY <2>1, <2>2
<1>21. ASSUME NEW p \in Worker, FailUpdate(p) PROVE Lost' \subseteq Lost
  <2>1. loc[p].status \in {"retrying", "dead"}
    BY Zenon, <1>21 DEF LocalOK, HoldsAt, FailUpdate
  <2>2. QED BY Zenon, <1>21, <2>1, StoreStep DEF FailUpdate, CarryPC, ghost
<1>22. ASSUME NEW p \in Worker, FailSchedule(p) PROVE Lost' \subseteq Lost
  <2>1. id[p] \in Job
    BY Zenon, <1>22 DEF LocalOK, HoldsAt, FailSchedule
  <2>2. \A q \in Proc \ {p} : pc'[q] = pc[q] /\ id'[q] = id[q]
    BY Zenon, <1>22 DEF LocalOK, FailSchedule, Advance, Return, Goto, Keep
  <2>3. /\ SetScheduled(id[p], "future")
        /\ UNCHANGED <<job, queue, deleted>>
    BY Zenon, <1>22 DEF FailSchedule, ghost
  <2>4. QED BY Zenon, <2>1, <2>2, <2>3, PlaceStep
<1>23. ASSUME NEW p \in Worker, FailDLQ(p) PROVE Lost' \subseteq Lost
  <2>1. \E l : Goto(p, l)
    BY Zenon, <1>23 DEF FailDLQ, Return
  <2>2. pc[p] \notin CarryPC /\ \A q \in Proc \ {p} : id'[q] = id[q]
    BY Zenon, <1>23 DEF LocalOK, CarryPC, FailDLQ, Return, Keep
  <2>3. QED BY Zenon, <1>23, <2>1, <2>2, ReadOnlyStep DEF FailDLQ, redis, ghost
<1>24. ASSUME NEW p \in Worker, RequeueUpdate(p) PROVE Lost' \subseteq Lost
  <2>1. UNCHANGED id
    BY Zenon, <1>24 DEF LocalOK, RequeueUpdate, Keep
  <2>2. QED BY Zenon, <1>24, <2>1, StoreStep DEF RequeueUpdate, CarryPC, ghost
<1>25. ASSUME NEW p \in Worker, RequeuePush(p) PROVE Lost' \subseteq Lost
  <2>1. id[p] \in Job
    BY Zenon, <1>25 DEF LocalOK, HoldsAt, RequeuePush
  <2>2. \A q \in Proc \ {p} : pc'[q] = pc[q] /\ id'[q] = id[q]
    BY Zenon, <1>25 DEF LocalOK, RequeuePush, Advance, Return, Goto, Keep
  <2>3. QED BY Zenon, <1>25, <2>1, <2>2, PlaceStep DEF RequeuePush, ghost
<1>26. ASSUME NEW p \in Worker, WorkerReturn(p) PROVE Lost' \subseteq Lost
  <2>1. \E l : Goto(p, l)
    BY Zenon, <1>26 DEF WorkerReturn, Return
  <2>2. pc[p] \notin CarryPC /\ \A q \in Proc \ {p} : id'[q] = id[q]
    BY Zenon, <1>26 DEF LocalOK, CarryPC, WorkerReturn, Return, Keep
  <2>3. QED BY <1>26, <2>1, <2>2, ReadOnlyStep, Zenon DEF WorkerReturn, redis, ghost
<1>27. ASSUME NEW p \in Processor, ScheduledScan(p) PROVE Lost' \subseteq Lost
  <2>1. \E l : Goto(p, l)
    BY Zenon, <1>27 DEF ScheduledScan, Return
  <2>2. pc[p] \notin CarryPC /\ \A q \in Proc \ {p} : id'[q] = id[q]
    BY Zenon, <1>27 DEF LocalOK, CarryPC, ScheduledScan, Return, Keep
  <2>3. QED BY Zenon, <1>27, <2>1, <2>2, ReadOnlyStep DEF ScheduledScan, redis, ghost
<1>28. ASSUME NEW p \in Processor, NEW j \in Job, ScheduledGet(p, j) PROVE Lost' \subseteq Lost
  <2>1. \E l : Goto(p, l)
    BY Zenon, <1>28 DEF ScheduledGet, Advance, Return
  <2>2. pc[p] \notin CarryPC /\ \A q \in Proc \ {p} : id'[q] = id[q]
    BY Zenon, <1>28 DEF LocalOK, CarryPC, ScheduledGet, Advance, Return, Keep
  <2>3. QED BY Zenon, <1>28, <2>1, <2>2, ReadOnlyStep DEF ScheduledGet, redis, ghost
<1>29. ASSUME NEW p \in Processor, ScheduledRemove(p) PROVE Lost' \subseteq Lost
  <2>1. /\ Goto(p, "sched_update") /\ pc[p] \notin CarryPC
        /\ SetScheduled(id[p], "no")
        /\ UNCHANGED <<job, queue, id, deleted>>
    BY Zenon, <1>29 DEF ScheduledRemove, CarryPC, ghost
  <2>2. "sched_update" \in CarryPC
    BY Zenon DEF CarryPC
  <2>3. QED BY Zenon, <2>1, <2>2, UnscheduleStep
<1>30. ASSUME NEW p \in Processor, ScheduledUpdate(p) PROVE Lost' \subseteq Lost
  <2>1. /\ Goto(p, "sched_push") /\ Store(id[p], loc[p])
        /\ UNCHANGED <<queue, scheduled, id, deleted>>
    BY Zenon, <1>30 DEF ScheduledUpdate, ghost
  <2>2. "sched_push" \in CarryPC
    BY Zenon DEF CarryPC
  <2>3. QED BY Zenon, <2>1, <2>2, StoreStep
<1>31. ASSUME NEW p \in Processor, ScheduledPush(p) PROVE Lost' \subseteq Lost
  <2>1. id[p] \in Job
    BY Zenon, <1>31 DEF LocalOK, HoldsAt, ScheduledPush
  <2>2. \A q \in Proc \ {p} : pc'[q] = pc[q] /\ id'[q] = id[q]
    BY Zenon, <1>31 DEF LocalOK, ScheduledPush, Advance, Return, Goto, Keep
  <2>3. QED BY Zenon, <1>31, <2>1, <2>2, PlaceStep DEF ScheduledPush, ghost
<1>32. ASSUME NEW j \in Job, BecomeDue(j) PROVE Lost' \subseteq Lost
  <2>1. \A k \in Job : /\ Unfinished(k)' <=> Unfinished(k)
                       /\ Queued(k)' <=> Queued(k)
                       /\ Carried(k)' <=> Carried(k)
    BY Zenon, <1>32 DEF BecomeDue, local, Unfinished, Queued, Carried
  <2>2. \A k \in Job : scheduled[k] # "no" => scheduled'[k] # "no"
    BY Zenon, <1>32 DEF TypeOK, BecomeDue, SetScheduled
  <2>3. QED BY Zenon, <1>32, <2>1, <2>2 DEF Lost, Located, BecomeDue, ghost
<1>33. ASSUME NEW j \in Job, ExpireRecord(j) PROVE Lost' \subseteq Lost
  <2>1. \A k \in Job : Unfinished(k)' => Unfinished(k)
    BY Zenon, <1>33 DEF TypeOK, Unfinished, Store, Absent, ExpireRecord
  <2>2. \A k \in Job : (Queued(k)' <=> Queued(k)) /\ (Carried(k)' <=> Carried(k))
    BY Zenon, <1>33 DEF ExpireRecord, local, Queued, Carried
  <2>3. QED BY <1>33, <2>1, <2>2, Zenon DEF Lost, Located, ExpireRecord, ghost
<1>34. ASSUME NEW p \in Proc, Abort(p) PROVE Forgets(p)
  <2>1. UNCHANGED <<job, queue, scheduled, deleted>> /\ faults' = faults + 1
    BY Zenon, <1>34 DEF Abort, redis
  <2>2. \A q \in Proc \ {p} : pc'[q] = pc[q] /\ id'[q] = id[q]
    BY Zenon, <1>34 DEF LocalOK, Abort, Return, Goto, Keep
  <2>3. QED BY Zenon, <2>1, <2>2, ForgetStep
<1>35. ASSUME NEW p \in Client, ClientStep(p) PROVE Lost' \subseteq Lost
  BY <1>35, <1>1, <1>2, <1>3, <1>4, <1>5, <1>6, <1>7, <1>8, <1>9, <1>10, <1>11, <1>12, <1>13,
     <1>14 DEF ClientStep
<1>36. ASSUME NEW p \in Worker, WorkerStep(p) PROVE Lost' \subseteq Lost
  BY <1>36, <1>14, <1>15, <1>16, <1>17, <1>18, <1>19, <1>20, <1>21, <1>22, <1>23, <1>24, <1>25,
     <1>26
  DEF WorkerStep, DequeueStep, OutcomeStep
<1>37. ASSUME NEW p \in Processor, ProcessorStep(p) PROVE Lost' \subseteq Lost
  BY Zenon, <1>37, <1>27, <1>28, <1>29, <1>30, <1>31 DEF ProcessorStep
<1>38. ASSUME NEW p \in Client, DeleteFails(p) PROVE Lost' \subseteq Lost
  <2>1. \E l : Goto(p, l)
    BY Zenon, <1>38 DEF DeleteFails
  <2>2. pc[p] \notin CarryPC /\ \A q \in Proc \ {p} : id'[q] = id[q]
    BY Zenon, <1>38 DEF CarryPC, DeleteFails
  <2>3. QED BY Zenon, <1>38, <2>1, <2>2, ReadOnlyStep DEF DeleteFails, redis
<1>39. ASSUME NEW k \in Key, ExpireUnique(k) PROVE Lost' \subseteq Lost
  BY Zenon, <1>39 DEF ExpireUnique, local, ghost, Lost, Unfinished, Located, Queued, Carried
<1>40. ASSUME NEW p \in Worker, DequeueSkips(p) PROVE Forgets(p)
  <2>1. UNCHANGED <<job, queue, scheduled, deleted>> /\ faults' = faults + 1
    BY Zenon, <1>40 DEF DequeueSkips, redis
  <2>2. \A q \in Proc \ {p} : pc'[q] = pc[q] /\ id'[q] = id[q]
    BY Zenon, <1>40 DEF LocalOK, DequeueSkips, Return, Goto, Keep
  <2>3. QED BY Zenon, <2>1, <2>2, ForgetStep
<1>41. ASSUME NEW p \in Processor, NEW j \in Job, ScheduledSkips(p, j) PROVE Forgets(p)
  <2>1. UNCHANGED <<job, queue, scheduled, deleted>> /\ faults' = faults + 1
    BY Zenon, <1>41 DEF ScheduledSkips, redis
  <2>2. \A q \in Proc \ {p} : pc'[q] = pc[q] /\ id'[q] = id[q]
    BY Zenon, <1>41 DEF LocalOK, ScheduledSkips, Advance, Goto, Keep
  <2>3. QED BY Zenon, <2>1, <2>2, ForgetStep
<1>42. QED
  BY Zenon, <1>32, <1>33, <1>34, <1>35, <1>36, <1>37, <1>38, <1>39, <1>40, <1>41 DEF Next

\* A step counts one fault at most.
LEMMA FaultsStep ==
  ASSUME Next
  PROVE  UNCHANGED faults \/ faults' = faults + 1
<1>1. ASSUME NEW p \in Client, ClientStep(p) PROVE UNCHANGED faults
  <2>1. \A j \in Job, s \in Submission : EnqueueCall(p, j, s) => UNCHANGED faults
    BY Zenon DEF EnqueueCall, ghost
  <2>2. EnqueueCheck(p) => UNCHANGED faults
    BY Zenon DEF EnqueueCheck, ghost
  <2>3. EnqueueStore(p) => UNCHANGED faults
    BY Zenon DEF EnqueueStore, ghost
  <2>4. EnqueuePush(p) => UNCHANGED faults
    BY Zenon DEF EnqueuePush, ghost
  <2>5. EnqueueUnique(p) => UNCHANGED faults
    BY Zenon DEF EnqueueUnique, ghost
  <2>6. \A j \in Job : RetryJob(p, j) => UNCHANGED faults
    BY Zenon DEF RetryJob, ghost
  <2>7. \A j \in Job : RetryDLQGet(p, j) => UNCHANGED faults
    BY Zenon DEF RetryDLQGet, ghost
  <2>8. \A j \in Job : RetryDLQRemove(p, j) => UNCHANGED faults
    BY Zenon DEF RetryDLQRemove, ghost
  <2>9. \A j \in Job : DeleteCall(p, j) => UNCHANGED faults
    BY Zenon DEF DeleteCall, ghost
  <2>10. DeleteRecord(p) => UNCHANGED faults
    BY Zenon DEF DeleteRecord, ghost
  <2>11. DeleteQueued(p) => UNCHANGED faults
    BY Zenon DEF DeleteQueued, ghost
  <2>12. DeleteScheduled(p) => UNCHANGED faults
    BY Zenon DEF DeleteScheduled, ghost
  <2>13. DeleteDead(p) => UNCHANGED faults
    BY Zenon DEF DeleteDead, ghost
  <2>14. DropUnique(p) => UNCHANGED faults
    BY Zenon DEF DropUnique, ghost
  <2>15. QED BY <1>1, <2>1, <2>2, <2>3, <2>4, <2>5, <2>6, <2>7, <2>8, <2>9, <2>10, <2>11, <2>12,
                <2>13, <2>14
    DEF ClientStep
<1>2. ASSUME NEW p \in Worker, WorkerStep(p) PROVE UNCHANGED faults
  <2>1. DropUnique(p) => UNCHANGED faults
    BY Zenon DEF DropUnique, ghost
  <2>2. DequeuePop(p) => UNCHANGED faults
    BY Zenon DEF DequeuePop, ghost
  <2>3. DequeueGet(p) => UNCHANGED faults
    BY Zenon DEF DequeueGet, ghost
  <2>4. DequeueUpdate(p) => UNCHANGED faults
    BY Zenon DEF DequeueUpdate, ghost
  <2>5. CompleteGet(p) => UNCHANGED faults
    BY Zenon DEF CompleteGet, ghost
  <2>6. CompleteUpdate(p) => UNCHANGED faults
    BY Zenon DEF CompleteUpdate, ghost
  <2>7. FailGet(p) => UNCHANGED faults
    BY Zenon DEF FailGet, ghost
  <2>8. FailUpdate(p) => UNCHANGED faults
    BY Zenon DEF FailUpdate, ghost
  <2>9. FailSchedule(p) => UNCHANGED faults
    BY Zenon DEF FailSchedule, ghost
  <2>10. FailDLQ(p) => UNCHANGED faults
    BY Zenon DEF FailDLQ, ghost
  <2>11. RequeueUpdate(p) => UNCHANGED faults
    BY Zenon DEF RequeueUpdate, ghost
  <2>12. RequeuePush(p) => UNCHANGED faults
    BY Zenon DEF RequeuePush, ghost
  <2>13. WorkerReturn(p) => UNCHANGED faults
    BY Zenon DEF WorkerReturn, ghost
  <2>14. QED BY <1>2, <2>1, <2>2, <2>3, <2>4, <2>5, <2>6, <2>7, <2>8, <2>9, <2>10, <2>11, <2>12,
                <2>13
    DEF WorkerStep, DequeueStep, OutcomeStep
<1>3. ASSUME NEW p \in Processor, ProcessorStep(p) PROVE UNCHANGED faults
  <2>1. ScheduledScan(p) => UNCHANGED faults
    BY Zenon DEF ScheduledScan, ghost
  <2>2. \A j \in Job : ScheduledGet(p, j) => UNCHANGED faults
    BY Zenon DEF ScheduledGet, ghost
  <2>3. ScheduledRemove(p) => UNCHANGED faults
    BY Zenon DEF ScheduledRemove, ghost
  <2>4. ScheduledUpdate(p) => UNCHANGED faults
    BY Zenon DEF ScheduledUpdate, ghost
  <2>5. ScheduledPush(p) => UNCHANGED faults
    BY Zenon DEF ScheduledPush, ghost
  <2>6. QED BY Zenon, <1>3, <2>1, <2>2, <2>3, <2>4, <2>5
    DEF ProcessorStep
<1>4. ASSUME NEW j \in Job, BecomeDue(j) \/ ExpireRecord(j) PROVE UNCHANGED faults
  BY Zenon, <1>4 DEF BecomeDue, ExpireRecord, ghost
<1>5. ASSUME NEW k \in Key, ExpireUnique(k) PROVE UNCHANGED faults
  BY Zenon, <1>5 DEF ExpireUnique, ghost
<1>6. ASSUME NEW p \in Proc, Abort(p) \/ DeleteFails(p) \/ DequeueSkips(p)
      PROVE  faults' = faults + 1
  BY <1>6, Zenon DEF Abort, DeleteFails, DequeueSkips
<1>7. ASSUME NEW p \in Proc, NEW j \in Job, ScheduledSkips(p, j)
      PROVE  faults' = faults + 1
  BY Zenon, <1>7 DEF ScheduledSkips
<1>8. QED BY Zenon, <1>1, <1>2, <1>3, <1>4, <1>5, <1>6, <1>7 DEF Next, Proc

\* A set that grows by at most one element whenever a failure is counted, and
\* not otherwise, has no more elements than failures.
LEMMA Counted ==
  ASSUME NEW S, NEW T, NEW x, NEW f \in Nat, NEW g,
         IsFiniteSet(S), Cardinality(S) <= f,
         \/ T \subseteq S /\ (g = f \/ g = f + 1)
         \/ T \subseteq S \cup {x} /\ g = f + 1
  PROVE  IsFiniteSet(T) /\ Cardinality(T) <= g
<1>1. Cardinality(S) \in Nat
  BY Zenon, FS_CardinalityType
<1>2. /\ IsFiniteSet(S \cup {x})
      /\ Cardinality(S \cup {x}) = IF x \in S THEN Cardinality(S) ELSE Cardinality(S) + 1
  BY Zenon, FS_AddElement
<1>3. CASE T \subseteq S /\ (g = f \/ g = f + 1)
  <2>1. IsFiniteSet(T) /\ Cardinality(T) <= Cardinality(S)
    BY Zenon, <1>3, FS_Subset
  <2>2. Cardinality(T) \in Nat
    BY Zenon, <2>1, FS_CardinalityType
  <2>3. QED BY <1>1, <1>3, <2>1, <2>2
<1>4. CASE T \subseteq S \cup {x} /\ g = f + 1
  <2>1. IsFiniteSet(T) /\ Cardinality(T) <= Cardinality(S \cup {x})
    BY Zenon, <1>2, <1>4, FS_Subset
  <2>2. Cardinality(T) \in Nat
    BY Zenon, <2>1, FS_CardinalityType
  <2>3. QED BY <1>1, <1>2, <1>4, <2>1, <2>2
<1>5. QED BY Zenon, <1>3, <1>4

\* A step loses at most the one job that a caller it cuts short has in hand.
LEMMA LossStep ==
  ASSUME QueueInv, Next
  PROVE  QueueInv'
<1>1. TypeOK' /\ LocalOK'
  BY Zenon, LocalStep, TypedStep DEF QueueInv
<1>2. /\ faults \in Nat /\ IsFiniteSet(Lost) /\ Cardinality(Lost) <= faults
      /\ faults' = faults \/ faults' = faults + 1
  BY Zenon, FaultsStep DEF QueueInv, TypeOK
<1>3. \E x : \/ Lost' \subseteq Lost
             \/ Lost' \subseteq Lost \cup {x} /\ faults' = faults + 1
  BY Zenon, <1>1, LosesNothing DEF QueueInv, Forgets
<1>4. IsFiniteSet(Lost') /\ Cardinality(Lost') <= faults'
  BY Zenon, <1>2, <1>3, Counted
<1>5. QED BY Zenon, <1>1, <1>4 DEF QueueInv

\* At first there is nothing to lose.
LEMMA LossStarts == Init => QueueInv
<1> SUFFICES ASSUME Init PROVE QueueInv
  BY Zenon
<1>1. Lost = {}
  BY Zenon DEF Init, Lost, Unfinished, Absent
<1>2. QED BY <1>1, InitTyped, FS_EmptySet DEF QueueInv, Init

\* Nothing is lost while the queue stands still.
LEMMA LossStutters ==
  ASSUME QueueInv, UNCHANGED vars
  PROVE  QueueInv'
<1>1. TypeOK' /\ LocalOK' /\ faults' = faults
  BY Zenon DEF QueueInv, TypeOK, LocalOK, vars
<1>2. \A j : (Unfinished(j)' <=> Unfinished(j)) /\ (Located(j)' <=> Located(j))
  BY Zenon DEF Located, Unfinished, Queued, Carried, vars
<1>3. Lost' = Lost
  BY Zenon, <1>2 DEF Lost, vars
<1>4. QED BY Zenon, <1>1, <1>3 DEF QueueInv

\* The queue loses no job: a stored job that is neither finished nor
\* cancelled can be found in a queue, in the scheduled set or with a caller,
\* whatever Enqueue, Dequeue, Complete, Fail, requeueJob, ProcessScheduled,
\* RetryJob, RetryDLQJob and DeleteJob calls overlap, except for at most one
\* job for each of these operations that was cut short.
THEOREM QueueLosesNothing == Spec => []LossBounded
<1>1. QueueInv /\ [Next]_vars => QueueInv'
  BY Zenon, LossStep, LossStutters
<1>2. QueueInv => LossBounded
  BY Zenon DEF QueueInv, LossBounded
<1>3. QED BY <1>1, <1>2, LossStarts, PTL DEF Spec

-----------------------------------------------------------------------------
(* No dead job is mislaid.                                                 *)

\* The inductive invariant.
DeadInv ==
  TypeOK /\ LocalOK /\ IsFiniteSet(DeadAway) /\ Cardinality(DeadAway) <= faults

\* A dead job that is neither in the DLQ nor retried.
Mislaid(j) == job[j].status = "dead" /\ dlq[j] = 0 /\ succ[j] = NoJob

\* A step of p that mislays no job leaves no other caller's job behind.
LEMMA NoneMislaid ==
  ASSUME NEW p \in Proc, OthersKeep(p), deleted \subseteq deleted',
         \A j \in Job \ deleted' :
           Mislaid(j)' => \/ Mislaid(j) /\ ~(id[p] = j /\ pc[p] = "fail_dlq")
                          \/ p \in Worker /\ id'[p] = j /\ pc'[p] = "fail_dlq"
  PROVE  DeadAway' \subseteq DeadAway
<1> SUFFICES ASSUME NEW j \in Job \ deleted', Mislaid(j)',
                    \A w \in Worker : id'[w] = j => pc'[w] # "fail_dlq"
             PROVE  /\ j \notin deleted /\ Mislaid(j)
                    /\ \A w \in Worker : id[w] = j => pc[w] # "fail_dlq"
  BY Zenon DEF DeadAway, Mislaid
<1>1. Mislaid(j) /\ ~(id[p] = j /\ pc[p] = "fail_dlq")
  BY Zenon
<1>2. \A w \in Worker \ {p} : id'[w] = id[w] /\ pc'[w] = pc[w]
  BY Zenon DEF OthersKeep, Proc
<1>3. QED BY Zenon, <1>1, <1>2

\* A step of p that touches neither the records nor the DLQ.
Calm(p) == UNCHANGED <<job, dlq, succ>> /\ deleted \subseteq deleted' /\ pc[p] # "fail_dlq"

\* It mislays no job.
LEMMA CalmStep ==
  ASSUME NEW p \in Proc, OthersKeep(p), Calm(p)
  PROVE  DeadAway' \subseteq DeadAway
<1>1. \A j : Mislaid(j)' => Mislaid(j)
  BY Zenon DEF Calm, Mislaid
<1>2. QED BY Zenon, <1>1, NoneMislaid DEF Calm

\* A step of p that stores the record of a job that is not dead.
StoresAlive(p) ==
  /\ \E r : Store(id[p], r) /\ r.status # "dead"
  /\ UNCHANGED <<dlq, succ, deleted>> /\ pc[p] # "fail_dlq"

\* It mislays no job either.
LEMMA AliveStep ==
  ASSUME TypeOK, NEW p \in Proc, OthersKeep(p), StoresAlive(p)
  PROVE  DeadAway' \subseteq DeadAway
<1>1. PICK r : Store(id[p], r) /\ r.status # "dead"
  BY Zenon DEF StoresAlive
<1>2. \A j \in Job : job'[j] = IF j = id[p] THEN r ELSE job[j]
  BY Zenon, <1>1 DEF Store, TypeOK
<1>3. \A j \in Job : Mislaid(j)' => Mislaid(j)
  BY Zenon, <1>1, <1>2 DEF StoresAlive, Mislaid
<1>4. QED BY Zenon, <1>3, NoneMislaid DEF StoresAlive

\* No step mislays a dead job, unless a failure cuts Fail short.
LEMMA MislaysNone ==
  ASSUME TypeOK, LocalOK, Next
  PROVE  \/ DeadAway' \subseteq DeadAway
         \/ \E p \in Proc : faults' = faults + 1 /\ DeadAway' \subseteq DeadAway \cup {id[p]}
<1> USE DEF Proc
<1>1. ASSUME NEW p \in Proc, Calm(p), \/ ClientStep(p) \/ WorkerStep(p) \/ ProcessorStep(p)
      PROVE  DeadAway' \subseteq DeadAway
  BY Zenon, <1>1, OwnMoves, CalmStep
<1>2. ASSUME NEW p \in Proc, StoresAlive(p), \/ ClientStep(p) \/ WorkerStep(p) \/ ProcessorStep(p)
      PROVE  DeadAway' \subseteq DeadAway
  BY Zenon, <1>2, OwnMoves, AliveStep
<1>3. ASSUME NEW p \in Client, NEW j, NEW s, EnqueueCall(p, j, s) PROVE Calm(p)
  BY Zenon, <1>3 DEF Calm, redis, ghost, EnqueueCall
<1>4. ASSUME NEW p \in Client, NEW j, RetryJob(p, j) PROVE Calm(p)
  BY Zenon, <1>4 DEF Calm, redis, ghost, RetryJob
<1>5. ASSUME NEW p \in Client, NEW j, RetryDLQGet(p, j) PROVE Calm(p)
  BY Zenon, <1>5 DEF Calm, redis, ghost, RetryDLQGet
<1>6. ASSUME NEW p \in Client, NEW j, DeleteCall(p, j) PROVE Calm(p)
  BY Zenon, <1>6 DEF Calm, redis, ghost, DeleteCall
<1>7. ASSUME NEW p \in Client, EnqueueCheck(p) PROVE Calm(p)
  BY Zenon, <1>7 DEF Calm, redis, ghost, EnqueueCheck
<1>8. ASSUME NEW p \in Client, EnqueuePush(p) PROVE Calm(p)
  BY Zenon, <1>8 DEF Calm, redis, ghost, EnqueuePush
<1>9. ASSUME NEW p \in Client, EnqueueUnique(p) PROVE Calm(p)
  BY Zenon, <1>9 DEF Calm, redis, ghost, EnqueueUnique
<1>10. ASSUME NEW p \in Client, DeleteQueued(p) PROVE Calm(p)
  BY Zenon, <1>10 DEF Calm, redis, ghost, DeleteQueued
<1>11. ASSUME NEW p \in Client, DeleteScheduled(p) PROVE Calm(p)
  BY Zenon, <1>11 DEF Calm, redis, ghost, DeleteScheduled
<1>12. ASSUME NEW p \in Proc, DropUnique(p) PROVE Calm(p)
  BY Zenon, <1>12 DEF Calm, redis, ghost, DropUnique
<1>13. ASSUME NEW p \in Worker, DequeuePop(p) PROVE Calm(p)
  BY Zenon, <1>13 DEF Calm, redis, ghost, DequeuePop
<1>14. ASSUME NEW p \in Worker, DequeueGet(p) PROVE Calm(p)
  BY Zenon, <1>14 DEF Calm, redis, ghost, DequeueGet
<1>15. ASSUME NEW p \in Worker, CompleteGet(p) PROVE Calm(p)
  BY Zenon, <1>15 DEF Calm, redis, ghost, CompleteGet
<1>16. ASSUME NEW p \in Worker, FailGet(p) PROVE Calm(p)
  BY Zenon, <1>16 DEF Calm, redis, ghost, FailGet
<1>17. ASSUME NEW p \in Worker, FailSchedule(p) PROVE Calm(p)
  BY Zenon, <1>17 DEF Calm, redis, ghost, FailSchedule
<1>18. ASSUME NEW p \in Worker, RequeuePush(p) PROVE Calm(p)
  BY Zenon, <1>18 DEF Calm, redis, ghost, RequeuePush
<1>19. ASSUME NEW p \in Worker, WorkerReturn(p) PROVE Calm(p)
  BY Zenon, <1>19 DEF Calm, redis, ghost, WorkerReturn
<1>20. ASSUME NEW p \in Processor, ScheduledScan(p) PROVE Calm(p)
  BY Zenon, <1>20 DEF Calm, redis, ghost, ScheduledScan
<1>21. ASSUME NEW p \in Processor, ScheduledRemove(p) PROVE Calm(p)
  BY Zenon, <1>21 DEF Calm, redis, ghost, ScheduledRemove
<1>22. ASSUME NEW p \in Processor, ScheduledPush(p) PROVE Calm(p)
  BY Zenon, <1>22 DEF Calm, redis, ghost, ScheduledPush
<1>23. ASSUME NEW p \in Processor, NEW j, ScheduledGet(p, j) PROVE Calm(p)
  BY Zenon, <1>23 DEF Calm, redis, ghost, ScheduledGet
<1>24. ASSUME NEW p \in Client, EnqueueStore(p) PROVE StoresAlive(p)
  <2>1. loc[p].status # "dead"
    BY Zenon, <1>24 DEF LocalOK, HoldsAt, EnqueueStore
  <2>2. QED BY Zenon, <1>24, <2>1 DEF StoresAlive, ghost, EnqueueStore
<1>25. ASSUME NEW p \in Client, DeleteRecord(p) PROVE StoresAlive(p)
  <2>1. Absent.status # "dead"
    BY DEF Absent
  <2>2. QED BY Zenon, <1>25, <2>1 DEF StoresAlive, ghost, DeleteRecord
<1>26. ASSUME NEW p \in Worker, DequeueUpdate(p) PROVE StoresAlive(p)
  <2>1. loc[p].status # "dead"
    BY Zenon, <1>26 DEF LocalOK, HoldsAt, DequeueUpdate
  <2>2. QED BY Zenon, <1>26, <2>1 DEF StoresAlive, ghost, DequeueUpdate
<1>27. ASSUME NEW p \in Worker, CompleteUpdate(p) PROVE StoresAlive(p)
  <2>1. loc[p].status # "dead"
    BY Zenon, <1>27 DEF LocalOK, HoldsAt, CompleteUpdate
  <2>2. QED BY Zenon, <1>27, <2>1 DEF StoresAlive, ghost, CompleteUpdate
<1>28. ASSUME NEW p \in Processor, ScheduledUpdate(p) PROVE StoresAlive(p)
  <2>1. loc[p].status # "dead"
    BY Zenon, <1>28 DEF LocalOK, HoldsAt, ScheduledUpdate
  <2>2. QED BY Zenon, <1>28, <2>1 DEF StoresAlive, ghost, ScheduledUpdate
<1>29. ASSUME NEW p \in Worker, RequeueUpdate(p) PROVE StoresAlive(p)
  <2> DEFINE r == [loc[p] EXCEPT !.status = "pending", !.attempts = @ - 1]
  <2>1. r.status # "dead"
    BY DEF LocalOK, Record
  <2>2. Store(id[p], r)
    BY Zenon, <1>29 DEF RequeueUpdate
  <2> HIDE DEF r
  <2>3. QED BY Zenon, <1>29, <2>1, <2>2 DEF StoresAlive, ghost, RequeueUpdate
<1>30. ASSUME NEW p \in Worker, FailUpdate(p) PROVE DeadAway' \subseteq DeadAway
  <2>1. loc[p].status \in {"retrying", "dead"} /\ id[p] \in Job
    BY Zenon, <1>30 DEF LocalOK, HoldsAt, FailUpdate
  <2>2. WorkerStep(p)
    BY Zenon, <1>30 DEF WorkerStep, OutcomeStep
  <2>3. CASE loc[p].status # "dead"
    <3>1. StoresAlive(p)
      BY Zenon, <1>30, <2>3 DEF StoresAlive, ghost, FailUpdate
    <3>2. QED BY Zenon, <1>2, <2>2, <3>1
  <2>4. CASE loc[p].status = "dead"
    <3>1. /\ Store(id[p], loc[p]) /\ Goto(p, "fail_dlq")
          /\ UNCHANGED <<dlq, succ, deleted, id>> /\ pc[p] # "fail_dlq"
      BY Zenon, <1>30, <2>4 DEF FailUpdate, ghost
    <3>2. pc'[p] = "fail_dlq" /\ id'[p] = id[p]
      BY Zenon, <3>1 DEF LocalOK, Goto
    <3>3. \A j \in Job : j # id[p] => job'[j] = job[j]
      BY Zenon, <3>1 DEF Store, TypeOK
    <3>4. \A j \in Job : j # id[p] => (Mislaid(j)' => Mislaid(j))
      BY Zenon, <3>1, <3>3 DEF Mislaid
    <3>5. OthersKeep(p)
      BY Zenon, <2>2, OwnMoves
    <3>6. QED BY Zenon, <3>1, <3>2, <3>4, <3>5, NoneMislaid
  <2>5. QED BY Zenon, <2>3, <2>4
<1>31. ASSUME NEW p \in Worker, FailDLQ(p) PROVE DeadAway' \subseteq DeadAway
  <2>1. WorkerStep(p)
    BY Zenon, <1>31 DEF WorkerStep, OutcomeStep
  <2>2. OthersKeep(p)
    BY Zenon, <2>1, OwnMoves
  <2>3. id[p] \in Job /\ dlq[id[p]] \in Nat
    BY Zenon, <1>31 DEF LocalOK, HoldsAt, TypeOK, FailDLQ
  <2>4. dlq[id[p]] + 1 # 0
    BY <2>3
  <2>5. \A j \in Job : dlq'[j] = IF j = id[p] THEN dlq[id[p]] + 1 ELSE dlq[j]
    BY Zenon, <1>31 DEF FailDLQ, TypeOK
  <2>6. UNCHANGED <<job, succ, deleted>>
    BY Zenon, <1>31 DEF FailDLQ, ghost
  <2>7. \A j \in Job : Mislaid(j)' => Mislaid(j) /\ j # id[p]
    BY Zenon, <2>4, <2>5, <2>6 DEF Mislaid
  <2>8. QED BY Zenon, <2>2, <2>6, <2>7, NoneMislaid
<1>32. ASSUME NEW p \in Client, NEW n \in Job, RetryDLQRemove(p, n)
       PROVE  DeadAway' \subseteq DeadAway
  <2>1. ClientStep(p)
    BY Zenon, <1>32 DEF ClientStep
  <2>2. OthersKeep(p)
    BY Zenon, <2>1, OwnMoves
  <2>3. UNCHANGED <<job, deleted>> /\ pc[p] # "fail_dlq"
    BY Zenon, <1>32 DEF RetryDLQRemove
  <2>4. \A j \in Job : /\ succ'[j] = IF j = id[p] THEN n ELSE succ[j]
                       /\ j # id[p] => dlq'[j] = dlq[j]
    BY Zenon, <1>32 DEF RetryDLQRemove, TypeOK
  <2>5. n # NoJob
    BY Zenon, QueueAssumption
  <2>6. \A j \in Job : Mislaid(j)' => Mislaid(j)
    BY Zenon, <2>3, <2>4, <2>5 DEF Mislaid
  <2>7. QED BY Zenon, <2>2, <2>3, <2>6, NoneMislaid
<1>33. ASSUME NEW p \in Client, DeleteDead(p) PROVE DeadAway' \subseteq DeadAway
  <2>1. ClientStep(p)
    BY Zenon, <1>33 DEF ClientStep
  <2>2. OthersKeep(p)
    BY Zenon, <2>1, OwnMoves
  <2>3. UNCHANGED <<job, succ, deleted>> /\ pc[p] # "fail_dlq" /\ id[p] \in deleted
    BY Zenon, <1>33 DEF DeleteDead, ghost, LocalOK, HoldsAt
  <2>4. \A j \in Job : j # id[p] => dlq'[j] = dlq[j]
    BY Zenon, <1>33 DEF DeleteDead, TypeOK
  <2>5. \A j \in Job \ deleted' : Mislaid(j)' => Mislaid(j)
    BY Zenon, <2>3, <2>4 DEF Mislaid
  <2>6. QED BY Zenon, <2>2, <2>3, <2>5, NoneMislaid
<1>34. ASSUME NEW j \in Job, ExpireRecord(j) PROVE DeadAway' \subseteq DeadAway
  <2>1. UNCHANGED <<dlq, succ, deleted, pc, id>> /\ Store(j, Absent)
    BY Zenon, <1>34 DEF ExpireRecord, local, ghost
  <2>2. \A i \in Job : job'[i].status = "dead" => job[i].status = "dead"
    BY <2>1 DEF Store, TypeOK, Absent
  <2>3. QED BY Zenon, <2>1, <2>2 DEF DeadAway
<1>35. ASSUME NEW j \in Job, BecomeDue(j) PROVE DeadAway' \subseteq DeadAway
  BY Zenon, <1>35 DEF BecomeDue, local, ghost, DeadAway
<1>36. ASSUME NEW k \in Key, ExpireUnique(k) PROVE DeadAway' \subseteq DeadAway
  BY Zenon, <1>36 DEF ExpireUnique, local, DeadAway
<1>37. ASSUME NEW p \in Proc, \/ Abort(p) \/ DeleteFails(p) \/ DequeueSkips(p)
                             \/ \E j \in Job : ScheduledSkips(p, j)
      PROVE  faults' = faults + 1 /\ DeadAway' \subseteq DeadAway \cup {id[p]}
  <2>1. UNCHANGED <<job, dlq, succ, deleted>> /\ faults' = faults + 1
    BY Zenon, <1>37 DEF Abort, DeleteFails, DequeueSkips, ScheduledSkips, redis
  <2>2. OthersKeep(p)
    BY Zenon, <1>37, OwnMoves
  <2>3. \A w \in Worker \ {p} : id'[w] = id[w] /\ pc'[w] = pc[w]
    BY Zenon, <2>2 DEF OthersKeep
  <2>4. QED BY Zenon, <2>1, <2>3 DEF DeadAway
<1>38. ASSUME NEW p \in Client, ClientStep(p) PROVE DeadAway' \subseteq DeadAway
  BY Zenon, <1>38, <1>1, <1>2, <1>3, <1>4, <1>5, <1>6, <1>7, <1>8, <1>9, <1>10, <1>11,
     <1>12, <1>24, <1>25, <1>32, <1>33
     DEF ClientStep
<1>39. ASSUME NEW p \in Worker, WorkerStep(p) PROVE DeadAway' \subseteq DeadAway
  BY Zenon, <1>39, <1>1, <1>2, <1>12, <1>13, <1>14, <1>15, <1>16, <1>17, <1>18, <1>19,
     <1>26, <1>27, <1>29, <1>30, <1>31
     DEF WorkerStep, DequeueStep, OutcomeStep
<1>40. ASSUME NEW p \in Processor, ProcessorStep(p) PROVE DeadAway' \subseteq DeadAway
  BY Zenon, <1>40, <1>1, <1>2, <1>20, <1>21, <1>22, <1>23, <1>28
     DEF ProcessorStep
<1>41. QED
  BY Zenon, <1>34, <1>35, <1>36, <1>37, <1>38, <1>39, <1>40 DEF Next

\* A dead job can be found: in the DLQ, or with the worker that is about to put
\* it there, until RetryDLQJob or DeleteJob takes it out, except for at most one
\* job for each operation that was cut short.
THEOREM DeadStayFindable == Spec => []DeadAccounted
<1>1. Init => DeadInv
  <2> SUFFICES ASSUME Init PROVE DeadInv
    BY Zenon
  <2>1. DeadAway = {}
    BY DEF Init, DeadAway, Absent
  <2>2. QED BY <2>1, InitTyped, FS_EmptySet DEF DeadInv, Init
<1>2. DeadInv /\ [Next]_vars => DeadInv'
  <2> SUFFICES ASSUME DeadInv, [Next]_vars PROVE DeadInv'
    BY Zenon
  <2>1. CASE Next
    <3>1. TypeOK' /\ LocalOK'
      BY Zenon, <2>1, LocalStep, TypedStep DEF DeadInv
    <3>2. /\ faults \in Nat /\ IsFiniteSet(DeadAway) /\ Cardinality(DeadAway) <= faults
          /\ faults' = faults \/ faults' = faults + 1
      BY Zenon, <2>1, FaultsStep DEF DeadInv, TypeOK
    <3>3. \E x : \/ DeadAway' \subseteq DeadAway
                 \/ DeadAway' \subseteq DeadAway \cup {x} /\ faults' = faults + 1
      BY Zenon, <2>1, MislaysNone DEF DeadInv
    <3>4. IsFiniteSet(DeadAway') /\ Cardinality(DeadAway') <= faults'
      BY Zenon, <3>2, <3>3, Counted
    <3>5. QED BY Zenon, <3>1, <3>4 DEF DeadInv
  <2>2. CASE UNCHANGED vars
    <3>1. TypeOK' /\ LocalOK' /\ faults' = faults
      BY Zenon, <2>2 DEF DeadInv, TypeOK, LocalOK, vars
    <3>2. DeadAway' = DeadAway
      BY Zenon, <2>2 DEF DeadAway, vars
    <3>3. QED BY Zenon, <3>1, <3>2 DEF DeadInv
  <2>3. QED BY Zenon, <2>1, <2>2
<1>3. DeadInv => DeadAccounted
  BY Zenon DEF DeadInv, DeadAccounted
<1>4. QED BY <1>1, <1>2, <1>3, PTL DEF Spec
=============================================================================
