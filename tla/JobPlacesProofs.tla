-------------------------- MODULE JobPlacesProofs --------------------------
(***************************************************************************)
(* Where the queue (JobQueue) keeps a job: in one place at a time, and     *)
(* under a UniqueKey that no other unfinished job has.                     *)
(***************************************************************************)
EXTENDS JobQueueProofs

\* For the leaves that name no other prover.
USE Zenon

\* The caller has the job in its hands, and no place in Redis has it: the jobs
\* a caller carries, those Enqueue has not stored yet and those whose
\* UniqueKey is still to be dropped.
OwnPC == CarryPC \cup {"enq_check", "enq_store", "fail_dlq", "drop_unique"}
Owns(p, j) == id[p] = j /\ pc[p] \in OwnPC

\* The entry i of list p is j.
Entry(s, p, i, j) == p \in Prio /\ i \in 1..Len(s[p]) /\ s[p][i] = j

Owned(j) == \E p \in Proc : Owns(p, j)

\* No job is in two places, and a job not submitted yet is in none.
OneEntry == \A p, i, q, k, j :
              Entry(queue, p, i, j) /\ Entry(queue, q, k, j) => p = q /\ i = k
OneOwner == \A j \in Job : \A p, q \in Proc : Owns(p, j) /\ Owns(q, j) => p = q
Apart == \A j \in Job : /\ Queued(j) => scheduled[j] = "no" /\ ~Owned(j)
                        /\ Owned(j) => scheduled[j] = "no"
                        /\ j \notin issued => ~Queued(j) /\ ~Owned(j) /\ scheduled[j] = "no"
InOnePlace == OneEntry /\ OneOwner /\ Apart

\* What a processor has read and not handled is still due.
StillDue(p) ==
  /\ pc[p] = "sched_remove" => id[p] \in batch[p]
  /\ \A j \in batch[p] :
       scheduled[j] = "due" \/ (id[p] = j /\ pc[p] \in {"sched_update", "sched_push"})

\* The client calls Enqueue only.
EnqueuesOnly(c) == pc[c] \in {"idle", "enq_check", "enq_store", "enq_push", "enq_unique"}

\* The invariant for OnePlace, while RetryJob, RetryDLQJob and DeleteJob have
\* not been called.
Tidy ==
  /\ InOnePlace
  /\ \A p \in Processor : StillDue(p)
  /\ \A c \in Client : EnqueuesOnly(c)

\* A step that puts nothing anywhere.
LEMMA PlacesKept ==
  ASSUME InOnePlace, UNCHANGED <<queue, issued>>,
         \A j \in Job : scheduled'[j] = "no" <=> scheduled[j] = "no",
         \A q \in Proc : pc'[q] \notin OwnPC \/ (id'[q] = id[q] /\ pc[q] \in OwnPC)
  PROVE  InOnePlace'
<1>1. \A q \in Proc : \A j : Owns(q, j)' => Owns(q, j)
  BY DEF Owns
<1>2. \A j : (Owned(j)' => Owned(j)) /\ (Queued(j)' <=> Queued(j))
  BY <1>1 DEF Owned, Queued
<1>3. OneEntry' /\ OneOwner'
  BY <1>1 DEF InOnePlace, OneEntry, OneOwner
<1>4. Apart'
  BY <1>2 DEF InOnePlace, Apart
<1>5. QED BY <1>3, <1>4 DEF InOnePlace

\* The same, of a step of p.
LEMMA HandsKept ==
  ASSUME InOnePlace, NEW p \in Proc, OthersKeep(p), UNCHANGED <<queue, issued>>,
         \A j \in Job : scheduled'[j] = "no" <=> scheduled[j] = "no",
         pc'[p] \notin OwnPC \/ (id'[p] = id[p] /\ pc[p] \in OwnPC)
  PROVE  InOnePlace'
<1>1. \A q \in Proc : pc'[q] \notin OwnPC \/ (id'[q] = id[q] /\ pc[q] \in OwnPC)
  BY DEF OthersKeep
<1>2. QED BY <1>1, PlacesKept

\* A client or a worker leaves what the processors have read as it is.
LEMMA DueKept ==
  ASSUME TypeOK, InOnePlace, NEW p \in Client \cup Worker, OthersKeep(p), UNCHANGED batch,
         \/ UNCHANGED scheduled
         \/ \E j \in Job : Owns(p, j) /\ SetScheduled(j, "future"),
         NEW q \in Processor, StillDue(q)
  PROVE  StillDue(q)'
<1>1. q # p /\ q \in Proc /\ p \in Proc
  BY QueueAssumption DEF Proc
<1>2. pc'[q] = pc[q] /\ id'[q] = id[q] /\ batch'[q] = batch[q]
  BY <1>1 DEF OthersKeep
<1>3. ASSUME NEW k \in batch[q] PROVE scheduled'[k] = scheduled[k]
  <2>1. k \in Job
    BY DEF TypeOK
  <2>2. ASSUME NEW j \in Job, Owns(p, j), SetScheduled(j, "future") PROVE k # j
    <3>1. ~Owns(q, j) /\ scheduled[j] = "no"
      BY <1>1, <2>2 DEF InOnePlace, OneOwner, Apart, Owned
    <3>2. QED BY <3>1 DEF StillDue, Owns, OwnPC, CarryPC
  <2>3. QED BY <2>1, <2>2 DEF SetScheduled, TypeOK
<1>4. QED BY <1>2, <1>3 DEF StillDue

\* The other clients' part.
LEMMA ClientsKept ==
  ASSUME \A c \in Client : EnqueuesOnly(c), NEW p \in Proc, OthersKeep(p),
         p \in Client => EnqueuesOnly(p)'
  PROVE  \A c \in Client : EnqueuesOnly(c)'
<1>1. ASSUME NEW c \in Client, c # p PROVE EnqueuesOnly(c)'
  BY <1>1 DEF OthersKeep, EnqueuesOnly, Proc
<1>2. QED BY <1>1

\* A client or a worker goes on with what it has, or lets go of it.
LEMMA CallerTidy ==
  ASSUME TypeOK, Tidy, NEW p \in Client \cup Worker, OthersKeep(p),
         UNCHANGED <<queue, scheduled, batch, issued>>,
         pc'[p] \notin OwnPC \/ (id'[p] = id[p] /\ pc[p] \in OwnPC),
         p \in Client => EnqueuesOnly(p)'
  PROVE  Tidy'
<1>1. p \in Proc
  BY DEF Proc
<1>2. InOnePlace'
  BY <1>1, HandsKept DEF Tidy
<1>3. \A q \in Processor : StillDue(q)'
  BY DueKept DEF Tidy
<1>4. QED BY <1>1, <1>2, <1>3, ClientsKept DEF Tidy

\* The ends of a list: LPUSH and RPOP.
LEMMA ListEnds ==
  ASSUME NEW s \in Seq(Job), NEW e \in Job
  PROVE  /\ Append(s, e) \in Seq(Job) /\ Len(s) \in Nat /\ Len(Append(s, e)) = Len(s) + 1
         /\ Append(s, e)[Len(s) + 1] = e
         /\ \A i \in 1..Len(s) : Append(s, e)[i] = s[i]
         /\ s # <<>> =>
              /\ Len(s) # 0 /\ Len(Tail(s)) = Len(s) - 1 /\ Head(s) = s[1]
              /\ \A i \in 1..(Len(s) - 1) : Tail(s)[i] = s[i + 1]
BY SMT

\* LPUSH adds one entry, and moves none.
LEMMA PushEntries ==
  ASSUME TypeOK, NEW e \in Job, NEW r \in Record, Push(e, r)
  PROVE  \E q, n : \A p, i, j : Entry(queue', p, i, j) =>
           Entry(queue, p, i, j) \/ (p = q /\ i = n /\ j = e)
<1>1. PICK q \in Prio : q = r.prio /\ queue[q] \in Seq(Job)
  BY RecordFacts DEF TypeOK
<1>2. queue'[q] = Append(queue[q], e) /\ \A p \in Prio \ {q} : queue'[p] = queue[p]
  BY <1>1 DEF Push, TypeOK
<1>3. /\ Len(queue[q]) \in Nat /\ Len(queue'[q]) = Len(queue[q]) + 1
      /\ queue'[q][Len(queue[q]) + 1] = e
      /\ \A i \in 1..Len(queue[q]) : queue'[q][i] = queue[q][i]
  BY SMT, <1>1, <1>2, ListEnds
<1> DEFINE n == Len(queue[q]) + 1
<1>4. ASSUME NEW p, NEW i, NEW j, Entry(queue', p, i, j)
      PROVE  Entry(queue, p, i, j) \/ (p = q /\ i = n /\ j = e)
  <2>1. p \in Prio /\ i \in 1..Len(queue'[p]) /\ queue'[p][i] = j
    BY <1>4 DEF Entry
  <2> USE <2>1
  <2>2. CASE p = q
    <3>1. i = n \/ i \in 1..Len(queue[q])
      BY SMT, <1>3, <2>2
    <3>2. QED BY <1>3, <2>2, <3>1 DEF Entry
  <2>3. CASE p # q
    BY <1>2, <2>3 DEF Entry
  <2>4. QED BY <2>2, <2>3
<1> HIDE DEF n
<1>5. QED BY SMT, <1>4

\* RPOP takes the first entry of a list, and moves the others up.
LEMMA PopEntries ==
  ASSUME TypeOK, NEW q \in Prio, queue[q] # <<>>,
         queue' = [queue EXCEPT ![q] = Tail(queue[q])]
  PROVE  /\ Entry(queue, q, 1, Head(queue[q])) /\ Head(queue[q]) \in Job
         /\ \A p, i, j : Entry(queue', p, i, j) =>
              \/ p # q /\ Entry(queue, p, i, j)
              \/ p = q /\ i \in Nat \ {0} /\ Entry(queue, p, i + 1, j)
<1>1. queue[q] \in Seq(Job) /\ Head(queue[q]) \in Job
  BY PopKeeps DEF TypeOK
<1>2. queue'[q] = Tail(queue[q]) /\ \A p \in Prio \ {q} : queue'[p] = queue[p]
  BY DEF TypeOK
<1>3. /\ Len(queue[q]) \in Nat \ {0} /\ Len(Tail(queue[q])) = Len(queue[q]) - 1
      /\ Head(queue[q]) = queue[q][1]
      /\ \A i \in 1..(Len(queue[q]) - 1) : Tail(queue[q])[i] = queue[q][i + 1]
  BY <1>1, ListEnds
<1> USE <1>3
<1>4. 1 \in 1..Len(queue[q])
  BY SMT, <1>3
<1>5. ASSUME NEW p, NEW i, NEW j, Entry(queue', p, i, j)
      PROVE  \/ p # q /\ Entry(queue, p, i, j)
             \/ p = q /\ i \in Nat \ {0} /\ Entry(queue, p, i + 1, j)
  <2>1. p \in Prio /\ i \in 1..Len(queue'[p]) /\ queue'[p][i] = j
    BY <1>5 DEF Entry
  <2> USE <2>1
  <2>2. CASE p = q
    <3>1. i \in 1..(Len(queue[q]) - 1) /\ queue[q][i + 1] = j
      BY <1>2, <2>2
    <3>2. i \in Nat \ {0} /\ i + 1 \in 1..Len(queue[q])
      BY SMT, <3>1
    <3>3. QED BY <2>2, <3>1, <3>2 DEF Entry
  <2>3. CASE p # q
    BY <1>2, <2>3 DEF Entry
  <2>4. QED BY <2>2, <2>3
<1>6. QED BY <1>1, <1>4, <1>5 DEF Entry

\* A job is queued if one of the lists has it.
LEMMA QueuedEntry ==
  ASSUME NEW j
  PROVE  Queued(j) <=> \E p, i : Entry(queue, p, i, j)
BY DEF Queued, InList, Entry

\* A caller puts the job it has into a queue or into the scheduled set.
LEMMA HandsEmptied ==
  ASSUME TypeOK, InOnePlace, NEW p \in Proc, NEW j \in Job, Owns(p, j), OthersKeep(p),
         pc'[p] \notin OwnPC, UNCHANGED issued,
         \/ (\E r \in Record : Push(j, r)) /\ UNCHANGED scheduled
         \/ SetScheduled(j, "future") /\ UNCHANGED queue
  PROVE  InOnePlace'
<1>1. /\ \A q \in Proc : \A x \in Job : Owns(q, x)' => Owns(q, x)
      /\ \A q \in Proc : ~Owns(q, j)'
  BY DEF OthersKeep, Owns, InOnePlace, OneOwner
<1>2. OneOwner' /\ ~Owned(j)' /\ \A x \in Job : Owned(x)' => Owned(x)
  BY <1>1 DEF InOnePlace, OneOwner, Owned
<1> USE <1>2
<1>3. j \in issued /\ scheduled[j] = "no" /\ ~Queued(j)
  BY DEF InOnePlace, Apart, Owned
<1> USE <1>3
<1>4. CASE (\E r \in Record : Push(j, r)) /\ UNCHANGED scheduled
  <2>1. PICK l, n : \A q, i, x : Entry(queue', q, i, x) =>
                      Entry(queue, q, i, x) \/ (q = l /\ i = n /\ x = j)
    BY <1>4, PushEntries
  <2> USE <2>1
  <2>2. \A q, i : ~Entry(queue, q, i, j)
    BY QueuedEntry
  <2>3. ASSUME NEW q, NEW i, NEW m, NEW k, NEW x,
               Entry(queue', q, i, x), Entry(queue', m, k, x)
        PROVE  q = m /\ i = k
    <3>1. CASE x = j
      BY SMT, <2>2, <2>3, <3>1
    <3>2. CASE x # j
      BY <2>3, <3>2 DEF InOnePlace, OneEntry
    <3>3. QED BY <3>1, <3>2
  <2>4. ASSUME NEW x \in Job, Queued(x)' PROVE Queued(x) \/ x = j
    <3>1. PICK q, i : Entry(queue', q, i, x)
      BY <2>4 DEF Queued, InList, Entry
    <3>2. QED BY SMT, <3>1, QueuedEntry
  <2>5. Apart'
    BY <1>4, <2>4 DEF InOnePlace, Apart
  <2>6. QED BY <2>3, <2>5 DEF InOnePlace, OneEntry
<1>5. CASE SetScheduled(j, "future") /\ UNCHANGED queue
  <2>1. \A x \in Job : x # j => scheduled'[x] = scheduled[x]
    BY <1>5 DEF SetScheduled, TypeOK
  <2>2. OneEntry' /\ \A x : Queued(x)' <=> Queued(x)
    BY <1>5 DEF InOnePlace, OneEntry, Queued
  <2>3. Apart'
    BY <2>1, <2>2 DEF InOnePlace, Apart
  <2>4. QED BY <2>2, <2>3 DEF InOnePlace
<1>6. QED BY <1>4, <1>5

\* A client or a worker puts the job it has into a place.
LEMMA PutTidy ==
  ASSUME TypeOK, Tidy, NEW p \in Client \cup Worker, NEW j \in Job, Owns(p, j), OthersKeep(p),
         pc'[p] \notin OwnPC, UNCHANGED <<issued, batch>>,
         \/ (\E r \in Record : Push(j, r)) /\ UNCHANGED scheduled
         \/ SetScheduled(j, "future") /\ UNCHANGED queue,
         p \in Client => EnqueuesOnly(p)'
  PROVE  Tidy'
<1>1. p \in Proc
  BY DEF Proc
<1>2. InOnePlace'
  BY <1>1, HandsEmptied DEF Tidy
<1>3. \A q \in Processor : StillDue(q)'
  BY DueKept DEF Tidy
<1>4. QED BY <1>1, <1>2, <1>3, ClientsKept DEF Tidy

\* A caller that has nothing takes a job that no place has any more.
LEMMA HandsFilled ==
  ASSUME InOnePlace, NEW p \in Proc, NEW j \in Job, OthersKeep(p), pc[p] \notin OwnPC,
         id'[p] = j, issued \subseteq issued', issued' \subseteq issued \cup {j}, j \in issued',
         OneEntry', \A x \in Job : Queued(x)' => Queued(x) /\ x # j,
         \A x \in Job \ {j} : scheduled'[x] = scheduled[x], scheduled'[j] = "no", ~Owned(j)
  PROVE  InOnePlace'
<1>1. \A q \in Proc : \A x \in Job : Owns(q, x)' => Owns(q, x) \/ (q = p /\ x = j)
  BY DEF OthersKeep, Owns
<1> USE <1>1
<1>2. OneOwner'
  <2> SUFFICES ASSUME NEW x \in Job, NEW q \in Proc, NEW m \in Proc, Owns(q, x)', Owns(m, x)'
               PROVE  q = m
    BY DEF OneOwner
  <2>1. CASE x = j
    BY <2>1 DEF Owned
  <2>2. CASE x # j
    BY <2>2 DEF InOnePlace, OneOwner
  <2>3. QED BY <2>1, <2>2
<1>3. \A x \in Job : Owned(x)' => Owned(x) \/ x = j
  BY DEF Owned
<1>4. Apart'
  BY <1>3 DEF InOnePlace, Apart
<1>5. QED BY <1>2, <1>4 DEF InOnePlace

\* jobService.Enqueue makes up a new job.
LEMMA SubmitTidy ==
  ASSUME TypeOK, LocalOK, Tidy, NEW c \in Client, NEW j \in Job, NEW s, EnqueueCall(c, j, s)
  PROVE  Tidy'
<1>1. c \in Proc /\ OthersKeep(c) /\ pc[c] = "idle" /\ pc'[c] = "enq_check" /\ id'[c] = j
  BY DEF EnqueueCall, Goto, Keep, LocalOK, Proc, OthersKeep
<1> USE <1>1
<1>2. j \notin issued /\ issued' = issued \cup {j} /\ UNCHANGED <<queue, scheduled, batch>>
  BY DEF EnqueueCall, redis
<1> USE <1>2
<1>3. ~Owned(j) /\ ~Queued(j) /\ scheduled[j] = "no"
  BY DEF Tidy, InOnePlace, Apart
<1>4. OneEntry' /\ \A x \in Job : Queued(x)' => Queued(x) /\ x # j
  BY <1>3 DEF Tidy, InOnePlace, OneEntry, Queued
<1>5. pc[c] \notin OwnPC
  BY DEF OwnPC, CarryPC
<1>6. InOnePlace'
  BY <1>3, <1>4, <1>5, HandsFilled DEF Tidy
<1>7. \A q \in Processor : StillDue(q)'
  BY DueKept DEF Tidy
<1>8. EnqueuesOnly(c)'
  BY DEF EnqueuesOnly
<1>9. QED BY <1>6, <1>7, <1>8, ClientsKept DEF Tidy

\* Dequeue takes the first ID of a list.
LEMMA PopTidy ==
  ASSUME TypeOK, LocalOK, Tidy, NEW w \in Worker, DequeuePop(w)
  PROVE  Tidy'
<1>1. /\ w \in Proc /\ w \notin Client /\ OthersKeep(w) /\ pc[w] = "idle" /\ scan[w] \in Prio
      /\ UNCHANGED <<scheduled, batch, issued>>
  <2>1. w \in Proc /\ w \notin Client
    BY QueueAssumption DEF Proc
  <2>2. OthersKeep(w)
    BY <2>1 DEF DequeuePop, Goto, Keep, LocalOK, OthersKeep
  <2>3. QED BY <2>1, <2>2 DEF DequeuePop, TypeOK, ghost
<1> USE <1>1
<1>2. pc[w] \notin OwnPC
  BY DEF OwnPC, CarryPC
<1>3. CASE queue[scan[w]] = <<>>
  <2>1. UNCHANGED <<queue, pc, id>>
    BY <1>3 DEF DequeuePop
  <2>2. QED BY <1>2, <2>1, CallerTidy
<1>4. CASE queue[scan[w]] # <<>>
  <2> PICK q \in Prio : q = scan[w]
    OBVIOUS
  <2>1. PICK j : q = scan[w] /\ j = Head(queue[q])
    OBVIOUS
  <2>2. queue[q] # <<>> /\ queue' = [queue EXCEPT ![q] = Tail(queue[q])] /\ id'[w] = j
    BY <1>4, <2>1 DEF DequeuePop, Keep, LocalOK
  <2>3. /\ Entry(queue, q, 1, j) /\ j \in Job
        /\ \A p, i, x : Entry(queue', p, i, x) =>
             \/ p # q /\ Entry(queue, p, i, x)
             \/ p = q /\ i \in Nat \ {0} /\ Entry(queue, p, i + 1, x)
    <3>1. /\ Entry(queue, q, 1, Head(queue[q])) /\ Head(queue[q]) \in Job
          /\ \A p, i, x : Entry(queue', p, i, x) =>
               \/ p # q /\ Entry(queue, p, i, x)
               \/ p = q /\ i \in Nat \ {0} /\ Entry(queue, p, i + 1, x)
      BY <2>2, PopEntries
    <3>2. QED BY <2>1, <3>1
  <2> USE <2>3
  <2>4. OneEntry'
    <3> SUFFICES ASSUME NEW p, NEW i, NEW m, NEW k, NEW x,
                        Entry(queue', p, i, x), Entry(queue', m, k, x)
                 PROVE  p = m /\ i = k
      BY DEF OneEntry
    <3>1. CASE p # q /\ m # q
      BY <3>1 DEF Tidy, InOnePlace, OneEntry
    <3>2. CASE p = q \/ m = q
      <4>1. p = q /\ m = q
        <5>1. \E h : Entry(queue, p, h, x)
          OBVIOUS
        <5>2. \E h : Entry(queue, m, h, x)
          OBVIOUS
        <5>3. p = m
          BY <5>1, <5>2 DEF Tidy, InOnePlace, OneEntry
        <5>4. QED BY <3>2, <5>3
      <4>2. /\ i \in Nat /\ k \in Nat
            /\ Entry(queue, q, i + 1, x) /\ Entry(queue, q, k + 1, x)
        BY <4>1
      <4>3. i + 1 = k + 1
        BY <4>2 DEF Tidy, InOnePlace, OneEntry
      <4>4. QED BY SMT, <4>1, <4>2, <4>3
    <3>3. QED BY <3>1, <3>2
  <2>5. ASSUME NEW x \in Job, Queued(x)' PROVE Queued(x) /\ x # j
    <3>1. PICK p, i : Entry(queue', p, i, x)
      BY <2>5 DEF Queued, InList, Entry
    <3>2. PICK k : Entry(queue, p, k, x) /\ ~(p = q /\ k = 1)
      <4>1. CASE p # q
        BY <3>1, <4>1
      <4>2. CASE p = q
        <5>1. i \in Nat \ {0} /\ Entry(queue, p, i + 1, x)
          BY <3>1, <4>2
        <5>2. i + 1 # 1
          BY SMT, <5>1
        <5>3. QED BY <5>1, <5>2
      <4>3. QED BY <4>1, <4>2
    <3> USE <3>2
    <3>3. Queued(x)
      BY QueuedEntry
    <3>4. x = j => p = q /\ k = 1
      BY SMT, <3>2 DEF Tidy, InOnePlace, OneEntry
    <3>5. QED BY <3>3, <3>4
  <2>6. scheduled[j] = "no" /\ ~Owned(j) /\ j \in issued
    BY QueuedEntry DEF Tidy, InOnePlace, Apart
  <2>7. InOnePlace'
    BY <1>2, <2>2, <2>4, <2>5, <2>6, HandsFilled DEF Tidy
  <2>8. \A p \in Processor : StillDue(p)'
    BY DueKept DEF Tidy
  <2>9. QED BY <2>7, <2>8, ClientsKept DEF Tidy
<1>5. QED BY <1>3, <1>4

\* The steps of a client, RetryJob, RetryDLQJob and DeleteJob aside.
LEMMA ClientTidy ==
  ASSUME TypeOK, LocalOK, Tidy, NEW c \in Client, ClientStep(c) \/ DeleteFails(c)
  PROVE  Tidy' \/ calls' = calls + 1
<1>1. c \in Proc /\ OthersKeep(c) /\ EnqueuesOnly(c)
  BY OwnMoves DEF Proc, Tidy
<1> USE <1>1
<1>2. ASSUME NEW j \in Job, NEW s \in Submission, EnqueueCall(c, j, s) PROVE Tidy'
  BY <1>2, SubmitTidy
<1>3. CASE EnqueueCheck(c)
  <2>1. /\ UNCHANGED <<queue, scheduled, batch, issued>> /\ pc[c] = "enq_check"
        /\ pc'[c] = "idle" \/ (pc'[c] = "enq_store" /\ id'[c] = id[c])
    BY <1>3 DEF EnqueueCheck, Return, Goto, redis, ghost, LocalOK
  <2>2. EnqueuesOnly(c)' /\ (pc'[c] \notin OwnPC \/ (id'[c] = id[c] /\ pc[c] \in OwnPC))
    BY <2>1 DEF EnqueuesOnly, OwnPC, CarryPC
  <2>3. QED BY <2>1, <2>2, CallerTidy
<1>4. CASE EnqueueStore(c)
  <2>1. /\ UNCHANGED <<queue, scheduled, batch, issued>> /\ pc[c] = "enq_store"
        /\ pc'[c] = "enq_push" /\ id'[c] = id[c]
    BY <1>4 DEF EnqueueStore, Goto, ghost, LocalOK
  <2>2. EnqueuesOnly(c)' /\ pc[c] \in OwnPC
    BY <2>1 DEF EnqueuesOnly, OwnPC
  <2>3. QED BY <2>1, <2>2, CallerTidy
<1>5. CASE EnqueuePush(c)
  <2>1. /\ pc[c] = "enq_push" /\ UNCHANGED <<issued, batch>>
        /\ pc'[c] = "enq_unique" \/ pc'[c] = "idle"
    BY <1>5 DEF EnqueuePush, Return, Goto, ghost, LocalOK
  <2> USE <2>1
  <2>2. id[c] \in Job /\ loc[c] \in Record /\ Owns(c, id[c])
    BY DEF LocalOK, HoldsAt, Owns, OwnPC, CarryPC
  <2>3. \/ (\E r \in Record : Push(id[c], r)) /\ UNCHANGED scheduled
        \/ SetScheduled(id[c], "future") /\ UNCHANGED queue
    BY <1>5, <2>2 DEF EnqueuePush
  <2>4. EnqueuesOnly(c)' /\ pc'[c] \notin OwnPC
    BY DEF EnqueuesOnly, OwnPC, CarryPC
  <2>5. QED BY <2>2, <2>3, <2>4, PutTidy
<1>6. CASE EnqueueUnique(c)
  <2>1. UNCHANGED <<queue, scheduled, batch, issued>> /\ pc'[c] = "idle"
    BY <1>6 DEF EnqueueUnique, Return, Goto, ghost, LocalOK
  <2>2. EnqueuesOnly(c)' /\ pc'[c] \notin OwnPC
    BY <2>1 DEF EnqueuesOnly, OwnPC, CarryPC
  <2>3. QED BY <2>1, <2>2, CallerTidy
<1>7. ASSUME NEW j \in Job, RetryJob(c, j) \/ RetryDLQGet(c, j) \/ DeleteCall(c, j)
      PROVE  calls' = calls + 1
  BY <1>7 DEF RetryJob, RetryDLQGet, DeleteCall
<1>8. ~\E j \in Job : RetryDLQRemove(c, j)
  BY DEF RetryDLQRemove, EnqueuesOnly
<1>9. /\ ~DeleteRecord(c) /\ ~DeleteQueued(c) /\ ~DeleteScheduled(c) /\ ~DeleteDead(c)
      /\ ~DropUnique(c) /\ ~DeleteFails(c)
  BY DEF DeleteRecord, DeleteQueued, DeleteScheduled, DeleteDead, DropUnique,
     DeleteFails, EnqueuesOnly
<1>10. QED BY <1>2, <1>3, <1>4, <1>5, <1>6, <1>7, <1>8, <1>9 DEF ClientStep

\* The steps of a worker.
LEMMA WorkerTidy ==
  ASSUME TypeOK, LocalOK, Tidy, NEW w \in Worker, WorkerStep(w) \/ DequeueSkips(w)
  PROVE  Tidy'
<1>1. w \in Proc /\ OthersKeep(w) /\ w \notin Client
  BY OwnMoves, QueueAssumption DEF Proc
<1> USE <1>1
<1>2. CASE DequeuePop(w)
  BY <1>2, PopTidy
<1>3. CASE \/ DequeueUpdate(w) \/ CompleteGet(w) \/ CompleteUpdate(w) \/ FailGet(w)
           \/ FailUpdate(w) \/ FailDLQ(w) \/ RequeueUpdate(w)
  <2> USE <1>3
  <2>1. UNCHANGED <<queue, scheduled, batch, issued>>
    BY DEF DequeueUpdate, CompleteGet, CompleteUpdate, FailGet, FailUpdate, FailDLQ,
       RequeueUpdate, redis, ghost
  <2>2. pc[w] \in {"deq_update", "got", "complete_update", "fail_update", "fail_dlq"}
    BY DEF DequeueUpdate, CompleteGet, CompleteUpdate, FailGet, FailUpdate, FailDLQ,
       RequeueUpdate
  <2>3. id'[w] = id[w]
    BY DEF DequeueUpdate, CompleteGet, CompleteUpdate, FailGet, FailUpdate,
       FailDLQ, RequeueUpdate, Keep, LocalOK
  <2>4. pc[w] \in OwnPC
    BY <2>2 DEF OwnPC, CarryPC
  <2>5. QED BY <2>1, <2>3, <2>4, CallerTidy
<1>4. CASE DequeueGet(w)
  <2>1. UNCHANGED <<queue, scheduled, batch, issued>> /\ pc[w] = "deq_get"
    BY <1>4 DEF DequeueGet, redis, ghost
  <2>2. pc'[w] = "idle" \/ id'[w] = id[w]
    BY <1>4 DEF DequeueGet, Keep, Return, Goto, LocalOK
  <2>3. pc[w] \in OwnPC /\ "idle" \notin OwnPC
    BY <2>1 DEF OwnPC, CarryPC
  <2>4. QED BY <2>1, <2>2, <2>3, CallerTidy
<1>5. CASE DropUnique(w) \/ WorkerReturn(w) \/ DequeueSkips(w)
  <2>1. UNCHANGED <<queue, scheduled, batch, issued>>
    BY <1>5 DEF DropUnique, WorkerReturn, DequeueSkips, redis, ghost
  <2>2. pc'[w] = "ret" \/ pc'[w] = "idle"
    BY <1>5 DEF DropUnique, WorkerReturn, DequeueSkips, Return, Goto, LocalOK
  <2>3. pc'[w] \notin OwnPC
    BY <2>2 DEF OwnPC, CarryPC
  <2>4. QED BY <2>1, <2>3, CallerTidy
<1>6. CASE FailSchedule(w) \/ RequeuePush(w)
  <2>1. /\ pc[w] \in {"fail_schedule", "requeue_push"} /\ pc'[w] = "ret"
        /\ UNCHANGED <<issued, batch>>
    BY <1>6 DEF FailSchedule, RequeuePush, Goto, ghost, LocalOK
  <2> USE <2>1
  <2>2. id[w] \in Job /\ loc[w] \in Record /\ Owns(w, id[w])
    BY DEF LocalOK, HoldsAt, Owns, OwnPC, CarryPC
  <2>3. \/ (\E r \in Record : Push(id[w], r)) /\ UNCHANGED scheduled
        \/ SetScheduled(id[w], "future") /\ UNCHANGED queue
    BY <1>6, <2>2 DEF FailSchedule, RequeuePush
  <2>4. pc'[w] \notin OwnPC
    BY DEF OwnPC, CarryPC
  <2>5. QED BY <2>2, <2>3, <2>4, PutTidy
<1>7. QED BY <1>2, <1>3, <1>4, <1>5, <1>6 DEF WorkerStep, DequeueStep, OutcomeStep

\* A step of a processor, when there is only one.
LEMMA OneProcessorTidy ==
  ASSUME Tidy, NEW p \in Processor, \A q \in Processor : q = p, OthersKeep(p),
         InOnePlace', StillDue(p)'
  PROVE  Tidy'
<1>1. p \in Proc /\ p \notin Client
  BY QueueAssumption DEF Proc
<1>2. \A c \in Client : EnqueuesOnly(c)'
  BY <1>1, ClientsKept DEF Tidy
<1>3. QED BY <1>2 DEF Tidy

\* A processor takes the due ID out of the scheduled set.
LEMMA UnscheduleTidy ==
  ASSUME TypeOK, LocalOK, Tidy, NEW p \in Processor, \A q \in Processor : q = p,
         ScheduledRemove(p)
  PROVE  Tidy'
<1>1. /\ p \in Proc /\ OthersKeep(p) /\ pc[p] = "sched_remove" /\ pc'[p] = "sched_update"
      /\ id'[p] = id[p] /\ UNCHANGED <<queue, batch, issued>> /\ SetScheduled(id[p], "no")
  <2>1. p \in Proc /\ OthersKeep(p)
    BY OwnMoves DEF Proc, ProcessorStep
  <2>2. QED BY <2>1 DEF ScheduledRemove, Goto, ghost, LocalOK
<1> USE <1>1
<1>2. PICK j \in Job : j = id[p] /\ j \in batch[p] /\ scheduled[j] = "due"
  BY DEF Tidy, StillDue, TypeOK
<1> USE <1>2
<1>3. scheduled'[j] = "no" /\ \A x \in Job \ {j} : scheduled'[x] = scheduled[x]
  BY DEF SetScheduled, TypeOK
<1>4. j \in issued /\ ~Owned(j) /\ ~Queued(j)
  BY DEF Tidy, InOnePlace, Apart
<1>5. OneEntry' /\ \A x \in Job : Queued(x)' => Queued(x) /\ x # j
  BY <1>4 DEF Tidy, InOnePlace, OneEntry, Queued
<1>6. pc[p] \notin OwnPC
  BY DEF OwnPC, CarryPC
<1>7. InOnePlace'
  BY <1>3, <1>4, <1>5, <1>6, HandsFilled DEF Tidy
<1>8. StillDue(p)'
  <2>1. \A x \in batch[p] : x \in Job /\ scheduled[x] = "due"
    BY DEF Tidy, StillDue, TypeOK
  <2>2. QED BY <1>3, <2>1 DEF StillDue
<1>9. QED BY <1>7, <1>8, OneProcessorTidy

\* The other steps of a processor.
LEMMA ProcessorTidy ==
  ASSUME TypeOK, LocalOK, Tidy, NEW p \in Processor, \A q \in Processor : q = p,
         ProcessorStep(p) \/ \E j \in Job : ScheduledSkips(p, j)
  PROVE  Tidy'
<1>1. p \in Proc /\ OthersKeep(p) /\ StillDue(p) /\ InOnePlace
  BY OwnMoves DEF Proc, Tidy
<1> USE <1>1
<1>2. batch \in [Processor -> SUBSET Job]
  BY DEF TypeOK
<1> USE <1>2
<1>3. CASE ScheduledScan(p)
  <2>1. /\ pc'[p] = "sched_get" /\ batch'[p] = {j \in Job : scheduled[j] = "due"}
        /\ UNCHANGED <<queue, scheduled, issued>>
    BY <1>3 DEF ScheduledScan, Goto, redis, ghost, LocalOK
  <2> USE <2>1
  <2>2. pc'[p] \notin OwnPC
    BY DEF OwnPC, CarryPC
  <2>3. StillDue(p)'
    BY DEF StillDue
  <2>4. InOnePlace'
    BY <2>2, HandsKept
  <2>5. QED BY <2>3, <2>4, OneProcessorTidy
<1>4. ASSUME NEW j \in Job, \/ ScheduledGet(p, j) /\ ~Exists(j)
                            \/ ScheduledSkips(p, j)
      PROVE  Tidy'
  <2>1. /\ UNCHANGED <<queue, scheduled, issued>> /\ Advance(p, j)
        /\ pc[p] \in {"sched_get", "sched_remove"} \/ j = id[p]
    BY <1>4 DEF ScheduledGet, ScheduledSkips, redis, ghost
  <2> USE <2>1
  <2>2. batch'[p] = batch[p] \ {j} /\ pc'[p] \in {"idle", "sched_get"}
    BY DEF Advance, Goto, LocalOK
  <2>3. pc'[p] \notin OwnPC /\ pc'[p] # "sched_remove"
    BY <2>2 DEF OwnPC, CarryPC
  <2>4. \A k \in batch'[p] : scheduled[k] = "due"
    BY <2>2 DEF StillDue
  <2>5. StillDue(p)'
    BY <2>3, <2>4 DEF StillDue
  <2>6. InOnePlace'
    BY <2>3, HandsKept
  <2>7. QED BY <2>5, <2>6, OneProcessorTidy
<1>5. ASSUME NEW j \in Job, ScheduledGet(p, j), Exists(j) PROVE Tidy'
  <2>1. /\ UNCHANGED <<queue, scheduled, issued, batch>> /\ pc[p] = "sched_get"
        /\ j \in batch[p] /\ id'[p] = j /\ pc'[p] = "sched_remove"
    BY <1>5 DEF ScheduledGet, Keep, Goto, redis, ghost, LocalOK
  <2> USE <2>1
  <2>2. pc'[p] \notin OwnPC
    BY DEF OwnPC, CarryPC
  <2>3. StillDue(p)'
    BY DEF StillDue
  <2>4. InOnePlace'
    BY <2>2, HandsKept
  <2>5. QED BY <2>3, <2>4, OneProcessorTidy
<1>6. CASE ScheduledUpdate(p)
  <2>1. /\ UNCHANGED <<queue, scheduled, issued, batch>> /\ pc[p] = "sched_update"
        /\ id'[p] = id[p] /\ pc'[p] = "sched_push"
    BY <1>6 DEF ScheduledUpdate, Goto, ghost, LocalOK
  <2> USE <2>1
  <2>2. pc[p] \in OwnPC
    BY DEF OwnPC, CarryPC
  <2>3. StillDue(p)'
    BY DEF StillDue
  <2>4. InOnePlace'
    BY <2>2, HandsKept
  <2>5. QED BY <2>3, <2>4, OneProcessorTidy
<1>7. CASE ScheduledPush(p)
  <2>1. /\ UNCHANGED <<scheduled, issued>> /\ Advance(p, id[p]) /\ pc[p] = "sched_push"
        /\ Push(id[p], loc[p])
    BY <1>7 DEF ScheduledPush, ghost
  <2> USE <2>1
  <2>2. batch'[p] = batch[p] \ {id[p]} /\ pc'[p] \in {"idle", "sched_get"}
    BY DEF Advance, Goto, LocalOK
  <2>3. pc'[p] \notin OwnPC /\ pc'[p] # "sched_remove"
    BY <2>2 DEF OwnPC, CarryPC
  <2>4. \A k \in batch'[p] : scheduled[k] = "due"
    BY <2>2 DEF StillDue
  <2>5. StillDue(p)'
    BY <2>3, <2>4 DEF StillDue
  <2>6. id[p] \in Job /\ loc[p] \in Record /\ Owns(p, id[p])
    BY DEF LocalOK, HoldsAt, Owns, OwnPC, CarryPC
  <2>7. InOnePlace'
    BY <2>3, <2>6, HandsEmptied
  <2>8. QED BY <2>5, <2>7, OneProcessorTidy
<1>8. QED BY <1>3, <1>4, <1>5, <1>6, <1>7, UnscheduleTidy DEF ProcessorStep

\* The steps of no caller.
LEMMA TimeTidy ==
  ASSUME TypeOK, Tidy, UNCHANGED <<queue, pc, id, batch, issued>>,
         UNCHANGED scheduled \/ \E j \in Job : BecomeDue(j)
  PROVE  Tidy'
<1>1. \A j \in Job : /\ scheduled'[j] = "no" <=> scheduled[j] = "no"
                     /\ scheduled[j] = "due" => scheduled'[j] = "due"
  BY DEF BecomeDue, SetScheduled, TypeOK
<1>2. InOnePlace'
  BY <1>1, PlacesKept DEF Tidy
<1>3. ASSUME NEW p \in Processor PROVE StillDue(p)'
  BY <1>1 DEF Tidy, StillDue, TypeOK
<1>4. QED BY <1>2, <1>3 DEF Tidy, EnqueuesOnly

\* A caller gives up.
LEMMA AbortTidy ==
  ASSUME TypeOK, LocalOK, Tidy, \A p, q \in Processor : p = q, NEW p \in Proc, Abort(p)
  PROVE  Tidy'
<1>1. /\ OthersKeep(p) /\ pc'[p] = "idle" /\ UNCHANGED <<queue, scheduled, issued>>
      /\ batch' = IF p \in Processor THEN [batch EXCEPT ![p] = {}] ELSE batch
  <2>1. OthersKeep(p)
    BY OwnMoves
  <2>2. QED BY <2>1 DEF Abort, Return, Goto, redis, LocalOK
<1> USE <1>1
<1>2. pc'[p] \notin OwnPC /\ EnqueuesOnly(p)'
  BY DEF OwnPC, CarryPC, EnqueuesOnly
<1>3. CASE p \notin Processor
  BY <1>2, <1>3, CallerTidy DEF Proc
<1>4. CASE p \in Processor
  <2>1. StillDue(p)'
    BY <1>4 DEF StillDue, TypeOK
  <2>2. InOnePlace'
    BY <1>2, HandsKept DEF Tidy
  <2>3. QED BY <1>4, <2>1, <2>2, OneProcessorTidy
<1>5. QED BY <1>3, <1>4

\* Every step.
LEMMA TidyStep ==
  ASSUME TypeOK, LocalOK, Tidy, \A p, q \in Processor : p = q, Next
  PROVE  Tidy' \/ calls' = calls + 1
<1>1. ASSUME NEW p \in Processor, ProcessorStep(p) \/ \E j \in Job : ScheduledSkips(p, j)
      PROVE  Tidy'
  BY <1>1, ProcessorTidy
<1>2. ASSUME NEW j \in Job, BecomeDue(j) \/ ExpireRecord(j) PROVE Tidy'
  <2>1. UNCHANGED <<queue, pc, id, batch, issued>> /\ (UNCHANGED scheduled \/ BecomeDue(j))
    BY <1>2 DEF BecomeDue, ExpireRecord, local, ghost
  <2>2. QED BY <2>1, TimeTidy
<1>3. ASSUME NEW k \in Key, ExpireUnique(k) PROVE Tidy'
  <2>1. UNCHANGED <<queue, pc, id, batch, issued, scheduled>>
    BY <1>3 DEF ExpireUnique, local
  <2>2. QED BY <2>1, TimeTidy
<1>4. QED BY <1>1, <1>2, <1>3, ClientTidy, WorkerTidy, AbortTidy DEF Next

\* At the start no job is anywhere.
LEMMA TidyStarts ==
  ASSUME Init
  PROVE  Tidy
<1>1. /\ \A p \in Proc : pc[p] = "idle" /\ EnqueuesOnly(p)
      /\ \A p \in Processor : batch[p] = {}
      /\ \A j \in Job : scheduled[j] = "no"
      /\ \A p \in Prio : queue[p] = <<>>
  BY DEF Init, EnqueuesOnly
<1> USE <1>1
<1>2. ASSUME NEW p, NEW i, NEW j PROVE ~Entry(queue, p, i, j)
  <2>1. i \notin 1..Len(<<>>)
    BY SMT
  <2>2. QED BY <2>1 DEF Entry
<1>3. \A j : ~Queued(j)
  BY <1>2, QueuedEntry
<1>4. \A p \in Proc : \A j : ~Owns(p, j)
  BY DEF Owns, OwnPC, CarryPC
<1>5. InOnePlace
  BY <1>2, <1>3, <1>4 DEF InOnePlace, OneEntry, OneOwner, Apart, Owned
<1>6. \A p \in Processor : StillDue(p)
  BY DEF StillDue, Proc
<1>7. QED BY <1>5, <1>6 DEF Tidy, Proc

\* A set of things that are all the same has one of them at most.
LEMMA OneAtMost ==
  ASSUME NEW S, \A x, y \in S : x = y
  PROVE  IsFiniteSet(S) /\ Cardinality(S) \in {0, 1} /\ (S = {} => Cardinality(S) = 0)
<1>1. CASE S = {}
  BY <1>1, FS_EmptySet
<1>2. ASSUME NEW x \in S PROVE IsFiniteSet(S) /\ Cardinality(S) = 1 /\ S # {}
  <2>1. S = {x}
    OBVIOUS
  <2>2. QED BY <2>1, FS_Singleton
<1>3. QED BY <1>1, <1>2

\* The places of a job are one at most.
LEMMA PlacesOne ==
  ASSUME TypeOK, InOnePlace, NEW j \in Job
  PROVE  Places(j) <= 1
<1> DEFINE entries(p) == {i \in DOMAIN queue[p] : queue[p][i] = j}
           E == UNION {{p} \X entries(p) : p \in Prio}
           C == {p \in Proc : id[p] = j /\ pc[p] \in CarryPC}
<1>1. \A p \in Prio : DOMAIN queue[p] = 1..Len(queue[p])
  BY SMT DEF TypeOK
<1>2. ASSUME NEW x \in E PROVE \E p, i : x = <<p, i>> /\ Entry(queue, p, i, j)
  <2>1. PICK p \in Prio : x \in {p} \X entries(p)
    OBVIOUS
  <2>2. PICK i \in entries(p) : x = <<p, i>>
    BY SMT, <2>1
  <2>3. i \in 1..Len(queue[p]) /\ queue[p][i] = j
    BY <1>1, <2>2
  <2>4. QED BY <2>2, <2>3 DEF Entry
<1>3. \A x, y \in E : x = y
  BY <1>2 DEF InOnePlace, OneEntry
<1>4. \A x \in C : x \in Proc /\ Owns(x, j)
  BY DEF Owns, OwnPC
<1>5. \A x, y \in C : x = y
  BY <1>4 DEF InOnePlace, OneOwner
<1>6. E # {} => Queued(j)
  BY <1>2, QueuedEntry
<1>7. C # {} => Owned(j)
  BY <1>4 DEF Owned
<1>8. Places(j) = Cardinality(E) + Cardinality(C) + (IF scheduled[j] = "no" THEN 0 ELSE 1)
  BY DEF Places
<1>9. /\ E # {} => C = {} /\ scheduled[j] = "no"
      /\ C # {} => scheduled[j] = "no"
  BY <1>6, <1>7 DEF InOnePlace, Apart
<1> HIDE DEF E, C
<1>10. /\ Cardinality(E) \in {0, 1} /\ (E = {} => Cardinality(E) = 0)
       /\ Cardinality(C) \in {0, 1} /\ (C = {} => Cardinality(C) = 0)
  BY <1>3, <1>5, OneAtMost
<1>11. QED BY SMT, <1>8, <1>9, <1>10

\* The count of RetryJob, RetryDLQJob and DeleteJob calls goes up only.
LEMMA CallsStep ==
  ASSUME Next
  PROVE  calls' = calls \/ calls' = calls + 1
<1> USE DEF redis, local, ghost
<1>1. ASSUME NEW c \in Client, ClientStep(c) \/ DeleteFails(c)
      PROVE  calls' = calls \/ calls' = calls + 1
  <2>1. ASSUME NEW j \in Job, NEW s \in Submission, EnqueueCall(c, j, s) PROVE calls' = calls
    BY <2>1 DEF EnqueueCall
  <2>2. ASSUME NEW j \in Job, RetryJob(c, j) \/ RetryDLQGet(c, j) \/ DeleteCall(c, j)
        PROVE  calls' = calls + 1
    BY <2>2 DEF RetryJob, RetryDLQGet, DeleteCall
  <2>3. ASSUME NEW j \in Job, RetryDLQRemove(c, j) PROVE calls' = calls
    BY <2>3 DEF RetryDLQRemove
  <2>4. CASE EnqueueCheck(c) \/ EnqueueStore(c) \/ EnqueuePush(c) \/ EnqueueUnique(c)
    BY <2>4 DEF EnqueueCheck, EnqueueStore, EnqueuePush, EnqueueUnique
  <2>5. CASE \/ DeleteRecord(c) \/ DeleteQueued(c) \/ DeleteScheduled(c) \/ DeleteDead(c)
             \/ DropUnique(c) \/ DeleteFails(c)
    BY <2>5 DEF DeleteRecord, DeleteQueued, DeleteScheduled, DeleteDead, DropUnique,
       DeleteFails
  <2>6. QED BY <1>1, <2>1, <2>2, <2>3, <2>4, <2>5 DEF ClientStep
<1>2. ASSUME NEW w \in Worker, WorkerStep(w) \/ DequeueSkips(w) PROVE calls' = calls
  BY <1>2 DEF WorkerStep, DequeueStep, OutcomeStep, DequeuePop, DequeueGet, DequeueUpdate,
     CompleteUpdate, FailUpdate, FailSchedule, FailDLQ, DropUnique, RequeuePush, CompleteGet,
     FailGet, RequeueUpdate, WorkerReturn, DequeueSkips
<1>3. ASSUME NEW p \in Processor, ProcessorStep(p) \/ \E j \in Job : ScheduledSkips(p, j)
      PROVE  calls' = calls
  BY <1>3 DEF ProcessorStep, ScheduledScan, ScheduledGet, ScheduledRemove,
     ScheduledUpdate, ScheduledPush, ScheduledSkips
<1>4. ASSUME NEW j \in Job, BecomeDue(j) \/ ExpireRecord(j) PROVE calls' = calls
  BY <1>4 DEF BecomeDue, ExpireRecord
<1>5. ASSUME NEW k \in Key, ExpireUnique(k) PROVE calls' = calls
  BY <1>5 DEF ExpireUnique
<1>6. ASSUME NEW p \in Proc, Abort(p) PROVE calls' = calls
  BY <1>6 DEF Abort
<1>7. QED BY <1>1, <1>2, <1>3, <1>4, <1>5, <1>6 DEF Next

\* With one processor, and as long as nobody calls RetryJob, RetryDLQJob or
\* DeleteJob, a job is never in two places: Dequeue, Fail, requeueJob and
\* ProcessScheduled move it.  For any number of clients, workers, jobs and
\* priorities, also when calls are cut short and keys expire.
THEOREM JobsInOnePlace ==
  ASSUME \A p, q \in Processor : p = q
  PROVE  Spec => []OnePlace
<1> DEFINE Inv == TypeOK /\ LocalOK /\ (calls = 0 => Tidy)
<1>1. Init => Inv
  BY InitTyped, TidyStarts
<1>2. Inv /\ [Next]_vars => Inv'
  <2> SUFFICES ASSUME Inv, [Next]_vars PROVE Inv'
    OBVIOUS
  <2>1. CASE Next
    <3> USE <2>1
    <3>1. TypeOK' /\ LocalOK'
      BY LocalStep, TypedStep
    <3>2. calls \in Nat /\ calls' \in Nat
      BY <3>1 DEF TypeOK
    <3>3. calls' = 0 => calls = 0 /\ calls' # calls + 1
      BY SMT, <3>2, CallsStep
    <3>4. QED BY <3>1, <3>3, TidyStep
  <2>2. CASE UNCHANGED vars
    <3>1. TypeOK' /\ LocalOK' /\ calls' = calls
      BY <2>2 DEF TypeOK, LocalOK, vars
    <3>2. UNCHANGED <<queue, pc, id, batch, issued, scheduled>>
      BY <2>2 DEF vars
    <3>3. QED BY <3>1, <3>2, TimeTidy
  <2>3. QED BY <2>1, <2>2
<1>3. Inv => OnePlace
  BY PlacesOne DEF OnePlace, Tidy
<1> HIDE DEF Inv
<1>4. QED BY <1>1, <1>2, <1>3, PTL DEF Spec

-----------------------------------------------------------------------------
(* One unfinished job per UniqueKey.                                       *)

\* A job that is waiting for an attempt or in one; a caller that works on such
\* a job; one that stores a new job under its key; and one that is about to
\* drop the key of a job it has finished.
Going   == {"pending", "running", "retrying"}
BusyPC  == (CarryPC \ {"deq_get"}) \cup {"sched_remove"}
EnterPC == {"enq_store", "enq_push", "enq_unique"}
LeavePC == {"fail_dlq", "drop_unique"}

\* What a caller p at command l with the payload r knows of the stored record s.
KnowsAt(p, l, r, s) ==
  /\ l \in {"enq_check", "enq_store", "deq_update", "sched_remove", "sched_update"}
       => r.status \in Going
  /\ l \in BusyPC => s.status \in Going /\ s.key = r.key
  /\ l \in LeavePC => s.status \notin Going
  /\ l = "sched_remove" => p \in Processor
Knowing == \A p \in Proc : KnowsAt(p, pc[p], loc[p], job[id[p]])

\* A job that waits to be taken up has a record of that kind, or none any more.
Waits(j) == \/ Queued(j) \/ scheduled[j] # "no"
            \/ \E p \in Proc : id[p] = j /\ pc[p] = "deq_get"
WaitersGoing == \A j \in Job : Waits(j) => job[j].status \in Going \cup {"absent"}

\* The jobs for which the key k is taken, or about to be.
Enters(c, k, j) == id[c] = j /\ loc[c].key = k /\ pc[c] \in EnterPC
Leaves(p, k, j) == id[p] = j /\ loc[p].key = k /\ pc[p] \in LeavePC
Entering(k, j)  == \E c \in Client : Enters(c, k, j)
Holds(k, j)     == job[j].key = k /\ job[j].status \in Going
Active(k, j)    == Holds(k, j) \/ Entering(k, j) \/ \E p \in Proc : Leaves(p, k, j)

\* One job at most has the key k, and the key names it once Enqueue is done.
KeyHeld(k) ==
  /\ \A i, j \in Job : Active(k, i) /\ Active(k, j) => i = j
  /\ \A j \in Job : Active(k, j) => unique[k] = j \/ Entering(k, j)

KeyInv == Knowing /\ WaitersGoing /\ \A k \in Key \ expired : KeyHeld(k)

\* A key that nobody takes or drops.
LEMMA KeyKept ==
  ASSUME NEW k, KeyHeld(k), unique'[k] = unique[k],
         \A j \in Job : Active(k, j)' => Active(k, j),
         \A j \in Job : Entering(k, j) => Entering(k, j)'
  PROVE  KeyHeld(k)'
<1> SUFFICES /\ \A i, j \in Job : Active(k, i)' /\ Active(k, j)' => i = j
             /\ \A j \in Job : Active(k, j)' => unique'[k] = j \/ Entering(k, j)'
  BY DEF KeyHeld
<1>1. QED BY DEF KeyHeld

\* The caller p neither begins nor ends to take or to drop a key.
SameEnds(p) ==
  /\ (p \in Client /\ pc'[p] \in EnterPC)
       => pc[p] \in EnterPC /\ id'[p] = id[p] /\ loc'[p] = loc[p]
  /\ (p \in Client /\ pc[p] \in EnterPC /\ loc[p].key \in Key)
       => pc'[p] \in EnterPC /\ id'[p] = id[p] /\ loc'[p] = loc[p]

\* Who takes a key is the same before and after.
LEMMA EnteringKept ==
  ASSUME NEW p \in Proc, OthersKeep(p), SameEnds(p), NEW k \in Key, NEW j
  PROVE  Entering(k, j)' <=> Entering(k, j)
<1>1. \A c \in Client : c # p => (Enters(c, k, j)' <=> Enters(c, k, j))
  BY DEF OthersKeep, Enters, Proc
<1>2. p \in Client => (Enters(p, k, j)' <=> Enters(p, k, j))
  BY DEF SameEnds, Enters
<1>3. QED BY <1>1, <1>2 DEF Entering

\* A step of p that changes no record and no key.
LEMMA Reading ==
  ASSUME KeyInv, NEW p \in Proc, OthersKeep(p), SameEnds(p), UNCHANGED <<job, unique, expired>>,
         KnowsAt(p, pc'[p], loc'[p], job[id'[p]]),
         pc'[p] \in LeavePC => pc[p] \in LeavePC /\ id'[p] = id[p] /\ loc'[p] = loc[p],
         \A x \in Job : Waits(x)' => Waits(x) \/ job[x].status \in Going \cup {"absent"}
  PROVE  KeyInv'
<1>1. Knowing'
  <2> SUFFICES ASSUME NEW q \in Proc PROVE KnowsAt(q, pc'[q], loc'[q], job[id'[q]])
    BY DEF Knowing
  <2>1. QED BY DEF KeyInv, Knowing, OthersKeep
<1>2. WaitersGoing'
  BY DEF KeyInv, WaitersGoing
<1>3. ASSUME NEW k \in Key \ expired PROVE KeyHeld(k)'
  <2>1. \A j : Entering(k, j)' <=> Entering(k, j)
    BY EnteringKept
  <2>2. \A j : \A q \in Proc : Leaves(q, k, j)' => Leaves(q, k, j)
    BY DEF Leaves, OthersKeep
  <2>3. \A j : Active(k, j)' => Active(k, j)
    BY <2>1, <2>2 DEF Active, Holds
  <2>4. QED BY <2>1, <2>3, KeyKept DEF KeyInv
<1>4. QED BY <1>1, <1>2, <1>3 DEF KeyInv

\* Nobody else works on the job p has in its hands, or is about to take it up.
LEMMA SoleOwner ==
  ASSUME Tidy, KeyInv, NEW p \in Proc, NEW j \in Job, Owns(p, j)
  PROVE  /\ ~Queued(j) /\ scheduled[j] = "no"
         /\ \A q \in Proc \ {p} : id[q] = j => pc[q] \notin BusyPC \cup LeavePC \cup {"deq_get"}
<1>1. ~Queued(j) /\ scheduled[j] = "no"
  BY DEF Tidy, InOnePlace, Apart, Owned
<1>2. ASSUME NEW q \in Proc \ {p}, id[q] = j PROVE pc[q] \notin OwnPC
  BY <1>2 DEF Tidy, InOnePlace, OneOwner, Owns
<1>3. ASSUME NEW q \in Proc, id[q] = j PROVE pc[q] # "sched_remove"
  <2> SUFFICES ASSUME pc[q] = "sched_remove" PROVE FALSE
    OBVIOUS
  <2>1. q \in Processor
    BY DEF KeyInv, Knowing, KnowsAt
  <2>2. j \in batch[q] /\ pc[q] \notin {"sched_update", "sched_push"}
    BY <1>3, <2>1 DEF Tidy, StillDue
  <2>3. scheduled[j] = "due"
    BY <2>1, <2>2 DEF Tidy, StillDue
  <2>4. QED BY <1>1, <2>3
<1>4. QED BY <1>1, <1>2, <1>3 DEF BusyPC, LeavePC, OwnPC, CarryPC

\* A step of p that stores the record r of the job in its hands.
LEMMA Storing ==
  ASSUME TypeOK, LocalOK, Tidy, KeyInv, NEW p \in Proc, NEW j \in Job, Owns(p, j),
         OthersKeep(p), SameEnds(p), NEW r, Store(j, r),
         UNCHANGED <<queue, scheduled, unique, expired>>,
         id'[p] = j, pc'[p] # "deq_get", KnowsAt(p, pc'[p], loc'[p], r),
         r.status \in Going => Active(r.key, j),
         pc'[p] \in LeavePC => Active(loc'[p].key, j)
  PROVE  KeyInv'
<1>1. job'[j] = r /\ \A x \in Job \ {j} : job'[x] = job[x]
  BY DEF Store, TypeOK
<1> USE <1>1
<1>2. /\ ~Queued(j) /\ scheduled[j] = "no"
      /\ \A q \in Proc \ {p} : id[q] = j => pc[q] \notin BusyPC \cup LeavePC \cup {"deq_get"}
  BY SoleOwner
<1>3. Knowing'
  <2> SUFFICES ASSUME NEW q \in Proc PROVE KnowsAt(q, pc'[q], loc'[q], job'[id'[q]])
    BY DEF Knowing
  <2>1. CASE q = p
    BY <2>1
  <2>2. CASE q # p /\ id[q] \in Job \ {j}
    BY <2>2 DEF KeyInv, Knowing, OthersKeep
  <2>3. CASE q # p /\ id[q] = j
    <3>1. KnowsAt(q, pc[q], loc[q], job[id[q]]) /\ pc[q] \notin BusyPC \cup LeavePC
      BY <1>2, <2>3 DEF KeyInv, Knowing
    <3>2. KnowsAt(q, pc[q], loc[q], r)
      BY <3>1 DEF KnowsAt
    <3>3. QED BY <2>3, <3>2 DEF OthersKeep
  <2>4. CASE q # p /\ id[q] \notin Job
    <3>1. pc[q] \in {"idle", "sched_get", "ret"}
      BY <2>4 DEF LocalOK, HoldsAt
    <3>2. pc'[q] \in {"idle", "sched_get", "ret"}
      BY <2>4, <3>1 DEF OthersKeep
    <3>3. QED BY <3>2 DEF KnowsAt, BusyPC, CarryPC, LeavePC
  <2>5. QED BY <2>1, <2>2, <2>3, <2>4
<1>4. WaitersGoing'
  <2>1. ASSUME NEW x \in Job, Waits(x)' PROVE Waits(x) /\ x # j
    BY <1>2, <2>1 DEF Waits, OthersKeep, Queued
  <2>2. QED BY <2>1 DEF KeyInv, WaitersGoing
<1>5. ASSUME NEW k \in Key \ expired PROVE KeyHeld(k)'
  <2>1. \A x : Entering(k, x)' <=> Entering(k, x)
    BY EnteringKept
  <2>2. \A x : \A q \in Proc : Leaves(q, k, x)' => Leaves(q, k, x) \/ (q = p /\ Active(k, x))
    BY DEF Leaves, OthersKeep
  <2>3. \A x \in Job : Holds(k, x)' => Active(k, x)
    BY DEF Active, Holds
  <2>4. \A x \in Job : Active(k, x)' => Active(k, x)
    BY <2>1, <2>2, <2>3 DEF Active
  <2>5. QED BY <2>1, <2>4, KeyKept DEF KeyInv
<1>6. QED BY <1>3, <1>4, <1>5 DEF KeyInv

\* Only the job that a caller puts into a queue or the scheduled set is new there.
LEMMA WaitsPut ==
  ASSUME TypeOK, NEW p \in Proc, OthersKeep(p), pc'[p] # "deq_get", NEW j \in Job,
         \/ (\E r \in Record : Push(j, r)) /\ UNCHANGED scheduled
         \/ SetScheduled(j, "future") /\ UNCHANGED queue,
         NEW x \in Job, Waits(x)'
  PROVE  Waits(x) \/ x = j
<1>1. \A q \in Proc : id'[q] = x /\ pc'[q] = "deq_get" => id[q] = x /\ pc[q] = "deq_get"
  BY DEF OthersKeep
<1>2. CASE (\E r \in Record : Push(j, r)) /\ UNCHANGED scheduled
  <2>1. PICK l, n : \A q, i, y : Entry(queue', q, i, y) =>
                      Entry(queue, q, i, y) \/ (q = l /\ i = n /\ y = j)
    BY <1>2, PushEntries
  <2>2. ASSUME Queued(x)' PROVE Queued(x) \/ x = j
    <3>1. PICK q, i : Entry(queue', q, i, x)
      BY <2>2 DEF Queued, InList, Entry
    <3>2. QED BY SMT, <2>1, <3>1, QueuedEntry
  <2>3. QED BY <1>1, <1>2, <2>2 DEF Waits
<1>3. CASE SetScheduled(j, "future") /\ UNCHANGED queue
  <2>1. x # j => scheduled'[x] = scheduled[x]
    BY <1>3 DEF SetScheduled, TypeOK
  <2>2. QED BY <1>1, <1>3, <2>1 DEF Waits, Queued
<1>4. QED BY <1>2, <1>3

\* The steps of a client that is the only one, RetryJob, RetryDLQJob and
\* DeleteJob aside.
LEMMA ClientKeys ==
  ASSUME TypeOK, LocalOK, Tidy, KeyInv, \A b, c \in Client : b = c,
         NEW c \in Client, ClientStep(c) \/ DeleteFails(c)
  PROVE  KeyInv' \/ calls' = calls + 1
<1>1. c \in Proc /\ OthersKeep(c) /\ EnqueuesOnly(c) /\ KnowsAt(c, pc[c], loc[c], job[id[c]])
  BY OwnMoves DEF Proc, Tidy, KeyInv, Knowing
<1> USE <1>1
<1>2. ASSUME NEW j \in Job, NEW s \in Submission, EnqueueCall(c, j, s) PROVE KeyInv'
  <2>1. /\ pc[c] = "idle" /\ pc'[c] = "enq_check" /\ loc'[c] = NewJobPayload(s)
        /\ UNCHANGED <<job, queue, scheduled, unique, expired>>
    BY <1>2 DEF EnqueueCall, Goto, Keep, LocalOK, redis
  <2> USE <2>1
  <2>2. loc'[c].status = "pending"
    BY SMT, <2>1 DEF NewJobPayload
  <2>3. KnowsAt(c, pc'[c], loc'[c], job[id'[c]])
    BY <2>2 DEF KnowsAt, BusyPC, LeavePC, CarryPC, Going
  <2>4. SameEnds(c) /\ pc'[c] \notin LeavePC
    BY DEF SameEnds, EnterPC, LeavePC
  <2>5. \A x \in Job : Waits(x)' => Waits(x)
    BY DEF Waits, OthersKeep, Queued
  <2>6. QED BY <2>3, <2>4, <2>5, Reading
<1>3. CASE EnqueueCheck(c) /\ pc'[c] # "enq_store"
  <2>1. /\ pc[c] = "enq_check" /\ pc'[c] = "idle"
        /\ UNCHANGED <<job, queue, scheduled, unique, expired>>
    BY <1>3 DEF EnqueueCheck, Return, Goto, LocalOK, redis, ghost
  <2> USE <2>1
  <2>2. KnowsAt(c, pc'[c], loc'[c], job[id'[c]])
    BY DEF KnowsAt, BusyPC, LeavePC, CarryPC
  <2>3. SameEnds(c) /\ pc'[c] \notin LeavePC
    BY DEF SameEnds, EnterPC, LeavePC
  <2>4. \A x \in Job : Waits(x)' => Waits(x)
    BY DEF Waits, OthersKeep, Queued
  <2>5. QED BY <2>2, <2>3, <2>4, Reading
<1>4. CASE EnqueueCheck(c) /\ pc'[c] = "enq_store"
  <2> USE <1>4
  <2>1. /\ pc[c] = "enq_check" /\ UNCHANGED <<job, queue, scheduled, unique, expired, id, loc>>
        /\ loc[c].key \notin Key \/ unique[loc[c].key] = NoJob
    BY DEF EnqueueCheck, Return, Goto, LocalOK, redis, ghost
  <2> USE <2>1
  <2>2. \A q \in Proc : KnowsAt(q, pc'[q], loc[q], job[id[q]])
    BY DEF KeyInv, Knowing, OthersKeep, KnowsAt, BusyPC, LeavePC, CarryPC
  <2>3. Knowing'
    BY <2>2 DEF Knowing
  <2>4. \A x \in Job : Waits(x)' => Waits(x)
    BY DEF Waits, OthersKeep, Queued
  <2>5. WaitersGoing'
    BY <2>4 DEF KeyInv, WaitersGoing
  <2>6. ASSUME NEW k \in Key \ expired PROVE KeyHeld(k)'
    <3> USE <2>6
    <3>1. \A j : \A p \in Proc : Leaves(p, k, j)' => Leaves(p, k, j)
      BY DEF Leaves, OthersKeep, LeavePC
    <3>2. \A j : Entering(k, j)' => id[c] = j /\ loc[c].key = k
      BY DEF Entering, Enters
    <3>3. \A j : ~Entering(k, j)
      BY DEF Entering, Enters, EnterPC
    <3>4. loc[c].key = k => Entering(k, id[c])'
      BY DEF Entering, Enters, EnterPC
    <3>5. \A j : Active(k, j)' => Active(k, j) \/ (id[c] = j /\ loc[c].key = k)
      BY <3>1, <3>2 DEF Active, Holds
    <3>6. loc[c].key = k => \A j \in Job : ~Active(k, j)
      BY <3>3, QueueAssumption DEF KeyInv, KeyHeld
    <3>7. ASSUME NEW i \in Job, NEW j \in Job, Active(k, i)', Active(k, j)' PROVE i = j
      <4>1. Active(k, i) /\ Active(k, j) => i = j
        BY DEF KeyInv, KeyHeld
      <4>2. /\ Active(k, i) \/ (id[c] = i /\ loc[c].key = k)
            /\ Active(k, j) \/ (id[c] = j /\ loc[c].key = k)
        BY <3>5, <3>7
      <4>3. QED BY <3>6, <4>1, <4>2
    <3>8. \A j \in Job : Active(k, j)' => unique'[k] = j \/ Entering(k, j)'
      BY <3>3, <3>4, <3>5 DEF KeyInv, KeyHeld
    <3>9. QED BY <3>7, <3>8 DEF KeyHeld
  <2>7. QED BY <2>3, <2>5, <2>6 DEF KeyInv
<1>5. CASE EnqueueStore(c)
  <2>1. /\ pc[c] = "enq_store" /\ pc'[c] = "enq_push" /\ id'[c] = id[c] /\ loc'[c] = loc[c]
        /\ UNCHANGED <<queue, scheduled, unique, expired>> /\ Store(id[c], loc[c])
    BY <1>5 DEF EnqueueStore, Goto, LocalOK, ghost
  <2> USE <2>1
  <2>2. id[c] \in Job /\ Owns(c, id[c])
    BY DEF LocalOK, HoldsAt, Owns, OwnPC
  <2>3. KnowsAt(c, pc'[c], loc'[c], loc[c])
    BY DEF KnowsAt, LeavePC
  <2>4. SameEnds(c) /\ pc'[c] \notin LeavePC
    BY DEF SameEnds, EnterPC, LeavePC
  <2>5. Active(loc[c].key, id[c])
    BY DEF Active, Entering, Enters, EnterPC
  <2>6. QED BY <2>2, <2>3, <2>4, <2>5, Storing
<1>6. CASE EnqueuePush(c)
  <2>1. /\ pc[c] = "enq_push" /\ UNCHANGED <<job, unique, expired>>
        /\ \/ pc'[c] = "enq_unique" /\ id'[c] = id[c] /\ loc'[c] = loc[c]
           \/ pc'[c] = "idle" /\ loc[c].key \notin Key
    BY <1>6 DEF EnqueuePush, Return, Goto, LocalOK, ghost
  <2> USE <2>1
  <2>2. id[c] \in Job /\ loc[c] \in Record /\ job[id[c]].status \in Going
    BY DEF LocalOK, HoldsAt, KnowsAt, BusyPC, CarryPC
  <2> USE <2>2
  <2>3. KnowsAt(c, pc'[c], loc'[c], job[id'[c]])
    BY DEF KnowsAt, BusyPC, LeavePC, CarryPC
  <2>4. SameEnds(c) /\ pc'[c] \notin LeavePC /\ pc'[c] # "deq_get"
    BY DEF SameEnds, EnterPC, LeavePC
  <2>5. \/ (\E r \in Record : Push(id[c], r)) /\ UNCHANGED scheduled
        \/ SetScheduled(id[c], "future") /\ UNCHANGED queue
    BY <1>6 DEF EnqueuePush
  <2>6. \A x \in Job : Waits(x)' => Waits(x) \/ x = id[c]
    BY <2>4, <2>5, WaitsPut
  <2>7. QED BY <2>3, <2>4, <2>6, Reading
<1>7. CASE EnqueueUnique(c)
  <2>1. /\ pc[c] = "enq_unique" /\ pc'[c] = "idle" /\ SetUnique(loc[c].key, id[c])
        /\ UNCHANGED <<job, queue, scheduled, expired>>
    BY <1>7 DEF EnqueueUnique, Return, Goto, LocalOK, ghost
  <2> USE <2>1
  <2>2. id[c] \in Job
    BY DEF LocalOK, HoldsAt
  <2>3. Knowing'
    <3> SUFFICES ASSUME NEW q \in Proc PROVE KnowsAt(q, pc'[q], loc'[q], job[id'[q]])
      BY DEF Knowing
    <3>1. CASE q = c
      BY <3>1 DEF KnowsAt, BusyPC, LeavePC, CarryPC
    <3>2. CASE q # c
      BY <3>2 DEF KeyInv, Knowing, OthersKeep
    <3>3. QED BY <3>1, <3>2
  <2>4. \A x \in Job : Waits(x)' => Waits(x)
    BY DEF Waits, OthersKeep, Queued
  <2>5. WaitersGoing'
    BY <2>4 DEF KeyInv, WaitersGoing
  <2>6. ASSUME NEW k \in Key \ expired PROVE KeyHeld(k)'
    <3>1. \A j : \A p \in Proc : Leaves(p, k, j)' => Leaves(p, k, j)
      BY DEF Leaves, OthersKeep, LeavePC
    <3>2. \A j : ~Entering(k, j)'
      BY DEF Entering, Enters, EnterPC
    <3>3. \A j : Active(k, j)' => Active(k, j)
      BY <3>1, <3>2 DEF Active, Holds
    <3>4. KeyHeld(k)
      BY <2>6 DEF KeyInv
    <3>5. CASE k = loc[c].key
      <4>1. Active(k, id[c]) /\ unique'[k] = id[c]
        BY <2>6, <3>5 DEF Active, Entering, Enters, EnterPC, SetUnique, TypeOK
      <4>2. \A j \in Job : Active(k, j)' => j = id[c]
        BY <2>2, <3>3, <3>4, <4>1 DEF KeyHeld
      <4>3. QED BY <4>1, <4>2 DEF KeyHeld
    <3>6. CASE k # loc[c].key
      <4>1. unique'[k] = unique[k]
        BY <3>6 DEF SetUnique, TypeOK
      <4>2. \A j : ~Entering(k, j)
        BY <3>6 DEF Entering, Enters
      <4>3. QED BY <3>3, <3>4, <4>1, <4>2, KeyKept
    <3>7. QED BY <3>5, <3>6
  <2>7. QED BY <2>3, <2>5, <2>6 DEF KeyInv
<1>8. ASSUME NEW j \in Job, RetryJob(c, j) \/ RetryDLQGet(c, j) \/ DeleteCall(c, j)
      PROVE  calls' = calls + 1
  BY <1>8 DEF RetryJob, RetryDLQGet, DeleteCall
<1>9. ~\E j \in Job : RetryDLQRemove(c, j)
  BY DEF RetryDLQRemove, EnqueuesOnly
<1>10. /\ ~DeleteRecord(c) /\ ~DeleteQueued(c) /\ ~DeleteScheduled(c) /\ ~DeleteDead(c)
       /\ ~DropUnique(c) /\ ~DeleteFails(c)
  BY DEF DeleteRecord, DeleteQueued, DeleteScheduled, DeleteDead, DropUnique,
     DeleteFails, EnqueuesOnly
<1>11. QED BY <1>2, <1>3, <1>4, <1>5, <1>6, <1>7, <1>8, <1>9, <1>10 DEF ClientStep

\* No update of a record changes its UniqueKey.
LEMMA SameKey ==
  ASSUME NEW r \in Record
  PROVE  /\ [r EXCEPT !.status = "running", !.attempts = @ + 1].key = r.key
         /\ [r EXCEPT !.status = "pending", !.attempts = @ - 1].key = r.key
         /\ [r EXCEPT !.status = "pending", !.attempts = @ - 1].status = "pending"
         /\ [r EXCEPT !.status = "completed"].key = r.key
         /\ [r EXCEPT !.status = "retrying", !.at = "set"].key = r.key
         /\ [r EXCEPT !.status = "dead"].key = r.key
         /\ [r EXCEPT !.at = "nil", !.status = "pending"].key = r.key
BY SMT DEF Record

\* The steps of a worker.
LEMMA WorkerKeys ==
  ASSUME TypeOK, LocalOK, Tidy, KeyInv, NEW w \in Worker, WorkerStep(w)
  PROVE  KeyInv'
<1>1. /\ w \in Proc /\ OthersKeep(w) /\ w \notin Client /\ w \notin Processor
      /\ KnowsAt(w, pc[w], loc[w], job[id[w]])
  BY OwnMoves, QueueAssumption DEF Proc, KeyInv, Knowing
<1> USE <1>1
<1>2. SameEnds(w)
  BY DEF SameEnds
<1> USE <1>2
<1>3. CASE DequeuePop(w)
  <2>1. /\ pc[w] = "idle" /\ UNCHANGED <<job, scheduled, unique, expired>>
        /\ \/ UNCHANGED <<queue, pc, id, loc>>
           \/ /\ queue[scan[w]] # <<>> /\ queue' = [queue EXCEPT ![scan[w]] = Tail(queue[scan[w]])]
              /\ pc'[w] = "deq_get" /\ id'[w] = Head(queue[scan[w]])
    BY <1>3 DEF DequeuePop, Goto, Keep, ghost, LocalOK
  <2> USE <2>1
  <2>2. KnowsAt(w, pc'[w], loc'[w], job[id'[w]]) /\ pc'[w] \notin LeavePC
    BY DEF KnowsAt, BusyPC, LeavePC, CarryPC
  <2>3. ASSUME NEW x \in Job, Waits(x)' PROVE Waits(x)
    <3>1. CASE UNCHANGED <<queue, pc, id>>
      BY <2>3, <3>1 DEF Waits, Queued
    <3>2. CASE /\ queue[scan[w]] # <<>> /\ queue' = [queue EXCEPT ![scan[w]] = Tail(queue[scan[w]])]
               /\ pc'[w] = "deq_get" /\ id'[w] = Head(queue[scan[w]])
      <4>1. PICK q \in Prio : q = scan[w]
        BY DEF TypeOK
      <4>2. /\ Entry(queue, q, 1, Head(queue[q])) /\ Head(queue[q]) \in Job
            /\ \A p, i, j : Entry(queue', p, i, j) =>
                 \/ p # q /\ Entry(queue, p, i, j)
                 \/ p = q /\ i \in Nat \ {0} /\ Entry(queue, p, i + 1, j)
        BY <3>2, <4>1, PopEntries
      <4>3. Queued(x)' => Queued(x)
        <5> SUFFICES ASSUME Queued(x)' PROVE Queued(x)
          OBVIOUS
        <5>1. PICK p, i : Entry(queue', p, i, x)
          BY DEF Queued, InList, Entry
        <5>2. QED BY <4>2, <5>1, QueuedEntry
      <4>4. Queued(id'[w])
        BY <3>2, <4>1, <4>2, QueuedEntry
      <4>5. QED BY <2>3, <4>3, <4>4 DEF Waits, OthersKeep
    <3>3. QED BY <3>1, <3>2
  <2>4. QED BY <2>2, <2>3, Reading
<1>4. CASE DequeueGet(w) \/ CompleteGet(w) \/ FailGet(w)
  <2>1. /\ UNCHANGED <<job, queue, scheduled, unique, expired>> /\ pc[w] \in {"deq_get", "got"}
        /\ pc'[w] \in {"idle", "deq_update", "complete_update", "fail_update", "ret"}
    BY <1>4 DEF DequeueGet, CompleteGet, FailGet, Return, Goto, redis, ghost, LocalOK
  <2> USE <2>1
  <2>2. id[w] \in Job /\ job[id[w]] \in Record
    BY DEF LocalOK, HoldsAt, TypeOK
  <2> USE <2>2
  <2>3. Exists(id[w]) => job[id[w]].status \in Going
    <3>1. CASE pc[w] = "deq_get"
      BY <3>1 DEF KeyInv, WaitersGoing, Waits, Exists
    <3>2. CASE pc[w] = "got"
      BY <3>2 DEF KnowsAt, BusyPC, CarryPC
    <3>3. QED BY <3>1, <3>2
  <2>4. \/ pc'[w] \in {"idle", "ret"}
        \/ /\ Exists(id[w]) /\ id'[w] = id[w] /\ loc'[w].key = job[id[w]].key
           /\ pc'[w] = "deq_update" => loc'[w].status = "running"
    <3>1. CASE DequeueGet(w)
      <4>1. pc'[w] = "idle" \/
            (Exists(id[w]) /\ id'[w] = id[w] /\
             loc'[w] = [job[id[w]] EXCEPT !.status = "running", !.attempts = @ + 1])
        BY <3>1 DEF DequeueGet, Return, Goto, Keep, LocalOK
      <4>2. /\ [job[id[w]] EXCEPT !.status = "running", !.attempts = @ + 1].key = job[id[w]].key
            /\ [job[id[w]] EXCEPT !.status = "running", !.attempts = @ + 1].status = "running"
        BY SameKey, AttemptUpdates
      <4>3. QED BY <4>1, <4>2
    <3>2. CASE CompleteGet(w)
      <4>1. pc'[w] = "ret" \/
            (Exists(id[w]) /\ id'[w] = id[w] /\ pc'[w] = "complete_update" /\
             loc'[w] = [job[id[w]] EXCEPT !.status = "completed"])
        BY <3>2 DEF CompleteGet, Goto, Keep, LocalOK
      <4>2. QED BY <4>1, SameKey
    <3>3. CASE FailGet(w)
      <4>1. pc'[w] = "ret" \/
            (Exists(id[w]) /\ id'[w] = id[w] /\ pc'[w] = "fail_update" /\
             loc'[w] \in {[job[id[w]] EXCEPT !.status = "retrying", !.at = "set"],
                          [job[id[w]] EXCEPT !.status = "dead"]})
        BY <3>3 DEF FailGet, Goto, Keep, LocalOK
      <4>2. QED BY <4>1, SameKey
    <3>4. QED BY <1>4, <3>1, <3>2, <3>3
  <2>5. KnowsAt(w, pc'[w], loc'[w], job[id'[w]]) /\ pc'[w] \notin LeavePC
    <3>1. CASE pc'[w] \in {"idle", "ret"}
      BY <3>1 DEF KnowsAt, BusyPC, LeavePC, CarryPC
    <3>2. CASE pc'[w] \in {"deq_update", "complete_update", "fail_update"}
      BY <2>3, <2>4, <3>2 DEF KnowsAt, LeavePC, Going
    <3>3. QED BY <3>1, <3>2
  <2>6. \A x \in Job : Waits(x)' => Waits(x)
    BY DEF Waits, OthersKeep, Queued
  <2>7. QED BY <2>5, <2>6, Reading
<1>5. CASE DequeueUpdate(w) \/ CompleteUpdate(w) \/ FailUpdate(w) \/ RequeueUpdate(w)
  <2>1. /\ UNCHANGED <<queue, scheduled, unique, expired>> /\ id'[w] = id[w]
        /\ pc[w] \in {"deq_update", "complete_update", "fail_update", "got"}
    BY <1>5 DEF DequeueUpdate, CompleteUpdate, FailUpdate, RequeueUpdate, Keep, ghost,
       LocalOK
  <2>2. /\ id[w] \in Job /\ Owns(w, id[w]) /\ loc[w] \in Record
        /\ job[id[w]].status \in Going /\ job[id[w]].key = loc[w].key
    BY <2>1 DEF LocalOK, HoldsAt, Owns, OwnPC, CarryPC, KnowsAt, BusyPC
  <2> USE <2>2
  <2>3. Active(loc[w].key, id[w])
    BY DEF Active, Holds
  <2>4. /\ Store(id[w], loc'[w]) /\ loc'[w].key = loc[w].key
        /\ \/ pc'[w] \in {"got", "requeue_push", "fail_schedule"} /\ loc'[w].status \in Going
           \/ pc'[w] \in {"drop_unique", "ret", "fail_dlq"} /\ loc'[w].status \notin Going
    <3>1. CASE DequeueUpdate(w)
      <4>1. Store(id[w], loc[w]) /\ loc' = loc /\ pc'[w] = "got" /\ pc[w] = "deq_update"
        BY <3>1 DEF DequeueUpdate, Goto, LocalOK
      <4>2. QED BY <4>1 DEF KnowsAt
    <3>2. CASE CompleteUpdate(w)
      <4>1. Store(id[w], loc[w]) /\ loc' = loc /\ pc'[w] \in {"drop_unique", "ret"}
            /\ loc[w].status = "completed"
        BY <3>2 DEF CompleteUpdate, Goto, LocalOK, HoldsAt
      <4>2. QED BY <4>1 DEF Going
    <3>3. CASE FailUpdate(w)
      <4>1. Store(id[w], loc[w]) /\ loc' = loc /\ loc[w].status \in {"retrying", "dead"}
            /\ pc'[w] = IF loc[w].status = "retrying" THEN "fail_schedule" ELSE "fail_dlq"
        BY <3>3 DEF FailUpdate, Goto, LocalOK, HoldsAt
      <4>2. QED BY <4>1 DEF Going
    <3>4. CASE RequeueUpdate(w)
      <4>1. loc'[w] = [loc[w] EXCEPT !.status = "pending", !.attempts = @ - 1]
            /\ Store(id[w], loc'[w]) /\ pc'[w] = "requeue_push"
        BY <3>4 DEF RequeueUpdate, Goto, Keep, LocalOK
      <4>2. QED BY <4>1, SameKey DEF Going
    <3>5. QED BY <1>5, <3>1, <3>2, <3>3, <3>4
  <2>5. KnowsAt(w, pc'[w], loc'[w], loc'[w]) /\ pc'[w] # "deq_get"
    BY <2>4 DEF KnowsAt, BusyPC, LeavePC, CarryPC
  <2>6. QED BY <2>1, <2>3, <2>4, <2>5, Storing
<1>6. CASE FailSchedule(w) \/ RequeuePush(w)
  <2>1. /\ pc[w] \in {"fail_schedule", "requeue_push"} /\ pc'[w] = "ret"
        /\ UNCHANGED <<job, unique, expired>>
    BY <1>6 DEF FailSchedule, RequeuePush, Goto, ghost, LocalOK
  <2> USE <2>1
  <2>2. id[w] \in Job /\ loc[w] \in Record /\ job[id[w]].status \in Going
    BY DEF LocalOK, HoldsAt, KnowsAt, BusyPC, CarryPC
  <2> USE <2>2
  <2>3. \/ (\E r \in Record : Push(id[w], r)) /\ UNCHANGED scheduled
        \/ SetScheduled(id[w], "future") /\ UNCHANGED queue
    BY <1>6 DEF FailSchedule, RequeuePush
  <2>4. \A x \in Job : Waits(x)' => Waits(x) \/ x = id[w]
    BY <2>3, WaitsPut
  <2>5. KnowsAt(w, pc'[w], loc'[w], job[id'[w]]) /\ pc'[w] \notin LeavePC
    BY DEF KnowsAt, BusyPC, LeavePC, CarryPC
  <2>6. QED BY <2>4, <2>5, Reading
<1>7. CASE FailDLQ(w)
  <2>1. /\ pc[w] = "fail_dlq" /\ pc'[w] \in {"drop_unique", "ret"} /\ id'[w] = id[w]
        /\ loc'[w] = loc[w] /\ UNCHANGED <<job, queue, scheduled, unique, expired>>
    BY <1>7 DEF FailDLQ, Goto, ghost, LocalOK
  <2> USE <2>1
  <2>2. KnowsAt(w, pc'[w], loc'[w], job[id'[w]]) /\ pc[w] \in LeavePC
    BY DEF KnowsAt, BusyPC, LeavePC, CarryPC
  <2>3. \A x \in Job : Waits(x)' => Waits(x)
    BY DEF Waits, OthersKeep, Queued
  <2>4. QED BY <2>2, <2>3, Reading
<1>8. CASE DropUnique(w)
  <2>1. /\ pc[w] = "drop_unique" /\ pc'[w] = "ret" /\ SetUnique(loc[w].key, NoJob)
        /\ UNCHANGED <<job, queue, scheduled, expired, id, loc>>
    BY <1>8 DEF DropUnique, Goto, LocalOK, ghost
  <2> USE <2>1
  <2>2. id[w] \in Job /\ Owns(w, id[w]) /\ job[id[w]].status \notin Going
    BY DEF LocalOK, HoldsAt, Owns, OwnPC, KnowsAt, LeavePC
  <2> USE <2>2
  <2>3. Knowing'
    <3> SUFFICES ASSUME NEW q \in Proc PROVE KnowsAt(q, pc'[q], loc[q], job[id[q]])
      BY DEF Knowing
    <3>1. CASE q = w
      BY <3>1 DEF KnowsAt, BusyPC, LeavePC, CarryPC
    <3>2. CASE q # w
      BY <3>2 DEF KeyInv, Knowing, OthersKeep
    <3>3. QED BY <3>1, <3>2
  <2>4. \A x \in Job : Waits(x)' => Waits(x)
    BY DEF Waits, OthersKeep, Queued
  <2>5. WaitersGoing'
    BY <2>4 DEF KeyInv, WaitersGoing
  <2>6. ASSUME NEW k \in Key \ expired PROVE KeyHeld(k)'
    <3>1. \A j : \A p \in Proc : Leaves(p, k, j)' => p # w /\ Leaves(p, k, j)
      BY DEF Leaves, OthersKeep, LeavePC
    <3>2. \A j : Entering(k, j)' <=> Entering(k, j)
      BY <2>6, EnteringKept
    <3>3. \A j : Active(k, j)' => Active(k, j)
      BY <3>1, <3>2 DEF Active, Holds
    <3>4. KeyHeld(k)
      BY <2>6 DEF KeyInv
    <3>5. CASE k = loc[w].key
      <4>0. PICK i \in Job : i = id[w]
        OBVIOUS
      <4> USE <4>0
      <4>1. Active(k, i)
        BY <3>5 DEF Active, Leaves, LeavePC
      <4>2. \A j \in Job : Active(k, j)' => j = i
        BY <3>3, <3>4, <4>1 DEF KeyHeld
      <4>3. \A p \in Proc : ~Leaves(p, k, i)'
        BY <3>1, SoleOwner DEF Leaves
      <4>4. ~Holds(k, i)'
        BY DEF Holds
      <4>5. Active(k, i)' => Entering(k, i)'
        BY <4>3, <4>4 DEF Active
      <4>6. QED BY <4>2, <4>5 DEF KeyHeld
    <3>6. CASE k # loc[w].key
      <4>1. unique'[k] = unique[k]
        BY <3>6 DEF SetUnique, TypeOK
      <4>2. QED BY <3>2, <3>3, <3>4, <4>1, KeyKept
    <3>7. QED BY <3>5, <3>6
  <2>7. QED BY <2>3, <2>5, <2>6 DEF KeyInv
<1>9. CASE WorkerReturn(w)
  <2>1. pc'[w] = "idle" /\ UNCHANGED <<job, queue, scheduled, unique, expired>>
    BY <1>9 DEF WorkerReturn, Return, Goto, redis, ghost, LocalOK
  <2> USE <2>1
  <2>2. KnowsAt(w, pc'[w], loc'[w], job[id'[w]]) /\ pc'[w] \notin LeavePC
    BY DEF KnowsAt, BusyPC, LeavePC, CarryPC
  <2>3. \A x \in Job : Waits(x)' => Waits(x)
    BY DEF Waits, OthersKeep, Queued
  <2>4. QED BY <2>2, <2>3, Reading
<1>10. QED BY <1>3, <1>4, <1>5, <1>6, <1>7, <1>8, <1>9
       DEF WorkerStep, DequeueStep, OutcomeStep

\* The steps of a processor.
LEMMA ProcessorKeys ==
  ASSUME TypeOK, LocalOK, Tidy, KeyInv, NEW p \in Processor, ProcessorStep(p)
  PROVE  KeyInv'
<1>1. /\ p \in Proc /\ OthersKeep(p) /\ p \notin Client
      /\ KnowsAt(p, pc[p], loc[p], job[id[p]]) /\ StillDue(p)
  BY OwnMoves, QueueAssumption DEF Proc, KeyInv, Knowing, Tidy
<1> USE <1>1
<1>2. SameEnds(p)
  BY DEF SameEnds
<1> USE <1>2
<1>3. CASE ScheduledScan(p) \/ \E j \in Job : ScheduledGet(p, j) /\ ~Exists(j)
  <2>1. /\ UNCHANGED <<job, queue, scheduled, unique, expired>>
        /\ pc'[p] \in {"idle", "sched_get"}
    BY <1>3 DEF ScheduledScan, ScheduledGet, Advance, Goto, redis, ghost, LocalOK
  <2> USE <2>1
  <2>2. KnowsAt(p, pc'[p], loc'[p], job[id'[p]]) /\ pc'[p] \notin LeavePC
    BY DEF KnowsAt, BusyPC, LeavePC, CarryPC
  <2>3. \A x \in Job : Waits(x)' => Waits(x)
    BY DEF Waits, OthersKeep, Queued
  <2>4. QED BY <2>2, <2>3, Reading
<1>4. ASSUME NEW j \in Job, ScheduledGet(p, j), Exists(j) PROVE KeyInv'
  <2>1. /\ UNCHANGED <<job, queue, scheduled, unique, expired>> /\ pc[p] = "sched_get"
        /\ j \in batch[p] /\ id'[p] = j /\ pc'[p] = "sched_remove"
        /\ loc'[p] = [job[j] EXCEPT !.at = "nil", !.status = "pending"]
    BY <1>4 DEF ScheduledGet, Keep, Goto, redis, ghost, LocalOK
  <2> USE <2>1
  <2>2. scheduled[j] = "due"
    BY DEF StillDue
  <2>3. job[j].status \in Going /\ job[j] \in Record
    BY <1>4, <2>2 DEF KeyInv, WaitersGoing, Waits, Exists, TypeOK
  <2>4. loc'[p].key = job[j].key /\ loc'[p].status = "pending"
    <3>1. /\ [job[j] EXCEPT !.at = "nil", !.status = "pending"].key = job[j].key
          /\ [job[j] EXCEPT !.at = "nil", !.status = "pending"].status = "pending"
      BY <2>3, SameKey, AttemptUpdates
    <3>2. QED BY <3>1
  <2>5. KnowsAt(p, pc'[p], loc'[p], job[id'[p]]) /\ pc'[p] \notin LeavePC
    BY <2>3, <2>4 DEF KnowsAt, LeavePC, Going
  <2>6. \A x \in Job : Waits(x)' => Waits(x)
    BY DEF Waits, OthersKeep, Queued
  <2>7. QED BY <2>5, <2>6, Reading
<1>5. CASE ScheduledRemove(p)
  <2>1. /\ UNCHANGED <<job, queue, unique, expired>> /\ pc[p] = "sched_remove"
        /\ id'[p] = id[p] /\ loc'[p] = loc[p] /\ pc'[p] = "sched_update"
        /\ SetScheduled(id[p], "no")
    BY <1>5 DEF ScheduledRemove, Goto, ghost, LocalOK
  <2> USE <2>1
  <2>2. KnowsAt(p, pc'[p], loc'[p], job[id'[p]]) /\ pc'[p] \notin LeavePC
    BY DEF KnowsAt, BusyPC, LeavePC
  <2>3. \A x \in Job : scheduled'[x] # "no" => scheduled[x] # "no"
    BY DEF SetScheduled, TypeOK
  <2>4. \A x \in Job : Waits(x)' => Waits(x)
    BY <2>3 DEF Waits, OthersKeep, Queued
  <2>5. QED BY <2>2, <2>4, Reading
<1>6. CASE ScheduledUpdate(p)
  <2>1. /\ UNCHANGED <<queue, scheduled, unique, expired>> /\ pc[p] = "sched_update"
        /\ id'[p] = id[p] /\ loc'[p] = loc[p] /\ pc'[p] = "sched_push" /\ Store(id[p], loc[p])
    BY <1>6 DEF ScheduledUpdate, Goto, ghost, LocalOK
  <2> USE <2>1
  <2>2. /\ id[p] \in Job /\ Owns(p, id[p]) /\ loc[p].status \in Going
        /\ job[id[p]].status \in Going /\ job[id[p]].key = loc[p].key
    BY DEF LocalOK, HoldsAt, Owns, OwnPC, CarryPC, KnowsAt, BusyPC
  <2> USE <2>2
  <2>3. Active(loc[p].key, id[p])
    BY DEF Active, Holds
  <2>4. KnowsAt(p, pc'[p], loc'[p], loc[p]) /\ pc'[p] # "deq_get" /\ pc'[p] \notin LeavePC
    BY DEF KnowsAt, LeavePC
  <2>5. QED BY <2>3, <2>4, Storing
<1>7. CASE ScheduledPush(p)
  <2>1. /\ UNCHANGED <<job, scheduled, unique, expired>> /\ pc[p] = "sched_push"
        /\ Push(id[p], loc[p]) /\ pc'[p] \in {"idle", "sched_get"}
    BY <1>7 DEF ScheduledPush, Advance, Goto, ghost, LocalOK
  <2> USE <2>1
  <2>2. id[p] \in Job /\ loc[p] \in Record /\ job[id[p]].status \in Going
    BY DEF LocalOK, HoldsAt, KnowsAt, BusyPC, CarryPC
  <2>3. KnowsAt(p, pc'[p], loc'[p], job[id'[p]]) /\ pc'[p] \notin LeavePC /\ pc'[p] # "deq_get"
    BY DEF KnowsAt, BusyPC, LeavePC, CarryPC
  <2>4. \A x \in Job : Waits(x)' => Waits(x) \/ x = id[p]
    BY <2>2, <2>3, WaitsPut
  <2>5. QED BY <2>2, <2>3, <2>4, Reading
<1>8. QED BY <1>3, <1>4, <1>5, <1>6, <1>7 DEF ProcessorStep

\* Time passes: an ID becomes due, a record or a key expires.
LEMMA TimeKeys ==
  ASSUME TypeOK, LocalOK, KeyInv,
         \/ \E j \in Job : BecomeDue(j) \/ ExpireRecord(j)
         \/ \E k \in Key : ExpireUnique(k)
         \/ UNCHANGED vars
  PROVE  KeyInv'
<1>1. /\ UNCHANGED <<queue, pc, id, loc>> /\ expired \subseteq expired'
      /\ \A j \in Job : scheduled'[j] # "no" => scheduled[j] # "no"
  BY DEF BecomeDue, ExpireRecord, ExpireUnique, SetScheduled, TypeOK, local, ghost, vars
<1> USE <1>1
<1>2. \A k \in Key \ expired' : unique'[k] = unique[k]
  BY DEF BecomeDue, ExpireRecord, ExpireUnique, SetUnique, TypeOK, vars
<1>3. ASSUME NEW j \in Job
      PROVE  job'[j] = job[j] \/ (job'[j].status = "absent" /\ \A p \in Proc : id[p] # j)
  BY SMT DEF BecomeDue, ExpireRecord, ExpireUnique, Store, Absent, TypeOK, vars
<1>4. Knowing'
  <2> SUFFICES ASSUME NEW q \in Proc PROVE KnowsAt(q, pc[q], loc[q], job'[id[q]])
    BY DEF Knowing
  <2>1. CASE id[q] \in Job
    BY <1>3, <2>1 DEF KeyInv, Knowing
  <2>2. CASE id[q] \notin Job
    <3>1. pc[q] \in {"idle", "sched_get", "ret"}
      BY <2>2 DEF LocalOK, HoldsAt
    <3>2. QED BY <3>1 DEF KnowsAt, BusyPC, CarryPC, LeavePC
  <2>3. QED BY <2>1, <2>2
<1>5. WaitersGoing'
  <2>1. \A x \in Job : Waits(x)' => Waits(x)
    BY DEF Waits, Queued
  <2>2. QED BY <1>3, <2>1 DEF KeyInv, WaitersGoing
<1>6. ASSUME NEW k \in Key \ expired' PROVE KeyHeld(k)'
  <2>1. /\ \A j : Entering(k, j)' <=> Entering(k, j)
        /\ \A j : \A p \in Proc : Leaves(p, k, j)' <=> Leaves(p, k, j)
    BY DEF Entering, Enters, Leaves
  <2>2. \A j \in Job : Holds(k, j)' => Holds(k, j)
    BY <1>3 DEF Holds, Going
  <2>3. \A j \in Job : Active(k, j)' => Active(k, j)
    BY <2>1, <2>2 DEF Active
  <2>4. QED BY <1>2, <1>6, <2>1, <2>3, KeyKept DEF KeyInv
<1>7. QED BY <1>4, <1>5, <1>6 DEF KeyInv

\* Calls that are cut short, and RetryJob, RetryDLQJob and DeleteJob calls, are
\* counted; the other steps keep the keys.
LEMMA KeyStep ==
  ASSUME TypeOK, LocalOK, Tidy, KeyInv, \A b, c \in Client : b = c, Next
  PROVE  KeyInv' \/ calls' = calls + 1 \/ faults' = faults + 1
<1>1. ASSUME NEW w \in Worker, DequeueSkips(w) PROVE faults' = faults + 1
  BY <1>1 DEF DequeueSkips
<1>2. ASSUME NEW p \in Processor, NEW j \in Job, ScheduledSkips(p, j) PROVE faults' = faults + 1
  BY <1>2 DEF ScheduledSkips
<1>3. ASSUME NEW p \in Proc, Abort(p) PROVE faults' = faults + 1
  BY <1>3 DEF Abort
<1>4. QED BY <1>1, <1>2, <1>3, ClientKeys, WorkerKeys, ProcessorKeys, TimeKeys DEF Next

\* At the start no job has a key.
LEMMA KeysStart ==
  ASSUME Init
  PROVE  KeyInv
<1>1. /\ \A p \in Proc : pc[p] = "idle"
      /\ \A j \in Job : job[j].status = "absent"
  BY SMT DEF Init, Absent
<1> USE <1>1
<1>2. Knowing
  BY DEF Knowing, KnowsAt, BusyPC, LeavePC, CarryPC
<1>3. WaitersGoing
  BY DEF WaitersGoing
<1>4. ASSUME NEW k, NEW j \in Job PROVE ~Active(k, j)
  BY DEF Active, Holds, Entering, Enters, Leaves, EnterPC, LeavePC, Going, Proc
<1>5. QED BY <1>2, <1>3, <1>4 DEF KeyInv, KeyHeld

\* Deduplication: with one client and one processor two unfinished jobs never
\* have the same UniqueKey (checkDuplicate and setUniqueKey of Enqueue, the DELs
\* of Complete and Fail), as long as no call is cut short, nobody calls
\* RetryJob, RetryDLQJob or DeleteJob and the key has not expired.  For any
\* number of workers, jobs, keys and priorities.
THEOREM KeysDeduplicate ==
  ASSUME \A b, c \in Client : b = c, \A p, q \in Processor : p = q
  PROVE  Spec => []OneActivePerKey
<1> DEFINE Inv == TypeOK /\ LocalOK /\ (calls = 0 => Tidy) /\ (calls = 0 /\ faults = 0 => KeyInv)
<1>1. Init => Inv
  BY InitTyped, TidyStarts, KeysStart
<1>2. Inv /\ [Next]_vars => Inv'
  <2> SUFFICES ASSUME Inv, [Next]_vars PROVE Inv'
    OBVIOUS
  <2>1. CASE Next
    <3> USE <2>1
    <3>1. TypeOK' /\ LocalOK'
      BY LocalStep, TypedStep
    <3>2. calls \in Nat /\ calls' \in Nat /\ faults \in Nat /\ faults' \in Nat
      BY <3>1 DEF TypeOK
    <3>3. /\ calls' = 0 => calls = 0 /\ calls' # calls + 1
          /\ faults' = 0 => faults = 0 /\ faults' # faults + 1
      BY SMT, <3>2, CallsStep, FaultsStep
    <3>4. QED BY <3>1, <3>3, TidyStep, KeyStep
  <2>2. CASE UNCHANGED vars
    <3> USE <2>2
    <3>1. TypeOK' /\ LocalOK' /\ calls' = calls /\ faults' = faults
      BY DEF TypeOK, LocalOK, vars
    <3>2. UNCHANGED <<queue, pc, id, batch, issued, scheduled>>
      BY DEF vars
    <3>3. QED BY <3>1, <3>2, TimeTidy, TimeKeys
  <2>3. QED BY <2>1, <2>2
<1>3. Inv => OneActivePerKey
  <2> SUFFICES ASSUME KeyInv, NEW i \in Job, NEW j \in Job, Unfinished(i), Unfinished(j),
                      job[i].key \in Key \ expired, job[i].key = job[j].key
               PROVE  i = j
    BY DEF OneActivePerKey
  <2>1. Active(job[i].key, i) /\ Active(job[i].key, j)
    BY DEF Active, Holds, Unfinished, Going
  <2>2. QED BY <2>1 DEF KeyInv, KeyHeld
<1> HIDE DEF Inv
<1>4. QED BY <1>1, <1>2, <1>3, PTL DEF Spec
=============================================================================
