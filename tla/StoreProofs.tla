----------------------------- MODULE StoreProofs -----------------------------
(***************************************************************************)
(* What rests on a single atomic step of a store, for any number of        *)
(* instances, jobs, users, tokens and requests: the SETNX of Redis, with   *)
(* which the cron scheduler elects a leader and claims a window, and the   *)
(* statements of the database under the accounts.                          *)
(***************************************************************************)
EXTENDS CronScheduler, Accounts, TLAPS

-----------------------------------------------------------------------------
(* The cron scheduler.  One execution window enqueues its job at most      *)
(* once, whoever takes themselves for the leader.                          *)
(*                                                                         *)
(* The argument: a window that is spent (enqueued, or held by a goroutine  *)
(* that has claimed it) is still claimed in Redis, or it is over and no    *)
(* goroutine is about to claim it.  So the SETNX that succeeds finds the   *)
(* window unspent.                                                         *)

RunPlace == {"none", "start", "claim", "singleton", "enqueue", "done"}
Windows == Job \X Time

\* A goroutine that has claimed its window and not enqueued yet.
Held(r) == pc[r] \in {"singleton", "enqueue"}

Spent(k) ==
  \/ \E e \in enqueued : e[2] = k
  \/ \E r \in Run : Held(r) /\ Key(r) = k

\* Window k has been the current one at or before u, or never will be again.
WasOpen(k, u) == \E t \in Time : t <= u /\ k[2] = GetExecutionWindow(k[1], t)
WindowOver(k) == \A u \in Time : u >= now => k[2] # GetExecutionWindow(k[1], u)

RunsTyped ==
  /\ now \in Time
  /\ pc \in [Run -> RunPlace] /\ win \in [Run -> Time]
  /\ claims \subseteq Windows \X Time
  /\ enqueued \subseteq Run \X Windows

Dated ==
  /\ \A r \in Run : pc[r] = "claim" => WasOpen(Key(r), now)
  /\ \A c \in claims : c[2] <= now /\ WasOpen(c[1], c[2])

Guarded ==
  \A k \in Windows :
    Spent(k) => \/ Claimed(k)
                \/ WindowOver(k) /\ \A r \in Run : pc[r] = "claim" => Key(r) # k

SpentOnce ==
  /\ \A r, s \in Run : Held(r) /\ Held(s) /\ Key(r) = Key(s) => r = s
  /\ \A r \in Run, e \in enqueued : Held(r) => e[2] # Key(r)

CronInv == RunsTyped /\ Dated /\ Guarded /\ SpentOnce /\ AtMostOncePerWindow

-----------------------------------------------------------------------------
\* A goroutine's key is a window of its job.
LEMMA KeyTyped ==
  ASSUME RunsTyped, NEW r \in Run
  PROVE  Key(r) \in Windows /\ JobOf(r) \in Job
BY Zenon DEF RunsTyped, Key, JobOf, Run, Windows

\* executeScheduledJob moves one goroutine: the others keep place and key.
LEMMA RunMoves ==
  ASSUME RunsTyped, NEW r \in Run, NEW l \in RunPlace, RGoto(r, l), UNCHANGED win
  PROVE  /\ pc' \in [Run -> RunPlace] /\ win' \in [Run -> Time]
         /\ pc'[r] = l
         /\ \A x \in Run \ {r} : pc'[x] = pc[x]
         /\ \A x \in Run : Key(x)' = Key(x)
BY Zenon DEF RunsTyped, RGoto, Key

\* A goroutine that returns waits for nothing and holds nothing.
LEMMA RunReturns ==
  ASSUME RunsTyped, NEW r \in Run, Return(r)
  PROVE  /\ pc' \in [Run -> RunPlace] /\ win' \in [Run -> Time]
         /\ pc'[r] = "done"
         /\ \A x \in Run \ {r} : pc'[x] = pc[x] /\ Key(x)' = Key(x)
<1>1. 0 \in Time
  BY CronAssumption DEF Time
<1>2. QED BY Zenon, <1>1 DEF RunsTyped, Return, RGoto, Key, RunPlace

\* When a goroutine lets go of its window, if it had one, and the histories
\* and the keys in Redis stay, the invariant stays.
LEMMA LetsGo ==
  ASSUME CronInv, NEW S \in SUBSET Run,
         pc' \in [Run -> RunPlace], win' \in [Run -> Time],
         \A x \in S : pc'[x] \in {"none", "start", "done"},
         \A x \in Run \ S : pc'[x] = pc[x] /\ Key(x)' = Key(x),
         UNCHANGED <<now, claims, enqueued>>
  PROVE  CronInv'
<1>1. \A x \in Run : Held(x)' => Held(x) /\ Key(x)' = Key(x)
  BY Zenon DEF Held
<1>2. \A x \in Run : pc'[x] = "claim" => pc[x] = "claim" /\ Key(x)' = Key(x)
  BY Zenon
<1>3. \A k \in Windows : /\ Spent(k)' => Spent(k)
                         /\ Claimed(k)' <=> Claimed(k)
                         /\ WindowOver(k)' <=> WindowOver(k)
  BY Zenon, <1>1 DEF Spent, Claimed, WindowOver
<1>4. RunsTyped'
  BY Zenon DEF CronInv, RunsTyped
<1>5. Dated'
  BY <1>2 DEF CronInv, Dated, WasOpen
<1>6. Guarded'
  BY Zenon, <1>2, <1>3 DEF CronInv, Guarded
<1>7. SpentOnce'
  BY <1>1 DEF CronInv, SpentOnce
<1>8. AtMostOncePerWindow'
  BY Zenon DEF CronInv, AtMostOncePerWindow
<1>9. QED BY Zenon, <1>4, <1>5, <1>6, <1>7, <1>8 DEF CronInv

-----------------------------------------------------------------------------
\* Steps that touch neither the goroutines nor the clock keep the invariant.
LEMMA OtherSteps ==
  ASSUME CronInv, UNCHANGED <<now, pc, win, claims, enqueued>>
  PROVE  CronInv'
<1>1. \A x \in Run \ {} : pc'[x] = pc[x] /\ Key(x)' = Key(x)
  BY Zenon DEF Key
<1>2. \A x \in {} : pc'[x] \in {"none", "start", "done"}
  BY Zenon
<1>3. pc' \in [Run -> RunPlace] /\ win' \in [Run -> Time] /\ {} \in SUBSET Run
  BY Zenon DEF CronInv, RunsTyped
<1>4. UNCHANGED <<now, claims, enqueued>>
  BY Zenon
<1>5. QED BY Zenon, <1>1, <1>2, <1>3, <1>4, LetsGo

\* The clock: a window that is over stays over.
LEMMA TickKeeps == CronInv /\ Tick => CronInv'
<1> SUFFICES ASSUME CronInv, Tick PROVE CronInv'
  BY Zenon
<1>1. now \in Time /\ now' \in Time /\ now <= now'
  BY CronAssumption DEF CronInv, RunsTyped, Tick, Time
<1>2. UNCHANGED <<pc, win, claims, enqueued>>
  BY Zenon DEF Tick, runVars
<1>3. \A x \in Run : (Held(x)' <=> Held(x)) /\ Key(x)' = Key(x)
  BY Zenon, <1>2 DEF Held, Key
<1>4. \A k \in Windows : /\ Spent(k)' => Spent(k)
                         /\ Claimed(k) => Claimed(k)'
                         /\ WindowOver(k) => WindowOver(k)'
  BY <1>1, <1>2, <1>3 DEF Spent, Claimed, WindowOver, Time
<1>5. RunsTyped'
  BY Zenon, <1>1, <1>2 DEF CronInv, RunsTyped
<1>6. Dated'
  <2>1. \A k : WasOpen(k, now) => WasOpen(k, now')
    BY <1>1 DEF WasOpen, Time
  <2>2. \A c \in claims : c[2] <= now'
    BY <1>1 DEF CronInv, RunsTyped, Dated, Time
  <2>3. QED BY Zenon, <1>2, <1>3, <2>1, <2>2 DEF CronInv, Dated, WasOpen
<1>7. Guarded'
  BY Zenon, <1>2, <1>3, <1>4 DEF CronInv, Guarded
<1>8. SpentOnce' /\ AtMostOncePerWindow'
  BY Zenon, <1>2, <1>3 DEF CronInv, SpentOnce, AtMostOncePerWindow
<1>9. QED BY Zenon, <1>5, <1>6, <1>7, <1>8 DEF CronInv

\* A goroutine returns, and nothing else that matters changes.
LEMMA GivesUp ==
  ASSUME CronInv, NEW r \in Run, Return(r), UNCHANGED <<now, claims, enqueued>>
  PROVE  CronInv'
<1>1. /\ pc' \in [Run -> RunPlace] /\ win' \in [Run -> Time]
      /\ pc'[r] = "done"
      /\ \A x \in Run \ {r} : pc'[x] = pc[x] /\ Key(x)' = Key(x)
  BY Zenon, RunReturns DEF CronInv
<1>2. {r} \in SUBSET Run /\ \A x \in {r} : pc'[x] \in {"none", "start", "done"}
  BY Zenon, <1>1
<1>3. QED BY Zenon, <1>1, <1>2, LetsGo

\* A goroutine starts: a window it holds from before, if any, is let go.
LEMMA FireKeeps ==
  ASSUME CronInv, NEW p \in Instance, NEW j \in Job, Fire(p, j)
  PROVE  CronInv'
<1> DEFINE r == <<p, j, due[p][j]>>
<1>1. RGoto(r, "start") /\ UNCHANGED <<now, win, claims, enqueued>>
  BY Zenon DEF Fire
<1> HIDE DEF r
<1>2. CASE r \in Run
  <2>1. "start" \in RunPlace
    BY Zenon DEF RunPlace
  <2>2. /\ pc' \in [Run -> RunPlace] /\ win' \in [Run -> Time]
        /\ pc'[r] = "start"
        /\ \A x \in Run \ {r} : pc'[x] = pc[x]
        /\ \A x \in Run : Key(x)' = Key(x)
    BY Zenon, <1>1, <1>2, <2>1, RunMoves DEF CronInv
  <2>3. {r} \in SUBSET Run /\ \A x \in {r} : pc'[x] \in {"none", "start", "done"}
    BY Zenon, <1>2, <2>2
  <2>4. QED BY Zenon, <1>1, <2>2, <2>3, LetsGo
<1>3. CASE r \notin Run
  <2>1. UNCHANGED pc
    BY Zenon, <1>1, <1>3 DEF RGoto, CronInv, RunsTyped
  <2>2. QED BY Zenon, <1>1, <2>1, OtherSteps
<1>4. QED BY Zenon, <1>2, <1>3

\* The window a goroutine computes is the current one: if it is spent, its
\* key is still there.
LEMMA CheckLeadershipKeeps ==
  ASSUME CronInv, NEW r \in Run, CheckLeadership(r)
  PROVE  CronInv'
<1>1. UNCHANGED <<now, claims, enqueued>>
  BY Zenon DEF CheckLeadership
<1>2. CASE Return(r)
  BY Zenon, <1>1, <1>2, GivesUp
<1>3. CASE /\ RGoto(r, "claim")
           /\ win' = [win EXCEPT ![r] = GetExecutionWindow(JobOf(r), now)]
  <2> DEFINE k == <<JobOf(r), GetExecutionWindow(JobOf(r), now)>>
  <2>1. now \in Time /\ JobOf(r) \in Job
    BY Zenon, KeyTyped DEF CronInv, RunsTyped
  <2>2. GetExecutionWindow(JobOf(r), now) \in Time
    BY Zenon, <2>1, WindowAssumption
  <2>3. k \in Windows /\ WasOpen(k, now) /\ ~WindowOver(k)
    BY <2>1, <2>2 DEF Windows, WasOpen, WindowOver, Time
  <2>4. /\ pc' \in [Run -> RunPlace] /\ win' \in [Run -> Time]
        /\ pc'[r] = "claim" /\ Key(r)' = k
        /\ \A x \in Run \ {r} : pc'[x] = pc[x] /\ Key(x)' = Key(x)
    BY Zenon, <1>3, <2>2 DEF CronInv, RunsTyped, RGoto, Key, RunPlace
  <2> HIDE DEF k
  <2>5. \A x \in Run : Held(x)' => Held(x) /\ Key(x)' = Key(x)
    BY Zenon, <2>4 DEF Held
  <2>6. \A x \in Windows : /\ Spent(x)' => Spent(x)
                           /\ Claimed(x)' <=> Claimed(x)
                           /\ WindowOver(x)' <=> WindowOver(x)
    BY Zenon, <1>1, <2>5 DEF Spent, Claimed, WindowOver
  <2>7. RunsTyped'
    BY Zenon, <1>1, <2>4 DEF CronInv, RunsTyped
  <2>8. Dated'
    BY <1>1, <2>3, <2>4 DEF CronInv, Dated, WasOpen
  <2>9. Guarded'
    BY Zenon, <2>3, <2>4, <2>6 DEF CronInv, Guarded
  <2>10. SpentOnce' /\ AtMostOncePerWindow'
    BY Zenon, <1>1, <2>5 DEF CronInv, SpentOnce, AtMostOncePerWindow
  <2>11. QED BY Zenon, <2>7, <2>8, <2>9, <2>10 DEF CronInv
<1>4. QED BY Zenon, <1>2, <1>3 DEF CheckLeadership

\* The key that a SETNX writes is dated by the window's own time.
LEMMA ClaimDated ==
  ASSUME CronInv, NEW r \in Run, pc[r] = "claim",
         claims' = claims \cup {<<Key(r), now>>}
  PROVE  /\ claims' \subseteq Windows \X Time
         /\ \A c \in claims' : c[2] <= now /\ WasOpen(c[1], c[2])
         /\ \A k \in Windows : Claimed(k) => Claimed(k)'
         /\ \E t \in Time : <<Key(r), t>> \in claims'
<1>1. Key(r) \in Windows /\ now \in Time /\ now <= now /\ WasOpen(Key(r), now)
  BY KeyTyped DEF CronInv, RunsTyped, Dated, Time
<1> DEFINE c0 == <<Key(r), now>>
<1>2. c0[1] = Key(r) /\ c0[2] = now /\ c0 \in Windows \X Time
  BY Zenon, <1>1
<1>3. \A c \in claims' : c \in claims \/ c = c0
  BY Zenon
<1> HIDE DEF c0
<1>4. claims' \subseteq Windows \X Time
  BY Zenon, <1>2, <1>3 DEF CronInv, RunsTyped
<1>5. \A c \in claims' : c[2] <= now /\ WasOpen(c[1], c[2])
  BY Zenon, <1>1, <1>2, <1>3 DEF CronInv, Dated
<1>6. \A k \in Windows : Claimed(k) => Claimed(k)'
  BY Zenon DEF Claimed
<1>7. \E t \in Time : <<Key(r), t>> \in claims'
  BY Zenon, <1>1
<1>8. QED BY Zenon, <1>4, <1>5, <1>6, <1>7

\* SETNX: the window that is claimed was unspent.
LEMMA ClaimKeeps ==
  ASSUME CronInv, NEW r \in Run, AcquireCronExecutionLock(r)
  PROVE  CronInv'
<1>1. pc[r] = "claim" /\ UNCHANGED <<now, enqueued>>
  BY Zenon DEF AcquireCronExecutionLock
<1>2. CASE Claimed(Key(r))
  BY Zenon, <1>1, <1>2, GivesUp DEF AcquireCronExecutionLock
<1>3. CASE ~Claimed(Key(r))
  <2> DEFINE l == IF JobOf(r) \in Singleton THEN "singleton" ELSE "enqueue"
             k == Key(r)
  <2>1. /\ claims' = claims \cup {<<Key(r), now>>}
        /\ RGoto(r, l) /\ UNCHANGED win
    BY Zenon, <1>3 DEF AcquireCronExecutionLock
  <2>2. l \in RunPlace /\ l \in {"singleton", "enqueue"}
    BY Zenon DEF RunPlace
  <2> HIDE DEF l
  <2>3. /\ pc' \in [Run -> RunPlace] /\ win' \in [Run -> Time]
        /\ pc'[r] = l
        /\ \A x \in Run \ {r} : pc'[x] = pc[x]
        /\ \A x \in Run : Key(x)' = Key(x)
    BY Zenon, <2>1, <2>2, RunMoves DEF CronInv
  <2>4. /\ claims' \subseteq Windows \X Time
        /\ \A c \in claims' : c[2] <= now /\ WasOpen(c[1], c[2])
        /\ \A x \in Windows : Claimed(x) => Claimed(x)'
        /\ \E t \in Time : <<Key(r), t>> \in claims'
    BY Zenon, <1>1, <2>1, ClaimDated
  <2>5. k \in Windows /\ ~Claimed(k)
    BY Zenon, <1>3, KeyTyped DEF CronInv
  <2>6. ~Spent(k)
    BY Zenon, <1>1, <2>5 DEF CronInv, Guarded
  <2>7. \E t \in Time : <<k, t>> \in claims'
    BY Zenon, <2>4
  <2>8. \A x \in Run : Held(x)' => (x = r \/ Held(x))
    BY Zenon, <2>3 DEF Held
  <2>9. /\ Key(r)' = k
        /\ \A x \in Run : Held(x) => Key(x) # k
        /\ \A e \in enqueued : e[2] # k
    BY Zenon, <2>3, <2>6 DEF Spent
  <2> HIDE DEF k
  <2>10. \A x \in Windows : /\ Spent(x)' => Spent(x) \/ x = k
                            /\ WindowOver(x)' <=> WindowOver(x)
    BY Zenon, <1>1, <2>3, <2>8, <2>9 DEF Spent, WindowOver
  <2>11. RunsTyped'
    BY Zenon, <1>1, <2>3, <2>4 DEF CronInv, RunsTyped
  <2>12. Dated'
    BY Zenon, <1>1, <2>2, <2>3, <2>4 DEF CronInv, Dated, WasOpen
  <2>13. Guarded'
    <3> SUFFICES ASSUME NEW x \in Windows, Spent(x)'
                 PROVE  \/ Claimed(x)'
                        \/ WindowOver(x)' /\ \A y \in Run : pc'[y] = "claim" => Key(y)' # x
      BY Zenon DEF Guarded
    <3>1. CASE x = k
      BY Zenon, <2>7, <3>1 DEF Claimed
    <3>2. CASE x # k
      BY Zenon, <2>2, <2>3, <2>4, <2>10, <3>2 DEF CronInv, Guarded
    <3>3. QED BY Zenon, <3>1, <3>2
  <2>14. SpentOnce'
    BY <1>1, <2>3, <2>8, <2>9 DEF CronInv, SpentOnce
  <2>15. AtMostOncePerWindow'
    BY Zenon, <1>1 DEF CronInv, AtMostOncePerWindow
  <2>16. QED BY Zenon, <2>11, <2>12, <2>13, <2>14, <2>15 DEF CronInv
<1>4. QED BY Zenon, <1>2, <1>3

\* A SETNX whose reply is lost leaves a key that nobody holds.
LEMMA ClaimFailsKeeps ==
  ASSUME CronInv, NEW r \in Run, ClaimFails(r)
  PROVE  CronInv'
<1>1. pc[r] = "claim" /\ Return(r) /\ UNCHANGED <<now, enqueued>>
  BY Zenon DEF ClaimFails
<1>2. CASE UNCHANGED claims
  BY Zenon, <1>1, <1>2, GivesUp
<1>3. CASE claims' = claims \cup {<<Key(r), now>>}
  <2>1. /\ pc' \in [Run -> RunPlace] /\ win' \in [Run -> Time]
        /\ pc'[r] = "done"
        /\ \A x \in Run \ {r} : pc'[x] = pc[x] /\ Key(x)' = Key(x)
    BY Zenon, <1>1, RunReturns DEF CronInv
  <2>2. /\ claims' \subseteq Windows \X Time
        /\ \A c \in claims' : c[2] <= now /\ WasOpen(c[1], c[2])
        /\ \A x \in Windows : Claimed(x) => Claimed(x)'
    BY Zenon, <1>1, <1>3, ClaimDated
  <2>3. \A x \in Run : Held(x)' => Held(x) /\ Key(x)' = Key(x)
    BY Zenon, <2>1 DEF Held
  <2>4. \A x \in Windows : (Spent(x)' => Spent(x)) /\ (WindowOver(x)' <=> WindowOver(x))
    BY Zenon, <1>1, <2>3 DEF Spent, WindowOver
  <2>5. RunsTyped'
    BY Zenon, <1>1, <2>1, <2>2 DEF CronInv, RunsTyped
  <2>6. Dated'
    BY Zenon, <1>1, <2>1, <2>2 DEF CronInv, Dated, WasOpen
  <2>7. Guarded'
    BY Zenon, <2>1, <2>2, <2>4 DEF CronInv, Guarded
  <2>8. SpentOnce' /\ AtMostOncePerWindow'
    BY Zenon, <1>1, <2>3 DEF CronInv, SpentOnce, AtMostOncePerWindow
  <2>9. QED BY <2>5, <2>6, <2>7, <2>8 DEF CronInv
<1>4. QED BY Zenon, <1>2, <1>3 DEF ClaimFails

\* The singleton check keeps the window or gives it up.
LEMMA SingletonKeeps ==
  ASSUME CronInv, NEW r \in Run, IsSingletonJobRunning(r) \/ SingletonUnknown(r)
  PROVE  CronInv'
<1>1. pc[r] = "singleton" /\ UNCHANGED <<now, claims, enqueued>>
  BY Zenon DEF IsSingletonJobRunning, SingletonUnknown
<1>2. CASE Return(r)
  BY Zenon, <1>1, <1>2, GivesUp
<1>3. CASE RGoto(r, "enqueue") /\ UNCHANGED win
  <2>1. /\ pc' \in [Run -> RunPlace] /\ win' \in [Run -> Time]
        /\ pc'[r] = "enqueue"
        /\ \A x \in Run \ {r} : pc'[x] = pc[x]
        /\ \A x \in Run : Key(x)' = Key(x)
    BY Zenon, <1>3, RunMoves DEF CronInv, RunPlace
  <2>2. \A x \in Run : Held(x)' <=> Held(x)
    BY Zenon, <1>1, <2>1 DEF Held
  <2>3. \A x \in Windows : /\ Spent(x)' => Spent(x)
                           /\ Claimed(x)' <=> Claimed(x)
                           /\ WindowOver(x)' <=> WindowOver(x)
    BY Zenon, <1>1, <2>1, <2>2 DEF Spent, Claimed, WindowOver
  <2>4. RunsTyped'
    BY Zenon, <1>1, <2>1 DEF CronInv, RunsTyped
  <2>5. Dated'
    BY Zenon, <1>1, <2>1 DEF CronInv, Dated, WasOpen
  <2>6. Guarded'
    BY Zenon, <1>1, <2>1, <2>3 DEF CronInv, Guarded
  <2>7. SpentOnce' /\ AtMostOncePerWindow'
    BY <1>1, <2>1, <2>2 DEF CronInv, SpentOnce, AtMostOncePerWindow
  <2>8. QED BY Zenon, <2>4, <2>5, <2>6, <2>7 DEF CronInv
<1>4. QED BY Zenon, <1>2, <1>3 DEF IsSingletonJobRunning, SingletonUnknown

\* Enqueue hands the window over from the goroutine to the history.
LEMMA EnqueueKeeps ==
  ASSUME CronInv, NEW r \in Run, pc[r] = "enqueue", Return(r),
         enqueued' = enqueued \cup {<<r, Key(r)>>}, UNCHANGED <<now, claims>>
  PROVE  CronInv'
<1> DEFINE k  == Key(r)
           e0 == <<r, k>>
<1>1. /\ pc' \in [Run -> RunPlace] /\ win' \in [Run -> Time]
      /\ pc'[r] = "done"
      /\ \A x \in Run \ {r} : pc'[x] = pc[x] /\ Key(x)' = Key(x)
  BY Zenon, RunReturns DEF CronInv
<1>2. Held(r) /\ k \in Windows
  BY Zenon, KeyTyped DEF Held, CronInv
<1>3. /\ \A x \in Run : Held(x)' => Held(x) /\ Key(x)' = Key(x) /\ Key(x) # k
      /\ \A e \in enqueued : e[2] # k
  BY Zenon, <1>1, <1>2 DEF Held, CronInv, SpentOnce
<1>4. Spent(k)
  BY Zenon, <1>2 DEF Spent
<1>5. e0 \in Run \X Windows /\ e0[2] = k
  BY Zenon, <1>2
<1>6. \A e \in enqueued' : e \in enqueued \/ e = e0
  BY Zenon
<1> HIDE DEF e0, k
<1>7. \A x \in Windows : /\ Spent(x)' => Spent(x)
                         /\ Claimed(x)' <=> Claimed(x)
                         /\ WindowOver(x)' <=> WindowOver(x)
  BY Zenon, <1>3, <1>4, <1>5, <1>6 DEF Spent, Claimed, WindowOver
<1>8. RunsTyped'
  BY Zenon, <1>1, <1>5, <1>6 DEF CronInv, RunsTyped
<1>9. Dated'
  BY Zenon, <1>1 DEF CronInv, Dated, WasOpen
<1>10. Guarded'
  BY Zenon, <1>1, <1>7 DEF CronInv, Guarded
<1>11. SpentOnce'
  BY Zenon, <1>3, <1>5, <1>6 DEF CronInv, SpentOnce
<1>12. AtMostOncePerWindow'
  BY Zenon, <1>3, <1>5, <1>6 DEF CronInv, AtMostOncePerWindow
<1>13. QED BY Zenon, <1>8, <1>9, <1>10, <1>11, <1>12 DEF CronInv

\* The key goes when its window is over and nobody is about to claim it.
LEMMA ExpiryKeeps ==
  ASSUME CronInv, NEW c \in claims, ClaimExpires(c)
  PROVE  CronInv'
<1>1. /\ now >= c[2] + DedupTTL
      /\ \A r \in Run : pc[r] = "claim" => Key(r) # c[1]
      /\ claims' = claims \ {c}
      /\ UNCHANGED <<now, pc, win, enqueued>>
  BY Zenon DEF ClaimExpires
<1>2. \A x \in Run : (Held(x)' <=> Held(x)) /\ Key(x)' = Key(x)
  BY Zenon, <1>1 DEF Held, Key
<1>3. /\ c \in Windows \X Time /\ c[1] \in Windows /\ c[2] \in Time
      /\ c[1][1] \in Job /\ c = <<c[1], c[2]>>
      /\ now \in Time /\ WasOpen(c[1], c[2])
  BY DEF CronInv, RunsTyped, Dated, Windows
<1>4. WindowOver(c[1])
  <2> SUFFICES ASSUME NEW u \in Time, u >= now
               PROVE  c[1][2] # GetExecutionWindow(c[1][1], u)
    BY Zenon DEF WindowOver
  <2>1. PICK t \in Time : t <= c[2] /\ c[1][2] = GetExecutionWindow(c[1][1], t)
    BY Zenon, <1>3 DEF WasOpen
  <2>2. u >= t + DedupTTL
    BY <1>1, <1>3, <2>1, CronAssumption DEF Time
  <2>3. QED BY Zenon, <1>3, <2>1, <2>2, WindowAssumption
<1>5. \A x \in Windows : /\ Spent(x)' => Spent(x)
                         /\ Claimed(x) => Claimed(x)' \/ x = c[1]
                         /\ WindowOver(x)' <=> WindowOver(x)
  BY <1>1, <1>2, <1>3 DEF Spent, Claimed, WindowOver
<1>6. RunsTyped'
  BY Zenon, <1>1 DEF CronInv, RunsTyped
<1>7. Dated'
  BY Zenon, <1>1, <1>2 DEF CronInv, Dated, WasOpen
<1>8. Guarded'
  BY Zenon, <1>1, <1>2, <1>4, <1>5 DEF CronInv, Guarded
<1>9. SpentOnce' /\ AtMostOncePerWindow'
  BY Zenon, <1>1, <1>2 DEF CronInv, SpentOnce, AtMostOncePerWindow
<1>10. QED BY Zenon, <1>6, <1>7, <1>8, <1>9 DEF CronInv

\* A crash takes the goroutines of one instance.
LEMMA CrashKeeps ==
  ASSUME CronInv, NEW p \in Instance, Crash(p)
  PROVE  CronInv'
<1> DEFINE S == {r \in Run : InstanceOf(r) = p}
<1>1. /\ pc' = [r \in Run |-> IF InstanceOf(r) = p THEN "done" ELSE pc[r]]
      /\ win' = [r \in Run |-> IF InstanceOf(r) = p THEN 0 ELSE win[r]]
      /\ UNCHANGED <<now, claims, enqueued>>
  BY Zenon DEF Crash
<1>2. 0 \in Time
  BY CronAssumption DEF Time
<1>3. /\ pc' \in [Run -> RunPlace] /\ win' \in [Run -> Time]
      /\ \A x \in S : pc'[x] \in {"none", "start", "done"}
      /\ \A x \in Run \ S : pc'[x] = pc[x] /\ Key(x)' = Key(x)
  BY Zenon, <1>1, <1>2 DEF CronInv, RunsTyped, Key, RunPlace
<1>4. S \in SUBSET Run
  BY Zenon
<1> HIDE DEF S
<1>5. QED BY Zenon, <1>1, <1>3, <1>4, LetsGo

-----------------------------------------------------------------------------
\* Election, Start and Stop leave the goroutines and the clock alone.
LEMMA QuietSteps ==
  ASSUME NEW p \in Instance, Election(p) \/ Lifecycle(p), ~Crash(p)
  PROVE  UNCHANGED <<now, pc, win, claims, enqueued>>
BY Zenon DEF Election, Lifecycle, TryAcquireLeadership, AcquireFails, CheckLeader,
       CheckFails, RenewLease, LoopEnds, Start, Stop, StopReturns,
       ReleaseLeadership, ReleaseFails, DeleteLeader, DeleteFails, runVars

\* Every step of the schedulers keeps the invariant.
LEMMA CronStep == CronInv /\ [CronNext]_cronVars => CronInv'
<1> SUFFICES ASSUME CronInv, [CronNext]_cronVars PROVE CronInv'
  BY Zenon
<1>1. ASSUME NEW p \in Instance, Election(p) \/ Lifecycle(p) PROVE CronInv'
  BY Zenon, <1>1, QuietSteps, OtherSteps, CrashKeeps
<1>2. ASSUME NEW p \in Instance, NEW j \in Job, JobOperation(p, j) PROVE CronInv'
  <2>1. CASE Fire(p, j)
    BY Zenon, <2>1, FireKeeps
  <2>2. CASE ~Fire(p, j)
    <3>1. UNCHANGED <<now, pc, win, claims, enqueued>>
      BY Zenon, <1>2, <2>2 DEF JobOperation, RegisterJob, AcquireSingletonLock,
                        ReleaseSingletonLock, runVars
    <3>2. QED BY Zenon, <3>1, OtherSteps
  <2>3. QED BY Zenon, <2>1, <2>2
<1>3. ASSUME NEW r \in Run, ExecuteScheduledJob(r) PROVE CronInv'
  <2>1. CASE Enqueue(r)
    <3>1. /\ pc[r] = "enqueue" /\ Return(r) /\ UNCHANGED <<now, claims>>
          /\ enqueued' = enqueued \cup {<<r, Key(r)>>}
      BY Zenon, <2>1 DEF Enqueue
    <3>2. QED BY Zenon, <3>1, EnqueueKeeps
  <2>2. CASE EnqueueFails(r)
    <3>1. /\ pc[r] = "enqueue" /\ Return(r) /\ UNCHANGED <<now, claims>>
          /\ enqueued' = enqueued \cup {<<r, Key(r)>>} \/ UNCHANGED enqueued
      BY Zenon, <2>2 DEF EnqueueFails
    <3>2. QED BY Zenon, <3>1, EnqueueKeeps, GivesUp
  <2>3. QED
    BY Zenon, <1>3, <2>1, <2>2, CheckLeadershipKeeps, ClaimKeeps, ClaimFailsKeeps,
       SingletonKeeps DEF ExecuteScheduledJob
<1>4. ASSUME NEW j \in Job, SingletonExpires(j) PROVE CronInv'
  BY Zenon, <1>4, OtherSteps DEF SingletonExpires, runVars
<1>5. ASSUME NEW c \in claims, ClaimExpires(c) PROVE CronInv'
  BY Zenon, <1>5, ExpiryKeeps
<1>6. CASE LeaseExpires
  BY Zenon, <1>6, OtherSteps DEF LeaseExpires, runVars
<1>7. CASE Tick
  BY Zenon, <1>7, TickKeeps
<1>8. CASE UNCHANGED cronVars
  BY Zenon, <1>8, OtherSteps DEF cronVars, runVars
<1>9. QED BY Zenon, <1>1, <1>2, <1>3, <1>4, <1>5, <1>6, <1>7, <1>8 DEF CronNext

\* CronInv is an inductive invariant of the schedulers.
THEOREM CronInvariant == CronSpec => []CronInv
<1>1. CronInit => CronInv
  <2> SUFFICES ASSUME CronInit PROVE CronInv
    BY Zenon
  <2>1. 0 \in Time
    BY CronAssumption DEF Time
  <2>2. RunsTyped
    BY Zenon, <2>1 DEF CronInit, RunsTyped, RunPlace
  <2>3. claims = {} /\ enqueued = {} /\ \A r \in Run : pc[r] = "none"
    BY Zenon DEF CronInit
  <2>4. \A r \in Run : ~Held(r)
    BY Zenon, <2>3 DEF Held
  <2>5. QED
    BY Zenon, <2>2, <2>3, <2>4 DEF CronInv, Dated, Guarded, SpentOnce, Spent, AtMostOncePerWindow
<1>2. QED BY <1>1, CronStep, PTL DEF CronSpec

\* executeScheduledJob enqueues the job of an execution window at most once.
THEOREM AtMostOnce == CronSpec => []AtMostOncePerWindow
  BY CronInvariant, PTL DEF CronInv
-----------------------------------------------------------------------------
(* No claimed window is forgotten.                                         *)

\* A new instance has fired nothing, a running one nothing that is due from its
\* next time on: a goroutine that starts overwrites no other one.
FreshRuns ==
  /\ status \in [Instance -> Status] /\ due \in [Instance -> [Job -> Nat]]
  /\ \A p \in Instance, j \in Job, t \in Time :
       status[p] = "new" \/ (status[p] = "running" /\ t >= due[p][j])
         => pc[<<p, j, t>>] = "none"

\* What becomes of a window that was claimed.
Settled(k) ==
  (\E e \in enqueued : e[2] = k) \/ k \in dropped \/ \E r \in Run : Held(r) /\ Key(r) = k

AccountInv == FreshRuns /\ ClaimedAccounted

\* NextDue lies ahead.
LEMMA NextDueAhead ==
  ASSUME NEW j \in Job, NEW t \in Nat
  PROVE  NextDue(j, t) \in Nat /\ NextDue(j, t) > t
<1> DEFINE n == Period[j]
<1>1. n \in Nat \ {0}
  BY Zenon, CronAssumption
<1> HIDE DEF n
<1>2. t = n * (t \div n) + (t % n) /\ t % n \in 0..(n - 1) /\ t \div n \in Nat
  BY <1>1
<1>3. ((t \div n) + 1) * n \in Nat /\ ((t \div n) + 1) * n > t
  BY <1>1, <1>2
<1>4. QED BY Zenon, <1>3 DEF NextDue, n

\* Steps in which no new goroutine starts.
LEMMA FreshKept ==
  ASSUME FreshRuns, UNCHANGED due, status' \in [Instance -> Status],
         \A p \in Instance : status'[p] \in {"new", "running"} => status[p] = status'[p],
         \A x \in Run : pc[x] = "none" =>
           pc'[x] = "none" \/ status'[x[1]] \notin {"new", "running"}
  PROVE  FreshRuns'
<1> SUFFICES ASSUME NEW p \in Instance, NEW j \in Job, NEW t \in Time,
                    status'[p] = "new" \/ (status'[p] = "running" /\ t >= due[p][j])
             PROVE  pc'[<<p, j, t>>] = "none"
  BY Zenon DEF FreshRuns
<1>1. <<p, j, t>> \in Run /\ <<p, j, t>>[1] = p
  BY DEF Run
<1>2. pc[<<p, j, t>>] = "none"
  BY Zenon DEF FreshRuns
<1>3. QED BY Zenon, <1>1, <1>2

\* Nothing happens to the windows.
LEMMA AccountKept ==
  ASSUME ClaimedAccounted, UNCHANGED <<pc, win, claims, enqueued, dropped>>
  PROVE  ClaimedAccounted'
  BY Zenon DEF ClaimedAccounted, Key

\* A step of goroutine r accounts for the window it held and for the one it
\* claims.
LEMMA RunAccounts ==
  ASSUME ClaimedAccounted, NEW r \in Run,
         \A x \in Run \ {r} : pc'[x] = pc[x] /\ Key(x)' = Key(x),
         enqueued \subseteq enqueued', dropped \subseteq dropped',
         NEW k, k = Key(r), Held(r) => Settled(k)',
         \A c \in claims' : c \in claims \/ c[1] \in dropped' \/ (Held(r)' /\ c[1] = Key(r)')
  PROVE  ClaimedAccounted'
<1> SUFFICES ASSUME NEW c \in claims' PROVE Settled(c[1])'
  BY Zenon DEF ClaimedAccounted, Settled, Held
<1>1. CASE c \in claims
  <2>1. Settled(c[1])
    BY Zenon, <1>1 DEF ClaimedAccounted, Settled, Held
  <2>2. CASE \E x \in Run : Held(x) /\ Key(x) = c[1]
    <3>1. PICK x \in Run : Held(x) /\ Key(x) = c[1]
      BY Zenon, <2>2
    <3>2. CASE x = r
      BY Zenon, <3>1, <3>2
    <3>3. CASE x # r
      <4>1. Held(x)' /\ Key(x)' = c[1]
        BY Zenon, <3>1, <3>3 DEF Held
      <4>2. QED BY Zenon, <4>1 DEF Settled
    <3>4. QED BY Zenon, <3>2, <3>3
  <2>3. QED BY Zenon, <2>1, <2>2 DEF Settled
<1>2. CASE c \notin claims
  BY Zenon, <1>2 DEF Settled
<1>3. QED BY Zenon, <1>1, <1>2

\* The steps of executeScheduledJob.
LEMMA GoroutineAccounts ==
  ASSUME RunsTyped, AccountInv, NEW r \in Run, ExecuteScheduledJob(r)
  PROVE  AccountInv'
<1> DEFINE k == Key(r)
<1>1. UNCHANGED <<due, status>> /\ pc[r] # "none"
  BY Zenon DEF ExecuteScheduledJob, CheckLeadership, AcquireCronExecutionLock, ClaimFails,
     IsSingletonJobRunning, SingletonUnknown, Enqueue, EnqueueFails, instanceVars
<1>2. \A x \in Run \ {r} : pc'[x] = pc[x] /\ Key(x)' = Key(x)
  <2>1. \A l : RGoto(r, l) => \A x \in Run \ {r} : pc'[x] = pc[x]
    BY Zenon DEF RunsTyped, RGoto
  <2>2. \A v : win' = [win EXCEPT ![r] = v] => \A x \in Run \ {r} : Key(x)' = Key(x)
    BY Zenon DEF RunsTyped, Key
  <2>3. UNCHANGED win => \A x \in Run \ {r} : Key(x)' = Key(x)
    BY Zenon DEF Key
  <2>4. Return(r) => \A x \in Run \ {r} : pc'[x] = pc[x] /\ Key(x)' = Key(x)
    BY Zenon, <2>1, <2>2 DEF Return
  <2>5. CASE CheckLeadership(r)
    BY Zenon, <2>1, <2>2, <2>4, <2>5 DEF CheckLeadership
  <2>6. CASE AcquireCronExecutionLock(r)
    BY Zenon, <2>1, <2>3, <2>4, <2>6 DEF AcquireCronExecutionLock
  <2>7. CASE IsSingletonJobRunning(r) \/ SingletonUnknown(r)
    BY Zenon, <2>1, <2>3, <2>4, <2>7 DEF IsSingletonJobRunning, SingletonUnknown
  <2>8. CASE ClaimFails(r) \/ Enqueue(r) \/ EnqueueFails(r)
    BY Zenon, <2>4, <2>8 DEF ClaimFails, Enqueue, EnqueueFails
  <2>9. QED BY Zenon, <2>5, <2>6, <2>7, <2>8 DEF ExecuteScheduledJob
<1>3. FreshRuns'
  <2>1. status' \in [Instance -> Status]
    BY Zenon, <1>1 DEF AccountInv, FreshRuns
  <2>2. QED BY Zenon, <1>1, <1>2, <2>1, FreshKept DEF AccountInv
<1>4. CASE CheckLeadership(r)
  <2>1. UNCHANGED <<claims, enqueued, dropped>> /\ ~Held(r)
    BY Zenon, <1>4 DEF CheckLeadership, Held
  <2>2. QED BY Zenon, <1>2, <1>3, <2>1, RunAccounts DEF AccountInv
<1>5. CASE AcquireCronExecutionLock(r)
  <2>1. UNCHANGED <<enqueued, dropped>> /\ ~Held(r)
    BY Zenon, <1>5 DEF AcquireCronExecutionLock, Held
  <2>2. CASE Claimed(Key(r))
    <3>1. UNCHANGED claims
      BY Zenon, <1>5, <2>2 DEF AcquireCronExecutionLock
    <3>2. QED BY Zenon, <1>2, <1>3, <2>1, <3>1, RunAccounts DEF AccountInv
  <2>3. CASE ~Claimed(Key(r))
    <3>1. /\ claims' = claims \cup {<<Key(r), now>>} /\ UNCHANGED win
          /\ RGoto(r, "singleton") \/ RGoto(r, "enqueue")
      BY Zenon, <1>5, <2>3 DEF AcquireCronExecutionLock
    <3>2. Held(r)' /\ Key(r)' = Key(r)
      BY Zenon, <3>1 DEF Held, RGoto, RunsTyped, Key
    <3>3. \A c \in claims' : c \in claims \/ c[1] = Key(r)
      BY <3>1
    <3>4. QED BY Zenon, <1>2, <1>3, <2>1, <3>2, <3>3, RunAccounts DEF AccountInv
  <2>4. QED BY Zenon, <2>2, <2>3
<1>6. CASE ClaimFails(r)
  <2>1. /\ UNCHANGED enqueued /\ dropped \subseteq dropped' /\ ~Held(r)
        /\ \/ UNCHANGED claims
           \/ claims' = claims \cup {<<Key(r), now>>} /\ Key(r) \in dropped'
    BY Zenon, <1>6 DEF ClaimFails, Held
  <2>2. \A c \in claims' : c \in claims \/ c[1] \in dropped'
    BY <2>1
  <2>3. QED BY Zenon, <1>2, <1>3, <2>1, <2>2, RunAccounts DEF AccountInv
<1>7. CASE IsSingletonJobRunning(r) \/ SingletonUnknown(r)
  <2>1. /\ UNCHANGED <<claims, enqueued>> /\ dropped \subseteq dropped'
        /\ k \in dropped' \/ (RGoto(r, "enqueue") /\ UNCHANGED win)
    <3>1. CASE IsSingletonJobRunning(r)
      BY Zenon, <3>1 DEF IsSingletonJobRunning
    <3>2. CASE SingletonUnknown(r)
      BY Zenon, <3>2 DEF SingletonUnknown
    <3>3. QED BY Zenon, <1>7, <3>1, <3>2
  <2>2. RGoto(r, "enqueue") /\ UNCHANGED win => Held(r)' /\ Key(r)' = Key(r)
    BY Zenon DEF Held, RGoto, RunsTyped, Key
  <2>3. QED BY Zenon, <1>2, <1>3, <2>1, <2>2, RunAccounts DEF AccountInv, Settled
<1>8. CASE Enqueue(r) \/ EnqueueFails(r)
  <2>1. /\ UNCHANGED claims /\ enqueued \subseteq enqueued' /\ dropped \subseteq dropped'
        /\ k \in dropped' \/ <<r, k>> \in enqueued'
    BY Zenon, <1>8 DEF Enqueue, EnqueueFails
  <2>2. <<r, k>>[2] = k
    OBVIOUS
  <2>3. QED BY Zenon, <1>2, <1>3, <2>1, <2>2, RunAccounts DEF AccountInv, Settled
<1>9. QED BY Zenon, <1>4, <1>5, <1>6, <1>7, <1>8 DEF ExecuteScheduledJob

\* A crash gives up the windows of one instance.
LEMMA CrashAccounts ==
  ASSUME RunsTyped, AccountInv, NEW p \in Instance, Crash(p)
  PROVE  AccountInv'
<1>1. /\ status' = [status EXCEPT ![p] = "dead"]
      /\ due' = [due EXCEPT ![p] = [j \in Job |-> 0]]
      /\ pc' = [r \in Run |-> IF InstanceOf(r) = p THEN "done" ELSE pc[r]]
      /\ win' = [r \in Run |-> IF InstanceOf(r) = p THEN 0 ELSE win[r]]
      /\ dropped' = dropped \cup
           {Key(r) : r \in {s \in Run : InstanceOf(s) = p /\ pc[s] \in {"singleton", "enqueue"}}}
      /\ UNCHANGED <<claims, enqueued>>
  BY Zenon DEF Crash
<1>2. \A x \in Run : InstanceOf(x) # p => pc'[x] = pc[x] /\ Key(x)' = Key(x)
  BY Zenon, <1>1 DEF Key
<1>3. ClaimedAccounted'
  <2> SUFFICES ASSUME NEW c \in claims PROVE Settled(c[1])'
    BY Zenon, <1>1 DEF ClaimedAccounted, Settled, Held
  <2>1. Settled(c[1])
    BY Zenon DEF AccountInv, ClaimedAccounted, Settled, Held
  <2>2. CASE \E x \in Run : Held(x) /\ Key(x) = c[1]
    <3>1. PICK x \in Run : Held(x) /\ Key(x) = c[1]
      BY Zenon, <2>2
    <3>2. CASE InstanceOf(x) = p
      <4>1. c[1] \in dropped'
        BY Zenon, <1>1, <3>1, <3>2 DEF Held
      <4>2. QED BY Zenon, <4>1 DEF Settled
    <3>3. CASE InstanceOf(x) # p
      <4>1. Held(x)' /\ Key(x)' = c[1]
        BY Zenon, <1>2, <3>1, <3>3 DEF Held
      <4>2. QED BY Zenon, <4>1 DEF Settled
    <3>4. QED BY Zenon, <3>2, <3>3
  <2>3. QED BY Zenon, <1>1, <2>1, <2>2 DEF Settled
<1>4. FreshRuns'
  <2>1. status' \in [Instance -> Status] /\ due' \in [Instance -> [Job -> Nat]]
    BY <1>1 DEF AccountInv, FreshRuns, Status
  <2>2. ASSUME NEW q \in Instance, NEW j \in Job, NEW t \in Time,
               status'[q] = "new" \/ (status'[q] = "running" /\ t >= due'[q][j])
        PROVE  pc'[<<q, j, t>>] = "none"
    <3>1. q # p
      BY <1>1, <2>2 DEF AccountInv, FreshRuns
    <3>2. status'[q] = status[q] /\ due'[q] = due[q]
      BY Zenon, <1>1, <3>1 DEF AccountInv, FreshRuns
    <3>3. pc[<<q, j, t>>] = "none"
      BY Zenon, <2>2, <3>2 DEF AccountInv, FreshRuns
    <3>4. <<q, j, t>> \in Run /\ InstanceOf(<<q, j, t>>) # p
      BY <3>1 DEF Run, InstanceOf
    <3>5. QED BY Zenon, <1>2, <3>3, <3>4
  <2>3. QED BY Zenon, <2>1, <2>2 DEF FreshRuns
<1>5. QED BY Zenon, <1>3, <1>4 DEF AccountInv

\* Start counts the entries' times from now; nothing has run yet.
LEMMA StartAccounts ==
  ASSUME now \in Time, AccountInv, NEW p \in Instance, Start(p)
  PROVE  AccountInv'
<1>1. /\ status[p] = "new" /\ status' = [status EXCEPT ![p] = "running"]
      /\ due' = [due EXCEPT ![p] = [j \in Job |-> NextDue(j, now)]]
      /\ UNCHANGED <<pc, win, claims, enqueued, dropped>>
  BY Zenon DEF Start, SetupCronJobs, runVars
<1>2. now \in Nat /\ \A j \in Job : NextDue(j, now) \in Nat
  <2>1. now \in Nat
    BY CronAssumption DEF Time
  <2>2. QED BY Zenon, <2>1, NextDueAhead
<1>3. status' \in [Instance -> Status] /\ due' \in [Instance -> [Job -> Nat]]
  <2>1. [j \in Job |-> NextDue(j, now)] \in [Job -> Nat]
    BY Zenon, <1>2
  <2>2. "running" \in Status
    BY Zenon DEF Status
  <2>3. QED BY Zenon, <1>1, <2>1, <2>2 DEF AccountInv, FreshRuns
<1>4. ASSUME NEW q \in Instance, NEW j \in Job, NEW t \in Time,
             status'[q] = "new" \/ (status'[q] = "running" /\ t >= due'[q][j])
      PROVE  pc'[<<q, j, t>>] = "none"
  <2>1. CASE q = p
    BY Zenon, <1>1, <2>1 DEF AccountInv, FreshRuns
  <2>2. CASE q # p
    <3>1. status'[q] = status[q] /\ due'[q] = due[q]
      BY Zenon, <1>1, <2>2 DEF AccountInv, FreshRuns
    <3>2. QED BY Zenon, <1>1, <1>4, <3>1 DEF AccountInv, FreshRuns
  <2>3. QED BY Zenon, <2>1, <2>2
<1>5. FreshRuns'
  BY Zenon, <1>3, <1>4 DEF FreshRuns
<1>6. QED BY Zenon, <1>1, <1>5, AccountKept DEF AccountInv

\* An entry that fires starts a goroutine that was not there, and is due again
\* only later.
LEMMA FireAccounts ==
  ASSUME RunsTyped, AccountInv, NEW p \in Instance, NEW j \in Job, Fire(p, j)
  PROVE  AccountInv'
<1> DEFINE d == due[p][j]
           n == NextDue(j, now)
           r == <<p, j, d>>
<1>1. /\ status[p] = "running" /\ now >= d /\ RGoto(r, "start")
      /\ due' = [due EXCEPT ![p] = [due[p] EXCEPT ![j] = n]]
      /\ UNCHANGED <<status, win, claims, enqueued, dropped>>
  BY Zenon DEF Fire
<1>2. d \in Nat /\ now \in Nat /\ d \in Time
  BY <1>1, CronAssumption DEF AccountInv, FreshRuns, RunsTyped, Time
<1>3. n \in Nat /\ n > now
  BY Zenon, <1>2, NextDueAhead
<1>4. r \in Run
  BY Zenon, <1>2 DEF Run
<1>5. d >= d
  BY <1>2
<1>6. pc[r] = "none"
  BY Zenon, <1>1, <1>2, <1>5 DEF AccountInv, FreshRuns
<1>7. ~Held(r) /\ \A x \in Run \ {r} : pc'[x] = pc[x] /\ Key(x)' = Key(x)
  BY Zenon, <1>1, <1>4, <1>6 DEF Held, RGoto, RunsTyped, Key
<1>8. ClaimedAccounted'
  BY Zenon, <1>1, <1>4, <1>7, RunAccounts DEF AccountInv
<1>9. due' \in [Instance -> [Job -> Nat]]
  BY Zenon, <1>1, <1>3 DEF AccountInv, FreshRuns
<1>10. ASSUME NEW q \in Instance, NEW i \in Job, NEW t \in Time,
              status'[q] = "new" \/ (status'[q] = "running" /\ t >= due'[q][i])
       PROVE  pc'[<<q, i, t>>] = "none"
  <2>1. CASE q = p /\ i = j
    <3>1. due'[q][i] = n
      BY Zenon, <1>1, <2>1 DEF AccountInv, FreshRuns
    <3>2. t >= n
      BY <1>1, <1>10, <2>1, <3>1
    <3>3. t >= d /\ t # d
      BY <1>1, <1>2, <1>3, <3>2 DEF Time
    <3>4. pc[<<q, i, t>>] = "none"
      BY Zenon, <1>1, <2>1, <3>3 DEF AccountInv, FreshRuns
    <3>5. <<q, i, t>> \in Run \ {r}
      BY <3>3 DEF Run
    <3>6. QED BY Zenon, <1>7, <3>4, <3>5
  <2>2. CASE ~(q = p /\ i = j)
    <3>1. due'[q][i] = due[q][i]
      BY Zenon, <1>1, <2>2 DEF AccountInv, FreshRuns
    <3>2. pc[<<q, i, t>>] = "none"
      BY Zenon, <1>1, <1>10, <3>1 DEF AccountInv, FreshRuns
    <3>3. <<q, i, t>> \in Run \ {r}
      BY <2>2 DEF Run
    <3>4. QED BY Zenon, <1>7, <3>2, <3>3
  <2>3. QED BY Zenon, <2>1, <2>2
<1>11. FreshRuns'
  BY Zenon, <1>1, <1>9, <1>10 DEF FreshRuns, AccountInv
<1>12. QED BY Zenon, <1>8, <1>11 DEF AccountInv

\* A step that starts nothing: at most it takes instances out of service.
LEMMA OthersAccount ==
  ASSUME AccountInv, UNCHANGED <<due, pc, win, claims, enqueued, dropped>>,
         \/ UNCHANGED status
         \/ \E p \in Instance, s \in Status \ {"new", "running"} :
              status' = [status EXCEPT ![p] = s]
  PROVE  AccountInv'
<1>1. /\ status' \in [Instance -> Status]
      /\ \A p \in Instance : status'[p] \in {"new", "running"} => status[p] = status'[p]
  BY Zenon DEF AccountInv, FreshRuns
<1>2. FreshRuns'
  BY Zenon, <1>1, FreshKept DEF AccountInv
<1>3. QED BY Zenon, <1>2, AccountKept DEF AccountInv

\* Every step accounts for the windows that are claimed.
LEMMA AccountStep ==
  ASSUME RunsTyped, AccountInv, [CronNext]_cronVars
  PROVE  AccountInv'
<1>1. ASSUME NEW p \in Instance, Election(p) PROVE AccountInv'
  BY Zenon, <1>1, OthersAccount DEF Election, TryAcquireLeadership, AcquireFails, CheckLeader,
     CheckFails, RenewLease, LoopEnds, instanceVars, runVars
<1>2. ASSUME NEW p \in Instance, Lifecycle(p) PROVE AccountInv'
  <2>1. CASE Start(p)
    BY Zenon, <2>1, StartAccounts DEF RunsTyped
  <2>2. CASE Crash(p)
    BY Zenon, <2>2, CrashAccounts
  <2>3. {"stopping", "released", "stopped"} \subseteq Status \ {"new", "running"}
    BY DEF Status
  <2>4. CASE Stop(p) \/ StopReturns(p) \/ ReleaseLeadership(p) \/ ReleaseFails(p)
               \/ DeleteLeader(p) \/ DeleteFails(p)
    <3>1. /\ UNCHANGED <<due, pc, win, claims, enqueued, dropped>>
          /\ \/ UNCHANGED status
             \/ \E s \in {"stopping", "released", "stopped"} :
                  status' = [status EXCEPT ![p] = s]
      BY Zenon, <2>4 DEF Stop, StopReturns, ReleaseLeadership, ReleaseFails, DeleteLeader,
         DeleteFails, runVars
    <3>2. QED BY Zenon, <2>3, <3>1, OthersAccount
  <2>5. QED BY Zenon, <1>2, <2>1, <2>2, <2>4 DEF Lifecycle
<1>3. ASSUME NEW p \in Instance, NEW j \in Job, JobOperation(p, j) PROVE AccountInv'
  <2>1. CASE Fire(p, j)
    BY Zenon, <2>1, FireAccounts
  <2>2. CASE RegisterJob(p, j) \/ AcquireSingletonLock(p, j) \/ ReleaseSingletonLock(p, j)
    BY Zenon, <2>2, OthersAccount DEF RegisterJob, AcquireSingletonLock, ReleaseSingletonLock,
       instanceVars, runVars
  <2>3. QED BY Zenon, <1>3, <2>1, <2>2 DEF JobOperation
<1>4. ASSUME NEW r \in Run, ExecuteScheduledJob(r) PROVE AccountInv'
  BY Zenon, <1>4, GoroutineAccounts
<1>5. ASSUME NEW j \in Job, SingletonExpires(j) PROVE AccountInv'
  BY Zenon, <1>5, OthersAccount DEF SingletonExpires, instanceVars, runVars
<1>6. ASSUME NEW c \in claims, ClaimExpires(c) PROVE AccountInv'
  <2>1. /\ UNCHANGED <<due, status, pc, win, enqueued, dropped>>
        /\ claims' \subseteq claims
    BY Zenon, <1>6 DEF ClaimExpires, instanceVars
  <2>2. ClaimedAccounted'
    BY Zenon, <2>1 DEF AccountInv, ClaimedAccounted, Key
  <2>3. FreshRuns'
    BY Zenon, <2>1 DEF AccountInv, FreshRuns
  <2>4. QED BY Zenon, <2>2, <2>3 DEF AccountInv
<1>7. CASE LeaseExpires \/ Tick \/ UNCHANGED cronVars
  BY Zenon, <1>7, OthersAccount DEF LeaseExpires, Tick, cronVars, instanceVars, runVars
<1>8. QED BY Zenon, <1>1, <1>2, <1>3, <1>4, <1>5, <1>6, <1>7 DEF CronNext

\* A claimed window is enqueued, held by a goroutine that goes on with it, or
\* given up where executeScheduledJob says so.
THEOREM ClaimsAccounted == CronSpec => []ClaimedAccounted
<1>1. CronInit => AccountInv
  <2> SUFFICES ASSUME CronInit PROVE AccountInv
    BY Zenon
  <2>1. \A p \in Instance, j \in Job, t \in Time : pc[<<p, j, t>>] = "none"
    BY Zenon DEF CronInit, Run
  <2>2. status \in [Instance -> Status] /\ due \in [Instance -> [Job -> Nat]]
    BY DEF CronInit, Status
  <2>3. QED BY Zenon, <2>1, <2>2 DEF CronInit, AccountInv, FreshRuns, ClaimedAccounted
<1>2. CronInv /\ AccountInv /\ [CronNext]_cronVars => AccountInv'
  BY Zenon, AccountStep DEF CronInv
<1>3. QED BY <1>1, <1>2, CronInvariant, PTL DEF CronSpec, AccountInv

-----------------------------------------------------------------------------
\* While s.cron takes other than five fields: what is registered has five, so
\* nothing is an entry, and no goroutine has got anywhere.
Unfired ==
  /\ registered \in [Instance -> SUBSET {j \in Job : Fields[j] = 5}]
  /\ entries = [p \in Instance |-> {}]
  /\ pc \in [Run -> {"none", "done"}]
  /\ enqueued = {}

\* A step that leaves the entries, the registry and the goroutines alone.
LEMMA UnfiredKept ==
  ASSUME Unfired, UNCHANGED <<registered, entries, pc, enqueued>>
  PROVE  Unfired'
BY Zenon DEF Unfired

\* With two different parsers nothing is ever set up.
LEMMA UnfiredStep ==
  ASSUME CronFields # 5, Unfired, [CronNext]_cronVars
  PROVE  Unfired'
<1>1. ASSUME NEW p \in Instance, Election(p) PROVE Unfired'
  BY Zenon, <1>1, UnfiredKept DEF Election, TryAcquireLeadership, AcquireFails, CheckLeader,
     CheckFails, RenewLease, LoopEnds, instanceVars, runVars
<1>2. ASSUME NEW p \in Instance, Lifecycle(p) PROVE Unfired'
  <2>1. CASE Start(p)
    <3>1. UNCHANGED <<registered, pc, enqueued>> /\ SetupCronJobs(p)
      BY Zenon, <2>1 DEF Start, runVars
    <3>2. {j \in registered[p] : Fields[j] = CronFields} = {}
      BY Zenon, CronAssumption DEF Unfired
    <3>3. entries' = [q \in Instance |-> {}]
      BY Zenon, <3>1, <3>2 DEF SetupCronJobs, Unfired
    <3>4. QED BY Zenon, <3>1, <3>3 DEF Unfired
  <2>2. CASE Stop(p)
    BY <2>2, Zenon DEF Unfired, Stop, runVars
  <2>3. CASE Crash(p)
    <3>1. entries' = [entries EXCEPT ![p] = {}] /\ UNCHANGED <<registered, enqueued>>
      BY Zenon, <2>3 DEF Crash
    <3>2. pc' = [r \in Run |-> IF InstanceOf(r) = p THEN "done" ELSE pc[r]]
      BY Zenon, <2>3 DEF Crash
    <3>3. QED BY <3>1, <3>2, Zenon DEF Unfired
  <2>4. CASE StopReturns(p) \/ ReleaseLeadership(p) \/ ReleaseFails(p) \/ DeleteLeader(p)
             \/ DeleteFails(p)
    BY Zenon, <2>4, UnfiredKept DEF StopReturns, ReleaseLeadership, ReleaseFails, DeleteLeader,
       DeleteFails, runVars
  <2>5. QED BY Zenon, <1>2, <2>1, <2>2, <2>3, <2>4 DEF Lifecycle
<1>3. ASSUME NEW p \in Instance, NEW j \in Job, JobOperation(p, j) PROVE Unfired'
  <2>1. CASE RegisterJob(p, j)
    BY Zenon, <2>1 DEF Unfired, RegisterJob, runVars
  <2>2. ~Fire(p, j)
    BY Zenon DEF Fire, Unfired
  <2>3. CASE AcquireSingletonLock(p, j) \/ ReleaseSingletonLock(p, j)
    BY Zenon, <2>3, UnfiredKept
       DEF AcquireSingletonLock, ReleaseSingletonLock, instanceVars, runVars
  <2>4. QED BY Zenon, <1>3, <2>1, <2>2, <2>3 DEF JobOperation
<1>4. ASSUME NEW r \in Run, ExecuteScheduledJob(r) PROVE FALSE
  <2>1. pc[r] \in {"none", "done"}
    BY Zenon DEF Unfired
  <2>2. QED
    BY Zenon, <1>4, <2>1
       DEF ExecuteScheduledJob, CheckLeadership, AcquireCronExecutionLock, ClaimFails,
       IsSingletonJobRunning, SingletonUnknown, Enqueue, EnqueueFails
<1>5. CASE \/ \E j \in Job : SingletonExpires(j)
           \/ \E c \in claims : ClaimExpires(c)
           \/ LeaseExpires \/ Tick \/ UNCHANGED cronVars
  BY Zenon, <1>5, UnfiredKept DEF SingletonExpires, ClaimExpires, LeaseExpires, Tick, instanceVars,
     runVars, cronVars
<1>6. QED BY Zenon, <1>1, <1>2, <1>3, <1>4, <1>5 DEF CronNext

\* NewScheduler and RegisterJob disagree about the seconds, so no scheduled job
\* is ever enqueued as long as the cron is made with WithSeconds.
THEOREM NoScheduledJob == CronSpec => []NothingFires
<1>1. CASE CronFields # 5
  <2>1. CronInit => Unfired
    BY DEF CronInit, Unfired
  <2>2. Unfired /\ [CronNext]_cronVars => Unfired'
    BY Zenon, <1>1, UnfiredStep
  <2>3. Unfired => NothingFires
    BY Zenon DEF Unfired, NothingFires
  <2>4. QED BY <2>1, <2>2, <2>3, PTL DEF CronSpec
<1>2. CASE CronFields = 5
  <2>1. NothingFires
    BY Zenon, <1>2 DEF NothingFires
  <2>2. QED BY <2>1, PTL
<1>3. QED BY Zenon, <1>1, <1>2
-----------------------------------------------------------------------------
\* Another instance than p has given its leadership up, or died.
Ended(q) == status[q] \in {"released", "stopped", "dead"}
EndedBut(p) == \E q \in Instance \ {p} : Ended(q)

ElectionTyped ==
  /\ status \in [Instance -> Status] /\ loop \in [Instance -> BOOLEAN]
  /\ mu \in [Instance -> {"free", "get", "renew", "delete"}]
  /\ isLeader \in [Instance -> BOOLEAN] /\ leader \in Instance \cup {None}

\* The key is p's, or may have been taken from p by another instance's Stop.
OwnKey(p) == leader = p \/ EndedBut(p)

\* A new instance has no part in the election; a tick is inside the loop, and
\* one about to renew has seen its own key.
LeaderInv ==
  /\ ElectionTyped
  /\ \A p \in Instance : status[p] = "new" => ~loop[p] /\ ~isLeader[p] /\ mu[p] = "free"
  /\ \A p \in Instance : mu[p] \in {"get", "renew"} => loop[p]
  /\ \A p \in Instance \ Slow : mu[p] = "renew" => OwnKey(p)
  /\ \A p \in Instance \ Slow : isLeader[p] /\ loop[p] => OwnKey(p)

\* An instance that has ended stays so.
LEMMA EndedStays ==
  ASSUME NEW p \in Instance, EndedBut(p), \A q \in Instance : Ended(q) => Ended(q)'
  PROVE  EndedBut(p)'
BY Zenon DEF EndedBut

\* A step of instance p's own, as far as it changes the others.
Spares(p) ==
  /\ \A q \in Instance \ {p} : /\ status'[q] = status[q] /\ loop'[q] = loop[q]
                               /\ mu'[q] = mu[q] /\ isLeader'[q] = isLeader[q]
  /\ Ended(p) => Ended(p)'
  /\ \A q \in Instance \ {p} : leader = q => leader' = q \/ Ended(p)'

\* What the invariant asks of p, afterwards.
OwnPart(p) ==
  /\ status[p] = "new" => ~loop[p] /\ ~isLeader[p] /\ mu[p] = "free"
  /\ mu[p] \in {"get", "renew"} => loop[p]
  /\ p \notin Slow /\ mu[p] = "renew" => OwnKey(p)
  /\ p \notin Slow /\ isLeader[p] /\ loop[p] => OwnKey(p)

\* A step of p's own keeps the invariant if it does for p, and takes the key
\* from nobody.
LEMMA OwnStep ==
  ASSUME LeaderInv, ElectionTyped', NEW p \in Instance, Spares(p), OwnPart(p)'
  PROVE  LeaderInv'
<1> USE DEF Spares, OwnPart
<1>1. \A q \in Instance : Ended(q) => Ended(q)'
  BY Zenon DEF Ended
<1>2. \A q \in Instance \ {p} : OwnKey(q) => OwnKey(q)'
  <2> SUFFICES ASSUME NEW q \in Instance \ {p}, OwnKey(q) PROVE OwnKey(q)'
    BY Zenon
  <2>1. CASE EndedBut(q)
    BY Zenon, <1>1, <2>1, EndedStays DEF OwnKey
  <2>2. CASE leader = q
    BY Zenon, <2>2 DEF OwnKey, EndedBut
  <2>3. QED BY Zenon, <2>1, <2>2 DEF OwnKey
<1>3. QED BY Zenon, <1>2 DEF LeaderInv

\* Steps that are not about the election.
LEMMA ElectionKept ==
  ASSUME LeaderInv, UNCHANGED <<status, loop, mu, isLeader, leader>>
  PROVE  LeaderInv'
BY Zenon DEF LeaderInv, ElectionTyped, OwnKey, EndedBut, Ended

\* leaderElectionLoop keeps the invariant.
LEMMA ElectionStep ==
  ASSUME LeaderInv, NEW p \in Instance, Election(p)
  PROVE  LeaderInv'
<1> USE DEF LeaderInv, ElectionTyped, Ended, instanceVars, Status
<1>1. CASE TryAcquireLeadership(p)
  <2>1. ElectionTyped'
    BY <1>1, CronAssumption, Zenon DEF TryAcquireLeadership
  <2>2. Spares(p)
    BY Zenon, <1>1, CronAssumption DEF Spares, TryAcquireLeadership
  <2>3. OwnPart(p)'
    BY Zenon, <1>1, CronAssumption DEF OwnPart, OwnKey, EndedBut, TryAcquireLeadership
  <2>4. QED BY Zenon, <2>1, <2>2, <2>3, OwnStep
<1>2. CASE AcquireFails(p)
  <2>1. ElectionTyped'
    BY Zenon, <1>2, CronAssumption DEF AcquireFails
  <2>2. Spares(p)
    BY Zenon, <1>2, CronAssumption DEF Spares, AcquireFails
  <2>3. OwnPart(p)'
    BY Zenon, <1>2, CronAssumption DEF OwnPart, OwnKey, EndedBut, AcquireFails
  <2>4. QED BY <2>1, <2>2, <2>3, OwnStep
<1>3. CASE CheckLeader(p)
  <2>1. ElectionTyped'
    BY <1>3, Zenon DEF CheckLeader
  <2>2. Spares(p)
    BY Zenon, <1>3 DEF Spares, CheckLeader
  <2>3. OwnPart(p)'
    BY Zenon, <1>3 DEF OwnPart, OwnKey, EndedBut, CheckLeader
  <2>4. QED BY <2>1, <2>2, <2>3, OwnStep
<1>4. CASE CheckFails(p)
  <2>1. ElectionTyped'
    BY Zenon, <1>4 DEF CheckFails
  <2>2. Spares(p)
    BY Zenon, <1>4 DEF Spares, CheckFails
  <2>3. OwnPart(p)'
    BY Zenon, <1>4 DEF OwnPart, OwnKey, EndedBut, CheckFails
  <2>4. QED BY <2>1, <2>2, <2>3, OwnStep
<1>5. CASE RenewLease(p)
  <2>1. ElectionTyped'
    BY Zenon, <1>5 DEF RenewLease
  <2>2. Spares(p)
    BY Zenon, <1>5 DEF Spares, RenewLease
  <2>3. OwnPart(p)'
    BY Zenon, <1>5 DEF OwnPart, OwnKey, EndedBut, RenewLease
  <2>4. QED BY <2>1, <2>2, <2>3, OwnStep
<1>6. CASE LoopEnds(p)
  <2>1. ElectionTyped'
    BY Zenon, <1>6 DEF LoopEnds
  <2>2. Spares(p)
    BY Zenon, <1>6 DEF Spares, LoopEnds
  <2>3. OwnPart(p)'
    BY Zenon, <1>6 DEF OwnPart, OwnKey, EndedBut, LoopEnds
  <2>4. QED BY <2>1, <2>2, <2>3, OwnStep
<1>7. QED BY Zenon, <1>1, <1>2, <1>3, <1>4, <1>5, <1>6 DEF Election

\* Start, Stop and a crash keep the invariant.
LEMMA LifecycleStep ==
  ASSUME LeaderInv, NEW p \in Instance, Lifecycle(p)
  PROVE  LeaderInv'
<1> USE DEF LeaderInv, ElectionTyped, Ended, Status
<1>1. CASE Start(p)
  <2>1. ElectionTyped'
    BY Zenon, <1>1 DEF Start
  <2>2. Spares(p)
    BY Zenon, <1>1 DEF Spares, Start
  <2>3. OwnPart(p)'
    BY Zenon, <1>1 DEF OwnPart, OwnKey, EndedBut, Start
  <2>4. QED BY <2>1, <2>2, <2>3, OwnStep
<1>2. CASE Stop(p)
  <2>1. ElectionTyped'
    BY Zenon, <1>2 DEF Stop, leaderVars
  <2>2. Spares(p)
    BY Zenon, <1>2 DEF Spares, Stop, leaderVars
  <2>3. OwnPart(p)'
    BY Zenon, <1>2 DEF OwnPart, OwnKey, EndedBut, Stop, leaderVars
  <2>4. QED BY <2>1, <2>2, <2>3, OwnStep
<1>3. CASE StopReturns(p)
  <2>1. ElectionTyped'
    BY Zenon, <1>3 DEF StopReturns, leaderVars
  <2>2. Spares(p)
    BY Zenon, <1>3 DEF Spares, StopReturns, leaderVars
  <2>3. OwnPart(p)'
    BY Zenon, <1>3 DEF OwnPart, OwnKey, EndedBut, StopReturns, leaderVars
  <2>4. QED BY <2>1, <2>2, <2>3, OwnStep
<1>4. CASE Crash(p)
  <2>1. ElectionTyped'
    BY ZenonT(60), <1>4 DEF Crash, Up
  <2>2. Spares(p)
    BY ZenonT(60), <1>4 DEF Spares, Crash, Up
  <2>3. OwnPart(p)'
    BY Zenon, <1>4 DEF OwnPart, OwnKey, EndedBut, Crash, Up
  <2>4. QED BY <2>1, <2>2, <2>3, OwnStep
<1>5. CASE ReleaseLeadership(p)
  <2>1. ElectionTyped'
    BY <1>5, Zenon DEF ReleaseLeadership
  <2>2. Spares(p)
    BY Zenon, <1>5 DEF Spares, ReleaseLeadership
  <2>3. OwnPart(p)'
    BY Zenon, <1>5 DEF OwnPart, OwnKey, EndedBut, ReleaseLeadership
  <2>4. QED BY <2>1, <2>2, <2>3, OwnStep
<1>6. CASE ReleaseFails(p)
  <2>1. ElectionTyped'
    BY Zenon, <1>6 DEF ReleaseFails
  <2>2. Spares(p)
    BY Zenon, <1>6 DEF Spares, ReleaseFails
  <2>3. OwnPart(p)'
    BY Zenon, <1>6 DEF OwnPart, OwnKey, EndedBut, ReleaseFails
  <2>4. QED BY <2>1, <2>2, <2>3, OwnStep
<1>7. CASE DeleteLeader(p)
  <2>1. ElectionTyped'
    BY Zenon, <1>7 DEF DeleteLeader
  <2>2. Spares(p)
    BY Zenon, <1>7 DEF Spares, DeleteLeader
  <2>3. OwnPart(p)'
    BY Zenon, <1>7 DEF OwnPart, OwnKey, EndedBut, DeleteLeader
  <2>4. QED BY <2>1, <2>2, <2>3, OwnStep
<1>8. CASE DeleteFails(p)
  <2>1. ElectionTyped'
    BY Zenon, <1>8 DEF DeleteFails
  <2>2. Spares(p)
    BY Zenon, <1>8 DEF Spares, DeleteFails
  <2>3. OwnPart(p)'
    BY Zenon, <1>8 DEF OwnPart, OwnKey, EndedBut, DeleteFails
  <2>4. QED BY <2>1, <2>2, <2>3, OwnStep
<1>9. QED BY Zenon, <1>1, <1>2, <1>3, <1>4, <1>5, <1>6, <1>7, <1>8 DEF Lifecycle

\* Every step of the schedulers keeps it.
LEMMA LeaderStep == LeaderInv /\ [CronNext]_cronVars => LeaderInv'
<1> SUFFICES ASSUME LeaderInv, [CronNext]_cronVars PROVE LeaderInv'
  OBVIOUS
<1>1. ASSUME NEW p \in Instance, Election(p) \/ Lifecycle(p) PROVE LeaderInv'
  BY Zenon, <1>1, ElectionStep, LifecycleStep
<1>2. ASSUME NEW p \in Instance, NEW j \in Job, JobOperation(p, j) PROVE LeaderInv'
  BY Zenon, <1>2, ElectionKept DEF JobOperation, RegisterJob, Fire, AcquireSingletonLock,
     ReleaseSingletonLock, instanceVars, leaderVars
<1>3. ASSUME NEW r \in Run, ExecuteScheduledJob(r) PROVE LeaderInv'
  BY Zenon, <1>3, ElectionKept DEF ExecuteScheduledJob, CheckLeadership, AcquireCronExecutionLock,
     ClaimFails, IsSingletonJobRunning, SingletonUnknown, Enqueue, EnqueueFails, instanceVars,
     leaderVars
<1>4. CASE LeaseExpires
  <2>1. /\ leader \in Instance /\ leader' = None /\ UNCHANGED <<status, loop, mu, isLeader>>
        /\ leader \in Slow \/ ~loop[leader]
    BY Zenon, <1>4 DEF LeaseExpires, LeaderInv, ElectionTyped, instanceVars
  <2>2. \A p \in Instance : EndedBut(p) => EndedBut(p)'
    BY Zenon, <2>1 DEF EndedBut, Ended
  <2>3. QED BY Zenon, <2>1, <2>2 DEF LeaderInv, ElectionTyped, OwnKey
<1>5. CASE \/ \E j \in Job : SingletonExpires(j)
           \/ \E c \in claims : ClaimExpires(c)
           \/ Tick \/ UNCHANGED cronVars
  BY Zenon, <1>5, ElectionKept DEF SingletonExpires, ClaimExpires, Tick, instanceVars, leaderVars,
     cronVars
<1>6. QED BY Zenon, <1>1, <1>2, <1>3, <1>4, <1>5 DEF CronNext

\* An instance that renews in time takes itself for the leader only while the
\* leader key is its own, or another instance's Stop may have deleted it.
THEOREM LeadersHoldKey == CronSpec => []LeaderHoldsKey
<1>1. CronInit => LeaderInv
  BY SMTT(30) DEF CronInit, LeaderInv, ElectionTyped, Status
<1>2. LeaderInv => LeaderHoldsKey
  BY Zenon DEF LeaderInv, LeaderHoldsKey, OwnKey, EndedBut, Ended
<1>3. QED BY <1>1, <1>2, LeaderStep, PTL DEF CronSpec
-----------------------------------------------------------------------------
(* The accounts.  Usernames and addresses stay unique, writes that do not  *)
(* overlap are kept, refresh tokens rotate, and who is signed out stays    *)
(* signed out.                                                             *)

Field == {"email", "pw", "active"}
Place == {"idle", "email", "save", "address", "create", "issue", "revoke", "load"}

Requests == [at : Place, user : Nat, row : Row \cup {Nobody}, sets : SUBSET Field, token : Nat]
Token == [user : Nat, state : {"valid", "expired", "revoked"}, from : Nat]

\* What request r holds exists, and is a row where it is to be saved.
Holds(r, U, T) ==
  /\ r.at \in {"email", "save"} => r.user \in U
  /\ r.at \in {"email", "save", "address", "create"} => r.row \in Row
  /\ r.at \in {"revoke", "load"} => r.token \in T
  /\ r.at = "issue" /\ r.token # 0 => r.token \in T

Sound(r) == Holds(r, DOMAIN users, DOMAIN tokens)

Typed ==
  /\ backend \in {"gorm", "mongo"}
  /\ users \in Seq(Row) /\ wanted \in Seq(Row) /\ Len(wanted) = Len(users)
  /\ tokens \in Seq(Token)
  /\ req \in [Req -> Requests]
  /\ \A q \in Req : Sound(req[q])

\* The row that r has read is still the one in the table, but for what r sets.
FreshIn(r, rows, over) ==
  r.at \in {"email", "save"} /\ r.user \notin over =>
    /\ ~rows[r.user].gone /\ ~r.row.gone
    /\ \A f \in {"name"} \cup (Field \ r.sets) : r.row[f] = rows[r.user][f]

Fresh(r) == FreshIn(r, users, overlaid)

\* r exchanges a refresh token.
Exchanging(r) == r.at \in {"revoke", "load"} \/ (r.at = "issue" /\ r.token # 0)
-----------------------------------------------------------------------------
(* Rows.                                                                   *)

\* Two rows with the same fields are the same.
LEMMA SameRow ==
  ASSUME NEW r \in Row, NEW s \in Row,
         r.name = s.name, r.email = s.email, r.pw = s.pw,
         r.active = s.active, r.gone = s.gone
  PROVE  r = s
BY DEF Row

\* A row with the fields F of another.
Over(old, row, F) == [f \in DOMAIN old |-> IF f \in F THEN row[f] ELSE old[f]]

\* Such a row is one, and has the fields one expects.
LEMMA Overwritten ==
  ASSUME NEW old \in Row, NEW row \in Row, NEW F
  PROVE  /\ Over(old, row, F) \in Row
         /\ \A f \in DOMAIN old :
              Over(old, row, F)[f] = IF f \in F THEN row[f] ELSE old[f]
         /\ DOMAIN old = {"name", "email", "pw", "active", "gone"}
<1>1. DOMAIN old = {"name", "email", "pw", "active", "gone"}
  BY Zenon DEF Row
<1> QED  BY Zenon, <1>1 DEF Row, Over

\* What the two back ends write: the row, except that MongoDB leaves deleted_at
\* alone and GORM may activate a user who was deleted.
LEMMA Saved ==
  ASSUME Typed, NEW u \in DOMAIN users, NEW row \in Row, UpdateUser(u, row)
  PROVE  \E new \in Row :
           /\ users' = [users EXCEPT ![u] = new]
           /\ new.name = row.name /\ new.email = row.email /\ new.pw = row.pw
           /\ ~users[u].gone => new.active = row.active
           /\ backend = "mongo" => new.gone = users[u].gone
           /\ backend = "gorm" => new.gone = row.gone
<1>0. users[u] \in Row
  BY DEF Typed
<1>1. CASE backend = "gorm"
  <2> DEFINE new == [row EXCEPT !.active = row.active \/ users[u].gone]
  <2>1. new \in Row /\ new.name = row.name /\ new.email = row.email /\ new.pw = row.pw
        /\ new.gone = row.gone /\ new.active = (row.active \/ users[u].gone)
    BY Zenon, <1>0 DEF Row
  <2>2. users' = [users EXCEPT ![u] = new]
    BY Zenon, <1>1 DEF UpdateUser, gormUpdate
  <2>3. ~users[u].gone => new.active = row.active
    BY Zenon, <2>1, <1>0 DEF Row
  <2> QED  BY Zenon, <1>1, <2>1, <2>2, <2>3
<1>2. CASE backend # "gorm"
  <2> DEFINE F == {"name", "email", "pw", "active"}
             new == Over(users[u], row, F)
  <2>1. DOMAIN ToDocument(row) = F /\ \A f \in F : ToDocument(row)[f] = row[f]
    BY Zenon DEF ToDocument, Row
  <2>2. users' = [users EXCEPT ![u] = new]
    BY Zenon, <1>2, <2>1 DEF UpdateUser, mongoUpdate, Over
  <2>3. new \in Row /\ new.name = row.name /\ new.email = row.email /\ new.pw = row.pw
        /\ new.active = row.active /\ new.gone = users[u].gone
    BY <1>0, Overwritten
  <2> QED  BY Zenon, <1>2, <2>2, <2>3
<1> QED  BY Zenon, <1>1, <1>2
-----------------------------------------------------------------------------
(* Steps that only change what a request holds.                            *)

\* Request q goes on as r, and nothing else changes.
Quiet(q) ==
  /\ \E r \in Requests : /\ req' = [req EXCEPT ![q] = r]
                         /\ Sound(r) /\ Fresh(r) /\ ~Exchanging(r)
  /\ UNCHANGED <<store, wanted, overlaid, authVars>>

\* An idle request holds nothing.
LEMMA IdleHolds ==
  /\ Idle \in Requests /\ Idle.at = "idle" /\ Idle.user = 0 /\ Idle.token = 0
  /\ Sound(Idle) /\ Fresh(Idle) /\ ~Exchanging(Idle)
BY Zenon DEF Idle, Requests, Place, Sound, Holds, Fresh, FreshIn, Exchanging

\* A request that has just read a row holds it as it is.
LEMMA ReadsQuietly ==
  ASSUME Typed, NEW q \in Req, NEW u \in DOMAIN users, NEW l \in {"email", "save"},
         NEW row \in Row, NEW sets \in SUBSET Field,
         \A f \in {"name", "gone"} \cup (Field \ sets) : row[f] = users[u][f],
         Reads(q, u, l, row, sets), UNCHANGED authVars
  PROVE  Quiet(q)
<1> DEFINE r == [Idle EXCEPT !.at = l, !.user = u, !.row = row, !.sets = sets]
<1>1. r.at = l /\ r.user = u /\ r.row = row /\ r.sets = sets /\ r.token = 0
  BY Zenon DEF Idle
<1>2. r \in Requests
  <2>1. l \in Place /\ u \in Nat
    BY DEF Place, Typed
  <2>2. [Idle EXCEPT !.at = l, !.user = u] \in Requests
    BY Zenon, <2>1, IdleHolds DEF Requests
  <2> QED  BY Zenon, <2>2 DEF Requests
<1> HIDE DEF r
<1>3. Sound(r) /\ ~Exchanging(r)
  BY Zenon, <1>1 DEF Sound, Holds, Exchanging
<1>4. Fresh(r)
  BY Zenon, <1>1 DEF Fresh, FreshIn, Reads, FindByID, notDeleted
<1>5. req' = [req EXCEPT ![q] = r] /\ UNCHANGED <<store, wanted, overlaid>>
  BY Zenon DEF Reads, r
<1> QED  BY Zenon, <1>2, <1>3, <1>4, <1>5 DEF Quiet

\* The changes of an account, up to the save.
LEMMA EditsQuietly ==
  ASSUME Typed, NEW q \in Req, NEW u \in DOMAIN users, UNCHANGED authVars,
         Update(q, u) \/ ChangePassword(q, u) \/ RepositoryUpdate(q, u)
  PROVE  Quiet(q)
<1>0. users[u] \in Row
  BY DEF Typed
<1>1. CASE Reads(q, u, "save", users[u], {})
  BY <1>0, <1>1, ReadsQuietly
<1>2. ASSUME NEW e \in Email, Reads(q, u, "email", [users[u] EXCEPT !.email = e], {"email"})
      PROVE  Quiet(q)
  <2>1. [users[u] EXCEPT !.email = e] \in Row
    BY Zenon, <1>0 DEF Row
  <2>2. \A f \in {"name", "gone"} \cup (Field \ {"email"}) :
          [users[u] EXCEPT !.email = e][f] = users[u][f]
    BY Zenon, <1>0 DEF Row, Field
  <2> QED  BY Zenon, <1>2, <2>1, <2>2, ReadsQuietly DEF Field
<1>3. ASSUME NEW p \in Password, Reads(q, u, "save", [users[u] EXCEPT !.pw = p], {"pw"})
      PROVE  Quiet(q)
  <2>1. [users[u] EXCEPT !.pw = p] \in Row
    BY Zenon, <1>0 DEF Row
  <2>2. \A f \in {"name", "gone"} \cup (Field \ {"pw"}) :
          [users[u] EXCEPT !.pw = p][f] = users[u][f]
    BY Zenon, <1>0 DEF Row, Field
  <2> QED  BY Zenon, <1>3, <2>1, <2>2, ReadsQuietly DEF Field
<1>4. ASSUME NEW sets \in Patch, NEW new \in Row,
             \A f \in DOMAIN new \ sets : new[f] = users[u][f],
             Reads(q, u, "save", new, sets)
      PROVE  Quiet(q)
  <2>1. sets \in SUBSET Field /\ "gone" \notin sets /\ "name" \notin sets
    BY Zenon, PatchAssumption DEF Field
  <2>2. DOMAIN new = {"name", "email", "pw", "active", "gone"}
    BY Zenon DEF Row
  <2>3. \A f \in {"name", "gone"} \cup (Field \ sets) : new[f] = users[u][f]
    BY Zenon, <1>4, <2>1, <2>2 DEF Field
  <2> QED  BY Zenon, <1>4, <2>1, <2>3, ReadsQuietly
<1> QED
  BY Zenon, <1>1, <1>2, <1>3, <1>4 DEF Update, ChangePassword, RepositoryUpdate

\* The other steps of this kind: the first ones of a registration and a login,
\* the checks, and failures.
LEMMA ChecksQuietly ==
  ASSUME Typed, NEW q \in Req, \A p \in Req : Fresh(req[p]), UNCHANGED authVars,
         \/ Register(q) \/ RegisterChecks(q) \/ Login(q)
         \/ UpdateChecks(q) \/ Fails(q)
  PROVE  Quiet(q)
<1>0. req \in [Req -> Requests] /\ req[q] \in Requests /\ Sound(req[q]) /\ Fresh(req[q])
  BY Zenon DEF Typed
<1>1. CASE Register(q)
  <2>1. PICK n \in Name, e \in Email, p \in Password :
          /\ req' = [req EXCEPT ![q] = [Idle EXCEPT !.at = "address", !.row = NewUser(n, e, p)]]
          /\ UNCHANGED <<store, wanted, overlaid, authVars>>
    BY Zenon, <1>1 DEF Register
  <2> DEFINE r == [Idle EXCEPT !.at = "address", !.row = NewUser(n, e, p)]
  <2>2. NewUser(n, e, p) \in Row
    BY Zenon DEF NewUser, Row
  <2>3. r \in Requests /\ Sound(r) /\ Fresh(r) /\ ~Exchanging(r)
    BY Zenon, <2>2 DEF Idle, Requests, Place, Sound, Holds, Fresh, FreshIn, Exchanging
  <2> QED  BY Zenon, <2>1, <2>3 DEF Quiet
<1>2. CASE RegisterChecks(q)
  <2> DEFINE r == [req[q] EXCEPT !.at = "create"]
  <2>1. r \in Requests /\ Sound(r) /\ Fresh(r) /\ ~Exchanging(r)
    BY Zenon, <1>0, <1>2
       DEF RegisterChecks, Requests, Place, Sound, Holds, Fresh, FreshIn, Exchanging
  <2>2. req' = [req EXCEPT ![q] = r]
    BY Zenon, <1>2 DEF RegisterChecks, Goes
  <2> QED  BY Zenon, <1>2, <2>1, <2>2 DEF RegisterChecks, Quiet
<1>3. CASE Login(q)
  <2>1. PICK u \in DOMAIN users :
          /\ req' = [req EXCEPT ![q] = [Idle EXCEPT !.at = "issue", !.user = u]]
          /\ UNCHANGED <<store, wanted, overlaid, authVars>>
    BY Zenon, <1>3 DEF Login, FindByUsernameOrEmail, FindByUsername, FindByEmail
  <2> DEFINE r == [Idle EXCEPT !.at = "issue", !.user = u]
  <2>2. u \in Nat
    BY DEF Typed
  <2>3. r \in Requests /\ Sound(r) /\ Fresh(r) /\ ~Exchanging(r)
    BY Zenon, <2>2 DEF Idle, Requests, Place, Sound, Holds, Fresh, FreshIn, Exchanging
  <2> QED  BY Zenon, <2>1, <2>3 DEF Quiet
<1>4. CASE UpdateChecks(q)
  <2> DEFINE r == [req[q] EXCEPT !.at = "save"]
  <2>1. r \in Requests /\ Sound(r) /\ Fresh(r) /\ ~Exchanging(r)
    BY Zenon, <1>0, <1>4 DEF UpdateChecks, Requests, Place, Sound, Holds, Fresh, FreshIn, Exchanging
  <2>2. req' = [req EXCEPT ![q] = r] \/ req' = [req EXCEPT ![q] = Idle]
    BY Zenon, <1>4 DEF UpdateChecks
  <2> QED  BY Zenon, <1>4, <2>1, <2>2, IdleHolds DEF UpdateChecks, Quiet
<1>5. CASE Fails(q)
  BY Zenon, <1>5, IdleHolds DEF Fails, Done, Quiet
<1> QED  BY Zenon, <1>1, <1>2, <1>3, <1>4, <1>5
-----------------------------------------------------------------------------
(* All steps.                                                              *)

\* A step of a request that exchanges or issues a token.
SessionStep(q) ==
  RefreshToken(q) \/ RefreshRevokes(q) \/ RefreshLoads(q) \/ GenerateAuthResponse(q)

\* Tokens end.
TokenEnds ==
  \/ \E t \in DOMAIN tokens :
       \/ Logout(t)
       \/ Expire(t) /\ UNCHANGED <<backend, users, userVars, authVars>>
  \/ \E u \in DOMAIN users : LogoutAll(u)

\* A row is created, by the repository layer or by Register, which goes on to
\* issue a token.
Created(q) ==
  /\ \E n \in Name, e \in Email, p \in Password : Create(q, n, e, p)
  /\ \/ UNCHANGED req
     \/ req' = [req EXCEPT ![q] = [Idle EXCEPT !.at = "issue", !.user = NextID(users)]]
  /\ UNCHANGED authVars

\* A row is changed.
Changed ==
  /\ (\E q \in Req : Save(q)) \/ (\E u \in DOMAIN users : Delete(u))
  /\ UNCHANGED authVars

\* Every step is of one of these kinds.
LEMMA StepKinds ==
  ASSUME Typed, \A p \in Req : Fresh(req[p]), [AccountNext]_vars
  PROVE  \/ UNCHANGED <<store, userVars, authVars>>
         \/ \E q \in Req : Quiet(q) \/ SessionStep(q) \/ Created(q)
         \/ TokenEnds
         \/ Changed
<1> DEFINE Goal == \/ UNCHANGED <<store, userVars, authVars>>
                   \/ \E q \in Req : Quiet(q) \/ SessionStep(q) \/ Created(q)
                   \/ TokenEnds
                   \/ Changed
<1> SUFFICES Goal  BY Zenon
<1>1. ASSUME NEW q \in Req, Register(q) \/ RegisterChecks(q) \/ Login(q)
      PROVE  Goal
  <2>1. UNCHANGED authVars
    BY Zenon, <1>1 DEF Register, RegisterChecks, Login
  <2> QED  BY Zenon, <1>1, <2>1, ChecksQuietly
<1>2. ASSUME NEW q \in Req, UpdateChecks(q) \/ Fails(q), UNCHANGED authVars
      PROVE  Goal
  BY Zenon, <1>2, ChecksQuietly
<1>3. ASSUME NEW q \in Req, NEW u \in DOMAIN users, UNCHANGED authVars,
             Update(q, u) \/ ChangePassword(q, u) \/ RepositoryUpdate(q, u)
      PROVE  Goal
  BY Zenon, <1>3, EditsQuietly
<1>4. ASSUME NEW q \in Req, RegisterCreates(q)
      PROVE  Goal
  <2>1. req[q].row \in Row
    BY Zenon, <1>4 DEF RegisterCreates, Typed, Sound, Holds
  <2>2. req[q].row.name \in Name /\ req[q].row.email \in Email /\ req[q].row.pw \in Password
    BY Zenon, <2>1 DEF Row
  <2>3. Created(q)
    BY Zenon, <1>4, <2>2 DEF RegisterCreates, Created
  <2> QED  BY Zenon, <2>3
<1>5. ASSUME NEW q \in Req, RepositoryCreate(q), UNCHANGED authVars
      PROVE  Goal
  <2>1. Created(q)
    BY Zenon, <1>5 DEF RepositoryCreate, Created
  <2> QED  BY <2>1
<1>6. ASSUME NEW q \in Req, Request(q)
      PROVE  Goal
  <2> HIDE DEF Goal
  <2> USE DEF Kept
  <2>1. CASE HTTPAuth(q) \/ GRPCAuth(q)
    BY Zenon, <2>1, <1>1 DEF HTTPAuth, GRPCAuth, SessionStep, TokenEnds, Goal
  <2>2. CASE HTTPUser(q) \/ HTTPDelete \/ GRPCUser(q)
    BY Zenon, <2>2, <1>3 DEF HTTPUser, HTTPDelete, GRPCUser, Changed, Goal
  <2>3. CASE GraphQL(q)
    BY Zenon, <2>3, <1>1, <1>3 DEF GraphQL, SessionStep, TokenEnds, Goal
  <2>4. CASE GRPCRepository(q)
    BY Zenon, <2>4, <1>3, <1>5 DEF GRPCRepository, Changed, Goal
  <2> QED  BY Zenon, <1>6, <2>1, <2>2, <2>3, <2>4 DEF Request
<1>7. ASSUME NEW q \in Req, AuthStep(q)
      PROVE  Goal
  BY Zenon, <1>7, <1>1, <1>4 DEF AuthStep, SessionStep
<1>8. ASSUME NEW q \in Req, Save(q), UNCHANGED authVars
      PROVE  Goal
  BY Zenon, <1>8 DEF Changed
<1>9. ASSUME NEW t \in DOMAIN tokens, Expire(t),
             UNCHANGED <<backend, users, userVars, authVars>>
      PROVE  Goal
  BY Zenon, <1>9 DEF TokenEnds
<1> HIDE DEF Goal
<1>10. CASE AccountNext
  BY Zenon, <1>10, <1>2, <1>6, <1>7, <1>8, <1>9 DEF AccountNext, Kept
<1>11. CASE UNCHANGED vars
  BY Zenon, <1>11 DEF vars, Goal
<1> QED  BY Zenon, <1>10, <1>11
-----------------------------------------------------------------------------
(* What the steps do to the tables.                                        *)

\* No token is lost or changes hands, and a revoked one stays revoked.
KeepsTokens ==
  /\ tokens' \in Seq(Token)
  /\ DOMAIN tokens \subseteq DOMAIN tokens'
  /\ \A t \in DOMAIN tokens :
       /\ tokens'[t].user = tokens[t].user /\ tokens'[t].from = tokens[t].from
       /\ tokens[t].state = "revoked" => tokens'[t].state = "revoked"

\* One token is revoked, or expires.
LEMMA OneEnds ==
  ASSUME Typed, NEW t \in DOMAIN tokens, NEW s \in {"revoked", "expired"},
         tokens' = [tokens EXCEPT ![t].state = s],
         s = "expired" => tokens[t].state = "valid"
  PROVE  /\ KeepsTokens /\ DOMAIN tokens' = DOMAIN tokens
         /\ s = "revoked" => tokens'[t].state = "revoked"
<1>1. tokens \in Seq(Token) /\ tokens[t] \in Token
  BY DEF Typed
<1> DEFINE new == [tokens[t] EXCEPT !.state = s]
<1>2. new \in Token /\ new.user = tokens[t].user /\ new.from = tokens[t].from /\ new.state = s
  BY Zenon, <1>1 DEF Token
<1>3. tokens' = [tokens EXCEPT ![t] = new]
  BY Zenon
<1> HIDE DEF new
<1>4. tokens' \in Seq(Token) /\ DOMAIN tokens' = DOMAIN tokens
  BY <1>1, <1>2, <1>3
<1>5. tokens'[t] = new /\ \A o \in DOMAIN tokens \ {t} : tokens'[o] = tokens[o]
  BY Zenon, <1>1, <1>3
<1> QED  BY Zenon, <1>2, <1>4, <1>5 DEF KeepsTokens

\* All tokens of a user are revoked.
LEMMA AllEnd ==
  ASSUME Typed, NEW u, RevokeAllByUserID(u)
  PROVE  /\ KeepsTokens /\ DOMAIN tokens' = DOMAIN tokens
         /\ \A t \in DOMAIN tokens : tokens[t].user = u => tokens'[t].state = "revoked"
<1> DEFINE new(t) == IF tokens[t].user = u
                     THEN [tokens[t] EXCEPT !.state = "revoked"] ELSE tokens[t]
<1>1. ASSUME NEW t \in DOMAIN tokens
      PROVE  /\ tokens'[t] = new(t) /\ new(t) \in Token
             /\ new(t).user = tokens[t].user /\ new(t).from = tokens[t].from
             /\ tokens[t].state = "revoked" => new(t).state = "revoked"
             /\ tokens[t].user = u => new(t).state = "revoked"
  <2>1. tokens[t] \in Token
    BY DEF Typed
  <2> QED  BY Zenon, <2>1 DEF RevokeAllByUserID, Token
<1>2. DOMAIN tokens' = DOMAIN tokens
  BY Zenon DEF RevokeAllByUserID
<1>3. tokens' \in Seq(Token)
  <2>1. DOMAIN tokens = 1 .. Len(tokens) /\ Len(tokens) \in Nat
    BY DEF Typed
  <2>2. tokens' = [t \in DOMAIN tokens |-> new(t)]
    BY Zenon DEF RevokeAllByUserID
  <2> HIDE DEF new
  <2>3. tokens' \in [1 .. Len(tokens) -> Token]
    BY Zenon, <1>1, <2>1, <2>2
  <2> QED  BY <2>1, <2>3
<1> HIDE DEF new
<1> QED  BY Zenon, <1>1, <1>2, <1>3 DEF KeepsTokens

\* One token is issued.
LEMMA OneIssued ==
  ASSUME Typed, NEW row \in Token, CreateToken(row)
  PROVE  /\ KeepsTokens
         /\ DOMAIN tokens' = DOMAIN tokens \cup {Len(tokens) + 1}
         /\ Len(tokens) + 1 \notin DOMAIN tokens
         /\ tokens'[Len(tokens) + 1] = row
         /\ \A t \in DOMAIN tokens : tokens'[t] = tokens[t]
<1>1. tokens \in Seq(Token) /\ tokens' = Append(tokens, row)
  BY Zenon DEF Typed, CreateToken
<1> QED  BY <1>1 DEF KeepsTokens

\* A request saves its row.
LEMMA SaveWrites ==
  ASSUME Typed, NEW q \in Req, Save(q)
  PROVE  LET u == req[q].user
             row == req[q].row
         IN  /\ u \in DOMAIN users /\ row \in Row /\ UniqueIndex(u, row)
             /\ \E new \in Row :
                  /\ users' = [users EXCEPT ![u] = new]
                  /\ new.name = row.name /\ new.email = row.email /\ new.pw = row.pw
                  /\ ~users[u].gone => new.active = row.active
                  /\ backend = "mongo" => new.gone = users[u].gone
                  /\ backend = "gorm" => new.gone = row.gone
             /\ wanted' = [wanted EXCEPT ![u] = Over(wanted[u], row, req[q].sets)]
             /\ Over(wanted[u], row, req[q].sets) \in Row
<1> DEFINE u == req[q].user
           row == req[q].row
<1>1. u \in DOMAIN users /\ row \in Row
  BY Zenon DEF Save, Typed, Sound, Holds
<1>2. UpdateUser(u, row) /\ UniqueIndex(u, row)
  BY Zenon DEF Save, UpdateUser
<1>3. wanted' = [wanted EXCEPT ![u] = Over(wanted[u], row, req[q].sets)]
  BY Zenon DEF Save, Over
<1>4. wanted[u] \in Row
  BY <1>1 DEF Typed
<1> HIDE DEF u, row
<1>5. Over(wanted[u], row, req[q].sets) \in Row
  BY <1>1, <1>4, Overwritten
<1>6. \E new \in Row :
        /\ users' = [users EXCEPT ![u] = new]
        /\ new.name = row.name /\ new.email = row.email /\ new.pw = row.pw
        /\ ~users[u].gone => new.active = row.active
        /\ backend = "mongo" => new.gone = users[u].gone
        /\ backend = "gorm" => new.gone = row.gone
  BY Zenon, <1>1, <1>2, Saved
<1> QED  BY Zenon, <1>1, <1>2, <1>3, <1>5, <1>6 DEF u, row
-----------------------------------------------------------------------------
(* Types.                                                                  *)

\* The tables keep their types and their rows.
TablesTyped ==
  /\ backend' \in {"gorm", "mongo"}
  /\ users' \in Seq(Row) /\ wanted' \in Seq(Row) /\ Len(wanted') = Len(users')
  /\ tokens' \in Seq(Token)
  /\ DOMAIN users \subseteq DOMAIN users' /\ DOMAIN tokens \subseteq DOMAIN tokens'

\* Then the requests stay sound ...
LEMMA OthersTyped ==
  ASSUME Typed, TablesTyped, UNCHANGED req
  PROVE  Typed'
BY Zenon DEF Typed, TablesTyped, Sound, Holds

\* ... also if one of them goes on.
LEMMA TypedMoves ==
  ASSUME Typed, TablesTyped, NEW q \in Req, NEW r \in Requests,
         req' = [req EXCEPT ![q] = r], Holds(r, DOMAIN users', DOMAIN tokens')
  PROVE  Typed'
<1>1. req' \in [Req -> Requests] /\ req'[q] = r /\ \A p \in Req \ {q} : req'[p] = req[p]
  BY Zenon DEF Typed
<1>2. ASSUME NEW p \in Req PROVE Holds(req'[p], DOMAIN users', DOMAIN tokens')
  BY Zenon, <1>1, <1>2 DEF Typed, TablesTyped, Sound, Holds
<1> QED  BY Zenon, <1>1, <1>2 DEF Typed, TablesTyped, Sound

\* The steps of a session.
LEMMA SessionTyped ==
  ASSUME Typed, NEW q \in Req, SessionStep(q)
  PROVE  Typed'
<1>0. req \in [Req -> Requests] /\ req[q] \in Requests /\ Sound(req[q])
  BY Zenon DEF Typed
<1>u. ASSUME UNCHANGED <<backend, users, wanted>>, KeepsTokens
      PROVE  TablesTyped
  BY Zenon, <1>u DEF Typed, TablesTyped, KeepsTokens
<1>k. ASSUME UNCHANGED tokens
      PROVE  KeepsTokens
  BY Zenon, <1>k DEF Typed, KeepsTokens
<1>1. CASE RefreshToken(q)
  <2>1. PICK t \in DOMAIN tokens :
          req' = [req EXCEPT ![q] = [Idle EXCEPT !.at = "revoke", !.token = t]]
    BY Zenon, <1>1 DEF RefreshToken
  <2> DEFINE r == [Idle EXCEPT !.at = "revoke", !.token = t]
  <2>2. r \in Requests
    <3>1. t \in Nat
      BY DEF Typed
    <3> QED  BY Zenon, <3>1, IdleHolds DEF Requests, Place
  <2>3. TablesTyped /\ DOMAIN tokens' = DOMAIN tokens
    BY Zenon, <1>1, <1>u, <1>k DEF RefreshToken, store
  <2>4. Holds(r, DOMAIN users', DOMAIN tokens')
    BY Zenon, <2>3 DEF Holds, Idle
  <2> QED  BY Zenon, <2>1, <2>2, <2>3, <2>4, TypedMoves
<1>2. CASE RefreshRevokes(q)
  <2> DEFINE r == [req[q] EXCEPT !.at = "load"]
  <2>1. req[q].at = "revoke" /\ req[q].token \in DOMAIN tokens
    BY Zenon, <1>0, <1>2 DEF RefreshRevokes, Sound, Holds
  <2>2. KeepsTokens
    BY Zenon, <1>2, <2>1, OneEnds DEF RefreshRevokes, RevokeByToken
  <2>3. TablesTyped
    BY Zenon, <1>2, <1>u, <2>2 DEF RefreshRevokes
  <2>4. r \in Requests /\ req' = [req EXCEPT ![q] = r]
    BY Zenon, <1>0, <1>2 DEF RefreshRevokes, Goes, Requests, Place
  <2>5. Holds(r, DOMAIN users', DOMAIN tokens')
    BY Zenon, <1>0, <2>1, <2>2 DEF Holds, KeepsTokens, Requests
  <2> QED  BY Zenon, <2>3, <2>4, <2>5, TypedMoves
<1>3. CASE RefreshLoads(q)
  <2> DEFINE u == tokens[req[q].token].user
             r == [req[q] EXCEPT !.at = "issue", !.user = u]
  <2>1. req[q].at = "load" /\ req[q].token \in DOMAIN tokens
    BY Zenon, <1>0, <1>3 DEF RefreshLoads, Sound, Holds
  <2>2. u \in Nat
    <3>1. tokens[req[q].token] \in Token
      BY <2>1 DEF Typed
    <3> QED  BY Zenon, <3>1 DEF Token
  <2>3. TablesTyped /\ DOMAIN tokens' = DOMAIN tokens
    BY Zenon, <1>3, <1>u, <1>k DEF RefreshLoads, store
  <2>4. req' = [req EXCEPT ![q] = r]
    BY Zenon, <1>0, <1>3 DEF RefreshLoads
  <2> HIDE DEF u
  <2>5. r \in Requests
    BY Zenon, <1>0, <2>2 DEF Requests, Place
  <2>6. Holds(r, DOMAIN users', DOMAIN tokens')
    BY Zenon, <1>0, <2>1, <2>3 DEF Holds, Requests
  <2> QED  BY Zenon, <2>3, <2>4, <2>5, <2>6, TypedMoves
<1>4. CASE GenerateAuthResponse(q)
  <2>1. GenerateRefreshToken(req[q].user, req[q].token) \in Token
    BY Zenon, <1>0 DEF GenerateRefreshToken, Token, Requests
  <2>2. KeepsTokens
    BY Zenon, <1>4, <2>1, OneIssued DEF GenerateAuthResponse
  <2>3. TablesTyped /\ req' = [req EXCEPT ![q] = Idle]
    BY Zenon, <1>4, <1>u, <2>2 DEF GenerateAuthResponse, Done
  <2>4. Holds(Idle, DOMAIN users', DOMAIN tokens')
    BY Zenon DEF Holds, Idle
  <2> QED  BY Zenon, <2>3, <2>4, IdleHolds, TypedMoves
<1> QED  BY Zenon, <1>1, <1>2, <1>3, <1>4 DEF SessionStep

\* A row is created: one more, in the table and in what the requests wanted.
LEMMA CreateWrites ==
  ASSUME Typed, NEW q \in Req, Created(q)
  PROVE  \E row \in Row :
           /\ UniqueIndex(Len(users) + 1, row)
           /\ users' = Append(users, row) /\ wanted' = Append(wanted, row)
           /\ UNCHANGED <<backend, tokens, overlaid, authVars>>
<1>1. PICK n \in Name, e \in Email, p \in Password : Create(q, n, e, p)
  BY Zenon DEF Created
<1>2. NewUser(n, e, p) \in Row
  BY Zenon DEF NewUser, Row
<1> QED  BY Zenon, <1>1, <1>2 DEF Create, CreateUser, NextID, Created

\* Creating a row keeps the types ...
LEMMA CreatedTyped ==
  ASSUME Typed, NEW q \in Req, Created(q)
  PROVE  Typed'
<1>1. PICK row \in Row :
        /\ users' = Append(users, row) /\ wanted' = Append(wanted, row)
        /\ UNCHANGED <<backend, tokens>>
  BY Zenon, CreateWrites
<1>2. TablesTyped
  BY <1>1 DEF Typed, TablesTyped
<1>3. CASE UNCHANGED req
  BY Zenon, <1>2, <1>3, OthersTyped
<1>4. CASE req' = [req EXCEPT ![q] = [Idle EXCEPT !.at = "issue", !.user = NextID(users)]]
  <2> DEFINE r == [Idle EXCEPT !.at = "issue", !.user = NextID(users)]
  <2>1. NextID(users) \in Nat
    BY DEF Typed, NextID
  <2>2. r \in Requests
    BY Zenon, <2>1, IdleHolds DEF Requests, Place
  <2>3. Holds(r, DOMAIN users', DOMAIN tokens')
    BY Zenon DEF Holds, Idle
  <2> QED  BY Zenon, <1>2, <1>4, <2>2, <2>3, TypedMoves
<1> QED  BY Zenon, <1>3, <1>4 DEF Created

\* ... and so does changing one.
LEMMA ChangedTyped ==
  ASSUME Typed, Changed
  PROVE  Typed'
<1>1. ASSUME NEW o \in Req, Save(o)
      PROVE  Typed'
  <2> DEFINE u == req[o].user
             old == Over(wanted[u], req[o].row, req[o].sets)
  <2>1. PICK new \in Row :
          /\ u \in DOMAIN users
          /\ users' = [users EXCEPT ![u] = new]
          /\ wanted' = [wanted EXCEPT ![u] = old]
          /\ old \in Row
    BY Zenon, <1>1, SaveWrites
  <2>2. req' = [req EXCEPT ![o] = Idle] /\ UNCHANGED <<backend, tokens>>
    BY Zenon, <1>1 DEF Save, Done
  <2> HIDE DEF u, old
  <2>3. TablesTyped
    BY <2>1, <2>2 DEF Typed, TablesTyped
  <2>4. Holds(Idle, DOMAIN users', DOMAIN tokens')
    BY Zenon DEF Holds, Idle
  <2> QED  BY Zenon, <2>2, <2>3, <2>4, IdleHolds, TypedMoves
<1>2. ASSUME NEW u \in DOMAIN users, Delete(u)
      PROVE  Typed'
  <2>1. [users[u] EXCEPT !.gone = TRUE] \in Row /\ [wanted[u] EXCEPT !.gone = TRUE] \in Row
    <3>1. users[u] \in Row /\ wanted[u] \in Row
      BY DEF Typed
    <3> QED  BY Zenon, <3>1 DEF Row
  <2>2. TablesTyped /\ UNCHANGED req
    BY <1>2, <2>1 DEF Typed, TablesTyped, Delete, DeleteUser
  <2> QED  BY Zenon, <2>2, OthersTyped
<1> QED  BY Zenon, <1>1, <1>2 DEF Changed

\* The end of a token.
LEMMA EndsKeep ==
  ASSUME Typed, TokenEnds
  PROVE  KeepsTokens /\ DOMAIN tokens' = DOMAIN tokens /\ UNCHANGED <<backend, users, userVars>>
<1>1. ASSUME NEW t \in DOMAIN tokens, Logout(t)
      PROVE  KeepsTokens /\ DOMAIN tokens' = DOMAIN tokens
  BY Zenon, <1>1, OneEnds DEF Logout, RevokeByToken
<1>2. ASSUME NEW t \in DOMAIN tokens, Expire(t)
      PROVE  KeepsTokens /\ DOMAIN tokens' = DOMAIN tokens
  BY Zenon, <1>2, OneEnds DEF Expire
<1>3. ASSUME NEW u \in DOMAIN users, LogoutAll(u)
      PROVE  KeepsTokens /\ DOMAIN tokens' = DOMAIN tokens
  BY Zenon, <1>3, AllEnd DEF LogoutAll
<1> QED  BY Zenon, <1>1, <1>2, <1>3 DEF TokenEnds, Logout, LogoutAll

\* Every step keeps the types.
LEMMA TypedStep ==
  ASSUME Typed, \A p \in Req : Fresh(req[p]), [AccountNext]_vars
  PROVE  Typed'
<1>1. CASE UNCHANGED <<store, userVars, authVars>>
  BY Zenon, <1>1 DEF store, userVars, Typed, Sound, Holds
<1>2. ASSUME NEW q \in Req, Quiet(q)
      PROVE  Typed'
  <2>1. PICK r \in Requests : req' = [req EXCEPT ![q] = r] /\ Sound(r)
    BY Zenon, <1>2 DEF Quiet
  <2>2. TablesTyped
    BY Zenon, <1>2 DEF Quiet, store, Typed, TablesTyped
  <2>3. Holds(r, DOMAIN users', DOMAIN tokens')
    BY Zenon, <1>2, <2>1 DEF Quiet, store, Sound
  <2> QED  BY Zenon, <2>1, <2>2, <2>3, TypedMoves
<1>3. CASE TokenEnds
  <2>1. TablesTyped /\ UNCHANGED req
    BY Zenon, <1>3, EndsKeep DEF KeepsTokens, userVars, Typed, TablesTyped
  <2> QED  BY Zenon, <2>1, OthersTyped
<1> QED  BY Zenon, <1>1, <1>2, <1>3, StepKinds, SessionTyped, CreatedTyped, ChangedTyped
-----------------------------------------------------------------------------
(* Writes.                                                                 *)

WritesInv ==
  /\ \A q \in Req : Fresh(req[q])
  /\ \A u \in DOMAIN users :
       /\ u \notin overlaid => users[u] = wanted[u]
       /\ backend = "mongo" /\ wanted[u].gone => users[u].gone

\* The steps of a session hold no row and change none.
LEMMA SessionMoves ==
  ASSUME Typed, NEW q \in Req, SessionStep(q)
  PROVE  /\ req'[q].at \notin {"email", "save"}
         /\ \A p \in Req \ {q} : req'[p] = req[p]
         /\ UNCHANGED <<backend, users, wanted, overlaid>>
<1>0. req \in [Req -> Requests] /\ req[q] \in Requests
  BY Zenon DEF Typed
<1>1. CASE RefreshToken(q)
  BY <1>0, <1>1 DEF RefreshToken, Idle, store
<1>2. CASE RefreshRevokes(q)
  BY Zenon, <1>0, <1>2 DEF RefreshRevokes, Goes, Requests
<1>3. CASE RefreshLoads(q)
  BY Zenon, <1>0, <1>3 DEF RefreshLoads, store, Requests
<1>4. CASE GenerateAuthResponse(q)
  BY Zenon, <1>0, <1>4 DEF GenerateAuthResponse, Done, Idle
<1> QED  BY Zenon, <1>1, <1>2, <1>3, <1>4 DEF SessionStep

\* A save writes what the request set, unless another request came between.
LEMMA SaveKeeps ==
  ASSUME Typed, WritesInv, NEW q \in Req, Save(q)
  PROVE  WritesInv'
<1> DEFINE u == req[q].user
           row == req[q].row
           sets == req[q].sets
           old == Over(wanted[u], row, sets)
<1>0. req \in [Req -> Requests] /\ sets \in SUBSET Field /\ req[q].at = "save" /\ row \in Row
      /\ u \in DOMAIN users /\ users[u] \in Row /\ wanted[u] \in Row
  BY DEF Typed, Requests, Save, Sound, Holds
<1>1. PICK new \in Row :
        /\ users' = [users EXCEPT ![u] = new]
        /\ new.name = row.name /\ new.email = row.email /\ new.pw = row.pw
        /\ ~users[u].gone => new.active = row.active
        /\ backend = "mongo" => new.gone = users[u].gone
        /\ backend = "gorm" => new.gone = row.gone
        /\ wanted' = [wanted EXCEPT ![u] = old]
        /\ old \in Row
  BY Zenon, SaveWrites
<1>2. req' = [req EXCEPT ![q] = Idle] /\ UNCHANGED backend /\ backend \in {"gorm", "mongo"}
  BY Zenon DEF Save, Done, Typed
<1>3. /\ overlaid \subseteq overlaid'
      /\ u \notin overlaid' => u \notin overlaid /\ \A p \in Req \ {q} : p \notin Editing(u)
      /\ \A v : v # u /\ v \notin overlaid' => v \notin overlaid
  BY Zenon DEF Save
<1>4. Fresh(req[q])
  BY Zenon DEF WritesInv
<1>5. /\ old.name = wanted[u].name /\ old.gone = wanted[u].gone
      /\ \A f \in Field : old[f] = IF f \in sets THEN row[f] ELSE wanted[u][f]
  BY <1>0, Overwritten DEF Field
<1>u. /\ users'[u] = new /\ wanted'[u] = old /\ DOMAIN users' = DOMAIN users
      /\ \A v \in DOMAIN users \ {u} : users'[v] = users[v] /\ wanted'[v] = wanted[v]
  BY <1>0, <1>1 DEF Typed
<1>6. u \notin overlaid' => new = old
  <2> SUFFICES ASSUME u \notin overlaid' PROVE new = old
    BY Zenon
  <2>1. users[u] = wanted[u] /\ ~users[u].gone /\ ~row.gone
        /\ \A f \in {"name"} \cup (Field \ sets) : row[f] = users[u][f]
    BY Zenon, <1>0, <1>3, <1>4 DEF WritesInv, Fresh, FreshIn
  <2> HIDE DEF old
  <2>2. new.name = old.name /\ new.email = old.email /\ new.pw = old.pw
        /\ new.active = old.active
    BY SMTT(30), <1>0, <1>1, <1>5, <2>1 DEF Field
  <2>3. new.gone = old.gone
    BY Zenon, <1>0, <1>1, <1>2, <1>5, <2>1 DEF Row
  <2> QED  BY Zenon, <1>1, <2>2, <2>3, SameRow
<1>7. backend = "mongo" /\ old.gone => new.gone
  BY Zenon, <1>0, <1>1, <1>5 DEF WritesInv
<1>8. ASSUME NEW p \in Req PROVE FreshIn(req'[p], users', overlaid')
  <2>1. CASE p = q
    BY Zenon, <1>0, <1>2, <2>1 DEF FreshIn, Idle
  <2>2. CASE p # q
    <3>1. req'[p] = req[p] /\ Fresh(req[p]) /\ Sound(req[p])
      BY Zenon, <1>0, <1>2, <2>2 DEF WritesInv, Typed
    <3>2. CASE req[p].user = u
      BY Zenon, <1>3, <2>2, <3>1, <3>2 DEF Editing, FreshIn
    <3>3. CASE req[p].user # u
      BY <1>3, <1>u, <3>1, <3>3 DEF Fresh, FreshIn, Sound, Holds
    <3> QED  BY Zenon, <3>2, <3>3
  <2> QED  BY Zenon, <2>1, <2>2
<1>9. ASSUME NEW v \in DOMAIN users'
      PROVE  /\ v \notin overlaid' => users'[v] = wanted'[v]
             /\ backend' = "mongo" /\ wanted'[v].gone => users'[v].gone
  <2> HIDE DEF u, old
  <2>1. CASE v = u
    BY Zenon, <1>2, <1>6, <1>7, <1>u, <2>1
  <2>2. CASE v # u
    BY Zenon, <1>2, <1>3, <1>u, <2>2 DEF WritesInv
  <2> QED  BY Zenon, <2>1, <2>2
<1> QED  BY Zenon, <1>8, <1>9 DEF WritesInv, Fresh

\* So does a deletion.
LEMMA DeleteKeeps ==
  ASSUME Typed, WritesInv, NEW u \in DOMAIN users, Delete(u)
  PROVE  WritesInv'
<1>0. users[u] \in Row /\ wanted[u] \in Row /\ u \in DOMAIN wanted
  BY DEF Typed
<1> DEFINE new == [users[u] EXCEPT !.gone = TRUE]
           old == [wanted[u] EXCEPT !.gone = TRUE]
<1>1. new.gone /\ (users[u] = wanted[u] => new = old)
  BY Zenon, <1>0 DEF Row
<1>2. /\ users' = [users EXCEPT ![u] = new] /\ wanted' = [wanted EXCEPT ![u] = old]
      /\ UNCHANGED <<backend, req>>
  BY Zenon DEF Delete, DeleteUser
<1> HIDE DEF new, old
<1>u. /\ users'[u] = new /\ wanted'[u] = old /\ DOMAIN users' = DOMAIN users
      /\ \A v \in DOMAIN users \ {u} : users'[v] = users[v] /\ wanted'[v] = wanted[v]
  BY <1>0, <1>2 DEF Typed
<1>3. /\ u \notin overlaid' => u \notin overlaid /\ Editing(u) = {}
      /\ \A v : v # u /\ v \notin overlaid' => v \notin overlaid
  BY Zenon DEF Delete
<1>4. ASSUME NEW p \in Req PROVE FreshIn(req'[p], users', overlaid')
  <2>1. req'[p] = req[p] /\ Fresh(req[p]) /\ Sound(req[p])
    BY Zenon, <1>2 DEF WritesInv, Typed
  <2>2. CASE req[p].user = u
    BY Zenon, <1>3, <2>1, <2>2 DEF Editing, FreshIn
  <2>3. CASE req[p].user # u
    BY <1>3, <1>u, <2>1, <2>3 DEF Fresh, FreshIn, Sound, Holds
  <2> QED  BY Zenon, <2>2, <2>3
<1>5. ASSUME NEW v \in DOMAIN users'
      PROVE  /\ v \notin overlaid' => users'[v] = wanted'[v]
             /\ backend' = "mongo" /\ wanted'[v].gone => users'[v].gone
  <2>1. CASE v = u
    BY Zenon, <1>1, <1>3, <1>u, <2>1 DEF WritesInv
  <2>2. CASE v # u
    BY Zenon, <1>2, <1>3, <1>u, <2>2 DEF WritesInv
  <2> QED  BY Zenon, <2>1, <2>2
<1> QED  BY Zenon, <1>4, <1>5 DEF WritesInv, Fresh

\* A new row is what was wanted, and no request has read it yet.
LEMMA CreateKeeps ==
  ASSUME Typed, WritesInv, NEW q \in Req, Created(q)
  PROVE  WritesInv'
<1>1. PICK row \in Row :
        /\ users' = Append(users, row) /\ wanted' = Append(wanted, row)
        /\ UNCHANGED <<backend, overlaid>>
  BY Zenon, CreateWrites
<1>2. /\ DOMAIN users' = DOMAIN users \cup {Len(users) + 1}
      /\ users'[Len(users) + 1] = row /\ wanted'[Len(users) + 1] = row
      /\ \A v \in DOMAIN users : users'[v] = users[v] /\ wanted'[v] = wanted[v]
  BY SMTT(30), <1>1 DEF Typed
<1>3. ASSUME NEW p \in Req PROVE FreshIn(req'[p], users', overlaid')
  <2>1. Fresh(req[p]) /\ Sound(req[p]) /\ req \in [Req -> Requests]
    BY Zenon DEF WritesInv, Typed
  <2>2. req'[p] = req[p] \/ req'[p].at = "issue"
    BY Zenon, <2>1 DEF Created, Idle
  <2> QED  BY SMTT(30), <1>1, <1>2, <2>1, <2>2 DEF Fresh, FreshIn, Sound, Holds
<1>4. ASSUME NEW v \in DOMAIN users'
      PROVE  /\ v \notin overlaid' => users'[v] = wanted'[v]
             /\ backend' = "mongo" /\ wanted'[v].gone => users'[v].gone
  BY Zenon, <1>1, <1>2 DEF WritesInv
<1> QED  BY Zenon, <1>3, <1>4 DEF WritesInv, Fresh

\* Every step keeps what was written.
LEMMA WritesStep ==
  ASSUME Typed, WritesInv, [AccountNext]_vars
  PROVE  WritesInv'
<1>0. req \in [Req -> Requests] /\ \A p \in Req : Fresh(req[p])
  BY Zenon DEF WritesInv, Typed
<1>1. ASSUME UNCHANGED <<backend, users, wanted, overlaid>>,
             \A p \in Req : FreshIn(req'[p], users, overlaid)
      PROVE  WritesInv'
  BY Zenon, <1>1 DEF WritesInv, Fresh
<1>2. CASE UNCHANGED <<store, userVars, authVars>>
  BY Zenon, <1>0, <1>1, <1>2 DEF store, userVars, Fresh
<1>3. ASSUME NEW q \in Req, Quiet(q)
      PROVE  WritesInv'
  <2>1. PICK r \in Requests : req' = [req EXCEPT ![q] = r] /\ Fresh(r)
    BY Zenon, <1>3 DEF Quiet
  <2>2. \A p \in Req : FreshIn(req'[p], users, overlaid)
    BY Zenon, <1>0, <2>1 DEF Fresh
  <2> QED  BY Zenon, <1>1, <1>3, <2>2 DEF Quiet, store
<1>4. ASSUME NEW q \in Req, SessionStep(q)
      PROVE  WritesInv'
  <2>1. ASSUME NEW p \in Req PROVE FreshIn(req'[p], users, overlaid)
    <3>1. CASE p = q
      BY Zenon, <1>4, <3>1, SessionMoves DEF FreshIn
    <3>2. CASE p # q
      BY Zenon, <1>0, <1>4, <3>2, SessionMoves DEF Fresh
    <3> QED  BY Zenon, <3>1, <3>2
  <2> QED  BY Zenon, <1>1, <1>4, <2>1, SessionMoves
<1>5. CASE TokenEnds
  BY Zenon, <1>0, <1>1, <1>5, EndsKeep DEF userVars, Fresh
<1>6. CASE Changed
  BY Zenon, <1>6, SaveKeeps, DeleteKeeps DEF Changed
<1> QED  BY Zenon, <1>0, <1>2, <1>3, <1>4, <1>5, <1>6, StepKinds, CreateKeeps

\* The initial state.
LEMMA AccountStart ==
  ASSUME AccountInit
  PROVE  Typed /\ WritesInv
<1>1. req = [q \in Req |-> Idle] /\ users = <<>> /\ wanted = <<>> /\ tokens = <<>>
      /\ backend \in {"gorm", "mongo"}
  BY Zenon DEF AccountInit, StoreInit
<1>2. \A q \in Req : req[q] = Idle
  BY Zenon, <1>1
<1>3. Typed
  BY <1>1, <1>2, IdleHolds DEF Typed
<1>4. WritesInv
  BY Zenon, <1>1, <1>2, IdleHolds DEF WritesInv
<1> QED  BY Zenon, <1>3, <1>4

\* THEOREM: what a request sets in a row stays there (UpdateUser, ChangePassword,
\* Delete and the repository layer), unless two requests overlapped on the row;
\* and over MongoDB a deletion stays even then.
THEOREM NoWriteLost == AccountSpec => []WritesKept
<1>1. AccountInit => Typed /\ WritesInv
  BY Zenon, AccountStart
<1>2. Typed /\ WritesInv /\ [AccountNext]_vars => (Typed /\ WritesInv)'
  BY Zenon, TypedStep, WritesStep DEF WritesInv
<1>3. WritesInv => WritesKept
  BY Zenon DEF WritesInv, WritesKept
<1> QED  BY <1>1, <1>2, <1>3, PTL DEF AccountSpec
-----------------------------------------------------------------------------
(* Usernames and addresses.                                                *)

\* The unique indexes, deleted rows included.
Unique ==
  \A u, v \in DOMAIN users :
    u # v => users[u].name # users[v].name /\ users[u].email # users[v].email

\* Every step keeps the indexes.
LEMMA UniqueStep ==
  ASSUME Typed, WritesInv, Unique, [AccountNext]_vars
  PROVE  Unique'
<1>1. CASE UNCHANGED users
  BY <1>1 DEF Unique
<1>2. ASSUME NEW q \in Req, Created(q)
      PROVE  Unique'
  <2>1. PICK row \in Row :
          UniqueIndex(Len(users) + 1, row) /\ users' = Append(users, row)
    BY Zenon, <1>2, CreateWrites
  <2>2. /\ DOMAIN users' = DOMAIN users \cup {Len(users) + 1}
        /\ Len(users) + 1 \notin DOMAIN users
        /\ users'[Len(users) + 1] = row
        /\ \A v \in DOMAIN users : users'[v] = users[v]
    BY <2>1 DEF Typed
  <2> QED  BY <2>1, <2>2 DEF Unique, UniqueIndex
<1>3. ASSUME NEW q \in Req, Save(q)
      PROVE  Unique'
  <2> DEFINE u == req[q].user
  <2>1. PICK new \in Row :
          /\ u \in DOMAIN users /\ UniqueIndex(u, req[q].row)
          /\ users' = [users EXCEPT ![u] = new]
          /\ new.name = req[q].row.name /\ new.email = req[q].row.email
    BY Zenon, <1>3, SaveWrites
  <2>2. /\ DOMAIN users' = DOMAIN users /\ users'[u] = new
        /\ \A v \in DOMAIN users \ {u} : users'[v] = users[v]
    BY Zenon, <2>1 DEF Typed
  <2> HIDE DEF u
  <2> QED  BY <2>1, <2>2 DEF Unique, UniqueIndex
<1>4. ASSUME NEW u \in DOMAIN users, Delete(u)
      PROVE  Unique'
  <2>1. users[u] \in Row
    BY DEF Typed
  <2> DEFINE new == [users[u] EXCEPT !.gone = TRUE]
  <2>2. new.name = users[u].name /\ new.email = users[u].email
    BY Zenon, <2>1 DEF Row
  <2>3. users' = [users EXCEPT ![u] = new]
    BY Zenon, <1>4 DEF Delete, DeleteUser
  <2> HIDE DEF new
  <2>4. /\ DOMAIN users' = DOMAIN users /\ users'[u] = new
        /\ \A v \in DOMAIN users \ {u} : users'[v] = users[v]
    BY Zenon, <2>3 DEF Typed
  <2> QED  BY <2>2, <2>4 DEF Unique
<1>5. ASSUME NEW q \in Req, SessionStep(q)
      PROVE  UNCHANGED users
  BY Zenon, <1>5, SessionMoves
<1>6. ASSUME TokenEnds PROVE UNCHANGED users
  BY Zenon, <1>6, EndsKeep
<1>7. ASSUME NEW q \in Req, Quiet(q) PROVE UNCHANGED users
  BY Zenon, <1>7 DEF Quiet, store
<1>8. CASE Changed
  BY Zenon, <1>3, <1>4, <1>8 DEF Changed
<1> QED
  BY Zenon, <1>1, <1>2, <1>5, <1>6, <1>7, <1>8, StepKinds DEF WritesInv, store

INSTANCE FiniteSetTheorems

\* At most one element.
LEMMA AtMostOne ==
  ASSUME NEW S, \A x, y \in S : x = y
  PROVE  Cardinality(S) <= 1
<1>1. CASE S = {}
  BY <1>1, FS_EmptySet
<1>2. CASE S # {}
  <2>1. PICK x : S = {x}
    BY <1>2
  <2> QED  BY <2>1, FS_Singleton
<1> QED  BY Zenon, <1>1, <1>2

\* THEOREM: a username or an address finds one user at most, whatever the
\* requests that look before they write, or do not look at all, do at once.
THEOREM OneUserFound == AccountSpec => []LiveUnique
<1> DEFINE Inv == Typed /\ WritesInv /\ Unique
<1>1. AccountInit => Inv
  <2> SUFFICES ASSUME AccountInit PROVE Inv
    BY Zenon
  <2>1. Unique
    BY DEF AccountInit, StoreInit, Unique
  <2> QED  BY Zenon, <2>1, AccountStart
<1>2. Inv /\ [AccountNext]_vars => Inv'
  BY Zenon, TypedStep, WritesStep, UniqueStep DEF WritesInv
<1>3. Inv => LiveUnique
  <2> SUFFICES ASSUME Unique PROVE LiveUnique
    BY Zenon
  <2>1. ASSUME NEW n \in Name PROVE Cardinality(FindByUsername(n)) <= 1
    <3>1. \A x, y \in FindByUsername(n) : x = y
      BY Zenon DEF Unique, FindByUsername
    <3> QED  BY Zenon, <3>1, AtMostOne
  <2>2. ASSUME NEW e \in Email PROVE Cardinality(FindByEmail(e)) <= 1
    <3>1. \A x, y \in FindByEmail(e) : x = y
      BY Zenon DEF Unique, FindByEmail
    <3> QED  BY <3>1, AtMostOne
  <2> QED  BY Zenon, <2>1, <2>2 DEF LiveUnique
<1> QED  BY <1>1, <1>2, <1>3, PTL DEF AccountSpec
-----------------------------------------------------------------------------
(* Sessions.                                                               *)

\* A token is revoked before its successor is on its way; the request that
\* carries it is its user's.
ExchangeInv ==
  /\ \A q \in Req :
       Exchanging(req[q]) /\ req[q].at # "revoke" =>
         /\ tokens[req[q].token].state = "revoked"
         /\ req[q].at = "issue" => req[q].user = tokens[req[q].token].user
  /\ \A s \in DOMAIN tokens :
       tokens[s].from # 0 => /\ tokens[s].from \in DOMAIN tokens
                             /\ tokens[tokens[s].from].state = "revoked"

\* A token that no two requests have raced for has one successor, in the table
\* or on its way.
Carries(r, t) == Exchanging(r) /\ r.token = t

Once(t, R, rows) ==
  /\ \A p, q \in Req : Carries(R[p], t) /\ Carries(R[q], t) => p = q
  /\ \A r, s \in DOMAIN rows : rows[r].from = t /\ rows[s].from = t => r = s
  /\ \A q \in Req, s \in DOMAIN rows : Carries(R[q], t) => rows[s].from # t

OnceInv == \A t \in DOMAIN tokens \ raced : Once(t, req, tokens)

\* Who is signed out has no usable token, and none on its way.
OutInv ==
  \A u \in signedOut :
    /\ \A t \in DOMAIN tokens : tokens[t].user = u => tokens[t].state = "revoked"
    /\ \A q \in Req : Exchanging(req[q]) => tokens[req[q].token].user # u

SessionInv == ExchangeInv /\ OnceInv /\ OutInv

\* What a request exchanges is in the table.
LEMMA ExchangedExists ==
  ASSUME Typed, NEW q \in Req, Exchanging(req[q])
  PROVE  req[q].token \in DOMAIN tokens
BY Zenon DEF Typed, Sound, Holds, Exchanging

\* A token for which no further request and no further successor appears.
LEMMA OnceMoves ==
  ASSUME NEW t, NEW R, NEW S, NEW rows, NEW more, Once(t, R, rows),
         \A p \in Req : Carries(S[p], t) => Carries(R[p], t),
         \A s \in DOMAIN more : more[s].from = t => s \in DOMAIN rows /\ rows[s].from = t
  PROVE  Once(t, S, more)
BY Zenon DEF Once

\* Steps that leave the tokens alone, and after which no further request
\* exchanges one.
LEMMA PlainKeeps ==
  ASSUME SessionInv, UNCHANGED <<tokens, raced, signedOut>>,
         \A p \in Req : req'[p] = req[p] \/ ~Exchanging(req'[p])
  PROVE  SessionInv'
<1>1. \A p \in Req : Exchanging(req'[p]) => Exchanging(req[p]) /\ req'[p] = req[p]
  BY Zenon
<1>2. ExchangeInv'
  BY Zenon, <1>1 DEF SessionInv, ExchangeInv
<1>3. OnceInv'
  <2>1. \A t, p : p \in Req /\ Carries(req'[p], t) => Carries(req[p], t)
    BY Zenon, <1>1 DEF Carries
  <2> QED  BY Zenon, <2>1, OnceMoves DEF SessionInv, OnceInv
<1>4. OutInv'
  BY Zenon, <1>1 DEF SessionInv, OutInv
<1> QED  BY Zenon, <1>2, <1>3, <1>4 DEF SessionInv

\* Tokens that end.
LEMMA EndsSessions ==
  ASSUME Typed, SessionInv, TokenEnds
  PROVE  SessionInv'
<1>1. KeepsTokens /\ DOMAIN tokens' = DOMAIN tokens /\ UNCHANGED req
  BY Zenon, EndsKeep DEF userVars
<1>2. UNCHANGED raced
  BY Zenon DEF TokenEnds, Logout, LogoutAll, authVars
<1>3. \A q \in Req : Exchanging(req[q]) => req[q].token \in DOMAIN tokens
  BY Zenon, ExchangedExists
<1>4. ExchangeInv'
  BY <1>1, <1>3 DEF SessionInv, ExchangeInv, KeepsTokens
<1>5. OnceInv'
  <2>1. \A s \in DOMAIN tokens' : s \in DOMAIN tokens /\ tokens'[s].from = tokens[s].from
    BY Zenon, <1>1 DEF KeepsTokens
  <2> QED  BY Zenon, <1>1, <1>2, <2>1, OnceMoves DEF SessionInv, OnceInv
<1>6. OutInv'
  <2>1. CASE UNCHANGED signedOut
    BY <1>1, <1>3, <2>1 DEF SessionInv, OutInv, KeepsTokens
  <2>2. ASSUME NEW u \in DOMAIN users, LogoutAll(u), Issuing(u) = {},
               signedOut' = signedOut \cup {u}
        PROVE  OutInv'
    <3>1. \A t \in DOMAIN tokens : tokens[t].user = u => tokens'[t].state = "revoked"
      BY Zenon, <2>2, AllEnd DEF LogoutAll
    <3>2. \A q \in Req : Exchanging(req[q]) => tokens[req[q].token].user # u
      BY Zenon, <2>2 DEF Issuing, Exchanging, SessionInv, ExchangeInv
    <3> QED  BY <1>1, <1>3, <2>2, <3>1, <3>2 DEF SessionInv, OutInv, KeepsTokens
  <2>3. ASSUME NEW u \in DOMAIN users, LogoutAll(u)
        PROVE  OutInv'
    BY Zenon, <2>1, <2>2, <2>3 DEF LogoutAll
  <2> QED  BY Zenon, <2>1, <2>3 DEF TokenEnds, Logout, authVars
<1> QED  BY Zenon, <1>4, <1>5, <1>6 DEF SessionInv

\* A token is read: it is not revoked, so nobody else is past that point with it,
\* and it has no successor.
LEMMA RefreshSessions ==
  ASSUME Typed, SessionInv, NEW q \in Req, RefreshToken(q)
  PROVE  SessionInv'
<1>1. PICK t \in DOMAIN tokens :
        /\ ~Exchanging(req[q])
        /\ tokens[t].state # "revoked"
        /\ req' = [req EXCEPT ![q] = [Idle EXCEPT !.at = "revoke", !.token = t]]
        /\ raced' = IF \E r \in Req : req[r].at = "revoke" /\ req[r].token = t
                    THEN raced \cup {t} ELSE raced
        /\ UNCHANGED <<tokens, signedOut>>
  BY Zenon, IdleHolds DEF RefreshToken, FindByToken, store
<1>2. /\ req'[q].at = "revoke" /\ req'[q].token = t
      /\ \A p \in Req \ {q} : req'[p] = req[p]
  BY Zenon, <1>1 DEF Typed, Idle
<1>3. ExchangeInv'
  BY <1>1, <1>2 DEF SessionInv, ExchangeInv
<1>4. \A p \in Req : Exchanging(req[p]) /\ req[p].token = t => req[p].at = "revoke"
  BY Zenon, <1>1 DEF SessionInv, ExchangeInv
<1>5. \A s \in DOMAIN tokens : tokens[s].from # t
  <2>1. t # 0
    BY DEF Typed
  <2> QED  BY Zenon, <1>1, <2>1 DEF SessionInv, ExchangeInv
<1>6. OnceInv'
  <2> SUFFICES ASSUME NEW o \in DOMAIN tokens, o \notin raced'
               PROVE  Once(o, req', tokens)
    BY Zenon, <1>1 DEF OnceInv
  <2>1. Once(o, req, tokens)
    BY Zenon, <1>1 DEF SessionInv, OnceInv
  <2>2. CASE o = t
    <3>1. \A p \in Req \ {q} : ~Carries(req'[p], t)
      BY Zenon, <1>1, <1>2, <1>4, <2>2 DEF Carries
    <3> QED  BY Zenon, <1>5, <2>2, <3>1 DEF Once
  <2>3. CASE o # t
    <3>1. \A p \in Req : Carries(req'[p], o) => Carries(req[p], o)
      BY Zenon, <1>2, <2>3 DEF Carries
    <3> QED  BY Zenon, <2>1, <3>1, OnceMoves
  <2> QED  BY Zenon, <2>2, <2>3
<1>7. OutInv'
  BY <1>1, <1>2 DEF SessionInv, OutInv
<1> QED  BY Zenon, <1>3, <1>6, <1>7 DEF SessionInv

\* It is revoked, and its user is looked up.
LEMMA RevokesSessions ==
  ASSUME Typed, SessionInv, NEW q \in Req, RefreshRevokes(q) \/ RefreshLoads(q)
  PROVE  SessionInv'
<1>0. req \in [Req -> Requests] /\ req[q] \in Requests
  BY Zenon DEF Typed
<1>1. /\ Exchanging(req[q]) /\ req[q].token \in DOMAIN tokens
      /\ UNCHANGED <<raced, signedOut>>
  BY Zenon, ExchangedExists DEF RefreshRevokes, RefreshLoads, Exchanging, authVars
<1>2. /\ req'[q].at # "revoke" /\ req'[q].token = req[q].token
      /\ req'[q].at = "issue" => req'[q].user = tokens[req[q].token].user
      /\ \A p \in Req \ {q} : req'[p] = req[p]
  BY <1>0 DEF RefreshRevokes, RefreshLoads, Goes, Requests
<1>3. KeepsTokens /\ DOMAIN tokens' = DOMAIN tokens
      /\ tokens'[req[q].token].state = "revoked"
  <2>1. CASE RefreshRevokes(q)
    BY Zenon, <1>1, <2>1, OneEnds DEF RefreshRevokes, RevokeByToken
  <2>2. CASE RefreshLoads(q)
    BY Zenon, <1>1, <2>2 DEF RefreshLoads, store, Typed, KeepsTokens, SessionInv, ExchangeInv
  <2> QED  BY Zenon, <2>1, <2>2
<1>4. \A p \in Req : Exchanging(req'[p]) =>
        Exchanging(req[p]) /\ req'[p].token = req[p].token /\ req[p].token \in DOMAIN tokens
  BY Zenon, <1>1, <1>2, ExchangedExists
<1>5. ExchangeInv'
  BY SMTT(30), <1>1, <1>2, <1>3, <1>4 DEF SessionInv, ExchangeInv, KeepsTokens
<1>6. OnceInv'
  <2>1. \A s \in DOMAIN tokens' : s \in DOMAIN tokens /\ tokens'[s].from = tokens[s].from
    BY Zenon, <1>3 DEF KeepsTokens
  <2>2. \A t, p : p \in Req /\ Carries(req'[p], t) => Carries(req[p], t)
    BY Zenon, <1>4 DEF Carries
  <2> QED  BY <1>1, <1>3, <2>1, <2>2, OnceMoves DEF SessionInv, OnceInv
<1>7. OutInv'
  BY <1>1, <1>3, <1>4 DEF SessionInv, OutInv, KeepsTokens
<1> QED  BY Zenon, <1>5, <1>6, <1>7 DEF SessionInv

\* The successor is stored: the request carried the token, so there was none.
LEMMA IssueSessions ==
  ASSUME Typed, SessionInv, NEW q \in Req, GenerateAuthResponse(q)
  PROVE  SessionInv'
<1> DEFINE n == Len(tokens) + 1
           row == GenerateRefreshToken(req[q].user, req[q].token)
<1>0. req \in [Req -> Requests] /\ req[q] \in Requests /\ req[q].at = "issue" /\ UNCHANGED raced
  BY Zenon DEF Typed, GenerateAuthResponse
<1>1. row \in Token /\ row.user = req[q].user /\ row.from = req[q].token
  BY Zenon, <1>0 DEF GenerateRefreshToken, Token, Requests
<1>2. /\ DOMAIN tokens' = DOMAIN tokens \cup {n} /\ n \notin DOMAIN tokens
      /\ tokens'[n] = row /\ n # 0
      /\ \A t \in DOMAIN tokens : tokens'[t] = tokens[t]
  <2>1. CreateToken(row)
    BY Zenon DEF GenerateAuthResponse
  <2>2. n # 0
    BY DEF Typed
  <2> QED  BY Zenon, <1>1, <2>1, <2>2, OneIssued
<1> HIDE DEF n, row
<1>3. ~Exchanging(req'[q]) /\ \A p \in Req \ {q} : req'[p] = req[p]
  BY Zenon, <1>0, IdleHolds DEF GenerateAuthResponse, Done
<1>4. \A p \in Req : Exchanging(req[p]) => req[p].token \in DOMAIN tokens
  BY Zenon, ExchangedExists
<1>5. req[q].token # 0 =>
        /\ Exchanging(req[q]) /\ tokens[req[q].token].state = "revoked"
        /\ req[q].user = tokens[req[q].token].user
  BY Zenon, <1>0 DEF Exchanging, SessionInv, ExchangeInv
<1>6. ExchangeInv'
  <2>1. ASSUME NEW p \in Req, Exchanging(req'[p]), req'[p].at # "revoke"
        PROVE  /\ tokens'[req'[p].token].state = "revoked"
               /\ req'[p].at = "issue" => req'[p].user = tokens'[req'[p].token].user
    BY SMTT(30), <1>2, <1>3, <1>4, <2>1 DEF SessionInv, ExchangeInv
  <2>2. ASSUME NEW s \in DOMAIN tokens', tokens'[s].from # 0
        PROVE  /\ tokens'[s].from \in DOMAIN tokens'
               /\ tokens'[tokens'[s].from].state = "revoked"
    BY SMTT(30), <1>1, <1>2, <1>4, <1>5, <2>2 DEF SessionInv, ExchangeInv
  <2> QED  BY Zenon, <2>1, <2>2 DEF ExchangeInv
<1>7. OnceInv'
  <2> SUFFICES ASSUME NEW t \in DOMAIN tokens', t \notin raced
               PROVE  Once(t, req', tokens')
    BY Zenon, <1>0 DEF OnceInv
  <2>0. \A p \in Req : Carries(req'[p], t) => p # q /\ Carries(req[p], t)
    BY Zenon, <1>3 DEF Carries
  <2>1. CASE t = n
    <3>1. \A p \in Req : ~Carries(req'[p], t)
      BY Zenon, <1>2, <1>4, <2>0, <2>1 DEF Carries
    <3>2. \A s \in DOMAIN tokens' : tokens'[s].from # t
      BY Zenon, <1>1, <1>2, <1>4, <1>5, <2>1 DEF SessionInv, ExchangeInv
    <3> QED  BY Zenon, <3>1, <3>2 DEF Once
  <2>2. CASE t # n /\ t # req[q].token
    <3>1. Once(t, req, tokens)
      BY Zenon, <1>2, <2>2 DEF SessionInv, OnceInv
    <3>2. \A s \in DOMAIN tokens' : tokens'[s].from = t => s \in DOMAIN tokens /\ tokens[s].from = t
      BY Zenon, <1>1, <1>2, <2>2
    <3> QED  BY Zenon, <2>0, <3>1, <3>2, OnceMoves
  <2>3. CASE t # n /\ t = req[q].token
    <3>1. Once(t, req, tokens) /\ t \in DOMAIN tokens /\ t # 0
      BY <1>2, <2>3 DEF Typed, SessionInv, OnceInv
    <3>2. Carries(req[q], t)
      BY Zenon, <1>5, <2>3, <3>1 DEF Carries
    <3>3. \A p \in Req : ~Carries(req'[p], t)
      BY Zenon, <2>0, <3>1, <3>2 DEF Once
    <3>4. \A s \in DOMAIN tokens : tokens'[s].from # t
      BY Zenon, <1>2, <3>1, <3>2 DEF Once
    <3> QED  BY Zenon, <1>2, <3>3, <3>4 DEF Once
  <2> QED  BY Zenon, <2>1, <2>2, <2>3
<1>8. OutInv'
  <2>1. signedOut' \subseteq signedOut /\ (req[q].token = 0 => req[q].user \notin signedOut')
    BY Zenon DEF GenerateAuthResponse
  <2>2. req[q].token # 0 => req[q].user \notin signedOut
    BY Zenon, <1>5 DEF SessionInv, OutInv
  <2> QED  BY SMTT(30), <1>1, <1>2, <1>3, <1>4, <2>1, <2>2 DEF SessionInv, OutInv
<1> QED  BY Zenon, <1>6, <1>7, <1>8 DEF SessionInv

\* Every step keeps the invariant of the sessions.
LEMMA SessionsStep ==
  ASSUME Typed, WritesInv, SessionInv, [AccountNext]_vars
  PROVE  SessionInv'
<1>0. req \in [Req -> Requests]
  BY Zenon DEF Typed
<1>1. CASE UNCHANGED <<store, userVars, authVars>>
  BY Zenon, <1>1, PlainKeeps DEF store, userVars, authVars
<1>2. ASSUME NEW q \in Req, Quiet(q)
      PROVE  SessionInv'
  BY Zenon, <1>0, <1>2, PlainKeeps DEF Quiet, store, authVars
<1>3. ASSUME NEW q \in Req, Created(q)
      PROVE  SessionInv'
  <2>1. UNCHANGED <<tokens, raced, signedOut>>
    BY Zenon, <1>3, CreateWrites DEF authVars
  <2>2. \A p \in Req : req'[p] = req[p] \/ ~Exchanging(req'[p])
    BY Zenon, <1>0, <1>3 DEF Created, Idle, Exchanging
  <2> QED  BY Zenon, <2>1, <2>2, PlainKeeps
<1>4. CASE Changed
  <2>1. UNCHANGED <<tokens, raced, signedOut>>
    BY Zenon, <1>4 DEF Changed, Save, Delete, authVars
  <2>2. \A p \in Req : req'[p] = req[p] \/ ~Exchanging(req'[p])
    BY Zenon, <1>0, <1>4, IdleHolds DEF Changed, Save, Done, Delete
  <2> QED  BY Zenon, <2>1, <2>2, PlainKeeps
<1>5. ASSUME NEW q \in Req, SessionStep(q)
      PROVE  SessionInv'
  BY Zenon, <1>5, RefreshSessions, RevokesSessions, IssueSessions DEF SessionStep
<1>6. CASE TokenEnds
  BY Zenon, <1>6, EndsSessions
<1> QED
  BY Zenon, <1>1, <1>2, <1>3, <1>4, <1>5, <1>6, StepKinds DEF WritesInv

\* Both theorems about sessions rest on this.
THEOREM SessionsSafe == AccountSpec => [](Typed /\ SessionInv)
<1> DEFINE Inv == Typed /\ WritesInv /\ SessionInv
<1>1. AccountInit => Inv
  <2> SUFFICES ASSUME AccountInit PROVE Inv
    OBVIOUS
  <2>1. \A q \in Req : ~Exchanging(req[q])
    BY Zenon, IdleHolds DEF AccountInit
  <2>2. SessionInv
    BY <2>1 DEF AccountInit, StoreInit, SessionInv, ExchangeInv, OnceInv, OutInv
  <2> QED  BY <2>2, AccountStart
<1>2. Inv /\ [AccountNext]_vars => Inv'
  BY TypedStep, WritesStep, SessionsStep DEF WritesInv
<1> QED  BY <1>1, <1>2, PTL DEF AccountSpec

\* THEOREM: a refresh token is revoked before its successor exists, and has one
\* successor unless two requests had read it before it was revoked (RefreshToken).
THEOREM TokensRotate == AccountSpec => []Rotation
<1>1. Typed /\ SessionInv => Rotation
  <2> SUFFICES ASSUME Typed, SessionInv, NEW t \in DOMAIN tokens
               PROVE  LET next == {s \in DOMAIN tokens : tokens[s].from = t}
                      IN  /\ next # {} => tokens[t].state = "revoked"
                          /\ t \notin raced => Cardinality(next) <= 1
    BY Zenon DEF Rotation
  <2> DEFINE next == {s \in DOMAIN tokens : tokens[s].from = t}
  <2>1. t # 0
    BY DEF Typed
  <2>2. next # {} => tokens[t].state = "revoked"
    BY Zenon, <2>1 DEF SessionInv, ExchangeInv
  <2>3. t \notin raced => \A x, y \in next : x = y
    BY Zenon DEF SessionInv, OnceInv, Once
  <2>4. t \notin raced => Cardinality(next) <= 1
    BY Zenon, <2>3, AtMostOne
  <2> QED  BY Zenon, <2>2, <2>4
<1> QED  BY <1>1, SessionsSafe, PTL

\* THEOREM: who is logged out everywhere, with no request of theirs under way, has
\* no usable refresh token until they sign in again (LogoutAll, RefreshToken).
THEOREM SignedOutForGood == AccountSpec => []SignedOutStays
<1>1. SessionInv => SignedOutStays
  BY Zenon DEF SessionInv, OutInv, SignedOutStays
<1> QED  BY <1>1, SessionsSafe, PTL
=============================================================================
