-------------------------- MODULE ResilienceProofs ---------------------------
(***************************************************************************)
(* What the limits and the breaker run check on a few callers, for any     *)
(* number of callers and every configuration: the limiters keep their      *)
(* rates, Retry tells the truth about fn, the registry hands out one       *)
(* breaker; the breaker's half-open requests are accounted for, so that it *)
(* is never stuck, it changes state only on the evidence its thresholds    *)
(* ask for, and its failure rate is that of the last outcomes.             *)
(***************************************************************************)
EXTENDS Retry, CircuitBreaker, TLAPS

Pc == {"idle", "create", "check", "wait", "op", "backoff"}

\* The invariant of the bucket: the tokens handed out and those still there
\* never exceed the burst and the time up to the last refill.
BucketInv ==
  /\ now \in Nat /\ lastRefill \in Nat /\ granted \in Nat /\ tokens \in Int
  /\ wait \in [Caller -> [n : Nat, until : Int]]
  /\ lastRefill <= now
  /\ tokens <= Burst
  /\ granted + tokens <= Burst + lastRefill

\* The invariant of Retry: RetryTruthful, and where in its loop a caller is.
LoopTyped ==
  /\ pc \in [Caller -> Pc]
  /\ max \in [Caller -> Nat]
  /\ attempt \in [Caller -> Nat]
  /\ result \in [Caller -> {"none", "nil", "ctx", "err", "fatal"}]
  /\ done \in [Caller -> BOOLEAN]

LoopOf(c) ==
  /\ pc[c] \in {"idle", "create"} => attempt[c] = 0
  /\ pc[c] \in {"idle", "create"} /\ result[c] = "nil" => done[c] \/ max[c] = 0
  /\ done[c] => pc[c] \in {"idle", "create"} /\ result[c] = "nil"
  /\ attempt[c] <= max[c]
  /\ pc[c] = "backoff" => attempt[c] < max[c]

LoopInv == LoopTyped /\ \A c \in Caller : LoopOf(c)

\* The invariant of the registry: what Get returned is what the registry holds.
RegistryInv ==
  /\ built \in Nat /\ breaker \in Nat
  /\ got \in [Caller -> Nat]
  /\ \A c \in Caller : got[c] # 0 => got[c] = breaker
-----------------------------------------------------------------------------
(* The token bucket.                                                       *)

\* refill never fills the bucket past the burst nor adds more than the time
\* that has passed.
LEMMA RefillBound ==
  ASSUME BucketInv
  PROVE  /\ Refilled \in Int /\ Refilled <= Burst
         /\ granted + Refilled <= Burst + now
BY LimiterAssumption DEF BucketInv, Refilled

\* Handing out n tokens keeps the invariant of the bucket.
LEMMA TakeKeeps ==
  ASSUME BucketInv, NEW n \in Nat, Take(n), now' = now,
         wait' \in [Caller -> [n : Nat, until : Int]]
  PROVE  BucketInv'
BY RefillBound, LimiterAssumption DEF BucketInv, Take

\* So does a refill that hands out nothing.
LEMMA RefillKeeps ==
  ASSUME BucketInv, RefillOnly, now' = now,
         wait' \in [Caller -> [n : Nat, until : Int]]
  PROVE  BucketInv'
BY RefillBound, LimiterAssumption DEF BucketInv, RefillOnly

\* What an attempt does at the bucket keeps its invariant ...
LEMMA AttemptKeeps ==
  ASSUME BucketInv, NEW c \in Caller, NEW n \in Ask,
         \/ Acquire(c, n) \/ AllowRejects(c, n)
         \/ WaitRejects(c, n) \/ WaitBegins(c, n)
  PROVE  BucketInv'
<1>n. n \in Nat /\ wait \in [Caller -> [n : Nat, until : Int]]
  BY LimiterAssumption DEF BucketInv
<1>1. CASE Acquire(c, n)
  BY <1>n, <1>1, TakeKeeps DEF Acquire
<1>2. CASE AllowRejects(c, n) \/ WaitRejects(c, n)
  BY <1>n, <1>2, RefillKeeps DEF AllowRejects, WaitRejects
<1>3. CASE WaitBegins(c, n)
  <2>1. now + WaitTime(n) \in Int
    BY <1>n, RefillBound DEF WaitTime, BucketInv
  <2>2. wait' \in [Caller -> [n : Nat, until : Int]]
    BY <1>n, <1>3, <2>1 DEF WaitBegins
  <2> QED  BY <1>3, <2>2, RefillKeeps DEF WaitBegins
<1> QED  BY <1>1, <1>2, <1>3

\* ... and so does the end of a wait.
LEMMA WaitKeeps ==
  ASSUME BucketInv, NEW c \in Caller, WaitGrants(c) \/ WaitCancelled(c)
  PROVE  BucketInv'
<1>1. wait \in [Caller -> [n : Nat, until : Int]] /\ wait[c].n \in Nat
  BY DEF BucketInv
<1>2. wait' \in [Caller -> [n : Nat, until : Int]]
  BY <1>1 DEF WaitGrants, WaitCancelled, NoWait
<1>3. CASE WaitGrants(c)
  BY <1>1, <1>2, <1>3, TakeKeeps DEF WaitGrants
<1>4. CASE WaitCancelled(c)
  BY <1>2, <1>4 DEF WaitCancelled, BucketInv
<1> QED  BY <1>3, <1>4
-----------------------------------------------------------------------------
(* Every step keeps the three invariants.                                  *)

\* The clock and the limiters.
LEMMA BucketStep ==
  ASSUME BucketInv, [RetryNext]_allVars
  PROVE  BucketInv'
<1>1. CASE UNCHANGED limiterVars
  BY <1>1 DEF limiterVars, bucketVars, BucketInv
<1>2. CASE Tick
  BY <1>2 DEF Tick, bucketVars, BucketInv
<1>3. ASSUME NEW c \in Caller, Attempt(c)
      PROVE  BucketInv'
  <2>1. CASE \E n \in Ask : \/ Acquire(c, n) \/ AllowRejects(c, n)
                            \/ WaitRejects(c, n) \/ WaitBegins(c, n)
    BY <2>1, AttemptKeeps
  <2>2. CASE WindowAllows \/ WindowRejects
    BY <2>2 DEF WindowAllows, WindowRejects, bucketVars, BucketInv
  <2> QED  BY <1>3, <2>1, <2>2 DEF Attempt
<1>4. ASSUME NEW c \in Caller, Waited(c)
      PROVE  BucketInv'
  BY <1>4, WaitKeeps DEF Waited
<1> QED
  BY <1>1, <1>2, <1>3, <1>4
     DEF RetryNext, allVars, GetFinds, GetMisses, GetOrCreate, Begin, Cancelled,
         OpSucceeds, OpFails, PauseEnds

\* The bucket starts full.
LEMMA BucketStarts == RetryInit => BucketInv
<1> SUFFICES ASSUME RetryInit PROVE BucketInv  OBVIOUS
<1>1. wait \in [Caller -> [n : Nat, until : Int]]
  BY DEF RetryInit, LimiterInit, NoWait
<1> QED  BY <1>1, LimiterAssumption DEF RetryInit, LimiterInit, BucketInv

\* THEOREM: the token bucket keeps its rate (TokenBucketLimiter), whoever asks
\* for how many tokens and however the waits overlap.
THEOREM RateKept == RetrySpec => []RateBounded
<1>1. BucketInv /\ [RetryNext]_allVars => BucketInv'
  BY BucketStep
<1>2. BucketInv => RateBounded
  BY LimiterAssumption DEF BucketInv, RateBounded
<1> QED  BY <1>1, <1>2, BucketStarts, PTL DEF RetrySpec
-----------------------------------------------------------------------------
(* Retry.                                                                  *)

\* A caller that moves leaves the others where they are.
OthersStay(c) ==
  \A e \in Caller \ {c} :
    /\ pc'[e] = pc[e] /\ max'[e] = max[e] /\ attempt'[e] = attempt[e]
    /\ result'[e] = result[e] /\ done'[e] = done[e]

\* So only its own place in the loop matters.
LEMMA LoopMoves ==
  ASSUME LoopInv, NEW c \in Caller, LoopTyped', LoopOf(c)', OthersStay(c)
  PROVE  LoopInv'
<1>1. ASSUME NEW e \in Caller \ {c} PROVE LoopOf(e)'
  BY DEF LoopInv, LoopOf, OthersStay
<1> QED  BY <1>1 DEF LoopInv

\* A failed attempt ends the call, or leads to a pause when another one is left.
LEMMA FailKeeps ==
  ASSUME LoopInv, NEW c \in Caller, pc[c] \in {"check", "wait", "op"},
         NEW e \in {"err", "fatal"}, Fails(c, e)
  PROVE  LoopInv'
<1> USE DEF LoopInv, Fails, Returns, Goto
<1>1. LoopTyped'
  BY DEF LoopTyped, Pc
<1>2. LoopOf(c)'
  BY DEF LoopTyped, LoopOf
<1>3. OthersStay(c)
  BY DEF LoopTyped, OthersStay
<1> QED  BY <1>1, <1>2, <1>3, LoopMoves

\* A caller let through goes on, in the same attempt.
LEMMA EnterKeeps ==
  ASSUME LoopInv, NEW c \in Caller, pc[c] \in {"check", "wait", "op"},
         NEW l \in {"wait", "op"}, Enters(c, l)
  PROVE  LoopInv'
<1> USE DEF LoopInv, Enters, Goto
<1>1. LoopTyped'
  BY DEF LoopTyped, Pc
<1>2. LoopOf(c)'
  BY DEF LoopTyped, LoopOf
<1>3. OthersStay(c)
  BY DEF LoopTyped, OthersStay
<1> QED  BY <1>1, <1>2, <1>3, LoopMoves

\* Every step keeps the invariant of Retry.
LEMMA LoopStep ==
  ASSUME LoopInv, [RetryNext]_allVars
  PROVE  LoopInv'
<1>1. CASE UNCHANGED retryVars
  BY <1>1 DEF retryVars, LoopInv, LoopTyped, LoopOf
<1>2. ASSUME NEW c \in Caller,
             \/ GetMisses(c) \/ GetOrCreate(c)
             \/ Cancelled(c) \/ OpSucceeds(c) \/ PauseEnds(c)
      PROVE  LoopInv'
  <2> USE DEF LoopInv, GetMisses, GetOrCreate, Cancelled, OpSucceeds, PauseEnds,
              Returns, Goto
  <2>1. LoopTyped'
    <3>1. CASE GetMisses(c) \/ GetOrCreate(c)
      BY <3>1 DEF LoopTyped, Pc
    <3>2. CASE Cancelled(c)
      BY <3>2 DEF LoopTyped, Pc
    <3>3. CASE OpSucceeds(c)
      BY <3>3 DEF LoopTyped, Pc
    <3>4. CASE PauseEnds(c)
      BY <3>4 DEF LoopTyped, Pc
    <3> QED  BY <1>2, <3>1, <3>2, <3>3, <3>4
  <2>2. LoopOf(c)'
    BY <1>2 DEF LoopTyped, LoopOf
  <2>3. OthersStay(c)
    BY <1>2 DEF LoopTyped, OthersStay
  <2> QED  BY SMTT(20), <2>1, <2>2, <2>3, LoopMoves
<1>3. ASSUME NEW c \in Caller, NEW m \in MaxAttemptsSet, Begin(c, m)
      PROVE  LoopInv'
  <2> USE DEF LoopInv, Begin, Goto
  <2>0. m \in Nat
    BY RetryAssumption
  <2>1. LoopTyped'
    BY <1>3, <2>0 DEF LoopTyped, Pc
  <2>2. LoopOf(c)'
    BY <1>3, <2>0 DEF LoopTyped, LoopOf
  <2>3. OthersStay(c)
    BY <1>3 DEF LoopTyped, OthersStay
  <2> QED  BY <2>1, <2>2, <2>3, LoopMoves
<1>4. ASSUME NEW c \in Caller, Attempt(c) \/ Waited(c) \/ OpFails(c)
      PROVE  LoopInv'
  <2>1. pc[c] \in {"check", "wait", "op"}
    BY <1>4 DEF Attempt, Waited, OpFails
  <2>2. \/ \E l \in {"wait", "op"} : Enters(c, l)
        \/ \E e \in {"err", "fatal"} : Fails(c, e)
    BY <1>4 DEF Attempt, Waited, OpFails
  <2> QED  BY <2>1, <2>2, EnterKeeps, FailKeeps
<1> QED
  BY <1>1, <1>2, <1>3, <1>4 DEF RetryNext, allVars, GetFinds

\* THEOREM: Retry reports success only when fn has succeeded, never calls fn
\* after that, and never more often than MaxAttempts says.
THEOREM RetryHonest == RetrySpec => []RetryTruthful
<1>1. RetryInit => LoopInv
  BY DEF RetryInit, LoopInv, LoopTyped, LoopOf, Pc
<1>2. LoopInv /\ [RetryNext]_allVars => LoopInv'
  BY LoopStep
<1>3. LoopInv => RetryTruthful
  BY DEF LoopInv, LoopOf, RetryTruthful
<1> QED  BY <1>1, <1>2, <1>3, PTL DEF RetrySpec
-----------------------------------------------------------------------------
(* The registry.                                                           *)

\* THEOREM: however the two looks of Get interleave, every caller holds the
\* same breaker (CircuitBreakerRegistry.Get).
THEOREM BreakerShared == RetrySpec => []OneBreaker
<1>1. RetryInit => RegistryInv
  BY SMTT(20) DEF RetryInit, RegistryInv
<1>2. RegistryInv /\ [RetryNext]_allVars => RegistryInv'
  <2> SUFFICES ASSUME RegistryInv, [RetryNext]_allVars PROVE RegistryInv'
    OBVIOUS
  <2>1. CASE UNCHANGED regVars
    BY <2>1 DEF regVars, RegistryInv
  <2>2. ASSUME NEW c \in Caller, GetFinds(c) \/ GetOrCreate(c)
        PROVE  RegistryInv'
    BY <2>2 DEF GetFinds, GetOrCreate, RegistryInv
  <2> QED
    BY <2>1, <2>2
       DEF RetryNext, allVars, regVars, GetMisses, Begin, Cancelled, Attempt, Waited,
           OpSucceeds, OpFails, PauseEnds
<1>3. RegistryInv => OneBreaker
  BY DEF RegistryInv, OneBreaker
<1> QED  BY <1>1, <1>2, <1>3, PTL DEF RetrySpec
-----------------------------------------------------------------------------
(* The debt of the token bucket.                                           *)

INSTANCE FiniteSetTheorems

Most  == Max(Ask)
Floor == (IF Most > Burst THEN Burst ELSE Most) - Cardinality(Caller) * Most

\* The tokens that the waits which end by t are going to take, one by one.
Owed(t) ==
  {x \in Caller \X (1..Most) : /\ Waiting(x[1]) /\ wait[x[1]].until <= t
                               /\ x[2] <= wait[x[1]].n}

\* What will be left at t when all of them have been served.
Left(t) == Refilled + (t - now) - Cardinality(Owed(t))

\* The invariant of the debt: the bucket is never going to be below Floor if
\* nobody else asks.
DebtInv ==
  /\ BucketInv
  /\ \A c \in Caller : wait[c].n <= Most
  /\ tokens >= Floor
  /\ \A t \in Nat : t >= now => Left(t) >= Floor

\* The largest request, and the two ways in which Floor bounds the debt.
LEMMA FloorFacts ==
  /\ Most \in Nat /\ \A n \in Ask : n \in Nat /\ n <= Most
  /\ Cardinality(Caller) \in Nat /\ Cardinality(Caller) * Most \in Nat
  /\ Floor \in Int
  /\ Floor <= Burst - Cardinality(Caller) * Most
  /\ Floor <= -((Cardinality(Caller) - 1) * Most)
<1>1. Most \in Ask /\ \A n \in Ask : Most >= n
  BY Zenon, LimiterAssumption DEF Most, Max
<1>2. Most \in Nat /\ \A n \in Ask : n \in Nat /\ n <= Most
  BY <1>1, LimiterAssumption
<1>3. Cardinality(Caller) \in Nat
  BY Zenon, LimiterAssumption, FS_CardinalityType
<1> DEFINE N == Cardinality(Caller)
<1> HIDE DEF N
<1>4. N * Most \in Nat /\ (N - 1) * Most = N * Most - Most
  BY <1>2, <1>3 DEF N
<1> DEFINE P == N * Most
<1> HIDE DEF P
<1>5. Floor = (IF Most > Burst THEN Burst ELSE Most) - P
  BY Zenon DEF Floor, P, N
<1>6. P \in Nat /\ Floor \in Int /\ Floor <= Burst - P /\ Floor <= -(P - Most)
  BY <1>2, <1>4, <1>5, LimiterAssumption DEF P
<1>7. QED BY <1>2, <1>3, <1>4, <1>6 DEF P, N

\* Callers owe Most tokens each, at most.
LEMMA OwedAtMost ==
  ASSUME NEW S \in SUBSET Caller, NEW O \in SUBSET (S \X (1..Most))
  PROVE  /\ IsFiniteSet(O) /\ Cardinality(O) \in Nat
         /\ Cardinality(O) <= Cardinality(S) * Most
<1>1. IsFiniteSet(S)
  BY Zenon, LimiterAssumption, FS_Subset
<1>2. IsFiniteSet(1..Most) /\ Cardinality(1..Most) = Most
  BY FloorFacts, FS_Interval
<1>3. IsFiniteSet(S \X (1..Most)) /\ Cardinality(S \X (1..Most)) = Cardinality(S) * Most
  BY Zenon, <1>1, <1>2, FS_Product
<1>4. QED BY Zenon, <1>3, FS_Subset, FS_CardinalityType

\* If one caller waits for nothing, only the others owe.
LEMMA OthersOwe ==
  ASSUME NEW c \in Caller, NEW O \in SUBSET ((Caller \ {c}) \X (1..Most))
  PROVE  /\ IsFiniteSet(O) /\ Cardinality(O) \in Nat
         /\ Floor + Cardinality(O) <= 0
<1>1. Cardinality(Caller \ {c}) = Cardinality(Caller) - 1
  BY Zenon, LimiterAssumption, FS_RemoveElement
<1>2. /\ IsFiniteSet(O) /\ Cardinality(O) \in Nat
      /\ Cardinality(O) <= (Cardinality(Caller) - 1) * Most
  BY Zenon, <1>1, OwedAtMost
<1>3. (Cardinality(Caller) - 1) * Most \in Int
  BY FloorFacts
<1>4. QED BY <1>2, <1>3, FloorFacts

\* One caller's tokens.
LEMMA OwnTokens ==
  ASSUME NEW c, NEW n \in Nat
  PROVE  IsFiniteSet({c} \X (1..n)) /\ Cardinality({c} \X (1..n)) = n
<1>1. IsFiniteSet(1..n) /\ Cardinality(1..n) = n
  BY FS_Interval
<1>2. IsFiniteSet({c}) /\ Cardinality({c}) = 1
  BY Zenon, FS_Singleton
<1>3. /\ IsFiniteSet({c} \X (1..n))
      /\ Cardinality({c} \X (1..n)) = Cardinality({c}) * Cardinality(1..n)
  BY Zenon, <1>1, <1>2, FS_Product
<1>4. QED BY <1>1, <1>2, <1>3

\* What is owed is finite.
LEMMA OwedFinite ==
  ASSUME NEW t
  PROVE  /\ IsFiniteSet(Owed(t)) /\ Cardinality(Owed(t)) \in Nat
         /\ Floor + Cardinality(Owed(t)) <= Burst
<1>1. Owed(t) \in SUBSET (Caller \X (1..Most)) /\ Caller \in SUBSET Caller
  BY Zenon DEF Owed
<1>2. /\ IsFiniteSet(Owed(t)) /\ Cardinality(Owed(t)) \in Nat
      /\ Cardinality(Owed(t)) <= Cardinality(Caller) * Most
  BY Zenon, <1>1, OwedAtMost
<1>3. QED BY <1>2, FloorFacts, LimiterAssumption

\* After a refill the bucket holds what the refill found.
LEMMA JustRefilled ==
  ASSUME BucketInv, UNCHANGED now, lastRefill' = now,
         NEW v \in Int, v <= Burst, tokens' = v
  PROVE  Refilled' = v
<1>1. now' - lastRefill' = 0
  BY DEF BucketInv
<1>2. v + 0 = v /\ ~(v > Burst)
  BY LimiterAssumption
<1>3. QED BY Zenon, <1>1, <1>2 DEF Refilled

\* What DebtInv says of the moment.
LEMMA NowLeft ==
  ASSUME DebtInv
  PROVE  /\ Refilled \in Int /\ Refilled <= Burst /\ Refilled >= Floor
         /\ now \in Nat /\ Floor \in Int
<1>1. Refilled \in Int /\ Refilled <= Burst /\ now \in Nat /\ Floor \in Int
  BY RefillBound, FloorFacts DEF DebtInv, BucketInv
<1>2. Left(now) >= Floor
  BY <1>1 DEF DebtInv
<1>3. Cardinality(Owed(now)) \in Nat /\ Left(now) = Refilled + (now - now) - Cardinality(Owed(now))
  BY Zenon, OwedFinite DEF Left
<1>4. QED BY <1>1, <1>2, <1>3

\* The clock.
LEMMA TickOwes ==
  ASSUME DebtInv, Tick
  PROVE  DebtInv'
<1>1. now' = now + 1 /\ UNCHANGED <<tokens, lastRefill, wait, granted>>
  BY Zenon DEF Tick, bucketVars
<1>2. BucketInv'
  BY <1>1 DEF DebtInv, BucketInv
<1>3. ASSUME NEW t \in Nat, t >= now' PROVE Left(t)' >= Floor
  <2>1. Owed(t)' = Owed(t)
    BY Zenon, <1>1 DEF Owed, Waiting
  <2>2. Cardinality(Owed(t)) \in Nat /\ Floor + Cardinality(Owed(t)) <= Burst /\ Floor \in Int
    BY Zenon, OwedFinite, FloorFacts
  <2>3. Left(t) >= Floor
    BY <1>1, <1>3 DEF DebtInv, BucketInv
  <2>4. Refilled \in Int /\ Refilled' \in Int /\ (Refilled' = Burst \/ Refilled' = Refilled + 1)
    BY <1>1, LimiterAssumption DEF DebtInv, BucketInv, Refilled
  <2>5. now \in Nat /\ now' \in Nat
    BY <1>1 DEF DebtInv, BucketInv
  <2> DEFINE k == Cardinality(Owed(t))
  <2>6. Left(t)' = Refilled' + (t - now') - k /\ Left(t) = Refilled + (t - now) - k
    BY Zenon, <2>1 DEF Left
  <2> HIDE DEF k
  <2>7. QED BY <1>1, <1>3, <2>2, <2>3, <2>4, <2>5, <2>6, LimiterAssumption DEF k
<1>4. QED BY Zenon, <1>1, <1>2, <1>3 DEF DebtInv

\* A refill that hands out nothing, to a caller that does not wait.
LEMMA RejectOwes ==
  ASSUME DebtInv, NEW c \in Caller, NEW n \in Ask, AllowRejects(c, n) \/ WaitRejects(c, n)
  PROVE  DebtInv'
<1>1. RefillOnly /\ UNCHANGED <<now, wait>>
  BY Zenon DEF AllowRejects, WaitRejects
<1>2. BucketInv'
  BY Zenon, AttemptKeeps DEF DebtInv
<1>3. tokens' = Refilled /\ lastRefill' = now
  BY Zenon, <1>1 DEF RefillOnly
<1>4. Refilled' = Refilled
  BY Zenon, <1>1, <1>3, NowLeft, JustRefilled DEF DebtInv
<1>5. \A t : Owed(t)' = Owed(t)
  BY Zenon, <1>1 DEF Owed, Waiting
<1>6. \A t : Left(t)' = Left(t)
  BY Zenon, <1>1, <1>4, <1>5 DEF Left
<1>7. QED BY Zenon, <1>1, <1>2, <1>3, <1>6, NowLeft DEF DebtInv

\* A caller that finds its tokens leaves no debt, and owes nothing itself.
LEMMA AcquireOwes ==
  ASSUME DebtInv, NEW c \in Caller, NEW n \in Ask, Acquire(c, n)
  PROVE  DebtInv'
<1>1. /\ ~Waiting(c) /\ Refilled >= n /\ UNCHANGED <<now, wait>>
      /\ tokens' = Refilled - n /\ lastRefill' = now
  BY Zenon DEF Acquire, Take
<1>2. n \in Nat /\ now \in Nat /\ Refilled \in Int /\ Refilled <= Burst /\ Floor \in Int
  BY Zenon, NowLeft, FloorFacts
<1>3. BucketInv'
  BY Zenon, AttemptKeeps DEF DebtInv
<1>4. tokens' \in Int /\ tokens' <= Burst /\ tokens' >= 0
  BY <1>1, <1>2, LimiterAssumption
<1>5. Refilled' = tokens'
  BY Zenon, <1>1, <1>4, JustRefilled DEF DebtInv
<1>6. ASSUME NEW t \in Nat, t >= now' PROVE Left(t)' >= Floor
  <2>1. Owed(t)' = Owed(t)
    BY Zenon, <1>1 DEF Owed, Waiting
  <2>2. Owed(t) \in SUBSET ((Caller \ {c}) \X (1..Most))
    BY <1>1 DEF Owed
  <2>3. Cardinality(Owed(t)) \in Nat /\ Floor + Cardinality(Owed(t)) <= 0
    BY Zenon, <2>2, OthersOwe
  <2>4. Left(t)' = tokens' + (t - now) - Cardinality(Owed(t))
    BY Zenon, <1>1, <1>5, <2>1 DEF Left
  <2>5. QED BY <1>1, <1>2, <1>4, <1>6, <2>3, <2>4
<1>7. tokens' >= Floor
  <2>1. {} \in SUBSET ((Caller \ {c}) \X (1..Most)) /\ Cardinality({}) = 0
    BY Zenon, FS_EmptySet
  <2>2. Floor + 0 <= 0
    BY Zenon, <2>1, OthersOwe
  <2>3. QED BY <1>2, <1>4, <2>2
<1>8. QED BY Zenon, <1>1, <1>3, <1>6, <1>7 DEF DebtInv

\* A caller that begins to wait will find its tokens, unless others take them.
LEMMA BeginOwes ==
  ASSUME DebtInv, NEW c \in Caller, NEW n \in Ask, WaitBegins(c, n)
  PROVE  DebtInv'
<1> DEFINE u == now + (n - Refilled)
<1>1. /\ ~Waiting(c) /\ UNCHANGED now /\ tokens' = Refilled /\ lastRefill' = now
      /\ wait' = [wait EXCEPT ![c] = [n |-> n, until |-> u]]
  BY Zenon DEF WaitBegins, RefillOnly, WaitTime
<1>2. /\ n \in Nat /\ n <= Most /\ Most \in Nat
      /\ now \in Nat /\ Refilled \in Int /\ Refilled <= Burst /\ Floor \in Int
      /\ Refilled >= Floor
  BY Zenon, NowLeft, FloorFacts
<1>3. BucketInv'
  BY Zenon, AttemptKeeps DEF DebtInv
<1>4. Refilled' = Refilled
  BY Zenon, <1>1, <1>2, JustRefilled DEF DebtInv
<1>5. /\ wait'[c].n = n /\ wait'[c].until = u
      /\ \A d \in Caller \ {c} : wait'[d] = wait[d]
  BY <1>1 DEF DebtInv, BucketInv
<1>6. \A d \in Caller : wait'[d].n <= Most
  BY Zenon, <1>2, <1>5 DEF DebtInv
<1>7. ASSUME NEW t \in Nat, t >= now' PROVE Left(t)' >= Floor
  <2>1. Owed(t) \in SUBSET ((Caller \ {c}) \X (1..Most))
    BY <1>1 DEF Owed
  <2>2. CASE u <= t
    <3> DEFINE own == {c} \X (1..n)
    <3>1. Owed(t)' \subseteq Owed(t) \cup own
      BY <1>2, <1>5 DEF Owed, Waiting
    <3>2. IsFiniteSet(own) /\ Cardinality(own) = n
      BY Zenon, <1>2, OwnTokens
    <3> HIDE DEF own
    <3>3. /\ IsFiniteSet(Owed(t)) /\ Cardinality(Owed(t)) \in Nat
          /\ Floor + Cardinality(Owed(t)) <= 0
      BY Zenon, <2>1, OthersOwe
    <3>4. /\ IsFiniteSet(Owed(t) \cup own)
          /\ Cardinality(Owed(t) \cup own)
               = Cardinality(Owed(t)) + n - Cardinality(Owed(t) \cap own)
          /\ Cardinality(Owed(t) \cap own) \in Nat
      <4>1. IsFiniteSet(Owed(t) \cap own)
        BY Zenon, <3>2, FS_Subset
      <4>2. QED BY Zenon, <3>2, <3>3, <4>1, FS_Union, FS_CardinalityType
    <3>5. /\ Cardinality(Owed(t)') \in Nat
          /\ Cardinality(Owed(t)') <= Cardinality(Owed(t) \cup own)
      BY Zenon, <3>1, <3>4, FS_Subset, FS_CardinalityType
    <3>6. Cardinality(Owed(t)') <= Cardinality(Owed(t)) + n
      BY <1>2, <3>3, <3>4, <3>5
    <3>7. Left(t)' = Refilled + (t - now) - Cardinality(Owed(t)')
      BY Zenon, <1>1, <1>4 DEF Left
    <3>8. QED BY <1>2, <2>2, <3>3, <3>5, <3>6, <3>7
  <2>3. CASE ~(u <= t)
    <3>1. Owed(t)' = Owed(t)
      BY <1>1, <1>5, <2>3 DEF Owed, Waiting
    <3>2. Left(t)' = Left(t)
      BY Zenon, <1>1, <1>4, <3>1 DEF Left
    <3>3. QED BY Zenon, <1>1, <1>7, <3>2 DEF DebtInv
  <2>4. QED BY Zenon, <2>2, <2>3
<1>8. QED BY Zenon, <1>1, <1>2, <1>3, <1>6, <1>7 DEF DebtInv

\* A wait that ends takes what it owed; what is left of the others is the same.
LEMMA GrantOwes ==
  ASSUME DebtInv, NEW c \in Caller, WaitGrants(c)
  PROVE  DebtInv'
<1> DEFINE n == wait[c].n
           own == {c} \X (1..n)
<1>1. /\ Waiting(c) /\ wait[c].until <= now /\ UNCHANGED now
      /\ tokens' = Refilled - n /\ lastRefill' = now
      /\ wait' = [wait EXCEPT ![c] = NoWait]
  BY DEF WaitGrants, Take, DebtInv, BucketInv
<1>2. /\ n \in Nat /\ n <= Most /\ Most \in Nat /\ wait[c].until \in Int
      /\ now \in Nat /\ Refilled \in Int /\ Refilled <= Burst /\ Floor \in Int
  BY NowLeft, FloorFacts DEF DebtInv, BucketInv
<1>3. BucketInv'
  BY Zenon, WaitKeeps DEF DebtInv
<1>4. wait'[c] = NoWait /\ \A d \in Caller \ {c} : wait'[d] = wait[d]
  BY Zenon, <1>1 DEF DebtInv, BucketInv
<1>5. \A d \in Caller : wait'[d].n <= Most
  <2>1. NoWait.n <= Most
    BY SMTT(20), <1>2 DEF NoWait
  <2>2. QED BY Zenon, <1>4, <2>1 DEF DebtInv
<1>6. Refilled - n \in Int /\ Refilled - n <= Burst
  BY <1>2, LimiterAssumption
<1>7. Refilled' = Refilled - n
  BY Zenon, <1>1, <1>6, JustRefilled DEF DebtInv
<1>8. IsFiniteSet(own) /\ Cardinality(own) = n
  BY Zenon, <1>2, OwnTokens
<1>9. ASSUME NEW t \in Nat, t >= now
      PROVE  Left(t)' = Left(t) /\ Cardinality(Owed(t)') \in Nat
  <2>1. Owed(t)' = Owed(t) \ own
    <3>1. \A x \in Caller \X (1..Most) :
            x \in Owed(t)' <=> x \in Owed(t) /\ x \notin own
      BY <1>1, <1>2, <1>4 DEF Owed, Waiting
    <3>2. Owed(t)' \subseteq Caller \X (1..Most) /\ Owed(t) \subseteq Caller \X (1..Most)
      BY Zenon DEF Owed
    <3> HIDE DEF own
    <3>3. QED BY Zenon, <3>1, <3>2
  <2>2. wait[c].until <= t
    BY <1>1, <1>2, <1>9
  <2>3. own \subseteq Owed(t)
    BY <1>1, <1>2, <2>2 DEF Owed
  <2> HIDE DEF own
  <2>4. Owed(t) \cap own = own
    BY Zenon, <2>3
  <2>5. /\ IsFiniteSet(Owed(t)) /\ Cardinality(Owed(t)) \in Nat
        /\ IsFiniteSet(Owed(t)')
    BY Zenon, <2>1, OwedFinite, FS_Difference
  <2>6. Cardinality(Owed(t)') = Cardinality(Owed(t)) - n
    <3>1. Cardinality(Owed(t) \ own) = Cardinality(Owed(t)) - Cardinality(Owed(t) \cap own)
      BY Zenon, <2>5, FS_Difference
    <3>2. QED BY Zenon, <1>8, <2>1, <2>4, <3>1
  <2>7. Cardinality(Owed(t)') \in Nat
    BY Zenon, <2>5, FS_CardinalityType
  <2>8. /\ Left(t)' = (Refilled - n) + (t - now) - Cardinality(Owed(t)')
        /\ Left(t) = Refilled + (t - now) - Cardinality(Owed(t))
    BY Zenon, <1>1, <1>7 DEF Left
  <2> HIDE DEF n
  <2>9. QED BY <1>2, <2>5, <2>6, <2>7, <2>8
<1> HIDE DEF n, own
<1>10. tokens' >= Floor
  <2>1. PICK t \in Nat : t = now /\ t >= now
    BY <1>2
  <2>2. Left(t)' = Left(t) /\ Left(t) >= Floor /\ Cardinality(Owed(t)') \in Nat
    BY Zenon, <1>9, <2>1 DEF DebtInv
  <2>3. Left(t)' = (Refilled - n) + (t - now) - Cardinality(Owed(t)')
    BY Zenon, <1>1, <1>7 DEF Left
  <2>4. QED BY <1>1, <1>2, <2>1, <2>2, <2>3
<1>11. QED BY Zenon, <1>1, <1>3, <1>5, <1>9, <1>10 DEF DebtInv

\* A wait that is given up owes nothing any more.
LEMMA CancelOwes ==
  ASSUME DebtInv, NEW c \in Caller, WaitCancelled(c)
  PROVE  DebtInv'
<1>1. /\ UNCHANGED <<now, tokens, lastRefill>>
      /\ wait' = [wait EXCEPT ![c] = NoWait]
  BY Zenon DEF WaitCancelled
<1>2. BucketInv'
  BY Zenon, WaitKeeps DEF DebtInv
<1>3. wait'[c] = NoWait /\ \A d \in Caller \ {c} : wait'[d] = wait[d]
  BY Zenon, <1>1 DEF DebtInv, BucketInv
<1>4. \A d \in Caller : wait'[d].n <= Most
  <2>1. NoWait.n <= Most
    BY FloorFacts DEF NoWait
  <2>2. QED BY Zenon, <1>3, <2>1 DEF DebtInv
<1>5. ASSUME NEW t \in Nat, t >= now PROVE Left(t)' >= Floor
  <2>1. Owed(t)' \subseteq Owed(t)
    BY <1>3 DEF Owed, Waiting
  <2>2. /\ Cardinality(Owed(t)) \in Nat /\ Cardinality(Owed(t)') \in Nat
        /\ Cardinality(Owed(t)') <= Cardinality(Owed(t))
    BY Zenon, <2>1, OwedFinite, FS_Subset, FS_CardinalityType
  <2>3. Refilled' = Refilled
    BY Zenon, <1>1 DEF Refilled
  <2>4. /\ Left(t)' = Refilled + (t - now) - Cardinality(Owed(t)')
        /\ Left(t) = Refilled + (t - now) - Cardinality(Owed(t))
    BY Zenon, <1>1, <2>3 DEF Left
  <2>5. Left(t) >= Floor /\ now \in Nat /\ Refilled \in Int /\ Floor \in Int
    BY Zenon, <1>5, NowLeft DEF DebtInv
  <2>6. QED BY <2>2, <2>4, <2>5
<1>6. QED BY Zenon, <1>1, <1>2, <1>4, <1>5 DEF DebtInv

\* Every step keeps the debt within its bound.
LEMMA DebtStep ==
  ASSUME DebtInv, [RetryNext]_allVars
  PROVE  DebtInv'
<1>1. CASE UNCHANGED bucketVars /\ UNCHANGED now
  <2>1. UNCHANGED <<now, tokens, lastRefill, wait, granted>>
    BY Zenon, <1>1 DEF bucketVars
  <2>2. \A t : Left(t)' = Left(t)
    BY Zenon, <2>1 DEF Left, Owed, Waiting, Refilled
  <2>3. BucketInv'
    BY Zenon, <2>1 DEF DebtInv, BucketInv
  <2>4. QED BY Zenon, <2>1, <2>2, <2>3 DEF DebtInv
<1>2. CASE Tick
  BY Zenon, <1>2, TickOwes
<1>3. ASSUME NEW c \in Caller, Attempt(c) PROVE DebtInv'
  <2>1. CASE \E n \in Ask : \/ Acquire(c, n) \/ AllowRejects(c, n)
                            \/ WaitRejects(c, n) \/ WaitBegins(c, n)
    BY Zenon, <2>1, AcquireOwes, RejectOwes, BeginOwes
  <2>2. CASE WindowAllows \/ WindowRejects
    BY Zenon, <1>1, <2>2 DEF WindowAllows, WindowRejects
  <2>3. QED BY Zenon, <1>3, <2>1, <2>2 DEF Attempt
<1>4. ASSUME NEW c \in Caller, Waited(c) PROVE DebtInv'
  BY Zenon, <1>4, GrantOwes, CancelOwes DEF Waited
<1>5. CASE UNCHANGED limiterVars
  BY Zenon, <1>1, <1>5 DEF limiterVars
<1>6. QED
  BY Zenon, <1>2, <1>3, <1>4, <1>5
     DEF RetryNext, allVars, GetFinds, GetMisses, GetOrCreate, Begin, Cancelled,
         OpSucceeds, OpFails, PauseEnds

\* THEOREM: however the waits of WaitN overlap, the token bucket's debt stays
\* below what the callers ask for, all but one of them (TokenBucketLimiter).
THEOREM DebtKept == RetrySpec => []DebtBounded
<1>1. RetryInit => DebtInv
  <2> SUFFICES ASSUME RetryInit PROVE DebtInv
    BY Zenon
  <2>1. BucketInv
    BY BucketStarts
  <2>2. /\ now = 0 /\ tokens = Burst /\ lastRefill = 0
        /\ \A c \in Caller : wait[c] = NoWait
    BY Zenon DEF RetryInit, LimiterInit
  <2>3. Refilled = Burst /\ NoWait.n <= Most
    BY <2>2, LimiterAssumption, FloorFacts DEF Refilled, NoWait
  <2>4. \A t : Owed(t) = {}
    BY Zenon, <2>2 DEF Owed, Waiting
  <2>5. Floor <= Burst /\ Floor \in Int
    BY FloorFacts, LimiterAssumption
  <2>6. ASSUME NEW t \in Nat PROVE Left(t) >= Floor
    <3>1. Left(t) = Burst + (t - 0) - 0
      BY Zenon, <2>2, <2>3, <2>4, FS_EmptySet DEF Left
    <3>2. QED BY <2>5, <3>1, LimiterAssumption
  <2>7. tokens >= Floor
    BY <2>2, <2>5, LimiterAssumption
  <2>8. QED BY Zenon, <2>1, <2>2, <2>3, <2>6, <2>7 DEF DebtInv
<1>2. DebtInv /\ [RetryNext]_allVars => DebtInv'
  BY Zenon, DebtStep
<1>3. DebtInv => DebtBounded
  BY Zenon DEF DebtInv, DebtBounded, Floor, Most
<1>4. QED BY <1>1, <1>2, <1>3, PTL DEF RetrySpec

-----------------------------------------------------------------------------
(* The sliding window.                                                     *)

\* The requests let in during the period that ends at a.
During(a) == {k \in DOMAIN admitted : admitted[k] \in (a - Period + 1)..a}

\* The invariant of the window: no request still in it has lost its timestamp.
WindowInv ==
  /\ now \in Nat /\ admitted \in Seq(Nat) /\ IsFiniteSet(stamps)
  /\ \A i \in DOMAIN admitted : admitted[i] <= now
  /\ \A i \in DOMAIN admitted : admitted[i] > now - Period => <<i, admitted[i]>> \in stamps
  /\ WindowExact

\* The requests of the period that ends now are among the timestamps kept.
LEMMA KeptStamps ==
  ASSUME WindowInv
  PROVE  /\ IsFiniteSet(InWindow(stamps)) /\ IsFiniteSet(During(now))
         /\ Cardinality(During(now)) <= Cardinality(InWindow(stamps))
         /\ Cardinality(During(now)) \in Nat /\ Cardinality(InWindow(stamps)) \in Nat
<1> DEFINE f == [k \in During(now) |-> <<k, admitted[k]>>]
<1>1. IsFiniteSet(InWindow(stamps))
  <2>1. InWindow(stamps) \in SUBSET stamps
    BY Zenon DEF InWindow
  <2>2. QED BY Zenon, <2>1, FS_Subset DEF WindowInv
<1>2. \A k \in During(now) : <<k, admitted[k]>> \in InWindow(stamps)
  BY LimiterAssumption DEF During, InWindow, WindowInv
<1>3. f \in Injection(During(now), InWindow(stamps))
  BY <1>2 DEF Injection, IsInjective
<1> HIDE DEF f
<1>4. QED BY Zenon, <1>1, <1>3, FS_Injection, FS_CardinalityType

\* One request more.
LEMMA WindowAdmits ==
  ASSUME WindowInv, WindowAllows
  PROVE  WindowInv'
<1> DEFINE n == Len(admitted) + 1
<1>1. /\ Cardinality(InWindow(stamps)) < Limit /\ UNCHANGED now
      /\ stamps' = InWindow(stamps) \cup {<<n, now>>}
      /\ admitted' = Append(admitted, now)
  BY Zenon DEF WindowAllows
<1>2. /\ n \in Nat /\ n \notin DOMAIN admitted /\ DOMAIN admitted' = DOMAIN admitted \cup {n}
      /\ admitted'[n] = now /\ \A k \in DOMAIN admitted : admitted'[k] = admitted[k]
      /\ admitted' \in Seq(Nat) /\ now \in Nat
      /\ \A k \in DOMAIN admitted : admitted[k] \in Nat
  BY <1>1 DEF WindowInv
<1> HIDE DEF n
<1>3. IsFiniteSet(stamps')
  BY Zenon, <1>1, KeptStamps, FS_AddElement
<1>4. \A i \in DOMAIN admitted' : admitted'[i] <= now'
  BY <1>1, <1>2 DEF WindowInv
<1>5. \A i \in DOMAIN admitted' :
        admitted'[i] > now' - Period => <<i, admitted'[i]>> \in stamps'
  BY <1>1, <1>2 DEF WindowInv, InWindow
<1>6. ASSUME NEW i \in DOMAIN admitted', NEW a, a = admitted'[i]
      PROVE  Cardinality(During(a)') <= Limit
  <2>1. a \in Nat /\ a <= now
    BY <1>1, <1>2, <1>4, <1>6
  <2>2. CASE a = now
    <3>1. During(a)' = During(now) \cup {n}
      BY <1>2, <2>2, LimiterAssumption DEF During
    <3>2. Cardinality(During(a)') \in {Cardinality(During(now)), Cardinality(During(now)) + 1}
      BY Zenon, <3>1, KeptStamps, FS_AddElement
    <3>3. QED BY <1>1, <3>2, KeptStamps, LimiterAssumption
  <2>3. CASE a # now
    <3>1. i \in DOMAIN admitted /\ a = admitted[i]
      BY Zenon, <1>2, <1>6, <2>3
    <3>2. During(a)' = During(a)
      BY <1>2, <2>1, <2>3, LimiterAssumption DEF During
    <3>3. Cardinality(During(a)) <= Limit
      BY Zenon, <3>1 DEF WindowInv, WindowExact, During
    <3>4. QED BY Zenon, <3>2, <3>3
  <2>4. QED BY Zenon, <2>2, <2>3
<1>7. WindowExact'
  BY Zenon, <1>6 DEF WindowExact, During
<1>8. QED BY Zenon, <1>1, <1>2, <1>3, <1>4, <1>5, <1>7 DEF WindowInv

\* Time passes, or a request is turned away: timestamps only go when they are
\* out of the window.
LEMMA WindowKeeps ==
  ASSUME WindowInv, UNCHANGED admitted, now' \in Nat, now <= now',
         stamps' \in {stamps, InWindow(stamps)}, stamps' = stamps \/ now' = now
  PROVE  WindowInv'
<1>1. IsFiniteSet(stamps')
  BY Zenon, KeptStamps DEF WindowInv
<1>2. /\ \A i \in DOMAIN admitted' : admitted'[i] <= now'
      /\ \A i \in DOMAIN admitted' :
           admitted'[i] > now' - Period => <<i, admitted'[i]>> \in stamps'
  BY SMTT(20), LimiterAssumption DEF WindowInv, InWindow
<1>3. WindowExact'
  BY Zenon DEF WindowInv, WindowExact
<1>4. QED BY Zenon, <1>1, <1>2, <1>3 DEF WindowInv

\* THEOREM: no period of the configured length sees more than Limit requests
\* pass (SlidingWindowLimiter.Allow).
THEOREM WindowKept == RetrySpec => []WindowExact
<1>1. RetryInit => WindowInv
  <2> SUFFICES ASSUME RetryInit PROVE WindowInv
    BY Zenon
  <2>1. now = 0 /\ stamps = {} /\ admitted = <<>>
    BY Zenon DEF RetryInit, LimiterInit
  <2>2. admitted \in Seq(Nat) /\ DOMAIN admitted = {}
    BY <2>1
  <2>3. QED BY <2>1, <2>2, FS_EmptySet DEF WindowInv, WindowExact
<1>2. WindowInv /\ [RetryNext]_allVars => WindowInv'
  <2> SUFFICES ASSUME WindowInv, [RetryNext]_allVars PROVE WindowInv'
    BY Zenon
  <2>1. now \in Nat /\ now <= now
    BY DEF WindowInv
  <2>2. CASE UNCHANGED <<now, windowVars>>
    BY Zenon, <2>1, <2>2, WindowKeeps DEF windowVars
  <2>3. CASE Tick
    <3>1. now' \in Nat /\ now <= now' /\ UNCHANGED windowVars
      BY <2>1, <2>3 DEF Tick
    <3>2. QED BY Zenon, <3>1, WindowKeeps DEF windowVars
  <2>4. ASSUME NEW c \in Caller, Attempt(c) PROVE WindowInv'
    <3>1. CASE \E n \in Ask : \/ Acquire(c, n) \/ AllowRejects(c, n)
                              \/ WaitRejects(c, n) \/ WaitBegins(c, n)
      BY Zenon, <2>2, <3>1 DEF Acquire, AllowRejects, WaitRejects, WaitBegins
    <3>2. CASE WindowAllows
      BY Zenon, <3>2, WindowAdmits
    <3>3. CASE WindowRejects
      BY Zenon, <2>1, <3>3, WindowKeeps DEF WindowRejects
    <3>4. QED BY Zenon, <2>4, <3>1, <3>2, <3>3 DEF Attempt
  <2>5. ASSUME NEW c \in Caller, Waited(c) PROVE WindowInv'
    BY Zenon, <2>2, <2>5 DEF Waited, WaitGrants, WaitCancelled
  <2>6. CASE UNCHANGED limiterVars
    BY Zenon, <2>2, <2>6 DEF limiterVars
  <2>7. QED
    BY Zenon, <2>3, <2>4, <2>5, <2>6
       DEF RetryNext, allVars, GetFinds, GetMisses, GetOrCreate, Begin, Cancelled,
           OpSucceeds, OpFails, PauseEnds
<1>3. WindowInv => WindowExact
  BY Zenon DEF WindowInv
<1>4. QED BY <1>1, <1>2, <1>3, PTL DEF RetrySpec

-----------------------------------------------------------------------------
(* The circuit breaker.                                                    *)

INSTANCE SequenceTheorems

\* A period's history is empty outside of the period, and the counters count
\* the outcomes at the end of the history.
Backed ==
  /\ state # "HALF_OPEN" => probe = {} /\ panics = 0
  /\ AllOf(recent, failures, FALSE)
  /\ AllOf(recent, successes, TRUE)
  /\ state # "CLOSED" => failures = 0
  /\ state # "HALF_OPEN" => successes = 0

BreakerInv == BreakerTypeOK /\ SlotsAccounted /\ Backed

----------------------------------------------------------------------------
\* The history keeps as many outcomes as either threshold, or the window, asks
\* for.
LEMMA RecallBounds ==
  /\ Recall \in Nat
  /\ FailureThreshold <= Recall
  /\ SuccessThreshold <= Recall
  /\ SlidingWindowSize <= Recall
<1> DEFINE S == {FailureThreshold, SuccessThreshold, SlidingWindowSize}
           M(n) == \A m \in S : m <= n
<1>1. \E n \in S : M(n)
  <2>1. CASE FailureThreshold >= SuccessThreshold /\ FailureThreshold >= SlidingWindowSize
    BY <2>1, BreakerAssumption
  <2>2. CASE SuccessThreshold >= FailureThreshold /\ SuccessThreshold >= SlidingWindowSize
    BY <2>2, BreakerAssumption
  <2>3. CASE SlidingWindowSize >= FailureThreshold /\ SlidingWindowSize >= SuccessThreshold
    BY <2>3, BreakerAssumption
  <2>4. QED BY <2>1, <2>2, <2>3, BreakerAssumption
<1>2. Recall = CHOOSE n \in S : M(n)
  BY Zenon DEF Recall
<1> HIDE DEF M
<1>3. Recall \in S /\ M(Recall)
  BY Zenon, <1>1, <1>2
<1>4. QED BY Zenon, <1>3, BreakerAssumption DEF M

\* Recording an outcome lengthens the run of equal outcomes at the end of the
\* history by one, as far as the history reaches.
LEMMA RunGrows ==
  ASSUME NEW s \in Seq(BOOLEAN), NEW b \in BOOLEAN, NEW n \in Nat, NEW R \in Nat,
         AllOf(s, n, b), n + 1 <= R
  PROVE  AllOf(Last(Append(s, b), R), n + 1, b)
<1> DEFINE a == Append(s, b)
           t == Last(a, R)
<1>1. /\ a \in Seq(BOOLEAN) /\ Len(a) = Len(s) + 1 /\ Len(s) \in Nat
      /\ a[Len(s) + 1] = b /\ \A i \in 1..Len(s) : a[i] = s[i]
  OBVIOUS
<1>2. n <= Len(s) /\ \A i \in Len(s) - n + 1..Len(s) : s[i] = b
  BY Zenon DEF AllOf
<1> HIDE DEF a
<1>3. n + 1 <= Len(a) /\ \A i \in Len(a) - n..Len(a) : a[i] = b
  BY <1>1, <1>2
<1>4. CASE R >= Len(a)
  <2>1. t = a
    BY Zenon, <1>4 DEF Last
  <2>2. QED BY <1>1, <1>3, <2>1 DEF AllOf, a
<1>5. CASE ~(R >= Len(a))
  <2>1. t = SubSeq(a, Len(a) - R + 1, Len(a))
    BY Zenon, <1>5 DEF Last
  <2>2. Len(t) = R /\ \A i \in 1..R : t[i] = a[Len(a) - R + i]
    BY <1>1, <1>5, <2>1
  <2> HIDE DEF t
  <2>3. n + 1 <= Len(t) /\ \A i \in Len(t) - (n + 1) + 1..Len(t) : t[i] = b
    <3>1. n + 1 <= Len(t)
      BY Zenon, <2>2
    <3>2. ASSUME NEW i \in Len(t) - (n + 1) + 1..Len(t) PROVE t[i] = b
      <4>1. i \in 1..R /\ Len(a) - R + i \in Len(a) - n..Len(a)
        BY <1>1, <1>3, <1>5, <2>2
      <4>2. QED BY Zenon, <1>3, <2>2, <4>1
    <3>3. QED BY Zenon, <3>1, <3>2
  <2>4. QED BY Zenon, <2>3 DEF AllOf, t, a
<1>6. QED BY Zenon, <1>4, <1>5

\* The history stays a sequence of outcomes.
LEMMA RecentTyped ==
  ASSUME NEW s \in Seq(BOOLEAN), NEW b \in BOOLEAN, NEW R \in Nat
  PROVE  Last(Append(s, b), R) \in Seq(BOOLEAN)
<1>1. Append(s, b) \in Seq(BOOLEAN) /\ Len(Append(s, b)) \in Nat
  OBVIOUS
<1>2. CASE R >= Len(Append(s, b))
  BY Zenon, <1>1, <1>2 DEF Last
<1>3. CASE ~(R >= Len(Append(s, b)))
  <2> DEFINE a == Append(s, b)
             m == Len(a) - R + 1
  <2>1. m \in 1..Len(a) + 1 /\ Len(a) \in 0..Len(a)
    BY <1>1, <1>3
  <2>2. SubSeq(a, m, Len(a)) \in Seq(BOOLEAN)
    BY <1>1, <2>1, SubSeqProperties
  <2>3. QED BY Zenon, <1>3, <2>2 DEF Last
<1>4. QED BY Zenon, <1>2, <1>3

\* A run of no outcomes is any history's.
LEMMA EmptyRun ==
  ASSUME NEW s \in Seq(BOOLEAN), NEW b PROVE AllOf(s, 0, b)
BY DEF AllOf

\* Adding a caller to a finite set of callers, and taking one out.
LEMMA ProbeCounts ==
  ASSUME NEW S, S \subseteq Caller, NEW c \in Caller
  PROVE  /\ Cardinality(S) \in Nat
         /\ c \notin S => Cardinality(S \cup {c}) = Cardinality(S) + 1
         /\ c \in S => Cardinality(S \ {c}) = Cardinality(S) - 1
         /\ c \notin S => S \ {c} = S
         /\ Cardinality({c}) = 1 /\ Cardinality({}) = 0
<1>1. IsFiniteSet(S)
  BY Zenon, BreakerAssumption, FS_Subset
<1>2. Cardinality(S) \in Nat
  BY Zenon, <1>1, FS_CardinalityType
<1>3. c \notin S => Cardinality(S \cup {c}) = Cardinality(S) + 1
  BY Zenon, <1>1, FS_AddElement
<1>4. c \in S => Cardinality(S \ {c}) = Cardinality(S) - 1
  BY Zenon, <1>1, FS_RemoveElement
<1>5. Cardinality({c}) = 1
  BY Zenon, FS_Singleton
<1>6. Cardinality({}) = 0
  BY Zenon, FS_EmptySet
<1>7. c \notin S => S \ {c} = S
  BY Zenon
<1>8. QED BY Zenon, <1>2, <1>3, <1>4, <1>5, <1>6, <1>7

\* Record keeps the index within the window.
LEMMA RecordTyped ==
  ASSUME BreakerTypeOK, NEW success \in BOOLEAN, Record(success)
  PROVE  /\ outcomes' \in [Index -> BOOLEAN] /\ index' \in Index
         /\ count' \in 0..SlidingWindowSize
<1>1. index \in 0..SlidingWindowSize - 1 /\ SlidingWindowSize \in Nat \ {0}
  BY Zenon, BreakerAssumption DEF BreakerTypeOK, Index
<1>2. (index + 1) % SlidingWindowSize \in 0..SlidingWindowSize - 1
  BY <1>1
<1>3. outcomes' \in [Index -> BOOLEAN] /\ index' \in Index
  BY Zenon, <1>2 DEF BreakerTypeOK, Record, Index
<1>4. count' \in 0..SlidingWindowSize
  BY <1>1 DEF BreakerTypeOK, Record
<1>5. QED BY Zenon, <1>3, <1>4

\* allowRequest: a call that is let in in the half-open state is counted.
LEMMA AllowKeeps ==
  ASSUME BreakerInv, NEW c \in Caller, AllowRequest(c)
  PROVE  BreakerInv'
<1>1. /\ c \notin calling /\ calling' = calling \cup {c}
      /\ UNCHANGED <<cooled, outcomes, index, count, recent>>
  BY Zenon DEF AllowRequest, window
<1>2. probe \subseteq calling /\ probe \subseteq Caller /\ c \notin probe
  BY Zenon, <1>1 DEF BreakerInv, BreakerTypeOK
<1>3. /\ Cardinality(probe) \in Nat
      /\ Cardinality(probe \cup {c}) = Cardinality(probe) + 1
      /\ Cardinality({c}) = 1
  BY Zenon, <1>2, ProbeCounts
<1>4. CASE AllowClosed(c)
  BY Zenon, <1>1, <1>4 DEF AllowClosed, counters, BreakerInv, BreakerTypeOK, SlotsAccounted, Backed
<1>5. CASE AllowOpen(c)
  <2>1. /\ state' = "HALF_OPEN" /\ failures' = 0 /\ successes' = 0
        /\ halfOpenRequests' = 1 /\ probe' = {c} /\ panics' = 0
    BY Zenon, <1>5 DEF AllowOpen, TransitionTo
  <2>2. AllOf(recent, 0, FALSE) /\ AllOf(recent, 0, TRUE)
    BY Zenon, EmptyRun DEF BreakerInv, BreakerTypeOK
  <2>3. BreakerTypeOK'
    BY <1>1, <2>1, BreakerAssumption DEF BreakerInv, BreakerTypeOK
  <2>4. SlotsAccounted'
    BY <1>3, <2>1 DEF SlotsAccounted
  <2>5. Backed'
    <3>1. AllOf(recent', failures', FALSE) /\ AllOf(recent', successes', TRUE)
      BY Zenon, <1>1, <2>1, <2>2
    <3>2. QED BY Zenon, <2>1, <3>1 DEF Backed
  <2>6. QED BY Zenon, <2>3, <2>4, <2>5 DEF BreakerInv
<1>6. CASE AllowHalfOpen(c)
  <2>1. /\ state = "HALF_OPEN" /\ halfOpenRequests < MaxHalfOpenRequests
        /\ halfOpenRequests' = halfOpenRequests + 1
        /\ probe' = probe \cup {c}
        /\ UNCHANGED <<state, failures, successes, panics>>
    BY Zenon, <1>6 DEF AllowHalfOpen
  <2>2. BreakerTypeOK'
    BY <1>1, <2>1, BreakerAssumption DEF BreakerInv, BreakerTypeOK
  <2>3. SlotsAccounted'
    BY SMTT(30), <1>3, <2>1 DEF BreakerInv, BreakerTypeOK, SlotsAccounted
  <2>4. Backed'
    BY Zenon, <1>1, <2>1 DEF BreakerInv, Backed
  <2>5. QED BY <2>2, <2>3, <2>4 DEF BreakerInv
<1>7. QED BY Zenon, <1>4, <1>5, <1>6 DEF AllowRequest

\* recordOutcome: a success of the period moves from the calls in flight to
\* the successes; any change of state ends the period.
LEMMA OutcomeKeeps ==
  ASSUME BreakerInv, NEW c \in Caller, NEW success \in BOOLEAN,
         RecordOutcome(c, success)
  PROVE  /\ BreakerInv'
         /\ state = "CLOSED" /\ state' = "OPEN" => AllOf(recent', FailureThreshold, FALSE)
         /\ state = "HALF_OPEN" /\ state' = "CLOSED" => AllOf(recent', SuccessThreshold, TRUE)
<1>1. /\ c \in calling /\ Record(success)
      /\ calling' = calling \ {c}
      /\ probe' = IF state' = "HALF_OPEN" THEN probe \ {c} ELSE {}
      /\ panics' = IF state' = "HALF_OPEN" THEN panics ELSE 0
      /\ recent' = Last(Append(recent, success), Recall)
  BY Zenon DEF RecordOutcome
<1>2. /\ outcomes' \in [Index -> BOOLEAN] /\ index' \in Index
      /\ count' \in 0..SlidingWindowSize
  BY Zenon, <1>1, RecordTyped DEF BreakerInv
<1>3. recent' \in Seq(BOOLEAN)
  BY Zenon, <1>1, RecentTyped, RecallBounds DEF BreakerInv, BreakerTypeOK
<1>4. AllOf(recent', 0, FALSE) /\ AllOf(recent', 0, TRUE)
  BY Zenon, <1>3, EmptyRun
<1>5. probe \subseteq Caller /\ calling' \subseteq Caller /\ probe' \subseteq calling'
  BY Zenon, <1>1 DEF BreakerInv, BreakerTypeOK
<1>6. /\ Cardinality(probe) \in Nat /\ Cardinality({}) = 0
      /\ Cardinality(probe \ {c}) \in {Cardinality(probe), Cardinality(probe) - 1}
      /\ Cardinality(probe \ {c}) \in Nat
  <2>1. probe \ {c} \subseteq Caller
    BY Zenon, <1>5
  <2>2. QED BY Zenon, <1>5, <2>1, ProbeCounts
<1>7. panics' \in 0..MaxHalfOpenRequests /\ cooled \in BOOLEAN
  BY <1>1, BreakerAssumption DEF BreakerInv, BreakerTypeOK
<1>8. CASE state = "OPEN"
  <2>1. UNCHANGED <<state, failures, successes, halfOpenRequests, cooled>>
    BY Zenon, <1>8 DEF RecordOutcome, counters
  <2>2. failures = 0 /\ successes = 0
    BY Zenon, <1>8 DEF BreakerInv, Backed
  <2>3. BreakerTypeOK'
    BY Zenon, <1>2, <1>3, <1>5, <1>7, <2>1 DEF BreakerInv, BreakerTypeOK
  <2>4. SlotsAccounted' /\ Backed'
    BY Zenon, <1>1, <1>4, <1>8, <2>1, <2>2 DEF SlotsAccounted, Backed
  <2>5. QED BY Zenon, <1>8, <2>1, <2>3, <2>4 DEF BreakerInv
<1>9. CASE state = "CLOSED"
  <2>1. UpdateStateClosed(success)
    BY Zenon, <1>9 DEF RecordOutcome
  <2>2. /\ failures \in Nat /\ failures < FailureThreshold
        /\ AllOf(recent, failures, FALSE) /\ recent \in Seq(BOOLEAN)
        /\ successes = 0
    <3>1. failures \in Nat /\ failures < FailureThreshold /\ recent \in Seq(BOOLEAN)
      BY BreakerAssumption DEF BreakerInv, BreakerTypeOK
    <3>2. AllOf(recent, failures, FALSE) /\ successes = 0
      BY Zenon, <1>9 DEF BreakerInv, Backed
    <3>3. QED BY Zenon, <3>1, <3>2
  <2>3. ~success => AllOf(recent', failures + 1, FALSE)
    <3>1. failures + 1 <= Recall /\ Recall \in Nat
      BY <2>2, RecallBounds, BreakerAssumption
    <3>2. AllOf(Last(Append(recent, FALSE), Recall), failures + 1, FALSE)
      BY Zenon, <2>2, <3>1, RunGrows
    <3>3. ~success => success = FALSE
      BY Zenon
    <3>4. QED BY Zenon, <1>1, <3>2, <3>3
  <2>4. CASE success
    <3>1. failures' = 0 /\ UNCHANGED <<state, successes, halfOpenRequests, cooled>>
      BY Zenon, <2>1, <2>4 DEF UpdateStateClosed
    <3>2. BreakerTypeOK'
      BY <1>2, <1>3, <1>5, <1>7, <3>1, BreakerAssumption DEF BreakerInv, BreakerTypeOK
    <3>3. SlotsAccounted' /\ Backed'
      BY Zenon, <1>1, <1>4, <1>9, <2>2, <3>1 DEF SlotsAccounted, Backed
    <3>4. QED BY Zenon, <1>9, <3>1, <3>2, <3>3 DEF BreakerInv
  <2>5. CASE ~success /\ failures + 1 >= FailureThreshold
    <3>1. /\ cooled' \in BOOLEAN /\ state' = "OPEN"
          /\ failures' = 0 /\ successes' = 0 /\ halfOpenRequests' = 0
      BY Zenon, <2>1, <2>5 DEF UpdateStateClosed, TransitionTo
    <3>2. BreakerTypeOK'
      BY SMTT(20), <1>2, <1>3, <1>5, <1>7, <3>1, BreakerAssumption DEF BreakerInv, BreakerTypeOK
    <3>3. SlotsAccounted' /\ Backed'
      BY Zenon, <1>1, <1>4, <3>1 DEF SlotsAccounted, Backed
    <3>4. failures + 1 = FailureThreshold
      BY <2>2, <2>5, BreakerAssumption
    <3>5. QED BY Zenon, <1>9, <2>3, <2>5, <3>2, <3>3, <3>4 DEF BreakerInv
  <2>6. CASE ~success /\ ~(failures + 1 >= FailureThreshold)
    <3>1. /\ cooled' \in BOOLEAN /\ failures' = failures + 1
          /\ UNCHANGED <<state, successes, halfOpenRequests>>
      BY Zenon, <2>1, <2>6 DEF UpdateStateClosed
    <3>2. failures + 1 \in 0..FailureThreshold - 1
      BY <2>2, <2>6, BreakerAssumption
    <3>3. BreakerTypeOK'
      BY Zenon, <1>2, <1>3, <1>5, <1>7, <3>1, <3>2 DEF BreakerInv, BreakerTypeOK
    <3>4. SlotsAccounted' /\ Backed'
      BY Zenon, <1>1, <1>4, <1>9, <2>2, <2>3, <2>6, <3>1 DEF SlotsAccounted, Backed
    <3>5. QED BY Zenon, <1>9, <3>1, <3>3, <3>4 DEF BreakerInv
  <2>7. QED BY Zenon, <2>4, <2>5, <2>6
<1>10. CASE state = "HALF_OPEN"
  <2>1. UpdateStateHalfOpen(success)
    BY Zenon, <1>10 DEF RecordOutcome
  <2>2. /\ successes \in Nat /\ successes < SuccessThreshold
        /\ AllOf(recent, successes, TRUE) /\ recent \in Seq(BOOLEAN)
        /\ failures = 0
        /\ halfOpenRequests \in Nat /\ panics \in Nat
    <3>1. /\ successes \in Nat /\ successes < SuccessThreshold
          /\ recent \in Seq(BOOLEAN)
          /\ halfOpenRequests \in Nat /\ panics \in Nat
      BY BreakerAssumption DEF BreakerInv, BreakerTypeOK
    <3>2. AllOf(recent, successes, TRUE) /\ failures = 0
      BY Zenon, <1>10 DEF BreakerInv, Backed
    <3>3. QED BY Zenon, <3>1, <3>2
  <2>3. success => AllOf(recent', successes + 1, TRUE)
    <3>1. successes + 1 <= Recall /\ Recall \in Nat
      BY <2>2, RecallBounds, BreakerAssumption
    <3>2. AllOf(Last(Append(recent, TRUE), Recall), successes + 1, TRUE)
      BY Zenon, <2>2, <3>1, RunGrows
    <3>3. success => success = TRUE
      BY Zenon
    <3>4. QED BY Zenon, <1>1, <3>2, <3>3
  <2>4. CASE ~success
    <3>1. /\ UNCHANGED cooled /\ state' = "OPEN"
          /\ failures' = 0 /\ successes' = 0 /\ halfOpenRequests' = 0
      BY Zenon, <2>1, <2>4 DEF UpdateStateHalfOpen, TransitionTo
    <3>2. BreakerTypeOK'
      BY <1>2, <1>3, <1>5, <1>7, <3>1, BreakerAssumption DEF BreakerInv, BreakerTypeOK
    <3>3. SlotsAccounted' /\ Backed'
      BY Zenon, <1>1, <1>4, <3>1 DEF SlotsAccounted, Backed
    <3>4. QED BY Zenon, <1>10, <3>1, <3>2, <3>3 DEF BreakerInv
  <2>5. CASE success /\ successes + 1 >= SuccessThreshold
    <3>1. /\ UNCHANGED cooled /\ state' = "CLOSED"
          /\ failures' = 0 /\ successes' = 0 /\ halfOpenRequests' = 0
      BY Zenon, <2>1, <2>5 DEF UpdateStateHalfOpen, TransitionTo
    <3>2. BreakerTypeOK'
      BY SMTT(20), <1>2, <1>3, <1>5, <1>7, <3>1, BreakerAssumption DEF BreakerInv, BreakerTypeOK
    <3>3. SlotsAccounted' /\ Backed'
      BY Zenon, <1>1, <1>4, <3>1 DEF SlotsAccounted, Backed
    <3>4. successes + 1 = SuccessThreshold
      BY <2>2, <2>5, BreakerAssumption
    <3>5. QED BY Zenon, <1>10, <2>3, <2>5, <3>2, <3>3, <3>4 DEF BreakerInv
  <2>6. CASE success /\ ~(successes + 1 >= SuccessThreshold)
    <3>1. /\ successes' = successes + 1
          /\ UNCHANGED <<state, failures, halfOpenRequests, cooled>>
      BY Zenon, <2>1, <2>6 DEF UpdateStateHalfOpen
    <3>2. successes + 1 \in 0..SuccessThreshold - 1
      BY <2>2, <2>6, BreakerAssumption
    <3>3. BreakerTypeOK'
      BY Zenon, <1>2, <1>3, <1>5, <1>7, <3>1, <3>2 DEF BreakerInv, BreakerTypeOK
    <3>4. probe' = probe \ {c} /\ panics' = panics
      BY Zenon, <1>1, <1>10, <3>1
    <3>5. SlotsAccounted'
      BY <1>6, <1>10, <2>2, <3>1, <3>4 DEF BreakerInv, SlotsAccounted
    <3>6. Backed'
      BY Zenon, <1>4, <1>10, <2>2, <2>3, <2>6, <3>1 DEF Backed
    <3>7. QED BY Zenon, <1>10, <3>1, <3>3, <3>5, <3>6 DEF BreakerInv
  <2>7. QED BY Zenon, <2>4, <2>5, <2>6
<1>11. QED BY Zenon, <1>8, <1>9, <1>10 DEF BreakerInv, BreakerTypeOK

\* A panic turns a call in flight into a lost request; Reset ends the period;
\* the clock touches nothing that is counted.
LEMMA OtherKeeps ==
  ASSUME BreakerInv, (\E c \in Caller : Panic(c)) \/ Reset \/ CoolDown \/ UNCHANGED breakerVars
  PROVE  BreakerInv'
<1>1. ASSUME NEW c \in Caller, Panic(c) PROVE BreakerInv'
  <2>1. /\ c \in calling /\ calling' = calling \ {c}
        /\ panics' = IF c \in probe THEN panics + 1 ELSE panics
        /\ probe' = probe \ {c}
        /\ UNCHANGED <<state, failures, successes, halfOpenRequests, cooled,
                       outcomes, index, count, recent>>
    BY Zenon, <1>1 DEF Panic, counters, window
  <2>2. probe \subseteq Caller /\ calling' \subseteq Caller /\ probe' \subseteq calling'
    BY Zenon, <2>1 DEF BreakerInv, BreakerTypeOK
  <2>3. /\ Cardinality(probe) \in Nat /\ Cardinality(probe') \in Nat
        /\ c \in probe => Cardinality(probe') = Cardinality(probe) - 1
        /\ c \notin probe => probe' = probe
    <3>1. probe \ {c} \subseteq Caller
      BY Zenon, <2>2
    <3>2. QED BY Zenon, <2>1, <2>2, <3>1, ProbeCounts
  <2>4. c \in probe => state = "HALF_OPEN"
    BY Zenon DEF BreakerInv, Backed
  <2>5. halfOpenRequests \in 0..MaxHalfOpenRequests /\ panics \in Nat /\ successes \in Nat
    BY BreakerAssumption DEF BreakerInv, BreakerTypeOK
  <2>6. SlotsAccounted'
    <3>1. CASE c \in probe
      <4>1. panics' = panics + 1 /\ Cardinality(probe') = Cardinality(probe) - 1
        BY Zenon, <2>1, <2>3, <3>1
      <4>2. QED BY <2>1, <2>3, <2>5, <4>1 DEF BreakerInv, SlotsAccounted
    <3>2. CASE c \notin probe
      <4>1. panics' = panics /\ probe' = probe
        BY Zenon, <2>1, <2>3, <3>2
      <4>2. QED BY Zenon, <2>1, <4>1 DEF BreakerInv, SlotsAccounted
    <3>3. QED BY Zenon, <3>1, <3>2
  <2>7. panics' \in 0..MaxHalfOpenRequests
    <3>1. CASE c \in probe
      BY <2>1, <2>3, <2>4, <2>5, <3>1, BreakerAssumption DEF BreakerInv, SlotsAccounted
    <3>2. CASE c \notin probe
      BY Zenon, <2>1, <3>2 DEF BreakerInv, BreakerTypeOK
    <3>3. QED BY Zenon, <3>1, <3>2
  <2>8. BreakerTypeOK'
    BY Zenon, <2>1, <2>2, <2>7 DEF BreakerInv, BreakerTypeOK
  <2>9. Backed'
    <3>1. state # "HALF_OPEN" => probe' = {} /\ panics' = 0
      BY Zenon, <2>1, <2>4 DEF BreakerInv, Backed
    <3>2. QED BY Zenon, <2>1, <3>1 DEF BreakerInv, Backed
  <2>10. QED BY Zenon, <2>6, <2>8, <2>9 DEF BreakerInv
<1>2. CASE Reset
  <2>1. /\ state' = "CLOSED" /\ failures' = 0 /\ successes' = 0
        /\ halfOpenRequests' = 0 /\ probe' = {} /\ panics' = 0
        /\ UNCHANGED <<cooled, outcomes, index, count, calling, recent>>
    BY Zenon, <1>2 DEF Reset, window
  <2>2. BreakerTypeOK'
    BY <2>1, BreakerAssumption DEF BreakerInv, BreakerTypeOK
  <2>3. SlotsAccounted'
    BY Zenon, <2>1 DEF SlotsAccounted
  <2>4. Backed'
    <3>1. AllOf(recent, 0, FALSE) /\ AllOf(recent, 0, TRUE)
      BY Zenon, EmptyRun DEF BreakerInv, BreakerTypeOK
    <3>2. AllOf(recent', failures', FALSE) /\ AllOf(recent', successes', TRUE)
      BY Zenon, <2>1, <3>1
    <3>3. QED BY Zenon, <2>1, <3>2 DEF Backed
  <2>5. QED BY Zenon, <2>2, <2>3, <2>4 DEF BreakerInv
<1>3. CASE CoolDown \/ UNCHANGED breakerVars
  <2>1. /\ UNCHANGED <<state, failures, successes, halfOpenRequests, outcomes,
                       index, count, calling, probe, panics, recent>>
        /\ cooled' \in {TRUE, cooled}
    BY Zenon, <1>3 DEF CoolDown, breakerVars, counters, window
  <2>2. BreakerTypeOK'
    BY Zenon, <2>1 DEF BreakerInv, BreakerTypeOK
  <2>3. SlotsAccounted' /\ Backed'
    BY Zenon, <2>1 DEF BreakerInv, SlotsAccounted, Backed
  <2>4. QED BY Zenon, <2>2, <2>3 DEF BreakerInv
<1>4. QED BY Zenon, <1>1, <1>2, <1>3

\* Every step keeps the invariant.
LEMMA BreakerStep == BreakerInv /\ [BreakerNext]_breakerVars => BreakerInv'
BY Zenon, AllowKeeps, OutcomeKeeps, OtherKeeps DEF BreakerNext, CallReturns

\* A new breaker satisfies the invariant.
LEMMA BreakerStarts == BreakerInit => BreakerInv
<1> SUFFICES ASSUME BreakerInit PROVE BreakerInv
  BY Zenon
<1>1. BreakerTypeOK
  BY BreakerAssumption DEF BreakerInit, BreakerTypeOK, Index
<1>2. SlotsAccounted
  BY Zenon DEF BreakerInit, SlotsAccounted
<1>3. recent \in Seq(BOOLEAN) /\ failures = 0 /\ successes = 0
  BY Zenon, <1>1 DEF BreakerInit, BreakerTypeOK
<1>4. AllOf(recent, failures, FALSE) /\ AllOf(recent, successes, TRUE)
  BY Zenon, <1>3, EmptyRun
<1>5. QED BY Zenon, <1>1, <1>2, <1>4 DEF BreakerInit, BreakerInv, Backed

\* allowRequest and recordOutcome keep the fields in their ranges and every
\* half-open request accounted for.
THEOREM BreakerInvariant == BreakerSpec => [](BreakerTypeOK /\ SlotsAccounted)
<1>1. BreakerInv => BreakerTypeOK /\ SlotsAccounted
  BY Zenon DEF BreakerInv
<1>2. QED BY <1>1, BreakerStarts, BreakerStep, PTL DEF BreakerSpec

\* A half-open breaker with no call of its period in flight, and none lost to
\* a panic, lets the next call in.
THEOREM BreakerNeverStuck == BreakerSpec => []NeverStuck
<1>1. BreakerInv => NeverStuck
  <2> SUFFICES ASSUME BreakerInv, SuccessThreshold <= MaxHalfOpenRequests,
                      state = "HALF_OPEN", probe = {}, panics = 0
               PROVE  halfOpenRequests < MaxHalfOpenRequests
    BY Zenon DEF NeverStuck
  <2>1. Cardinality(probe) = 0
    BY Zenon, FS_EmptySet
  <2>2. halfOpenRequests <= successes /\ halfOpenRequests \in Nat /\ successes \in Nat
        /\ successes < SuccessThreshold
    BY <2>1, BreakerAssumption DEF BreakerInv, BreakerTypeOK, SlotsAccounted
  <2>3. QED BY <2>2, BreakerAssumption
<1>2. QED BY <1>1, BreakerStarts, BreakerStep, PTL DEF BreakerSpec

\* updateStateClosed trips the breaker on FailureThreshold failures in a row,
\* and updateStateHalfOpen closes it on SuccessThreshold successes in a row.
THEOREM BreakerHasEvidence == BreakerSpec => ChangesOnEvidence
<1> DEFINE Evidence ==
      /\ state = "CLOSED" /\ state' = "OPEN" => AllOf(recent', FailureThreshold, FALSE)
      /\ state = "HALF_OPEN" /\ state' = "CLOSED"
           => calling' = calling \/ AllOf(recent', SuccessThreshold, TRUE)
<1>1. ASSUME BreakerInv, [BreakerNext]_breakerVars PROVE [Evidence]_breakerVars
  <2>1. ASSUME NEW c \in Caller, CallReturns(c) PROVE Evidence
    BY Zenon, <1>1, <2>1, OutcomeKeeps DEF CallReturns
  <2>2. ASSUME NEW c \in Caller, AllowRequest(c) \/ Panic(c) PROVE Evidence
    BY Zenon, <2>2 DEF AllowRequest, AllowClosed, AllowOpen, AllowHalfOpen, TransitionTo, Panic
  <2>3. CASE Reset \/ CoolDown
    BY Zenon, <2>3 DEF Reset, CoolDown
  <2>4. QED BY Zenon, <1>1, <2>1, <2>2, <2>3 DEF BreakerNext
<1>2. QED BY <1>1, BreakerStarts, BreakerStep, PTL DEF BreakerSpec, ChangesOnEvidence

----------------------------------------------------------------------------
\* The failure rate.

\* Where the ring keeps the i-th outcome, counted from the latest.
Slot(i) == IF i <= index THEN index - i ELSE index - i + SlidingWindowSize

\* The invariant of the ring: it holds the end of the history, and fills up
\* from its first slot.
RingInv ==
  /\ count <= Len(recent) /\ (count = Len(recent) \/ count = SlidingWindowSize)
  /\ count < SlidingWindowSize => index = count
  /\ \A i \in 1..count : outcomes[Slot(i)] = recent[Len(recent) + 1 - i]

\* The last n of a sequence, counted from its end.
LEMMA LastOf ==
  ASSUME NEW s \in Seq(BOOLEAN), NEW n \in Nat
  PROVE  LET l == Last(s, n)
         IN  /\ l \in Seq(BOOLEAN)
             /\ Len(l) = IF n >= Len(s) THEN Len(s) ELSE n
             /\ \A i \in 1..Len(l) : l[Len(l) + 1 - i] = s[Len(s) + 1 - i]
             /\ \A i \in 1..Len(l) : l[i] = s[Len(s) - Len(l) + i]
<1> DEFINE l == Last(s, n)
<1>1. CASE n >= Len(s)
  <2>1. l = s
    BY Zenon, <1>1 DEF Last
  <2>2. QED BY <1>1, <2>1
<1>2. CASE ~(n >= Len(s))
  <2>1. l = SubSeq(s, Len(s) - n + 1, Len(s))
    BY Zenon, <1>2 DEF Last
  <2>2. l \in Seq(BOOLEAN) /\ Len(l) = n /\ \A i \in 1..n : l[i] = s[Len(s) - n + i]
    BY <1>2, <2>1
  <2> HIDE DEF l
  <2>3. \A i \in 1..n : n + 1 - i \in 1..n /\ Len(s) - n + (n + 1 - i) = Len(s) + 1 - i
    BY <1>2
  <2>4. \A i \in 1..n : l[n + 1 - i] = s[Len(s) + 1 - i]
    <3> SUFFICES ASSUME NEW i \in 1..n PROVE l[n + 1 - i] = s[Len(s) + 1 - i]
      BY Zenon
    <3> DEFINE j == n + 1 - i
    <3>1. j \in 1..n /\ Len(s) - n + j = Len(s) + 1 - i
      BY Zenon, <2>3
    <3> HIDE DEF j
    <3>2. l[j] = s[Len(s) - n + j]
      BY Zenon, <2>2, <3>1
    <3>3. QED BY Zenon, <3>1, <3>2 DEF j
  <2>5. QED BY Zenon, <1>2, <2>2, <2>4 DEF l
<1>3. QED BY Zenon, <1>1, <1>2

\* SlidingWindow.Record puts the latest outcome where it belongs.
LEMMA RingRecords ==
  ASSUME BreakerTypeOK, RingInv, NEW success \in BOOLEAN, Record(success),
         recent' = Last(Append(recent, success), Recall)
  PROVE  RingInv'
<1> DEFINE N == SlidingWindowSize
           a == Append(recent, success)
           R == Recall
<1>1. /\ N \in Nat \ {0} /\ R \in Nat /\ N <= R
      /\ index \in 0..N - 1 /\ count \in 0..N /\ recent \in Seq(BOOLEAN)
      /\ outcomes \in [0..N - 1 -> BOOLEAN]
  BY Zenon, BreakerAssumption, RecallBounds DEF BreakerTypeOK, Index
<1>2. /\ a \in Seq(BOOLEAN) /\ Len(a) = Len(recent) + 1 /\ Len(recent) \in Nat
      /\ a[Len(recent) + 1] = success /\ \A i \in 1..Len(recent) : a[i] = recent[i]
  BY <1>1
<1>3. /\ Len(recent') = IF R >= Len(a) THEN Len(a) ELSE R
      /\ \A i \in 1..Len(recent') : recent'[Len(recent') + 1 - i] = a[Len(a) + 1 - i]
  <2>1. recent' = Last(a, R)
    BY Zenon
  <2> HIDE DEF a, R
  <2> DEFINE l == Last(a, R)
  <2>2. /\ Len(l) = IF R >= Len(a) THEN Len(a) ELSE R
        /\ \A i \in 1..Len(l) : l[Len(l) + 1 - i] = a[Len(a) + 1 - i]
    BY Zenon, <1>1, <1>2, LastOf
  <2> HIDE DEF l
  <2>3. recent' = l
    BY Zenon, <2>1 DEF l
  <2>4. QED BY Zenon, <2>2, <2>3
<1> HIDE DEF N, a, R
<1>4. index' = IF index + 1 = N THEN 0 ELSE index + 1
  <2>1. (index + 1) % N = IF index + 1 = N THEN 0 ELSE index + 1
    BY <1>1
  <2>2. QED BY Zenon, <2>1 DEF Record, N
<1>5. count' = IF count < N THEN count + 1 ELSE count
  BY Zenon DEF Record, N
<1>6. outcomes' = [outcomes EXCEPT ![index] = success]
  BY Zenon DEF Record
<1>7. /\ count <= Len(recent) /\ (count = Len(recent) \/ count = N)
      /\ count < N => index = count
      /\ \A i \in 1..count : outcomes[Slot(i)] = recent[Len(recent) + 1 - i]
  BY Zenon DEF RingInv, N
<1>8. /\ count' <= Len(recent') /\ (count' = Len(recent') \/ count' = N)
      /\ count' < N => index' = count'
  BY SMTT(20), <1>1, <1>2, <1>3, <1>4, <1>5, <1>7
<1>9. ASSUME NEW i \in 1..count' PROVE outcomes'[Slot(i)'] = recent'[Len(recent') + 1 - i]
  <2>1. /\ i \in 1..N /\ i \in 1..Len(recent')
        /\ recent'[Len(recent') + 1 - i] = a[Len(recent) + 2 - i]
    BY <1>1, <1>2, <1>3, <1>5, <1>8
  <2>2. CASE i = 1
    <3>1. Slot(i)' = index
      BY <1>1, <1>4, <2>2 DEF Slot, N
    <3>2. a[Len(recent) + 2 - i] = success
      BY <1>2, <2>2
    <3>3. QED BY Zenon, <1>1, <1>6, <2>1, <3>1, <3>2
  <2>3. CASE i # 1
    <3>1. i - 1 \in 1..count
      BY SMTT(20), <1>1, <1>5, <2>3
    <3>2. Slot(i)' = Slot(i - 1) /\ Slot(i - 1) \in 0..N - 1 /\ Slot(i - 1) # index
      BY <1>1, <1>4, <2>1, <2>3, <3>1 DEF Slot, N
    <3>3. outcomes[Slot(i - 1)] = recent[Len(recent) + 1 - (i - 1)]
      BY Zenon, <1>7, <3>1
    <3>4. /\ Len(recent) + 1 - (i - 1) = Len(recent) + 2 - i
          /\ Len(recent) + 2 - i \in 1..Len(recent)
      BY <1>1, <1>2, <1>7, <2>3, <3>1
    <3>5. QED BY Zenon, <1>1, <1>2, <1>6, <2>1, <3>2, <3>3, <3>4
  <2>4. QED BY Zenon, <2>2, <2>3
<1>10. QED BY Zenon, <1>8, <1>9 DEF RingInv, N

\* The ring's slots and the places of the history's end correspond.
LEMMA RingRate == BreakerTypeOK /\ RingInv => WindowIsRecent
<1> SUFFICES ASSUME BreakerTypeOK, RingInv PROVE WindowIsRecent
  BY Zenon
<1> DEFINE N == SlidingWindowSize
           last == Last(recent, N)
           A == {i \in DOMAIN last : ~last[i]}
           B == {i \in 0..count - 1 : ~outcomes[i]}
           f == [j \in A |-> Slot(count + 1 - j)]
<1>1. /\ N \in Nat \ {0} /\ recent \in Seq(BOOLEAN) /\ Len(recent) \in Nat
      /\ index \in 0..N - 1 /\ count \in 0..N
  BY BreakerAssumption DEF BreakerTypeOK, Index
<1>2. /\ last \in Seq(BOOLEAN) /\ Len(last) = IF N >= Len(recent) THEN Len(recent) ELSE N
      /\ \A i \in 1..Len(last) : last[Len(last) + 1 - i] = recent[Len(recent) + 1 - i]
  BY Zenon, <1>1, LastOf
<1>3. /\ count <= Len(recent) /\ (count = Len(recent) \/ count = N)
      /\ count < N => index = count
      /\ \A i \in 1..count : outcomes[Slot(i)] = recent[Len(recent) + 1 - i]
  BY Zenon DEF RingInv
<1> HIDE DEF N, last
<1>4. Len(last) = count /\ DOMAIN last = 1..count
  BY SMTT(20), <1>1, <1>2, <1>3
<1>5. \A i \in 1..count : Slot(i) \in 0..count - 1
  BY <1>1, <1>3 DEF Slot, N
<1>6. \A i, j \in 1..count : Slot(i) = Slot(j) => i = j
  BY <1>1, <1>3 DEF Slot, N
<1>7. \A k \in 0..count - 1 : \E i \in 1..count : Slot(i) = k
  <2> SUFFICES ASSUME NEW k \in 0..count - 1 PROVE \E i \in 1..count : Slot(i) = k
    BY Zenon
  <2> DEFINE i == IF k < index THEN index - k ELSE index - k + N
  <2>1. i \in 1..count /\ Slot(i) = k
    BY <1>1, <1>3 DEF Slot, N
  <2>2. QED BY Zenon, <2>1
<1>8. \A j \in 1..count : count + 1 - j \in 1..count /\ count + 1 - (count + 1 - j) = j
  BY <1>1
<1>9. \A j \in 1..count : last[j] = outcomes[Slot(count + 1 - j)]
  BY Zenon, <1>2, <1>3, <1>4, <1>8
<1>10. f \in [A -> B]
  BY Zenon, <1>4, <1>5, <1>8, <1>9
<1>11. \A i, j \in A : f[i] = f[j] => i = j
  <2> SUFFICES ASSUME NEW i \in A, NEW j \in A, f[i] = f[j] PROVE i = j
    BY Zenon
  <2>1. i \in 1..count /\ j \in 1..count
    BY Zenon, <1>4
  <2>2. count + 1 - i = count + 1 - j
    BY Zenon, <1>6, <1>8, <2>1
  <2>3. QED BY Zenon, <1>8, <2>1, <2>2
<1>12. \A k \in B : \E j \in A : f[j] = k
  <2> SUFFICES ASSUME NEW k \in B PROVE \E j \in A : f[j] = k
    BY Zenon
  <2>1. PICK i \in 1..count : Slot(i) = k
    BY Zenon, <1>7
  <2>2. count + 1 - i \in 1..count /\ count + 1 - (count + 1 - i) = i
    BY Zenon, <1>8
  <2>3. count + 1 - i \in A
    BY Zenon, <1>4, <1>9, <2>1, <2>2
  <2>4. f[count + 1 - i] = k
    BY Zenon, <2>1, <2>2, <2>3
  <2>5. QED BY Zenon, <2>3, <2>4
<1>13. IsFiniteSet(A)
  <2>1. IsFiniteSet(1..count)
    BY <1>1, FS_Interval
  <2>2. A \in SUBSET (1..count)
    BY Zenon, <1>4
  <2>3. QED BY Zenon, <2>1, <2>2, FS_Subset
<1> HIDE DEF A, B, f
<1>14. ExistsBijection(A, B)
  BY Zenon, <1>10, <1>11, <1>12 DEF ExistsBijection, Bijection, Injection, IsInjective, Surjection
<1>15. Cardinality(B) = Cardinality(A)
  BY Zenon, <1>13, <1>14, FS_Bijection
<1>16. QED BY Zenon, <1>4, <1>15 DEF WindowIsRecent, FailureRate, A, B, last, N

\* FailureRate is the failure rate of the last SlidingWindowSize outcomes.
THEOREM RateIsRecent == BreakerSpec => []WindowIsRecent
<1>1. BreakerInit => RingInv
  BY BreakerAssumption DEF BreakerInit, RingInv
<1>2. BreakerInv /\ RingInv /\ [BreakerNext]_breakerVars => RingInv'
  <2> SUFFICES ASSUME BreakerInv, RingInv, [BreakerNext]_breakerVars PROVE RingInv'
    BY Zenon
  <2>1. ASSUME NEW c \in Caller, CallReturns(c) PROVE RingInv'
    BY Zenon, <2>1, RingRecords DEF CallReturns, RecordOutcome, BreakerInv
  <2>2. CASE UNCHANGED <<window, recent>>
    BY Zenon, <2>2 DEF window, RingInv, Slot
  <2>3. QED
    BY Zenon, <2>1, <2>2 DEF BreakerNext, breakerVars, AllowRequest, Panic, Reset, CoolDown
<1>3. BreakerInv /\ RingInv => WindowIsRecent
  BY Zenon, RingRate DEF BreakerInv
<1>4. QED BY <1>1, <1>2, <1>3, BreakerStarts, BreakerStep, PTL DEF BreakerSpec
=============================================================================
