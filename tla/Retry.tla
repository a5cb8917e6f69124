-------------------------------- MODULE Retry --------------------------------
(***************************************************************************)
(* Retry and RetryWithResult of internal/resilience/retry.go around calls  *)
(* that pass the rate limiters of RateLimiter.tla, and the registry of     *)
(* internal/resilience/registry.go that hands the callers their breakers.  *)
(***************************************************************************)
EXTENDS RateLimiter

CONSTANTS
  MaxAttemptsSet, \* the values of RetryConfig.MaxAttempts
  MaxCalls        \* bound: calls of Retry

ASSUME RetryAssumption ==
  MaxAttemptsSet \subseteq Nat /\ MaxCalls \in Nat

VARIABLES
  pc,      \* where the caller is, idle when in no call
  max,     \* config.MaxAttempts of the call
  attempt,
  result,  \* what the last Retry of the caller returned
  begun,   \* calls of Retry so far
  breaker, \* the registry: 0, or the number of the breaker it holds
  built,   \* breakers constructed
  got,     \* got[c]: the breaker Get returned
  done     \* history: fn's own verdict in the call under way

retryVars == <<pc, max, attempt, result, begun, done>>
regVars   == <<breaker, built, got>>
allVars   == <<limiterVars, retryVars, regVars>>

RetryInit ==
  /\ LimiterInit
  /\ pc      = [c \in Caller |-> "idle"]
  /\ max     = [c \in Caller |-> 0]
  /\ attempt = [c \in Caller |-> 0]
  /\ result  = [c \in Caller |-> "none"]
  /\ done    = [c \in Caller |-> FALSE]
  /\ begun = 0
  /\ breaker = 0 /\ built = 0
  /\ got     = [c \in Caller |-> 0]

Goto(c, l) == pc' = [pc EXCEPT ![c] = l]

Returns(c, r) ==
  /\ Goto(c, "idle")
  /\ result' = [result EXCEPT ![c] = r]
  /\ attempt' = [attempt EXCEPT ![c] = 0]
  /\ UNCHANGED <<max, begun>>
-----------------------------------------------------------------------------
(* The registry.                                                           *)

\* Get, under the read lock ...
GetFinds(c) ==
  /\ pc[c] = "idle" /\ got[c] = 0 /\ breaker # 0
  /\ got' = [got EXCEPT ![c] = breaker]
  /\ UNCHANGED <<limiterVars, retryVars, breaker, built>>

GetMisses(c) ==
  /\ pc[c] = "idle" /\ got[c] = 0 /\ breaker = 0
  /\ Goto(c, "create")
  /\ UNCHANGED <<limiterVars, max, attempt, result, begun, done, regVars>>

\* Mutant: the second look is left out.
CreateUnchecked(c) ==
  /\ pc[c] = "create"
  /\ built' = built + 1
  /\ breaker' = built + 1
  /\ got' = [got EXCEPT ![c] = built + 1]
  /\ Goto(c, "idle")
  /\ UNCHANGED <<limiterVars, max, attempt, result, begun, done>>

\* ... and again under the write lock.
GetOrCreate(c) ==
  /\ pc[c] = "create"
  /\ IF breaker # 0
     THEN UNCHANGED <<breaker, built>>
     ELSE built' = built + 1 /\ breaker' = built + 1
  /\ got' = [got EXCEPT ![c] = breaker']
  /\ Goto(c, "idle")
  /\ UNCHANGED <<limiterVars, max, attempt, result, begun, done>>
-----------------------------------------------------------------------------
(* Retry.                                                                  *)

\* The loop is left, or never entered when MaxAttempts is zero: lastErr, which
\* is then nil, is what Retry returns.
Begin(c, m) ==
  /\ pc[c] = "idle" /\ got[c] # 0 /\ begun < MaxCalls
  /\ begun' = begun + 1
  /\ max' = [max EXCEPT ![c] = m]
  /\ done' = [done EXCEPT ![c] = FALSE]
  /\ IF m = 0
     THEN result' = [result EXCEPT ![c] = "nil"] /\ UNCHANGED <<pc, attempt>>
     ELSE /\ Goto(c, "check") /\ attempt' = [attempt EXCEPT ![c] = 1]
          /\ UNCHANGED result
  /\ UNCHANGED <<limiterVars, regVars>>

\* ctx.Done, before an attempt or during the pause between two.
Cancelled(c) ==
  /\ pc[c] \in {"check", "backoff"}
  /\ Returns(c, "ctx")
  /\ UNCHANGED <<limiterVars, done, regVars>>

\* Mutant: one attempt too many.
FailsLate(c, e) ==
  /\ IF e = "err" /\ attempt[c] <= max[c]
     THEN Goto(c, "backoff") /\ UNCHANGED <<max, attempt, result, begun>>
     ELSE Returns(c, e)
  /\ UNCHANGED done

\* fn has failed with the error e: the next attempt comes after a pause, unless
\* the attempts are used up or the error is "fatal", not retryable.  (To
\* RetryWithResult, which does not look at RetryableErrors, none is.)
Fails(c, e) ==
  /\ IF e = "err" /\ attempt[c] < max[c]
     THEN Goto(c, "backoff") /\ UNCHANGED <<max, attempt, result, begun>>
     ELSE Returns(c, e)
  /\ UNCHANGED done

Enters(c, l) == Goto(c, l) /\ UNCHANGED <<max, attempt, result, begun, done>>

\* fn asks a limiter first: AllowN, WaitN or the window's Allow.
Attempt(c) ==
  /\ pc[c] = "check"
  /\ \/ (\E n \in Ask : Acquire(c, n)) /\ Enters(c, "op")
     \/ (\E n \in Ask : AllowRejects(c, n) \/ WaitRejects(c, n)) /\ Fails(c, "err")
     \/ (\E n \in Ask : WaitBegins(c, n)) /\ Enters(c, "wait")
     \/ WindowAllows /\ Enters(c, "op")
     \/ WindowRejects /\ Fails(c, "err")
  /\ UNCHANGED regVars

Waited(c) ==
  /\ pc[c] = "wait"
  /\ \/ WaitGrants(c) /\ Enters(c, "op")
     \/ WaitCancelled(c) /\ Fails(c, "err")
  /\ UNCHANGED regVars

\* What fn does then succeeds, and Retry returns nil, or fails.
OpSucceeds(c) ==
  /\ pc[c] = "op"
  /\ done' = [done EXCEPT ![c] = TRUE]
  /\ Returns(c, "nil")
  /\ UNCHANGED <<limiterVars, regVars>>

OpFails(c) ==
  /\ pc[c] = "op"
  /\ \E e \in {"err", "fatal"} : Fails(c, e)
  /\ UNCHANGED <<limiterVars, regVars>>

\* time.After(sleepDur), of whatever length.
PauseEnds(c) ==
  /\ pc[c] = "backoff"
  /\ attempt' = [attempt EXCEPT ![c] = @ + 1]
  /\ Goto(c, "check")
  /\ UNCHANGED <<limiterVars, max, result, begun, done, regVars>>
-----------------------------------------------------------------------------
RetryNext ==
  \/ Tick /\ UNCHANGED <<retryVars, regVars>>
  \/ \E c \in Caller :
       \/ GetFinds(c) \/ GetMisses(c) \/ GetOrCreate(c)
       \/ \E m \in MaxAttemptsSet : Begin(c, m)
       \/ Cancelled(c) \/ Attempt(c) \/ Waited(c)
       \/ OpSucceeds(c) \/ OpFails(c) \/ PauseEnds(c)

RetrySpec == RetryInit /\ [][RetryNext]_allVars
-----------------------------------------------------------------------------
(* Properties.                                                             *)

\* Retry reports success only if fn succeeded, and then fn was not called
\* again; it never calls fn more than MaxAttempts times.  The one exception is
\* a MaxAttempts of zero, which returns nil without calling fn at all.
RetryTruthful ==
  \A c \in Caller :
    /\ pc[c] = "idle" /\ result[c] = "nil" => done[c] \/ max[c] = 0
    /\ done[c] => pc[c] \in {"idle", "create"} /\ result[c] = "nil"
    /\ attempt[c] <= max[c]

\* Two callers that ask the registry for the same name at the same time share
\* one breaker, or its counts would be split between them.
OneBreaker ==
  \A c, d \in Caller : got[c] # 0 /\ got[d] # 0 => got[c] = got[d]
=============================================================================
