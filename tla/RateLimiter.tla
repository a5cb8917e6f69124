----------------------------- MODULE RateLimiter -----------------------------
(***************************************************************************)
(* TokenBucketLimiter and SlidingWindowLimiter of                          *)
(* internal/resilience/ratelimiter.go, each under its mutex.  The unit of  *)
(* time is the one in which the bucket gains one token, 1/refillRate, so   *)
(* tokens and times are integers; the metrics are left out.                *)
(***************************************************************************)
EXTENDS Integers, Sequences, FiniteSets, FiniteSetsExt, Callers

CONSTANTS
  Burst,       \* BurstSize
  WaitTimeout, \* how long WaitN may wait
  Ask,         \* numbers of tokens asked for
  Limit,       \* Rate of the sliding window
  Period,      \* and its length
  MaxTime      \* bound: the clock stops here

ASSUME LimiterAssumption ==
  /\ Burst \in Nat /\ WaitTimeout \in Nat /\ Limit \in Nat /\ MaxTime \in Nat
  /\ Period \in Nat \ {0}
  /\ Ask \subseteq Nat /\ \E m \in Ask : \A n \in Ask : m >= n
  /\ IsFiniteSet(Caller)

VARIABLES
  now,        \* time.Now()
  tokens,     \* may fall below zero: see WaitGrants
  lastRefill,
  wait,       \* wait[c]: what c waits for in WaitN and until when
  granted,    \* history: tokens handed out
  stamps,     \* timestamps, each with the number of the request it is of:
              \* only how many there are matters to the code, not their order
  admitted    \* history: the times the window let a request in

bucketVars  == <<tokens, lastRefill, wait, granted>>
windowVars  == <<stamps, admitted>>
limiterVars == <<now, bucketVars, windowVars>>

NoWait == [n |-> 0, until |-> -1]
Waiting(c) == wait[c] # NoWait

LimiterInit ==
  /\ now = 0 /\ lastRefill = 0 /\ granted = 0
  /\ tokens = Burst
  /\ wait = [c \in Caller |-> NoWait]
  /\ stamps = {} /\ admitted = <<>>

Tick ==
  /\ now < MaxTime
  /\ now' = now + 1
  /\ UNCHANGED <<bucketVars, windowVars>>
-----------------------------------------------------------------------------
(* The token bucket.                                                       *)

\* Mutant: the cap is forgotten.
RefillUncapped == tokens + (now - lastRefill)

\* refill: what the bucket holds once the time since the last refill counts.
Refilled ==
  LET sum == tokens + (now - lastRefill)
  IN  IF sum > Burst THEN Burst ELSE sum

Take(n) ==
  /\ tokens' = Refilled - n
  /\ lastRefill' = now
  /\ granted' = granted + n

RefillOnly ==
  /\ tokens' = Refilled
  /\ lastRefill' = now
  /\ UNCHANGED granted

\* AllowN, and the immediate acquisition of WaitN, which have the tokens ...
Acquire(c, n) ==
  /\ ~Waiting(c)
  /\ Refilled >= n
  /\ Take(n)
  /\ UNCHANGED <<now, wait, windowVars>>

\* ... AllowN that does not, and says no ...
AllowRejects(c, n) ==
  /\ ~Waiting(c)
  /\ Refilled < n
  /\ RefillOnly
  /\ UNCHANGED <<now, wait, windowVars>>

\* Mutant: the wait is computed from n and not from what is missing.
WaitTooShort(n) == n

\* tokensNeeded / refillRate
WaitTime(n) == n - Refilled

\* ... WaitN whose wait would exceed WaitTimeout: ErrRateLimitExceeded ...
WaitRejects(c, n) ==
  /\ ~Waiting(c)
  /\ Refilled < n /\ WaitTime(n) > WaitTimeout
  /\ RefillOnly
  /\ UNCHANGED <<now, wait, windowVars>>

\* ... and WaitN that waits.  It reserves nothing.
WaitBegins(c, n) ==
  /\ ~Waiting(c)
  /\ Refilled < n /\ WaitTime(n) <= WaitTimeout
  /\ RefillOnly
  /\ wait' = [wait EXCEPT ![c] = [n |-> n, until |-> now + WaitTime(n)]]
  /\ UNCHANGED <<now, windowVars>>

\* The timer has fired: WaitN takes its tokens whether or not others were
\* faster.
WaitGrants(c) ==
  /\ Waiting(c) /\ now >= wait[c].until
  /\ Take(wait[c].n)
  /\ wait' = [wait EXCEPT ![c] = NoWait]
  /\ UNCHANGED <<now, windowVars>>

\* ctx.Done
WaitCancelled(c) ==
  /\ Waiting(c)
  /\ wait' = [wait EXCEPT ![c] = NoWait]
  /\ UNCHANGED <<now, tokens, lastRefill, granted, windowVars>>
-----------------------------------------------------------------------------
(* The sliding window.                                                     *)

\* Mutant: a request leaves the window one tick early.
PruneEarly(s) == {x \in s : x[2] > now - Period + 1}

\* The timestamps after windowStart.
InWindow(s) == {x \in s : x[2] > now - Period}

WindowAllows ==
  /\ Cardinality(InWindow(stamps)) < Limit
  /\ stamps' = InWindow(stamps) \cup {<<Len(admitted) + 1, now>>}
  /\ admitted' = Append(admitted, now)
  /\ UNCHANGED <<now, bucketVars>>

WindowRejects ==
  /\ Cardinality(InWindow(stamps)) >= Limit
  /\ stamps' = InWindow(stamps)
  /\ UNCHANGED <<now, bucketVars, admitted>>
-----------------------------------------------------------------------------
(* Properties.                                                             *)

\* The configured rate holds: by any time t the bucket has handed out no more
\* than the burst and one token per unit of time, apart from its debt, and
\* the bucket is never fuller than the burst.
RateBounded ==
  /\ tokens <= Burst
  /\ granted <= Burst + now + (IF tokens < 0 THEN -tokens ELSE 0)

\* The debt is bounded too: WaitN takes its tokens unconditionally, so callers
\* whose waits overlap overdraw the bucket, but each of them only once and
\* the first of them finds the tokens it waited for, or a full bucket if it
\* asked for more than the burst.
DebtBounded ==
  LET most  == Max(Ask)
      found == IF most > Burst THEN Burst ELSE most
  IN  tokens >= found - Cardinality(Caller) * most

\* No period of the configured length sees more than Limit requests pass.
WindowExact ==
  \A i \in DOMAIN admitted :
    Cardinality({k \in DOMAIN admitted :
                   admitted[k] \in (admitted[i] - Period + 1) .. admitted[i]}) <= Limit
=============================================================================
