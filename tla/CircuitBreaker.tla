---------------------------- MODULE CircuitBreaker ----------------------------
(***************************************************************************)
(* The circuit breaker (internal/resilience/circuitbreaker.go).            *)
(*                                                                         *)
(* Callers run Execute concurrently: allowRequest and recordOutcome are    *)
(* sections under cb.mutex, the protected function runs between them.  The *)
(* clock is reduced to whether more than Timeout has passed since          *)
(* lastFailure.  Durations and the metrics, which no decision reads, are   *)
(* left out; a refused call changes nothing else and is not a step.        *)
(***************************************************************************)
EXTENDS Integers, Sequences, FiniteSets, Callers

CONSTANTS
  Panicking,            \* callers whose function may panic
  FailureThreshold, SuccessThreshold, MaxHalfOpenRequests,
  SlidingWindowSize     \* of CircuitBreakerConfig

ASSUME BreakerAssumption ==
  /\ IsFiniteSet(Caller) /\ Panicking \subseteq Caller
  /\ FailureThreshold \in Nat \ {0} /\ SuccessThreshold \in Nat \ {0}
  /\ MaxHalfOpenRequests \in Nat \ {0} /\ SlidingWindowSize \in Nat \ {0}

VARIABLES
  state, failures, successes, halfOpenRequests,   \* of CircuitBreaker
  cooled,     \* time.Since(lastFailure) > Timeout
  outcomes, index, count,                         \* of SlidingWindow
  calling,    \* callers whose function is running
  probe,      \* history: those let in during this half-open period
  panics,     \* history: how many of the period's calls have panicked
  recent      \* history: the last outcomes, the latest one last

counters == <<failures, successes, halfOpenRequests>>
window   == <<outcomes, index, count>>
breakerVars == <<state, counters, cooled, window, calling, probe, panics, recent>>

Index == 0..SlidingWindowSize - 1

BreakerInit ==
  /\ state = "CLOSED" /\ failures = 0 /\ successes = 0 /\ halfOpenRequests = 0
  /\ cooled = TRUE      \* lastFailure is the zero time
  /\ outcomes = [i \in Index |-> FALSE] /\ index = 0 /\ count = 0
  /\ calling = {} /\ probe = {} /\ panics = 0 /\ recent = <<>>

\* How many outcomes the history keeps: enough for every property.
Recall ==
  LET S == {FailureThreshold, SuccessThreshold, SlidingWindowSize}
  IN  CHOOSE n \in S : \A m \in S : m <= n

Last(s, n) == IF n >= Len(s) THEN s ELSE SubSeq(s, Len(s) - n + 1, Len(s))

----------------------------------------------------------------------------
\* transitionTo, which a change of state goes through: n half-open requests.
TransitionTo(s, n) ==
  /\ state' = s
  /\ failures' = 0 /\ successes' = 0 /\ halfOpenRequests' = n

\* Mutant: the request that ends the open period is not counted.
OpenUncounted(c) ==
  /\ state = "OPEN" /\ cooled
  /\ TransitionTo("HALF_OPEN", 0)
  /\ probe' = {c} /\ panics' = 0

\* allowRequest in each state.
AllowClosed(c) ==
  /\ state = "CLOSED"
  /\ UNCHANGED <<state, counters, probe, panics>>

AllowOpen(c) ==
  /\ state = "OPEN" /\ cooled
  /\ TransitionTo("HALF_OPEN", 1)
  /\ probe' = {c} /\ panics' = 0

AllowHalfOpen(c) ==
  /\ state = "HALF_OPEN" /\ halfOpenRequests < MaxHalfOpenRequests
  /\ halfOpenRequests' = halfOpenRequests + 1
  /\ probe' = probe \cup {c}
  /\ UNCHANGED <<state, failures, successes, panics>>

AllowRequest(c) ==
  /\ c \notin calling
  /\ AllowClosed(c) \/ AllowOpen(c) \/ AllowHalfOpen(c)
  /\ calling' = calling \cup {c}
  /\ UNCHANGED <<cooled, window, recent>>

----------------------------------------------------------------------------
\* Mutant: the ring does not wrap around.
RecordShifted(success) ==
  /\ outcomes' = [outcomes EXCEPT ![index] = success]
  /\ index' = IF index = SlidingWindowSize - 1 THEN index ELSE index + 1
  /\ count' = IF count < SlidingWindowSize THEN count + 1 ELSE count

\* SlidingWindow.Record.
Record(success) ==
  /\ outcomes' = [outcomes EXCEPT ![index] = success]
  /\ index' = (index + 1) % SlidingWindowSize
  /\ count' = IF count < SlidingWindowSize THEN count + 1 ELSE count

\* The rate as a fraction; nothing but the tests asks for it.
FailureRate == [failures |-> Cardinality({i \in 0..count - 1 : ~outcomes[i]}), of |-> count]

\* Mutant: a success does not clear the failures.
CountsAllFailures(success) ==
  IF success
    THEN UNCHANGED <<state, counters, cooled>>
    ELSE /\ cooled' = FALSE
         /\ IF failures + 1 >= FailureThreshold
              THEN TransitionTo("OPEN", 0)
              ELSE failures' = failures + 1
                   /\ UNCHANGED <<state, successes, halfOpenRequests>>

\* A success clears the failures; a failure is the new lastFailure.
UpdateStateClosed(success) ==
  IF success
    THEN failures' = 0 /\ UNCHANGED <<state, successes, halfOpenRequests, cooled>>
    ELSE /\ cooled' = FALSE
         /\ IF failures + 1 >= FailureThreshold
              THEN TransitionTo("OPEN", 0)
              ELSE failures' = failures + 1
                   /\ UNCHANGED <<state, successes, halfOpenRequests>>

\* Mutant: > for >= SuccessThreshold.
ClosesLate(success) ==
  /\ IF ~success
       THEN TransitionTo("OPEN", 0)
       ELSE IF successes + 1 > SuccessThreshold
         THEN TransitionTo("CLOSED", 0)
         ELSE successes' = successes + 1
              /\ UNCHANGED <<state, failures, halfOpenRequests>>
  /\ UNCHANGED cooled

\* A failure opens the circuit and leaves lastFailure as it was.
UpdateStateHalfOpen(success) ==
  /\ IF ~success
       THEN TransitionTo("OPEN", 0)
       ELSE IF successes + 1 >= SuccessThreshold
         THEN TransitionTo("CLOSED", 0)
         ELSE successes' = successes + 1
              /\ UNCHANGED <<state, failures, halfOpenRequests>>
  /\ UNCHANGED cooled

\* recordOutcome goes by the state it finds, whichever state let the call in.
RecordOutcome(c, success) ==
  /\ c \in calling
  /\ Record(success)
  /\ CASE state = "CLOSED"    -> UpdateStateClosed(success)
       [] state = "HALF_OPEN" -> UpdateStateHalfOpen(success)
       [] state = "OPEN"      -> UNCHANGED <<state, counters, cooled>>
  /\ calling' = calling \ {c}
  /\ probe' = IF state' = "HALF_OPEN" THEN probe \ {c} ELSE {}
  /\ panics' = IF state' = "HALF_OPEN" THEN panics ELSE 0
  /\ recent' = Last(Append(recent, success), Recall)

\* A panic unwinds Execute before recordOutcome.
Panic(c) ==
  /\ c \in calling \cap Panicking
  /\ calling' = calling \ {c}
  /\ panics' = IF c \in probe THEN panics + 1 ELSE panics
  /\ probe' = probe \ {c}
  /\ UNCHANGED <<state, counters, cooled, window, recent>>

\* Reset closes the circuit; lastFailure and the window stay.
Reset ==
  /\ state' = "CLOSED" /\ failures' = 0 /\ successes' = 0 /\ halfOpenRequests' = 0
  /\ probe' = {} /\ panics' = 0
  /\ UNCHANGED <<cooled, window, calling, recent>>

\* Timeout passes.
CoolDown ==
  /\ ~cooled
  /\ cooled' = TRUE
  /\ UNCHANGED <<state, counters, window, calling, probe, panics, recent>>

CallReturns(c) == \E success \in BOOLEAN : RecordOutcome(c, success)

BreakerNext ==
  \/ \E c \in Caller : AllowRequest(c) \/ CallReturns(c) \/ Panic(c)
  \/ Reset \/ CoolDown

BreakerSpec == BreakerInit /\ [][BreakerNext]_breakerVars

\* Every protected function returns.  No call ever has to come.
FairBreakerSpec == BreakerSpec /\ \A c \in Caller : WF_breakerVars(CallReturns(c))

----------------------------------------------------------------------------
\* Properties.

\* The breaker's fields are well formed: the counters stay within the limits
\* of the configuration and the index within the window.
BreakerTypeOK ==
  /\ state \in {"CLOSED", "OPEN", "HALF_OPEN"}
  /\ failures \in 0..FailureThreshold - 1
  /\ successes \in 0..SuccessThreshold - 1
  /\ halfOpenRequests \in 0..MaxHalfOpenRequests
  /\ cooled \in BOOLEAN /\ panics \in 0..MaxHalfOpenRequests
  /\ outcomes \in [Index -> BOOLEAN] /\ index \in Index
  /\ count \in 0..SlidingWindowSize
  /\ calling \subseteq Caller /\ probe \subseteq calling
  /\ recent \in Seq(BOOLEAN)

\* allowRequest and recordOutcome: in a half-open period every request that
\* was counted is in flight, has been counted as a success, or was lost to a
\* panic; and no call of the period is in flight, or has panicked, uncounted.
SlotsAccounted ==
  state = "HALF_OPEN" =>
    /\ Cardinality(probe) + panics <= halfOpenRequests
    /\ halfOpenRequests <= Cardinality(probe) + successes + panics

\* allowRequest never gives a half-open request back, yet the breaker is not
\* stuck: when no call of the period is in flight and none has panicked, it
\* lets another one in, provided the requests suffice for SuccessThreshold.
NeverStuck ==
  /\ SuccessThreshold <= MaxHalfOpenRequests
  /\ state = "HALF_OPEN" /\ probe = {} /\ panics = 0
  => halfOpenRequests < MaxHalfOpenRequests

\* The last n members of s are all equal to success.
AllOf(s, n, success) ==
  n <= Len(s) /\ \A i \in Len(s) - n + 1..Len(s) : s[i] = success

\* updateStateClosed and updateStateHalfOpen: the circuit trips only when the
\* last FailureThreshold outcomes are failures, and closes again, but for
\* Reset, only when the last SuccessThreshold outcomes are successes.
ChangesOnEvidence ==
  [][/\ state = "CLOSED" /\ state' = "OPEN" => AllOf(recent', FailureThreshold, FALSE)
     /\ state = "HALF_OPEN" /\ state' = "CLOSED"
          => calling' = calling \/ AllOf(recent', SuccessThreshold, TRUE)]_breakerVars

\* SlidingWindow: the ring holds the last outcomes, so that FailureRate is
\* their failure rate.
WindowIsRecent ==
  LET last == Last(recent, SlidingWindowSize)
  IN  FailureRate = [failures |-> Cardinality({i \in DOMAIN last : ~last[i]}), of |-> Len(last)]

\* Once all half-open requests are used, the calls that return take the
\* breaker out of the half-open state, without any new call, under the same
\* provisos.
ProbesResolve ==
  SuccessThreshold <= MaxHalfOpenRequests =>
    (state = "HALF_OPEN" /\ halfOpenRequests = MaxHalfOpenRequests
       ~> state # "HALF_OPEN" \/ panics > 0)
=============================================================================
