SPECIFICATION FairBreakerSpec
CONSTANTS
  Caller = {c1, c2, c3, c4}
  Panicking = {c1}
  FailureThreshold = 2
  SuccessThreshold = 3
  MaxHalfOpenRequests = 3
  SlidingWindowSize = 3
INVARIANTS SlotsAccounted NeverStuck WindowIsRecent
PROPERTIES ChangesOnEvidence ProbesResolve
