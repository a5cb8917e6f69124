SPECIFICATION RetrySpec
CONSTANTS
  Caller = {c1, c2, c3}
  Burst = 1
  WaitTimeout = 2
  Ask = {1, 2}
  Limit = 2
  Period = 2
  MaxTime = 3
  MaxAttemptsSet = {0, 2}
  MaxCalls = 3
SYMMETRY Symmetry
CHECK_DEADLOCK FALSE
INVARIANTS RateBounded DebtBounded WindowExact RetryTruthful OneBreaker
