SPECIFICATION PoolSpec
CONSTANTS
  Job = {j1}
  NoJob = NoJob
  k1 = k1
  Key = {k1}
  NoKey = NoKey
  Client = {c1}
  w1 = w1
  w2 = w2
  p1 = p1
  Worker = {w1, w2}
  Pool = {p1}
  Processor = {p1}
  PoolOf <- OnePool
  Slow = {}
  Stoppable = {}
  None = None
  Orphan = Orphan
  Now = 100
  StaleAfter = 10
  NPrio = 1
  MaxAttempts = 3
  Submission <- Either
  MaxCalls = 1
  MaxFaults = 1
  RecordsExpire = FALSE
  MaxCleanups = 0
INVARIANTS OneHandlerPerJob
SYMMETRY Symmetry
