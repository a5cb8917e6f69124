SPECIFICATION Spec
CONSTANTS
  Job = {j1, j2}
  NoJob = NoJob
  Key = {k1}
  NoKey = NoKey
  Client = {c1}
  Worker = {w1}
  Processor = {p1}
  NPrio = 2
  Submission <- KeyedSubmissions
  MaxCalls = 1
  MaxFaults = 1
  RecordsExpire = TRUE
SYMMETRY Symmetry
INVARIANTS LossBounded OnePlace  DeadAccounted
PROPERTY FollowsJourney
