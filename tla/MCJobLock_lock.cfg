SPECIFICATION LockSpec
CONSTANTS
  Job = {j1}
  NoJob = NoJob
  w1 = w1
  w2 = w2
  w3 = w3
  p1 = p1
  p2 = p2
  Worker = {w1, w2, w3}
  Pool = {p1, p2}
  PoolOf <- TwoPools
  Slow = {p2}
  Stoppable = {p1, p2}
  None = None
  Orphan = Orphan
  Now = 100
  StaleAfter = 10
  MaxCleanups = 1
INVARIANTS KeepsLock 
