SPECIFICATION FairCronSpec
CONSTANTS
  Instance = {p1, p2}
  Job = {j1}
  None = None
  Fields <- FiveFields
  CronFields = 5
  Period <- EveryOtherMinute
  Width <- OneMinute
  Singleton = {j1}
  DedupTTL = 1
  Slow = {}
  Stoppable = {p1}
  MaxTime = 3
  MaxFaults = 1
INVARIANTS AtMostOncePerWindow  
PROPERTIES Elected
CHECK_DEADLOCK FALSE
