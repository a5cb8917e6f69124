SPECIFICATION ClientSpec
CONSTANTS
  Default = Default
  Profile = Profile
  Content <- Contents
  Leaf = "="
  Tree <- Trees
  Height <- Heights
  MaxHeight = 3
  Missing = Missing
  Truncated = Truncated
  Broken = Broken
  NotFound = NotFound
  Nobody = Nobody
  Watcher = Watcher
  Asker = Asker
  Ticker = Ticker
  RetryCount = 1
  MaxEdits = 2
  MaxAsks = 1
CHECK_DEADLOCK FALSE
INVARIANTS MergesByValue 
PROPERTIES  CacheConverges
