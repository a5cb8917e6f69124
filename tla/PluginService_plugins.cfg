SPECIFICATION PluginSpec
CONSTANTS
  Key = {k1}
  Req = {q1, q2}
  MaxLoads = 2
INVARIANTS StateTruthful FileAndRow
PROPERTIES FollowsLifecycle
