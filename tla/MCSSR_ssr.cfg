SPECIFICATION SSRSpec
CONSTANTS
  Component = {c1}
  Props = {s1, s2}
  Req = {q1, q2}
  CacheTTL = 1
  MaxTime = 3
  MaxRenders = 4
  MaxClears = 1
SYMMETRY Symmetry
INVARIANTS AnswersCurrent StatsAdd
CHECK_DEADLOCK FALSE
