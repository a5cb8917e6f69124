SPECIFICATION AccountSpec
CONSTANTS
  Name = {a, b}
  Email = {x, y}
  Password = {p, s}
  MaxUsers = 2
  MaxTokens = 3
  MaxRequests = 5
  Req = {q1, q2}
  Patch = {{"active"}}
SYMMETRY Symmetry
INVARIANTS LiveUnique WritesKept Rotation SignedOutStays
CHECK_DEADLOCK FALSE
