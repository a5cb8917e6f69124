SPECIFICATION HubSpec
CONSTANTS
  c1 = c1
  c2 = c2
  Client = {c1, c2}
  UserOf <- Users
  Room = {r1}
  NoRoom = NoRoom
  NoOp = NoOp
  SendSize = 1
  QueueSize = 1
  Closers = {c1}
CHECK_DEADLOCK FALSE
INVARIANTS RoutesConsistent MembershipAgrees OnlyCloseBreaks
PROPERTIES GoneUnregistered
