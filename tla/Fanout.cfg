SPECIFICATION FairFanoutSpec
CONSTANTS
  s1 = s1
  s2 = s2
  users = users
  orders = orders
  Subscribers = {s1, s2}
  Tables = {users, orders}
  Wants <- MCWants
  BufferSize = 2
  MaxEvents = 4
INVARIANTS
  LossAnnounced
  NoSleepOverWork
  InOrder
PROPERTIES
  Served
CHECK_DEADLOCK FALSE
