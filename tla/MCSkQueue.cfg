\* Three users in three ways, at most one waiter on each side, and a destroyer; after it the queue stands still.
CONSTANTS
  u1 = u1
  u2 = u2
  u3 = u3
  x = x
  y = y
  Msgs = {x, y}
  Idle = Idle
  Blank = Blank
  Nobody = Nobody
  Users = {u1, u2, u3}
  Usages <- OneWaiterASide
  Destroyers = {d1}
  max_msg_count = 2
SPECIFICATION FairSpec
CHECK_DEADLOCK FALSE
INVARIANTS
  TypeOK
  RefcntExact
  NoForgottenSleeper
PROPERTIES
  ImplementsQueue
  DestroyEnds
