\* Two senders that wait on a queue of one message.
CONSTANTS
  u1 = u1
  u2 = u2
  u3 = u3
  x = x
  y = y
  Msgs = {x, y}
  Idle = Idle
  Blank = Blank
  Nobody = Nobody
  Users = {u1, u2, u3}
  Usages <- TwoWaiters
  Destroyers = {}
  max_msg_count = 1
SPECIFICATION Spec
PROPERTY
  StoredIsSeen
