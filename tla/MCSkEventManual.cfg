\* Three threads, waits that leave the event set.
CONSTANTS
  u1 = u1
  u2 = u2
  u3 = u3
  u4 = u4
  Users = {u1, u2, u3}
  Idle = Idle
  Nobody = Nobody
  Calls <- ManualReset
  Destroyers = {}
SPECIFICATION FairSpec
PROPERTY
  AllWaitersReleased
