\* Four threads that wait, set and reset, and one that destroys: then the event may stop for good.
CONSTANTS
  u1 = u1
  u2 = u2
  u3 = u3
  u4 = u4
  Users = {u1, u2, u3, u4}
  Idle = Idle
  Nobody = Nobody
  Calls <- AutoReset
  Destroyers = {d1}
SPECIFICATION Spec
CHECK_DEADLOCK FALSE
INVARIANTS
  TypeOK
  NoForgottenWaiter
PROPERTY
  ImplementsEvent
SYMMETRY Symmetric
