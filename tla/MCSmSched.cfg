\* Two clients, a queue of two, and two addresses: three windows share them, or each has but one.
CONSTANTS
  HSM = {a1, a2}
  SK_INVALID_HSM = null
  SMM_INVALIDMSG = none
  SMM_CREATE = create
  SMM_CLOSE = close
  SMM_USER = user
  Msgs = {create, close, user}
  Params = {0, 1, 2, 3}
  NoParam = 0
  c1 = c1
  c2 = c2
  Clients = {c1, c2}
  sched = sched
  nqueue = 2
  Usages <- MCUsages
  MaxWindows = 3
  MaxDepth = 2
SPECIFICATION FairSpec
INVARIANTS
  TypeOK
  ListSound
  NoDangling
  CreateFirst
PROPERTIES
  ClosedInTheEnd
  CreatedInTheEnd
