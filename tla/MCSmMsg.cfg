\* Two clients and two poppers on a ring of three slots.
CONSTANTS
  h1 = h1
  h2 = h2
  m1 = m1
  HSM = {h1, h2}
  Msgs = {m1}
  SK_INVALID_HSM = SK_INVALID_HSM
  SMM_INVALIDMSG = SMM_INVALIDMSG
  NoParam = NoParam
  Params = {NoParam}
  Clients = {c1, c2}
  Schedulers = {s1, s2}
  Requests <- SafetyRequests
  Garbage <- MCGarbage
  Idle = Idle
  nqueue = 2
SPECIFICATION Spec
INVARIANTS
  TypeOK
  EventAccounting
  PopNeverEmpty
PROPERTY
  ImplementsFifo
SYMMETRY Symmetric
