\* Two clients and one popper on a ring of three slots, under fairness.
CONSTANTS
  h1 = h1
  h2 = h2
  m1 = m1
  HSM = {h1, h2}
  Msgs = {m1}
  SK_INVALID_HSM = SK_INVALID_HSM
  SMM_INVALIDMSG = SMM_INVALIDMSG
  NoParam = NoParam
  Params = {NoParam}
  Clients = {c1, c2}
  Schedulers = {s1}
  Requests <- LiveRequests
  Garbage <- MCGarbage
  Idle = Idle
  nqueue = 2
SPECIFICATION FairSpec
PROPERTIES
  ImplementsFifo
  EveryMessageTaken
  EveryCallReturns
