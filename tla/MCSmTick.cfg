\* Two clients, two slots, periods that are met exactly, that are not, and that overflow.
CONSTANTS
  HSM = {h1}
  SK_INVALID_HSM = null
  SMM_INVALIDMSG = none
  SMM_TICK = tick
  SMM_USER = user
  Msgs = {tick, user}
  Params <- MCParams
  NoParam <- MCNoParam
  c1 = c1
  c2 = c2
  Clients = {c1, c2}
  ticker = ticker
  nqueue = 2
  SMALLWIN_NTICKS = 2
  time_tick = 2
  Usages <- MCUsages
  Word = 8
SPECIFICATION FairSpec
INVARIANTS
  TypeOK
  OnePendingTick
  NoOverflow
  DestroyStopsTicks
PROPERTIES
  TickerGoesOn
  TickComes
