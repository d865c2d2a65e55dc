\* Two clients, two timers, a period that a scan meets or misses.
CONSTANTS
  Clients = {c1, c2}
  Ids = {0, 1}
  Periods = {2}
  MaxElapsed = 2
  MaxPosts = 2
  Infinity = Infinity
  NoCall = NoCall
SPECIFICATION Spec
SYMMETRY Symmetric
INVARIANTS
  TypeOK
  WholePeriod
  OneShotOnce
  StartIsSeen
