\* One client, two timers: does the wait of tick_task end when its time is up?
CONSTANTS
  Clients = {c1}
  Ids = {0, 1}
  Periods = {3}
  MaxElapsed = 2
  MaxPosts = 2
  Infinity = Infinity
  NoCall = NoCall
SPECIFICATION FairSpec
PROPERTY
  TimeoutOccurs
