CONSTANTS
  c1 = c1
  c2 = c2
  Clients = {c1, c2}
  Pthreads = {p1, p2}
  Names = {a, b}
  Nothing = Nothing
  Usages <- MCUsages
  MAX_THREAD_COUNT = 2
  MaxTasks = 3
SPECIFICATION FairSpec
CHECK_DEADLOCK FALSE
PROPERTY
  DestroyEndsTask
