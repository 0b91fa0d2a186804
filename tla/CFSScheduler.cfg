SPECIFICATION FairSpec
CONSTANTS
  Task = {t1, t2, t3}
  Cursor = Cursor
  NoTask = NoTask
  Wrap = 5
  Priorities = {0, 2}
  DefaultPriority = 1
  Lowest = 1
  MaxRun = 2
INVARIANTS
  TypeOK
  FairShare
PROPERTIES
  LeastFirst
  NoStarvation
