SPECIFICATION FairCallableSpec
CONSTANTS
  Task = {t1, t2}
  Cursor = Cursor
  NoTask = NoTask
  Wrap = 6
  Periods = {0, 2}
  Delays = {1, 2}
  StartTicks = {0}
  MaxLag = 3
  MaxLate = 1
  Calls = {"clear", "stray"}
INVARIANTS
  TypeOK
  LinkedOnce
  OneObjectPerTask
PROPERTIES
  NotEarly
  NoStarvation
  EmptyTasksLeave
