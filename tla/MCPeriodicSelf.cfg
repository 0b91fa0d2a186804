SPECIFICATION Spec
CONSTANTS
  Task = {t1, t2}
  Cursor = Cursor
  NoTask = NoTask
  Wrap = 8
  Periods = {0, 2}
  Delays = {2}
  StartTicks = {0}
  MaxLag = 5
  MaxLate = 1
  Calls = {"self"}
INVARIANT DueOrder
