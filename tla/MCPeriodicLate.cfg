SPECIFICATION Spec
CONSTANTS
  Task = {t1, t2}
  Cursor = Cursor
  NoTask = NoTask
  Wrap = 8
  Periods = {2}
  Delays = {1, 2}
  StartTicks = {0}
  MaxLag = 5
  MaxLate = 1
  Calls = {"late"}
INVARIANT IdleOnlyWhenNothingDue
