SPECIFICATION Spec
CONSTANTS
  Task = {t1, t2}
  Cursor = Cursor
  NoTask = NoTask
  Wrap = 5
  Periods = {0, 2}
  Delays = {0, 1}
  MaxLate = 1
  MaxDrift = 1
PROPERTY RunKeepsOrder
