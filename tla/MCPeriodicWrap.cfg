SPECIFICATION Spec
CONSTANTS
  Task = {t1}
  Cursor = Cursor
  NoTask = NoTask
  Wrap = 8
  Periods = {2}
  Delays = {}
  StartTicks = {7}
  MaxLag = 7
  MaxLate = 3
  Calls = {}
PROPERTY NotEarly
