SPECIFICATION FairResumableSpec
CONSTANTS
  Task = {t1, t2}
  Cursor = Cursor
  NoTask = NoTask
  Wrap = 6
  Periods = {0, 2}
  Delays = {}
  StartTicks = {0, 1}
  MaxLag = 3
  MaxLate = 1
  Calls = {}
  Sleeps = {2}
  Checks = {2}
PROPERTY SleepsInFull
