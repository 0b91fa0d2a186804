SPECIFICATION Spec
CONSTANTS
  Task = {t1, t2}
  Cursor = Cursor
  NoTask = NoTask
  Wrap = 16
  Periods = {1}
  Delays = {0}
  MaxLate = 0
  MaxDrift = 1
PROPERTY EveryPeriod
