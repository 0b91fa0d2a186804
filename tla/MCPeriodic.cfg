SPECIFICATION Spec
CONSTANTS
  Task = {t1, t2, t3}
  Cursor = Cursor
  NoTask = NoTask
  Wrap = 8
  Periods = {0, 2}
  Delays = {1, 2}
  StartTicks = {0, 3}
  MaxLag = 5
  MaxLate = 3
  Calls = {"clear"}
SYMMETRY Symmetry
VIEW View
INVARIANTS
  DueOrder
  IdleOnlyWhenNothingDue
PROPERTY ImplementsDeadlines
