SPECIFICATION FairSpec
CONSTANTS
  Writer = {w1, w2}
  Value = {0, 1, 2}
  Initial = 0
  Wrap = 3
  MaxBehind = 2
INVARIANTS
  TypeOK
  NothingMissed
PROPERTY SettlesOnFinalValue
