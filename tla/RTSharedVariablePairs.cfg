SPECIFICATION FairSpec
CONSTANTS
  Writer = {w1}
  Value = {0, 1}
  Initial = 0
  Wrap = 4
  MaxBehind = 3
PROPERTY ConsistentPairs
