CONSTANTS
  N = 2
  ProbeMax = 2
  Blocks <- MCBlocks
  r1 = r1
  r2 = r2
  w1 = w1
  w2 = w2
  Readers = {r1}
  Workers = {w1}
  MaxLen = 1
  MaxTick = 0
  MaxVer = 0
  Loaded <- MCFull
SPECIFICATION Spec
PROPERTIES
  EmptySlotsAreUsed
