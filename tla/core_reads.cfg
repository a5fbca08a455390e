CONSTANTS
  N = 2
  ProbeMax = 2
  Blocks <- MCBlocks2
  r1 = r1
  r2 = r2
  w1 = w1
  w2 = w2
  Readers = {r1}
  Workers = {w1}
  MaxLen = 2
  MaxTick = 1
  MaxVer = 1
  Loaded <- MCLoaded
SPECIFICATION FairSpec
INVARIANTS
  HddReadsFresh
PROPERTIES
  ReadCompletes
  PopulatingEnds
