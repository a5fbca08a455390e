CONSTANTS
  N = 3
  ProbeMax = 2
  Blocks <- MCBlocks
  r1 = r1
  r2 = r2
  w1 = w1
  w2 = w2
  Readers = {r1}
  Workers = {w1, w2}
  MaxLen = 1
  MaxTick = 0
  MaxVer = 0
  Loaded <- MCLoaded
SYMMETRY WorkerSym
SPECIFICATION Spec
INVARIANTS
  TypeOK
  CountExact
  ExclusiveClaim
  PopulatingOwned
  ValidMatchesSsd
PROPERTIES
  PinnedStays
  HandAdvances
  ImplementsPool
