CONSTANTS
  r1 = r1
  w1 = w1
  N = 2
  ProbeMax = 2
  Blocks <- MCBlocks
  Readers <- MCReaders
  Workers <- MCWorkers
  MaxLen = 1
  MaxTick = 0
  MaxVer = 1
  Loaded <- MCLoaded
  MaxFaults = 1
SPECIFICATION RestartSpec
INVARIANTS
  CountExact
  
  
PROPERTIES
  OrphansUntouched
