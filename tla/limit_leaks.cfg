CONSTANTS
  c1 = c1
  c2 = c2
  c3 = c3
  Routines <- MCRoutines
  Limit = 1
  MaxQueued = 4
  MaxResets = 0
SPECIFICATION TSpec
SYMMETRY Sym
INVARIANTS
  IdleMeansOpen
