CONSTANTS
  t1 = t1
  pnp = pnp
  u1 = u1
  disk = disk
  other1 = other1
  other2 = other2
  Disks = {disk, other1, other2}
  ListHead = ListHead
  Disk = disk
  Callers = {t1}
  Remover = pnp
  Requests = {u1}
  Works = {}
  MaxLive = 3
  c1 = c1
  c2 = c2
  r1 = r1
  r2 = r2
  Routines <- MCRoutines
  Limit = 1
  MaxQueued = 4
  MaxResets = 2
  Recorders <- MCRecorders
  MaxRecords = 4
  MaxStatsResets = 2
SPECIFICATION MCSpec
SYMMETRY Sym
INVARIANTS
  ResourcesMatchActive
  FreedOnce
  AtMostOneLeakPerDetach
  OnlyYoungersPartition
  ListExact
  HaltsAfterFailedAdd
  TypeOK
  OutstandingCoversInFlight
  OutstandingBounded
  StalePermits
  ResetHidesAtMost
  ResetKeepsTotal
  SnapshotCoversReads
CHECK_DEADLOCK FALSE
