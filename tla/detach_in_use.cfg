CONSTANTS
  t1 = t1
  pnp = pnp
  u1 = u1
  disk = disk
  other1 = other1
  other2 = other2
  Disks = {disk, other1, other2}
  ListHead = ListHead
  Disk = disk
  Callers = {t1}
  Remover = pnp
  Requests = {u1}
  Works = {}
  MaxLive = 3
SPECIFICATION Spec
INVARIANTS
  MapLiveInUse
CHECK_DEADLOCK FALSE
