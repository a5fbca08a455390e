CONSTANTS
  t1 = t1
  pnp = pnp
  u1 = u1
  disk = disk
  other1 = other1
  other2 = other2
  Disks = {disk}
  ListHead = ListHead
  Disk = disk
  Callers = {t1}
  Remover = pnp
  Requests = {}
  Works = {}
  MaxLive = 3
SPECIFICATION Spec
INVARIANTS
  DetachFreesItems
CHECK_DEADLOCK FALSE
