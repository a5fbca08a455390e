CONSTANTS
  N = 3
  ProbeMax = 2
  Blocks <- MCBlocks
  LookupMaps <- MCLookupMaps
  ScanMaps <- MCScanMaps
  Now = 3
  SectorSize = 4
  EntrySize = 3
  AlignSectors = 2
  WordSize = 16
  MinBlockSize = 2
  DefaultBlockSize = 4
  Geometries <- MCGeometries
  AttachSizes = {0, 2, 3}
  DiskSize = 11
  PartSize = 24
SPECIFICATION MCSpec
INVARIANTS
  ReturnsHit
  ReturnsMiss
  ReturnsVictim
  ReturnsNone
  CopiedPrefix
  ServedWhole
  CheckedButLast
  FilledWhole
  DataIntact
  MetadataIntact
  MapAllocated
CHECK_DEADLOCK FALSE
