----------------------------- MODULE Partition -----------------------------
(***************************************************************************)
(* The cache partition of the SSD, byte by byte: the superblock in sector  *)
(* 0, the index behind it, the data blocks behind that; and the attach,    *)
(* which takes the geometry of the partition over into the context.  The   *)
(* partition was laid out by SuperblockInitialize, the only code that says *)
(* how; nothing under src/ calls it.                                       *)
(*                                                                         *)
(* Byte a of the source disk has content a.  A population, and a lookup    *)
(* with the SSD read behind it, are one step each here: what happens       *)
(* between their critical sections is the subject of ReadCache, and an     *)
(* index that is older than the data the subject of Restart.               *)
(***************************************************************************)
EXTENDS Integers

CONSTANTS
  SectorSize,        \* 512
  EntrySize,         \* sizeof(CACHE_BLOCK_ENTRY), 24
  AlignSectors,      \* 128, the alignment of the data region
  WordSize,          \* 2^32, the number of values of a ULONG
  MinBlockSize,      \* 4096
  DefaultBlockSize,  \* CACHE_DEFAULT_BLOCK_SIZE
  Geometries,        \* block_size and total_cache_blocks of the partitions
  AttachSizes,       \* block_size of the requests to attach
  DiskSize,          \* bound: the bytes of the source disk
  PartSize           \* bound: the bytes of the partition

ASSUME UnitAssumption ==
  {SectorSize, EntrySize, AlignSectors, WordSize} \subseteq Nat \ {0}
ASSUME GeometryAssumption ==
  Geometries \subseteq [block_size : Nat \ {0}, total : Nat]
ASSUME SizeAssumption == DiskSize \in Nat /\ PartSize \in Nat

VARIABLES
  sb,          \* the superblock in sector 0
  part,        \* the bytes of the partition
  block_size,  \* CACHE_DISK_CONTEXT.block_size
  total,       \* CACHE_DISK_CONTEXT.total_cache_blocks
  map,         \* the block whose VALID entry is in each slot of the block map
  session      \* "detached", "attached", or "overrun": the map was read
               \* beyond its allocation, and nothing more is said

pvars == <<sb, part, block_size, total, map, session>>

(* No entry of the map is VALID here. *)
NoBlock == -1

(* Bytes of the partition that are not content of the source disk. *)
Blank         == -3
SuperByte     == -4
EntryByte(s)  == -5 - s

Bytes          == 0 .. (PartSize - 1)
Span(first, n) == first .. (first + n - 1)

-----------------------------------------------------------------------------
(* superblock.c *)

Sectors(n)  == (n + SectorSize - 1) \div SectorSize
AlignUp(n)  == ((n + AlignSectors - 1) \div AlignSectors) * AlignSectors

BugSuperblockInitialize(g) ==
  [ours |-> TRUE, block_size |-> g.block_size, total |-> g.total,
   data_offset |-> AlignUp(Sectors(g.total * EntrySize))]
SuperblockInitialize(g) ==
  [ours |-> TRUE, block_size |-> g.block_size, total |-> g.total,
   data_offset |-> AlignUp(1 + Sectors(g.total * EntrySize))]

(* A partition with another magic number or major version. *)
Foreign == [ours |-> FALSE, block_size |-> 0, total |-> 0, data_offset |-> 0]

(* SuperblockRead finds the magic number and the version in sector 0. *)
SuperblockOk ==
  sb.ours /\ \A i \in Bytes \cap Span(0, SectorSize) : part[i] = SuperByte

-----------------------------------------------------------------------------
(* The regions behind it *)

(* The index is at byte 512, whatever the superblock says; its size is      *)
(* computed in 64 bits and kept in 32.                                      *)
IndexStart == SectorSize
BugIndexBytes(t) == ((t - 1) * EntrySize) % WordSize
IndexBytes(t)    == (t * EntrySize) % WordSize

(* Where CacheReadBlockFromSsd and the population find a slot of n bytes.   *)
SlotBytes(s, n) == Span(sb.data_offset * SectorSize + s * n, n)

InPartition(s, n) == SlotBytes(s, n) \subseteq Bytes
OnDisk(b, n)      == (b + 1) * n <= DiskSize
SourceBlocks(n)   == {b \in 0 .. (DiskSize - 1) : OnDisk(b, n)}

MapSlots == 0 .. (sb.total - 1)

(* What SuperblockWrite and IndexFlushToSsd make of the bytes p. *)
Flushed(p, t) ==
  [i \in Bytes |-> IF i \in Span(IndexStart, IndexBytes(t))
                     THEN EntryByte((i - IndexStart) \div EntrySize) ELSE p[i]]
Initialized(p) ==
  [i \in Bytes |-> IF i < SectorSize THEN SuperByte ELSE p[i]]

(* What the population of slot s with block b makes of them. *)
Stored(p, s, b, n) ==
  [i \in Bytes |-> IF i \in SlotBytes(s, n)
                     THEN b * n + (i - sb.data_offset * SectorSize - s * n)
                     ELSE p[i]]

(* What earlier sessions may have left: slots with the entry of block 0 and  *)
(* empty ones, which no population refills; the populations do the rest.     *)
LeftOver(n) == {m \in [MapSlots -> {NoBlock, 0}] :
                  \A s \in MapSlots : m[s] # NoBlock => OnDisk(0, n) /\ InPartition(s, n)}

Data(m, n) ==
  [i \in Bytes |-> IF \E s \in MapSlots : m[s] # NoBlock /\ i \in SlotBytes(s, n)
                     THEN (i - sb.data_offset * SectorSize) % n ELSE Blank]

PInit ==
  /\ sb \in {SuperblockInitialize(g) : g \in Geometries} \cup {Foreign}
  /\ IF sb.ours
       THEN /\ map \in LeftOver(sb.block_size)
            /\ part = Flushed(Initialized(Data(map, sb.block_size)), sb.total)
       ELSE map = <<>> /\ part = [i \in Bytes |-> Blank]
  /\ block_size = 0
  /\ total = 0
  /\ session = "detached"

-----------------------------------------------------------------------------
(* CacheAttachToDisk *)

PowerOf2(n) == \E k \in 0 .. n : n = 2 ^ k

(* The size asked for is validated, and then not used. *)
SizeOk(asked) ==
  LET n == IF asked = 0 THEN DefaultBlockSize ELSE asked
  IN  PowerOf2(n) /\ n >= MinBlockSize

(* IndexLoadFromSsd has allocated and read IndexBytes(total) bytes; then it *)
(* looks at every entry.                                                    *)
Overruns(t) == IndexBytes(t) < t * EntrySize

BugAttach(asked) ==
  /\ session = "detached"
  /\ SizeOk(asked) /\ SuperblockOk /\ sb.total > 0
  /\ block_size' = IF asked = 0 THEN DefaultBlockSize ELSE asked
  /\ total' = sb.total
  /\ session' = IF Overruns(sb.total) THEN "overrun" ELSE "attached"
  /\ UNCHANGED <<sb, part, map>>
Attach(asked) ==
  /\ session = "detached"
  /\ SizeOk(asked) /\ SuperblockOk /\ sb.total > 0
  /\ block_size' = sb.block_size
  /\ total' = sb.total
  /\ session' = IF Overruns(sb.total) THEN "overrun" ELSE "attached"
  /\ UNCHANGED <<sb, part, map>>

(* The index cannot be loaded, or a work item not be allocated: the         *)
(* geometry stays in the context.                                           *)
AttachFails(asked) ==
  /\ session = "detached"
  /\ SizeOk(asked) /\ SuperblockOk
  /\ block_size' = sb.block_size
  /\ total' = sb.total
  /\ UNCHANGED <<sb, part, map, session>>

-----------------------------------------------------------------------------
(* CachePopulateWorkItemRoutine evicts a VALID entry, reads the block whole *)
(* from the source disk and writes it into the slot.                        *)
Populate(s, b) ==
  /\ session = "attached" /\ map[s] # NoBlock
  /\ OnDisk(b, block_size) /\ InPartition(s, block_size) /\ SuperblockOk
  /\ part' = Stored(part, s, b, block_size)
  /\ map' = [map EXCEPT ![s] = b]
  /\ UNCHANGED <<sb, block_size, total, session>>

(* It cannot read a block that reaches beyond the end of the disk, or not   *)
(* write the slot: the entry stays empty.                                   *)
PopulateFails(s) ==
  /\ session = "attached" /\ map[s] # NoBlock
  /\ map' = [map EXCEPT ![s] = NoBlock]
  /\ UNCHANGED <<sb, part, block_size, total, session>>

(* IndexFlushToSsd *)
Flush ==
  /\ session = "attached"
  /\ part' = Flushed(part, total)
  /\ UNCHANGED <<sb, block_size, total, map, session>>

(* CacheFilterIoctlDetach *)
Detach ==
  /\ session = "attached"
  /\ part' = Flushed(part, total)
  /\ total' = 0
  /\ session' = "detached"
  /\ UNCHANGED <<sb, block_size, map>>

PartitionStep ==
  \/ \E asked \in AttachSizes : Attach(asked) \/ AttachFails(asked)
  \/ \E s \in MapSlots : \E b \in SourceBlocks(block_size) : Populate(s, b)
  \/ \E s \in MapSlots : PopulateFails(s)
  \/ Flush

-----------------------------------------------------------------------------
(* Properties *)

(* Each VALID entry's slot has the bytes of its block, whatever was written  *)
(* to the other slots, to the index and to the superblock since: the sizes   *)
(* that attach, population and flush use agree with the one the partition    *)
(* was laid out for, also when another one was asked for.                    *)
DataIntact ==
  session = "attached" =>
    \A s \in MapSlots : map[s] # NoBlock =>
      /\ SlotBytes(s, block_size) \subseteq Bytes
      /\ part = Stored(part, s, map[s], block_size)

(* No population and no flush reaches into the superblock, and none into the *)
(* index but a flush: the next attach finds both.                            *)
MetadataIntact ==
  sb.ours => part = Flushed(Initialized(part), sb.total)

(* An attach that succeeds has allocated the whole map it will use.  The     *)
(* count of the loaded entries leaves its allocation only if the map takes   *)
(* 2^32 bytes or more, and its size no longer fits into 32 bits.             *)
MapAllocated ==
  /\ session = "attached" => total * EntrySize <= IndexBytes(total)
  /\ session = "overrun" => total * EntrySize >= WordSize

=============================================================================
