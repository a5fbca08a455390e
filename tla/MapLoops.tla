------------------------------ MODULE MapLoops ------------------------------
(***************************************************************************)
(* The two loops over the block map, one iteration at a time: CacheLookup  *)
(* and LruClockFindVictim.  Each runs under block_map_lock, so no other    *)
(* actor touches the map.  The module shows that IsHit, IsMiss, Touched,   *)
(* IsVictim and Evicted of BlockMap, which ReadCache uses as one step, are *)
(* what the code computes for every map and every argument.                *)
(***************************************************************************)
EXTENDS BlockMap

CONSTANTS
  LookupMaps,  \* the maps CacheLookup is called on
  ScanMaps,    \* the maps LruClockFindVictim is called on
  Now          \* KeQueryTickCount()

ASSUME MapsAssumption == LookupMaps \cup ScanMaps \subseteq [Slots -> Entry]
ASSUME NowAssumption  == Now \in Nat

VARIABLES
  op,                                \* which function runs
  map0, count0, cursor0, lba,        \* its arguments, kept for the properties
  block_map, cached_block_count, lru_scan_cursor,
  i,                                 \* probe of the one loop, scanned of the other
  oldest_slot, oldest_time,          \* locals; NoTime stands for ~0ULL
  pc, result

args == <<op, map0, count0, cursor0, lba>>
lvars == <<args, block_map, cached_block_count, lru_scan_cursor, i, oldest_slot,
          oldest_time, pc, result>>
scan == <<cached_block_count, lru_scan_cursor, oldest_slot, oldest_time>>

NoTime == -1
NoLba  == -1  \* LruClockFindVictim has no such argument

LoopInit ==
  /\ \/ op = "lookup" /\ map0 \in LookupMaps /\ lba \in Blocks /\ cursor0 = 0
     \/ op = "victim" /\ map0 \in ScanMaps /\ lba = NoLba /\ cursor0 \in Slots
  /\ count0 = Cardinality({s \in Slots : Valid(map0, s)})
  /\ block_map = map0 /\ cached_block_count = count0 /\ lru_scan_cursor = cursor0
  /\ i = 0
  /\ oldest_slot = NoSlot
  /\ oldest_time = NoTime
  /\ pc = "loop"
  /\ result = NoSlot

Probing  == op = "lookup" /\ pc = "loop"
Scanning == op = "victim" /\ pc = "loop"

-----------------------------------------------------------------------------
(* CacheLookup *)

ProbeSlot == Probe(lba, i)

BugHit ==
  /\ Probing /\ i < ProbeMax
  /\ Match(block_map, ProbeSlot, lba)
  /\ result' = ProbeSlot
  /\ pc' = "return"
  /\ UNCHANGED <<args, scan, block_map, i>>
Hit ==
  /\ Probing /\ i < ProbeMax
  /\ Match(block_map, ProbeSlot, lba)
  /\ block_map' = Touched(block_map, ProbeSlot, Now)
  /\ result' = ProbeSlot
  /\ pc' = "return"
  /\ UNCHANGED <<args, scan, i>>

(* An empty slot ends the chain. *)
BugChainEnd ==
  /\ Probing /\ i < ProbeMax
  /\ ~Valid(block_map, ProbeSlot)
  /\ pc' = "return"
  /\ UNCHANGED <<args, scan, block_map, i, result>>
ChainEnd ==
  /\ Probing /\ i < ProbeMax
  /\ Vacant(block_map, ProbeSlot)
  /\ pc' = "return"
  /\ UNCHANGED <<args, scan, block_map, i, result>>

Advance ==
  /\ Probing /\ i < ProbeMax
  /\ ~Match(block_map, ProbeSlot, lba) /\ ~Vacant(block_map, ProbeSlot)
  /\ i' = i + 1
  /\ UNCHANGED <<args, scan, block_map, pc, result>>

Exhausted ==
  /\ Probing /\ i = ProbeMax
  /\ pc' = "return"
  /\ UNCHANGED <<args, scan, block_map, i, result>>

LookupNext == Hit \/ ChainEnd \/ Advance \/ Exhausted

-----------------------------------------------------------------------------
(* LruClockFindVictim *)

(* (start_cursor + scanned) % total_cache_blocks *)
Current == (cursor0 + i) % N

Skip ==
  /\ Scanning /\ i < N
  /\ Current \notin Evictable(block_map)
  /\ i' = i + 1
  /\ UNCHANGED <<args, scan, block_map, pc, result>>

(* current_time <= oldest_time *)
BugOlder == oldest_time = NoTime \/ block_map[Current].last_access >= oldest_time
Older == oldest_time = NoTime \/ block_map[Current].last_access <= oldest_time

BugTrackOldest == UNCHANGED <<oldest_slot, oldest_time>>
TrackOldest ==
  /\ oldest_slot' = IF Older THEN Current ELSE oldest_slot
  /\ oldest_time' = IF Older THEN block_map[Current].last_access ELSE oldest_time

SecondChance ==
  /\ Scanning /\ i < N
  /\ Current \in Evictable(block_map) /\ Accessed(block_map, Current)
  /\ TrackOldest
  /\ block_map' = [block_map EXCEPT ![Current].flags = @ \ {"ACCESSED"}]
  /\ i' = i + 1
  /\ UNCHANGED <<args, cached_block_count, lru_scan_cursor, pc, result>>

Evict(s, dropped) ==
  /\ block_map' = [block_map EXCEPT ![s].flags = @ \ dropped]
  /\ cached_block_count' = cached_block_count - 1
  /\ lru_scan_cursor' = NextCursor(s)
  /\ result' = s
  /\ pc' = "return"

Take ==
  /\ Scanning /\ i < N
  /\ Current \in Evictable(block_map) /\ ~Accessed(block_map, Current)
  /\ TrackOldest
  /\ Evict(Current, {"VALID"})
  /\ UNCHANGED <<args, i>>

(* No unreferenced candidate: the oldest one seen. *)
TakeOldest ==
  /\ Scanning /\ i = N /\ oldest_slot # NoSlot
  /\ Evict(oldest_slot, {"VALID", "ACCESSED"})
  /\ UNCHANGED <<args, i, oldest_slot, oldest_time>>

NoVictim ==
  /\ Scanning /\ i = N /\ oldest_slot = NoSlot
  /\ pc' = "return"
  /\ UNCHANGED <<args, scan, block_map, i, result>>

ScanNext == Skip \/ SecondChance \/ Take \/ TakeOldest \/ NoVictim

LoopNext == LookupNext \/ ScanNext

LoopSpec == LoopInit /\ [][LoopNext]_lvars

-----------------------------------------------------------------------------
Returned(f) == op = f /\ pc = "return"

(* A hit is the slot that IsHit names, holds the block, and is touched.      *)
ReturnsHit ==
  Returned("lookup") /\ result # NoSlot =>
    /\ IsHit(map0, lba, result)
    /\ block_map = Touched(map0, result, Now)

(* A miss is reported exactly when IsMiss says so: a slot that is being      *)
(* populated does not end the chain, an empty one does.                      *)
ReturnsMiss ==
  Returned("lookup") /\ result = NoSlot => IsMiss(map0, lba) /\ block_map = map0

(* What the scan returns is the victim and the map that ReadCache's          *)
(* WorkEvict takes in one step: the first unreferenced candidate from the    *)
(* hand, else the oldest, with the reference bits cleared up to there.       *)
ReturnsVictim ==
  Returned("victim") /\ result # NoSlot =>
    /\ IsVictim(map0, cursor0, result)
    /\ block_map = Evicted(map0, cursor0, result)
    /\ cached_block_count = count0 - 1
    /\ lru_scan_cursor = NextCursor(result)

(* It reports that nothing is available exactly when every slot is empty,    *)
(* pinned or being populated, and then it has changed nothing.               *)
ReturnsNone ==
  Returned("victim") /\ result = NoSlot =>
    /\ Evictable(map0) = {}
    /\ <<block_map, cached_block_count, lru_scan_cursor>> = <<map0, count0, cursor0>>

=============================================================================
