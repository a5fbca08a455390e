------------------------------ MODULE Restart ------------------------------
(***************************************************************************)
(* ReadCache over several attach sessions: the index region of the cache   *)
(* partition, which IndexFlushToSsd writes and IndexLoadFromSsd reads,     *)
(* and what is left of a session after a detach or a crash.                *)
(*                                                                         *)
(* A detach happens here when no request and no population is in progress; *)
(* module Lifecycle is about the others.  dirty_shutdown and               *)
(* source_disk_serial are not modelled: no code reads them.                *)
(***************************************************************************)
EXTENDS ReadCache

CONSTANT MaxFaults  \* bound: crashes and failed flushes
ASSUME FaultsAssumption == MaxFaults \in Nat

VARIABLES
  index,     \* the block map in the index region of the partition
  attached,  \* caching_active
  faults     \* crashes and failed flushes so far

rvars == <<vars, index, attached, faults>>

(* block_map is freed: nothing is cached. *)
NoMap == [s \in Slots |-> [source_lba |-> CHOOSE b \in Blocks : TRUE,
                           last_access |-> 0, flags |-> {}]]

RestartInit ==
  /\ Init
  /\ index = block_map
  /\ attached = TRUE
  /\ faults = 0

Quiet == /\ \A r \in Readers : rd[r].pc = "idle"
         /\ \A w \in Workers : wk[w].pc = "idle"

-----------------------------------------------------------------------------
(* A step of the session; without one, writes go to the source disk all the *)
(* same.                                                                    *)
SessionStep ==
  /\ attached
  /\ Next
  /\ UNCHANGED <<index, attached, faults>>

DetachedWrite ==
  /\ ~attached
  /\ \E b \in Blocks : HostWrite(b)
  /\ UNCHANGED <<index, attached, faults>>

(* IOCTL_CACHE_FLUSH: the whole map is written under block_map_lock. *)
Flush ==
  /\ attached
  /\ index' = block_map
  /\ UNCHANGED <<vars, attached, faults>>

(* A write of the map that fails, or that a crash cuts short: any of its     *)
(* entries may have reached the index region.                                *)
Torn ==
  \E written \in SUBSET Slots :
    index' = [s \in Slots |-> IF s \in written THEN block_map[s] ELSE index[s]]

FlushFails ==
  /\ attached
  /\ faults < MaxFaults
  /\ faults' = faults + 1
  /\ Torn
  /\ UNCHANGED <<vars, attached>>

(* IndexFlushToSsd, the last thing done with the map.  Detach and device    *)
(* cleanup ignore its status.                                               *)
SessionEnds ==
  /\ block_map' = NoMap
  /\ cached_block_count' = 0
  /\ attached' = FALSE
  /\ UNCHANGED <<lru_scan_cursor, tick, disks, rd, wk>>

BugDetach ==
  /\ attached /\ Quiet
  /\ SessionEnds
  /\ UNCHANGED <<index, faults>>
Detach ==
  /\ attached /\ Quiet
  /\ index' = block_map
  /\ SessionEnds
  /\ UNCHANGED faults

DetachFlushFails ==
  /\ attached /\ Quiet
  /\ faults < MaxFaults
  /\ faults' = faults + 1
  /\ Torn
  /\ SessionEnds

(* Everything in memory is gone; a flush may have been under way. *)
Crash ==
  /\ attached
  /\ faults < MaxFaults
  /\ faults' = faults + 1
  /\ Torn
  /\ block_map' = NoMap
  /\ cached_block_count' = 0
  /\ tick' = 0
  /\ rd' = [r \in Readers |-> IdleReader]
  /\ wk' = [w \in Workers |-> IdleWorker]
  /\ attached' = FALSE
  /\ UNCHANGED <<lru_scan_cursor, disks>>

(* CacheAttachToDisk: IndexLoadFromSsd counts the entries that are VALID,   *)
(* LruClockResetCursor puts the hand to slot 0.                             *)
BugCountLoaded(m) == Cardinality({s \in Slots : m[s].flags # {}})
CountLoaded(m) == Cardinality(Cached(m))

Attach ==
  /\ ~attached
  /\ block_map' = index
  /\ cached_block_count' = CountLoaded(index)
  /\ lru_scan_cursor' = 0
  /\ attached' = TRUE
  /\ UNCHANGED <<tick, disks, rd, wk, index, faults>>

RestartNext ==
  \/ SessionStep \/ DetachedWrite \/ Flush \/ FlushFails
  \/ Detach \/ DetachFlushFails \/ Crash \/ Attach

RestartSpec == RestartInit /\ [][RestartNext]_rvars

-----------------------------------------------------------------------------
(* Properties.  CountExact of ReadCache is checked across sessions as well,  *)
(* whatever index a session starts from.                                     *)

(* As long as nothing failed, the map of every session is true to the SSD:   *)
(* a session hands the next one a true index, also when it was flushed       *)
(* before in the middle of a population.                                     *)
CleanMapMatchesSsd == faults = 0 => ValidMatchesSsd

(* As long as nothing failed, no session inherits a POPULATING flag, though  *)
(* a flush in the middle of a population writes it to the index.             *)
CleanMapIsOwned == faults = 0 => PopulatingOwned

(* A slot that a crash has left POPULATING is out of use: as long as the     *)
(* session lasts no population claims it, and its entry and its part of the  *)
(* SSD, which may be half written, stay as they are.                         *)
OrphansUntouched ==
  [][\A s \in Slots : attached /\ attached' /\ Populating(block_map, s) /\ Owner(s) = {}
       => Owner(s)' = {} /\ block_map'[s] = block_map[s] /\ ssd'[s] = ssd[s]]_rvars

-----------------------------------------------------------------------------
(* What a comment of the code says, refuted by a violation run *)

(* protocol.h:34: an entry with CACHE_FLAG_VALID holds valid data.           *)
ValidHoldsData ==
  \A s \in Slots : Valid(block_map, s) => ssd[s].blk = block_map[s].source_lba

=============================================================================
