----------------------------- MODULE ReadCache -----------------------------
(***************************************************************************)
(* One attach session of one cached disk, between CacheAttachToDisk and    *)
(* the detach: caching_active is TRUE and the geometry does not change.    *)
(* Readers are the read requests that the parallel KMDF queue delivers     *)
(* concurrently (CacheFilterEvtIoRead); workers are the populations in     *)
(* flight (CachePopulateWorkItemRoutine).  An action is a critical section *)
(* of block_map_lock, or one I/O, or one step on local state: everything   *)
(* between two of them may be interleaved with the other actors.           *)
(*                                                                         *)
(* The content of a block is abstracted to the block it belongs to and the *)
(* number of writes the source disk had received when it was read.         *)
(* External (from how the driver uses them): every ZwReadFile, ZwWriteFile *)
(* and IoCallDriver succeeds or fails; every queued work item runs.        *)
(* The rate limit and the pool allocation of CachePopulateAsync are the    *)
(* choice to refuse; PopulateThrottle has the counters behind it.          *)
(***************************************************************************)
EXTENDS BlockMap

CONSTANTS
  Readers,  \* read requests that can be in progress at once
  Workers,  \* populations that can be in flight at once
  MaxLen,   \* bound: blocks touched by one read request
  MaxTick,  \* bound: values of KeQueryTickCount
  MaxVer,   \* bound: writes to one block of the source disk
  Loaded    \* the block maps IndexLoadFromSsd may have loaded

(* A loaded map has no slot that is still POPULATING; module Restart has    *)
(* sessions that start from any map.                                        *)
ASSUME LoadedAssumption ==
  Loaded \subseteq {m \in [Slots -> Entry] : \A s \in Slots : ~Populating(m, s)}
ASSUME BoundsAssumption == MaxLen \in Nat \ {0} /\ MaxTick \in Nat /\ MaxVer \in Nat
ASSUME WorkersAssumption == IsFiniteSet(Workers)

NoBlock  == -1
BlockIds == Blocks \cup {NoBlock}

Data == [blk : BlockIds, ver : Nat]
Junk == [blk |-> NoBlock, ver |-> 0]  \* not the content of any block

VARIABLES
  block_map,           \* CACHE_DISK_CONTEXT.block_map
  cached_block_count,  \* CACHE_DISK_CONTEXT.cached_block_count
  lru_scan_cursor,     \* CACHE_DISK_CONTEXT.lru_scan_cursor
  tick,                \* KeQueryTickCount()
  ssd,                 \* the data area of the cache partition, by slot
  hdd,                 \* the source disk: writes received, by block
  rd,                  \* the local state of each reader
  wk                   \* the local state of each worker

shared == <<block_map, cached_block_count, lru_scan_cursor>>
disks  == <<ssd, hdd>>
vars   == <<block_map, cached_block_count, lru_scan_cursor, tick, ssd, hdd, rd, wk>>

ReaderPc == {"idle", "check", "serve", "ssd", "hdd", "fill", "done"}
WorkerPc == {"idle", "queued", "select", "mark", "source", "store", "storing",
             "publish", "abort"}

(* lo..hi are the blocks the request touches; lo..chk those that            *)
(* IsRangeFullyCached looks up; from says who filled the buffer.            *)
Reader == [pc : ReaderPc, lo : BlockIds, hi : BlockIds, chk : BlockIds,
           cur : Int, slot : Slots \cup {NoSlot}, buf : [Blocks -> Data],
           since : [Blocks -> Nat], from : {"none", "ssd", "hdd", "error"}]
Worker == [pc : WorkerPc, blk : BlockIds, slot : Slots \cup {NoSlot}, data : Data]

IdleReader == [pc |-> "idle", lo |-> NoBlock, hi |-> NoBlock, chk |-> NoBlock,
               cur |-> NoBlock, slot |-> NoSlot, buf |-> [b \in Blocks |-> Junk],
               since |-> [b \in Blocks |-> 0], from |-> "none"]
IdleWorker == [pc |-> "idle", blk |-> NoBlock, slot |-> NoSlot, data |-> Junk]

OnDisk(b) == [blk |-> b, ver |-> hdd[b]]
Cached(m) == {s \in Slots : Valid(m, s)}

(* CacheAttachToDisk leaves the map IndexLoadFromSsd read, its number of    *)
(* VALID entries, and the clock hand at slot 0.                             *)
Init ==
  /\ block_map \in Loaded
  /\ cached_block_count = Cardinality(Cached(block_map))
  /\ lru_scan_cursor = 0
  /\ tick = 0
  /\ ssd = [s \in Slots |-> IF Valid(block_map, s)
                              THEN [blk |-> block_map[s].source_lba, ver |-> 0]
                              ELSE Junk]
  /\ hdd = [b \in Blocks |-> 0]
  /\ rd = [r \in Readers |-> IdleReader]
  /\ wk = [w \in Workers |-> IdleWorker]

-----------------------------------------------------------------------------
(* CacheFilterEvtIoRead.  A request of no bytes is completed at once and     *)
(* touches nothing: RangeLoop has it.                                        *)

(* The loop of IsRangeFullyCached steps by block_size from an unaligned     *)
(* offset: it makes as many lookups as the request has blocks, or one less. *)
ReadArrive(r) ==
  /\ rd[r].pc = "idle"
  /\ \E lo, hi, chk \in Blocks :
       /\ lo <= chk /\ chk <= hi /\ hi <= chk + 1 /\ hi < lo + MaxLen
       /\ lo .. hi \subseteq Blocks
       /\ rd' = [rd EXCEPT ![r] = [IdleReader EXCEPT
                   !.pc = "check", !.lo = lo, !.hi = hi, !.chk = chk, !.cur = lo,
                   !.since = hdd]]
  /\ UNCHANGED <<shared, tick, disks, wk>>

(* One iteration of IsRangeFullyCached. *)
CheckHit(r) ==
  /\ rd[r].pc = "check" /\ rd[r].cur <= rd[r].chk
  /\ \E s \in Slots :
       /\ IsHit(block_map, rd[r].cur, s)
       /\ block_map' = Touched(block_map, s, tick)
  /\ rd' = [rd EXCEPT ![r].cur = @ + 1]
  /\ UNCHANGED <<cached_block_count, lru_scan_cursor, tick, disks, wk>>

CheckMiss(r) ==
  /\ rd[r].pc = "check" /\ rd[r].cur <= rd[r].chk
  /\ IsMiss(block_map, rd[r].cur)
  /\ rd' = [rd EXCEPT ![r].pc = "hdd"]
  /\ UNCHANGED <<shared, tick, disks, wk>>

(* ServeReadFromSsdCache has its buffers, or gives up for lack of one.      *)
ServeBegin(r) ==
  /\ rd[r].pc = "check" /\ rd[r].cur > rd[r].chk
  /\ rd' = [rd EXCEPT ![r].pc = "serve", ![r].cur = rd[r].lo]
  /\ UNCHANGED <<shared, tick, disks, wk>>

ServeNoBuffer(r) ==
  /\ rd[r].pc = "check" /\ rd[r].cur > rd[r].chk
  /\ rd' = [rd EXCEPT ![r].pc = "hdd"]
  /\ UNCHANGED <<shared, tick, disks, wk>>

(* The second lookup.  The lock is released before the SSD is read. *)
ServeHit(r) ==
  /\ rd[r].pc = "serve" /\ rd[r].cur <= rd[r].hi
  /\ \E s \in Slots :
       /\ IsHit(block_map, rd[r].cur, s)
       /\ block_map' = Touched(block_map, s, tick)
       /\ rd' = [rd EXCEPT ![r].pc = "ssd", ![r].slot = s]
  /\ UNCHANGED <<cached_block_count, lru_scan_cursor, tick, disks, wk>>

ServeMiss(r) ==
  /\ rd[r].pc = "serve" /\ rd[r].cur <= rd[r].hi
  /\ IsMiss(block_map, rd[r].cur)
  /\ rd' = [rd EXCEPT ![r].pc = "hdd"]
  /\ UNCHANGED <<shared, tick, disks, wk>>

(* CacheReadBlockFromSsd, without the lock. *)
SsdReadOk(r) ==
  /\ rd[r].pc = "ssd"
  /\ rd' = [rd EXCEPT ![r].pc = "serve", ![r].cur = @ + 1, ![r].slot = NoSlot,
                      ![r].buf[rd[r].cur] = ssd[rd[r].slot]]
  /\ UNCHANGED <<shared, tick, disks, wk>>

BugSsdReadRetried(r) ==
  /\ rd[r].pc = "ssd"
  /\ rd' = [rd EXCEPT ![r].pc = "serve", ![r].slot = NoSlot]
  /\ UNCHANGED <<shared, tick, disks, wk>>
SsdReadFail(r) ==
  /\ rd[r].pc = "ssd"
  /\ rd' = [rd EXCEPT ![r].pc = "hdd", ![r].slot = NoSlot]
  /\ UNCHANGED <<shared, tick, disks, wk>>

ServeEnd(r) ==
  /\ rd[r].pc = "serve" /\ rd[r].cur > rd[r].hi
  /\ rd' = [rd EXCEPT ![r].pc = "done", ![r].from = "ssd"]
  /\ UNCHANGED <<shared, tick, disks, wk>>

(* CacheFilterForwardRead: the request goes down the stack whole, and its   *)
(* completion overwrites what the SSD had put in the buffer; or it fails.   *)
BugHddReadTail(r) ==
  /\ rd[r].pc = "hdd"
  /\ rd' = [rd EXCEPT ![r].pc = "fill", ![r].cur = rd[r].lo, ![r].from = "hdd",
               ![r].buf = [b \in Blocks |->
                 IF b \in rd[r].cur .. rd[r].hi THEN OnDisk(b) ELSE rd[r].buf[b]]]
  /\ UNCHANGED <<shared, tick, disks, wk>>
HddReadOk(r) ==
  /\ rd[r].pc = "hdd"
  /\ rd' = [rd EXCEPT ![r].pc = "fill", ![r].cur = rd[r].lo, ![r].from = "hdd",
               ![r].buf = [b \in Blocks |->
                 IF b \in rd[r].lo .. rd[r].hi THEN OnDisk(b) ELSE rd[r].buf[b]]]
  /\ UNCHANGED <<shared, tick, disks, wk>>

HddReadFail(r) ==
  /\ rd[r].pc = "hdd"
  /\ rd' = [rd EXCEPT ![r].pc = "done", ![r].from = "error"]
  /\ UNCHANGED <<shared, tick, disks, wk>>

(* CacheFilterReadCompletionRoutine: one CachePopulateAsync per block, which *)
(* queues a work item or refuses; its result is ignored.                     *)
FillQueue(r, w) ==
  /\ rd[r].pc = "fill" /\ rd[r].cur <= rd[r].hi
  /\ wk[w].pc = "idle"
  /\ wk' = [wk EXCEPT ![w] = [IdleWorker EXCEPT !.pc = "queued", !.blk = rd[r].cur]]
  /\ rd' = [rd EXCEPT ![r].cur = @ + 1]
  /\ UNCHANGED <<shared, tick, disks>>

FillRefused(r) ==
  /\ rd[r].pc = "fill" /\ rd[r].cur <= rd[r].hi
  /\ rd' = [rd EXCEPT ![r].cur = @ + 1]
  /\ UNCHANGED <<shared, tick, disks, wk>>

FillEnd(r) ==
  /\ rd[r].pc = "fill" /\ rd[r].cur > rd[r].hi
  /\ rd' = [rd EXCEPT ![r].pc = "done"]
  /\ UNCHANGED <<shared, tick, disks, wk>>

(* WdfRequestComplete; the reader stands for another request afterwards. *)
ReadComplete(r) ==
  /\ rd[r].pc = "done"
  /\ rd' = [rd EXCEPT ![r] = IdleReader]
  /\ UNCHANGED <<shared, tick, disks, wk>>

-----------------------------------------------------------------------------
(* CachePopulateWorkItemRoutine *)

(* No memory for the block buffer. *)
WorkNoBuffer(w) ==
  /\ wk[w].pc = "queued"
  /\ wk' = [wk EXCEPT ![w] = IdleWorker]
  /\ UNCHANGED <<shared, tick, disks, rd>>

(* Another worker cached the block meanwhile; the lookup touches it. *)
WorkCached(w) ==
  /\ wk[w].pc = "queued"
  /\ \E s \in Slots :
       /\ IsHit(block_map, wk[w].blk, s)
       /\ block_map' = Touched(block_map, s, tick)
  /\ wk' = [wk EXCEPT ![w] = IdleWorker]
  /\ UNCHANGED <<cached_block_count, lru_scan_cursor, tick, disks, rd>>

WorkMiss(w) ==
  /\ wk[w].pc = "queued"
  /\ IsMiss(block_map, wk[w].blk)
  /\ wk' = [wk EXCEPT ![w].pc = "select"]
  /\ UNCHANGED <<shared, tick, disks, rd>>

(* CacheSelectEvictionSlot, one critical section. *)
WorkNoVictim(w) ==
  /\ wk[w].pc = "select"
  /\ Evictable(block_map) = {}
  /\ wk' = [wk EXCEPT ![w] = IdleWorker]
  /\ UNCHANGED <<shared, tick, disks, rd>>

WorkEvict(w) ==
  /\ wk[w].pc = "select"
  /\ \E v \in Slots :
       /\ IsVictim(block_map, lru_scan_cursor, v)
       /\ block_map' = Evicted(block_map, lru_scan_cursor, v)
       /\ lru_scan_cursor' = NextCursor(v)
       /\ wk' = [wk EXCEPT ![w].pc = "mark", ![w].slot = v]
  /\ cached_block_count' = cached_block_count - 1
  /\ UNCHANGED <<tick, disks, rd>>

(* A second critical section. *)
WorkMark(w) ==
  /\ wk[w].pc = "mark"
  /\ block_map' = Marked(block_map, wk[w].slot)
  /\ wk' = [wk EXCEPT ![w].pc = "source"]
  /\ UNCHANGED <<cached_block_count, lru_scan_cursor, tick, disks, rd>>

SourceRead(w) ==
  /\ wk[w].pc = "source"
  /\ wk' = [wk EXCEPT ![w].pc = "store", ![w].data = OnDisk(wk[w].blk)]
  /\ UNCHANGED <<shared, tick, disks, rd>>

(* No source device, no IRP, or the read failed. *)
SourceFail(w) ==
  /\ wk[w].pc = "source"
  /\ wk' = [wk EXCEPT ![w].pc = "abort"]
  /\ UNCHANGED <<shared, tick, disks, rd>>

(* The superblock could not be read: nothing is written. *)
StoreRefused(w) ==
  /\ wk[w].pc = "store"
  /\ wk' = [wk EXCEPT ![w].pc = "abort"]
  /\ UNCHANGED <<shared, tick, disks, rd>>

(* ZwWriteFile: while it runs, and when it fails, the slot's content is     *)
(* that of no block, or already the new one.                                *)
StoreBegin(w) ==
  /\ wk[w].pc = "store"
  /\ ssd' = [ssd EXCEPT ![wk[w].slot] = Junk]
  /\ wk' = [wk EXCEPT ![w].pc = "storing"]
  /\ UNCHANGED <<shared, tick, hdd, rd>>

StoreEnd(w) ==
  /\ wk[w].pc = "storing"
  /\ ssd' = [ssd EXCEPT ![wk[w].slot] = wk[w].data]
  /\ wk' = [wk EXCEPT ![w].pc = "publish"]
  /\ UNCHANGED <<shared, tick, hdd, rd>>

BugStoreFailIgnored(w) ==
  /\ wk[w].pc = "storing"
  /\ wk' = [wk EXCEPT ![w].pc = "publish"]
  /\ UNCHANGED <<shared, tick, disks, rd>>
BugStoreFailForgotten(w) ==
  /\ wk[w].pc = "storing"
  /\ wk' = [wk EXCEPT ![w] = IdleWorker]
  /\ UNCHANGED <<shared, tick, disks, rd>>
StoreFail(w) ==
  /\ wk[w].pc = "storing"
  /\ \E d \in {Junk, wk[w].data} : ssd' = [ssd EXCEPT ![wk[w].slot] = d]
  /\ wk' = [wk EXCEPT ![w].pc = "abort"]
  /\ UNCHANGED <<shared, tick, hdd, rd>>

BugPublishUncounted(w) ==
  /\ wk[w].pc = "publish"
  /\ block_map' = Published(block_map, wk[w].slot, wk[w].blk, tick)
  /\ wk' = [wk EXCEPT ![w] = IdleWorker]
  /\ UNCHANGED <<cached_block_count, lru_scan_cursor, tick, disks, rd>>
WorkPublish(w) ==
  /\ wk[w].pc = "publish"
  /\ block_map' = Published(block_map, wk[w].slot, wk[w].blk, tick)
  /\ cached_block_count' = cached_block_count + 1
  /\ wk' = [wk EXCEPT ![w] = IdleWorker]
  /\ UNCHANGED <<lru_scan_cursor, tick, disks, rd>>

(* abort_populate *)
WorkAbort(w) ==
  /\ wk[w].pc = "abort"
  /\ block_map' = Restored(block_map, wk[w].slot)
  /\ wk' = [wk EXCEPT ![w] = IdleWorker]
  /\ UNCHANGED <<cached_block_count, lru_scan_cursor, tick, disks, rd>>

-----------------------------------------------------------------------------
(* CacheFilterEvtIoWrite passes every write to the source disk; block_map   *)
(* and ssd keep what they have.                                             *)
HostWrite(b) ==
  /\ hdd[b] < MaxVer
  /\ hdd' = [hdd EXCEPT ![b] = @ + 1]
  /\ UNCHANGED <<shared, tick, ssd, rd, wk>>

Tick ==
  /\ tick < MaxTick
  /\ tick' = tick + 1
  /\ UNCHANGED <<shared, disks, rd, wk>>

ReadStep(r) ==
  \/ CheckHit(r)     \/ CheckMiss(r)  \/ ServeBegin(r) \/ ServeNoBuffer(r)
  \/ ServeHit(r)     \/ ServeMiss(r)  \/ SsdReadOk(r)  \/ SsdReadFail(r)
  \/ ServeEnd(r)     \/ HddReadOk(r)  \/ HddReadFail(r)
  \/ FillRefused(r)  \/ FillEnd(r)    \/ ReadComplete(r)
  \/ \E w \in Workers : FillQueue(r, w)

WorkStep(w) ==
  \/ WorkNoBuffer(w) \/ WorkCached(w)   \/ WorkMiss(w)   \/ WorkNoVictim(w)
  \/ WorkEvict(w)    \/ WorkMark(w)     \/ SourceRead(w) \/ SourceFail(w)
  \/ StoreRefused(w) \/ StoreBegin(w)   \/ StoreEnd(w)   \/ StoreFail(w)
  \/ WorkPublish(w)  \/ WorkAbort(w)

Next ==
  \/ \E r \in Readers : ReadArrive(r) \/ ReadStep(r)
  \/ \E w \in Workers : WorkStep(w)
  \/ \E b \in Blocks : HostWrite(b)
  \/ Tick

Spec == Init /\ [][Next]_vars

(* The driver never waits for another request or work item, and every I/O   *)
(* it issues is answered: a step that is possible is eventually taken.      *)
Fairness == /\ \A r \in Readers : WF_vars(ReadStep(r))
            /\ \A w \in Workers : WF_vars(WorkStep(w))

FairSpec == Spec /\ Fairness

-----------------------------------------------------------------------------
(* Properties *)

(* The type invariant of the state of one session. *)
TypeOK ==
  /\ block_map \in [Slots -> Entry]
  /\ cached_block_count \in Int
  /\ lru_scan_cursor \in Slots
  /\ tick \in Nat
  /\ ssd \in [Slots -> Data]
  /\ hdd \in [Blocks -> Nat]
  /\ rd \in [Readers -> Reader]
  /\ wk \in [Workers -> Worker]

Holding == {"mark", "source", "store", "storing", "publish", "abort"}
Owner(s) == {w \in Workers : wk[w].slot = s}

(* cached_block_count, updated by one critical section per eviction and one  *)
(* per publication, is at all times the number of VALID entries: it neither  *)
(* drifts nor wraps below zero, however populations interleave and fail.     *)
CountExact == cached_block_count = Cardinality(Cached(block_map))

(* CacheSelectEvictionSlot drops the lock before the slot is marked          *)
(* POPULATING: still no two populations ever hold the same slot, and a slot  *)
(* some population holds is never VALID, so no lookup returns it.            *)
ExclusiveClaim ==
  \A w \in Workers : wk[w].slot # NoSlot =>
    /\ Owner(wk[w].slot) = {w}
    /\ ~Valid(block_map, wk[w].slot)

(* A slot is POPULATING only while a population that marked it will unmark   *)
(* it: no failure path forgets the flag, which no eviction would ever clear. *)
PopulatingOwned ==
  \A s \in Slots : Populating(block_map, s) =>
    \E w \in Owner(s) : wk[w].pc \in Holding \ {"mark"}

(* Whenever an entry is VALID the SSD holds the whole data of the block the  *)
(* entry names: entries are published after the write and invalidated before *)
(* the next one, in every interleaving and after every failed write.         *)
ValidMatchesSsd ==
  \A s \in Slots : Valid(block_map, s) => ssd[s].blk = block_map[s].source_lba

(* A read that fell back to the source disk, also half way through serving   *)
(* from the SSD, returns for every block the requested block, no older than  *)
(* when the request arrived.                                                 *)
HddReadsFresh ==
  \A r \in Readers : rd[r].from = "hdd" =>
    \A b \in rd[r].lo .. rd[r].hi :
      rd[r].buf[b].blk = b /\ rd[r].buf[b].ver >= rd[r].since[b]

(* A VALID PINNED entry survives every eviction and population unchanged.    *)
PinnedStays ==
  [][\A s \in Slots : Valid(block_map, s) /\ Pinned(block_map, s) =>
       /\ Valid(block_map', s) /\ Pinned(block_map', s)
       /\ block_map'[s].source_lba = block_map[s].source_lba]_vars

(* An eviction brings the clock hand strictly closer to every block it       *)
(* leaves cached without a reference bit: none is passed over, so a block    *)
(* nobody reads is evicted within N evictions.                               *)
HandAdvances ==
  [][cached_block_count' < cached_block_count =>
       \A s \in Unreferenced(block_map) : Valid(block_map', s) =>
         Dist(lru_scan_cursor', s) < Dist(lru_scan_cursor, s)]_vars

(* The slots as SlotPool sees them.  content is what the SSD really holds,   *)
(* not what block_map says it does.                                          *)
Pool == INSTANCE SlotPool WITH
  content <- [s \in Slots |-> IF Valid(block_map, s) THEN ssd[s].blk ELSE NoBlock],
  held    <- [w \in Workers |-> wk[w].slot]

(* The session implements the abstract slot protocol. *)
ImplementsPool == Pool!PoolSpec

(* Every request delivered to the driver is completed.                       *)
ReadCompletes == \A r \in Readers : rd[r].pc = "check" ~> rd[r].pc = "done"

(* Every slot marked POPULATING is eventually unmarked, published or not.    *)
PopulatingEnds ==
  \A s \in Slots : Populating(block_map, s) ~> ~Populating(block_map, s)

-----------------------------------------------------------------------------
(* What comments of the code say, refuted by the violation runs *)

(* io.c:172 says of a block that disappears between the lookup and the SSD   *)
(* read that the race is handled: no block would be served as another one.   *)
(* (That a slot may be read half written is left aside here.)                *)
ServedDataIsRequested ==
  \A r \in Readers : rd[r].from = "ssd" =>
    \A b \in rd[r].lo .. rd[r].hi : rd[r].buf[b].blk \in {b, NoBlock}

(* README.md:3 calls the cache transparent and README.md:16 says that writes *)
(* pass through untouched: a read would return what the disk held when the   *)
(* request arrived, or newer.                                                *)
ReadsAreFresh ==
  \A r \in Readers : rd[r].from = "ssd" =>
    \A b \in rd[r].lo .. rd[r].hi :
      rd[r].buf[b].blk = b => rd[r].buf[b].ver >= rd[r].since[b]

(* cache.c:24 and cache.c:72: a population that needs a slot finds an empty  *)
(* one or evicts one; cache.c:86: it gives up only if the cache is full.     *)
Empty == {s \in Slots : Vacant(block_map, s) /\ Owner(s) = {}}

EmptySlotsAreUsed ==
  [][\A w \in Workers :
       wk[w].pc = "select" /\ wk'[w].pc = "idle" => Empty = {}]_vars

=============================================================================
