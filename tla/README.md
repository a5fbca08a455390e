# A verified model of WinCache

WinCache is a Windows disk filter driver that caches the blocks of a slow disk
on a partition of an SSD. This directory holds TLA+ modules that model the
driver, the TLC configurations that check them, and proofs that TLAPS checks.
Paths such as `io.c:169` are under `src/driver/` unless they say otherwise.

## 1. Inventory of the system

| Component | Source | State | Operations |
|---|---|---|---|
| Block map and lookup | `cache.c`, `cache.h`, `protocol.h` | `block_map[total_cache_blocks]` (block, flags, last access), `cached_block_count`, under `block_map_lock` | `CacheLookup` |
| CLOCK eviction | `lru.c` | `lru_scan_cursor` | `LruClockFindVictim`, `LruClockResetCursor` |
| Read path | `io.c` | the requests in progress | `CacheFilterEvtIoRead` and all it calls, the completion routine, `CacheFilterEvtIoWrite` |
| Population | `cache.c` | the work items in flight | `CachePopulateAsync`, `CachePopulateWorkItemRoutine` |
| Rate limit | `cache.c`, `stats.c` | `populations_queued`, `populations_completed`, one `IO_WORKITEM` | the test in `CachePopulateAsync`, the reset of the counters |
| Persistent index | `index.c` | the index region of the partition, at byte 512 | `IndexLoadFromSsd`, `IndexFlushToSsd` |
| Attach, detach, cleanup | `attach.c`, `ioctl.c`, `cacheflt.c` | `caching_active`, the file object, the work items | attach, detach, `CacheFilterEvtDeviceContextCleanup` |
| Control requests | `cacheflt.c`, `ioctl.c` | none of their own | dispatch, the handlers |
| Device list | `cacheflt.c` | `g_cache_disk_list`, one link per context | add, failed add, lookup, removal |
| Superblock and layout | `superblock.c`, `attach.c` | sector 0 of the partition; `block_size` and `total_cache_blocks` of the context | read at each access, the geometry an attach takes over (write and initialize have no caller) |
| Statistics | `stats.c`, `ioctl.c` | eight interlocked counters | record, get, reset |
| Driver entry and unload | `cacheflt.c` | the control device | create, delete |
| Manager | `src/manager/main.c` | none | one control request per run |

How they interact:

* KMDF delivers reads and writes from a *parallel* queue (`cacheflt.c:414`):
  `CacheFilterEvtIoRead` runs on several processors at once.
* A read looks its blocks up twice, once to decide (`IsRangeFullyCached`) and
  once to serve (`ServeReadFromSsdCache`). Each lookup is a critical section of
  `block_map_lock`; the SSD is read without it.
* A read that is not served goes to the source disk. Its completion routine
  calls `CachePopulateAsync` for each block, which queues a work item.
* A work item looks its block up, selects a victim and marks it POPULATING
  (three critical sections), reads the source disk and writes the SSD (no
  lock), and publishes or unmarks the slot (a fourth critical section).
* Attach, detach and flush come through a WDM control device that serializes
  nothing. They test `caching_active` without a lock.
* The map reaches the SSD only by a flush, a detach or the device cleanup; data
  blocks are overwritten in place in between.

What is hard here: the interleavings of readers and populations between the
critical sections; failures in the middle of a population; the arithmetic of
unaligned requests and of the wrapping clock hand; counters read at different
moments; a crash between two flushes; and control requests that overlap with
everything else. `PROJECT.json` lists each of these hazards at its line.

What makes each component correct: the lookup finds what is cached and returns
only VALID entries; the scan evicts neither pinned nor claimed slots, and passes
over nobody; a read returns the requested blocks; a population owns its slot
alone and always gives it up; the limit bounds what is in flight; a loaded index
tells the truth; no write to the partition reaches another region of it;
resources are released once and not while they are in use; the device list holds
the disks that are present; the counters of the statistics agree with each other.

## 2. Modules

| Module | What it models |
|---|---|
| `BlockMap` | The map and the operators that run under `block_map_lock`, as values before and after. |
| `ReadCache` | One attach session: readers, populations, writes, both disks. |
| `SlotPool` | The abstract promise of `ReadCache`: slots are taken over, and given back, by one population at a time. |
| `MapLoops` | The loops of `CacheLookup` and `LruClockFindVictim`, which `BlockMap` has as one step each. |
| `Partition` | The cache partition byte by byte: superblock, index and data regions, and the geometry that attaches, populations and flushes use. |
| `RangeLoop` | `Partition` with one read request: the three loops that cut its byte range into blocks, which `ReadCache` has as `lo`, `hi` and `chk`, from the bytes of the partition to those of the output buffer. |
| `PopulateThrottle` | The rate limit, which `ReadCache` has as the choice to refuse, and the reset of its counters. |
| `Statistics` | The other counters: record, get and reset, counter by counter. |
| `Restart` | `ReadCache` over several sessions, with the index region and crashes. |
| `DeviceList` | The links of `g_cache_disk_list` under add, failed add, removal and lookup of several disks. |
| `Lifecycle` | `DeviceList` with the resources of one context under attach, detach, flush, cleanup and their users. |
| `MCReadCache`, `MCRestart`, `MCPopulateThrottle`, `MCLifecycle` | Instances of the modules they are named after. |
| `MCLoops`, `MCControl` | Instances of several modules that share no state (`MapLoops` and `RangeLoop`; `Lifecycle`, `PopulateThrottle` and `Statistics`), side by side: the variable `side` says of which of them a behaviour is, and the others stand still. |
| `BlockMapProofs`, `ReadCacheProofs`, `RestartProofs`, `MapLoopsProofs`, `RangeLoopProofs`, `PopulateThrottleProofs`, `StatisticsProofs`, `LifecycleProofs` | The proofs, each of the module it is named after; `RangeLoopProofs` is also about `Partition`, `LifecycleProofs` also about `DeviceList`. |

### How ReadCache corresponds to the code

A reader `rd[r]` is one read request, with the local variables of the read
handler; its `pc` says where it is: `check` in `IsRangeFullyCached`, `serve` and
`ssd` in `ServeReadFromSsdCache`, `hdd` in `CacheFilterForwardRead`, `fill` in
the completion routine. A worker `wk[w]` is one run of
`CachePopulateWorkItemRoutine`. An action is one critical section, one I/O, or
one step on local state. The write to the SSD is two actions (`StoreBegin`, then
`StoreEnd` or `StoreFail`), so that others run while the slot holds neither the
old block nor the new one.

The content of a block is the record `[blk, ver]`: whose block it is and how
many writes the source disk had received for it. `hdd[b]` counts the writes;
`ssd[s]` is what the SSD holds in slot `s`; the map is only what the driver
believes. `HostWrite` may happen at any time; it stands for the write as the
disk executes it.

`source_lba` is a block number (the driver only stores aligned offsets, and
every product and quotient by `block_size` cancels). `access_count` and the
statistics that nothing reads are left out. The NULL tests of `block_map` and the
tests of `caching_active` cannot fail within a session; `Lifecycle` has them.

### How the other modules correspond to the code

`Partition` gives every byte of the source disk and of the partition a value, so
that a write at a wrong offset or of a wrong length shows. `sb` is sector 0 as
`SuperblockInitialize` would have laid it out, `part` all the bytes; a population
and a flush are one step each, with the offsets and lengths of the code
(`superblock.c:172`, `index.c:55`, `index.c:166`, `cache.c:215`).

`DeviceList` has `Flink` and `Blink` of every entry; `order` is a history
variable, the list as it should be, from which a removal takes the one place of
the disk that goes. In `Lifecycle`, `ctx` are the pointers of one
context and `live` the objects that are allocated, so that what is freed and what
is pointed to are separate. `call[t]` is the control request or cleanup a thread
executes, one action per allocation, per free and per pointer set to NULL.

`Statistics` keeps, for each call of `StatsRecordHit`, `StatsRecordMiss`,
`ResetStats` and `GetStats`, the list of the counters it still has to touch, in
the order of the code; an action touches one.

### External assumptions

These are not under `src/` and are modelled from the driver's use of them:

* `ZwReadFile`, `ZwWriteFile` and `IoCallDriver` succeed or fail; a failed
  write leaves the slot with the new data or with that of no block.
* A forwarded request is completed by the framework, and its completion routine
  runs, as `io.c:309` and `io.c:323` say of send-and-forget.
* `InsertTailList` and `RemoveEntryList` check the neighbours of the entry and
  stop the system if they do not point to it, as those of the WDK do.
* A read or write beyond the end of the source disk or of the partition fails.
  Alignment that a raw volume asks of offsets and lengths is left out, as is that
  `ZwReadFile` and `ZwWriteFile` are given a file object where they take a
  handle: they are modelled as the code means them.
* Every item given to `IoQueueWorkItem` runs its routine, also if it is queued
  while it is queued, which the kernel does not promise (section 4).
* KMDF cleans up a device after the requests of its queue are completed, and
  knows nothing of the work items.
* Memory that was freed is not given a meaning: `Lifecycle` says when a use
  happens, not what it does.

## 3. Runs

Runs that pass:

| Run | Shows | Bounds |
|---|---|---|
| `core_safety` | type, count, exclusive claims, owned flags, VALID entries true to the SSD, pins, the progress of the hand, refinement of `SlotPool` | 3 slots, 2 probes, 3 blocks, 1 reader, 2 populations |
| `core_reads` | a read that falls back returns fresh, whole data; requests complete; POPULATING ends | 2 slots, 1 reader with up to 2 blocks, 1 population, 1 write per block, ticks 0..1 |
| `loops`, over the map | the lookup computes `IsHit`, `IsMiss`, `Touched`; the scan computes `IsVictim`, `Evicted` | every map of 3 slots, 3 blocks of which two collide; every hand, times 0..2 |
| `loops`, over a request | copy, check and fill visit the right bytes and blocks, end to end: the bytes that are served are those of the source disk; data, index and superblock stay apart under any sequence of attaches with other block sizes, populations and flushes; the 32-bit size of the index cuts the map short only from 2^32 bytes on | every offset and length on a disk of 11 bytes, blocks of 2, 3 and 4; sectors of 4 bytes, a partition of 24, entries of 3, and 16 for 2^32 |
| `control`, the context | non-overlapping calls leak no map and no partition, free nothing twice, and leave at most one pair of work items per detach; the device list is exact; only the listing or removal of a disk whose own add failed is stopped by the check of the list; a disk gets the partition of a younger disk only | 1 control thread, the PnP manager, 1 request, 3 disks, at most 3 live objects of a kind |
| `control`, the limit | the limit on stale counters, and what a reset hides from it | 2 callers, limit 1, 4 populations, 2 resets that may overlap |
| `control`, the statistics | hits and misses cover the reads in every snapshot, and exceed them by little after a reset that ran beside them | 2 readers, 4 records, 2 resets, any number of snapshots |
| `restart` | without a fault, the index and the loaded map tell the truth and hold no orphaned flag; with one, the count is still exact and slots left POPULATING stay out of use | 2 slots, any number of sessions, 1 crash or failed flush, of which any part of the index may be written |

Runs that show the code to disagree with a comment or a document:

| Run | What the code does | What is said |
|---|---|---|
| `wrong_block_served` | the slot is evicted and overwritten between lookup and SSD read; another block is returned | `io.c:172` |
| `empty_slots_unused` | slots that failed populations left empty are passed over, and a population gives up | `cache.c:24`, `:72`, `:86` |
| `stale_read` | a write leaves the cached copy VALID | `src/README.md:3`, `:16` |
| `limit_leaks` | populations that give up count as in flight for ever | `cache.c:388` |
| `crash_stale_index` | after a crash, VALID entries name data that is gone | `protocol.h:34` |
| `detach_in_use` | the map is freed while caching is active and a request uses it | `attach.c:7` |
| `work_items_leak` | a detach leaves both work items allocated | `attach.c:7`, `:236` |

### Why the bounds are enough

* Three slots let the hand wrap, and let a victim lie before, at and after it.
  Two probes of three slots leave a slot outside the window. Blocks that prefer
  the same slot occur in `loops`, where it matters: `ReadCache` itself only
  asks whether a lookup hits.
* The two starting maps of `core_safety` have an empty slot, a block that is not
  cached, a pinned and a referenced entry, so that skip, second chance, fallback
  and "no victim" all happen. Equal and different times of access are enumerated
  in `loops`.
* Two populations make every race of claims; a third would only repeat one of
  them. What is proved in section 6 does not depend on the number.
* A reader takes no part in the slot protocol but for setting reference bits; one
  is enough for safety, and `core_reads` gives it a request of two blocks, so
  that serving can fail in the middle. `wrong_block_served` has two.
* 11 bytes in blocks of 2 to 4 have requests inside a block, across several
  boundaries, and with both ends unaligned; the disk ends inside a block. The
  partition holds geometries whose index ends inside a sector, whose index is cut
  by the 16 values of a word, and whose last slot lies beyond its end.
* With a limit of 1 and two callers at most three populations are outstanding,
  one less than the bound on those that are queued; each caller can act on
  counters read before the other counted. Two resets may be in progress at once.
  `limit_leaks` has three callers.
* Three disks give the list a first, a middle and a last entry. Three live
  objects of a kind are one in use and two that detaches forgot; the third detach
  is cut off by the bound.
* Two readers and four records let hits happen between any two counters of a
  snapshot or of a reset, and exceed the number of readers.
* `MaxVer`, `MaxTick`, `MaxQueued`, `MaxResets`, `MaxRecords`, `MaxStatsResets`,
  `MaxLive` and `MaxFaults` bound counters that grow without end; each occurs in
  the guard of the action that counts.

`CHECK_DEADLOCK` is off where the modelled program ends: the loops return, and
the check of the device list stops the system.

### Fairness

`FairSpec` assumes weak fairness of each reader and each worker as a whole: a
processor eventually runs a thread that can run, every I/O is answered, and the
system worker threads run every item. That suffices because no step of the
driver waits for another actor but for the spin lock, which every holder
releases in the same action. Nothing is assumed about the outcome of an I/O, the
arrival of requests, the clock, or host writes.

## 4. Other behaviour of the code that the models have

The modules follow the code where it does less than its comments say. These
behaviours are reachable in them beside those that the runs of section 3 show; no
property of a passing run claims the opposite, and none demands them.

* An empty slot is never chosen by the scan (`lru.c:64`; run
  `empty_slots_unused`). A cache that starts empty stays empty, so the runs start
  from maps that hold entries (`Loaded`).
* The victim may lie outside the slots that the block's lookup probes
  (`cache.c:84`, `src/README.md:156`): the block is cached and not found.
* Two populations of one block may cache it twice (`cache.c:75`), since a slot
  being populated does not say for which block.
* The range check misses the last block of an unaligned request (`io.c:91`,
  `io.c:78`). It does no harm: the second lookup misses and the request falls
  back. `CheckedButLast` is what does hold, and `ReadArrive` lets the check of
  `ReadCache` end one block early.
* The limit lets `Limit + 1` populations through by its comparison
  (`cache.c:408`), and one more for each concurrent caller.
  `OutstandingBounded` is the exact bound.
* The one `IO_WORKITEM` is queued again while it is queued (`cache.c:431`);
  `populate_in_progress` (`cache.h:47`) is never used.
* A flush during a population persists POPULATING (`index.c:166`). Module
  `Restart` shows that a clean session clears it from the index, and a crash
  does not.
* The block size of an attach request is validated and then replaced by the
  superblock's (`attach.c:145`); the superblock's `index_offset` is ignored for a
  fixed 512. `DataIntact` says that this does no harm. A map of 2^32 bytes or more
  is read beyond its allocation (`index.c:55`); `MapAllocated` says that nothing
  smaller is. The `cachectl init-cache` of `src/README.md:115`, which would lay a
  partition out, does not exist.
* The lookup of a context ignores the name (`cacheflt.c:323`): every request
  reaches the disk that was added first. With the serial never compared
  (`attach.c:145`), that disk may be attached to a partition with another disk's
  blocks; `OnlyYoungersPartition` is what is left.
* A device add that fails after the context was listed is removed twice
  (`cacheflt.c:431`, `:462`), and the check of the second removal stops the
  system: `HaltsAfterFailedAdd` says that the check stops nothing else.
* Each detach leaks both work items (`ioctl.c:166`; run `work_items_leak`);
  `AtMostOneLeakPerDetach` says that nothing else does.
* An attach that fails frees what it took without testing the pointers
  (`attach.c:187`), which another call may have set to NULL. `FreedOnce` says that
  this needs calls that overlap; what a release of NULL does is not modelled.
* A slot may be read while it is half written (`io.c:169`), which
  `ServedDataIsRequested` leaves aside to show the plainer case.
* A reset of the statistics hides from the limit what is in flight
  (`ioctl.c:233`), and between its two steps the limit lets further populations
  through, as many as had completed. `ResetHidesAtMost` is the bound. It also
  undoes the drift that `limit_leaks` shows.
* The hit rate may be over 100 percent, in a snapshot that hits overtake
  (`ioctl.c:200`) and during a reset; `SnapshotCoversReads` and `ResetKeepsTotal`
  bound the two. A read that is served in part and then falls back counts as hits
  and as a miss (`io.c:203`, `io.c:315`).
* The last block of a disk whose size is no multiple of the block size cannot be
  populated (`cache.c:172`), and each attempt empties a slot for the session.
* Two attaches may run at once (`ioctl.c:135`), and a control request or a
  population may work on a context that is being torn down (`cacheflt.c:461`). The properties of `Lifecycle` on the
  resources are therefore about calls that do not overlap, and about the
  partition and the map.

## 5. Refinement

`ReadCache` implements `SlotPool` under the mapping
`content[s] = ssd[s].blk` if the entry is VALID, else none, and
`held[w] = wk[w].slot`. The mapping takes the content from the SSD and not from
the map. The refinement therefore says more than the invariants: a slot that may
be served has data of one block, that data never changes while the entry stays
VALID, and only the population that took the slot decides what follows.

## 6. Proofs

Every invariant and every action property that a run checks is proved, for every
value of the constants that the named assumptions allow. Liveness is not.

### A session of the cache (`ReadCacheProofs`)

For every number of slots, probes, blocks, readers and (finitely many)
populations, and every set of loaded maps without POPULATING entries:

| Theorem | Property |
|---|---|
| `TypeCorrect` | `TypeOK` |
| `CountIsExact` | `CountExact` |
| `ClaimsAreExclusive` | `ExclusiveClaim` |
| `PopulatingHasOwner` | `PopulatingOwned` |
| `ValidEntriesMatch` | `ValidMatchesSsd` |
| `PinnedEntriesStay` | `PinnedStays` |
| `HandNeverSkips` | `HandAdvances` |
| `ImplementsSlotPool` | `ImplementsPool` |
| `FallbackReadsFresh` | `HddReadsFresh` |

None of the invariants is inductive alone. `ExclusiveClaim` needs to know that an
eviction chooses a VALID slot, which no population holds, and that a worker holds
a slot exactly in the states of `Holding`. `PopulatingOwned` needs that a marked
slot is held by one worker only, or another's publication would unmark it.
`ValidMatchesSsd` needs, besides the exclusive claim, that a worker in `publish`
has its block's data in its slot: then publishing makes a true entry, and no
write of another worker can have touched it. `IndInv` is the conjunction of
these, in two parts: `CoreInv` holds whatever map is loaded, `MapInv`
(`PopulatingOwned` and `ValidMatchesSsd`) only if the loaded map has it. Theorem
`Invariance` proves it, with one step for each action; the action properties and
the refinement follow from it step by step. `HandAdvances` rests on lemmas about
`Dist`, the distance of a slot from the hand modulo `N`.

`HddReadsFresh` has an invariant of its own, `FreshInv`. It says of a reader at
any stage that what it noted of the disk on arrival is not ahead of the disk, and
that once it has read from the source disk it has every block of its request from
there, as new as on its arrival or newer, whatever the SSD had put into its buffer
before.

### Sessions, one after another (`RestartProofs`)

| Theorem | Property |
|---|---|
| `CountIsExactInSessions` | `CountExact` |
| `CleanMapsMatch` | `CleanMapMatchesSsd` |
| `CleanMapsOwned` | `CleanMapIsOwned` |
| `OrphansStay` | `OrphansUntouched` |

`SessionsInv` keeps `CoreInv` in every session, whatever a crash or a failed flush
left in the index (`TornIsMap`), and `MapInv` as long as nothing failed. What carries `MapInv` from one
session to the next is `IndexInv`: without a session, what the index says is VALID
is in its slot, and nothing is POPULATING. A flush in the middle of a session
may break `IndexInv`; the end of the session restores it, since the index is
written when no population is in progress. `OrphansUntouched` uses `CoreInv` only:
no scan chooses a POPULATING slot and no lookup returns one, and a population
changes only the slot it holds.

### The loops over the map (`MapLoopsProofs`)

| Theorem | Property |
|---|---|
| `LookupFindsHit` | `ReturnsHit` |
| `LookupMissIsMiss` | `ReturnsMiss` |
| `ScanTakesVictim` | `ReturnsVictim` |
| `ScanFailsOnlyIfNone` | `ReturnsNone` |

The loop invariants are those one would write beside the code. Of the lookup:
none of the probes so far matches or ends the chain (`ChainTo`). Of the scan:
`Seen(k)` are the candidates less than `k` places from the hand; all of them were
referenced and have lost their bit (`ClearedTo`), and the locals hold the oldest
of them, the last of those equally old (`OldestOf`). That the hand meets every
slot once in `N` steps, the slot `s` at step `Dist` (`HandMeets`), turns the
counter of the loop into the distances `BlockMap` speaks of.

### The layout and the loops over a request (`RangeLoopProofs`)

For every block size, geometry, disk and partition, whatever sizes attaches ask
for, and every offset and length:

| Theorem | Property |
|---|---|
| `DataStaysIntact` | `DataIntact` |
| `MetadataStaysIntact` | `MetadataIntact` |
| `MapIsAllocated` | `MapAllocated` |
| `CopyIsPrefix` | `CopiedPrefix` |
| `ServesWhole` | `ServedWhole` |
| `ChecksButLast` | `CheckedButLast` |
| `FillsWhole` | `FilledWhole` |

`PartitionInv` says that an attached context has the geometry of its partition
(`GeometryInv`), that the slot of each entry has the bytes of its block, also while
nothing is attached (`DataInv`), and that the bytes of superblock and index are
theirs (`MetadataInv`). It is kept because the regions and the slots do not
overlap (`RegionsApart`, `SlotsApart`, `SlotsBehind`), which rests on the rounding
of `SuperblockInitialize`. The invariants of the three loops (`CheckInv`,
`ServeInv`, `FillInv`) give the blocks seen so far as those up to the quotient of
the loop's address, and say where the address may be: at the check anywhere, less
than a block behind the end; at the copy at the start of a block but in the first
and the last round; at the fill always at the start of one. The arithmetic is in a
few lemmas on quotients (`QuotientIs`, `QuotientStep`, `BlockBefore`).

### The rate limit (`PopulateThrottleProofs`)

For every limit and every finite set of callers:

| Theorem | Property |
|---|---|
| `ThrottleTypeCorrect` | `TypeOK` |
| `OutstandingCovers` | `OutstandingCoversInFlight` |
| `StalePermitsHolds` | `StalePermits` |
| `LimitHolds` | `OutstandingBounded` |
| `ResetHides` | `ResetHidesAtMost` |

`OutstandingBounded` is not inductive, since a caller may act on readings of
any age. `StalePermits` is the strengthening: above the limit, each further
population uses up one caller that read a smaller value of
`populations_queued`, and a caller loses its reading when it counts. It needs
that `populations_completed` only grows, so a stale reading of it refuses too
much and never too little; the first reset ends that, and the three properties
with it. `ResetHidesAtMost` takes over: a reset makes it an equation, whatever
the earlier resets left, and the second step of a reset keeps it because
`populations_completed` has not fallen since the first (`Discipline`).

### The statistics (`StatisticsProofs`)

For every finite set of recorders:

| Theorem | Property |
|---|---|
| `ResetBounded` | `ResetKeepsTotal` |
| `SnapshotsCover` | `SnapshotCoversReads` |

Both hold because every loop over the counters goes in the same order,
`total_reads` first. Neither is inductive: what a reset or a snapshot owes
depends on how far it is. `Balanced` says what the counters owe each other at
each stage of a reset (after `total_reads` is cleared, nothing; once the hits
are cleared too, no more hits than reads and recorders; at its end, the same of
hits and misses together), and `Overtaken` what a snapshot may still miss at
each stage of its reading. `Between` counts the recorders that have counted
their read and not yet its hit or miss.

### The device list and the resources of a context (`LifecycleProofs`)

For every set of disks and of control threads:

| Theorem | Property |
|---|---|
| `ListIsExact` | `ListExact` |
| `HaltNeedsFailedAdd` | `HaltsAfterFailedAdd` |
| `PartitionOfYounger` | `OnlyYoungersPartition` |
| `NothingFreedTwice` | `FreedOnce` |
| `ResourcesAreExact` | `ResourcesMatchActive` |
| `DetachLeaksAtMostOne` | `AtMostOneLeakPerDetach` |

The list. `ListInv` says that, until the system stops, the links of `order` and
the head form one ring (`Ring`), and that the disks on it are those that were
linked and not removed. An entry of a failed add that is removed a second time is
not on the ring: its neighbours no longer point to it, and the check stops the
system. `haltedBy` records whose listing or removal that was.

The partition. `Younger` is `OnlyYoungersPartition` said of a disk and kept for the
disk a control request named, from the moment the lookup returned this context:
then this context was the first of the list, and everybody else comes after it.

The resources. As long as calls do not overlap there is one call, and
`ResourceInv` is its account. `CallShape` says which stages there are; `Holds`,
which objects the call and the context hold at each of them; `Accounts`, that a
file or map is allocated exactly if it is held, and that the work items are that
one and one for each detach, from which the upper bound follows; `Pointers`, that a pointer is to a live object except
between the free and the assignment of NULL; `Remains`, that of a context that is
gone only what its cleanup has yet to release is left. A step of the call changes
`Holds` and the objects together, so the account stays balanced.

### Assumptions, and what is only model-checked

The assumptions are those named in the modules: `NAssumption`,
`ProbeAssumption`, `BlocksAssumption`, `LoadedAssumption`, `BoundsAssumption`,
`WorkersAssumption`, `FaultsAssumption`, `MapsAssumption`, `NowAssumption`,
`UnitAssumption`, `GeometryAssumption`, `SizeAssumption`, `RoutinesAssumption`,
`LimitAssumption`, `ResetsAssumption`, `RecordersAssumption`, `HeadAssumption`,
`DiskAssumption`, `RemoverAssumption`, `BoundAssumption`. They say that the
parameters are numbers and finite sets of the right kind, and that names which
stand for different things differ. The bounds on counters are parameters like
the others, so that what is proved holds for every bound.

TLC has checked each inductive invariant on the instance of its run before it was
proved.

Only model-checked: liveness (`ReadCompletes`, `PopulatingEnds`), since fairness
and ENABLED are out of the prover's reach, and the runs that refute a comment,
whose counterexamples are behaviours of small instances.

## 7. Not modelled

* **Contexts of several disks at once**: `DeviceList` has all disks, `Lifecycle`
  the resources of one. Each context is its own.
* `evictions`, the bytes and the counts of blocks in `GetStats` and `GetConfig`:
  nothing is computed from them.
* **`IOCTL_CACHE_PRELOAD_RANGE`** is not implemented in the code;
  `CacheDetachFromDisk`, `CacheMarkAccessed`, `SuperblockWrite`,
  `SuperblockInitialize` and `CacheFilterServiceFromCache` have no caller (what
  `SuperblockInitialize` computes is the initial state of `Partition`).
* **Driver entry and unload, the manager, the scripts**: sequential, with no
  state that outlives a call. That `DriverEntry` sets the dispatch routines of
  every device, the filtered disks' too (`cacheflt.c:114`), is a matter between
  the framework and the driver that no state of the driver reflects.
* **Ranking of entries over a restart**: `last_access` is a tick count of an
  earlier boot (`index.c:91`). It decides what is evicted, not what is served.
* The IRQL rules of the kernel (for one, that `ZwWriteFile` is called with a spin
  lock held, `index.c:162`).
* `dirty_shutdown` and `source_disk_serial`, which no code reads.

## 8. Plan

The most important behaviour, the slot protocol of readers and populations, came
first. Done: `BlockMap`, `ReadCache` with `SlotPool`, `MapLoops`, `Partition` with
`RangeLoop`, `PopulateThrottle`, `Statistics`, `Restart`, `DeviceList` with
`Lifecycle`; and the proofs of all their invariants and action properties.

What is left: that the sessions of `Restart` implement `SlotPool` too while
nothing failed, one session at a time; and type correctness of the modules whose
inductive invariant has it only inside.
