--------------------------- MODULE ReadCacheProofs ---------------------------
(***************************************************************************)
(* Proofs about ReadCache for every number of slots, blocks, readers and   *)
(* workers.  IndInv is the inductive invariant: the protocol invariants of *)
(* ReadCache and what they need of the program counters.                   *)
(***************************************************************************)
EXTENDS ReadCache, BlockMapProofs, FiniteSetTheorems

(* A reader past its arrival has a request; its loop variable stays near it. *)
Shaped(x) ==
  x.pc # "idle" =>
    /\ x.lo \in Blocks /\ x.hi \in Blocks /\ x.chk \in Blocks
    /\ x.chk <= x.hi
    /\ x.lo .. x.hi \subseteq Blocks
    /\ x.lo <= x.cur
    /\ x.pc = "ssd" => x.slot \in Slots

ReaderShape == \A r \in Readers : Shaped(rd[r])

(* A worker has a block from the queue on, a slot from the eviction on, and  *)
(* data for that block from the source read on.                              *)
WellHeld(x) ==
  /\ x.pc # "idle" => x.blk \in Blocks
  /\ x.slot # NoSlot <=> x.pc \in Holding
  /\ x.pc \in {"store", "storing", "publish"} => x.data.blk = x.blk

WorkerShape == \A w \in Workers : WellHeld(wk[w])

(* What a worker is about to publish is on the SSD. *)
StoredData ==
  \A w \in Workers : wk[w].pc = "publish" => ssd[wk[w].slot].blk = wk[w].blk

(* What every session keeps, whatever map it has loaded. *)
CoreInv ==
  /\ TypeOK
  /\ ReaderShape
  /\ WorkerShape
  /\ ExclusiveClaim
  /\ StoredData
  /\ CountExact

(* What it keeps if the loaded map has it. *)
MapInv == PopulatingOwned /\ ValidMatchesSsd

IndInv == CoreInv /\ MapInv

-----------------------------------------------------------------------------
(* The steps of a reader, as the rest of the system sees them: at most the   *)
(* reference bits of the map change, and at most one work item is queued.    *)
ReaderEffect ==
  /\ block_map' \in Maps
  /\ SameEntries(block_map, block_map')
  /\ UNCHANGED <<cached_block_count, lru_scan_cursor, tick, ssd, hdd>>
  /\ \/ wk' = wk
     \/ \E w \in Workers, b \in Blocks :
          /\ wk[w].pc = "idle"
          /\ wk' = [wk EXCEPT ![w] = [IdleWorker EXCEPT !.pc = "queued", !.blk = b]]

LEMMA ReaderStepEffect ==
  ASSUME TypeOK, ReaderShape, NEW r \in Readers, ReadArrive(r) \/ ReadStep(r)
  PROVE  ReaderEffect
<1> USE DEF TypeOK, Maps
<1>0. /\ block_map \in Maps /\ tick \in Nat
      /\ SameEntries(block_map, block_map)
  BY DEF SameEntries
<1>1. CASE block_map' = block_map /\ wk' = wk /\ UNCHANGED <<cached_block_count, lru_scan_cursor, tick, disks>>
  BY <1>0, <1>1 DEF ReaderEffect, disks
<1>2. CASE CheckHit(r) \/ ServeHit(r)
  <2>1. PICK s \in Slots : block_map' = Touched(block_map, s, tick)
    BY <1>2 DEF CheckHit, ServeHit
  <2> QED
    BY <1>0, <1>2, <2>1, TouchedEntries DEF ReaderEffect, CheckHit, ServeHit, disks
<1>3. CASE \E w \in Workers : FillQueue(r, w)
  <2>1. PICK w \in Workers : FillQueue(r, w)
    BY <1>3
  <2>2. rd[r].cur \in Blocks
    BY <2>1 DEF FillQueue, ReaderShape, Shaped, Reader, BlockIds
  <2> QED
    BY <1>0, <2>1, <2>2 DEF FillQueue, ReaderEffect, disks, shared
<1> QED
  BY <1>1, <1>2, <1>3
  DEF ReadStep, ReadArrive, CheckMiss, ServeBegin, ServeNoBuffer, ServeMiss, SsdReadOk,
      SsdReadFail, ServeEnd, HddReadOk, HddReadFail, FillRefused, FillEnd, ReadComplete,
      shared, disks

(* A reader between two requests. *)
LEMMA IdleReaderType == IdleReader \in Reader
BY DEF IdleReader, Reader, ReaderPc, BlockIds, NoBlock, Junk, Data

(* The bounds of a request are numbers. *)
LEMMA RequestBounds ==
  ASSUME NEW x \in Reader, Shaped(x), x.pc # "idle"
  PROVE  x.lo \in Int /\ x.cur \in Int /\ x.lo <= x.lo /\ x.lo <= x.cur /\ x.lo <= x.cur + 1
<1>1. x.lo \in Nat
  BY BlocksAssumption DEF Shaped
<1>2. x.cur \in Int /\ x.lo <= x.cur
  BY DEF Shaped, Reader
<1> QED
  BY <1>1, <1>2

(* The changes a step makes to a request in progress. *)
LEMMA RequestChanges ==
  ASSUME NEW x \in Reader, Shaped(x), x.pc # "idle",
         NEW c \in Int, x.lo <= c, NEW g \in [Blocks -> Data], NEW s \in Slots,
         NEW f \in {"ssd", "hdd", "error"}
  PROVE  /\ [x EXCEPT !.cur = c] \in Reader
         /\ x.pc # "ssd" => Shaped([x EXCEPT !.cur = c])
         /\ \A p \in ReaderPc \ {"idle", "ssd"} :
              [x EXCEPT !.pc = p] \in Reader /\ Shaped([x EXCEPT !.pc = p])
         /\ LET y == [x EXCEPT !.pc = "done", !.from = f]
            IN  y \in Reader /\ Shaped(y)
         /\ LET y == [x EXCEPT !.pc = "serve", !.cur = c]
            IN  y \in Reader /\ Shaped(y)
         /\ LET y == [x EXCEPT !.pc = "hdd", !.slot = NoSlot]
            IN  y \in Reader /\ Shaped(y)
         /\ LET y == [x EXCEPT !.pc = "ssd", !.slot = s]
            IN  y \in Reader /\ Shaped(y)
         /\ LET y == [x EXCEPT !.pc = "serve", !.cur = c, !.slot = NoSlot, !.buf = g]
            IN  y \in Reader /\ Shaped(y)
         /\ LET y == [x EXCEPT !.pc = "fill", !.cur = c, !.from = "hdd", !.buf = g]
            IN  y \in Reader /\ Shaped(y)
BY DEF Shaped, Reader, ReaderPc

(* The local state of a reader stays well formed. *)
LEMMA ReaderStepLocal ==
  ASSUME TypeOK, ReaderShape, NEW r \in Readers, ReadArrive(r) \/ ReadStep(r)
  PROVE  rd' \in [Readers -> Reader] /\ ReaderShape'
<1>0. /\ rd \in [Readers -> Reader] /\ rd[r] \in Reader /\ Shaped(rd[r])
      /\ ssd \in [Slots -> Data] /\ hdd \in [Blocks -> Nat]
  BY DEF TypeOK, ReaderShape
<1>1. SUFFICES \E y \in Reader : Shaped(y) /\ rd' = [rd EXCEPT ![r] = y]
  BY <1>0 DEF ReaderShape
<1>2. CASE ReadArrive(r)
  <2>1. PICK lo \in Blocks, hi \in Blocks, chk \in Blocks :
          /\ lo <= chk /\ chk <= hi /\ lo .. hi \subseteq Blocks
          /\ rd' = [rd EXCEPT ![r] = [IdleReader EXCEPT
                      !.pc = "check", !.lo = lo, !.hi = hi, !.chk = chk, !.cur = lo,
                      !.since = hdd]]
    BY <1>2 DEF ReadArrive
  <2> DEFINE y == [IdleReader EXCEPT !.pc = "check", !.lo = lo, !.hi = hi, !.chk = chk,
                                     !.cur = lo, !.since = hdd]
  <2>2. lo \in Int /\ lo <= lo
    BY BlocksAssumption
  <2>3. y \in Reader
    BY <1>0, <2>2, IdleReaderType DEF Reader, ReaderPc, BlockIds
  <2>4. Shaped(y)
    BY <2>1, <2>2, IdleReaderType DEF Shaped, Reader
  <2> QED
    BY <2>1, <2>3, <2>4
<1>3. CASE ReadComplete(r)
  BY <1>3, IdleReaderType DEF ReadComplete, Shaped, IdleReader
<1>4. CASE ReadStep(r) /\ ~ReadComplete(r)
  <2> DEFINE x == rd[r]
  <2>1. x.pc # "idle"
    BY <1>4 DEF ReadStep, CheckHit, CheckMiss, ServeBegin, ServeNoBuffer, ServeHit, ServeMiss,
      SsdReadOk, SsdReadFail, ServeEnd, HddReadOk, HddReadFail, FillQueue, FillRefused, FillEnd
  <2>0. /\ x.lo \in Int /\ x.cur + 1 \in Int
        /\ x.lo <= x.lo /\ x.lo <= x.cur + 1
        /\ \E g : g \in [Blocks -> Data]
        /\ 0 \in Slots
    BY <1>0, <2>1, RequestBounds, NAssumption DEF Slots, Reader
  <2>2. CASE CheckMiss(r) \/ ServeNoBuffer(r) \/ ServeMiss(r)
    <3>1. rd' = [rd EXCEPT ![r] = [x EXCEPT !.pc = "hdd"]]
      BY <1>0, <2>2 DEF CheckMiss, ServeNoBuffer, ServeMiss
    <3> QED
      BY <1>0, <2>0, <2>1, <3>1, RequestChanges DEF ReaderPc
  <2>3. CASE FillEnd(r)
    <3>1. rd' = [rd EXCEPT ![r] = [x EXCEPT !.pc = "done"]]
      BY <1>0, <2>3 DEF FillEnd
    <3> QED
      BY <1>0, <2>0, <2>1, <3>1, RequestChanges DEF ReaderPc
  <2>4. CASE ServeEnd(r) \/ HddReadFail(r)
    <3>1. PICK f \in {"ssd", "error"} :
            rd' = [rd EXCEPT ![r] = [x EXCEPT !.pc = "done", !.from = f]]
      BY <1>0, <2>4 DEF ServeEnd, HddReadFail
    <3> QED
      BY <1>0, <2>0, <2>1, <3>1, RequestChanges
  <2>5. CASE CheckHit(r) \/ FillRefused(r) \/ \E w \in Workers : FillQueue(r, w)
    <3>1. x.pc # "ssd" /\ rd' = [rd EXCEPT ![r] = [x EXCEPT !.cur = x.cur + 1]]
      BY <1>0, <2>5 DEF CheckHit, FillRefused, FillQueue
    <3> QED
      BY <1>0, <2>0, <2>1, <3>1, RequestChanges
  <2>6. CASE ServeBegin(r)
    <3>1. rd' = [rd EXCEPT ![r] = [x EXCEPT !.pc = "serve", !.cur = x.lo]]
      BY <1>0, <2>6 DEF ServeBegin
    <3> QED
      BY <1>0, <2>0, <2>1, <3>1, RequestChanges
  <2>7. CASE ServeHit(r)
    <3>1. PICK s \in Slots : rd' = [rd EXCEPT ![r] = [x EXCEPT !.pc = "ssd", !.slot = s]]
      BY <1>0, <2>7 DEF ServeHit
    <3> QED
      BY <1>0, <2>0, <2>1, <3>1, RequestChanges
  <2>8. CASE SsdReadFail(r)
    <3>1. rd' = [rd EXCEPT ![r] = [x EXCEPT !.pc = "hdd", !.slot = NoSlot]]
      BY <1>0, <2>8 DEF SsdReadFail
    <3> QED
      BY <1>0, <2>0, <2>1, <3>1, RequestChanges
  <2>9. CASE SsdReadOk(r)
    <3> DEFINE g == [x.buf EXCEPT ![x.cur] = ssd[x.slot]]
    <3>1. ssd[x.slot] \in Data
      BY <1>0, <2>9 DEF SsdReadOk, Shaped
    <3>2. g \in [Blocks -> Data]
      BY <1>0, <3>1 DEF Reader
    <3>3. rd' = [rd EXCEPT ![r] = [x EXCEPT !.pc = "serve", !.cur = x.cur + 1,
                                  !.slot = NoSlot, !.buf = g]]
      BY <1>0, <2>9 DEF SsdReadOk
    <3> HIDE DEF g
    <3> QED
      BY <1>0, <2>0, <2>1, <3>2, <3>3, RequestChanges
  <2>10. CASE HddReadOk(r)
    <3> DEFINE g == [b \in Blocks |-> IF b \in x.lo .. x.hi THEN OnDisk(b) ELSE x.buf[b]]
    <3>1. g \in [Blocks -> Data]
      BY <1>0 DEF OnDisk, Data, BlockIds, Reader
    <3>2. rd' = [rd EXCEPT ![r] = [x EXCEPT !.pc = "fill", !.cur = x.lo, !.from = "hdd",
                                           !.buf = g]]
      BY <1>0, <2>10 DEF HddReadOk
    <3> HIDE DEF g
    <3> QED
      BY <1>0, <2>0, <2>1, <3>1, <3>2, RequestChanges
  <2> QED
    BY <1>4, <2>2, <2>3, <2>4, <2>5, <2>6, <2>7, <2>8, <2>9, <2>10 DEF ReadStep
<1> QED
  BY <1>2, <1>3, <1>4

-----------------------------------------------------------------------------
(* A worker between two populations. *)
LEMMA IdleWorkerType == IdleWorker \in Worker /\ WellHeld(IdleWorker)
BY DEF IdleWorker, Worker, WorkerPc, BlockIds, NoBlock, Junk, Data, WellHeld, Holding

(* The changes a step makes to the local state of a worker. *)
LEMMA WorkerChanges ==
  ASSUME NEW x \in Worker, WellHeld(x), NEW s \in Slots, NEW d \in Data
  PROVE  /\ \A p \in WorkerPc : [x EXCEPT !.pc = p] \in Worker
         /\ LET y == [x EXCEPT !.pc = "mark", !.slot = s]
            IN  y \in Worker /\ (x.pc = "select" => WellHeld(y))
         /\ LET y == [x EXCEPT !.pc = "store", !.data = d]
            IN  y \in Worker /\ (x.pc = "source" /\ d.blk = x.blk => WellHeld(y))
         /\ LET y == [x EXCEPT !.pc = "select"] IN x.pc = "queued" => WellHeld(y)
         /\ LET y == [x EXCEPT !.pc = "source"] IN x.pc = "mark" => WellHeld(y)
         /\ LET y == [x EXCEPT !.pc = "storing"] IN x.pc = "store" => WellHeld(y)
         /\ LET y == [x EXCEPT !.pc = "publish"] IN x.pc = "storing" => WellHeld(y)
         /\ LET y == [x EXCEPT !.pc = "abort"] IN x.pc \in Holding => WellHeld(y)
<1>0. s # NoSlot
  BY NAssumption DEF Slots, NoSlot
<1>1. \A p \in WorkerPc : [x EXCEPT !.pc = p] \in Worker
  BY DEF Worker
<1>2. [x EXCEPT !.pc = "mark", !.slot = s] \in Worker
  BY DEF Worker, WorkerPc
<1>3. x.pc = "select" => WellHeld([x EXCEPT !.pc = "mark", !.slot = s])
  BY <1>0 DEF Worker, WellHeld, Holding
<1>4. [x EXCEPT !.pc = "store", !.data = d] \in Worker
  BY DEF Worker, WorkerPc
<1>5. x.pc = "source" /\ d.blk = x.blk => WellHeld([x EXCEPT !.pc = "store", !.data = d])
  BY DEF Worker, WellHeld, Holding
<1>6. /\ x.pc = "queued" => WellHeld([x EXCEPT !.pc = "select"])
      /\ x.pc = "mark" => WellHeld([x EXCEPT !.pc = "source"])
      /\ x.pc = "store" => WellHeld([x EXCEPT !.pc = "storing"])
      /\ x.pc = "storing" => WellHeld([x EXCEPT !.pc = "publish"])
      /\ x.pc \in Holding => WellHeld([x EXCEPT !.pc = "abort"])
  BY DEF Worker, WellHeld, Holding
<1> QED
  BY <1>1, <1>2, <1>3, <1>4, <1>5, <1>6

(* Every step of worker w changes the local state of w alone, and keeps it   *)
(* well formed.                                                              *)
LEMMA WorkerStepLocal ==
  ASSUME TypeOK, WorkerShape, NEW w \in Workers, WorkStep(w)
  PROVE  /\ wk' \in [Workers -> Worker] /\ WorkerShape'
         /\ \A v \in Workers \ {w} : wk'[v] = wk[v]
<1>0. /\ wk \in [Workers -> Worker] /\ wk[w] \in Worker /\ WellHeld(wk[w])
      /\ hdd \in [Blocks -> Nat] /\ Junk \in Data /\ 0 \in Slots
  BY NAssumption DEF TypeOK, WorkerShape, Slots, Junk, Data, BlockIds
<1>1. SUFFICES \E y \in Worker : WellHeld(y) /\ wk' = [wk EXCEPT ![w] = y]
  BY <1>0 DEF WorkerShape
<1>2. CASE wk' = [wk EXCEPT ![w] = IdleWorker]
  BY <1>2, IdleWorkerType
<1>3. CASE WorkMiss(w)
  <2>1. wk[w].pc = "queued" /\ wk' = [wk EXCEPT ![w] = [wk[w] EXCEPT !.pc = "select"]]
    BY <1>0, <1>3 DEF WorkMiss
  <2> QED
    BY <1>0, <2>1, WorkerChanges DEF WorkerPc
<1>4. CASE WorkEvict(w)
  <2>1. PICK v \in Slots :
          wk' = [wk EXCEPT ![w] = [wk[w] EXCEPT !.pc = "mark", !.slot = v]]
    BY <1>0, <1>4 DEF WorkEvict
  <2>2. wk[w].pc = "select"
    BY <1>4 DEF WorkEvict
  <2> QED
    BY <1>0, <2>1, <2>2, WorkerChanges
<1>5. CASE WorkMark(w)
  <2>1. wk[w].pc = "mark" /\ wk' = [wk EXCEPT ![w] = [wk[w] EXCEPT !.pc = "source"]]
    BY <1>0, <1>5 DEF WorkMark
  <2> QED
    BY <1>0, <2>1, WorkerChanges DEF WorkerPc
<1>6. CASE SourceRead(w)
  <2> DEFINE d == OnDisk(wk[w].blk)
  <2>1. wk[w].pc = "source" /\ wk' = [wk EXCEPT ![w] = [wk[w] EXCEPT !.pc = "store", !.data = d]]
    BY <1>0, <1>6 DEF SourceRead
  <2>2. d \in Data /\ d.blk = wk[w].blk
    BY <1>0, <2>1 DEF OnDisk, Data, BlockIds, WellHeld
  <2> HIDE DEF d
  <2> QED
    BY <1>0, <2>1, <2>2, WorkerChanges
<1>7. CASE SourceFail(w) \/ StoreRefused(w) \/ StoreFail(w)
  <2>1. wk[w].pc \in Holding /\ wk' = [wk EXCEPT ![w] = [wk[w] EXCEPT !.pc = "abort"]]
    BY <1>0, <1>7 DEF SourceFail, StoreRefused, StoreFail, Holding
  <2> QED
    BY <1>0, <2>1, WorkerChanges DEF WorkerPc
<1>8. CASE StoreBegin(w)
  <2>1. wk[w].pc = "store" /\ wk' = [wk EXCEPT ![w] = [wk[w] EXCEPT !.pc = "storing"]]
    BY <1>0, <1>8 DEF StoreBegin
  <2> QED
    BY <1>0, <2>1, WorkerChanges DEF WorkerPc
<1>9. CASE StoreEnd(w)
  <2>1. wk[w].pc = "storing" /\ wk' = [wk EXCEPT ![w] = [wk[w] EXCEPT !.pc = "publish"]]
    BY <1>0, <1>9 DEF StoreEnd
  <2> QED
    BY <1>0, <2>1, WorkerChanges DEF WorkerPc
<1> QED
  BY <1>2, <1>3, <1>4, <1>5, <1>6, <1>7, <1>8, <1>9
  DEF WorkStep, WorkNoBuffer, WorkCached, WorkNoVictim, WorkPublish, WorkAbort

-----------------------------------------------------------------------------
(* The invariants that relate the map, the SSD and the workers. *)
SharedInv ==
  /\ ExclusiveClaim
  /\ StoredData
  /\ CountExact

(* They survive a step that changes no entry but for reference bits, nothing *)
(* on the SSD, and no worker's slot.                                         *)
LEMMA QuietStep ==
  ASSUME CoreInv, SameEntries(block_map, block_map'),
         ssd' = ssd, cached_block_count' = cached_block_count,
         \A v \in Workers :
           /\ wk'[v].slot = wk[v].slot
           /\ wk[v].pc \in Holding \ {"mark"} => wk'[v].pc \in Holding \ {"mark"}
           /\ wk'[v].pc = "publish" => wk'[v] = wk[v]
  PROVE  SharedInv' /\ (MapInv => MapInv')
<1>1. \A s : Owner(s)' = Owner(s)
  BY DEF Owner
<1>2. \A v \in Workers : wk[v].slot # NoSlot => wk[v].slot \in Slots
  BY DEF CoreInv, TypeOK, Worker
<1>3. ExclusiveClaim'
  BY <1>1, <1>2 DEF CoreInv, ExclusiveClaim, SameEntries
<1>4. PopulatingOwned => PopulatingOwned'
  BY <1>1 DEF PopulatingOwned, SameEntries, Owner
<1>5. StoredData'
  BY DEF CoreInv, StoredData
<1>6. ValidMatchesSsd => ValidMatchesSsd'
  BY DEF ValidMatchesSsd, SameEntries
<1>7. Cached(block_map') = Cached(block_map)
  BY DEF Cached, SameEntries
<1>8. CountExact'
  BY <1>7 DEF CoreInv, CountExact
<1> QED
  BY <1>3, <1>4, <1>5, <1>6, <1>8 DEF SharedInv, MapInv

(* The slots are finitely many. *)
LEMMA CachedFinite ==
  ASSUME NEW m
  PROVE  IsFiniteSet(Cached(m)) /\ Cardinality(Cached(m)) \in Nat
<1>1. IsFiniteSet(Slots)
  BY FS_Interval, NAssumption DEF Slots
<1>2. Cached(m) \subseteq Slots
  BY DEF Cached
<1> QED
  BY <1>1, <1>2, FS_Subset, FS_CardinalityType

(* A slot that one worker holds has no other owner, and is not VALID. *)
LEMMA HeldSlot ==
  ASSUME CoreInv, NEW w \in Workers, wk[w].pc \in Holding
  PROVE  /\ wk[w].slot \in Slots
         /\ ~Valid(block_map, wk[w].slot)
         /\ \A v \in Workers \ {w} : wk[v].slot # wk[w].slot
<1>1. wk[w].slot # NoSlot /\ wk[w] \in Worker
  BY DEF CoreInv, WorkerShape, WellHeld, TypeOK
<1>2. wk[w].slot \in Slots
  BY <1>1 DEF Worker
<1> QED
  BY <1>1, <1>2 DEF CoreInv, ExclusiveClaim, Owner

(* A step of the CLOCK scan: the victim, VALID until now, gets an owner. *)
LEMMA EvictStep ==
  ASSUME CoreInv, NEW w \in Workers, WorkEvict(w)
  PROVE  /\ SharedInv' /\ (MapInv => MapInv')
         /\ block_map' \in Maps /\ lru_scan_cursor' \in Slots
<1>0. block_map \in Maps /\ lru_scan_cursor \in Slots /\ wk \in [Workers -> Worker]
  BY DEF CoreInv, TypeOK, Maps
<1>1. PICK v \in Slots : /\ IsVictim(block_map, lru_scan_cursor, v)
                         /\ block_map' = Evicted(block_map, lru_scan_cursor, v)
                         /\ lru_scan_cursor' = NextCursor(v)
                         /\ wk' = [wk EXCEPT ![w].pc = "mark", ![w].slot = v]
  BY DEF WorkEvict
<1>2. Valid(block_map, v) /\ ~Populating(block_map, v)
  BY <1>1, VictimEvictable
<1> DEFINE m == Evicted(block_map, lru_scan_cursor, v)
<1>3. /\ m \in Maps /\ ~Valid(m, v)
      /\ \A t \in Slots : /\ Valid(m, t) <=> Valid(block_map, t) /\ t # v
                          /\ Populating(m, t) <=> Populating(block_map, t)
                          /\ m[t].source_lba = block_map[t].source_lba
  BY <1>0, <1>1, EvictedEntries
<1> HIDE DEF m
<1>4. NextCursor(v) \in Slots
  BY NextCursorInRange, NAssumption DEF Slots
<1>5. wk[w].pc = "select" /\ wk[w].slot = NoSlot
  BY DEF WorkEvict, CoreInv, WorkerShape, WellHeld, Holding
<1>6. wk'[w] = [wk[w] EXCEPT !.pc = "mark", !.slot = v] /\ wk[w] \in Worker
  BY <1>0, <1>1
<1>7. wk'[w].pc = "mark" /\ wk'[w].slot = v
  BY <1>6 DEF Worker
<1>8. \A u \in Workers \ {w} : wk'[u] = wk[u]
  BY <1>0, <1>1
<1>9. \A u \in Workers : wk[u].slot # v /\ (wk[u].slot # NoSlot => wk[u].slot \in Slots)
  BY <1>0, <1>2, NAssumption DEF CoreInv, ExclusiveClaim, NoSlot, Slots, Worker
<1>10. ExclusiveClaim'
  <2>1. ASSUME NEW u \in Workers, wk'[u].slot # NoSlot
        PROVE  /\ ~Valid(m, wk'[u].slot)
               /\ \A x \in Workers : wk'[x].slot = wk'[u].slot => x = u
    <3>1. CASE u = w
      BY <3>1, <1>3, <1>7, <1>8, <1>9
    <3>2. CASE u # w
      BY <2>1, <3>2, <1>3, <1>7, <1>8, <1>9 DEF Owner, CoreInv, ExclusiveClaim
    <3> QED
      BY <3>1, <3>2
  <2> QED
    BY <1>1, <2>1 DEF ExclusiveClaim, Owner, m
<1>11. ASSUME PopulatingOwned
       PROVE  PopulatingOwned'
  <2> SUFFICES ASSUME NEW t \in Slots, Populating(m, t)
               PROVE  \E u \in Workers : wk'[u].slot = t /\ wk'[u].pc \in Holding \ {"mark"}
    BY <1>1 DEF PopulatingOwned, m, Owner
  <2>1. PICK u \in Workers : wk[u].slot = t /\ wk[u].pc \in Holding \ {"mark"}
    BY <1>3, <1>11 DEF PopulatingOwned, Owner, Populating
  <2>2. u # w
    BY <2>1, <1>5 DEF Holding
  <2> QED
    BY <2>1, <2>2, <1>8
<1>13. StoredData'
  BY <1>7, <1>8 DEF WorkEvict, disks, CoreInv, StoredData
<1>14. ASSUME ValidMatchesSsd
       PROVE  ValidMatchesSsd'
  <2> SUFFICES ASSUME NEW t \in Slots, Valid(m, t)
               PROVE  ssd'[t].blk = m[t].source_lba
    BY <1>1 DEF ValidMatchesSsd, m
  <2> QED
    BY <1>3, <1>14 DEF WorkEvict, disks, ValidMatchesSsd, Valid
<1>12. CountExact'
  <2>1. Cached(m) = Cached(block_map) \ {v} /\ v \in Cached(block_map)
    BY <1>2, <1>3 DEF Cached
  <2>2. Cardinality(Cached(m)) = Cardinality(Cached(block_map)) - 1
    BY <2>1, CachedFinite, FS_RemoveElement
  <2> QED
    BY <1>1, <2>2 DEF WorkEvict, CoreInv, CountExact, m
<1> QED
  BY <1>1, <1>3, <1>4, <1>10, <1>11, <1>12, <1>13, <1>14 DEF SharedInv, MapInv, m

(* A holder that works on its slot and keeps it: WorkMark, StoreBegin,       *)
(* StoreEnd, StoreFail.                                                      *)
LEMMA HolderKeeps ==
  ASSUME CoreInv, NEW w \in Workers, wk[w].pc \in Holding,
         \A t \in Slots \ {wk[w].slot} :
           block_map'[t] = block_map[t] /\ ssd'[t] = ssd[t],
         \A u \in Workers \ {w} : wk'[u] = wk[u],
         cached_block_count' = cached_block_count,
         ~Valid(block_map', wk[w].slot),
         wk'[w].slot = wk[w].slot,
         wk'[w].pc \in Holding \ {"mark"},
         wk'[w].pc = "publish" => ssd'[wk[w].slot].blk = wk'[w].blk
  PROVE  SharedInv' /\ (MapInv => MapInv')
<1>1. /\ wk[w].slot \in Slots /\ ~Valid(block_map, wk[w].slot)
      /\ \A u \in Workers \ {w} : wk[u].slot # wk[w].slot
  BY HeldSlot
<1>2. \A u \in Workers : wk'[u].slot = wk[u].slot
  OBVIOUS
<1>3. \A u \in Workers : wk[u].slot # NoSlot => wk[u].slot \in Slots
  BY DEF CoreInv, TypeOK, Worker
<1>4. \A t \in Slots : Valid(block_map', t) <=> Valid(block_map, t)
  BY <1>1 DEF Valid
<1>5. ExclusiveClaim'
  BY <1>2, <1>3, <1>4 DEF CoreInv, ExclusiveClaim, Owner
<1>6. ASSUME PopulatingOwned
      PROVE  PopulatingOwned'
  <2>1. ASSUME NEW t \in Slots, Populating(block_map', t)
        PROVE  \E u \in Workers : wk'[u].slot = t /\ wk'[u].pc \in Holding \ {"mark"}
    <3>1. CASE t = wk[w].slot
      BY <3>1
    <3>2. CASE t # wk[w].slot
      BY <1>6, <2>1, <3>2 DEF PopulatingOwned, Owner, Populating
    <3> QED
      BY <3>1, <3>2
  <2> QED
    BY <2>1 DEF PopulatingOwned, Owner
<1>7. StoredData'
  <2>1. ASSUME NEW u \in Workers, wk'[u].pc = "publish"
        PROVE  ssd'[wk'[u].slot].blk = wk'[u].blk
    <3>1. CASE u = w
      BY <2>1, <3>1
    <3>2. CASE u # w
      <4>1. wk[u].slot \in Slots \ {wk[w].slot}
        BY <2>1, <3>2, <1>1, HeldSlot DEF Holding
      <4> QED
        BY <2>1, <3>2, <4>1 DEF CoreInv, StoredData
    <3> QED
      BY <3>1, <3>2
  <2> QED
    BY <2>1 DEF StoredData
<1>8. ValidMatchesSsd => ValidMatchesSsd'
  BY <1>1, <1>4 DEF ValidMatchesSsd
<1>9. Cached(block_map') = Cached(block_map)
  BY <1>4 DEF Cached
<1>10. CountExact'
  BY <1>9 DEF CoreInv, CountExact
<1> QED
  BY <1>5, <1>6, <1>7, <1>8, <1>10 DEF SharedInv, MapInv

(* A holder that gives its slot up, published (b is TRUE) or not: WorkPublish *)
(* and WorkAbort.                                                             *)
LEMMA HolderReleases ==
  ASSUME CoreInv, NEW w \in Workers, wk[w].pc \in Holding,
         NEW b \in BOOLEAN,
         \A t \in Slots \ {wk[w].slot} : block_map'[t] = block_map[t],
         ssd' = ssd,
         \A u \in Workers \ {w} : wk'[u] = wk[u],
         wk'[w] = IdleWorker,
         ~Populating(block_map', wk[w].slot),
         Valid(block_map', wk[w].slot) <=> b,
         b => ssd[wk[w].slot].blk = block_map'[wk[w].slot].source_lba,
         cached_block_count' = cached_block_count + (IF b THEN 1 ELSE 0)
  PROVE  SharedInv' /\ (MapInv => MapInv')
<1> DEFINE s == wk[w].slot
<1>1. /\ s \in Slots /\ ~Valid(block_map, s)
      /\ \A u \in Workers \ {w} : wk[u].slot # s
  BY HeldSlot
<1>2. wk'[w].slot = NoSlot /\ wk'[w].pc = "idle"
  BY DEF IdleWorker
<1>3. \A u \in Workers : wk[u].slot # NoSlot => wk[u].slot \in Slots
  BY DEF CoreInv, TypeOK, Worker
<1>4. \A t \in Slots \ {s} : Valid(block_map', t) <=> Valid(block_map, t)
  BY DEF Valid
<1>5. ExclusiveClaim'
  <2>1. ASSUME NEW u \in Workers, wk'[u].slot # NoSlot
        PROVE  /\ ~Valid(block_map', wk'[u].slot)
               /\ \A x \in Workers : wk'[x].slot = wk'[u].slot => x = u
    <3>1. u # w /\ wk'[u] = wk[u] /\ wk[u].slot \in Slots \ {s}
      BY <2>1, <1>1, <1>2, <1>3
    <3>2. ~Valid(block_map, wk[u].slot) /\ \A x \in Workers : wk[x].slot = wk[u].slot => x = u
      BY <2>1, <3>1 DEF CoreInv, ExclusiveClaim, Owner
    <3> QED
      BY <2>1, <3>1, <3>2, <1>2, <1>4
  <2> QED
    BY <2>1 DEF ExclusiveClaim, Owner
<1>6. ASSUME PopulatingOwned
      PROVE  PopulatingOwned'
  <2>1. ASSUME NEW t \in Slots, Populating(block_map', t)
        PROVE  \E u \in Workers : wk'[u].slot = t /\ wk'[u].pc \in Holding \ {"mark"}
    <3>1. t # s /\ Populating(block_map, t)
      BY <2>1 DEF Populating
    <3> QED
      BY <1>6, <3>1 DEF PopulatingOwned, Owner
  <2> QED
    BY <2>1 DEF PopulatingOwned, Owner
<1>7. StoredData'
  BY <1>2 DEF CoreInv, StoredData
<1>8. ValidMatchesSsd => ValidMatchesSsd'
  BY <1>1, <1>4 DEF ValidMatchesSsd
<1>9. CASE b
  <2>1. Cached(block_map') = Cached(block_map) \cup {s} /\ s \notin Cached(block_map)
    BY <1>1, <1>4, <1>9 DEF Cached
  <2>2. Cardinality(Cached(block_map')) = Cardinality(Cached(block_map)) + 1
    BY <2>1, CachedFinite, FS_AddElement
  <2>3. CountExact'
    BY <1>9, <2>2 DEF CoreInv, CountExact
  <2> QED
    BY <1>5, <1>6, <1>7, <1>8, <2>3 DEF SharedInv, MapInv
<1>10. CASE ~b
  <2>1. Cached(block_map') = Cached(block_map)
    BY <1>1, <1>4, <1>10 DEF Cached
  <2>2. CountExact'
    BY <1>10, <2>1 DEF CoreInv, CountExact, TypeOK
  <2> QED
    BY <1>5, <1>6, <1>7, <1>8, <2>2 DEF SharedInv, MapInv
<1> QED
  BY <1>9, <1>10

-----------------------------------------------------------------------------
(* The shared part of TypeOK. *)
SharedType ==
  /\ block_map \in Maps
  /\ cached_block_count \in Int
  /\ lru_scan_cursor \in Slots
  /\ tick \in Nat
  /\ ssd \in [Slots -> Data]
  /\ hdd \in [Blocks -> Nat]

LEMMA CoreInvParts ==
  CoreInv <=> /\ SharedType /\ SharedInv
             /\ rd \in [Readers -> Reader] /\ ReaderShape
             /\ wk \in [Workers -> Worker] /\ WorkerShape
BY DEF CoreInv, TypeOK, SharedType, SharedInv, Maps

(* What every step of a worker does to the shared state. *)
LEMMA WorkerStepShared ==
  ASSUME CoreInv, NEW w \in Workers, WorkStep(w)
  PROVE  SharedType' /\ SharedInv' /\ (MapInv => MapInv')
<1> DEFINE s == wk[w].slot
<1>0. /\ SharedType /\ wk \in [Workers -> Worker] /\ wk[w] \in Worker /\ WellHeld(wk[w])
      /\ SameEntries(block_map, block_map) /\ Junk \in Data
      /\ \A v \in Workers \ {w} : wk'[v] = wk[v]
  BY WorkerStepLocal DEF CoreInv, TypeOK, SharedType, Maps, WorkerShape, SameEntries, Junk,
     Data, BlockIds
<1>1. CASE WorkEvict(w)
  <2>1. /\ SharedInv' /\ (MapInv => MapInv')
        /\ block_map' \in Maps /\ lru_scan_cursor' \in Slots
    BY <1>1, EvictStep
  <2>2. UNCHANGED <<tick, ssd, hdd>> /\ cached_block_count' = cached_block_count - 1
    BY <1>1 DEF WorkEvict, disks
  <2> QED
    BY <1>0, <2>1, <2>2 DEF SharedType
<1>2. CASE WorkNoBuffer(w) \/ WorkCached(w) \/ WorkMiss(w) \/ WorkNoVictim(w)
           \/ SourceRead(w) \/ SourceFail(w) \/ StoreRefused(w)
  <2>1. block_map' \in Maps /\ SameEntries(block_map, block_map')
    <3>1. CASE WorkCached(w)
      <4>1. PICK t \in Slots : block_map' = Touched(block_map, t, tick)
        BY <3>1 DEF WorkCached
      <4> QED
        BY <1>0, <4>1, TouchedEntries DEF SharedType
    <3>2. CASE block_map' = block_map
      BY <1>0, <3>2 DEF SharedType
    <3> QED
      BY <1>2, <3>1, <3>2 DEF WorkNoBuffer, WorkMiss, WorkNoVictim, SourceRead, SourceFail,
         StoreRefused, shared
  <2>2. /\ UNCHANGED <<cached_block_count, lru_scan_cursor, tick, ssd, hdd>>
    BY <1>2 DEF WorkNoBuffer, WorkCached, WorkMiss, WorkNoVictim, SourceRead, SourceFail,
       StoreRefused, shared, disks
  <2>3. /\ wk'[w].slot = wk[w].slot
        /\ wk[w].pc \in Holding \ {"mark"} => wk'[w].pc \in Holding \ {"mark"}
        /\ wk'[w].pc # "publish"
    <3>1. CASE WorkNoBuffer(w) \/ WorkCached(w) \/ WorkMiss(w) \/ WorkNoVictim(w)
      BY <1>0, <3>1 DEF WorkNoBuffer, WorkCached, WorkMiss, WorkNoVictim, IdleWorker,
         WellHeld, Holding, Worker
    <3>2. CASE SourceRead(w) \/ SourceFail(w) \/ StoreRefused(w)
      BY <1>0, <3>2 DEF SourceRead, SourceFail, StoreRefused, Holding, Worker
    <3> QED
      BY <1>2, <3>1, <3>2
  <2>4. SharedInv' /\ (MapInv => MapInv')
    BY <1>0, <2>1, <2>2, <2>3, QuietStep
  <2> QED
    BY <1>0, <2>1, <2>2, <2>4 DEF SharedType
<1>3. CASE WorkMark(w)
  <2>1. s \in Slots
    BY <1>3, HeldSlot DEF WorkMark, Holding
  <2>2. /\ block_map' \in Maps /\ ~Valid(block_map', s)
        /\ \A t \in Slots \ {s} : block_map'[t] = block_map[t]
    BY <1>0, <1>3, <2>1, MarkedEntries DEF WorkMark, SharedType
  <2>3. /\ UNCHANGED <<cached_block_count, lru_scan_cursor, tick, ssd, hdd>>
        /\ wk[w].pc \in Holding
    BY <1>3 DEF WorkMark, disks, Holding
  <2>4. wk'[w].slot = s /\ wk'[w].pc = "source"
    BY <1>0, <1>3 DEF WorkMark, Worker
  <2>5. SharedInv' /\ (MapInv => MapInv')
    BY <1>0, <2>2, <2>3, <2>4, HolderKeeps DEF Holding
  <2> QED
    BY <1>0, <2>2, <2>3, <2>5 DEF SharedType
<1>4. CASE StoreBegin(w) \/ StoreEnd(w) \/ StoreFail(w)
  <2>1. wk[w].pc \in {"store", "storing"} /\ wk[w].pc \in Holding
    BY <1>4 DEF StoreBegin, StoreEnd, StoreFail, Holding
  <2>2. s \in Slots /\ ~Valid(block_map, s)
    BY <2>1, HeldSlot
  <2>3. PICK d \in Data :
          ssd' = [ssd EXCEPT ![s] = d] /\ (StoreEnd(w) => d = wk[w].data)
    BY <1>0, <1>4 DEF StoreBegin, StoreEnd, StoreFail, Worker
  <2>4. ssd' \in [Slots -> Data] /\ ssd'[s] = d /\ \A t \in Slots \ {s} : ssd'[t] = ssd[t]
    BY <1>0, <2>2, <2>3 DEF SharedType
  <2>5. UNCHANGED <<block_map, cached_block_count, lru_scan_cursor, tick, hdd>>
    BY <1>4 DEF StoreBegin, StoreEnd, StoreFail, shared
  <2>6. /\ wk'[w].slot = s /\ wk'[w].blk = wk[w].blk
        /\ wk'[w].pc \in {"storing", "publish", "abort"}
        /\ wk'[w].pc = "publish" => StoreEnd(w)
    BY <1>0, <1>4 DEF StoreBegin, StoreEnd, StoreFail, Worker
  <2>7. wk'[w].pc = "publish" => ssd'[s].blk = wk'[w].blk
    BY <1>0, <2>1, <2>3, <2>4, <2>6 DEF WellHeld
  <2>8. SharedInv' /\ (MapInv => MapInv')
    BY <1>0, <2>1, <2>2, <2>4, <2>5, <2>6, <2>7, HolderKeeps DEF Holding
  <2> QED
    BY <1>0, <2>4, <2>5, <2>8 DEF SharedType
<1>5. CASE WorkPublish(w)
  <2>1. wk[w].pc = "publish" /\ wk[w].pc \in Holding /\ wk[w].blk \in Blocks
    BY <1>0, <1>5 DEF WorkPublish, Holding, WellHeld
  <2>2. s \in Slots
    BY <2>1, HeldSlot
  <2>3. /\ block_map' \in Maps /\ Valid(block_map', s) /\ ~Populating(block_map', s)
        /\ block_map'[s].source_lba = wk[w].blk
        /\ \A t \in Slots \ {s} : block_map'[t] = block_map[t]
    BY <1>0, <1>5, <2>1, <2>2, PublishedEntries DEF WorkPublish, SharedType
  <2>4. /\ UNCHANGED <<lru_scan_cursor, tick, ssd, hdd>>
        /\ cached_block_count' = cached_block_count + 1
        /\ wk'[w] = IdleWorker
    BY <1>0, <1>5 DEF WorkPublish, disks
  <2>5. ssd[s].blk = wk[w].blk
    BY <2>1 DEF CoreInv, StoredData
  <2>6. SharedInv' /\ (MapInv => MapInv')
    BY <1>0, <2>1, <2>3, <2>4, <2>5, HolderReleases
  <2> QED
    BY <1>0, <2>3, <2>4, <2>6 DEF SharedType
<1>6. CASE WorkAbort(w)
  <2>1. wk[w].pc \in Holding
    BY <1>6 DEF WorkAbort, Holding
  <2>2. s \in Slots
    BY <2>1, HeldSlot
  <2>3. /\ block_map' \in Maps /\ ~Valid(block_map', s) /\ ~Populating(block_map', s)
        /\ \A t \in Slots \ {s} : block_map'[t] = block_map[t]
    BY <1>0, <1>6, <2>2, RestoredEntries DEF WorkAbort, SharedType
  <2>4. /\ UNCHANGED <<cached_block_count, lru_scan_cursor, tick, ssd, hdd>>
        /\ wk'[w] = IdleWorker
    BY <1>0, <1>6 DEF WorkAbort, disks
  <2>5. cached_block_count' = cached_block_count + 0
    BY <1>0, <2>4 DEF SharedType
  <2>6. SharedInv' /\ (MapInv => MapInv')
    BY <1>0, <2>1, <2>3, <2>4, <2>5, HolderReleases
  <2> QED
    BY <1>0, <2>3, <2>4, <2>6 DEF SharedType
<1> QED
  BY <1>1, <1>2, <1>3, <1>4, <1>5, <1>6 DEF WorkStep

-----------------------------------------------------------------------------
(* The loaded map satisfies the invariant. *)
LEMMA InitInv == Init => IndInv
<1> SUFFICES ASSUME Init
             PROVE  IndInv
  OBVIOUS
<1>1. block_map \in Maps /\ \A s \in Slots : ~Populating(block_map, s)
  BY LoadedAssumption DEF Init, Maps
<1>2. SharedType
  <2>1. cached_block_count \in Int /\ lru_scan_cursor \in Slots /\ tick \in Nat
    BY CachedFinite, NAssumption DEF Init, Slots
  <2>2. ssd \in [Slots -> Data] /\ hdd \in [Blocks -> Nat]
    BY <1>1 DEF Init, Maps, Entry, Data, Junk, BlockIds
  <2> QED
    BY <1>1, <2>1, <2>2 DEF SharedType
<1>3. SharedInv /\ MapInv
  <2>1. \A w \in Workers : wk[w].slot = NoSlot /\ wk[w].pc = "idle"
    BY DEF Init, IdleWorker
  <2> QED
    BY <1>1, <2>1 DEF Init, SharedInv, MapInv, ExclusiveClaim, PopulatingOwned, StoredData,
       ValidMatchesSsd, CountExact
<1>4. rd \in [Readers -> Reader] /\ ReaderShape
  BY IdleReaderType DEF Init, ReaderShape, Shaped, IdleReader
<1>5. wk \in [Workers -> Worker] /\ WorkerShape
  BY IdleWorkerType DEF Init, WorkerShape
<1> QED
  BY <1>2, <1>3, <1>4, <1>5, CoreInvParts DEF IndInv

(* Every step of every actor preserves it. *)
LEMMA CoreStep ==
  ASSUME CoreInv, [Next]_vars
  PROVE  CoreInv' /\ (MapInv => MapInv')
<1>0. /\ TypeOK /\ SharedType /\ SharedInv /\ SameEntries(block_map, block_map)
      /\ rd \in [Readers -> Reader] /\ ReaderShape
      /\ wk \in [Workers -> Worker] /\ WorkerShape
  BY CoreInvParts DEF CoreInv, SameEntries
<1>1. CASE \E r \in Readers : ReadArrive(r) \/ ReadStep(r)
  <2>1. PICK r \in Readers : ReadArrive(r) \/ ReadStep(r)
    BY <1>1
  <2>2. rd' \in [Readers -> Reader] /\ ReaderShape'
    BY <1>0, <2>1, ReaderStepLocal
  <2>3. ReaderEffect
    BY <1>0, <2>1, ReaderStepEffect
  <2>4. /\ wk' \in [Workers -> Worker] /\ WorkerShape'
        /\ \A v \in Workers :
             /\ wk'[v].slot = wk[v].slot
             /\ wk[v].pc \in Holding \ {"mark"} => wk'[v].pc \in Holding \ {"mark"}
             /\ wk'[v].pc = "publish" => wk'[v] = wk[v]
    <3>1. CASE wk' = wk
      BY <1>0, <3>1 DEF WorkerShape
    <3>2. CASE \E w \in Workers, b \in Blocks :
                 /\ wk[w].pc = "idle"
                 /\ wk' = [wk EXCEPT ![w] = [IdleWorker EXCEPT !.pc = "queued", !.blk = b]]
      <4>1. PICK w \in Workers, b \in Blocks :
                 /\ wk[w].pc = "idle"
                 /\ wk' = [wk EXCEPT ![w] = [IdleWorker EXCEPT !.pc = "queued", !.blk = b]]
        BY <3>2
      <4> DEFINE y == [IdleWorker EXCEPT !.pc = "queued", !.blk = b]
      <4>2. y \in Worker /\ WellHeld(y) /\ y.slot = NoSlot /\ y.pc = "queued"
        BY DEF IdleWorker, Worker, WorkerPc, BlockIds, NoBlock, Junk, Data, WellHeld, Holding
      <4>3. wk[w].slot = NoSlot
        BY <1>0, <4>1 DEF WorkerShape, WellHeld, Holding
      <4> HIDE DEF y
      <4>4. wk' = [wk EXCEPT ![w] = y]
        BY <4>1 DEF y
      <4> QED
        BY <1>0, <4>1, <4>2, <4>3, <4>4 DEF WorkerShape, Holding
    <3> QED
      BY <2>3, <3>1, <3>2 DEF ReaderEffect
  <2>5. SharedInv' /\ (MapInv => MapInv')
    BY <2>3, <2>4, QuietStep DEF ReaderEffect
  <2>6. SharedType'
    BY <1>0, <2>3 DEF ReaderEffect, SharedType
  <2> QED
    BY <2>2, <2>4, <2>5, <2>6 DEF CoreInv, TypeOK, SharedType, SharedInv, Maps
<1>2. CASE \E w \in Workers : WorkStep(w)
  <2>1. PICK w \in Workers : WorkStep(w)
    BY <1>2
  <2>2. rd' = rd
    BY <2>1 DEF WorkStep, WorkNoBuffer, WorkCached, WorkMiss, WorkNoVictim, WorkEvict, WorkMark,
       SourceRead, SourceFail, StoreRefused, StoreBegin, StoreEnd, StoreFail, WorkPublish, WorkAbort
  <2>3. rd' \in [Readers -> Reader] /\ ReaderShape'
    BY <1>0, <2>2 DEF ReaderShape
  <2>4. wk' \in [Workers -> Worker] /\ WorkerShape'
    BY <1>0, <2>1, WorkerStepLocal
  <2>5. SharedType' /\ SharedInv' /\ (MapInv => MapInv')
    BY <2>1, WorkerStepShared
  <2> QED
    BY <2>3, <2>4, <2>5 DEF CoreInv, TypeOK, SharedType, SharedInv, Maps
<1>3. CASE (\E b \in Blocks : HostWrite(b)) \/ Tick \/ UNCHANGED vars
  <2>1. /\ UNCHANGED <<block_map, cached_block_count, lru_scan_cursor, ssd, rd, wk>>
        /\ tick' \in Nat /\ hdd' \in [Blocks -> Nat]
    BY <1>0, <1>3 DEF HostWrite, Tick, vars, shared, disks, SharedType
  <2>2. SharedType'
    BY <1>0, <2>1 DEF SharedType
  <2>3. SharedInv' /\ (MapInv => MapInv')
    BY <1>0, <2>1, QuietStep
  <2>4. rd' \in [Readers -> Reader] /\ ReaderShape' /\ wk' \in [Workers -> Worker] /\ WorkerShape'
    BY <1>0, <2>1 DEF ReaderShape, WorkerShape
  <2> QED
    BY <2>2, <2>3, <2>4 DEF CoreInv, TypeOK, SharedType, SharedInv, Maps
<1> QED
  BY <1>1, <1>2, <1>3 DEF Next

LEMMA NextInv == IndInv /\ [Next]_vars => IndInv'
BY CoreStep DEF IndInv

-----------------------------------------------------------------------------
(* The strengthened invariant holds in every reachable state of a session,   *)
(* whatever its size.                                                        *)
THEOREM Invariance == Spec => []IndInv
BY InitInv, NextInv, PTL DEF Spec

(* Type correctness of ReadCache. *)
THEOREM TypeCorrect == Spec => []TypeOK
<1>1. IndInv => TypeOK
  BY DEF IndInv, CoreInv
<1> QED
  BY <1>1, Invariance, PTL

(* cached_block_count is the number of VALID entries at all times: the two   *)
(* critical sections that update it neither lose nor repeat an update.       *)
THEOREM CountIsExact == Spec => []CountExact
<1>1. IndInv => CountExact
  BY DEF IndInv, CoreInv
<1> QED
  BY <1>1, Invariance, PTL

(* Two populations never hold one slot, although the slot is selected in one *)
(* critical section and marked in another.                                   *)
THEOREM ClaimsAreExclusive == Spec => []ExclusiveClaim
<1>1. IndInv => ExclusiveClaim
  BY DEF IndInv, CoreInv
<1> QED
  BY <1>1, Invariance, PTL

(* A POPULATING slot always has a population that will unmark it.            *)
THEOREM PopulatingHasOwner == Spec => []PopulatingOwned
<1>1. IndInv => PopulatingOwned
  BY DEF IndInv, MapInv
<1> QED
  BY <1>1, Invariance, PTL

(* A VALID entry always describes what its slot on the SSD holds.            *)
THEOREM ValidEntriesMatch == Spec => []ValidMatchesSsd
<1>1. IndInv => ValidMatchesSsd
  BY DEF IndInv, MapInv
<1> QED
  BY <1>1, Invariance, PTL

-----------------------------------------------------------------------------
(* A reader has seen no write that the disk has not; what it has from the    *)
(* source disk is newer, and stays once it has it.                           *)
Fresh(x) ==
  /\ \A b \in Blocks : x.since[b] <= hdd[b]
  /\ x.pc \in {"check", "serve", "ssd", "hdd"} => x.from # "hdd"
  /\ x.from = "hdd" =>
       \A b \in x.lo .. x.hi : x.buf[b].blk = b /\ x.buf[b].ver >= x.since[b]

FreshInv == \A r \in Readers : Fresh(rd[r])

(* Reads arrive, fall back and complete without losing what Fresh says.      *)
LEMMA ReaderStepFresh ==
  ASSUME TypeOK, ReaderShape, FreshInv, NEW r \in Readers, ReadArrive(r) \/ ReadStep(r)
  PROVE  FreshInv'
<1> DEFINE x == rd[r]
<1>0. /\ rd \in [Readers -> Reader] /\ x \in Reader /\ Shaped(x) /\ Fresh(x)
      /\ hdd \in [Blocks -> Nat]
  BY DEF TypeOK, ReaderShape, FreshInv
<1>1. hdd' = hdd
  BY ReaderStepEffect DEF ReaderEffect
<1>2. SUFFICES \E y : Fresh(y) /\ rd' = [rd EXCEPT ![r] = y]
  BY <1>0, <1>1 DEF FreshInv, Fresh
<1>3. CASE ReadArrive(r)
  <2>1. PICK lo \in Blocks, hi \in Blocks, chk \in Blocks :
          rd' = [rd EXCEPT ![r] = [IdleReader EXCEPT
                   !.pc = "check", !.lo = lo, !.hi = hi, !.chk = chk, !.cur = lo,
                   !.since = hdd]]
    BY <1>3 DEF ReadArrive
  <2> DEFINE y == [IdleReader EXCEPT !.pc = "check", !.lo = lo, !.hi = hi, !.chk = chk,
                                     !.cur = lo, !.since = hdd]
  <2>2. y.since = hdd /\ y.from = "none"
    BY DEF IdleReader
  <2>3. \A b \in Blocks : hdd[b] <= hdd[b]
    BY <1>0
  <2>4. Fresh(y)
    BY <2>2, <2>3 DEF Fresh
  <2> QED
    BY <2>1, <2>4
<1>4. CASE ReadComplete(r)
  <2>1. rd' = [rd EXCEPT ![r] = IdleReader]
    BY <1>4 DEF ReadComplete
  <2>2. /\ IdleReader.from = "none" /\ \A b \in Blocks : IdleReader.since[b] = 0
    BY DEF IdleReader
  <2>3. Fresh(IdleReader)
    BY <1>0, <2>2 DEF Fresh
  <2> QED
    BY <2>1, <2>3
<1>5. CASE HddReadOk(r)
  <2> DEFINE g == [b \in Blocks |-> IF b \in x.lo .. x.hi THEN OnDisk(b) ELSE x.buf[b]]
             y == [x EXCEPT !.pc = "fill", !.cur = x.lo, !.from = "hdd", !.buf = g]
  <2>1. rd' = [rd EXCEPT ![r] = y]
    BY <1>0, <1>5 DEF HddReadOk
  <2>2. x.lo .. x.hi \subseteq Blocks
    BY <1>0, <1>5 DEF HddReadOk, Shaped
  <2>3. \A b \in x.lo .. x.hi : g[b].blk = b /\ g[b].ver = hdd[b]
    BY <2>2 DEF OnDisk
  <2> HIDE DEF g
  <2>4. /\ y.lo = x.lo /\ y.hi = x.hi /\ y.buf = g /\ y.since = x.since
        /\ y.pc = "fill" /\ x.since \in [Blocks -> Nat]
    BY <1>0 DEF Reader
  <2>5. \A b \in y.lo .. y.hi : y.buf[b].blk = b /\ y.buf[b].ver >= y.since[b]
    BY <1>0, <2>2, <2>3, <2>4 DEF Fresh
  <2>6. Fresh(y)
    BY <1>0, <2>4, <2>5 DEF Fresh
  <2> QED
    BY <2>1, <2>6
<1>6. CASE SsdReadOk(r)
  <2> DEFINE y == [x EXCEPT !.pc = "serve", !.cur = @ + 1, !.slot = NoSlot,
                            !.buf[rd[r].cur] = ssd[rd[r].slot]]
  <2>1. x.pc = "ssd" /\ rd' = [rd EXCEPT ![r] = y]
    BY <1>0, <1>6 DEF SsdReadOk
  <2>2. y.since = x.since /\ y.from = x.from
    BY <1>0 DEF Reader
  <2>3. Fresh(y)
    BY <1>0, <2>1, <2>2 DEF Fresh
  <2> QED
    BY <2>1, <2>3
<1>7. CASE FillRefused(r) \/ FillEnd(r) \/ \E w \in Workers : FillQueue(r, w)
  <2> DEFINE y == rd'[r]
  <2>1. /\ y.since = x.since /\ y.from = x.from /\ y.lo = x.lo /\ y.hi = x.hi
        /\ y.buf = x.buf /\ y.pc \in {"fill", "done"}
    BY <1>0, <1>7 DEF FillRefused, FillEnd, FillQueue, Reader
  <2>2. rd' = [rd EXCEPT ![r] = y]
    BY <1>0, <1>7 DEF FillRefused, FillEnd, FillQueue
  <2> HIDE DEF y
  <2>3. Fresh(y)
    BY <1>0, <2>1 DEF Fresh
  <2> QED
    BY <2>2, <2>3
<1>8. CASE \/ CheckHit(r) \/ CheckMiss(r) \/ ServeBegin(r) \/ ServeNoBuffer(r) \/ ServeHit(r)
           \/ ServeMiss(r) \/ SsdReadFail(r)
  <2> DEFINE y == rd'[r]
  <2>1. x.from # "hdd"
    BY <1>0, <1>8 DEF CheckHit, CheckMiss, ServeBegin, ServeNoBuffer, ServeHit, ServeMiss,
       SsdReadFail, Fresh
  <2>2. y.since = x.since /\ y.from = x.from
    BY <1>0, <1>8 DEF CheckHit, CheckMiss, ServeBegin, ServeNoBuffer, ServeHit, ServeMiss,
       SsdReadFail, Reader
  <2>3. rd' = [rd EXCEPT ![r] = y]
    BY <1>0, <1>8 DEF CheckHit, CheckMiss, ServeBegin, ServeNoBuffer, ServeHit, ServeMiss,
       SsdReadFail
  <2> HIDE DEF y
  <2>4. Fresh(y)
    BY <1>0, <2>1, <2>2 DEF Fresh
  <2> QED
    BY <2>3, <2>4
<1>9. CASE ServeEnd(r) \/ HddReadFail(r)
  <2>1. PICK f \in {"ssd", "error"} :
          rd' = [rd EXCEPT ![r] = [x EXCEPT !.pc = "done", !.from = f]]
    BY <1>0, <1>9 DEF ServeEnd, HddReadFail
  <2> DEFINE y == [x EXCEPT !.pc = "done", !.from = f]
  <2>2. y.since = x.since /\ y.from = f
    BY <1>0 DEF Reader
  <2>3. Fresh(y)
    BY <1>0, <2>2 DEF Fresh
  <2> QED
    BY <2>1, <2>3
<1> QED
  BY <1>3, <1>4, <1>5, <1>6, <1>7, <1>8, <1>9 DEF ReadStep

(* A read that fell back to the source disk returns the blocks it asked for, *)
(* none older than the request, however many writes and reads run beside it. *)
THEOREM FallbackReadsFresh == Spec => []HddReadsFresh
<1>1. Init => FreshInv
  <2> SUFFICES ASSUME Init, NEW r \in Readers
               PROVE  Fresh(rd[r])
    BY DEF FreshInv
  <2>1. /\ rd[r].from = "none" /\ \A b \in Blocks : rd[r].since[b] = 0 /\ hdd[b] = 0
    BY DEF Init, IdleReader
  <2> QED
    BY <2>1 DEF Fresh
<1>2. IndInv /\ FreshInv /\ [Next]_vars => FreshInv'
  <2> SUFFICES ASSUME IndInv, FreshInv, [Next]_vars
               PROVE  FreshInv'
    OBVIOUS
  <2>0. TypeOK /\ ReaderShape /\ rd \in [Readers -> Reader] /\ hdd \in [Blocks -> Nat]
    BY DEF IndInv, CoreInv, TypeOK
  <2>1. CASE \E r \in Readers : ReadArrive(r) \/ ReadStep(r)
    BY <2>0, <2>1, ReaderStepFresh
  <2>2. CASE (\E w \in Workers : WorkStep(w)) \/ Tick \/ UNCHANGED vars
    <3>1. rd' = rd /\ hdd' = hdd
      BY <2>2 DEF WorkStep, WorkNoBuffer, WorkCached, WorkMiss, WorkNoVictim, WorkEvict,
         WorkMark, SourceRead, SourceFail, StoreRefused, StoreBegin, StoreEnd, StoreFail,
         WorkPublish, WorkAbort, Tick, vars, disks
    <3> QED
      BY <3>1 DEF FreshInv, Fresh
  <2>3. CASE \E b \in Blocks : HostWrite(b)
    <3>1. PICK b \in Blocks : rd' = rd /\ hdd' = [hdd EXCEPT ![b] = @ + 1]
      BY <2>3 DEF HostWrite
    <3>2. \A c \in Blocks : hdd'[c] \in Nat /\ hdd[c] <= hdd'[c]
      BY <2>0, <3>1
    <3>3. ASSUME NEW r \in Readers
          PROVE  \A c \in Blocks : rd[r].since[c] <= hdd'[c]
      BY <2>0, <3>2 DEF FreshInv, Fresh, Reader
    <3> QED
      BY <3>1, <3>3 DEF FreshInv, Fresh
  <2> QED
    BY <2>1, <2>2, <2>3 DEF Next
<1>3. FreshInv => HddReadsFresh
  BY DEF FreshInv, Fresh, HddReadsFresh
<1> QED
  BY <1>1, <1>2, <1>3, Invariance, PTL DEF Spec

-----------------------------------------------------------------------------
(* The kinds of step, by what they do to entries, SSD and slots. *)
Still ==
  /\ SameEntries(block_map, block_map') /\ ssd' = ssd
  /\ \A u \in Workers : wk'[u].slot = wk[u].slot

Takes(w, v) ==
  /\ wk[w].slot = NoSlot /\ wk'[w].slot = v
  /\ \A u \in Workers \ {w} : wk'[u].slot = wk[u].slot
  /\ Valid(block_map, v) /\ ~Pinned(block_map, v) /\ ~Valid(block_map', v)
  /\ \A t \in Slots \ {v} : /\ Valid(block_map', t) <=> Valid(block_map, t)
                            /\ Pinned(block_map', t) <=> Pinned(block_map, t)
                            /\ block_map'[t].source_lba = block_map[t].source_lba
  /\ ssd' = ssd

(* The slot of w is not VALID before. *)
Handles(w, s) ==
  /\ wk[w].slot = s /\ ~Valid(block_map, s)
  /\ \A u \in Workers \ {w} : wk'[u].slot = wk[u].slot
  /\ \A t \in Slots \ {s} : block_map'[t] = block_map[t] /\ ssd'[t] = ssd[t]
  /\ \/ wk'[w].slot = s /\ ~Valid(block_map', s)
     \/ wk'[w].slot = NoSlot /\ ~Valid(block_map', s)
     \/ wk'[w].slot = NoSlot /\ Valid(block_map', s) /\ ssd'[s].blk \in Blocks

LEMMA StepKinds ==
  ASSUME CoreInv, [Next]_vars
  PROVE  \/ Still
         \/ \E w \in Workers, v \in Slots : Takes(w, v)
         \/ \E w \in Workers, s \in Slots : Handles(w, s)
<1>0. /\ TypeOK /\ block_map \in Maps /\ SameEntries(block_map, block_map)
      /\ wk \in [Workers -> Worker] /\ WorkerShape /\ ReaderShape
      /\ lru_scan_cursor \in Slots /\ tick \in Nat /\ ssd \in [Slots -> Data]
  BY DEF CoreInv, TypeOK, SameEntries, Maps
<1>1. CASE \E r \in Readers : ReadArrive(r) \/ ReadStep(r)
  <2>1. ReaderEffect
    BY <1>0, <1>1, ReaderStepEffect
  <2>2. \A u \in Workers : wk[u].pc = "idle" => wk[u].slot = NoSlot
    BY <1>0 DEF WorkerShape, WellHeld, Holding
  <2>3. \A u \in Workers : wk'[u].slot = wk[u].slot
    BY <1>0, <2>1, <2>2 DEF ReaderEffect, IdleWorker
  <2> QED
    BY <2>1, <2>3 DEF ReaderEffect, Still
<1>2. ASSUME NEW w \in Workers, WorkStep(w)
      PROVE  Still \/ (\E v \in Slots : Takes(w, v)) \/ (\E s \in Slots : Handles(w, s))
  <2>0. /\ \A v \in Workers \ {w} : wk'[v] = wk[v]
        /\ wk' \in [Workers -> Worker] /\ WellHeld(wk[w]) /\ wk[w] \in Worker
    BY <1>0, <1>2, WorkerStepLocal DEF WorkerShape
  <2>1. CASE WorkEvict(w)
    <3>1. PICK v \in Slots : /\ IsVictim(block_map, lru_scan_cursor, v)
                             /\ block_map' = Evicted(block_map, lru_scan_cursor, v)
                             /\ wk' = [wk EXCEPT ![w].pc = "mark", ![w].slot = v]
      BY <2>1 DEF WorkEvict
    <3>2. Valid(block_map, v) /\ ~Pinned(block_map, v)
      BY <3>1, VictimEvictable
    <3>3. /\ ~Valid(block_map', v)
          /\ \A t \in Slots \ {v} :
               /\ Valid(block_map', t) <=> Valid(block_map, t)
               /\ Pinned(block_map', t) <=> Pinned(block_map, t)
               /\ block_map'[t].source_lba = block_map[t].source_lba
      <4> DEFINE m == Evicted(block_map, lru_scan_cursor, v)
      <4>1. /\ ~Valid(m, v)
            /\ \A t \in Slots : /\ Valid(m, t) <=> Valid(block_map, t) /\ t # v
                                /\ Pinned(m, t) <=> Pinned(block_map, t)
                                /\ m[t].source_lba = block_map[t].source_lba
        BY <1>0, EvictedEntries
      <4> HIDE DEF m
      <4>2. block_map' = m
        BY <3>1 DEF m
      <4> QED
        BY <4>1, <4>2
    <3>4. wk[w].slot = NoSlot /\ ssd' = ssd
      BY <2>0, <2>1 DEF WorkEvict, WellHeld, Holding, disks
    <3>5. wk'[w].slot = v
      BY <1>0, <2>0, <3>1 DEF Worker
    <3> QED
      BY <2>0, <3>2, <3>3, <3>4, <3>5 DEF Takes
  <2>2. CASE WorkNoBuffer(w) \/ WorkMiss(w) \/ WorkNoVictim(w)
    BY <1>0, <2>0, <2>2 DEF WorkNoBuffer, WorkMiss, WorkNoVictim, IdleWorker, WellHeld, Holding,
       Worker, Still, shared, disks
  <2>3. CASE SourceRead(w) \/ SourceFail(w) \/ StoreRefused(w)
    BY <1>0, <2>0, <2>3 DEF SourceRead, SourceFail, StoreRefused, Worker, Still, shared, disks
  <2>4. CASE WorkCached(w)
    <3>1. PICK t \in Slots : block_map' = Touched(block_map, t, tick)
      BY <2>4 DEF WorkCached
    <3>2. SameEntries(block_map, block_map')
      BY <1>0, <3>1, TouchedEntries
    <3> QED
      BY <1>0, <2>0, <2>4, <3>2 DEF WorkCached, IdleWorker, WellHeld, Holding, Worker, Still, disks
  <2>5. CASE wk[w].pc \in Holding
    <3> DEFINE s == wk[w].slot
    <3>1. s \in Slots /\ ~Valid(block_map, s)
      BY <2>5, HeldSlot
    <3>2. CASE WorkMark(w)
      <4>1. ~Valid(block_map', s) /\ \A t \in Slots \ {s} : block_map'[t] = block_map[t]
        BY <1>0, <3>1, <3>2, MarkedEntries DEF WorkMark
      <4>2. wk'[w].slot = s /\ ssd' = ssd
        BY <1>0, <2>0, <3>2 DEF WorkMark, Worker, disks
      <4> QED
        BY <2>0, <3>1, <4>1, <4>2 DEF Handles
    <3>3. CASE StoreBegin(w) \/ StoreEnd(w) \/ StoreFail(w)
      <4>1. block_map' = block_map /\ wk'[w].slot = s
        BY <1>0, <2>0, <3>3 DEF StoreBegin, StoreEnd, StoreFail, Worker, shared
      <4>2. \A t \in Slots \ {s} : ssd'[t] = ssd[t]
        BY <1>0, <3>3 DEF StoreBegin, StoreEnd, StoreFail
      <4> QED
        BY <2>0, <3>1, <4>1, <4>2 DEF Handles
    <3>4. CASE WorkPublish(w)
      <4>1. wk[w].blk \in Blocks /\ ssd[s].blk = wk[w].blk
        BY <2>0, <3>4 DEF WorkPublish, WellHeld, CoreInv, StoredData
      <4>2. /\ Valid(block_map', s)
            /\ \A t \in Slots \ {s} : block_map'[t] = block_map[t]
        BY <1>0, <3>1, <3>4, <4>1, PublishedEntries DEF WorkPublish
      <4>3. wk'[w].slot = NoSlot /\ ssd' = ssd
        BY <1>0, <3>4 DEF WorkPublish, IdleWorker, disks
      <4> QED
        BY <2>0, <3>1, <4>1, <4>2, <4>3 DEF Handles
    <3>5. CASE WorkAbort(w)
      <4>1. /\ ~Valid(block_map', s)
            /\ \A t \in Slots \ {s} : block_map'[t] = block_map[t]
        BY <1>0, <3>1, <3>5, RestoredEntries DEF WorkAbort
      <4>2. wk'[w].slot = NoSlot /\ ssd' = ssd
        BY <1>0, <3>5 DEF WorkAbort, IdleWorker, disks
      <4> QED
        BY <2>0, <3>1, <4>1, <4>2 DEF Handles
    <3> QED
      BY <1>2, <2>1, <2>2, <2>3, <2>4, <3>2, <3>3, <3>4, <3>5 DEF WorkStep
  <2> QED
    BY <1>2, <2>1, <2>2, <2>3, <2>4, <2>5
    DEF WorkStep, WorkMark, StoreBegin, StoreEnd, StoreFail, WorkPublish, WorkAbort, Holding
<1>3. CASE (\E b \in Blocks : HostWrite(b)) \/ Tick \/ UNCHANGED vars
  BY <1>0, <1>3 DEF HostWrite, Tick, vars, shared, disks, Still
<1> QED
  BY <1>1, <1>2, <1>3 DEF Next

(* A VALID PINNED entry is evicted by no step and overwritten by none.       *)
THEOREM PinnedEntriesStay == Spec => PinnedStays
<1> DEFINE Kept == \A s \in Slots : Valid(block_map, s) /\ Pinned(block_map, s) =>
                     /\ Valid(block_map', s) /\ Pinned(block_map', s)
                     /\ block_map'[s].source_lba = block_map[s].source_lba
<1>1. ASSUME IndInv, [Next]_vars
      PROVE  Kept
  <2>1. CASE Still
    BY <2>1 DEF Still, SameEntries
  <2>2. ASSUME NEW w \in Workers, NEW v \in Slots, Takes(w, v)
        PROVE  Kept
    BY <2>2 DEF Takes
  <2>3. ASSUME NEW w \in Workers, NEW s \in Slots, Handles(w, s)
        PROVE  Kept
    BY <2>3 DEF Handles, Valid, Pinned
  <2> QED
    BY <1>1, <2>1, <2>2, <2>3, StepKinds DEF IndInv
<1>2. IndInv /\ [Next]_vars => [Kept]_vars
  BY <1>1
<1> QED
  BY <1>2, Invariance, PTL DEF Spec, PinnedStays

(* Only an eviction lowers the count. *)
LEMMA CountFalls ==
  ASSUME IndInv, [Next]_vars, cached_block_count' < cached_block_count
  PROVE  \E w \in Workers : WorkEvict(w)
<1>0. TypeOK /\ ReaderShape /\ cached_block_count \in Int
  BY DEF IndInv, CoreInv, MapInv, TypeOK
<1>1. cached_block_count' # cached_block_count /\ cached_block_count' # cached_block_count + 1
  BY <1>0
<1>2. ~\E r \in Readers : ReadArrive(r) \/ ReadStep(r)
  BY <1>0, <1>1, ReaderStepEffect DEF ReaderEffect
<1> QED
  BY <1>1, <1>2 DEF Next, WorkStep, WorkNoBuffer, WorkCached, WorkMiss, WorkNoVictim, WorkMark,
     SourceRead, SourceFail, StoreRefused, StoreBegin, StoreEnd, StoreFail, WorkPublish,
     WorkAbort, HostWrite, Tick, vars, shared

(* The hand comes closer to every unreferenced block an eviction leaves: it  *)
(* never jumps over one, so such a block waits at most N evictions.          *)
THEOREM HandNeverSkips == Spec => HandAdvances
<1> DEFINE Closer == cached_block_count' < cached_block_count =>
             \A s \in Unreferenced(block_map) : Valid(block_map', s) =>
               Dist(lru_scan_cursor', s) < Dist(lru_scan_cursor, s)
<1>1. ASSUME IndInv, [Next]_vars
      PROVE  Closer
  <2> SUFFICES ASSUME cached_block_count' < cached_block_count,
                      NEW s \in Unreferenced(block_map), Valid(block_map', s)
               PROVE  Dist(lru_scan_cursor', s) < Dist(lru_scan_cursor, s)
    OBVIOUS
  <2>1. PICK w \in Workers : WorkEvict(w)
    BY <1>1, CountFalls
  <2>2. PICK v \in Slots : /\ IsVictim(block_map, lru_scan_cursor, v)
                           /\ block_map' = Evicted(block_map, lru_scan_cursor, v)
                           /\ lru_scan_cursor' = NextCursor(v)
    BY <2>1 DEF WorkEvict
  <2>3. block_map \in Maps /\ lru_scan_cursor \in Slots /\ s \in Slots
    BY <1>1 DEF IndInv, CoreInv, MapInv, TypeOK, Maps, Unreferenced, Evictable
  <2>4. s # v
    BY <2>2, <2>3, EvictedEntries
  <2>5. Dist(lru_scan_cursor, v) <= Dist(lru_scan_cursor, s)
    BY <2>2 DEF IsVictim
  <2> QED
    BY <2>2, <2>3, <2>4, <2>5, NextCursorInRange, NAssumption DEF Dist, Slots
<1>2. IndInv /\ [Next]_vars => [Closer]_vars
  BY <1>1
<1> QED
  BY <1>2, Invariance, PTL DEF Spec, HandAdvances

-----------------------------------------------------------------------------
(* ReadCache implements SlotPool: what the slots hold, and who holds them,   *)
(* changes only by the three actions of the abstract protocol.               *)
content == [s \in Slots |-> IF Valid(block_map, s) THEN ssd[s].blk ELSE NoBlock]
held == [w \in Workers |-> wk[w].slot]

LEMMA PoolStart == Init => Pool!PoolInit
<1> SUFFICES ASSUME Init
             PROVE  Pool!PoolInit
  OBVIOUS
<1>1. block_map \in Maps
  BY LoadedAssumption DEF Init, Maps
<1>2. \A s \in Slots : Valid(block_map, s) => ssd[s].blk \in Blocks
  BY <1>1 DEF Init, Maps, Entry
<1>3. \A w \in Workers : wk[w].slot = NoSlot
  BY DEF Init, IdleWorker
<1> QED
  BY <1>2, <1>3 DEF Pool!PoolInit

LEMMA PoolStep == IndInv /\ [Next]_vars => [Pool!PoolNext]_<<content, held>>
<1> SUFFICES ASSUME IndInv, [Next]_vars
             PROVE  [Pool!PoolNext]_<<content, held>>
  OBVIOUS
<1>0. \A s \in Slots : s # NoSlot
  BY NAssumption DEF Slots, NoSlot
<1>1. CASE Still
  <2>1. content' = content /\ held' = held
    BY <1>1 DEF Still, SameEntries, content, held
  <2> QED
    BY <2>1
<1>2. ASSUME NEW w \in Workers, NEW v \in Slots, Takes(w, v)
      PROVE  Pool!PoolNext
  <2>1. content[v] # NoBlock
    BY <1>2, BlocksAssumption DEF IndInv, CoreInv, MapInv, TypeOK, ValidMatchesSsd, Takes, content, Entry, NoBlock
  <2>2. content' = [content EXCEPT ![v] = NoBlock]
    BY <1>2 DEF Takes, content
  <2>3. held[w] = NoSlot /\ held' = [held EXCEPT ![w] = v]
    BY <1>2 DEF Takes, held
  <2>4. Pool!Take(w, v)
    BY <2>1, <2>2, <2>3 DEF Pool!Take, content, held
  <2> QED
    BY <2>4 DEF Pool!PoolNext
<1>3. ASSUME NEW w \in Workers, NEW s \in Slots, Handles(w, s)
      PROVE  [Pool!PoolNext]_<<content, held>>
  <2>0. held[w] = s
    BY <1>3 DEF Handles, held
  <2>1. CASE wk'[w].slot = s /\ ~Valid(block_map', s)
    <3>1. content' = content /\ held' = held
      BY <1>3, <2>1 DEF Handles, Valid, content, held
    <3> QED
      BY <3>1
  <2>2. CASE wk'[w].slot = NoSlot /\ ~Valid(block_map', s)
    <3>1. content' = content
      BY <1>3, <2>2 DEF Handles, Valid, content
    <3>2. held' = [held EXCEPT ![w] = NoSlot]
      BY <1>3, <2>2 DEF Handles, held
    <3>3. Pool!Drop(w)
      BY <1>0, <2>0, <3>1, <3>2 DEF Pool!Drop, content, held
    <3> QED
      BY <3>3 DEF Pool!PoolNext
  <2>3. CASE wk'[w].slot = NoSlot /\ Valid(block_map', s) /\ ssd'[s].blk \in Blocks
    <3>0. PICK b \in Blocks : b = ssd'[s].blk
      BY <2>3
    <3>1. content' = [content EXCEPT ![s] = b]
      BY <1>3, <2>3, <3>0 DEF Handles, Valid, content
    <3>2. held' = [held EXCEPT ![w] = NoSlot]
      BY <1>3, <2>3 DEF Handles, held
    <3>3. Pool!Fill(w, b)
      BY <1>0, <2>0, <3>1, <3>2 DEF Pool!Fill, content, held
    <3> QED
      BY <3>3 DEF Pool!PoolNext
  <2> QED
    BY <1>3, <2>1, <2>2, <2>3 DEF Handles
<1> QED
  BY <1>1, <1>2, <1>3, StepKinds DEF IndInv

(* The refinement: every behaviour of a session is one of SlotPool.          *)
THEOREM ImplementsSlotPool == Spec => ImplementsPool
<1>1. [Pool!PoolNext]_<<content, held>> => [Pool!PoolNext]_Pool!pool
  BY DEF Pool!pool, content, held
<1> QED
  BY <1>1, PoolStart, PoolStep, Invariance, PTL DEF Spec, ImplementsPool, Pool!PoolSpec

=============================================================================
